--------------------------- MODULE SessionLifetime ---------------------------
(***************************************************************************)
(* Who keeps a session alive: its reference count, its reference to itself *)
(* (CBasicSessionNet::m_self), the raw pointers the timer thread keeps     *)
(* (m_vtOnTimerList), and SafeDelete, which takes the session off that     *)
(* list and gives the last reference to the list of the dead               *)
(* (m_vtDeathSession).                                                     *)
(*                                                                         *)
(* todo[a] is the stack of what thread a still has to do, one step for     *)
(* each section under a lock and each change of a count.  The cross-thread *)
(* queue is taken in the form NetEventQueue shows it to keep; one network  *)
(* thread serves all sessions (another one posts as any thread does).      *)
(***************************************************************************)
EXTENDS Integers, Sequences, FiniteSets

CONSTANTS
  Users,        (* threads other than the two below                        *)
  Net, Timer,   (* the network thread and the timer thread                 *)
  Sessions,
  Owner,        (* the thread that creates and deletes a session           *)
  Calls,        (* triples <<thread, method, session>>: who may call what   *)
  SyncLookups,  (* the sessions evdns may answer before it returns         *)
  MaxPosts,     (* bound: queued calls of a session                        *)
  MaxDeletes,   (* bound: SafeDelete calls of a session                    *)
  MaxConnects,  (* bound: connections and name lookups of a session        *)
  None          (* no session                                              *)

Threads == Users \cup {Net, Timer}

ASSUME LifetimeAssumption ==
  /\ Net \notin Users /\ Timer \notin Users /\ Net # Timer
  /\ Owner \in [Sessions -> Threads]
  /\ SyncLookups \subseteq Sessions
  /\ MaxPosts \in Nat /\ MaxDeletes \in Nat /\ MaxConnects \in Nat
  /\ None \notin Sessions

VARIABLES
  life,       (* "none" before construction, "freed" after the destructor  *)
  refs,       (* EnableRefPtr::m_lRef                                      *)
  self,       (* m_self holds the pointer                                  *)
  open,       (* m_socketfd is a socket                                    *)
  items,      (* queued calls of a session, not yet taken                  *)
  queued,     (* entries of a session in the network thread's queue        *)
  serving,    (* the session whose queued calls are being run              *)
  batch,      (* its calls taken and not yet run                           *)
  lookups,    (* name lookups evdns has yet to answer                      *)
  todo,       (* per thread: steps <<what, session>> still to do           *)
  addList, delList, deaths,     (* m_vtAddList, m_vtDelList, and how often *)
                                (* a session is in m_vtDeathSession        *)
  timerList,  (* m_vtOnTimerList                                           *)
  deathsDeal, (* m_vtDeathSessionDeal                                      *)
  toTick,     (* sessions the timer's round has yet to visit               *)
  posts, deletes, connects      (* history: the bounded calls              *)

queueVars == <<items, queued, serving, batch>>
timerVars == <<addList, delList, deaths, timerList, deathsDeal, toTick>>
vars == <<life, refs, self, open, queueVars, lookups, todo, timerVars,
          posts, deletes, connects>>

Each(x) == [s \in Sessions |-> x]

Init ==
  /\ life = Each("none") /\ refs = Each(0)
  /\ self = Each(FALSE) /\ open = Each(FALSE)
  /\ items = Each(<<>>) /\ queued = Each(0)
  /\ serving = None /\ batch = <<>>
  /\ lookups = Each(0)
  /\ todo = [a \in Threads |-> <<>>]
  /\ addList = {} /\ delList = {} /\ deaths = Each(0)
  /\ timerList = {} /\ deathsDeal = Each(0) /\ toTick = {}
  /\ posts = Each(0) /\ deletes = Each(0) /\ connects = Each(0)

-----------------------------------------------------------------------------
AddRef(s) == refs' = [refs EXCEPT ![s] = @ + 1] /\ UNCHANGED life
DelRef(s) ==
  /\ refs' = [refs EXCEPT ![s] = @ - 1]
  /\ life' = IF refs[s] = 1 THEN [life EXCEPT ![s] = "freed"] ELSE life
NoRef == UNCHANGED <<refs, life>>

At(a, what, s) == todo[a] # <<>> /\ Head(todo[a]) = <<what, s>>
Replace(a, steps) == todo' = [todo EXCEPT ![a] = steps \o Tail(@)]
Done(a) == Replace(a, <<>>)
Idle(a) == todo[a] = <<>>

(* What the network thread does for a queued call.                         *)
Work(item, s) ==
  CASE item = "close"  -> << <<"tryClose", s>> >>
    [] item = "delete" -> << <<"close", s>>, <<"unlist", s>> >>
    [] item = "lookup" -> << <<"ask", s>> >>
    [] item = "init"   -> <<>>

(* SetLibEvent: at once on the session's own thread, else a reference and  *)
(* an item, and the session handed to the thread if it was the first one.  *)
SetEventOf(a, s, item, rest, after, first) ==
  IF a = Net
  THEN /\ todo' = [todo EXCEPT ![a] = Work(item, s) \o after \o rest]
       /\ NoRef /\ UNCHANGED <<queueVars, posts>>
  ELSE /\ posts[s] < MaxPosts
       /\ posts' = [posts EXCEPT ![s] = @ + 1]
       /\ AddRef(s)
       /\ items' = [items EXCEPT ![s] = Append(@, item)]
       /\ LET register == IF first THEN << <<"register", s>> >> ELSE <<>>
          IN todo' = [todo EXCEPT ![a] = register \o after \o rest]
       /\ UNCHANGED <<queued, serving, batch>>

FaultRegistersEachItem(a, s, item, rest, after) ==
  SetEventOf(a, s, item, rest, after, TRUE)

SetLibEvent(a, s, item, rest, after) ==
  SetEventOf(a, s, item, rest, after, items[s] = <<>>)

(* AddMessageQueue.                                                        *)
HandOver(a, s, referenced) ==
  /\ At(a, "register", s)
  /\ IF referenced THEN AddRef(s) ELSE NoRef
  /\ queued' = [queued EXCEPT ![s] = @ + 1]
  /\ Done(a)
  /\ UNCHANGED <<self, open, items, serving, batch, lookups, timerVars,
                 posts, deletes, connects>>

FaultTakesNoReference(a, s) == HandOver(a, s, FALSE)

Register(a, s) == HandOver(a, s, TRUE)

-----------------------------------------------------------------------------
(* The calls.  `rest` is what the calling thread goes back to.             *)
Close(a, s, rest) ==
  /\ <<a, "Close", s>> \in Calls
  /\ open[s]
  /\ SetLibEvent(a, s, "close", rest, <<>>)
  /\ UNCHANGED <<self, open, lookups, timerVars, deletes, connects>>

SafeDelete(a, s, rest) ==
  /\ <<a, "SafeDelete", s>> \in Calls
  /\ deletes[s] < MaxDeletes
  /\ self[s]
  /\ deletes' = [deletes EXCEPT ![s] = @ + 1]
  /\ SetLibEvent(a, s, "delete", rest, << <<"release", s>>, <<"clear", s>> >>)
  /\ UNCHANGED <<self, open, lookups, timerVars, connects>>

(* To an address: the calling thread sets m_socketfd.                      *)
Connect(a, s, rest) ==
  /\ <<a, "Connect", s>> \in Calls
  /\ connects[s] < MaxConnects
  /\ deletes[s] = 0 /\ ~open[s]
  /\ connects' = [connects EXCEPT ![s] = @ + 1]
  /\ open' = [open EXCEPT ![s] = TRUE]
  /\ SetLibEvent(a, s, "init", rest, <<>>)
  /\ UNCHANGED <<self, lookups, timerVars, deletes>>

(* To a name: the network thread has to look it up.                        *)
ConnectByName(a, s, rest) ==
  /\ <<a, "ConnectByName", s>> \in Calls
  /\ connects[s] < MaxConnects
  /\ deletes[s] = 0 /\ ~open[s]
  /\ connects' = [connects EXCEPT ![s] = @ + 1]
  /\ SetLibEvent(a, s, "lookup", rest, <<>>)
  /\ UNCHANGED <<self, open, lookups, timerVars, deletes>>

Call(a, s, rest) ==
  \/ Close(a, s, rest) \/ SafeDelete(a, s, rest)
  \/ Connect(a, s, rest) \/ ConnectByName(a, s, rest)

(* CreateNetWithClient.  (Nothing sees the session until this is over but  *)
(* the timer, which is given it in the middle.)                            *)
Create(s) ==
  LET a == Owner[s] IN
  /\ life[s] = "none"
  /\ Idle(a)
  /\ a = Net => serving = None
  /\ life' = [life EXCEPT ![s] = "live"]
  /\ refs' = [refs EXCEPT ![s] = 1]
  /\ self' = [self EXCEPT ![s] = TRUE]
  /\ addList' = addList \cup {s}
  /\ UNCHANGED <<open, queueVars, lookups, todo, delList, deaths, timerList,
                 deathsDeal, toTick, posts, deletes, connects>>

(* The owner uses a session until it deletes it.                           *)
OwnerCall(a, s) ==
  /\ a = Owner[s]
  /\ Idle(a)
  /\ a = Net => serving = None
  /\ life[s] # "none" /\ deletes[s] = 0
  /\ Call(a, s, <<>>)

(* A callback of the session calls one method, or none.                    *)
CallbackCalls(a, s) == At(a, "callback", s) /\ Call(a, s, Tail(todo[a]))
CallbackReturns(a, s) ==
  /\ At(a, "callback", s)
  /\ Done(a)
  /\ UNCHANGED <<life, refs, self, open, queueVars, lookups, timerVars,
                 posts, deletes, connects>>

-----------------------------------------------------------------------------
(* The rest of SafeDelete: m_self = nullptr first gives back the reference *)
(* and then writes the pointer.                                            *)
Release(a, s) ==
  /\ At(a, "release", s)
  /\ DelRef(s)
  /\ Done(a)
  /\ UNCHANGED <<self, open, queueVars, lookups, timerVars, posts, deletes,
                 connects>>

Clear(a, s) ==
  /\ At(a, "clear", s)
  /\ self' = [self EXCEPT ![s] = FALSE]
  /\ Done(a)
  /\ UNCHANGED <<life, refs, open, queueVars, lookups, timerVars, posts,
                 deletes, connects>>

(* CloseCallback closes an open socket and then calls OnDisconnect; a      *)
(* Close without must-close may find that CanClose says no.                *)
CloseCallback(s) ==
  /\ \E what \in {"close", "tryClose"} : At(Net, what, s)
  /\ open' = [open EXCEPT ![s] = FALSE]
  /\ Replace(Net, IF open[s] THEN << <<"callback", s>> >> ELSE <<>>)
  /\ UNCHANGED <<life, refs, self, queueVars, lookups, timerVars, posts,
                 deletes, connects>>

CannotClose(s) ==
  /\ At(Net, "tryClose", s)
  /\ Done(Net)
  /\ UNCHANGED <<life, refs, self, open, queueVars, lookups, timerVars,
                 posts, deletes, connects>>

(* DelToTimer.                                                             *)
DelToTimer(s) ==
  /\ At(Net, "unlist", s)
  /\ delList' = delList \cup {s}
  /\ deaths' = [deaths EXCEPT ![s] = @ + 1]
  /\ AddRef(s)
  /\ Done(Net)
  /\ UNCHANGED <<self, open, queueVars, lookups, addList, timerList,
                 deathsDeal, toTick, posts, deletes, connects>>

(* The queued item of Connect to a name: evdns keeps the request, and a    *)
(* reference is taken, or it has called DNSParseConnectCallback already.   *)
Ask(s, referenced) ==
  /\ At(Net, "ask", s)
  /\ lookups' = [lookups EXCEPT ![s] = @ + 1]
  /\ IF referenced THEN AddRef(s) ELSE NoRef
  /\ Done(Net)
  /\ UNCHANGED <<self, open, queueVars, timerVars, posts, deletes, connects>>

FaultAsksWithoutReference(s) == Ask(s, FALSE)

AskLater(s) == Ask(s, TRUE)

AskAtOnce(s) ==
  /\ s \in SyncLookups
  /\ At(Net, "ask", s)
  /\ Replace(Net, << <<"answer", s>> >>)
  /\ UNCHANGED <<life, refs, self, open, queueVars, lookups, timerVars,
                 posts, deletes, connects>>

LookupAnswered(s) ==
  /\ Idle(Net) /\ serving = None
  /\ lookups[s] > 0
  /\ lookups' = [lookups EXCEPT ![s] = @ - 1]
  /\ todo' = [todo EXCEPT ![Net] = << <<"answer", s>> >>]
  /\ UNCHANGED <<life, refs, self, open, queueVars, timerVars, posts,
                 deletes, connects>>

(* DNSParseConnectCallback: RealOnConnect to the address, if there is one, *)
(* then the reference of the lookup goes.                                  *)
Answer(s, guarded) ==
  /\ At(Net, "answer", s)
  /\ \/ UNCHANGED open
     \/ /\ guarded => deletes[s] = 0
        /\ ~open[s]
        /\ open' = [open EXCEPT ![s] = TRUE]
  /\ Replace(Net, << <<"dropLookup", s>> >>)
  /\ UNCHANGED <<life, refs, self, queueVars, lookups, timerVars, posts,
                 deletes, connects>>

FaultConnectsDeleted(s) == Answer(s, FALSE)

DNSParseConnectCallback(s) == Answer(s, TRUE)

EndLookup(s, dropped) ==
  /\ At(Net, "dropLookup", s)
  /\ IF dropped THEN DelRef(s) ELSE NoRef
  /\ Done(Net)
  /\ UNCHANGED <<self, open, queueVars, lookups, timerVars, posts, deletes,
                 connects>>

FaultKeepsLookup(s) == EndLookup(s, FALSE)

DropLookup(s) == EndLookup(s, TRUE)

-----------------------------------------------------------------------------
(* The network thread between two steps: an event of an open socket, or    *)
(* RunMessageQueue.                                                        *)
Remote(s) ==
  /\ Idle(Net) /\ serving = None
  /\ open[s]
  /\ \E what \in {"close", "callback"} :
       todo' = [todo EXCEPT ![Net] = << <<what, s>> >>]
  /\ UNCHANGED <<life, refs, self, open, queueVars, lookups, timerVars,
                 posts, deletes, connects>>

ServeSocket(s) ==
  /\ Idle(Net) /\ serving = None
  /\ queued[s] > 0
  /\ queued' = [queued EXCEPT ![s] = @ - 1]
  /\ serving' = s
  /\ batch' = items[s]
  /\ items' = [items EXCEPT ![s] = <<>>]
  /\ UNCHANGED <<life, refs, self, open, lookups, todo, timerVars, posts,
                 deletes, connects>>

CallItem(s) ==
  /\ serving = s /\ Idle(Net)
  /\ batch # <<>>
  /\ todo' = [todo EXCEPT ![Net] = Work(Head(batch), s)]
  /\ batch' = Tail(batch)
  /\ UNCHANGED <<life, refs, self, open, items, queued, serving, lookups,
                 timerVars, posts, deletes, connects>>

LeaveSocket(s, dropped) ==
  /\ serving = s /\ Idle(Net)
  /\ batch = <<>>
  /\ serving' = None
  /\ IF dropped THEN DelRef(s) ELSE NoRef
  /\ UNCHANGED <<self, open, items, queued, batch, lookups, todo, timerVars,
                 posts, deletes, connects>>

FaultKeepsReference(s) == LeaveSocket(s, FALSE)

EndSocket(s) == LeaveSocket(s, TRUE)

-----------------------------------------------------------------------------
(* The timer's round: take the three lists, update m_vtOnTimerList, let    *)
(* the dead go one by one, and visit the sessions of the list.             *)
TimerRound(kept) ==
  /\ Idle(Timer) /\ toTick = {} /\ deathsDeal = Each(0)
  /\ timerList' = (timerList \cup addList) \ (delList \ kept)
  /\ toTick' = (timerList \cup addList) \ (delList \ kept)
  /\ addList' = {} /\ delList' = {}
  /\ deathsDeal' = deaths
  /\ deaths' = Each(0)
  /\ UNCHANGED <<life, refs, self, open, queueVars, lookups, todo, posts,
                 deletes, connects>>

FaultIgnoresNewcomers == TimerRound(addList)

TimerSwap == TimerRound({})

TimerClearsDeath(s) ==
  /\ Idle(Timer)
  /\ deathsDeal[s] > 0
  /\ deathsDeal' = [deathsDeal EXCEPT ![s] = @ - 1]
  /\ DelRef(s)
  /\ UNCHANGED <<self, open, queueVars, lookups, todo, addList, delList,
                 deaths, timerList, toTick, posts, deletes, connects>>

(* OnTimer of a session: it may close it, or reach a callback that does.   *)
OnTimer(s) ==
  /\ Idle(Timer) /\ deathsDeal = Each(0)
  /\ s \in toTick
  /\ toTick' = toTick \ {s}
  /\ todo' = [todo EXCEPT ![Timer] = << <<"callback", s>> >>]
  /\ UNCHANGED <<life, refs, self, open, queueVars, lookups, addList,
                 delList, deaths, timerList, deathsDeal, posts, deletes,
                 connects>>

-----------------------------------------------------------------------------
Steps(a, s) ==
  \/ Register(a, s) \/ Release(a, s) \/ Clear(a, s) \/ CallbackReturns(a, s)
NetSteps(s) ==
  \/ CloseCallback(s) \/ CannotClose(s) \/ DelToTimer(s)
  \/ AskLater(s) \/ AskAtOnce(s) \/ DNSParseConnectCallback(s)
  \/ DropLookup(s)
QueueSteps(s) == ServeSocket(s) \/ CallItem(s) \/ EndSocket(s)
TimerSteps ==
  \/ TimerSwap
  \/ \E s \in Sessions : TimerClearsDeath(s) \/ OnTimer(s)

Next ==
  \/ TimerSteps
  \/ \E s \in Sessions :
       \/ Create(s) \/ Remote(s) \/ LookupAnswered(s)
       \/ NetSteps(s) \/ QueueSteps(s)
       \/ \E a \in Threads : \/ OwnerCall(a, s) \/ CallbackCalls(a, s)
                             \/ Steps(a, s)

SafeSpec == Init /\ [][Next]_vars

(* Threads go on with what they do and the timer makes its rounds.  evdns  *)
(* answers (it has timeouts), and one pass of the event loop runs every    *)
(* source that is ready: neither a queue entry nor an answer is passed     *)
(* over for ever in favour of other events, hence SF.                      *)
Fairness ==
  /\ \A a \in Threads : WF_vars(\E s \in Sessions : Steps(a, s))
  /\ WF_vars(\E s \in Sessions : NetSteps(s) \/ QueueSteps(s))
  /\ \A s \in Sessions : SF_vars(ServeSocket(s)) /\ SF_vars(LookupAnswered(s))
  /\ WF_vars(TimerSteps)

Spec == SafeSpec /\ Fairness

-----------------------------------------------------------------------------
Live(s) == life[s] = "live"

(* The reference of m_self is there until a thread has given it back, just *)
(* before it clears the pointer.                                           *)
Clearing(s) == {a \in Threads : At(a, "clear", s)}
SelfRefs(s) == IF self[s] /\ Clearing(s) = {} THEN 1 ELSE 0

Answering(s) ==
  IF At(Net, "answer", s) \/ At(Net, "dropLookup", s) THEN 1 ELSE 0

Holders(s) ==
  SelfRefs(s) + posts[s] + queued[s] + (IF serving = s THEN 1 ELSE 0)
    + lookups[s] + Answering(s) + deaths[s] + deathsDeal[s]

StepNames == {"register", "callback", "release", "clear", "close",
              "tryClose", "unlist", "ask", "answer", "dropLookup"}

TypeOK ==
  /\ life \in [Sessions -> {"none", "live", "freed"}]
  /\ refs \in [Sessions -> Int]
  /\ self \in [Sessions -> BOOLEAN] /\ open \in [Sessions -> BOOLEAN]
  /\ items \in [Sessions -> Seq({"close", "delete", "init", "lookup"})]
  /\ batch \in Seq({"close", "delete", "init", "lookup"})
  /\ queued \in [Sessions -> 0 .. 1]
  /\ serving \in Sessions \cup {None}
  /\ todo \in [Threads -> Seq(StepNames \X Sessions)]
  /\ lookups \in [Sessions -> 0 .. MaxConnects]
  /\ deaths \in [Sessions -> 0 .. MaxDeletes]
  /\ deathsDeal \in [Sessions -> 0 .. MaxDeletes]
  /\ addList \subseteq Sessions /\ delList \subseteq Sessions
  /\ timerList \subseteq Sessions /\ toTick \subseteq timerList
  /\ posts \in [Sessions -> 0 .. MaxPosts]
  /\ deletes \in [Sessions -> 0 .. MaxDeletes]
  /\ connects \in [Sessions -> 0 .. MaxConnects]

(* Every reference of a session is accounted for: by m_self, by an entry   *)
(* in the network thread's queue, by a lookup, by an entry among the dead, *)
(* and by each call ever queued, whose reference nobody gives back; and    *)
(* the session is freed when there is none (AddRef and DelRef throughout   *)
(* net_mgr.cpp, net_client.cpp and net.cpp).  A lookup answered at once    *)
(* gives back a reference nobody took: its session may be one short for    *)
(* each.                                                                   *)
RefsExact ==
  \A s \in Sessions :
    /\ Live(s) <=> refs[s] > 0
    /\ refs[s] <= Holders(s)
    /\ refs[s] >= Holders(s) - (IF s \in SyncLookups THEN connects[s] ELSE 0)

(* The raw pointers of the timer thread are good: a session is off         *)
(* m_vtOnTimerList before the reference among the dead is cleared, so      *)
(* OnTimer is never called on a freed one (DelToTimer against OnTimer).    *)
TimerListAlive ==
  \A s \in addList \cup timerList \cup toTick : Live(s)

(* What a thread has still to do with a session finds it alive, but for    *)
(* the pointer written at the end of SafeDelete (see FreedWithoutSelf).    *)
UsesAlive ==
  /\ \A a \in Threads : \A i \in 1 .. Len(todo[a]) :
       todo[a][i][1] # "clear" => Live(todo[a][i][2])
  /\ serving # None => Live(serving)
  /\ \A s \in Sessions :
       items[s] # <<>> \/ queued[s] > 0 \/ lookups[s] > 0 => Live(s)

(* A session is never freed with its socket open (~CBasicNet_Socket).      *)
FreedClosed == \A s \in Sessions : life[s] = "freed" => ~open[s]

(* ~CBasicSessionNet asserts that m_self is null when a session is freed.  *)
FreedWithoutSelf == \A s \in Sessions : life[s] = "freed" => ~self[s]

(* The reference a lookup's answer gives back has been taken before        *)
(* (DNSParseConnectCallback against RealOnConnect).                        *)
LookupHeld ==
  \A s \in Sessions : At(Net, "dropLookup", s) => refs[s] >= Holders(s)

(* A session that was deleted is freed in the end, whatever is under way   *)
(* then, unless a call was ever queued for it: SetEvent takes a reference  *)
(* for each (net_mgr.cpp:382) that nobody gives back (SafeDelete, OnTimer, *)
(* DelToTimer).                                                            *)
FreedUnlessPosted ==
  \A s \in Sessions :
    deletes[s] > 0 ~> life[s] = "freed" \/ posts[s] > 0

(* A session that was deleted is freed in the end (net.h:173).             *)
FreedInTheEnd ==
  \A s \in Sessions : deletes[s] > 0 ~> life[s] = "freed"
=============================================================================
