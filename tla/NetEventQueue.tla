---------------------------- MODULE NetEventQueue ----------------------------
(***************************************************************************)
(* The cross-thread event queue of the network layer, in its two stages:   *)
(* the items of one socket (CBasicNet_Socket::m_smBuf, m_smIOCPBuf) and    *)
(* the sockets with items of one network thread (CNetThread::m_smBuf,      *)
(* m_smRunBuf), with the socket pair that wakes the thread.                *)
(*                                                                         *)
(* An action is what runs between two points where another thread can be   *)
(* seen: one section under a spin lock, one send or recv on the pair, one  *)
(* item's function.  Network threads post too: from a queued item          *)
(* ("callback") or from a libevent callback ("poll").                      *)
(***************************************************************************)
EXTENDS Integers, Sequences, FiniteSets

CONSTANTS
  Users,       (* the threads that are not network threads                 *)
  NetThreads,  (* the network threads, g_pEventThreads                     *)
  Sockets,
  ThreadOf,    (* CBasicNet_Socket::m_pThread, fixed at construction       *)
  MaxPosts,    (* bound: SetEvent calls of one thread for one socket       *)
  None         (* no socket, no thread                                     *)

ASSUME QueueAssumption ==
  /\ Users \cap NetThreads = {}
  /\ ThreadOf \in [Sockets -> NetThreads]
  /\ MaxPosts \in Nat
  /\ None \notin Sockets \cup NetThreads

VARIABLES
  sockBuf,     (* items appended to a socket, not yet taken                *)
  sockRun,     (* items taken by RunSocketCallFunc, not yet called         *)
  thrBuf,      (* sockets appended to a thread, not yet taken              *)
  thrRun,      (* sockets taken by RunMessageQueue; the head is served     *)
  wakeBytes,   (* bytes in the socket pair m_pair                          *)
  netpc,       (* where each network thread is                             *)
  toRegister,  (* a thread between the two critical sections of a post:    *)
               (* the socket it is about to hand to AddMessageQueue        *)
  toWake,      (* a thread about to send the wake byte, and to whom        *)
  refs,        (* references to the session of each socket                 *)
  count,       (* history: SetEvent calls, per thread and socket           *)
  done         (* history: the functions run for each socket               *)

vars == <<sockBuf, sockRun, thrBuf, thrRun, wakeBytes, netpc,
          toRegister, toWake, refs, count, done>>

Actors == Users \cup NetThreads

Event == [from : Actors, n : Nat]
NextEvent(a, s) == [from |-> a, n |-> count[a][s] + 1]
Counted(a, s) == count' = [count EXCEPT ![a][s] = @ + 1]

-----------------------------------------------------------------------------
Init ==
  /\ sockBuf = [s \in Sockets |-> <<>>]
  /\ sockRun = [s \in Sockets |-> <<>>]
  /\ thrBuf = [t \in NetThreads |-> <<>>]
  /\ thrRun = [t \in NetThreads |-> <<>>]
  /\ wakeBytes = [t \in NetThreads |-> 0]
  /\ netpc = [t \in NetThreads |-> "poll"]
  /\ toRegister = [a \in Actors |-> None]
  /\ toWake = [a \in Actors |-> None]
  /\ refs = [s \in Sockets |-> 1]                   (* m_self              *)
  /\ count = [a \in Actors |-> [s \in Sockets |-> 0]]
  /\ done = [s \in Sockets |-> <<>>]

(* The thread is not inside SetEvent.                                      *)
Free(a) == toRegister[a] = None /\ toWake[a] = None

(* The thread runs code that may call SetEvent.                            *)
MayPost(a) == a \in NetThreads => netpc[a] \in {"poll", "callback"}

(* SetEvent on the socket's own thread: the function runs at once.         *)
SetEventDirect(t, s) ==
  /\ count[t][s] < MaxPosts
  /\ Free(t) /\ MayPost(t)
  /\ t = ThreadOf[s]
  /\ Counted(t, s)
  /\ done' = [done EXCEPT ![s] = Append(@, NextEvent(t, s))]
  /\ UNCHANGED <<sockBuf, sockRun, thrBuf, thrRun, wakeBytes, netpc,
                 toRegister, toWake, refs>>

(* SetEvent on another thread, up to the end of the critical section of    *)
(* AddSocketCallFunc: a reference, the item, and whether the socket has to *)
(* be registered, which it has when this item is its first.                *)
QueueItem(a, s, register) ==
  /\ count[a][s] < MaxPosts
  /\ Free(a) /\ MayPost(a)
  /\ a # ThreadOf[s]
  /\ Counted(a, s)
  /\ refs' = [refs EXCEPT ![s] = @ + 1]
  /\ sockBuf' = [sockBuf EXCEPT ![s] = Append(@, NextEvent(a, s))]
  /\ toRegister' = IF register THEN [toRegister EXCEPT ![a] = s]
                               ELSE toRegister
  /\ UNCHANGED <<sockRun, thrBuf, thrRun, wakeBytes, netpc, toWake, done>>

FaultLengthReadAfterAppend(a, s) == QueueItem(a, s, FALSE)
FaultRegistersEachItem(a, s) == QueueItem(a, s, TRUE)

SetEventQueued(a, s) == QueueItem(a, s, sockBuf[s] = <<>>)

(* AddMessageQueue up to the end of its critical section: a reference, the *)
(* socket, and whether the thread has to be woken, which it has when this  *)
(* socket is its first.                                                    *)
HandOver(a, s, t, wake) ==
  /\ toRegister[a] = s
  /\ t = ThreadOf[s]
  /\ refs' = [refs EXCEPT ![s] = @ + 1]
  /\ thrBuf' = [thrBuf EXCEPT ![t] = Append(@, s)]
  /\ toWake' = IF wake THEN [toWake EXCEPT ![a] = t] ELSE toWake
  /\ toRegister' = [toRegister EXCEPT ![a] = None]
  /\ UNCHANGED <<sockBuf, sockRun, thrRun, wakeBytes, netpc, count, done>>

FaultWakesNobody(a, s, t) == HandOver(a, s, t, FALSE)

AddMessageQueue(a, s, t) == HandOver(a, s, t, thrBuf[t] = <<>>)

(* The send of one byte that ends AddMessageQueue.                         *)
SendWake(a) ==
  /\ toWake[a] # None
  /\ wakeBytes' = [wakeBytes EXCEPT ![toWake[a]] = @ + 1]
  /\ toWake' = [toWake EXCEPT ![a] = None]
  /\ UNCHANGED <<sockBuf, sockRun, thrBuf, thrRun, netpc, toRegister, refs,
                 count, done>>

(* ReadSelfOrder: libevent found the pair readable; recv empties it.       *)
DrainPair(t) ==
  /\ netpc[t] = "poll" /\ Free(t)
  /\ wakeBytes[t] > 0
  /\ wakeBytes' = [wakeBytes EXCEPT ![t] = 0]
  /\ netpc' = [netpc EXCEPT ![t] = "swap"]
  /\ UNCHANGED <<sockBuf, sockRun, thrBuf, thrRun, toRegister, toWake, refs,
                 count, done>>

(* RunMessageQueue: the swap under m_lockMsg.                              *)
SwapThread(t) ==
  /\ netpc[t] = "swap"
  /\ thrRun' = [thrRun EXCEPT ![t] = thrBuf[t]]
  /\ thrBuf' = [thrBuf EXCEPT ![t] = thrRun[t]]
  /\ netpc' = [netpc EXCEPT ![t] = "serve"]
  /\ UNCHANGED <<sockBuf, sockRun, wakeBytes, toRegister, toWake, refs,
                 count, done>>

(* RunSocketCallFunc of the next socket: the swap under its m_lockMsg      *)
(* leaves the old m_smIOCPBuf in m_smBuf.                                  *)
TakeItems(t, s, left) ==
  /\ netpc[t] = "serve"
  /\ thrRun[t] # <<>>
  /\ s = Head(thrRun[t])
  /\ sockRun' = [sockRun EXCEPT ![s] = sockBuf[s]]
  /\ sockBuf' = [sockBuf EXCEPT ![s] = left]
  /\ netpc' = [netpc EXCEPT ![t] = "calls"]
  /\ UNCHANGED <<thrBuf, thrRun, wakeBytes, toRegister, toWake, refs, count,
                 done>>

FaultCopiesItems(t, s) == TakeItems(t, s, sockBuf[s])

SwapSocket(t, s) == TakeItems(t, s, sockRun[s])

(* RunSocketCallFunc calls the next item's function.                       *)
CallItem(t, s) ==
  /\ netpc[t] = "calls"
  /\ s = Head(thrRun[t])
  /\ sockRun[s] # <<>>
  /\ done' = [done EXCEPT ![s] = Append(@, Head(sockRun[s]))]
  /\ sockRun' = [sockRun EXCEPT ![s] = Tail(@)]
  /\ netpc' = [netpc EXCEPT ![t] = "callback"]
  /\ UNCHANGED <<sockBuf, thrBuf, thrRun, wakeBytes, toRegister, toWake,
                 refs, count>>

(* The function returns.                                                   *)
ItemReturns(t) ==
  /\ netpc[t] = "callback" /\ Free(t)
  /\ netpc' = [netpc EXCEPT ![t] = "calls"]
  /\ UNCHANGED <<sockBuf, sockRun, thrBuf, thrRun, wakeBytes, toRegister,
                 toWake, refs, count, done>>

(* Every item of the socket was called: RunMessageQueue gives back the     *)
(* reference AddMessageQueue took, and turns to the next socket.  (Nothing *)
(* gives back the references SetEvent took.)                               *)
LeaveSocket(t, s, given) ==
  /\ netpc[t] = "calls"
  /\ s = Head(thrRun[t])
  /\ sockRun[s] = <<>>
  /\ refs' = [refs EXCEPT ![s] = @ - given]
  /\ thrRun' = [thrRun EXCEPT ![t] = Tail(@)]
  /\ netpc' = [netpc EXCEPT ![t] = "serve"]
  /\ UNCHANGED <<sockBuf, sockRun, thrBuf, wakeBytes, toRegister, toWake,
                 count, done>>

FaultKeepsReference(t, s) == LeaveSocket(t, s, 0)

EndSocket(t, s) == LeaveSocket(t, s, 1)

(* No socket left: back to event_base_loop.                                *)
ToPoll(t, bytes, over) ==
  /\ netpc[t] = "serve"
  /\ over
  /\ netpc' = [netpc EXCEPT ![t] = "poll"]
  /\ wakeBytes' = [wakeBytes EXCEPT ![t] = bytes]
  /\ UNCHANGED <<sockBuf, sockRun, thrBuf, thrRun, toRegister, toWake, refs,
                 count, done>>

FaultDrainsAfterRun(t) == ToPoll(t, 0, thrRun[t] = <<>>)
FaultServesOneSocket(t) == ToPoll(t, wakeBytes[t], TRUE)

BackToPoll(t) == ToPoll(t, wakeBytes[t], thrRun[t] = <<>>)

Post(a) ==
  \E s \in Sockets : SetEventDirect(a, s) \/ SetEventQueued(a, s)
FinishPost(a) ==
  \/ \E s \in Sockets, t \in NetThreads : AddMessageQueue(a, s, t)
  \/ SendWake(a)
RunQueue(t) ==
  \/ DrainPair(t) \/ SwapThread(t)
  \/ \E s \in Sockets : SwapSocket(t, s) \/ CallItem(t, s) \/ EndSocket(t, s)
  \/ ItemReturns(t) \/ BackToPoll(t)

Next ==
  \/ \E a \in Actors : Post(a) \/ FinishPost(a)
  \/ \E t \in NetThreads : RunQueue(t)

SafeSpec == Init /\ [][Next]_vars

(* A thread inside SetEvent is scheduled until it leaves it, and a network *)
(* thread loops for ever; nobody is obliged to post.                       *)
Fairness ==
  /\ \A a \in Actors : WF_vars(FinishPost(a))
  /\ \A t \in NetThreads : WF_vars(RunQueue(t))

Spec == SafeSpec /\ Fairness

-----------------------------------------------------------------------------
(* The queue keeps the promise of EventMailbox: the two stages, the swaps  *)
(* and the wake-up are invisible to the posters, and under the fairness    *)
(* above every function left in a mailbox is run.                          *)
Mail == INSTANCE EventMailbox
          WITH pending <- [s \in Sockets |-> sockRun[s] \o sockBuf[s]]

(* Safety: every step is a step of the mailbox or none.                    *)
MailboxKept == Mail!SafeSpec
(* Liveness too: a function left in a mailbox is eventually run.           *)
MailboxServed == Mail!Spec

-----------------------------------------------------------------------------
NetPCs == {"poll", "swap", "serve", "calls", "callback"}

(* The thread is inside RunSocketCallFunc of the socket at its head.       *)
Serving(t) == netpc[t] \in {"calls", "callback"}

StateTypes ==
  /\ sockBuf \in [Sockets -> Seq(Event)]
  /\ sockRun \in [Sockets -> Seq(Event)]
  /\ thrBuf \in [NetThreads -> Seq(Sockets)]
  /\ thrRun \in [NetThreads -> Seq(Sockets)]
  /\ wakeBytes \in [NetThreads -> Nat]
  /\ netpc \in [NetThreads -> NetPCs]
  /\ toRegister \in [Actors -> Sockets \cup {None}]
  /\ toWake \in [Actors -> NetThreads \cup {None}]
  /\ refs \in [Sockets -> Int]
  /\ count \in [Actors -> [Sockets -> Nat]]
  /\ done \in [Sockets -> Seq(Event)]

(* What a network thread keeps to itself: m_smRunBuf is empty outside      *)
(* RunMessageQueue, and its queue holds sockets of that thread only.       *)
ThreadPrivate(t) ==
  /\ netpc[t] \in {"poll", "swap"} => thrRun[t] = <<>>
  /\ Serving(t) => thrRun[t] # <<>>
  /\ \A i \in 1 .. Len(thrBuf[t]) : ThreadOf[thrBuf[t][i]] = t
  /\ \A i \in 1 .. Len(thrRun[t]) : ThreadOf[thrRun[t][i]] = t

(* m_smIOCPBuf of a socket is empty outside RunSocketCallFunc.             *)
SocketPrivate(s) ==
  sockRun[s] # <<>> =>
    /\ Serving(ThreadOf[s])
    /\ Head(thrRun[ThreadOf[s]]) = s

(* A thread is in one place of SetEvent.                                   *)
OnePlace(a) == toRegister[a] = None \/ toWake[a] = None

PrivateBuffers ==
  /\ \A t \in NetThreads : ThreadPrivate(t)
  /\ \A s \in Sockets : SocketPrivate(s)
  /\ \A a \in Actors : OnePlace(a)

(* The types of the two queues, with what is private to a network thread.  *)
TypeOK == StateTypes /\ PrivateBuffers

(* Where a socket can wait for its network thread: with a thread that is   *)
(* about to call AddMessageQueue, in m_smBuf of the network thread, or in  *)
(* m_smRunBuf, where the one being served no longer waits.                 *)
Entries(s, queue) == {i \in 1 .. Len(queue) : queue[i] = s}

Posting(s) == {a \in Actors : toRegister[a] = s}
Queued(s) == Entries(s, thrBuf[ThreadOf[s]])
Awaiting(s) ==
  {i \in Entries(s, thrRun[ThreadOf[s]]) : Serving(ThreadOf[s]) => i # 1}

Registered(s) == Posting(s) # {} \/ Queued(s) # {} \/ Awaiting(s) # {}

(* A socket is registered exactly when it has items: an item appended      *)
(* while the network thread is at work is never left behind because its    *)
(* poster saw a length that was not zero, and the thread never visits a    *)
(* socket in vain (AddSocketCallFunc against RunSocketCallFunc).           *)
NoStrandedItem ==
  \A s \in Sockets : sockBuf[s] # <<>> <=> Registered(s)

(* A thread with registered sockets is awake or has a byte coming: the     *)
(* drain before the swap in ReadSelfOrder loses no wake-up                 *)
(* (AddMessageQueue against ReadSelfOrder and RunMessageQueue).            *)
NoLostWakeup ==
  \A t \in NetThreads : thrBuf[t] # <<>> =>
    \/ wakeBytes[t] > 0
    \/ netpc[t] = "swap"
    \/ \E a \in Actors : toWake[a] = t

(* A socket is registered at most once, at one place: so the queue of a    *)
(* thread is never longer than its sockets are many, and a socket is never *)
(* served from two entries (AddSocketCallFunc, AddMessageQueue,            *)
(* RunMessageQueue).                                                       *)
SocketOnce(s) ==
  /\ \A a, b \in Posting(s) : a = b
  /\ \A i, j \in Queued(s) : i = j
  /\ \A i, j \in Awaiting(s) : i = j
  /\ Posting(s) = {} \/ Queued(s) = {}
  /\ Posting(s) = {} \/ Awaiting(s) = {}
  /\ Queued(s) = {} \/ Awaiting(s) = {}
RegisteredOnce == \A s \in Sockets : SocketOnce(s)

(* What the queue does to the reference count of a session: one reference  *)
(* for m_self, one for each entry of the socket in the thread's queue (two *)
(* when it is registered again while it is served), and one for each item  *)
(* ever queued, run or not (AddRef in SetEvent and AddMessageQueue, DelRef *)
(* in RunMessageQueue).  So a session with an entry or an item left can    *)
(* not be freed by its owner's release.                                    *)
RunFromQueue(s) ==
  {i \in 1 .. Len(done[s]) : done[s][i].from # ThreadOf[s]}

RefLedger ==
  \A s \in Sockets :
    refs[s] = 1 + Len(sockBuf[s]) + Len(sockRun[s])
                + Cardinality(RunFromQueue(s))
                + Cardinality(Entries(s, thrBuf[ThreadOf[s]]))
                + Cardinality(Entries(s, thrRun[ThreadOf[s]]))
=============================================================================
