------------------------ MODULE SessionLifetimeProofs ------------------------
(***************************************************************************)
(* Proofs about SessionLifetime for any number of threads, sessions, calls *)
(* and connections, and for every choice of who may call what: nothing is  *)
(* done to a freed session, and every reference is accounted for.          *)
(*                                                                         *)
(* The invariant says that the count of a session is the number of its     *)
(* holders, what holds the session while the timer has a raw pointer to it *)
(* or its socket is open, which steps may be before each thread, and that  *)
(* one thread at most is at the end of a session's deletion. The lemmas:   *)
(* what a step at one session leaves as it is (LocalStep, CalmStep,        *)
(* StackStep), how a step changes the number of holders (HoldersChange),   *)
(* and one lemma for each action.                                          *)
(*                                                                         *)
(* The types need none of it, nor what it assumes of the callers: they are *)
(* proved at the end, from an account of what is owed to each session.     *)
(***************************************************************************)
EXTENDS SessionLifetime, SequenceTheorems, FiniteSetTheorems, TLAPS

(* What the theorems assume of the callers: a session is deleted once, and *)
(* evdns answers no lookup before it returns. Lifetime_callback.cfg and    *)
(* Lifetime_lookup.cfg show what happens otherwise.                        *)
ProperUse == MaxDeletes <= 1 /\ SyncLookups = {}

-----------------------------------------------------------------------------
(* The stacks of steps that can be before a thread: one step, or a step of *)
(* a deletion with what the deletion has still to do.                      *)
One(n, s) == << <<n, s>> >>
Two(n, s) == << <<n, s>>, <<"unlist", s>> >>
Ending2(s) == << <<"release", s>>, <<"clear", s>> >>
Ending3(n, s) == << <<n, s>>, <<"release", s>>, <<"clear", s>> >>
Ending4(n, s) ==
  << <<n, s>>, <<"unlist", s>>, <<"release", s>>, <<"clear", s>> >>

Scripts ==
  {<<>>} \cup {One(n, s) : n \in StepNames, s \in Sessions}
         \cup {Two(n, s) : n \in StepNames, s \in Sessions}
         \cup {Ending2(s) : s \in Sessions}
         \cup {Ending3(n, s) : n \in StepNames, s \in Sessions}
         \cup {Ending4(n, s) : n \in StepNames, s \in Sessions}

LEMMA ScriptHeads ==
  ASSUME NEW n, NEW s
  PROVE  /\ One(n, s) # <<>> /\ Head(One(n, s)) = <<n, s>>
         /\ Two(n, s) # <<>> /\ Head(Two(n, s)) = <<n, s>>
         /\ Ending2(s) # <<>> /\ Head(Ending2(s)) = <<"release", s>>
         /\ Ending3(n, s) # <<>> /\ Head(Ending3(n, s)) = <<n, s>>
         /\ Ending4(n, s) # <<>> /\ Head(Ending4(n, s)) = <<n, s>>
BY DEF One, Two, Ending2, Ending3, Ending4

LEMMA ScriptTails ==
  ASSUME NEW n, NEW s
  PROVE  /\ Tail(One(n, s)) = <<>>
         /\ Tail(Two(n, s)) = One("unlist", s)
         /\ Tail(Ending2(s)) = One("clear", s)
         /\ Tail(Ending3(n, s)) = Ending2(s)
         /\ Tail(Ending4(n, s)) = Ending3("unlist", s)
BY DEF One, Two, Ending2, Ending3, Ending4

LEMMA ScriptJoins ==
  ASSUME NEW n, NEW s
  PROVE  /\ One(n, s) \o <<>> = One(n, s)
         /\ One(n, s) \o One("unlist", s) = Two(n, s)
         /\ One(n, s) \o Ending2(s) = Ending3(n, s)
         /\ One(n, s) \o Ending3("unlist", s) = Ending4(n, s)
         /\ Two(n, s) \o <<>> = Two(n, s)
         /\ Two(n, s) \o Ending2(s) = Ending4(n, s)
         /\ <<>> \o One(n, s) = One(n, s)
         /\ <<>> \o Ending2(s) = Ending2(s)
         /\ <<>> \o Ending3(n, s) = Ending3(n, s)
         /\ Ending2(s) \o <<>> = Ending2(s)
         /\ Ending3(n, s) \o <<>> = Ending3(n, s)
         /\ Ending4(n, s) \o <<>> = Ending4(n, s)
         /\ <<>> \o <<>> = <<>>
<1> DEFINE S == {<<n, s>>, <<"unlist", s>>, <<"release", s>>, <<"clear", s>>}
<1> USE DEF One, Two, Ending2, Ending3, Ending4
<1>0. /\ One(n, s) \in Seq(S) /\ One("unlist", s) \in Seq(S)
      /\ Two(n, s) \in Seq(S) /\ Ending2(s) \in Seq(S)
      /\ Ending3(n, s) \in Seq(S) /\ Ending3("unlist", s) \in Seq(S)
      /\ Ending4(n, s) \in Seq(S)
  OBVIOUS
<1>1. /\ One(n, s) \o <<>> = One(n, s) /\ <<>> \o One(n, s) = One(n, s)
      /\ Ending2(s) \o <<>> = Ending2(s) /\ <<>> \o Ending2(s) = Ending2(s)
      /\ Ending3(n, s) \o <<>> = Ending3(n, s)
      /\ <<>> \o Ending3(n, s) = Ending3(n, s)
      /\ Two(n, s) \o <<>> = Two(n, s)
      /\ Ending4(n, s) \o <<>> = Ending4(n, s)
  <2> HIDE DEF S, One, Two, Ending2, Ending3, Ending4
  <2> QED BY <1>0, ConcatEmptySeq
<1>2. One(n, s) \o One("unlist", s) = Two(n, s)
  <2>1. /\ One(n, s) \o One("unlist", s) \in Seq(S)
        /\ Len(One(n, s) \o One("unlist", s)) = 2
        /\ \A i \in 1 .. 2 : (One(n, s) \o One("unlist", s))[i]
             = IF i <= 1 THEN One(n, s)[i] ELSE One("unlist", s)[i - 1]
    BY <1>0, ConcatProperties
  <2>2. \A i \in 1 .. 2 : (One(n, s) \o One("unlist", s))[i] = Two(n, s)[i]
    BY <2>1
  <2>3. Len(Two(n, s)) = 2 /\ Two(n, s) \in Seq(S)
    BY <1>0
  <2> HIDE DEF S, One, Two, Ending2, Ending3, Ending4
  <2> QED BY <2>1, <2>2, <2>3, SeqEqual
<1>3. One(n, s) \o Ending2(s) = Ending3(n, s)
  <2>1. /\ One(n, s) \o Ending2(s) \in Seq(S)
        /\ Len(One(n, s) \o Ending2(s)) = 3
        /\ \A i \in 1 .. 3 : (One(n, s) \o Ending2(s))[i]
             = IF i <= 1 THEN One(n, s)[i] ELSE Ending2(s)[i - 1]
    BY <1>0, ConcatProperties
  <2>2. \A i \in 1 .. 3 : (One(n, s) \o Ending2(s))[i] = Ending3(n, s)[i]
    BY <2>1
  <2>3. Len(Ending3(n, s)) = 3 /\ Ending3(n, s) \in Seq(S)
    BY <1>0
  <2> HIDE DEF S, One, Two, Ending2, Ending3, Ending4
  <2> QED BY <2>1, <2>2, <2>3, SeqEqual
<1>4. One(n, s) \o Ending3("unlist", s) = Ending4(n, s)
  <2>1. /\ One(n, s) \o Ending3("unlist", s) \in Seq(S)
        /\ Len(One(n, s) \o Ending3("unlist", s)) = 4
        /\ \A i \in 1 .. 4 : (One(n, s) \o Ending3("unlist", s))[i]
             = IF i <= 1 THEN One(n, s)[i] ELSE Ending3("unlist", s)[i - 1]
    BY <1>0, ConcatProperties
  <2>2. \A i \in 1 .. 4 : (One(n, s) \o Ending3("unlist", s))[i] = Ending4(n, s)[i]
    BY <2>1
  <2>3. Len(Ending4(n, s)) = 4 /\ Ending4(n, s) \in Seq(S)
    BY <1>0
  <2> HIDE DEF S, One, Two, Ending2, Ending3, Ending4
  <2> QED BY <2>1, <2>2, <2>3, SeqEqual
<1>5. Two(n, s) \o Ending2(s) = Ending4(n, s)
  <2>1. /\ Two(n, s) \o Ending2(s) \in Seq(S)
        /\ Len(Two(n, s) \o Ending2(s)) = 4
        /\ \A i \in 1 .. 4 : (Two(n, s) \o Ending2(s))[i]
             = IF i <= 2 THEN Two(n, s)[i] ELSE Ending2(s)[i - 2]
    BY <1>0, ConcatProperties
  <2>2. \A i \in 1 .. 4 : (Two(n, s) \o Ending2(s))[i] = Ending4(n, s)[i]
    BY <2>1
  <2>3. Len(Ending4(n, s)) = 4 /\ Ending4(n, s) \in Seq(S)
    BY <1>0
  <2> HIDE DEF S, One, Two, Ending2, Ending3, Ending4
  <2> QED BY <2>1, <2>2, <2>3, SeqEqual
<1>6. <<>> \o <<>> = <<>>
  OBVIOUS
<1> HIDE DEF One, Two, Ending2, Ending3, Ending4
<1> QED BY <1>1, <1>2, <1>3, <1>4, <1>5, <1>6

-----------------------------------------------------------------------------
Items == {"close", "delete", "init", "lookup"}

Types ==
  /\ life \in [Sessions -> {"none", "live", "freed"}]
  /\ refs \in [Sessions -> Int]
  /\ self \in [Sessions -> BOOLEAN] /\ open \in [Sessions -> BOOLEAN]
  /\ items \in [Sessions -> Seq(Items)] /\ batch \in Seq(Items)
  /\ queued \in [Sessions -> Nat] /\ lookups \in [Sessions -> Nat]
  /\ serving \in Sessions \cup {None}
  /\ todo \in [Threads -> Scripts]
  /\ deaths \in [Sessions -> Nat] /\ deathsDeal \in [Sessions -> Nat]
  /\ addList \subseteq Sessions /\ delList \subseteq Sessions
  /\ timerList \subseteq Sessions /\ toTick \subseteq timerList
  /\ posts \in [Sessions -> Nat] /\ deletes \in [Sessions -> Nat]
  /\ connects \in [Sessions -> Nat]

(* The pointer to itself is counted; a call was queued, whose reference    *)
(* nobody gives back; the timer has no use for the session, or will not    *)
(* before another reference is given back.                                 *)
SelfHeld(s) == self[s] /\ \A a \in Threads : ~At(a, "clear", s)
Posted(s) == posts[s] > 0
Kept(s) == SelfHeld(s) \/ Posted(s)
Shut(s) == ~open[s] \/ Posted(s)
OffTimer(s) ==
  \/ Posted(s) \/ deaths[s] > 0
  \/ s \notin addList \cup timerList /\ todo[Timer] # One("callback", s)

(* What the stack q of the network thread says of s while it is at s, and  *)
(* the stack of another thread.                                            *)
Closing == {"close", "tryClose", "callback"}
NetForm(q, s) ==
  \/ \E n \in Closing \cup {"ask"} : q = One(n, s) /\ Kept(s)
  \/ \E n \in {"answer", "dropLookup"} : q = One(n, s)
  \/ /\ q = One("unlist", s) \/ \E n \in Closing : q = Two(n, s)
     /\ Posted(s) /\ deletes[s] > 0
  \/ q = Ending4("close", s)
  \/ /\ \/ q = Ending3("unlist", s)
        \/ \E n \in {"tryClose", "callback"} : q = Ending4(n, s)
     /\ Shut(s)
  \/ q = Ending2(s) /\ Shut(s) /\ OffTimer(s)
  \/ q = One("clear", s)

OtherForm(a, q, s) ==
  \/ a = Timer /\ q = One("callback", s)
  \/ /\ Posted(s)
     /\ \/ q = One("register", s) \/ q = Ending3("register", s)
        \/ q = Ending2(s) \/ q = One("clear", s)

Form(a, q, s) == IF a = Net THEN NetForm(q, s) ELSE OtherForm(a, q, s)

Forms ==
  \A a \in Threads : todo[a] = <<>> \/ \E s \in Sessions : Form(a, todo[a], s)

(* The stack ends with the rest of SafeDelete.                             *)
Ends(q, s) ==
  \/ q = One("clear", s) \/ q = Ending2(s)
  \/ \E n \in StepNames : q = Ending3(n, s) \/ q = Ending4(n, s)

Counted(s) == refs[s] = Holders(s)
Freed(s) == Live(s) <=> refs[s] > 0
Started(s) ==
  /\ life[s] = "none" => deletes[s] = 0
  /\ deletes[s] = 0 /\ life[s] # "none" => self[s]
Listed(s) ==
  /\ SelfHeld(s) \/ OffTimer(s)
  /\ deaths[s] > 0 => s \in delList
Opened(s) == open[s] => Kept(s)
Queued(s) ==
  /\ items[s] # <<>> => Posted(s)
  /\ \A i \in 1 .. Len(items[s]) : items[s][i] = "delete" => deletes[s] > 0
  /\ serving = s /\ batch # <<>> => Posted(s)
  /\ \A i \in 1 .. Len(batch) :
       serving = s /\ batch[i] = "delete" => deletes[s] > 0
EndedOnce(s) ==
  \A a \in Threads : Ends(todo[a], s) =>
    /\ deletes[s] > 0
    /\ todo[a] # One("clear", s) => self[s]
    /\ \A b \in Threads : Ends(todo[b], s) => a = b

SessionInv(s) ==
  /\ Counted(s) /\ Freed(s) /\ Started(s) /\ Listed(s)
  /\ Opened(s) /\ Queued(s) /\ EndedOnce(s)

IInv == Types /\ Forms /\ \A s \in Sessions : SessionInv(s)

-----------------------------------------------------------------------------
(* A stack that is not at s.                                               *)
Away(q, s) == q # <<>> => Head(q)[2] # s

LEMMA FormHead ==
  ASSUME NEW a, NEW q, NEW s, Form(a, q, s)
  PROVE  q # <<>> /\ Head(q)[2] = s
BY ScriptHeads DEF Form, NetForm, OtherForm

LEMMA EndsHead ==
  ASSUME NEW q, NEW s, Ends(q, s)
  PROVE  q # <<>> /\ Head(q)[2] = s
BY ScriptHeads DEF Ends

(* A step of thread a at session s leaves the other sessions as they are.  *)
Local(a, s) ==
  /\ \A r \in Sessions \ {s} :
       /\ life'[r] = life[r] /\ refs'[r] = refs[r] /\ self'[r] = self[r]
       /\ open'[r] = open[r] /\ items'[r] = items[r]
       /\ queued'[r] = queued[r] /\ lookups'[r] = lookups[r]
       /\ deaths'[r] = deaths[r] /\ deathsDeal'[r] = deathsDeal[r]
       /\ posts'[r] = posts[r] /\ deletes'[r] = deletes[r]
       /\ r \in addList' <=> r \in addList
       /\ r \in delList' <=> r \in delList
       /\ r \in timerList' <=> r \in timerList
  /\ \/ serving' = serving /\ batch' = batch
     \/ serving \in {s, None} /\ serving' \in {s, None}
  /\ \A b \in Threads \ {a} : todo'[b] = todo[b]
  /\ \A r \in Sessions \ {s} : Away(todo[a], r) /\ Away(todo'[a], r)

LEMMA OtherSessions ==
  ASSUME NEW a \in Threads, NEW s \in Sessions, NEW r \in Sessions \ {s},
         Types, Types', Local(a, s), SessionInv(r), None \notin Sessions
  PROVE  /\ SessionInv(r)'
         /\ \A b \in Threads : Form(b, todo[b], r) /\ b # a => Form(b, todo[b], r)'
<1>1. \A b \in Threads, n \in StepNames : At(b, n, r)' <=> At(b, n, r)
  BY DEF Local, Away, At
<1>2. \A b \in Threads : Ends(todo'[b], r) <=> Ends(todo[b], r)
  BY EndsHead DEF Local, Away
<1>3. todo'[Timer] = One("callback", r) <=> todo[Timer] = One("callback", r)
  BY ScriptHeads DEF Local, Away, Threads
<1>4. SelfHeld(r)' <=> SelfHeld(r)
  BY <1>1 DEF SelfHeld, Local, StepNames
<1>5. /\ Posted(r)' <=> Posted(r)
      /\ Kept(r)' <=> Kept(r)
      /\ Shut(r)' <=> Shut(r)
      /\ OffTimer(r)' <=> OffTimer(r)
  BY <1>3, <1>4 DEF Posted, Kept, Shut, OffTimer, Local
<1>6. Counted(r)'
  <2>1. SelfRefs(r)' = SelfRefs(r)
    BY <1>1 DEF SelfRefs, Clearing, Local, StepNames
  <2>2. Answering(r)' = Answering(r)
    BY <1>1 DEF Answering, StepNames, Threads
  <2>3. serving' = r <=> serving = r
    BY DEF Local
  <2> QED BY <2>1, <2>2, <2>3 DEF SessionInv, Counted, Holders, Local
<1>7. Freed(r)' /\ Started(r)' /\ Opened(r)'
  BY <1>5 DEF SessionInv, Freed, Started, Opened, Live, Local
<1>8. Listed(r)'
  BY <1>4, <1>5 DEF SessionInv, Listed, Local
<1>9. Queued(r)'
  BY <1>5 DEF SessionInv, Queued, Local
<1>10. EndedOnce(r)'
  <2>1. \A b \in Threads : todo'[b] = One("clear", r) <=> todo[b] = One("clear", r)
    BY ScriptHeads DEF Local, Away
  <2> QED BY <1>2, <2>1 DEF SessionInv, EndedOnce, Local
<1>11. ASSUME NEW b \in Threads, b # a, Form(b, todo[b], r)
       PROVE  Form(b, todo[b], r)'
  <2>1. todo'[b] = todo[b] /\ deletes'[r] = deletes[r]
    BY <1>11 DEF Local
  <2> QED BY <1>5, <1>11, <2>1 DEF Form, NetForm, OtherForm
<1> QED BY <1>6, <1>7, <1>8, <1>9, <1>10, <1>11 DEF SessionInv

(* What is left to show of a step of one thread at one session.            *)
LEMMA LocalStep ==
  ASSUME IInv, Types', None \notin Sessions,
         NEW a \in Threads, NEW s \in Sessions, Local(a, s), SessionInv(s)',
         (todo[a] = <<>> \/ Form(a, todo[a], s))',
         \A b \in Threads : b # a /\ Form(b, todo[b], s) => Form(b, todo[b], s)'
  PROVE  IInv'
<1>1. \A r \in Sessions : SessionInv(r)'
  BY OtherSessions DEF IInv
<1>2. ASSUME NEW b \in Threads
      PROVE  (todo[b] = <<>> \/ \E r \in Sessions : Form(b, todo[b], r))'
  <2>1. CASE b = a
    BY <2>1
  <2>2. CASE b # a
    <3>1. todo'[b] = todo[b]
      BY <2>2 DEF Local
    <3>2. CASE todo[b] = <<>>
      BY <3>1, <3>2
    <3>3. CASE \E r \in Sessions : Form(b, todo[b], r)
      <4>1. PICK r \in Sessions : Form(b, todo[b], r)
        BY <3>3
      <4>2. Form(b, todo[b], r)'
        BY <2>2, <4>1, OtherSessions DEF IInv
      <4> QED BY <4>2
    <3> QED BY <3>2, <3>3 DEF IInv, Forms
  <2> QED BY <2>1, <2>2
<1> QED BY <1>1, <1>2 DEF IInv, Forms

LEMMA AtForm ==
  ASSUME IInv, NEW a \in Threads, NEW n, NEW s, At(a, n, s)
  PROVE  Form(a, todo[a], s)
BY FormHead DEF IInv, Forms, At

(* The stacks of other threads stay as good as they were.                  *)
LEMMA FormsKept ==
  ASSUME NEW a \in Threads, NEW s \in Sessions,
         \A b \in Threads \ {a} : todo'[b] = todo[b],
         Posted(s) => Posted(s)', deletes[s] > 0 => deletes'[s] > 0,
         \/ a = Net
         \/ /\ Kept(s) => Kept(s)'
            /\ Shut(s) => Shut(s)'
            /\ OffTimer(s) => OffTimer(s)'
  PROVE  \A b \in Threads : b # a /\ Form(b, todo[b], s) => Form(b, todo[b], s)'
BY DEF Form, NetForm, OtherForm

LEMMA SameHeld ==
  ASSUME NEW a \in Threads, NEW s \in Sessions, self'[s] = self[s],
         \A b \in Threads \ {a} : todo'[b] = todo[b],
         At(a, "clear", s)' <=> At(a, "clear", s)
  PROVE  (SelfHeld(s)' <=> SelfHeld(s)) /\ SelfRefs(s)' = SelfRefs(s)
<1>1. \A b \in Threads : At(b, "clear", s)' <=> At(b, "clear", s)
  BY DEF At
<1> QED BY <1>1 DEF SelfHeld, SelfRefs, Clearing

(* A step that changes the stack of its thread, and perhaps the socket.    *)
Calm(s) ==
  /\ life'[s] = life[s] /\ refs'[s] = refs[s] /\ self'[s] = self[s]
  /\ items'[s] = items[s] /\ queued'[s] = queued[s]
  /\ serving' = serving /\ batch' = batch
  /\ lookups'[s] = lookups[s]
  /\ deaths'[s] = deaths[s] /\ deathsDeal'[s] = deathsDeal[s]
  /\ s \in addList' <=> s \in addList
  /\ s \in delList' <=> s \in delList
  /\ s \in timerList' <=> s \in timerList
  /\ posts'[s] = posts[s]

LEMMA CalmStep ==
  ASSUME IInv, Types', None \notin Sessions,
         NEW a \in Threads, NEW s \in Sessions, Local(a, s), Calm(s),
         deletes'[s] = deletes[s],
         At(a, "clear", s)' <=> At(a, "clear", s),
         Answering(s)' = Answering(s),
         open'[s] => open[s] \/ (Kept(s) /\ a = Net),
         Ends(todo'[a], s) => /\ Ends(todo[a], s)
                              /\ todo'[a] # One("clear", s) => todo[a] # One("clear", s),
         todo'[Timer] = One("callback", s) =>
           todo[Timer] = One("callback", s) \/ s \in timerList,
         (todo[a] = <<>> \/ Form(a, todo[a], s))'
  PROVE  IInv'
<1>1. \A b \in Threads \ {a} : todo'[b] = todo[b]
  BY DEF Local
<1>2. (SelfHeld(s)' <=> SelfHeld(s)) /\ SelfRefs(s)' = SelfRefs(s)
  BY <1>1, SameHeld DEF Calm
<1>3. /\ Posted(s)' <=> Posted(s)
      /\ Kept(s)' <=> Kept(s)
      /\ a # Net => (Shut(s) => Shut(s)')
      /\ OffTimer(s) => OffTimer(s)'
  BY <1>2 DEF Posted, Kept, Shut, OffTimer, Calm
<1>4. \A b \in Threads : b # a /\ Form(b, todo[b], s) => Form(b, todo[b], s)'
  BY <1>1, <1>3, FormsKept
<1>s. SessionInv(s)
  BY DEF IInv
<1>5. Counted(s)'
  BY <1>2, <1>s DEF SessionInv, Counted, Holders, Calm
<1>6. Freed(s)' /\ Started(s)'
  BY <1>s DEF SessionInv, Freed, Started, Live, Calm
<1>7. Listed(s)' /\ Opened(s)'
  BY <1>2, <1>3, <1>s DEF SessionInv, Listed, Opened, Calm
<1>8. Queued(s)'
  BY <1>3, <1>s DEF SessionInv, Queued, Calm
<1>9. EndedOnce(s)'
  BY <1>1, <1>s DEF SessionInv, EndedOnce, Calm
<1>10. SessionInv(s)'
  BY <1>5, <1>6, <1>7, <1>8, <1>9 DEF SessionInv
<1> QED BY <1>4, <1>10, LocalStep

-----------------------------------------------------------------------------
LEMMA ScriptsAre ==
  ASSUME NEW n \in StepNames, NEW s \in Sessions
  PROVE  /\ <<>> \in Scripts /\ One(n, s) \in Scripts /\ Two(n, s) \in Scripts
         /\ Ending2(s) \in Scripts /\ Ending3(n, s) \in Scripts
         /\ Ending4(n, s) \in Scripts
BY DEF Scripts

LEMMA ScriptEnds ==
  ASSUME NEW n, NEW s
  PROVE  /\ ~Ends(<<>>, s) /\ ~Ends(Two(n, s), s)
         /\ Ends(One(n, s), s) <=> n = "clear"
         /\ Ends(Ending2(s), s)
         /\ n \in StepNames => Ends(Ending3(n, s), s) /\ Ends(Ending4(n, s), s)
<1>1. \A m : One(n, s) # Ending3(m, s) /\ One(n, s) # Ending4(m, s)
  BY DEF One, Ending3, Ending4
<1>2. \A m : Two(n, s) # Ending3(m, s) /\ Two(n, s) # Ending4(m, s)
  BY DEF Two, Ending3, Ending4
<1>3. One(n, s) # Ending2(s) /\ Two(n, s) # Ending2(s)
  BY DEF One, Two, Ending2
<1>4. Two(n, s) # One("clear", s)
  BY DEF One, Two
<1>5. One(n, s) = One("clear", s) <=> n = "clear"
  BY ScriptHeads
<1>6. /\ \A m : <<>> # Ending3(m, s) /\ <<>> # Ending4(m, s)
      /\ <<>> # Ending2(s) /\ <<>> # One("clear", s)
  BY ScriptHeads
<1> QED BY <1>1, <1>2, <1>3, <1>4, <1>5, <1>6 DEF Ends

LEMMA NewStack ==
  ASSUME Types, NEW a \in Threads, NEW q \in Scripts,
         todo' = [todo EXCEPT ![a] = q]
  PROVE  /\ todo' \in [Threads -> Scripts] /\ todo'[a] = q
         /\ \A b \in Threads \ {a} : todo'[b] = todo[b]
BY DEF Types

(* A step of a thread that goes on with the stack q, and may open or close *)
(* the socket.                                                             *)
LEMMA StackStep ==
  ASSUME IInv, LifetimeAssumption, NEW a \in Threads, NEW s \in Sessions,
         NEW q \in Scripts, todo' = [todo EXCEPT ![a] = q],
         UNCHANGED <<life, refs, self, queueVars, lookups, addList, delList, deaths,
                     timerList, deathsDeal, posts, deletes>>,
         toTick' \subseteq toTick, connects' \in [Sessions -> Nat],
         open' = open \/ \E x \in BOOLEAN : open' = [open EXCEPT ![s] = x],
         open'[s] => open[s] \/ (Kept(s) /\ a = Net),
         todo[a] = <<>> \/ Head(todo[a])[2] = s,
         q = <<>> \/ Head(q)[2] = s,
         ~At(a, "clear", s), q # <<>> => Head(q)[1] # "clear",
         a = Net => ((q # <<>> /\ Head(q)[1] \in {"answer", "dropLookup"})
                       <=> At(Net, "answer", s) \/ At(Net, "dropLookup", s)),
         Ends(q, s) => Ends(todo[a], s),
         q = One("callback", s) /\ a = Timer => s \in timerList,
         \/ q = <<>>
         \/ Form(a, q, s) /\ (Ends(q, s) /\ open'[s] => open[s])
         \/ /\ a = Net /\ ~open'[s]
            /\ q = Ending3("unlist", s) \/ q = Ending4("callback", s)
  PROVE  IInv'
<1>0. None \notin Sessions /\ Types
  BY DEF LifetimeAssumption, IInv
<1>1. /\ todo' \in [Threads -> Scripts] /\ todo'[a] = q
      /\ \A b \in Threads \ {a} : todo'[b] = todo[b]
  BY <1>0, NewStack
<1>2. open' \in [Sessions -> BOOLEAN] /\ \A r \in Sessions \ {s} : open'[r] = open[r]
  BY <1>0 DEF Types
<1>3. Types'
  BY <1>0, <1>1, <1>2 DEF Types, queueVars
<1>4. Local(a, s)
  <2>1. \A r \in Sessions \ {s} : Away(todo[a], r) /\ Away(todo'[a], r)
    BY <1>1 DEF Away
  <2> QED BY <1>1, <1>2, <2>1 DEF Local, queueVars
<1>5. Calm(s) /\ deletes'[s] = deletes[s]
  BY DEF Calm, queueVars
<1>6. At(a, "clear", s)' <=> At(a, "clear", s)
  BY <1>1 DEF At
<1>7. Answering(s)' = Answering(s)
  <2>1. CASE a # Net
    BY <1>1, <2>1 DEF Answering, At, Threads
  <2>2. CASE a = Net
    <3>1. \A n : At(Net, n, s)' <=> q # <<>> /\ Head(q)[1] = n
      <4>1. q # <<>> => Head(q) = <<Head(q)[1], Head(q)[2]>>
        <5>1. \A n, r : Head(One(n, r)) = <<n, r>> /\ Head(Two(n, r)) = <<n, r>>
                        /\ Head(Ending2(r)) = <<"release", r>>
                        /\ Head(Ending3(n, r)) = <<n, r>> /\ Head(Ending4(n, r)) = <<n, r>>
          BY ScriptHeads
        <5> QED BY <5>1 DEF Scripts
      <4> QED BY <1>1, <2>2, <4>1 DEF At
    <3> QED BY <2>2, <3>1 DEF Answering
  <2> QED BY <2>1, <2>2
<1>8. Ends(todo'[a], s) => /\ Ends(todo[a], s)
                           /\ todo'[a] # One("clear", s) => todo[a] # One("clear", s)
  BY <1>1, ScriptHeads DEF At
<1>9. todo'[Timer] = One("callback", s) =>
        todo[Timer] = One("callback", s) \/ s \in timerList
  BY <1>1 DEF Threads
<1>10. (todo[a] = <<>> \/ Form(a, todo[a], s))'
  <2>1. SelfHeld(s)' <=> SelfHeld(s)
    BY <1>1, <1>6, SameHeld
  <2>2. /\ Posted(s)' <=> Posted(s)
        /\ Kept(s)' <=> Kept(s)
        /\ OffTimer(s) => OffTimer(s)'
    BY <1>9, <2>1 DEF Posted, Kept, OffTimer
  <2>3. CASE Form(a, q, s) /\ (Ends(q, s) /\ open'[s] => open[s])
    <3>1. Ends(q, s) /\ Shut(s) => Shut(s)'
      BY <2>2, <2>3 DEF Shut
    <3>2. /\ Ends(Ending3("unlist", s), s) /\ Ends(Ending2(s), s)
          /\ \A n \in Closing : Ends(Ending4(n, s), s)
      BY ScriptEnds DEF Closing, StepNames
    <3>3. CASE a = Net
      BY <1>1, <2>2, <2>3, <3>1, <3>2, <3>3 DEF Form, NetForm, Closing
    <3>4. CASE a # Net
      BY <1>1, <2>2, <2>3, <3>4 DEF Form, OtherForm
    <3> QED BY <3>3, <3>4
  <2>4. CASE /\ a = Net /\ ~open'[s]
             /\ q = Ending3("unlist", s) \/ q = Ending4("callback", s)
    BY <1>1, <2>4 DEF Form, NetForm, Shut
  <2> QED BY <1>1, <2>3, <2>4
<1> QED BY <1>0, <1>3, <1>4, <1>5, <1>6, <1>7, <1>8, <1>9, <1>10, CalmStep

LEMMA NetRest ==
  ASSUME IInv, NEW s, NEW n \in Closing, At(Net, n, s)
  PROVE  \/ todo[Net] = One(n, s) /\ Tail(todo[Net]) = <<>> /\ Kept(s)
         \/ /\ todo[Net] = Two(n, s) /\ Tail(todo[Net]) = One("unlist", s)
            /\ Posted(s) /\ deletes[s] > 0
         \/ /\ todo[Net] = Ending4(n, s) /\ Tail(todo[Net]) = Ending3("unlist", s)
            /\ n # "close" => Shut(s)
<1>1. NetForm(todo[Net], s) /\ todo[Net] # <<>> /\ Head(todo[Net]) = <<n, s>>
  BY AtForm DEF Form, At, Threads
<1>2. n \in {"close", "tryClose", "callback"}
  BY DEF Closing
<1>3. \/ todo[Net] = One(n, s) /\ Kept(s)
      \/ todo[Net] = Two(n, s) /\ Posted(s) /\ deletes[s] > 0
      \/ todo[Net] = Ending4(n, s) /\ (n # "close" => Shut(s))
  BY <1>1, <1>2, ScriptHeads DEF NetForm, Closing
<1>4. /\ Tail(One(n, s)) = <<>> /\ Tail(Two(n, s)) = One("unlist", s)
      /\ Tail(Ending4(n, s)) = Ending3("unlist", s)
  BY ScriptTails
<1> HIDE DEF IInv
<1> QED BY <1>3, <1>4, Zenon

LEMMA CallbackOf ==
  ASSUME IInv, NEW a \in Threads, NEW s, At(a, "callback", s), a # Net
  PROVE  a = Timer /\ todo[a] = One("callback", s) /\ Tail(todo[a]) = <<>>
<1>1. OtherForm(a, todo[a], s) /\ Head(todo[a]) = <<"callback", s>>
  BY AtForm DEF Form, At
<1>2. \A n : Head(One(n, s)) = <<n, s>> /\ Tail(One(n, s)) = <<>>
  BY ScriptHeads, ScriptTails
<1>3. Head(Ending2(s)) = <<"release", s>> /\ \A n : Head(Ending3(n, s)) = <<n, s>>
  BY ScriptHeads
<1> HIDE DEF IInv
<1> QED BY <1>1, <1>2, <1>3 DEF OtherForm

(* What is left of a script at a step of closing.                          *)
LEMMA Rest ==
  ASSUME NEW s \in Sessions, NEW q,
         \/ q = <<>> \/ q = One("unlist", s) \/ q = Ending3("unlist", s)
  PROVE  /\ <<>> \o q = q /\ q \in Scripts /\ q # One("callback", s)
         /\ q # <<>> => Head(q) = <<"unlist", s>>
         /\ Ends(q, s) <=> q = Ending3("unlist", s)
         /\ Ends(q, s) => q # <<>> /\ q # One("unlist", s)
<1>1. "unlist" \in StepNames
  BY DEF StepNames
<1>2. CASE q = <<>>
  <2>1. q \in Scripts /\ ~Ends(q, s) /\ q # Ending3("unlist", s) /\ q # One("callback", s)
    BY <1>1, <1>2, ScriptsAre, ScriptEnds, ScriptHeads
  <2> QED BY <1>2, <2>1, ScriptJoins
<1>3. CASE q = One("unlist", s)
  <2>1. Head(q) = <<"unlist", s>> /\ q # One("callback", s)
    BY <1>3, ScriptHeads
  <2>2. ~Ends(q, s) /\ Ends(Ending3("unlist", s), s)
    BY <1>1, <1>3, ScriptEnds
  <2>3. q \in Scripts /\ <<>> \o q = q
    BY <1>1, <1>3, ScriptsAre, ScriptJoins
  <2> QED BY <2>1, <2>2, <2>3
<1>4. CASE q = Ending3("unlist", s)
  <2>1. Head(q) = <<"unlist", s>> /\ q # One("callback", s)
    BY <1>4, ScriptHeads
  <2>2. Ends(q, s)
    BY <1>1, <1>4, ScriptEnds
  <2>3. q \in Scripts /\ <<>> \o q = q
    BY <1>1, <1>4, ScriptsAre, ScriptJoins
  <2>4. ~Ends(One("unlist", s), s) /\ ~Ends(<<>>, s)
    BY ScriptEnds
  <2> QED BY <1>4, <2>1, <2>2, <2>3, <2>4
<1> QED BY <1>2, <1>3, <1>4

LEMMA CallbackReturnsStep ==
  ASSUME IInv, LifetimeAssumption, NEW a \in Threads, NEW s \in Sessions,
         CallbackReturns(a, s)
  PROVE  IInv'
<1>1. /\ At(a, "callback", s) /\ todo[a] # <<>> /\ Head(todo[a]) = <<"callback", s>>
      /\ todo' = [todo EXCEPT ![a] = <<>> \o Tail(todo[a])]
      /\ UNCHANGED <<life, refs, self, open, queueVars, lookups, timerVars,
                     posts, deletes, connects>>
  BY DEF CallbackReturns, Done, Replace, At
<1>2. PICK q : q = Tail(todo[a])
  OBVIOUS
<1>3. \/ q = <<>>
      \/ a = Net /\ q = One("unlist", s) /\ Posted(s) /\ deletes[s] > 0
      \/ /\ a = Net /\ q = Ending3("unlist", s) /\ Shut(s)
         /\ todo[a] = Ending4("callback", s)
  BY <1>1, <1>2, NetRest, CallbackOf DEF Closing
<1>4. /\ <<>> \o q = q /\ q \in Scripts /\ q # One("callback", s)
      /\ q # <<>> => Head(q) = <<"unlist", s>>
      /\ Ends(q, s) <=> q = Ending3("unlist", s)
      /\ Ends(q, s) => q # <<>> /\ q # One("unlist", s)
  BY <1>3, Rest
<1>5. Ends(q, s) => Ends(todo[a], s)
  <2>1. Ends(Ending4("callback", s), s)
    BY ScriptEnds DEF StepNames
  <2> QED BY <1>3, <1>4, <2>1
<1>6. q = <<>> \/ Form(a, q, s)
  BY <1>3 DEF Form, NetForm
<1>7. todo' = [todo EXCEPT ![a] = q]
  BY <1>1, <1>2, <1>4
<1>8. /\ ~At(a, "clear", s) /\ ~At(a, "answer", s) /\ ~At(a, "dropLookup", s)
      /\ q # <<>> => Head(q)[1] # "clear" /\ Head(q)[1] \notin {"answer", "dropLookup"}
      /\ q = <<>> \/ Head(q)[2] = s
  BY <1>1, <1>4 DEF At
<1>9. connects' \in [Sessions -> Nat]
  BY <1>1 DEF IInv, Types
<1>10. UNCHANGED <<life, refs, self, queueVars, lookups, addList, delList, deaths,
                   timerList, deathsDeal, posts, deletes>>
  BY <1>1 DEF timerVars
<1>11. open' = open /\ toTick' \subseteq toTick
  BY <1>1 DEF timerVars
<1>12. a = Net => ((q # <<>> /\ Head(q)[1] \in {"answer", "dropLookup"})
                     <=> At(Net, "answer", s) \/ At(Net, "dropLookup", s))
  BY <1>8
<1>13. /\ open' = open \/ \E x \in BOOLEAN : open' = [open EXCEPT ![s] = x]
       /\ open'[s] => open[s] \/ (Kept(s) /\ a = Net)
       /\ todo[a] = <<>> \/ Head(todo[a])[2] = s
       /\ q # <<>> => Head(q)[1] # "clear"
       /\ q = One("callback", s) /\ a = Timer => s \in timerList
  BY <1>1, <1>4, <1>8, <1>11
<1>14. \/ q = <<>>
       \/ Form(a, q, s) /\ (Ends(q, s) /\ open'[s] => open[s])
       \/ /\ a = Net /\ ~open'[s]
          /\ q = Ending3("unlist", s) \/ q = Ending4("callback", s)
  BY <1>6, <1>11
<1> HIDE DEF IInv
<1> QED
  BY <1>4, <1>5, <1>7, <1>8, <1>9, <1>10, <1>11, <1>12, <1>13, <1>14, StackStep
-----------------------------------------------------------------------------
(* The references of a session, counted.                                   *)
Served(s) == IF serving = s THEN 1 ELSE 0

Tally(a, b, c, d, e, f, g, h) == a + b + c + d + e + f + g + h

HoldersTally(s) ==
  Tally(SelfRefs(s), posts[s], queued[s], Served(s), lookups[s], Answering(s),
        deaths[s], deathsDeal[s])

LEMMA HoldersAre ==
  ASSUME NEW s \in Sessions, Types
  PROVE  /\ Holders(s) = HoldersTally(s)
         /\ SelfRefs(s) \in 0 .. 1 /\ Served(s) \in 0 .. 1 /\ Answering(s) \in 0 .. 1
         /\ posts[s] \in Nat /\ queued[s] \in Nat /\ lookups[s] \in Nat
         /\ deaths[s] \in Nat /\ deathsDeal[s] \in Nat
         /\ Holders(s) \in Int
<1>1. Holders(s) = HoldersTally(s)
  BY Zenon DEF Holders, HoldersTally, Tally, Served
<1>2. /\ SelfRefs(s) \in 0 .. 1 /\ Served(s) \in 0 .. 1 /\ Answering(s) \in 0 .. 1
      /\ posts[s] \in Nat /\ queued[s] \in Nat /\ lookups[s] \in Nat
      /\ deaths[s] \in Nat /\ deathsDeal[s] \in Nat
  BY DEF Types, SelfRefs, Served, Answering
<1>3. HoldersTally(s) \in Int
  <2> DEFINE a == SelfRefs(s)  b == posts[s]  c == queued[s]  e == Served(s)
             f == lookups[s]  g == Answering(s)  h == deaths[s]  i == deathsDeal[s]
  <2>1. a \in Int /\ b \in Int /\ c \in Int /\ e \in Int
        /\ f \in Int /\ g \in Int /\ h \in Int /\ i \in Int
    BY <1>2
  <2> HIDE DEF a, b, c, e, f, g, h, i
  <2>2. Tally(a, b, c, e, f, g, h, i) \in Int
    BY <2>1 DEF Tally
  <2> QED BY <2>2, Zenon DEF HoldersTally, a, b, c, e, f, g, h, i
<1> QED BY <1>1, <1>2, <1>3

Kinds == {"self", "posts", "queued", "served", "lookups", "answering",
          "deaths", "deathsDeal"}

(* The holders of one kind become d more.                                  *)
Changes(s, x, d) ==
  /\ SelfRefs(s)' = IF x = "self" THEN SelfRefs(s) + d ELSE SelfRefs(s)
  /\ posts'[s] = IF x = "posts" THEN posts[s] + d ELSE posts[s]
  /\ queued'[s] = IF x = "queued" THEN queued[s] + d ELSE queued[s]
  /\ Served(s)' = IF x = "served" THEN Served(s) + d ELSE Served(s)
  /\ lookups'[s] = IF x = "lookups" THEN lookups[s] + d ELSE lookups[s]
  /\ Answering(s)' = IF x = "answering" THEN Answering(s) + d ELSE Answering(s)
  /\ deaths'[s] = IF x = "deaths" THEN deaths[s] + d ELSE deaths[s]
  /\ deathsDeal'[s] = IF x = "deathsDeal" THEN deathsDeal[s] + d ELSE deathsDeal[s]

LEMMA HoldersChange ==
  ASSUME NEW s \in Sessions, Types, Types', NEW x \in Kinds, NEW d \in Int,
         Changes(s, x, d)
  PROVE  Holders(s)' = Holders(s) + d
<1> DEFINE a == SelfRefs(s)  b == posts[s]  c == queued[s]  e == Served(s)
         f == lookups[s]  g == Answering(s)  h == deaths[s]  i == deathsDeal[s]
<1>1. a \in Int /\ b \in Int /\ c \in Int /\ e \in Int
      /\ f \in Int /\ g \in Int /\ h \in Int /\ i \in Int
  BY HoldersAre
<1> HIDE DEF a, b, c, e, f, g, h, i
<1>2. /\ Tally(a + d, b, c, e, f, g, h, i) = Tally(a, b, c, e, f, g, h, i) + d
      /\ Tally(a, b + d, c, e, f, g, h, i) = Tally(a, b, c, e, f, g, h, i) + d
      /\ Tally(a, b, c + d, e, f, g, h, i) = Tally(a, b, c, e, f, g, h, i) + d
      /\ Tally(a, b, c, e + d, f, g, h, i) = Tally(a, b, c, e, f, g, h, i) + d
      /\ Tally(a, b, c, e, f + d, g, h, i) = Tally(a, b, c, e, f, g, h, i) + d
      /\ Tally(a, b, c, e, f, g + d, h, i) = Tally(a, b, c, e, f, g, h, i) + d
      /\ Tally(a, b, c, e, f, g, h + d, i) = Tally(a, b, c, e, f, g, h, i) + d
      /\ Tally(a, b, c, e, f, g, h, i + d) = Tally(a, b, c, e, f, g, h, i) + d
  BY <1>1 DEF Tally
<1>3. Holders(s) = Tally(a, b, c, e, f, g, h, i)
  BY HoldersAre DEF HoldersTally, a, b, c, e, f, g, h, i
<1>4. Holders(s)' = HoldersTally(s)'
  BY Zenon DEF Holders, HoldersTally, Tally, Served
<1>5. CASE x = "self"
  <2>1. /\ SelfRefs(s)' = a + d /\ posts'[s] = b /\ queued'[s] = c /\ Served(s)' = e
        /\ lookups'[s] = f /\ Answering(s)' = g /\ deaths'[s] = h /\ deathsDeal'[s] = i
    BY <1>5 DEF Changes, a, b, c, e, f, g, h, i
  <2> QED BY <1>2, <1>3, <1>4, <2>1, Zenon DEF HoldersTally
<1>6. CASE x = "posts"
  <2>1. /\ SelfRefs(s)' = a /\ posts'[s] = b + d /\ queued'[s] = c /\ Served(s)' = e
        /\ lookups'[s] = f /\ Answering(s)' = g /\ deaths'[s] = h /\ deathsDeal'[s] = i
    BY <1>6 DEF Changes, a, b, c, e, f, g, h, i
  <2> QED BY <1>2, <1>3, <1>4, <2>1, Zenon DEF HoldersTally
<1>7. CASE x = "queued"
  <2>1. /\ SelfRefs(s)' = a /\ posts'[s] = b /\ queued'[s] = c + d /\ Served(s)' = e
        /\ lookups'[s] = f /\ Answering(s)' = g /\ deaths'[s] = h /\ deathsDeal'[s] = i
    BY <1>7 DEF Changes, a, b, c, e, f, g, h, i
  <2> QED BY <1>2, <1>3, <1>4, <2>1, Zenon DEF HoldersTally
<1>8. CASE x = "served"
  <2>1. /\ SelfRefs(s)' = a /\ posts'[s] = b /\ queued'[s] = c /\ Served(s)' = e + d
        /\ lookups'[s] = f /\ Answering(s)' = g /\ deaths'[s] = h /\ deathsDeal'[s] = i
    BY <1>8 DEF Changes, a, b, c, e, f, g, h, i
  <2> QED BY <1>2, <1>3, <1>4, <2>1, Zenon DEF HoldersTally
<1>9. CASE x = "lookups"
  <2>1. /\ SelfRefs(s)' = a /\ posts'[s] = b /\ queued'[s] = c /\ Served(s)' = e
        /\ lookups'[s] = f + d /\ Answering(s)' = g /\ deaths'[s] = h /\ deathsDeal'[s] = i
    BY <1>9 DEF Changes, a, b, c, e, f, g, h, i
  <2> QED BY <1>2, <1>3, <1>4, <2>1, Zenon DEF HoldersTally
<1>10. CASE x = "answering"
  <2>1. /\ SelfRefs(s)' = a /\ posts'[s] = b /\ queued'[s] = c /\ Served(s)' = e
        /\ lookups'[s] = f /\ Answering(s)' = g + d /\ deaths'[s] = h /\ deathsDeal'[s] = i
    BY <1>10 DEF Changes, a, b, c, e, f, g, h, i
  <2> QED BY <1>2, <1>3, <1>4, <2>1, Zenon DEF HoldersTally
<1>11. CASE x = "deaths"
  <2>1. /\ SelfRefs(s)' = a /\ posts'[s] = b /\ queued'[s] = c /\ Served(s)' = e
        /\ lookups'[s] = f /\ Answering(s)' = g /\ deaths'[s] = h + d /\ deathsDeal'[s] = i
    BY <1>11 DEF Changes, a, b, c, e, f, g, h, i
  <2> QED BY <1>2, <1>3, <1>4, <2>1, Zenon DEF HoldersTally
<1>12. CASE x = "deathsDeal"
  <2>1. /\ SelfRefs(s)' = a /\ posts'[s] = b /\ queued'[s] = c /\ Served(s)' = e
        /\ lookups'[s] = f /\ Answering(s)' = g /\ deaths'[s] = h /\ deathsDeal'[s] = i + d
    BY <1>12 DEF Changes, a, b, c, e, f, g, h, i
  <2> QED BY <1>2, <1>3, <1>4, <2>1, Zenon DEF HoldersTally
<1> QED BY <1>5, <1>6, <1>7, <1>8, <1>9, <1>10, <1>11, <1>12 DEF Kinds
(* A reference goes from one holder to another.                            *)
LEMMA AnswerMoves ==
  ASSUME NEW s \in Sessions, Types, Types',
         SelfRefs(s)' = SelfRefs(s), posts'[s] = posts[s], queued'[s] = queued[s],
         Served(s)' = Served(s), lookups'[s] = lookups[s] - 1,
         Answering(s) = 0, Answering(s)' = 1,
         deaths'[s] = deaths[s], deathsDeal'[s] = deathsDeal[s]
  PROVE  Holders(s)' = Holders(s)
<1> DEFINE a == SelfRefs(s)  b == posts[s]  c == queued[s]  e == Served(s)
           f == lookups[s]  h == deaths[s]  i == deathsDeal[s]
<1>1. a \in Int /\ b \in Int /\ c \in Int /\ e \in Int
      /\ f \in Int /\ h \in Int /\ i \in Int
  BY HoldersAre
<1> HIDE DEF a, b, c, e, f, h, i
<1>2. Tally(a, b, c, e, f - 1, 1, h, i) = Tally(a, b, c, e, f, 0, h, i)
  BY <1>1 DEF Tally
<1>3. Holders(s) = Tally(a, b, c, e, f, 0, h, i)
  BY HoldersAre, Zenon DEF HoldersTally, a, b, c, e, f, h, i
<1>4. Holders(s)' = HoldersTally(s)'
  BY Zenon DEF Holders, HoldersTally, Tally, Served
<1> QED BY <1>2, <1>3, <1>4, Zenon DEF HoldersTally, a, b, c, e, f, h, i

LEMMA ServeMoves ==
  ASSUME NEW s \in Sessions, Types, Types',
         SelfRefs(s)' = SelfRefs(s), posts'[s] = posts[s], queued'[s] = queued[s] - 1,
         Served(s) = 0, Served(s)' = 1, lookups'[s] = lookups[s],
         Answering(s)' = Answering(s),
         deaths'[s] = deaths[s], deathsDeal'[s] = deathsDeal[s]
  PROVE  Holders(s)' = Holders(s)
<1> DEFINE a == SelfRefs(s)  b == posts[s]  c == queued[s]
           f == lookups[s]  g == Answering(s)  h == deaths[s]  i == deathsDeal[s]
<1>1. a \in Int /\ b \in Int /\ c \in Int
      /\ f \in Int /\ g \in Int /\ h \in Int /\ i \in Int
  BY HoldersAre
<1> HIDE DEF a, b, c, f, g, h, i
<1>2. Tally(a, b, c - 1, 1, f, g, h, i) = Tally(a, b, c, 0, f, g, h, i)
  BY <1>1 DEF Tally
<1>3. Holders(s) = Tally(a, b, c, 0, f, g, h, i)
  BY HoldersAre, Zenon DEF HoldersTally, a, b, c, f, g, h, i
<1>4. Holders(s)' = HoldersTally(s)'
  BY Zenon DEF Holders, HoldersTally, Tally, Served
<1> QED BY <1>2, <1>3, <1>4, Zenon DEF HoldersTally, a, b, c, f, g, h, i

LEMMA DeathMoves ==
  ASSUME NEW s \in Sessions, Types, Types',
         SelfRefs(s)' = SelfRefs(s), posts'[s] = posts[s], queued'[s] = queued[s],
         Served(s)' = Served(s), lookups'[s] = lookups[s],
         Answering(s)' = Answering(s),
         deaths'[s] = 0, deathsDeal[s] = 0, deathsDeal'[s] = deaths[s]
  PROVE  Holders(s)' = Holders(s)
<1> DEFINE a == SelfRefs(s)  b == posts[s]  c == queued[s]  e == Served(s)
           f == lookups[s]  g == Answering(s)  h == deaths[s]
<1>1. a \in Int /\ b \in Int /\ c \in Int /\ e \in Int
      /\ f \in Int /\ g \in Int /\ h \in Int
  BY HoldersAre
<1> HIDE DEF a, b, c, e, f, g, h
<1>2. Tally(a, b, c, e, f, g, 0, h) = Tally(a, b, c, e, f, g, h, 0)
  BY <1>1 DEF Tally
<1>3. Holders(s) = Tally(a, b, c, e, f, g, h, 0)
  BY HoldersAre, Zenon DEF HoldersTally, a, b, c, e, f, g, h
<1>4. Holders(s)' = HoldersTally(s)'
  BY Zenon DEF Holders, HoldersTally, Tally, Served
<1> QED BY <1>2, <1>3, <1>4, Zenon DEF HoldersTally, a, b, c, e, f, g, h

(* A holder of s: one of the kinds that are counted.                       *)
Held(s) ==
  \/ SelfRefs(s) > 0 \/ posts[s] > 0 \/ queued[s] > 0 \/ Served(s) > 0
  \/ lookups[s] > 0 \/ Answering(s) > 0 \/ deaths[s] > 0 \/ deathsDeal[s] > 0

LEMMA HeldIsLive ==
  ASSUME NEW s \in Sessions, Types, SessionInv(s)
  PROVE  /\ refs[s] \in Int /\ refs[s] >= 0
         /\ Held(s) <=> refs[s] > 0
         /\ Held(s) <=> Live(s)
<1>1. /\ SelfRefs(s) \in Nat /\ posts[s] \in Nat /\ queued[s] \in Nat
      /\ Served(s) \in Nat /\ lookups[s] \in Nat /\ Answering(s) \in Nat
      /\ deaths[s] \in Nat /\ deathsDeal[s] \in Nat
  BY HoldersAre
<1> DEFINE a == SelfRefs(s)  b == posts[s]  c == queued[s]  e == Served(s)
         f == lookups[s]  g == Answering(s)  h == deaths[s]  i == deathsDeal[s]
<1>2. a \in Nat /\ b \in Nat /\ c \in Nat /\ e \in Nat
      /\ f \in Nat /\ g \in Nat /\ h \in Nat /\ i \in Nat
  BY <1>1
<1>3. Holders(s) = Tally(a, b, c, e, f, g, h, i)
  BY HoldersAre DEF HoldersTally
<1>4. Held(s) <=> (a > 0 \/ b > 0 \/ c > 0 \/ e > 0 \/ f > 0 \/ g > 0 \/ h > 0 \/ i > 0)
  BY DEF Held
<1> HIDE DEF a, b, c, e, f, g, h, i
<1>5. /\ Tally(a, b, c, e, f, g, h, i) >= 0
      /\ Tally(a, b, c, e, f, g, h, i) > 0
           <=> (a > 0 \/ b > 0 \/ c > 0 \/ e > 0 \/ f > 0 \/ g > 0 \/ h > 0 \/ i > 0)
  BY <1>2 DEF Tally
<1>6. refs[s] = Holders(s) /\ (Live(s) <=> refs[s] > 0)
  BY DEF SessionInv, Counted, Freed
<1>7. refs[s] \in Int
  BY DEF Types
<1> QED BY <1>3, <1>4, <1>5, <1>6, <1>7

(* AddRef by a new holder of a session in use, and DelRef by a holder.     *)
LEMMA RefGained ==
  ASSUME NEW s \in Sessions, Types, Types', SessionInv(s), Live(s), AddRef(s),
         NEW x \in Kinds, Changes(s, x, 1)
  PROVE  Counted(s)' /\ Freed(s)' /\ life' = life
<1>1. Holders(s)' = Holders(s) + 1
  BY HoldersChange
<1>2. refs[s] \in Int /\ refs[s] > 0 /\ refs'[s] = refs[s] + 1 /\ life' = life
  BY HeldIsLive DEF AddRef, Types
<1> QED BY <1>1, <1>2 DEF SessionInv, Counted, Freed, Live

LEMMA RefLost ==
  ASSUME NEW s \in Sessions, Types, Types', SessionInv(s), Held(s), DelRef(s),
         NEW x \in Kinds, Changes(s, x, -1)
  PROVE  Counted(s)' /\ Freed(s)' /\ Live(s) /\ life'[s] \in {"live", "freed"}
<1>1. Holders(s)' = Holders(s) - 1
  <2>1. Holders(s)' = Holders(s) + (-1)
    BY HoldersChange
  <2> QED BY <2>1, HoldersAre
<1>2. refs[s] \in Int /\ refs[s] > 0 /\ refs'[s] = refs[s] - 1 /\ Live(s)
  BY HeldIsLive DEF DelRef, Types
<1>3. life'[s] = IF refs[s] = 1 THEN "freed" ELSE "live"
  BY <1>2 DEF DelRef, Types, Live
<1> QED BY <1>1, <1>2, <1>3 DEF SessionInv, Counted, Freed, Live

LEMMA RefsElsewhere ==
  ASSUME NEW s \in Sessions, Types, AddRef(s) \/ DelRef(s)
  PROVE  /\ refs' \in [Sessions -> Int] /\ life' \in [Sessions -> {"none", "live", "freed"}]
         /\ \A r \in Sessions \ {s} : refs'[r] = refs[r] /\ life'[r] = life[r]
<1>1. CASE AddRef(s)
  BY <1>1 DEF AddRef, Types
<1>2. CASE DelRef(s)
  <2>1. life' = life \/ life' = [life EXCEPT ![s] = "freed"]
    BY <1>2 DEF DelRef
  <2>2. /\ life' \in [Sessions -> {"none", "live", "freed"}]
        /\ \A r \in Sessions \ {s} : life'[r] = life[r]
    BY <2>1 DEF Types
  <2>3. refs' = [refs EXCEPT ![s] = @ - 1]
    BY <1>2 DEF DelRef
  <2>4. refs[s] - 1 \in Int
    BY DEF Types
  <2>5. refs' \in [Sessions -> Int] /\ \A r \in Sessions \ {s} : refs'[r] = refs[r]
    BY <2>3, <2>4 DEF Types
  <2> QED BY <2>2, <2>5
<1> QED BY <1>1, <1>2

LEMMA AtClear ==
  ASSUME IInv, NEW a \in Threads, NEW s \in Sessions, At(a, "clear", s)
  PROVE  todo[a] = One("clear", s) /\ Ends(todo[a], s)
<1>1. Form(a, todo[a], s) /\ Head(todo[a]) = <<"clear", s>>
  BY AtForm DEF At
<1>2. todo[a] = One("clear", s)
  BY <1>1, ScriptHeads DEF Form, NetForm, OtherForm, Closing
<1> QED BY <1>2 DEF Ends

(* A thread that ends a session, and has not given back its reference, is  *)
(* the only one to end it: the session is held by itself.                  *)
LEMMA EndingIsHeld ==
  ASSUME IInv, NEW a \in Threads, NEW s \in Sessions, Ends(todo[a], s),
         ~At(a, "clear", s)
  PROVE  SelfHeld(s) /\ self[s] /\ \A b \in Threads : Ends(todo[b], s) => b = a
<1>1. todo[a] # One("clear", s)
  BY ScriptHeads DEF At
<1>2. self[s] /\ \A b \in Threads : Ends(todo[b], s) => b = a
  BY <1>1 DEF IInv, SessionInv, EndedOnce
<1>3. \A b \in Threads : ~At(b, "clear", s)
  BY <1>2, AtClear
<1> QED BY <1>2, <1>3 DEF SelfHeld

(* A session nobody has begun to delete is held by itself.                 *)
LEMMA NoneEnds ==
  ASSUME IInv, NEW s \in Sessions, deletes[s] = 0
  PROVE  \A a \in Threads : ~Ends(todo[a], s) /\ ~At(a, "clear", s)
<1>1. ASSUME NEW a \in Threads PROVE ~Ends(todo[a], s)
  BY DEF IInv, SessionInv, EndedOnce, Types
<1>2. ASSUME NEW a \in Threads, At(a, "clear", s) PROVE FALSE
  BY <1>1, <1>2, AtClear
<1> QED BY <1>1, <1>2

LEMMA UndeletedIsHeld ==
  ASSUME IInv, NEW s \in Sessions, deletes[s] = 0, life[s] # "none"
  PROVE  SelfHeld(s) /\ self[s] /\ Live(s) /\ Held(s)
<1>1. SelfHeld(s) /\ self[s]
  BY NoneEnds DEF IInv, SessionInv, Started, SelfHeld
<1>2. SelfRefs(s) = 1
  BY <1>1 DEF SelfRefs, SelfHeld, Clearing
<1> QED BY <1>1, <1>2, HeldIsLive DEF IInv, Held

LEMMA KeptIsLive ==
  ASSUME IInv, NEW s \in Sessions, Kept(s)
  PROVE  Live(s) /\ Held(s)
<1>1. CASE Posted(s)
  BY <1>1, HeldIsLive DEF IInv, Held, Posted
<1>2. CASE SelfHeld(s)
  <2>1. SelfRefs(s) = 1
    BY <1>2 DEF SelfRefs, SelfHeld, Clearing
  <2> QED BY <2>1, HeldIsLive DEF IInv, Held
<1> QED BY <1>1, <1>2 DEF Kept

-----------------------------------------------------------------------------
(* A step put before what is left of a script.                             *)
LEMMA Pushed ==
  ASSUME NEW s \in Sessions, NEW n \in StepNames \ {"clear"}, NEW q,
         \/ q = <<>> \/ q = One("unlist", s) \/ q = Ending3("unlist", s)
  PROVE  /\ One(n, s) \o q \in Scripts /\ One(n, s) \o q # <<>>
         /\ Head(One(n, s) \o q) = <<n, s>>
         /\ (One(n, s) \o <<>>) \o q = One(n, s) \o q
         /\ q = <<>> => One(n, s) \o q = One(n, s)
         /\ q = One("unlist", s) => One(n, s) \o q = Two(n, s)
         /\ q = Ending3("unlist", s) => One(n, s) \o q = Ending4(n, s)
         /\ Ends(One(n, s) \o q, s) <=> q = Ending3("unlist", s)
<1>1. One(n, s) \o <<>> = One(n, s)
  BY ScriptJoins
<1>2. CASE q = <<>>
  <2>1. One(n, s) \o q = One(n, s) /\ ~Ends(One(n, s), s)
    BY <1>1, <1>2, ScriptEnds
  <2>2. q # One("unlist", s) /\ q # Ending3("unlist", s)
    BY <1>2, ScriptHeads
  <2> QED BY <1>1, <1>2, <2>1, <2>2, ScriptHeads, ScriptsAre
<1>3. CASE q = One("unlist", s)
  <2>1. One(n, s) \o q = Two(n, s) /\ ~Ends(Two(n, s), s)
    BY <1>3, ScriptEnds, ScriptJoins
  <2>2. q # <<>> /\ q # Ending3("unlist", s)
    BY <1>3, ScriptHeads, Rest
  <2> QED BY <1>1, <1>3, <2>1, <2>2, ScriptHeads, ScriptsAre
<1>4. CASE q = Ending3("unlist", s)
  <2>1. One(n, s) \o q = Ending4(n, s) /\ Ends(Ending4(n, s), s)
    BY <1>4, ScriptEnds, ScriptJoins
  <2>2. q # <<>> /\ q # One("unlist", s)
    BY <1>4, ScriptHeads, Rest
  <2> QED BY <1>1, <1>4, <2>1, <2>2, ScriptHeads, ScriptsAre
<1> QED BY <1>2, <1>3, <1>4

(* The stack of the network thread at a step of closing: what is left and  *)
(* what it says of s.                                                      *)
Left(q, s) ==
  \/ q = <<>> /\ Kept(s)
  \/ q = One("unlist", s) /\ Posted(s) /\ deletes[s] > 0
  \/ q = Ending3("unlist", s) /\ Ends(todo[Net], s)

LEMMA NetLeft ==
  ASSUME IInv, NEW s \in Sessions, NEW n \in Closing, At(Net, n, s)
  PROVE  /\ Left(Tail(todo[Net]), s)
         /\ n # "close" /\ Tail(todo[Net]) = Ending3("unlist", s) => Shut(s)
         /\ todo[Net] # <<>> /\ Head(todo[Net]) = <<n, s>>
         /\ \A m : At(Net, m, s) => m = n
<1>1. Ends(Ending4(n, s), s)
  BY ScriptEnds DEF Closing, StepNames
<1>2. <<>> # Ending3("unlist", s) /\ One("unlist", s) # Ending3("unlist", s)
  <2>1. ~Ends(One("unlist", s), s) /\ Ends(Ending3("unlist", s), s)
    BY ScriptEnds DEF StepNames
  <2> QED BY <2>1, ScriptHeads
<1>3. todo[Net] # <<>> /\ Head(todo[Net]) = <<n, s>>
  BY DEF At
<1>4. \A m : At(Net, m, s) => m = n
  BY <1>3 DEF At
<1> QED BY <1>1, <1>2, <1>3, <1>4, NetRest DEF Left

(* StackStep for the network thread, at a step of closing or idle.         *)
LEMMA NetStackStep ==
  ASSUME IInv, LifetimeAssumption, NEW s \in Sessions, NEW q \in Scripts,
         todo' = [todo EXCEPT ![Net] = q],
         UNCHANGED <<life, refs, self, queueVars, lookups, timerVars, posts,
                     deletes>>,
         connects' \in [Sessions -> Nat],
         \/ open' = open
         \/ open' = [open EXCEPT ![s] = FALSE]
         \/ open' = [open EXCEPT ![s] = TRUE] /\ Kept(s),
         todo[Net] = <<>> \/ \E n \in Closing \cup {"ask"} : At(Net, n, s),
         q # <<>> => Head(q)[2] = s /\ Head(q)[1] \notin {"clear", "answer", "dropLookup"},
         Ends(q, s) => Ends(todo[Net], s),
         \/ q = <<>>
         \/ NetForm(q, s) /\ (Ends(q, s) /\ open'[s] => open[s])
         \/ ~open'[s] /\ (q = Ending3("unlist", s) \/ q = Ending4("callback", s))
  PROVE  IInv'
<1>1. Net \in Threads /\ Net # Timer
  BY DEF LifetimeAssumption, Threads
<1>2. /\ todo[Net] = <<>> \/ Head(todo[Net])[2] = s
      /\ ~At(Net, "clear", s) /\ ~At(Net, "answer", s) /\ ~At(Net, "dropLookup", s)
  BY DEF At, Closing
<1>3. /\ open' = open \/ \E x \in BOOLEAN : open' = [open EXCEPT ![s] = x]
      /\ open'[s] => open[s] \/ (Kept(s) /\ Net = Net)
  BY DEF IInv, Types
<1>4. UNCHANGED <<life, refs, self, queueVars, lookups, addList, delList, deaths,
                  timerList, deathsDeal, posts, deletes>>
  BY DEF timerVars
<1>5. toTick' \subseteq toTick
  BY DEF timerVars
<1>6. \/ q = <<>>
      \/ Form(Net, q, s) /\ (Ends(q, s) /\ open'[s] => open[s])
      \/ /\ Net = Net /\ ~open'[s]
         /\ q = Ending3("unlist", s) \/ q = Ending4("callback", s)
  BY DEF Form
<1>7. /\ q = <<>> \/ Head(q)[2] = s
      /\ q # <<>> => Head(q)[1] # "clear"
      /\ Net = Net => ((q # <<>> /\ Head(q)[1] \in {"answer", "dropLookup"})
                         <=> At(Net, "answer", s) \/ At(Net, "dropLookup", s))
      /\ q = One("callback", s) /\ Net = Timer => s \in timerList
  BY <1>1, <1>2
<1> HIDE DEF IInv
<1> QED BY <1>1, <1>2, <1>3, <1>4, <1>5, <1>6, <1>7, StackStep

LEMMA CloseCallbackStep ==
  ASSUME IInv, LifetimeAssumption, NEW s \in Sessions, CloseCallback(s)
  PROVE  IInv'
<1>1. PICK n \in {"close", "tryClose"} : At(Net, n, s)
  BY DEF CloseCallback
<1> DEFINE r == Tail(todo[Net])
           q == (IF open[s] THEN << <<"callback", s>> >> ELSE <<>>) \o r
<1>2. /\ todo' = [todo EXCEPT ![Net] = q] /\ open' = [open EXCEPT ![s] = FALSE]
      /\ UNCHANGED <<life, refs, self, queueVars, lookups, timerVars, posts, deletes>>
      /\ connects' = connects
  BY DEF CloseCallback, Replace
<1>3. Left(r, s)
  BY <1>1, NetLeft DEF Closing
<1>4. \/ r = <<>> \/ r = One("unlist", s) \/ r = Ending3("unlist", s)
  BY <1>3 DEF Left
<1>5. open[s] => q = One("callback", s) \o r
  BY DEF One
<1>6. ~open[s] => q = r
  BY <1>4, Rest
<1> HIDE DEF r, q
<1>7. "callback" \in StepNames \ {"clear"}
  BY DEF StepNames
<1>8. ~open'[s] /\ connects' \in [Sessions -> Nat]
  BY <1>2 DEF IInv, Types
<1>9. CASE open[s]
  <2>1. /\ q \in Scripts /\ q # <<>> /\ Head(q) = <<"callback", s>>
        /\ Ends(q, s) <=> r = Ending3("unlist", s)
    <3>1. /\ One("callback", s) \o r \in Scripts /\ One("callback", s) \o r # <<>>
          /\ Head(One("callback", s) \o r) = <<"callback", s>>
          /\ Ends(One("callback", s) \o r, s) <=> r = Ending3("unlist", s)
      BY <1>4, <1>7, Pushed
    <3> QED BY <1>5, <1>9, <3>1, Zenon
  <2>2. NetForm(q, s) \/ q = Ending4("callback", s)
    <3>1. \/ q = One("callback", s) /\ Kept(s)
          \/ q = Two("callback", s) /\ Posted(s) /\ deletes[s] > 0
          \/ q = Ending4("callback", s)
      BY <1>3, <1>5, <1>7, <1>9, Pushed DEF Left
    <3> QED BY <3>1 DEF NetForm, Closing
  <2>3. Ends(q, s) => Ends(todo[Net], s)
    <3>1. r # <<>> /\ r # One("unlist", s) => Ends(todo[Net], s)
      BY <1>3 DEF Left
    <3>2. <<>> # Ending3("unlist", s) /\ One("unlist", s) # Ending3("unlist", s)
      BY Rest
    <3> QED BY <2>1, <3>1, <3>2
  <2>4. /\ \E m \in Closing \cup {"ask"} : At(Net, m, s)
        /\ q # <<>> => Head(q)[2] = s
                        /\ Head(q)[1] \notin {"clear", "answer", "dropLookup"}
    BY <1>1, <2>1 DEF Closing
  <2>5. \/ q = <<>>
        \/ NetForm(q, s) /\ (Ends(q, s) /\ open'[s] => open[s])
        \/ ~open'[s] /\ (q = Ending3("unlist", s) \/ q = Ending4("callback", s))
    BY <1>8, <2>2
  <2> QED
    BY <1>1, <1>2, <1>8, <2>1, <2>3, <2>4, <2>5, NetStackStep
<1>10. CASE ~open[s]
  <2>1. /\ q \in Scripts
        /\ q # <<>> => Head(q) = <<"unlist", s>>
        /\ Ends(q, s) <=> q = Ending3("unlist", s)
        /\ Ends(q, s) => q # <<>> /\ q # One("unlist", s)
    BY <1>4, <1>6, <1>10, Rest
  <2>2. q = <<>> \/ NetForm(q, s) \/ q = Ending3("unlist", s)
    BY <1>3, <1>6, <1>10 DEF Left, NetForm
  <2>3. Ends(q, s) => Ends(todo[Net], s)
    BY <1>3, <1>6, <1>10, <2>1 DEF Left
  <2>4. /\ \E m \in Closing \cup {"ask"} : At(Net, m, s)
        /\ q # <<>> => Head(q)[2] = s
                        /\ Head(q)[1] \notin {"clear", "answer", "dropLookup"}
    BY <1>1, <2>1 DEF Closing
  <2>5. \/ q = <<>>
        \/ NetForm(q, s) /\ (Ends(q, s) /\ open'[s] => open[s])
        \/ ~open'[s] /\ (q = Ending3("unlist", s) \/ q = Ending4("callback", s))
    BY <1>8, <2>2
  <2> QED
    BY <1>1, <1>2, <1>8, <2>1, <2>3, <2>4, <2>5, NetStackStep
<1> QED BY <1>9, <1>10

LEMMA CannotCloseStep ==
  ASSUME IInv, LifetimeAssumption, NEW s \in Sessions, CannotClose(s)
  PROVE  IInv'
<1> DEFINE q == Tail(todo[Net])
<1>1. /\ At(Net, "tryClose", s) /\ todo' = [todo EXCEPT ![Net] = <<>> \o q]
      /\ UNCHANGED <<life, refs, self, queueVars, lookups, timerVars, posts, deletes>>
      /\ connects' = connects /\ open' = open
  BY DEF CannotClose, Done, Replace
<1>2. /\ Left(q, s)
      /\ q = Ending3("unlist", s) => Shut(s)
  BY <1>1, NetLeft DEF Closing
<1> HIDE DEF q
<1>3. /\ <<>> \o q = q /\ q \in Scripts
      /\ q # <<>> => Head(q) = <<"unlist", s>>
      /\ Ends(q, s) <=> q = Ending3("unlist", s)
      /\ Ends(q, s) => q # <<>> /\ q # One("unlist", s)
  BY <1>2, Rest DEF Left
<1>4. q = <<>> \/ NetForm(q, s)
  BY <1>2 DEF Left, NetForm
<1>5. Ends(q, s) => Ends(todo[Net], s)
  BY <1>2, <1>3 DEF Left
<1>6. connects' \in [Sessions -> Nat]
  BY <1>1 DEF IInv, Types
<1>7. /\ \E n \in Closing \cup {"ask"} : At(Net, n, s)
      /\ q # <<>> => Head(q)[2] = s
                      /\ Head(q)[1] \notin {"clear", "answer", "dropLookup"}
  BY <1>1, <1>3 DEF Closing
<1>8. \/ q = <<>>
      \/ NetForm(q, s) /\ (Ends(q, s) /\ open'[s] => open[s])
      \/ ~open'[s] /\ (q = Ending3("unlist", s) \/ q = Ending4("callback", s))
  BY <1>1, <1>4
<1> QED BY <1>1, <1>3, <1>5, <1>6, <1>7, <1>8, NetStackStep

LEMMA RemoteStep ==
  ASSUME IInv, LifetimeAssumption, NEW s \in Sessions, Remote(s)
  PROVE  IInv'
<1>1. PICK n \in {"close", "callback"} : todo' = [todo EXCEPT ![Net] = One(n, s)]
  BY DEF Remote, One
<1>2. /\ UNCHANGED <<life, refs, self, queueVars, lookups, timerVars, posts, deletes>>
      /\ connects' = connects /\ open' = open /\ todo[Net] = <<>>
  BY DEF Remote, Idle
<1>3. Kept(s)
  BY DEF Remote, IInv, SessionInv, Opened
<1>4. n \in StepNames /\ n \in Closing
  BY DEF StepNames, Closing
<1>5. /\ One(n, s) \in Scripts /\ Head(One(n, s)) = <<n, s>> /\ ~Ends(One(n, s), s)
  BY <1>4, ScriptsAre, ScriptHeads, ScriptEnds DEF Closing
<1>6. NetForm(One(n, s), s)
  BY <1>3, <1>4 DEF NetForm
<1>7. connects' \in [Sessions -> Nat]
  BY <1>2 DEF IInv, Types
<1> DEFINE q == One(n, s)
<1>8. /\ q # <<>> => Head(q)[2] = s
                      /\ Head(q)[1] \notin {"clear", "answer", "dropLookup"}
      /\ \/ q = <<>>
         \/ NetForm(q, s) /\ (Ends(q, s) /\ open'[s] => open[s])
         \/ ~open'[s] /\ (q = Ending3("unlist", s) \/ q = Ending4("callback", s))
      /\ q \in Scripts /\ todo' = [todo EXCEPT ![Net] = q]
      /\ Ends(q, s) => Ends(todo[Net], s)
  BY <1>1, <1>5, <1>6
<1> HIDE DEF q
<1> QED BY <1>2, <1>7, <1>8, NetStackStep

LEMMA OnTimerStep ==
  ASSUME IInv, LifetimeAssumption, NEW s \in Sessions, OnTimer(s)
  PROVE  IInv'
<1>1. Net \in Threads /\ Timer \in Threads /\ Net # Timer
  BY DEF LifetimeAssumption, Threads
<1>2. /\ todo' = [todo EXCEPT ![Timer] = One("callback", s)]
      /\ todo[Timer] = <<>> /\ open' = open /\ connects' = connects
      /\ UNCHANGED <<life, refs, self, queueVars, lookups, addList, delList, deaths,
                     timerList, deathsDeal, posts, deletes>>
      /\ toTick' \subseteq toTick
  BY DEF OnTimer, One, Idle
<1>3. s \in timerList
  BY DEF OnTimer, IInv, Types
<1>4. /\ One("callback", s) \in Scripts /\ Head(One("callback", s)) = <<"callback", s>>
      /\ ~Ends(One("callback", s), s)
  BY ScriptsAre, ScriptHeads, ScriptEnds DEF StepNames
<1>5. Form(Timer, One("callback", s), s)
  BY <1>1 DEF Form, OtherForm
<1>6. connects' \in [Sessions -> Nat]
  BY <1>2 DEF IInv, Types
<1>7. /\ open' = open \/ \E x \in BOOLEAN : open' = [open EXCEPT ![s] = x]
      /\ open'[s] => open[s] \/ (Kept(s) /\ Timer = Net)
      /\ todo[Timer] = <<>> \/ Head(todo[Timer])[2] = s
      /\ ~At(Timer, "clear", s)
  BY <1>2 DEF At
<1> DEFINE q == One("callback", s)
<1>8. /\ q = <<>> \/ Head(q)[2] = s
      /\ q # <<>> => Head(q)[1] # "clear"
      /\ Timer = Net => ((q # <<>> /\ Head(q)[1] \in {"answer", "dropLookup"})
                           <=> At(Net, "answer", s) \/ At(Net, "dropLookup", s))
      /\ q = One("callback", s) /\ Timer = Timer => s \in timerList
      /\ Ends(q, s) => Ends(todo[Timer], s)
      /\ \/ q = <<>>
         \/ Form(Timer, q, s) /\ (Ends(q, s) /\ open'[s] => open[s])
         \/ /\ Timer = Net /\ ~open'[s]
            /\ q = Ending3("unlist", s) \/ q = Ending4("callback", s)
  BY <1>1, <1>3, <1>4, <1>5
<1>9. q \in Scripts /\ todo' = [todo EXCEPT ![Timer] = q]
  BY <1>2, <1>4
<1> HIDE DEF q, IInv
<1> QED BY <1>1, <1>2, <1>6, <1>7, <1>8, <1>9, StackStep

LEMMA AnswerStep ==
  ASSUME IInv, LifetimeAssumption, NEW s \in Sessions, DNSParseConnectCallback(s)
  PROVE  IInv'
<1>1. Net \in Threads /\ Net # Timer
  BY DEF LifetimeAssumption, Threads
<1> DEFINE q == One("dropLookup", s)
<1>2. At(Net, "answer", s) /\ todo[Net] # <<>> /\ Head(todo[Net]) = <<"answer", s>>
  BY DEF DNSParseConnectCallback, Answer, At
<1>3. Tail(todo[Net]) = <<>>
  <2>1. NetForm(todo[Net], s)
    BY <1>1, <1>2, AtForm DEF Form
  <2>2. todo[Net] = One("answer", s)
    BY <1>2, <2>1, ScriptHeads DEF NetForm, Closing
  <2> QED BY <2>2, ScriptTails
<1>4. todo' = [todo EXCEPT ![Net] = q]
  <2>1. todo' = [todo EXCEPT ![Net] = One("dropLookup", s) \o <<>>]
    BY <1>3 DEF DNSParseConnectCallback, Answer, Replace, One
  <2> QED BY <2>1, ScriptJoins
<1>5. /\ UNCHANGED <<life, refs, self, queueVars, lookups, addList, delList, deaths,
                     timerList, deathsDeal, posts, deletes>>
      /\ toTick' \subseteq toTick /\ connects' = connects
  BY DEF DNSParseConnectCallback, Answer, timerVars
<1>6. connects' \in [Sessions -> Nat]
  BY <1>5 DEF IInv, Types
<1>7. /\ open' = open \/ \E x \in BOOLEAN : open' = [open EXCEPT ![s] = x]
      /\ open' = open \/ deletes[s] = 0
  BY DEF DNSParseConnectCallback, Answer
<1>8. deletes[s] = 0 => Kept(s)
  <2>1. Live(s)
    <3>1. Answering(s) = 1
      BY <1>2 DEF Answering
    <3> QED BY <3>1, HeldIsLive DEF IInv, Held
  <2> QED BY <2>1, UndeletedIsHeld DEF Kept, Live
<1>9. /\ q \in Scripts /\ q # <<>> /\ Head(q) = <<"dropLookup", s>> /\ ~Ends(q, s)
  BY ScriptsAre, ScriptHeads, ScriptEnds DEF StepNames
<1>10. Form(Net, q, s)
  BY DEF Form, NetForm
<1>11. /\ open'[s] => open[s] \/ (Kept(s) /\ Net = Net)
       /\ todo[Net] = <<>> \/ Head(todo[Net])[2] = s
       /\ ~At(Net, "clear", s)
  BY <1>2, <1>7, <1>8 DEF At
<1>12. /\ q = <<>> \/ Head(q)[2] = s
       /\ q # <<>> => Head(q)[1] # "clear"
       /\ Net = Net => ((q # <<>> /\ Head(q)[1] \in {"answer", "dropLookup"})
                          <=> At(Net, "answer", s) \/ At(Net, "dropLookup", s))
       /\ q = One("callback", s) /\ Net = Timer => s \in timerList
       /\ Ends(q, s) => Ends(todo[Net], s)
       /\ \/ q = <<>>
          \/ Form(Net, q, s) /\ (Ends(q, s) /\ open'[s] => open[s])
          \/ /\ Net = Net /\ ~open'[s]
             /\ q = Ending3("unlist", s) \/ q = Ending4("callback", s)
  BY <1>1, <1>2, <1>9, <1>10
<1> HIDE DEF q, IInv
<1> QED BY <1>1, <1>4, <1>5, <1>6, <1>7, <1>9, <1>11, <1>12, StackStep

-----------------------------------------------------------------------------
(* A step that gives a reference, takes one or moves it, and leaves the    *)
(* pointer of the session and its calls as they are.                       *)
LEMMA SteadyStep ==
  ASSUME IInv, Types', None \notin Sessions, NEW a \in Threads,
         NEW s \in Sessions, Local(a, s),
         Counted(s)', Freed(s)', Queued(s)',
         life'[s] = "none" <=> life[s] = "none",
         self'[s] = self[s], open'[s] = open[s], posts'[s] = posts[s],
         deletes'[s] = deletes[s],
         At(a, "clear", s)' <=> At(a, "clear", s),
         OffTimer(s) => OffTimer(s)',
         deaths'[s] > 0 => s \in delList',
         Ends(todo'[a], s) => /\ Ends(todo[a], s)
                              /\ todo'[a] # One("clear", s) => todo[a] # One("clear", s),
         (todo[a] = <<>> \/ Form(a, todo[a], s))'
  PROVE  IInv'
<1>1. \A b \in Threads \ {a} : todo'[b] = todo[b]
  BY DEF Local
<1>2. SelfHeld(s)' <=> SelfHeld(s)
  BY <1>1, SameHeld
<1>3. /\ Posted(s)' <=> Posted(s)
      /\ Kept(s)' <=> Kept(s)
      /\ Shut(s) => Shut(s)'
  BY <1>2 DEF Posted, Kept, Shut
<1>4. \A b \in Threads : b # a /\ Form(b, todo[b], s) => Form(b, todo[b], s)'
  BY <1>1, <1>3, FormsKept
<1>s. SessionInv(s)
  BY DEF IInv
<1>5. Started(s)'
  BY <1>s DEF SessionInv, Started
<1>6. Listed(s)' /\ Opened(s)'
  BY <1>2, <1>3, <1>s DEF SessionInv, Listed, Opened
<1>7. EndedOnce(s)'
  BY <1>1, <1>s DEF SessionInv, EndedOnce
<1>8. SessionInv(s)'
  BY <1>5, <1>6, <1>7 DEF SessionInv
<1> QED BY <1>4, <1>8, LocalStep

(* What a new stack of its thread does not touch.                          *)
LEMMA StackHolders ==
  ASSUME Types, NEW a \in Threads, NEW s \in Sessions, NEW q \in Scripts,
         todo' = [todo EXCEPT ![a] = q], self'[s] = self[s],
         ~At(a, "clear", s), q # <<>> => Head(q)[1] # "clear", Net \in Threads
  PROVE  /\ ~At(a, "clear", s)'
         /\ SelfRefs(s)' = SelfRefs(s) /\ (SelfHeld(s)' <=> SelfHeld(s))
         /\ a # Net => Answering(s)' = Answering(s)
         /\ a = Net => Answering(s)' =
              IF q # <<>> /\ Head(q) \in {<<"answer", s>>, <<"dropLookup", s>>}
              THEN 1 ELSE 0
<1>1. todo'[a] = q /\ \A b \in Threads \ {a} : todo'[b] = todo[b]
  BY NewStack
<1>2. ~At(a, "clear", s)'
  BY <1>1 DEF At
<1>3. SelfRefs(s)' = SelfRefs(s) /\ (SelfHeld(s)' <=> SelfHeld(s))
  BY <1>1, <1>2, SameHeld
<1>4. CASE a # Net
  BY <1>1, <1>2, <1>3, <1>4 DEF Answering, At
<1>5. CASE a = Net
  BY <1>1, <1>2, <1>3, <1>5 DEF Answering, At
<1> QED BY <1>4, <1>5

LEMMA RegisterStep ==
  ASSUME IInv, LifetimeAssumption, NEW a \in Threads, NEW s \in Sessions,
         Register(a, s)
  PROVE  IInv'
<1>0. None \notin Sessions /\ Types /\ SessionInv(s) /\ Net \in Threads /\ Net # Timer
  BY DEF LifetimeAssumption, Threads, IInv
<1>1. /\ AddRef(s) /\ queued' = [queued EXCEPT ![s] = @ + 1]
      /\ At(a, "register", s) /\ todo[a] # <<>> /\ Head(todo[a]) = <<"register", s>>
      /\ todo' = [todo EXCEPT ![a] = <<>> \o Tail(todo[a])]
      /\ UNCHANGED <<self, open, items, serving, batch, lookups, timerVars,
                     posts, deletes, connects>>
  BY DEF Register, HandOver, Done, Replace, At
<1>2. /\ a # Net /\ Posted(s)
      /\ \/ todo[a] = One("register", s) /\ Tail(todo[a]) = <<>>
         \/ /\ todo[a] = Ending3("register", s) /\ Tail(todo[a]) = Ending2(s)
            /\ Ends(todo[a], s)
  <2>1. Form(a, todo[a], s)
    BY <1>1, AtForm
  <2>2. ~NetForm(todo[a], s)
    BY <1>1, ScriptHeads DEF NetForm, Closing
  <2>3. a # Net /\ OtherForm(a, todo[a], s)
    BY <2>1, <2>2 DEF Form
  <2>4. Posted(s) /\ (todo[a] = One("register", s) \/ todo[a] = Ending3("register", s))
    BY <1>1, <2>3, ScriptHeads DEF OtherForm
  <2>5. Ends(Ending3("register", s), s)
    BY ScriptEnds DEF StepNames
  <2> QED BY <2>3, <2>4, <2>5, ScriptTails
<1>3. PICK q : q = Tail(todo[a])
  OBVIOUS
<1>4. /\ todo' = [todo EXCEPT ![a] = q] /\ q \in Scripts
      /\ q = <<>> \/ q = Ending2(s)
      /\ q # <<>> => Head(q) = <<"release", s>>
      /\ Ends(q, s) => Ends(todo[a], s)
      /\ q # One("clear", s) /\ q # One("callback", s)
  <2>1. <<>> \o q = q /\ q \in Scripts
    BY <1>2, <1>3, ScriptJoins, ScriptsAre DEF StepNames
  <2>2. q = <<>> \/ (q = Ending2(s) /\ Ends(todo[a], s))
    BY <1>2, <1>3
  <2>3. CASE q = <<>>
    <3>1. ~Ends(q, s) /\ q # One("clear", s) /\ q # One("callback", s)
      BY <2>3, ScriptHeads, ScriptEnds
    <3> QED BY <1>1, <1>3, <2>1, <2>3, <3>1
  <2>4. CASE q = Ending2(s) /\ Ends(todo[a], s)
    <3>1. Head(q) = <<"release", s>> /\ q # <<>>
      BY <2>4, ScriptHeads
    <3>2. Head(One("clear", s)) = <<"clear", s>>
      BY ScriptHeads
    <3>3. Head(One("callback", s)) = <<"callback", s>>
      BY ScriptHeads
    <3>4. q # One("clear", s) /\ q # One("callback", s)
      BY <3>1, <3>2, <3>3
    <3> QED BY <1>1, <1>3, <2>1, <2>4, <3>1, <3>4
  <2> QED BY <2>2, <2>3, <2>4
<1>5. /\ todo' \in [Threads -> Scripts] /\ todo'[a] = q
      /\ \A b \in Threads \ {a} : todo'[b] = todo[b]
  BY <1>0, <1>4, NewStack
<1>6. /\ refs' \in [Sessions -> Int] /\ life' \in [Sessions -> {"none", "live", "freed"}]
      /\ \A r \in Sessions \ {s} : refs'[r] = refs[r] /\ life'[r] = life[r]
  BY <1>0, <1>1, RefsElsewhere
<1>7. Types'
  <2>1. queued' \in [Sessions -> Nat]
    BY <1>0, <1>1 DEF Types
  <2> QED BY <1>0, <1>1, <1>5, <1>6, <2>1 DEF Types, timerVars
<1>8. Local(a, s)
  <2>1. \A r \in Sessions \ {s} : Away(todo[a], r) /\ Away(todo'[a], r)
    BY <1>1, <1>4, <1>5 DEF Away
  <2>2. \A r \in Sessions \ {s} : queued'[r] = queued[r]
    BY <1>0, <1>1 DEF Types
  <2> QED BY <1>1, <1>5, <1>6, <2>1, <2>2 DEF Local, timerVars
<1>9. /\ ~At(a, "clear", s) /\ ~At(a, "clear", s)'
      /\ SelfRefs(s)' = SelfRefs(s) /\ Answering(s)' = Answering(s)
  <2>1. ~At(a, "clear", s) /\ (q # <<>> => Head(q)[1] # "clear")
    BY <1>1, <1>4 DEF At
  <2> QED BY <1>0, <1>1, <1>2, <1>4, <2>1, StackHolders
<1>10. Counted(s)' /\ Freed(s)' /\ life' = life
  <2>1. Changes(s, "queued", 1)
    BY <1>0, <1>1, <1>9 DEF Changes, Types, Served, timerVars
  <2>2. Live(s)
    BY <1>2, KeptIsLive DEF Kept
  <2> QED BY <1>0, <1>1, <1>7, <2>1, <2>2, RefGained DEF Kinds
<1>11. Queued(s)'
  BY <1>0, <1>1 DEF SessionInv, Queued, Posted
<1>12. OffTimer(s) => OffTimer(s)'
  BY <1>1, <1>2 DEF OffTimer, Posted
<1>13. (todo[a] = <<>> \/ Form(a, todo[a], s))'
  BY <1>1, <1>2, <1>4, <1>5 DEF Form, OtherForm, Posted
<1>14. /\ deaths'[s] > 0 => s \in delList'
       /\ Ends(todo'[a], s) => /\ Ends(todo[a], s)
                               /\ todo'[a] # One("clear", s) => todo[a] # One("clear", s)
  <2>1. deaths'[s] > 0 => s \in delList'
    BY <1>0, <1>1 DEF SessionInv, Listed, timerVars
  <2>2. todo[a] # One("clear", s)
    BY <1>1, ScriptHeads
  <2> QED BY <1>4, <1>5, <2>1, <2>2
<1>15. /\ life'[s] = "none" <=> life[s] = "none"
       /\ self'[s] = self[s] /\ open'[s] = open[s] /\ posts'[s] = posts[s]
       /\ deletes'[s] = deletes[s]
       /\ At(a, "clear", s)' <=> At(a, "clear", s)
  BY <1>1, <1>9, <1>10
<1> HIDE DEF IInv
<1> QED
  BY <1>0, <1>7, <1>8, <1>10, <1>11, <1>12, <1>13, <1>14, <1>15, SteadyStep

LEMMA AskLaterStep ==
  ASSUME IInv, LifetimeAssumption, NEW s \in Sessions, AskLater(s)
  PROVE  IInv'
<1>0. None \notin Sessions /\ Types /\ SessionInv(s) /\ Net \in Threads /\ Net # Timer
  BY DEF LifetimeAssumption, Threads, IInv
<1>1. /\ AddRef(s) /\ lookups' = [lookups EXCEPT ![s] = @ + 1]
      /\ At(Net, "ask", s) /\ todo[Net] # <<>> /\ Head(todo[Net]) = <<"ask", s>>
      /\ todo' = [todo EXCEPT ![Net] = <<>> \o Tail(todo[Net])]
      /\ UNCHANGED <<self, open, queueVars, timerVars, posts, deletes, connects>>
  BY DEF AskLater, Ask, Done, Replace, At
<1>2. Kept(s) /\ todo[Net] = One("ask", s)
  <2>1. NetForm(todo[Net], s)
    BY <1>0, <1>1, AtForm DEF Form
  <2> QED BY <1>1, <2>1, ScriptHeads DEF NetForm, Closing
<1>3. todo' = [todo EXCEPT ![Net] = <<>>]
  <2>1. Tail(One("ask", s)) = <<>> /\ <<>> \o <<>> = <<>>
    BY ScriptTails, ScriptJoins
  <2> QED BY <1>1, <1>2, <2>1, Zenon
<1>4. <<>> \in Scripts /\ ~Ends(<<>>, s)
  BY ScriptsAre, ScriptEnds DEF StepNames
<1>5. /\ todo' \in [Threads -> Scripts] /\ todo'[Net] = <<>>
      /\ \A b \in Threads \ {Net} : todo'[b] = todo[b]
  BY <1>0, <1>3, <1>4, NewStack
<1>6. /\ refs' \in [Sessions -> Int] /\ life' \in [Sessions -> {"none", "live", "freed"}]
      /\ \A r \in Sessions \ {s} : refs'[r] = refs[r] /\ life'[r] = life[r]
  BY <1>0, <1>1, RefsElsewhere
<1>7. /\ lookups' \in [Sessions -> Nat]
      /\ \A r \in Sessions \ {s} : lookups'[r] = lookups[r]
      /\ lookups'[s] = lookups[s] + 1
  BY <1>0, <1>1 DEF Types
<1>8. Types'
  BY <1>0, <1>1, <1>5, <1>6, <1>7 DEF Types, timerVars, queueVars
<1>9. Local(Net, s)
  <2>1. \A r \in Sessions \ {s} : Away(todo[Net], r) /\ Away(todo'[Net], r)
    BY <1>1, <1>5 DEF Away
  <2> QED BY <1>1, <1>5, <1>6, <1>7, <2>1 DEF Local, timerVars, queueVars
<1>10. /\ ~At(Net, "clear", s) /\ ~At(Net, "clear", s)'
       /\ SelfRefs(s)' = SelfRefs(s) /\ Answering(s)' = Answering(s)
  <2>1. ~At(Net, "clear", s) /\ Answering(s) = 0
    BY <1>1 DEF At, Answering
  <2> QED BY <1>0, <1>1, <1>3, <1>4, <2>1, StackHolders
<1>11. Counted(s)' /\ Freed(s)' /\ life' = life
  <2>1. Changes(s, "lookups", 1)
    BY <1>1, <1>7, <1>10 DEF Changes, Served, timerVars, queueVars
  <2>2. Live(s)
    BY <1>2, KeptIsLive
  <2> QED BY <1>0, <1>1, <1>8, <2>1, <2>2, RefGained DEF Kinds
<1>12. Queued(s)' /\ (OffTimer(s) => OffTimer(s)')
  <2>1. todo'[Timer] = todo[Timer]
    BY <1>0, <1>5 DEF Threads
  <2> QED BY <1>0, <1>1, <2>1
        DEF SessionInv, Queued, Posted, OffTimer, timerVars, queueVars
<1>13. (todo[Net] = <<>> \/ Form(Net, todo[Net], s))'
  BY <1>5
<1>14. /\ deaths'[s] > 0 => s \in delList'
       /\ Ends(todo'[Net], s) =>
            /\ Ends(todo[Net], s)
            /\ todo'[Net] # One("clear", s) => todo[Net] # One("clear", s)
  <2>1. deaths'[s] > 0 => s \in delList'
    BY <1>0, <1>1 DEF SessionInv, Listed, timerVars
  <2> QED BY <1>4, <1>5, <2>1
<1>15. /\ life'[s] = "none" <=> life[s] = "none"
       /\ self'[s] = self[s] /\ open'[s] = open[s] /\ posts'[s] = posts[s]
       /\ deletes'[s] = deletes[s]
       /\ At(Net, "clear", s)' <=> At(Net, "clear", s)
  BY <1>1, <1>10, <1>11
<1> HIDE DEF IInv
<1> QED
  BY <1>0, <1>8, <1>9, <1>11, <1>12, <1>13, <1>14, <1>15, SteadyStep

LEMMA DropLookupStep ==
  ASSUME IInv, LifetimeAssumption, NEW s \in Sessions, DropLookup(s)
  PROVE  IInv'
<1>0. None \notin Sessions /\ Types /\ SessionInv(s) /\ Net \in Threads /\ Net # Timer
  BY DEF LifetimeAssumption, Threads, IInv
<1>1. /\ DelRef(s)
      /\ At(Net, "dropLookup", s)
      /\ todo[Net] # <<>> /\ Head(todo[Net]) = <<"dropLookup", s>>
      /\ todo' = [todo EXCEPT ![Net] = <<>> \o Tail(todo[Net])]
      /\ UNCHANGED <<self, open, queueVars, lookups, timerVars, posts, deletes, connects>>
  BY DEF DropLookup, EndLookup, Done, Replace, At
<1>2. todo[Net] = One("dropLookup", s)
  <2>1. NetForm(todo[Net], s)
    BY <1>0, <1>1, AtForm DEF Form
  <2> QED BY <1>1, <2>1, ScriptHeads DEF NetForm, Closing
<1>3. todo' = [todo EXCEPT ![Net] = <<>>]
  <2>1. Tail(One("dropLookup", s)) = <<>> /\ <<>> \o <<>> = <<>>
    BY ScriptTails, ScriptJoins
  <2> QED BY <1>1, <1>2, <2>1, Zenon
<1>4. <<>> \in Scripts /\ ~Ends(<<>>, s)
  BY ScriptsAre, ScriptEnds DEF StepNames
<1>5. /\ todo' \in [Threads -> Scripts] /\ todo'[Net] = <<>>
      /\ \A b \in Threads \ {Net} : todo'[b] = todo[b]
  BY <1>0, <1>3, <1>4, NewStack
<1>6. /\ refs' \in [Sessions -> Int] /\ life' \in [Sessions -> {"none", "live", "freed"}]
      /\ \A r \in Sessions \ {s} : refs'[r] = refs[r] /\ life'[r] = life[r]
  BY <1>0, <1>1, RefsElsewhere
<1>7. Types'
  BY <1>0, <1>1, <1>5, <1>6 DEF Types, timerVars, queueVars
<1>8. Local(Net, s)
  <2>1. \A r \in Sessions \ {s} : Away(todo[Net], r) /\ Away(todo'[Net], r)
    BY <1>1, <1>5 DEF Away
  <2> QED BY <1>1, <1>5, <1>6, <2>1 DEF Local, timerVars, queueVars
<1>9. /\ ~At(Net, "clear", s) /\ ~At(Net, "clear", s)'
      /\ SelfRefs(s)' = SelfRefs(s) /\ Answering(s) = 1 /\ Answering(s)' = 0
  <2>1. ~At(Net, "clear", s) /\ Answering(s) = 1
    BY <1>1 DEF At, Answering
  <2> QED BY <1>0, <1>1, <1>3, <1>4, <2>1, StackHolders
<1>10. Counted(s)' /\ Freed(s)' /\ Live(s) /\ life'[s] \in {"live", "freed"}
  <2>1. Changes(s, "answering", -1)
    BY <1>1, <1>9 DEF Changes, Served, timerVars, queueVars
  <2>2. Held(s)
    BY <1>9 DEF Held
  <2> QED BY <1>0, <1>1, <1>7, <2>1, <2>2, RefLost DEF Kinds
<1>11. Queued(s)' /\ (OffTimer(s) => OffTimer(s)')
  <2>1. todo'[Timer] = todo[Timer]
    BY <1>0, <1>5 DEF Threads
  <2> QED BY <1>0, <1>1, <2>1
        DEF SessionInv, Queued, Posted, OffTimer, timerVars, queueVars
<1>12. (todo[Net] = <<>> \/ Form(Net, todo[Net], s))'
  BY <1>5
<1>13. /\ deaths'[s] > 0 => s \in delList'
       /\ Ends(todo'[Net], s) =>
            /\ Ends(todo[Net], s)
            /\ todo'[Net] # One("clear", s) => todo[Net] # One("clear", s)
  <2>1. deaths'[s] > 0 => s \in delList'
    BY <1>0, <1>1 DEF SessionInv, Listed, timerVars
  <2> QED BY <1>4, <1>5, <2>1
<1>14. /\ life'[s] = "none" <=> life[s] = "none"
       /\ self'[s] = self[s] /\ open'[s] = open[s] /\ posts'[s] = posts[s]
       /\ deletes'[s] = deletes[s]
       /\ At(Net, "clear", s)' <=> At(Net, "clear", s)
  BY <1>1, <1>9, <1>10 DEF Live
<1> HIDE DEF IInv
<1> QED
  BY <1>0, <1>7, <1>8, <1>10, <1>11, <1>12, <1>13, <1>14, SteadyStep

LEMMA LookupAnsweredStep ==
  ASSUME IInv, LifetimeAssumption, NEW s \in Sessions, LookupAnswered(s)
  PROVE  IInv'
<1> DEFINE q == One("answer", s)
<1>0. None \notin Sessions /\ Types /\ SessionInv(s) /\ Net \in Threads /\ Net # Timer
  BY DEF LifetimeAssumption, Threads, IInv
<1>1. /\ todo' = [todo EXCEPT ![Net] = q] /\ todo[Net] = <<>>
      /\ lookups[s] > 0 /\ lookups' = [lookups EXCEPT ![s] = @ - 1]
      /\ UNCHANGED <<life, refs, self, open, queueVars, timerVars, posts, deletes,
                     connects>>
  BY DEF LookupAnswered, Idle, One
<1>2. /\ q \in Scripts /\ q # <<>> /\ Head(q) = <<"answer", s>> /\ ~Ends(q, s)
  BY ScriptsAre, ScriptHeads, ScriptEnds DEF StepNames
<1>3. NetForm(q, s)'
  BY DEF NetForm
<1> HIDE DEF q
<1>4. /\ todo' \in [Threads -> Scripts] /\ todo'[Net] = q
      /\ \A b \in Threads \ {Net} : todo'[b] = todo[b]
  BY <1>0, <1>1, <1>2, NewStack
<1>5. /\ lookups' \in [Sessions -> Nat]
      /\ \A r \in Sessions \ {s} : lookups'[r] = lookups[r]
      /\ lookups'[s] = lookups[s] - 1
  BY <1>0, <1>1 DEF Types
<1>6. Types'
  BY <1>0, <1>1, <1>4, <1>5 DEF Types, timerVars, queueVars
<1>7. Local(Net, s)
  <2>1. \A r \in Sessions \ {s} : Away(todo[Net], r) /\ Away(todo'[Net], r)
    BY <1>1, <1>2, <1>4 DEF Away
  <2> QED BY <1>1, <1>4, <1>5, <2>1 DEF Local, timerVars, queueVars
<1>8. /\ ~At(Net, "clear", s) /\ ~At(Net, "clear", s)'
      /\ SelfRefs(s)' = SelfRefs(s) /\ Answering(s) = 0 /\ Answering(s)' = 1
  <2>1. ~At(Net, "clear", s) /\ Answering(s) = 0
    BY <1>1 DEF At, Answering
  <2>2. /\ q # <<>> => Head(q)[1] # "clear"
        /\ q # <<>> /\ Head(q) \in {<<"answer", s>>, <<"dropLookup", s>>}
    BY <1>2
  <2> QED BY <1>0, <1>1, <1>2, <2>1, <2>2, StackHolders
<1>9. Counted(s)' /\ Freed(s)'
  <2>1. /\ SelfRefs(s)' = SelfRefs(s) /\ posts'[s] = posts[s] /\ queued'[s] = queued[s]
        /\ Served(s)' = Served(s) /\ lookups'[s] = lookups[s] - 1
        /\ Answering(s) = 0 /\ Answering(s)' = 1
        /\ deaths'[s] = deaths[s] /\ deathsDeal'[s] = deathsDeal[s]
    BY <1>1, <1>5, <1>8 DEF Served, timerVars, queueVars
  <2>2. Holders(s)' = Holders(s)
    BY <1>0, <1>6, <2>1, AnswerMoves
  <2> QED BY <1>0, <1>1, <2>2 DEF SessionInv, Counted, Freed, Live
<1>10. Queued(s)' /\ (OffTimer(s) => OffTimer(s)')
  <2>1. todo'[Timer] = todo[Timer]
    BY <1>0, <1>4 DEF Threads
  <2> QED BY <1>0, <1>1, <2>1
        DEF SessionInv, Queued, Posted, OffTimer, timerVars, queueVars
<1>11. (todo[Net] = <<>> \/ Form(Net, todo[Net], s))'
  BY <1>3, <1>4 DEF Form
<1>12. /\ deaths'[s] > 0 => s \in delList'
       /\ Ends(todo'[Net], s) =>
            /\ Ends(todo[Net], s)
            /\ todo'[Net] # One("clear", s) => todo[Net] # One("clear", s)
  <2>1. deaths'[s] > 0 => s \in delList'
    BY <1>0, <1>1 DEF SessionInv, Listed, timerVars
  <2> QED BY <1>2, <1>4, <2>1
<1>13. /\ life'[s] = "none" <=> life[s] = "none"
       /\ self'[s] = self[s] /\ open'[s] = open[s] /\ posts'[s] = posts[s]
       /\ deletes'[s] = deletes[s]
       /\ At(Net, "clear", s)' <=> At(Net, "clear", s)
  BY <1>1, <1>8
<1> HIDE DEF IInv
<1> QED
  BY <1>0, <1>6, <1>7, <1>9, <1>10, <1>11, <1>12, <1>13, SteadyStep

LEMMA DelToTimerStep ==
  ASSUME IInv, LifetimeAssumption, NEW s \in Sessions, DelToTimer(s)
  PROVE  IInv'
<1>0. None \notin Sessions /\ Types /\ SessionInv(s) /\ Net \in Threads /\ Net # Timer
  BY DEF LifetimeAssumption, Threads, IInv
<1>1. /\ AddRef(s) /\ deaths' = [deaths EXCEPT ![s] = @ + 1] /\ delList' = delList \cup {s}
      /\ At(Net, "unlist", s) /\ todo[Net] # <<>> /\ Head(todo[Net]) = <<"unlist", s>>
      /\ todo' = [todo EXCEPT ![Net] = <<>> \o Tail(todo[Net])]
      /\ UNCHANGED <<self, open, queueVars, lookups, addList, timerList, deathsDeal,
                     toTick, posts, deletes, connects>>
  BY DEF DelToTimer, Done, Replace, At
<1>2. \/ Posted(s) /\ todo[Net] = One("unlist", s) /\ Tail(todo[Net]) = <<>>
      \/ /\ Shut(s) /\ todo[Net] = Ending3("unlist", s) /\ Ends(todo[Net], s)
         /\ Tail(todo[Net]) = Ending2(s)
  <2>1. NetForm(todo[Net], s)
    BY <1>0, <1>1, AtForm DEF Form
  <2>2. \/ Posted(s) /\ todo[Net] = One("unlist", s)
        \/ Shut(s) /\ todo[Net] = Ending3("unlist", s)
    BY <1>1, <2>1, ScriptHeads DEF NetForm, Closing
  <2>3. Ends(Ending3("unlist", s), s)
    BY ScriptEnds DEF StepNames
  <2> QED BY <2>2, <2>3, ScriptTails
<1>3. PICK q : q = Tail(todo[Net])
  OBVIOUS
<1>4. /\ todo' = [todo EXCEPT ![Net] = q] /\ q \in Scripts
      /\ q # <<>> => Head(q) = <<"release", s>>
      /\ \/ q = <<>>
         \/ q = Ending2(s) /\ Shut(s) /\ Ends(todo[Net], s)
      /\ Ends(q, s) => Ends(todo[Net], s)
  <2>1. <<>> \o q = q /\ q \in Scripts
    BY <1>2, <1>3, ScriptJoins, ScriptsAre DEF StepNames
  <2>2. q = <<>> \/ (q = Ending2(s) /\ Shut(s) /\ Ends(todo[Net], s))
    BY <1>2, <1>3
  <2>3. ~Ends(<<>>, s) /\ Head(Ending2(s)) = <<"release", s>>
    BY ScriptEnds, ScriptHeads
  <2> QED BY <1>1, <1>3, <2>1, <2>2, <2>3
<1>5. /\ todo' \in [Threads -> Scripts] /\ todo'[Net] = q
      /\ \A b \in Threads \ {Net} : todo'[b] = todo[b]
  BY <1>0, <1>4, NewStack
<1>6. /\ refs' \in [Sessions -> Int] /\ life' \in [Sessions -> {"none", "live", "freed"}]
      /\ \A r \in Sessions \ {s} : refs'[r] = refs[r] /\ life'[r] = life[r]
  BY <1>0, <1>1, RefsElsewhere
<1>7. /\ deaths' \in [Sessions -> Nat]
      /\ \A r \in Sessions \ {s} : deaths'[r] = deaths[r]
      /\ deaths'[s] = deaths[s] + 1 /\ deaths'[s] > 0
  BY <1>0, <1>1 DEF Types
<1>8. Types'
  BY <1>0, <1>1, <1>5, <1>6, <1>7 DEF Types, queueVars
<1>9. Local(Net, s)
  <2>1. \A r \in Sessions \ {s} : Away(todo[Net], r) /\ Away(todo'[Net], r)
    BY <1>1, <1>4, <1>5 DEF Away
  <2> QED BY <1>1, <1>5, <1>6, <1>7, <2>1 DEF Local, queueVars
<1>10. /\ ~At(Net, "clear", s) /\ ~At(Net, "clear", s)'
       /\ SelfRefs(s)' = SelfRefs(s) /\ Answering(s)' = Answering(s)
  <2>1. ~At(Net, "clear", s) /\ Answering(s) = 0
    BY <1>1 DEF At, Answering
  <2>2. /\ q # <<>> => Head(q)[1] # "clear"
        /\ ~(q # <<>> /\ Head(q) \in {<<"answer", s>>, <<"dropLookup", s>>})
    BY <1>4
  <2> QED BY <1>0, <1>1, <1>4, <2>1, <2>2, StackHolders
<1>11. Counted(s)' /\ Freed(s)' /\ life' = life
  <2>1. Changes(s, "deaths", 1)
    BY <1>1, <1>7, <1>10 DEF Changes, Served, queueVars
  <2>2. Live(s)
    <3>1. CASE Posted(s)
      BY <3>1, KeptIsLive DEF Kept
    <3>2. CASE todo[Net] = Ending3("unlist", s) /\ Ends(todo[Net], s)
      BY <1>0, <1>10, <3>2, EndingIsHeld, KeptIsLive DEF Kept
    <3> QED BY <1>2, <3>1, <3>2
  <2> QED BY <1>0, <1>1, <1>8, <2>1, <2>2, RefGained DEF Kinds
<1>12. Queued(s)' /\ OffTimer(s)'
  BY <1>0, <1>1, <1>7 DEF SessionInv, Queued, Posted, OffTimer, queueVars
<1>13. (todo[Net] = <<>> \/ Form(Net, todo[Net], s))'
  <2>1. Shut(s) => Shut(s)'
    BY <1>1 DEF Shut, Posted
  <2> QED BY <1>4, <1>5, <1>12, <2>1 DEF Form, NetForm
<1>14. /\ deaths'[s] > 0 => s \in delList'
       /\ Ends(todo'[Net], s) =>
            /\ Ends(todo[Net], s)
            /\ todo'[Net] # One("clear", s) => todo[Net] # One("clear", s)
  <2>1. todo[Net] # One("clear", s)
    BY <1>1, ScriptHeads
  <2> QED BY <1>1, <1>4, <1>5, <2>1
<1>15. /\ life'[s] = "none" <=> life[s] = "none"
       /\ self'[s] = self[s] /\ open'[s] = open[s] /\ posts'[s] = posts[s]
       /\ deletes'[s] = deletes[s]
       /\ At(Net, "clear", s)' <=> At(Net, "clear", s)
  BY <1>1, <1>10, <1>11
<1> HIDE DEF IInv
<1> QED
  BY <1>0, <1>8, <1>9, <1>11, <1>12, <1>13, <1>14, <1>15, SteadyStep

LEMMA ServeSocketStep ==
  ASSUME IInv, LifetimeAssumption, NEW s \in Sessions, ServeSocket(s)
  PROVE  IInv'
<1>0. None \notin Sessions /\ Types /\ SessionInv(s) /\ Net \in Threads /\ Net # Timer
  BY DEF LifetimeAssumption, Threads, IInv
<1>1. /\ serving = None /\ serving' = s /\ todo[Net] = <<>> /\ todo' = todo
      /\ queued[s] > 0 /\ queued' = [queued EXCEPT ![s] = @ - 1]
      /\ batch' = items[s] /\ items' = [items EXCEPT ![s] = <<>>]
      /\ UNCHANGED <<life, refs, self, open, lookups, timerVars, posts, deletes,
                     connects>>
  BY DEF ServeSocket, Idle
<1>2. /\ queued' \in [Sessions -> Nat] /\ items' \in [Sessions -> Seq(Items)]
      /\ batch' \in Seq(Items)
      /\ \A r \in Sessions \ {s} : queued'[r] = queued[r] /\ items'[r] = items[r]
      /\ queued'[s] = queued[s] - 1 /\ items'[s] = <<>>
  BY <1>0, <1>1 DEF Types
<1>3. Types'
  BY <1>0, <1>1, <1>2 DEF Types, timerVars
<1>4. Local(Net, s)
  <2>1. \A r \in Sessions \ {s} : Away(todo[Net], r) /\ Away(todo'[Net], r)
    BY <1>1 DEF Away
  <2> QED BY <1>1, <1>2, <2>1 DEF Local, timerVars
<1>5. /\ SelfRefs(s)' = SelfRefs(s) /\ Answering(s)' = Answering(s)
      /\ At(Net, "clear", s)' <=> At(Net, "clear", s)
  BY <1>1 DEF SelfRefs, Clearing, Answering, At
<1>6. Counted(s)' /\ Freed(s)'
  <2>1. /\ Served(s) = 0 /\ Served(s)' = 1 /\ queued'[s] = queued[s] - 1
        /\ posts'[s] = posts[s] /\ lookups'[s] = lookups[s]
        /\ deaths'[s] = deaths[s] /\ deathsDeal'[s] = deathsDeal[s]
    BY <1>0, <1>1, <1>2 DEF Served, timerVars
  <2>2. Holders(s)' = Holders(s)
    BY <1>0, <1>3, <1>5, <2>1, ServeMoves
  <2> QED BY <1>0, <1>1, <2>2 DEF SessionInv, Counted, Freed, Live
<1>7. Queued(s)'
  <2>1. items'[s] = <<>> /\ posts' = posts /\ deletes' = deletes /\ batch' = items[s]
    BY <1>1, <1>2
  <2> QED BY <1>0, <2>1 DEF SessionInv, Queued, Posted
<1>8. OffTimer(s) => OffTimer(s)'
  BY <1>1 DEF Posted, OffTimer, timerVars
<1>9. deaths'[s] > 0 => s \in delList'
  BY <1>0, <1>1 DEF SessionInv, Listed, timerVars
<1>10. (todo[Net] = <<>> \/ Form(Net, todo[Net], s))'
  BY <1>1
<1>11. /\ Ends(todo'[Net], s) =>
            /\ Ends(todo[Net], s)
            /\ todo'[Net] # One("clear", s) => todo[Net] # One("clear", s)
       /\ life'[s] = "none" <=> life[s] = "none"
       /\ self'[s] = self[s] /\ open'[s] = open[s] /\ posts'[s] = posts[s]
       /\ deletes'[s] = deletes[s]
  BY <1>1
<1> HIDE DEF IInv
<1> QED
  BY <1>0, <1>3, <1>4, <1>5, <1>6, <1>7, <1>8, <1>9, <1>10, <1>11, SteadyStep

LEMMA EndSocketStep ==
  ASSUME IInv, LifetimeAssumption, NEW s \in Sessions, EndSocket(s)
  PROVE  IInv'
<1>0. None \notin Sessions /\ Types /\ SessionInv(s) /\ Net \in Threads /\ Net # Timer
  BY DEF LifetimeAssumption, Threads, IInv
<1>1. /\ serving = s /\ serving' = None /\ todo[Net] = <<>> /\ todo' = todo
      /\ DelRef(s) /\ batch = <<>> /\ batch' = <<>>
      /\ UNCHANGED <<self, open, items, queued, lookups, timerVars, posts, deletes,
                     connects>>
  BY DEF EndSocket, LeaveSocket, Idle
<1>2. /\ refs' \in [Sessions -> Int] /\ life' \in [Sessions -> {"none", "live", "freed"}]
      /\ \A r \in Sessions \ {s} : refs'[r] = refs[r] /\ life'[r] = life[r]
  BY <1>0, <1>1, RefsElsewhere
<1>3. Types'
  BY <1>0, <1>1, <1>2 DEF Types, timerVars
<1>4. Local(Net, s)
  <2>1. \A r \in Sessions \ {s} : Away(todo[Net], r) /\ Away(todo'[Net], r)
    BY <1>1 DEF Away
  <2> QED BY <1>1, <1>2, <2>1 DEF Local, timerVars
<1>5. /\ SelfRefs(s)' = SelfRefs(s) /\ Answering(s)' = Answering(s)
      /\ At(Net, "clear", s)' <=> At(Net, "clear", s)
  BY <1>1 DEF SelfRefs, Clearing, Answering, At
<1>6. Counted(s)' /\ Freed(s)' /\ Live(s) /\ life'[s] \in {"live", "freed"}
  <2>1. Served(s) = 1 /\ Served(s)' = 0
    BY <1>0, <1>1 DEF Served
  <2>2. Changes(s, "served", -1) /\ Held(s)
    BY <1>1, <1>5, <2>1 DEF Changes, Held, timerVars
  <2> QED BY <1>0, <1>1, <1>3, <2>2, RefLost DEF Kinds
<1>7. Queued(s)'
  BY <1>0, <1>1 DEF SessionInv, Queued, Posted
<1>8. OffTimer(s) => OffTimer(s)'
  BY <1>1 DEF Posted, OffTimer, timerVars
<1>9. deaths'[s] > 0 => s \in delList'
  BY <1>0, <1>1 DEF SessionInv, Listed, timerVars
<1>10. (todo[Net] = <<>> \/ Form(Net, todo[Net], s))'
  BY <1>1
<1>11. /\ Ends(todo'[Net], s) =>
            /\ Ends(todo[Net], s)
            /\ todo'[Net] # One("clear", s) => todo[Net] # One("clear", s)
       /\ life'[s] = "none" <=> life[s] = "none"
       /\ self'[s] = self[s] /\ open'[s] = open[s] /\ posts'[s] = posts[s]
       /\ deletes'[s] = deletes[s]
  BY <1>1, <1>6 DEF Live
<1> HIDE DEF IInv
<1> QED
  BY <1>0, <1>3, <1>4, <1>5, <1>6, <1>7, <1>8, <1>9, <1>10, <1>11, SteadyStep

LEMMA TimerClearsDeathStep ==
  ASSUME IInv, LifetimeAssumption, NEW s \in Sessions, TimerClearsDeath(s)
  PROVE  IInv'
<1>0. None \notin Sessions /\ Types /\ SessionInv(s) /\ Timer \in Threads
  BY DEF LifetimeAssumption, Threads, IInv
<1>1. /\ todo[Timer] = <<>> /\ todo' = todo
      /\ deathsDeal[s] > 0 /\ deathsDeal' = [deathsDeal EXCEPT ![s] = @ - 1]
      /\ DelRef(s)
      /\ UNCHANGED <<self, open, queueVars, lookups, addList, delList, deaths,
                     timerList, toTick, posts, deletes, connects>>
  BY DEF TimerClearsDeath, Idle
<1>2. /\ refs' \in [Sessions -> Int] /\ life' \in [Sessions -> {"none", "live", "freed"}]
      /\ \A r \in Sessions \ {s} : refs'[r] = refs[r] /\ life'[r] = life[r]
  BY <1>0, <1>1, RefsElsewhere
<1>3. /\ deathsDeal' \in [Sessions -> Nat]
      /\ \A r \in Sessions \ {s} : deathsDeal'[r] = deathsDeal[r]
      /\ deathsDeal'[s] = deathsDeal[s] - 1 /\ deathsDeal[s] \in Nat
  BY <1>0, <1>1 DEF Types
<1>4. Types'
  BY <1>0, <1>1, <1>2, <1>3 DEF Types, queueVars
<1>5. Local(Timer, s)
  <2>1. \A r \in Sessions \ {s} : Away(todo[Timer], r) /\ Away(todo'[Timer], r)
    BY <1>1 DEF Away
  <2> QED BY <1>1, <1>2, <1>3, <2>1 DEF Local, queueVars
<1>6. /\ SelfRefs(s)' = SelfRefs(s) /\ Answering(s)' = Answering(s)
      /\ At(Timer, "clear", s)' <=> At(Timer, "clear", s)
  BY <1>1 DEF SelfRefs, Clearing, Answering, At
<1>7. Counted(s)' /\ Freed(s)' /\ Live(s) /\ life'[s] \in {"live", "freed"}
  <2>1. deathsDeal'[s] = deathsDeal[s] + (-1)
    BY <1>3
  <2>2. Changes(s, "deathsDeal", -1) /\ Held(s)
    BY <1>1, <1>6, <2>1 DEF Changes, Held, Served, queueVars
  <2> QED BY <1>0, <1>1, <1>4, <2>2, RefLost DEF Kinds
<1>8. Queued(s)'
  BY <1>0, <1>1 DEF SessionInv, Queued, Posted, queueVars
<1>9. OffTimer(s) => OffTimer(s)'
  BY <1>1 DEF Posted, OffTimer
<1>10. deaths'[s] > 0 => s \in delList'
  BY <1>0, <1>1 DEF SessionInv, Listed
<1>11. (todo[Timer] = <<>> \/ Form(Timer, todo[Timer], s))'
  BY <1>1
<1>12. /\ Ends(todo'[Timer], s) =>
            /\ Ends(todo[Timer], s)
            /\ todo'[Timer] # One("clear", s) => todo[Timer] # One("clear", s)
       /\ life'[s] = "none" <=> life[s] = "none"
       /\ self'[s] = self[s] /\ open'[s] = open[s] /\ posts'[s] = posts[s]
       /\ deletes'[s] = deletes[s]
  BY <1>1, <1>7 DEF Live
<1> HIDE DEF IInv
<1> QED
  BY <1>0, <1>4, <1>5, <1>6, <1>7, <1>8, <1>9, <1>10, <1>11, <1>12, SteadyStep

LEMMA CallItemStep ==
  ASSUME IInv, LifetimeAssumption, NEW s \in Sessions, CallItem(s)
  PROVE  IInv'
<1>0. None \notin Sessions /\ Types /\ SessionInv(s) /\ Net \in Threads /\ Net # Timer
  BY DEF LifetimeAssumption, Threads, IInv
<1>1. /\ serving = s /\ todo[Net] = <<>> /\ batch # <<>> /\ batch' = Tail(batch)
      /\ todo' = [todo EXCEPT ![Net] = Work(Head(batch), s)]
      /\ UNCHANGED <<life, refs, self, open, items, queued, serving, lookups,
                     timerVars, posts, deletes, connects>>
  BY DEF CallItem, Idle
<1>2. PICK q : q = Work(Head(batch), s)
  OBVIOUS
<1>3. /\ Head(batch) \in Items /\ Posted(s)
      /\ Head(batch) = "delete" => deletes[s] > 0
      /\ batch' \in Seq(Items)
      /\ \A i \in 1 .. Len(batch') : batch'[i] = batch[i + 1] /\ i + 1 \in 1 .. Len(batch)
  <2>1. batch \in Seq(Items)
    BY <1>0 DEF Types
  <2>2. /\ Head(batch) = batch[1] /\ 1 \in 1 .. Len(batch) /\ Head(batch) \in Items
        /\ Tail(batch) \in Seq(Items)
        /\ \A i \in 1 .. Len(Tail(batch)) :
             Tail(batch)[i] = batch[i + 1] /\ i + 1 \in 1 .. Len(batch)
    BY <1>1, <2>1, HeadTailProperties, LenProperties
  <2> QED BY <1>0, <1>1, <2>2 DEF SessionInv, Queued
<1>4. \/ q = <<>>
      \/ q = One("tryClose", s) \/ q = One("ask", s)
      \/ q = Two("close", s) /\ deletes[s] > 0
  BY <1>2, <1>3 DEF Work, Items, One, Two
<1>5. /\ q \in Scripts /\ ~Ends(q, s)
      /\ q # <<>> => /\ Head(q)[2] = s
                     /\ Head(q)[1] \notin {"clear", "answer", "dropLookup"}
  <2>1. CASE q = <<>>
    BY <2>1, ScriptsAre, ScriptEnds DEF StepNames
  <2>2. CASE q = One("tryClose", s)
    BY <2>2, ScriptsAre, ScriptEnds, ScriptHeads DEF StepNames
  <2>3. CASE q = One("ask", s)
    BY <2>3, ScriptsAre, ScriptEnds, ScriptHeads DEF StepNames
  <2>4. CASE q = Two("close", s)
    BY <2>4, ScriptsAre, ScriptEnds, ScriptHeads DEF StepNames
  <2> QED BY <1>4, <2>1, <2>2, <2>3, <2>4
<1>6. /\ todo' \in [Threads -> Scripts] /\ todo'[Net] = q
      /\ \A b \in Threads \ {Net} : todo'[b] = todo[b]
      /\ todo' = [todo EXCEPT ![Net] = q]
  BY <1>0, <1>1, <1>2, <1>5, NewStack
<1>7. Types'
  BY <1>0, <1>1, <1>3, <1>6 DEF Types, timerVars
<1>8. Local(Net, s)
  <2>1. \A r \in Sessions \ {s} : Away(todo[Net], r) /\ Away(todo'[Net], r)
    BY <1>1, <1>5, <1>6 DEF Away
  <2> QED BY <1>1, <1>6, <2>1 DEF Local, timerVars
<1>9. /\ ~At(Net, "clear", s) /\ ~At(Net, "clear", s)'
      /\ SelfRefs(s)' = SelfRefs(s) /\ Answering(s)' = Answering(s)
  <2>1. ~At(Net, "clear", s) /\ Answering(s) = 0
    BY <1>1 DEF At, Answering
  <2>2. /\ q # <<>> => Head(q)[1] # "clear"
        /\ ~(q # <<>> /\ Head(q) \in {<<"answer", s>>, <<"dropLookup", s>>})
    BY <1>5
  <2>3. self'[s] = self[s]
    BY <1>1
  <2>4. q \in Scripts /\ todo' = [todo EXCEPT ![Net] = q] /\ Types /\ Net \in Threads
    BY <1>0, <1>5, <1>6
  <2> HIDE DEF IInv
  <2>5. /\ ~At(Net, "clear", s)' /\ SelfRefs(s)' = SelfRefs(s)
        /\ Answering(s)' = IF q # <<>> /\ Head(q) \in {<<"answer", s>>, <<"dropLookup", s>>}
                           THEN 1 ELSE 0
    BY <2>1, <2>2, <2>3, <2>4, StackHolders
  <2> QED BY <2>1, <2>2, <2>5
<1>10. Counted(s)' /\ Freed(s)'
  <2>1. Changes(s, "posts", 0)
    BY <1>0, <1>1, <1>9 DEF Changes, Served, timerVars, Types
  <2>2. Holders(s)' = Holders(s)
    <3>1. Holders(s)' = Holders(s) + 0
      BY <1>0, <1>7, <2>1, HoldersChange DEF Kinds
    <3> QED BY <1>0, <3>1, HoldersAre
  <2> QED BY <1>0, <1>1, <2>2 DEF SessionInv, Counted, Freed, Live
<1>11. Queued(s)'
  <2>1. posts' = posts /\ deletes' = deletes /\ items' = items
    BY <1>1
  <2>2. \A i \in 1 .. Len(batch') : batch'[i] = "delete" => deletes[s] > 0
    BY <1>0, <1>1, <1>3 DEF SessionInv, Queued
  <2> QED BY <1>0, <1>3, <2>1, <2>2 DEF SessionInv, Queued, Posted
<1>12. OffTimer(s) => OffTimer(s)'
  <2>1. todo'[Timer] = todo[Timer]
    BY <1>0, <1>6 DEF Threads
  <2> QED BY <1>1, <2>1 DEF Posted, OffTimer, timerVars
<1>13. deaths'[s] > 0 => s \in delList'
  BY <1>0, <1>1 DEF SessionInv, Listed, timerVars
<1>14. (todo[Net] = <<>> \/ Form(Net, todo[Net], s))'
  <2>1. Posted(s)' /\ Kept(s)' /\ deletes' = deletes
    BY <1>1, <1>3 DEF Posted, Kept
  <2> QED BY <1>4, <1>6, <2>1 DEF Form, NetForm, Closing
<1>15. /\ Ends(todo'[Net], s) =>
            /\ Ends(todo[Net], s)
            /\ todo'[Net] # One("clear", s) => todo[Net] # One("clear", s)
       /\ life'[s] = "none" <=> life[s] = "none"
       /\ self'[s] = self[s] /\ open'[s] = open[s] /\ posts'[s] = posts[s]
       /\ deletes'[s] = deletes[s]
       /\ At(Net, "clear", s)' <=> At(Net, "clear", s)
  BY <1>1, <1>5, <1>6, <1>9
<1> HIDE DEF IInv
<1> QED
  BY <1>0, <1>7, <1>8, <1>10, <1>11, <1>12, <1>13, <1>14, <1>15, SteadyStep

-----------------------------------------------------------------------------
(* The end of SafeDelete: m_self gives back its reference ...              *)
LEMMA ReleaseStep ==
  ASSUME IInv, LifetimeAssumption, NEW a \in Threads, NEW s \in Sessions,
         Release(a, s)
  PROVE  IInv'
<1> DEFINE q == One("clear", s)
<1>0. None \notin Sessions /\ Types /\ SessionInv(s) /\ Net \in Threads /\ Net # Timer
  BY DEF LifetimeAssumption, Threads, IInv
<1>1. /\ At(a, "release", s) /\ todo[a] # <<>> /\ Head(todo[a]) = <<"release", s>>
      /\ DelRef(s)
      /\ todo' = [todo EXCEPT ![a] = <<>> \o Tail(todo[a])]
      /\ UNCHANGED <<self, open, queueVars, lookups, timerVars, posts, deletes, connects>>
  BY DEF Release, Done, Replace, At
<1>2. /\ todo[a] = Ending2(s) /\ Shut(s) /\ OffTimer(s)
      /\ a # Net => Posted(s)
  <2>1. Form(a, todo[a], s)
    BY <1>1, AtForm
  <2>2. CASE a = Net
    BY <1>1, <2>1, <2>2, ScriptHeads DEF Form, NetForm, Closing
  <2>3. CASE a # Net
    <3>1. todo[a] = Ending2(s) /\ Posted(s)
      BY <1>1, <2>1, <2>3, ScriptHeads DEF Form, OtherForm
    <3> QED BY <3>1 DEF Shut, OffTimer
  <2> QED BY <2>2, <2>3
<1>3. /\ todo' = [todo EXCEPT ![a] = q] /\ q \in Scripts
      /\ q # <<>> /\ Head(q) = <<"clear", s>>
  <2>1. Tail(Ending2(s)) = q /\ <<>> \o q = q
    BY ScriptTails, ScriptJoins
  <2> QED BY <1>1, <1>2, <2>1, ScriptsAre, ScriptHeads DEF StepNames
<1>4. Ends(todo[a], s) /\ Ends(q, s) /\ ~At(a, "clear", s)
  BY <1>1, <1>2 DEF Ends, At
<1> HIDE DEF q
<1>5. SelfHeld(s) /\ self[s] /\ \A b \in Threads : Ends(todo[b], s) => b = a
  BY <1>4, EndingIsHeld
<1>6. /\ todo' \in [Threads -> Scripts] /\ todo'[a] = q
      /\ \A b \in Threads \ {a} : todo'[b] = todo[b]
  BY <1>0, <1>3, NewStack
<1>7. /\ refs' \in [Sessions -> Int] /\ life' \in [Sessions -> {"none", "live", "freed"}]
      /\ \A r \in Sessions \ {s} : refs'[r] = refs[r] /\ life'[r] = life[r]
  BY <1>0, <1>1, RefsElsewhere
<1>8. Types'
  BY <1>0, <1>1, <1>6, <1>7 DEF Types, timerVars, queueVars
<1>9. Local(a, s)
  <2>1. \A r \in Sessions \ {s} : Away(todo[a], r) /\ Away(todo'[a], r)
    BY <1>1, <1>3, <1>6 DEF Away
  <2> QED BY <1>1, <1>6, <1>7, <2>1 DEF Local, timerVars, queueVars
<1>10. At(a, "clear", s)' /\ SelfRefs(s) = 1 /\ SelfRefs(s)' = 0
       /\ Answering(s)' = Answering(s)
  <2>1. At(a, "clear", s)'
    BY <1>3, <1>6 DEF At
  <2>2. SelfRefs(s) = 1
    BY <1>5 DEF SelfRefs, SelfHeld, Clearing
  <2>3. SelfRefs(s)' = 0
    BY <2>1 DEF SelfRefs, Clearing
  <2>4. Answering(s)' = Answering(s)
    BY <1>0, <1>1, <1>3, <1>6 DEF Answering, At
  <2> QED BY <2>1, <2>2, <2>3, <2>4
<1>11. Counted(s)' /\ Freed(s)' /\ Live(s) /\ life'[s] \in {"live", "freed"}
  <2>1. Changes(s, "self", -1) /\ Held(s)
    BY <1>1, <1>10 DEF Changes, Held, Served, timerVars, queueVars
  <2> QED BY <1>0, <1>1, <1>8, <2>1, RefLost DEF Kinds
<1>12. deletes[s] > 0 /\ deletes'[s] = deletes[s]
  BY <1>0, <1>1, <1>4 DEF SessionInv, EndedOnce
<1>13. Started(s)' /\ Queued(s)'
  <2>1. Queued(s)'
    BY <1>0, <1>1 DEF SessionInv, Queued, Posted, queueVars
  <2>2. life'[s] # "none" /\ deletes'[s] # 0
    BY <1>11, <1>12
  <2> QED BY <2>1, <2>2 DEF Started
<1>14. OffTimer(s)' /\ Shut(s)'
  <2>1. todo'[Timer] = One("callback", s) => todo[Timer] = One("callback", s)
    <3>1. Head(One("callback", s)) = <<"callback", s>>
      BY ScriptHeads
    <3> QED BY <1>3, <1>6, <3>1 DEF Threads
  <2> QED BY <1>1, <1>2, <2>1 DEF OffTimer, Shut, Posted, timerVars
<1>15. Listed(s)' /\ Opened(s)'
  <2>1. deaths'[s] > 0 => s \in delList'
    BY <1>0, <1>1 DEF SessionInv, Listed, timerVars
  <2> QED BY <1>14, <2>1 DEF Listed, Opened, Shut, Kept
<1>16. EndedOnce(s)'
  <2>1. \A b \in Threads : Ends(todo'[b], s) => b = a
    BY <1>5, <1>6
  <2> QED BY <1>1, <1>5, <1>12, <2>1 DEF EndedOnce
<1>17. SessionInv(s)'
  BY <1>11, <1>13, <1>15, <1>16 DEF SessionInv
<1>18. (todo[a] = <<>> \/ Form(a, todo[a], s))'
  <2>1. a # Net => Posted(s)'
    BY <1>1, <1>2 DEF Posted
  <2> QED BY <1>6, <2>1 DEF Form, NetForm, OtherForm, q
<1>19. \A b \in Threads : b # a /\ Form(b, todo[b], s) => Form(b, todo[b], s)'
  <2>1. /\ Posted(s) => Posted(s)'
        /\ deletes[s] > 0 => deletes'[s] > 0
        /\ \/ a = Net
           \/ /\ Kept(s) => Kept(s)'
              /\ Shut(s) => Shut(s)'
              /\ OffTimer(s) => OffTimer(s)'
    BY <1>1, <1>2, <1>12, <1>14 DEF Posted, Kept
  <2> QED BY <1>6, <2>1, FormsKept
<1> QED BY <1>0, <1>8, <1>9, <1>17, <1>18, <1>19, LocalStep

(* ... and is cleared.                                                     *)
LEMMA ClearStep ==
  ASSUME IInv, LifetimeAssumption, NEW a \in Threads, NEW s \in Sessions,
         Clear(a, s)
  PROVE  IInv'
<1>0. None \notin Sessions /\ Types /\ SessionInv(s) /\ Net \in Threads /\ Net # Timer
  BY DEF LifetimeAssumption, Threads, IInv
<1>1. /\ At(a, "clear", s) /\ todo[a] # <<>> /\ Head(todo[a]) = <<"clear", s>>
      /\ self' = [self EXCEPT ![s] = FALSE]
      /\ todo' = [todo EXCEPT ![a] = <<>> \o Tail(todo[a])]
      /\ UNCHANGED <<life, refs, open, queueVars, lookups, timerVars, posts, deletes,
                     connects>>
  BY DEF Clear, Done, Replace, At
<1>2. todo[a] = One("clear", s) /\ Ends(todo[a], s)
  BY <1>1, AtClear
<1>3. todo' = [todo EXCEPT ![a] = <<>>]
  <2>1. Tail(One("clear", s)) = <<>> /\ <<>> \o <<>> = <<>>
    BY ScriptTails, ScriptJoins
  <2> QED BY <1>1, <1>2, <2>1, Zenon
<1>4. <<>> \in Scripts /\ ~Ends(<<>>, s)
  BY ScriptsAre, ScriptEnds DEF StepNames
<1>5. /\ deletes[s] > 0 /\ deletes'[s] = deletes[s]
      /\ \A b \in Threads : Ends(todo[b], s) => b = a
  BY <1>0, <1>1, <1>2 DEF SessionInv, EndedOnce
<1>6. /\ todo' \in [Threads -> Scripts] /\ todo'[a] = <<>>
      /\ \A b \in Threads \ {a} : todo'[b] = todo[b]
  BY <1>0, <1>3, <1>4, NewStack
<1>7. /\ self' \in [Sessions -> BOOLEAN] /\ ~self'[s]
      /\ \A r \in Sessions \ {s} : self'[r] = self[r]
  BY <1>0, <1>1 DEF Types
<1>8. Types'
  BY <1>0, <1>1, <1>6, <1>7 DEF Types, timerVars, queueVars
<1>9. Local(a, s)
  <2>1. \A r \in Sessions \ {s} : Away(todo[a], r) /\ Away(todo'[a], r)
    BY <1>1, <1>6 DEF Away
  <2> QED BY <1>1, <1>6, <1>7, <2>1 DEF Local, timerVars, queueVars
<1>10. ~SelfHeld(s) /\ SelfRefs(s) = 0 /\ SelfRefs(s)' = 0 /\ Answering(s)' = Answering(s)
  <2>1. ~SelfHeld(s) /\ SelfRefs(s) = 0
    BY <1>1 DEF SelfHeld, SelfRefs, Clearing
  <2>2. SelfRefs(s)' = 0
    BY <1>7 DEF SelfRefs
  <2>3. Answering(s)' = Answering(s)
    BY <1>0, <1>1, <1>6 DEF Answering, At
  <2> QED BY <2>1, <2>2, <2>3
<1>11. Counted(s)' /\ Freed(s)'
  <2>1. Changes(s, "posts", 0)
    BY <1>0, <1>1, <1>10 DEF Changes, Served, timerVars, queueVars, Types
  <2>2. Holders(s)' = Holders(s)
    <3>1. Holders(s)' = Holders(s) + 0
      BY <1>0, <1>8, <2>1, HoldersChange DEF Kinds
    <3> QED BY <1>0, <3>1, HoldersAre
  <2> QED BY <1>0, <1>1, <2>2 DEF SessionInv, Counted, Freed, Live
<1>12. Started(s)' /\ Queued(s)'
  <2>1. Queued(s)'
    BY <1>0, <1>1 DEF SessionInv, Queued, Posted, queueVars
  <2>2. life' = life
    BY <1>1
  <2> QED BY <1>0, <1>5, <2>1, <2>2 DEF SessionInv, Started, Types
<1>13. OffTimer(s)'
  <2>1. todo'[Timer] = One("callback", s) => todo[Timer] = One("callback", s)
    <3>1. <<>> # One("callback", s)
      BY ScriptHeads
    <3> QED BY <1>6, <3>1 DEF Threads
  <2>2. OffTimer(s)
    BY <1>0, <1>10 DEF SessionInv, Listed
  <2> QED BY <1>1, <2>1, <2>2 DEF OffTimer, Posted, timerVars
<1>14. /\ Posted(s) => Posted(s)'
       /\ Kept(s) => Kept(s)'
       /\ Shut(s) => Shut(s)'
  BY <1>1, <1>10 DEF Posted, Kept, Shut
<1>15. Listed(s)' /\ Opened(s)'
  <2>1. deaths'[s] > 0 => s \in delList'
    BY <1>0, <1>1 DEF SessionInv, Listed, timerVars
  <2>2. open[s] => Kept(s)
    BY <1>0 DEF SessionInv, Opened
  <2> QED BY <1>1, <1>13, <1>14, <2>1, <2>2 DEF Listed, Opened
<1>16. EndedOnce(s)'
  <2>1. \A b \in Threads : ~Ends(todo'[b], s)
    BY <1>4, <1>5, <1>6
  <2> QED BY <2>1 DEF EndedOnce
<1>17. SessionInv(s)'
  BY <1>11, <1>12, <1>15, <1>16 DEF SessionInv
<1>18. (todo[a] = <<>> \/ Form(a, todo[a], s))'
  BY <1>6
<1>19. \A b \in Threads : b # a /\ Form(b, todo[b], s) => Form(b, todo[b], s)'
  BY <1>5, <1>6, <1>13, <1>14, FormsKept
<1> QED BY <1>0, <1>8, <1>9, <1>17, <1>18, <1>19, LocalStep

-----------------------------------------------------------------------------
(* A call of a thread that has `rest` to go back to.                       *)
CalledFrom(a, s, rest) ==
  \/ todo[a] = <<>> /\ rest = <<>> /\ life[s] # "none" /\ deletes[s] = 0
  \/ At(a, "callback", s) /\ rest = Tail(todo[a])

LEMMA CallOfOther ==
  ASSUME IInv, NEW a \in Threads, NEW s \in Sessions, NEW rest, a # Net,
         CalledFrom(a, s, rest)
  PROVE  rest = <<>> /\ Live(s) /\ (todo[a] = <<>> \/ todo[a] = One("callback", s))
<1>1. CASE todo[a] = <<>> /\ rest = <<>> /\ life[s] # "none" /\ deletes[s] = 0
  BY <1>1, UndeletedIsHeld
<1>2. CASE At(a, "callback", s) /\ rest = Tail(todo[a])
  <2>1. a = Timer /\ todo[a] = One("callback", s) /\ rest = <<>>
    BY <1>2, CallbackOf
  <2>2. SelfHeld(s) \/ Posted(s) \/ deaths[s] > 0
    BY <2>1 DEF IInv, SessionInv, Listed, OffTimer
  <2>3. Live(s)
    BY <2>2, KeptIsLive, HeldIsLive DEF Kept, Held, IInv
  <2> QED BY <2>1, <2>3
<1> QED BY <1>1, <1>2 DEF CalledFrom

LEMMA CallOfNet ==
  ASSUME IInv, LifetimeAssumption, NEW s \in Sessions, NEW rest,
         CalledFrom(Net, s, rest)
  PROVE  /\ Left(rest, s)
         /\ rest = Ending3("unlist", s) => Shut(s)
         /\ todo[Net] = <<>> \/ At(Net, "callback", s)
         /\ deletes[s] = 0 => rest = <<>> /\ Kept(s)
<1>0. Net \in Threads
  BY DEF Threads
<1>1. CASE todo[Net] = <<>> /\ rest = <<>> /\ life[s] # "none" /\ deletes[s] = 0
  <2>1. Kept(s)
    BY <1>1, UndeletedIsHeld DEF Kept
  <2>2. <<>> # Ending3("unlist", s)
    BY ScriptHeads
  <2> QED BY <1>1, <2>1, <2>2 DEF Left
<1>2. CASE At(Net, "callback", s) /\ rest = Tail(todo[Net])
  <2>1. Left(rest, s) /\ (rest = Ending3("unlist", s) => Shut(s))
    BY <1>2, NetLeft DEF Closing
  <2>2. deletes[s] = 0 => rest = <<>> /\ Kept(s)
    BY <1>0, <2>1, NoneEnds DEF Left
  <2> QED BY <1>2, <2>1, <2>2
<1> QED BY <1>1, <1>2 DEF CalledFrom

(* A call from a thread that is not the session's is queued for it.        *)
LEMMA PostStep ==
  ASSUME IInv, LifetimeAssumption, NEW a \in Threads, a # Net, NEW s \in Sessions,
         Live(s), todo[a] = <<>> \/ todo[a] = One("callback", s),
         NEW item \in Items, NEW q \in Scripts,
         todo' = [todo EXCEPT ![a] = q], AddRef(s),
         posts' = [posts EXCEPT ![s] = @ + 1],
         items' = [items EXCEPT ![s] = Append(@, item)],
         UNCHANGED <<self, queued, serving, batch, lookups, timerVars>>,
         open' = open \/ open' = [open EXCEPT ![s] = TRUE],
         connects' \in [Sessions -> Nat],
         \/ /\ q = <<>> \/ q = One("register", s)
            /\ deletes' = deletes /\ item # "delete"
         \/ /\ q = Ending2(s) \/ q = Ending3("register", s)
            /\ deletes[s] = 0 /\ self[s] /\ deletes' = [deletes EXCEPT ![s] = @ + 1]
  PROVE  IInv'
<1>0. None \notin Sessions /\ Types /\ SessionInv(s) /\ Net \in Threads /\ Net # Timer
  BY DEF LifetimeAssumption, Threads, IInv
<1>1. /\ todo' \in [Threads -> Scripts] /\ todo'[a] = q
      /\ \A b \in Threads \ {a} : todo'[b] = todo[b]
  BY <1>0, NewStack
<1>2. /\ refs' \in [Sessions -> Int] /\ life' \in [Sessions -> {"none", "live", "freed"}]
      /\ \A r \in Sessions \ {s} : refs'[r] = refs[r] /\ life'[r] = life[r]
  BY <1>0, RefsElsewhere
<1>3. /\ posts' \in [Sessions -> Nat] /\ items' \in [Sessions -> Seq(Items)]
      /\ \A r \in Sessions \ {s} : posts'[r] = posts[r] /\ items'[r] = items[r]
      /\ posts'[s] = posts[s] + 1 /\ posts'[s] > 0
      /\ items'[s] = Append(items[s], item)
  <2>0. posts[s] \in Nat
    BY <1>0 DEF Types
  <2>1. posts[s] \in Nat /\ posts[s] + 1 \in Nat /\ posts[s] + 1 > 0
    BY <2>0
  <2>2. Append(items[s], item) \in Seq(Items)
    BY <1>0, AppendProperties DEF Types
  <2>3. /\ posts' \in [Sessions -> Nat] /\ posts'[s] = posts[s] + 1
        /\ \A r \in Sessions \ {s} : posts'[r] = posts[r]
    BY <1>0, <2>1 DEF Types
  <2>4. /\ items' \in [Sessions -> Seq(Items)] /\ items'[s] = Append(items[s], item)
        /\ \A r \in Sessions \ {s} : items'[r] = items[r]
    BY <1>0, <2>2 DEF Types
  <2> QED BY <2>1, <2>3, <2>4
<1>4. /\ deletes' \in [Sessions -> Nat] /\ open' \in [Sessions -> BOOLEAN]
      /\ \A r \in Sessions \ {s} : deletes'[r] = deletes[r] /\ open'[r] = open[r]
      /\ deletes[s] > 0 => deletes'[s] > 0
  <2>1. /\ open' \in [Sessions -> BOOLEAN]
        /\ \A r \in Sessions \ {s} : open'[r] = open[r]
    BY <1>0 DEF Types
  <2>2. deletes' = deletes \/ deletes' = [deletes EXCEPT ![s] = deletes[s] + 1]
    OBVIOUS
  <2>0. deletes[s] \in Nat /\ deletes \in [Sessions -> Nat]
    BY <1>0 DEF Types
  <2>3. deletes[s] \in Nat /\ deletes[s] + 1 \in Nat /\ deletes[s] + 1 > 0
    BY <2>0
  <2>4. /\ deletes' \in [Sessions -> Nat]
        /\ \A r \in Sessions \ {s} : deletes'[r] = deletes[r]
        /\ deletes[s] > 0 => deletes'[s] > 0
    BY <2>0, <2>2, <2>3
  <2> QED BY <2>1, <2>4
<1>5. Types'
  BY <1>0, <1>1, <1>2, <1>3, <1>4 DEF Types, timerVars
<1>6. /\ q # <<>> => Head(q) \in {<<"register", s>>, <<"release", s>>}
      /\ todo[a] # <<>> => Head(todo[a]) = <<"callback", s>>
  BY ScriptHeads
<1>7. Local(a, s)
  <2>1. \A r \in Sessions \ {s} : Away(todo[a], r) /\ Away(todo'[a], r)
    BY <1>1, <1>6 DEF Away
  <2> QED BY <1>1, <1>2, <1>3, <1>4, <2>1 DEF Local, timerVars
<1>8. SelfRefs(s)' = SelfRefs(s) /\ Answering(s)' = Answering(s)
  <2>1. ~At(a, "clear", s) /\ (q # <<>> => Head(q)[1] # "clear") /\ self'[s] = self[s]
    BY <1>6 DEF At
  <2> HIDE DEF IInv
  <2> QED BY <1>0, <2>1, StackHolders
<1>9. Counted(s)' /\ Freed(s)' /\ life' = life
  <2>1. Changes(s, "posts", 1)
    BY <1>3, <1>8 DEF Changes, Served, timerVars
  <2> QED BY <1>0, <1>5, <2>1, RefGained DEF Kinds
<1>10. Posted(s)' /\ Kept(s)' /\ Shut(s)' /\ OffTimer(s)'
  BY <1>3 DEF Posted, Kept, Shut, OffTimer
<1>11. Listed(s)' /\ Opened(s)'
  <2>1. deaths'[s] > 0 => s \in delList'
    BY <1>0 DEF SessionInv, Listed, timerVars
  <2> QED BY <1>10, <2>1 DEF Listed, Opened
<1>12. Queued(s)'
  <2>1. item = "delete" => deletes'[s] > 0
    BY <1>0 DEF Types
  <2>2. \A i \in 1 .. Len(items'[s]) : items'[s][i] = "delete" => deletes'[s] > 0
    <3>1. items[s] \in Seq(Items)
      BY <1>0 DEF Types
    <3>2. /\ Len(items'[s]) = Len(items[s]) + 1
          /\ \A i \in 1 .. Len(items[s]) : items'[s][i] = items[s][i]
          /\ items'[s][Len(items[s]) + 1] = item
      BY <1>3, <3>1, AppendProperties
    <3>3. \A i \in 1 .. Len(items[s]) : items[s][i] = "delete" => deletes'[s] > 0
      BY <1>0, <1>4 DEF SessionInv, Queued
    <3> QED BY <2>1, <3>1, <3>2, <3>3, LenProperties
  <2>3. \A i \in 1 .. Len(batch') : (serving = s /\ batch[i] = "delete") => deletes'[s] > 0
    BY <1>0, <1>4 DEF SessionInv, Queued
  <2> QED BY <1>10, <2>2, <2>3 DEF Queued
<1>13. Started(s)' /\ EndedOnce(s)'
  <2>1. CASE /\ q = <<>> \/ q = One("register", s)
             /\ deletes' = deletes /\ item # "delete"
    <3>1. Started(s)'
      BY <1>0, <1>9, <2>1 DEF SessionInv, Started
    <3>2. ~Ends(q, s)
      BY <2>1, ScriptEnds
    <3>3. EndedOnce(s)'
      BY <1>0, <1>1, <2>1, <3>2 DEF SessionInv, EndedOnce
    <3> QED BY <3>1, <3>3
  <2>2. CASE /\ q = Ending2(s) \/ q = Ending3("register", s)
             /\ deletes[s] = 0 /\ self[s] /\ deletes' = [deletes EXCEPT ![s] = @ + 1]
    <3>1. deletes'[s] = 1
      BY <1>0, <2>2 DEF Types
    <3>2. Started(s)'
      BY <1>9, <3>1 DEF Started, Live
    <3>3. \A b \in Threads \ {a} : ~Ends(todo'[b], s)
      BY <1>1, <2>2, NoneEnds
    <3>4. EndedOnce(s)'
      BY <2>2, <3>1, <3>3 DEF EndedOnce
    <3> QED BY <3>2, <3>4
  <2> QED BY <2>1, <2>2
<1>15. SessionInv(s)'
  BY <1>9, <1>11, <1>12, <1>13 DEF SessionInv
<1>16. (todo[a] = <<>> \/ Form(a, todo[a], s))'
  BY <1>1, <1>10 DEF Form, OtherForm
<1>17. \A b \in Threads : b # a /\ Form(b, todo[b], s) => Form(b, todo[b], s)'
  BY <1>1, <1>4, <1>10, FormsKept
<1> QED BY <1>0, <1>5, <1>7, <1>15, <1>16, <1>17, LocalStep

LEMMA PostedStack ==
  ASSUME NEW a \in Threads, a # Net, NEW s \in Sessions, NEW item, NEW after,
         after = <<>> \/ after = Ending2(s),
         SetLibEvent(a, s, item, <<>>, after)
  PROVE  /\ AddRef(s) /\ posts' = [posts EXCEPT ![s] = @ + 1]
         /\ items' = [items EXCEPT ![s] = Append(@, item)]
         /\ UNCHANGED <<queued, serving, batch>>
         /\ \E q \in Scripts :
              /\ todo' = [todo EXCEPT ![a] = q]
              /\ after = <<>> => q = <<>> \/ q = One("register", s)
              /\ after = Ending2(s) => q = Ending2(s) \/ q = Ending3("register", s)
<1> DEFINE reg == IF items[s] = <<>> THEN << <<"register", s>> >> ELSE <<>>
           q == reg \o after \o <<>>
<1>1. /\ AddRef(s) /\ posts' = [posts EXCEPT ![s] = @ + 1]
      /\ items' = [items EXCEPT ![s] = Append(@, item)]
      /\ UNCHANGED <<queued, serving, batch>>
      /\ todo' = [todo EXCEPT ![a] = q]
  BY DEF SetLibEvent, SetEventOf
<1>2. reg = One("register", s) \/ reg = <<>>
  BY DEF One
<1> HIDE DEF reg
<1>3. after = <<>> => q = <<>> \/ q = One("register", s)
  <2>1. CASE reg = <<>>
    BY <2>1, ScriptJoins
  <2>2. CASE reg = One("register", s)
    BY <2>2, ScriptJoins
  <2> QED BY <1>2, <2>1, <2>2
<1>4. after = Ending2(s) => q = Ending2(s) \/ q = Ending3("register", s)
  <2>1. CASE reg = <<>>
    BY <2>1, ScriptJoins
  <2>2. CASE reg = One("register", s)
    BY <2>2, ScriptJoins
  <2> QED BY <1>2, <2>1, <2>2
<1> HIDE DEF q
<1>5. q \in Scripts
  BY <1>3, <1>4, ScriptsAre DEF StepNames
<1> QED BY <1>1, <1>3, <1>4, <1>5

LEMMA CallStepOther ==
  ASSUME IInv, LifetimeAssumption, ProperUse, NEW a \in Threads, a # Net,
         NEW s \in Sessions, NEW rest, CalledFrom(a, s, rest), Call(a, s, rest)
  PROVE  IInv'
<1>1. rest = <<>> /\ Live(s) /\ (todo[a] = <<>> \/ todo[a] = One("callback", s))
  BY CallOfOther
<1>2. connects \in [Sessions -> Nat] /\ deletes \in [Sessions -> Nat]
  BY DEF IInv, Types
<1>3. connects' \in [Sessions -> Nat]
  <2>1. connects' = connects \/ connects' = [connects EXCEPT ![s] = @ + 1]
    BY DEF Call, Close, SafeDelete, Connect, ConnectByName
  <2> QED BY <1>2, <2>1
<1> HIDE DEF IInv
<1>4. CASE SafeDelete(a, s, rest)
  <2>1. /\ SetLibEvent(a, s, "delete", <<>>, Ending2(s))
        /\ self[s] /\ deletes[s] < MaxDeletes
        /\ deletes' = [deletes EXCEPT ![s] = @ + 1]
        /\ UNCHANGED <<self, open, lookups, timerVars, connects>>
    BY <1>1, <1>4 DEF SafeDelete, Ending2
  <2>2. deletes[s] = 0
    <3>1. deletes[s] \in Nat /\ MaxDeletes \in Nat /\ MaxDeletes <= 1
      BY <1>2 DEF ProperUse, LifetimeAssumption
    <3> QED BY <2>1, <3>1
  <2>3. PICK q \in Scripts :
          /\ todo' = [todo EXCEPT ![a] = q]
          /\ q = Ending2(s) \/ q = Ending3("register", s)
    BY <2>1, PostedStack
  <2>4. /\ AddRef(s) /\ posts' = [posts EXCEPT ![s] = @ + 1]
        /\ items' = [items EXCEPT ![s] = Append(@, "delete")]
        /\ UNCHANGED <<queued, serving, batch>>
    BY <2>1, PostedStack
  <2>5. "delete" \in Items
    BY DEF Items
  <2> QED BY <1>1, <1>3, <2>1, <2>2, <2>3, <2>4, <2>5, PostStep
<1>5. CASE ~SafeDelete(a, s, rest)
  <2>1. PICK item \in {"close", "init", "lookup"} :
             SetLibEvent(a, s, item, <<>>, <<>>)
    BY <1>1, <1>5 DEF Call, Close, Connect, ConnectByName
  <2>2. /\ open' = open \/ open' = [open EXCEPT ![s] = TRUE]
        /\ UNCHANGED <<self, lookups, timerVars, deletes>>
    BY <1>5 DEF Call, Close, Connect, ConnectByName
  <2>3. PICK q \in Scripts :
          /\ todo' = [todo EXCEPT ![a] = q]
          /\ q = <<>> \/ q = One("register", s)
    BY <2>1, PostedStack
  <2>4. /\ AddRef(s) /\ posts' = [posts EXCEPT ![s] = @ + 1]
        /\ items' = [items EXCEPT ![s] = Append(@, item)]
        /\ UNCHANGED <<queued, serving, batch>>
    BY <2>1, PostedStack
  <2>5. item \in Items /\ item # "delete"
    BY DEF Items
  <2> QED BY <1>1, <1>3, <2>2, <2>3, <2>4, <2>5, PostStep
<1> QED BY <1>4, <1>5

LEMMA NetCloseStep ==
  ASSUME IInv, LifetimeAssumption, NEW s \in Sessions, NEW rest,
         CalledFrom(Net, s, rest), Close(Net, s, rest)
  PROVE  IInv'
<1> DEFINE q == One("tryClose", s) \o rest
<1>1. /\ Left(rest, s) /\ (todo[Net] = <<>> \/ At(Net, "callback", s))
      /\ rest = Ending3("unlist", s) => Shut(s)
      /\ \/ rest = <<>> \/ rest = One("unlist", s) \/ rest = Ending3("unlist", s)
  BY CallOfNet DEF Left
<1>2. "tryClose" \in StepNames \ {"clear"}
  BY DEF StepNames
<1>3. /\ q \in Scripts /\ q # <<>> /\ Head(q) = <<"tryClose", s>>
      /\ (One("tryClose", s) \o <<>>) \o rest = q
      /\ Ends(q, s) <=> rest = Ending3("unlist", s)
  BY <1>1, <1>2, Pushed
<1>4. /\ open[s] /\ open' = open /\ connects' = connects
      /\ UNCHANGED <<life, refs, self, queueVars, lookups, timerVars, posts, deletes>>
      /\ todo' = [todo EXCEPT ![Net] = (One("tryClose", s) \o <<>>) \o rest]
  BY DEF Close, SetLibEvent, SetEventOf, Work, NoRef, One
<1>5. NetForm(q, s)
  <2>0. open[s] => Kept(s)
    BY DEF IInv, SessionInv, Opened
  <2>1. \/ q = One("tryClose", s)
        \/ q = Two("tryClose", s) /\ Posted(s) /\ deletes[s] > 0
        \/ q = Ending4("tryClose", s) /\ Shut(s)
    <3>1. CASE rest = <<>>
      BY <1>2, <3>1, Pushed
    <3>2. CASE rest = One("unlist", s) /\ Posted(s) /\ deletes[s] > 0
      BY <1>2, <3>2, Pushed
    <3>3. CASE rest = Ending3("unlist", s)
      BY <1>1, <1>2, <3>3, Pushed
    <3> QED BY <1>1, <3>1, <3>2, <3>3 DEF Left
  <2> QED BY <1>4, <2>0, <2>1 DEF NetForm, Closing
<1>6. Ends(q, s) => Ends(todo[Net], s)
  <2>1. <<>> # Ending3("unlist", s) /\ One("unlist", s) # Ending3("unlist", s)
    BY Rest
  <2> QED BY <1>1, <1>3, <2>1 DEF Left
<1> HIDE DEF q
<1>7. todo' = [todo EXCEPT ![Net] = q]
  BY <1>3, <1>4
<1>8. /\ todo[Net] = <<>> \/ \E n \in Closing \cup {"ask"} : At(Net, n, s)
      /\ q # <<>> => Head(q)[2] = s
                      /\ Head(q)[1] \notin {"clear", "answer", "dropLookup"}
  BY <1>1, <1>3 DEF Closing
<1>9. \/ q = <<>>
      \/ NetForm(q, s) /\ (Ends(q, s) /\ open'[s] => open[s])
      \/ ~open'[s] /\ (q = Ending3("unlist", s) \/ q = Ending4("callback", s))
  BY <1>4, <1>5
<1>10. connects' \in [Sessions -> Nat]
  BY <1>4 DEF IInv, Types
<1> HIDE DEF IInv
<1> QED BY <1>3, <1>4, <1>6, <1>7, <1>8, <1>9, <1>10, NetStackStep

(* Connect sets the socket at once, or asks for the address of a name.     *)
LEMMA NetConnectStep ==
  ASSUME IInv, LifetimeAssumption, NEW s \in Sessions, NEW rest,
         CalledFrom(Net, s, rest),
         Connect(Net, s, rest) \/ ConnectByName(Net, s, rest)
  PROVE  IInv'
<1>1. deletes[s] = 0
  BY DEF Connect, ConnectByName
<1>2. /\ rest = <<>> /\ Kept(s) /\ (todo[Net] = <<>> \/ At(Net, "callback", s))
  BY <1>1, CallOfNet
<1>3. connects' \in [Sessions -> Nat]
  <2>1. connects' = [connects EXCEPT ![s] = @ + 1]
    BY DEF Connect, ConnectByName
  <2> QED BY <2>1 DEF IInv, Types
<1>4. todo[Net] = <<>> \/ \E n \in Closing \cup {"ask"} : At(Net, n, s)
  BY <1>2 DEF Closing
<1>5. CASE Connect(Net, s, rest)
  <2>1. /\ open' = [open EXCEPT ![s] = TRUE]
        /\ UNCHANGED <<life, refs, self, queueVars, lookups, timerVars, posts, deletes>>
        /\ todo' = [todo EXCEPT ![Net] = <<>> \o <<>> \o <<>>]
    BY <1>2, <1>5 DEF Connect, SetLibEvent, SetEventOf, Work, NoRef
  <2>2. todo' = [todo EXCEPT ![Net] = <<>>]
    BY <2>1, ScriptJoins, Zenon
  <2>3. <<>> \in Scripts /\ ~Ends(<<>>, s)
    BY ScriptsAre, ScriptEnds DEF StepNames
  <2> HIDE DEF IInv
  <2> QED BY <1>2, <1>3, <1>4, <2>1, <2>2, <2>3, NetStackStep
<1>6. CASE ConnectByName(Net, s, rest)
  <2>1. /\ open' = open
        /\ UNCHANGED <<life, refs, self, queueVars, lookups, timerVars, posts, deletes>>
        /\ todo' = [todo EXCEPT ![Net] = One("ask", s) \o <<>> \o <<>>]
    BY <1>2, <1>6 DEF ConnectByName, SetLibEvent, SetEventOf, Work, NoRef, One
  <2>2. One("ask", s) \o <<>> \o <<>> = One("ask", s)
    BY ScriptJoins
  <2>3. todo' = [todo EXCEPT ![Net] = One("ask", s)]
    BY <2>1, <2>2, Zenon
  <2>4. /\ One("ask", s) \in Scripts /\ ~Ends(One("ask", s), s)
        /\ Head(One("ask", s)) = <<"ask", s>>
    BY ScriptsAre, ScriptEnds, ScriptHeads DEF StepNames
  <2>5. NetForm(One("ask", s), s)
    BY <1>2 DEF NetForm
  <2> DEFINE q == One("ask", s)
  <2>6. /\ q # <<>> => Head(q)[2] = s
                        /\ Head(q)[1] \notin {"clear", "answer", "dropLookup"}
        /\ \/ q = <<>>
           \/ NetForm(q, s) /\ (Ends(q, s) /\ open'[s] => open[s])
           \/ ~open'[s] /\ (q = Ending3("unlist", s) \/ q = Ending4("callback", s))
        /\ q \in Scripts /\ todo' = [todo EXCEPT ![Net] = q]
        /\ Ends(q, s) => Ends(todo[Net], s)
    BY <2>3, <2>4, <2>5
  <2> HIDE DEF IInv, q
  <2> QED BY <1>3, <1>4, <2>1, <2>6, NetStackStep
<1> QED BY <1>5, <1>6

(* SafeDelete on the session's own thread.                                 *)
LEMMA NetDeleteStep ==
  ASSUME IInv, LifetimeAssumption, ProperUse, NEW s \in Sessions, NEW rest,
         CalledFrom(Net, s, rest), SafeDelete(Net, s, rest)
  PROVE  IInv'
<1> DEFINE q == Ending4("close", s)
<1>0. None \notin Sessions /\ Types /\ SessionInv(s) /\ Net \in Threads /\ Net # Timer
  BY DEF LifetimeAssumption, Threads, IInv
<1>1. /\ self[s] /\ deletes[s] < MaxDeletes
      /\ deletes' = [deletes EXCEPT ![s] = @ + 1]
      /\ todo' = [todo EXCEPT ![Net] = Two("close", s) \o Ending2(s) \o rest]
      /\ UNCHANGED <<life, refs, self, open, queueVars, posts, lookups, timerVars,
                     connects>>
  BY DEF SafeDelete, SetLibEvent, SetEventOf, Work, NoRef, Two, Ending2
<1>2. deletes[s] = 0 /\ deletes \in [Sessions -> Nat]
  <2>1. deletes[s] \in Nat /\ deletes \in [Sessions -> Nat]
    BY <1>0 DEF Types
  <2>2. MaxDeletes \in Nat /\ MaxDeletes <= 1
    BY DEF ProperUse, LifetimeAssumption
  <2> QED BY <1>1, <2>1, <2>2
<1>3. rest = <<>> /\ Kept(s) /\ (todo[Net] = <<>> \/ At(Net, "callback", s))
  BY <1>2, CallOfNet
<1>4. todo' = [todo EXCEPT ![Net] = q]
  <2>1. Two("close", s) \o Ending2(s) \o <<>> = q
    BY ScriptJoins
  <2> QED BY <1>1, <1>3, <2>1, Zenon
<1>5. /\ q \in Scripts /\ q # <<>> /\ Head(q) = <<"close", s>>
      /\ NetForm(q, s)'
  BY ScriptsAre, ScriptHeads DEF StepNames, NetForm
<1> HIDE DEF q
<1>6. /\ todo' \in [Threads -> Scripts] /\ todo'[Net] = q
      /\ \A b \in Threads \ {Net} : todo'[b] = todo[b]
  BY <1>0, <1>4, <1>5, NewStack
<1>7. /\ deletes' \in [Sessions -> Nat] /\ deletes'[s] = 1
      /\ \A r \in Sessions \ {s} : deletes'[r] = deletes[r]
  BY <1>1, <1>2
<1>8. Types'
  BY <1>0, <1>1, <1>6, <1>7 DEF Types, timerVars, queueVars
<1>9. Local(Net, s)
  <2>1. \A r \in Sessions \ {s} : Away(todo[Net], r) /\ Away(todo'[Net], r)
    BY <1>3, <1>5, <1>6 DEF Away, At
  <2> QED BY <1>1, <1>6, <1>7, <2>1 DEF Local, timerVars, queueVars
<1>10. /\ SelfRefs(s)' = SelfRefs(s) /\ (SelfHeld(s)' <=> SelfHeld(s))
       /\ Answering(s)' = Answering(s)
  <2>1. ~At(Net, "clear", s) /\ Answering(s) = 0
    BY <1>3 DEF At, Answering
  <2>2. /\ q # <<>> => Head(q)[1] # "clear"
        /\ ~(q # <<>> /\ Head(q) \in {<<"answer", s>>, <<"dropLookup", s>>})
    BY <1>5
  <2>3. self'[s] = self[s]
    BY <1>1
  <2> HIDE DEF IInv
  <2> QED BY <1>0, <1>4, <1>5, <2>1, <2>2, <2>3, StackHolders
<1>11. Counted(s)' /\ Freed(s)'
  <2>1. Changes(s, "posts", 0)
    BY <1>0, <1>1, <1>10 DEF Changes, Served, timerVars, queueVars, Types
  <2>2. Holders(s)' = Holders(s)
    <3>1. Holders(s)' = Holders(s) + 0
      BY <1>0, <1>8, <2>1, HoldersChange DEF Kinds
    <3> QED BY <1>0, <3>1, HoldersAre
  <2> QED BY <1>0, <1>1, <2>2 DEF SessionInv, Counted, Freed, Live
<1>12. Started(s)' /\ Queued(s)'
  <2>1. life[s] # "none" /\ life' = life
    BY <1>1, <1>3, KeptIsLive DEF Live
  <2>2. Queued(s)'
    BY <1>0, <1>1, <1>7 DEF SessionInv, Queued, Posted, queueVars
  <2> QED BY <1>7, <2>1, <2>2 DEF Started
<1>13. /\ Posted(s)' <=> Posted(s)
       /\ Kept(s)' <=> Kept(s)
       /\ OffTimer(s) => OffTimer(s)'
  <2>1. todo'[Timer] = todo[Timer]
    BY <1>0, <1>6 DEF Threads
  <2> QED BY <1>1, <1>10, <2>1 DEF Posted, Kept, OffTimer, timerVars
<1>14. Listed(s)' /\ Opened(s)'
  BY <1>0, <1>1, <1>10, <1>13 DEF SessionInv, Listed, Opened, timerVars
<1>15. EndedOnce(s)'
  <2>1. \A b \in Threads \ {Net} : ~Ends(todo'[b], s)
    BY <1>2, <1>6, NoneEnds
  <2> QED BY <1>1, <1>7, <2>1 DEF EndedOnce
<1>16. SessionInv(s)'
  BY <1>11, <1>12, <1>14, <1>15 DEF SessionInv
<1>17. (todo[Net] = <<>> \/ Form(Net, todo[Net], s))'
  BY <1>5, <1>6 DEF Form
<1>18. \A b \in Threads : b # Net /\ Form(b, todo[b], s) => Form(b, todo[b], s)'
  BY <1>0, <1>6, <1>7, <1>13, FormsKept
<1> QED BY <1>0, <1>8, <1>9, <1>16, <1>17, <1>18, LocalStep

-----------------------------------------------------------------------------
LEMMA CreateStep ==
  ASSUME IInv, LifetimeAssumption, NEW s \in Sessions, Create(s)
  PROVE  IInv'
<1>0. None \notin Sessions /\ Types /\ SessionInv(s) /\ Owner[s] \in Threads
  BY DEF LifetimeAssumption, IInv
<1>1. /\ life[s] = "none" /\ life' = [life EXCEPT ![s] = "live"]
      /\ refs' = [refs EXCEPT ![s] = 1] /\ self' = [self EXCEPT ![s] = TRUE]
      /\ addList' = addList \cup {s} /\ todo[Owner[s]] = <<>>
      /\ UNCHANGED <<open, queueVars, lookups, todo, delList, deaths, timerList,
                     deathsDeal, toTick, posts, deletes, connects>>
  BY DEF Create, Idle
<1>2. deletes[s] = 0 /\ ~Held(s)
  BY <1>0, <1>1, HeldIsLive DEF SessionInv, Started, Live
<1>3. /\ life' \in [Sessions -> {"none", "live", "freed"}] /\ life'[s] = "live"
      /\ refs' \in [Sessions -> Int] /\ refs'[s] = 1
      /\ self' \in [Sessions -> BOOLEAN] /\ self'[s]
      /\ \A r \in Sessions \ {s} :
           life'[r] = life[r] /\ refs'[r] = refs[r] /\ self'[r] = self[r]
  BY <1>0, <1>1 DEF Types
<1>4. Types'
  BY <1>0, <1>1, <1>3 DEF Types, queueVars
<1>5. Local(Owner[s], s)
  <2>1. \A r \in Sessions \ {s} : Away(todo[Owner[s]], r) /\ Away(todo'[Owner[s]], r)
    BY <1>1 DEF Away
  <2> QED BY <1>1, <1>3, <2>1 DEF Local, queueVars
<1>6. \A b \in Threads : ~Ends(todo[b], s) /\ ~At(b, "clear", s)
  BY <1>2, NoneEnds
<1>7. SelfHeld(s)' /\ SelfRefs(s)' = 1 /\ Answering(s)' = Answering(s)
  <2>1. \A b \in Threads : ~At(b, "clear", s)'
    BY <1>1, <1>6 DEF At
  <2>2. Answering(s)' = Answering(s)
    BY <1>1 DEF Answering, At
  <2> QED BY <1>3, <2>1, <2>2 DEF SelfHeld, SelfRefs, Clearing
<1>8. Counted(s)' /\ Freed(s)'
  <2>1. /\ SelfRefs(s) = 0 /\ posts[s] = 0 /\ queued[s] = 0 /\ Served(s) = 0
        /\ lookups[s] = 0 /\ Answering(s) = 0 /\ deaths[s] = 0 /\ deathsDeal[s] = 0
    BY <1>0, <1>2, HoldersAre DEF Held
  <2>2. Holders(s)' = Tally(1, 0, 0, 0, 0, 0, 0, 0)
    <3>1. Holders(s)' = HoldersTally(s)'
      BY Zenon DEF Holders, HoldersTally, Tally, Served
    <3>2. /\ posts'[s] = 0 /\ queued'[s] = 0 /\ Served(s)' = 0
          /\ lookups'[s] = 0 /\ Answering(s)' = 0 /\ deaths'[s] = 0 /\ deathsDeal'[s] = 0
      BY <1>1, <1>7, <2>1 DEF Served, queueVars
    <3> QED BY <1>7, <3>1, <3>2, Zenon DEF HoldersTally
  <2>3. Tally(1, 0, 0, 0, 0, 0, 0, 0) = 1
    BY DEF Tally
  <2> QED BY <1>3, <2>2, <2>3 DEF Counted, Freed, Live
<1>9. Started(s)' /\ Opened(s)'
  BY <1>3, <1>7 DEF Started, Opened, Kept
<1>10. Listed(s)'
  BY <1>0, <1>1, <1>7 DEF SessionInv, Listed
<1>11. Queued(s)'
  BY <1>0, <1>1 DEF SessionInv, Queued, Posted, queueVars
<1>12. EndedOnce(s)'
  BY <1>1, <1>6 DEF EndedOnce
<1>13. SessionInv(s)'
  BY <1>8, <1>9, <1>10, <1>11, <1>12 DEF SessionInv
<1>14. (todo[Owner[s]] = <<>> \/ Form(Owner[s], todo[Owner[s]], s))'
  BY <1>1
<1>15. ASSUME NEW b \in Threads, b # Owner[s], Form(b, todo[b], s)
       PROVE  Form(b, todo[b], s)'
  <2>1. /\ Posted(s)' <=> Posted(s)
        /\ Shut(s)' <=> Shut(s)
        /\ Kept(s)'
    BY <1>1, <1>7 DEF Posted, Shut, Kept
  <2>2. todo[b] # Ending2(s)
    BY <1>6 DEF Ends
  <2> QED BY <1>1, <1>15, <2>1, <2>2 DEF Form, NetForm, OtherForm
<1> QED BY <1>0, <1>4, <1>5, <1>13, <1>14, <1>15, LocalStep

(* The timer takes its three lists.                                        *)
LEMMA TimerSwapStep ==
  ASSUME IInv, LifetimeAssumption, TimerSwap
  PROVE  IInv'
<1>1. /\ todo[Timer] = <<>> /\ todo' = todo /\ deathsDeal = Each(0)
      /\ timerList' = (timerList \cup addList) \ delList
      /\ toTick' = (timerList \cup addList) \ delList
      /\ addList' = {} /\ delList' = {}
      /\ deathsDeal' = deaths /\ deaths' = Each(0)
      /\ UNCHANGED <<life, refs, self, open, queueVars, lookups, posts, deletes,
                     connects>>
  BY DEF TimerSwap, TimerRound, Idle
<1>2. Types'
  BY <1>1 DEF IInv, Types, queueVars, Each
<1>3. ASSUME NEW s \in Sessions
      PROVE  /\ OffTimer(s) => OffTimer(s)'
             /\ Posted(s)' <=> Posted(s)
             /\ SelfHeld(s)' <=> SelfHeld(s)
             /\ Kept(s)' <=> Kept(s)
             /\ Shut(s)' <=> Shut(s)
  <2>1. /\ Posted(s)' <=> Posted(s)
        /\ SelfHeld(s)' <=> SelfHeld(s)
    BY <1>1 DEF Posted, SelfHeld, At
  <2>2. OffTimer(s) => OffTimer(s)'
    <3>1. <<>> # One("callback", s)
      BY ScriptHeads
    <3>2. deaths[s] > 0 => s \in delList
      BY DEF IInv, SessionInv, Listed
    <3> QED BY <1>1, <2>1, <3>1, <3>2 DEF OffTimer
  <2> QED BY <1>1, <2>1, <2>2 DEF Kept, Shut
<1>4. ASSUME NEW s \in Sessions PROVE SessionInv(s)'
  <2>0. SessionInv(s) /\ Types
    BY DEF IInv
  <2>1. Counted(s)' /\ Freed(s)'
    <3>1. SelfRefs(s)' = SelfRefs(s) /\ Answering(s)' = Answering(s)
      BY <1>1 DEF SelfRefs, Clearing, Answering, At
    <3>2. /\ Served(s)' = Served(s) /\ posts'[s] = posts[s] /\ queued'[s] = queued[s]
          /\ lookups'[s] = lookups[s]
          /\ deaths'[s] = 0 /\ deathsDeal[s] = 0 /\ deathsDeal'[s] = deaths[s]
      BY <1>1 DEF Served, queueVars, Each
    <3>3. Holders(s)' = Holders(s)
      BY <1>2, <2>0, <3>1, <3>2, DeathMoves
    <3> QED BY <1>1, <2>0, <3>3 DEF SessionInv, Counted, Freed, Live
  <2>2. Started(s)' /\ Queued(s)'
    BY <1>1, <2>0 DEF SessionInv, Started, Queued, Posted, queueVars
  <2>3. Listed(s)' /\ Opened(s)'
    BY <1>1, <1>3, <2>0 DEF SessionInv, Listed, Opened, Each
  <2>4. EndedOnce(s)'
    BY <1>1, <2>0 DEF SessionInv, EndedOnce
  <2> QED BY <2>1, <2>2, <2>3, <2>4 DEF SessionInv
<1>5. Forms'
  <2>1. ASSUME NEW a \in Threads, NEW s \in Sessions, Form(a, todo[a], s)
        PROVE  Form(a, todo[a], s)'
    BY <1>1, <1>3, <2>1 DEF Form, NetForm, OtherForm
  <2> QED BY <1>1, <2>1 DEF IInv, Forms
<1> QED BY <1>2, <1>4, <1>5 DEF IInv

LEMMA InitInv ==
  ASSUME LifetimeAssumption, Init
  PROVE  IInv
<1>1. Types
  BY ScriptsAre DEF Init, Types, Each, Scripts
<1>2. Forms
  BY DEF Init, Forms
<1>3. ASSUME NEW s \in Sessions PROVE SessionInv(s)
  <2>1. \A a \in Threads, n \in StepNames : ~At(a, n, s)
    BY DEF Init, At
  <2>2. /\ SelfRefs(s) = 0 /\ posts[s] = 0 /\ queued[s] = 0 /\ Served(s) = 0
        /\ lookups[s] = 0 /\ Answering(s) = 0 /\ deaths[s] = 0 /\ deathsDeal[s] = 0
    BY <2>1 DEF Init, Each, SelfRefs, Served, Answering, LifetimeAssumption,
                StepNames, Threads
  <2>3. Holders(s) = Tally(0, 0, 0, 0, 0, 0, 0, 0)
    <3>1. Holders(s) = HoldersTally(s)
      BY Zenon DEF Holders, HoldersTally, Tally, Served
    <3> QED BY <2>2, <3>1, Zenon DEF HoldersTally
  <2>4. Tally(0, 0, 0, 0, 0, 0, 0, 0) = 0
    BY DEF Tally
  <2>5. Counted(s) /\ Freed(s) /\ Started(s) /\ Opened(s)
    BY <2>3, <2>4 DEF Init, Each, Counted, Freed, Live, Started, Opened
  <2>6. Listed(s)
    <3>1. <<>> # One("callback", s)
      BY ScriptHeads
    <3> QED BY <3>1 DEF Init, Each, Listed, OffTimer, Threads
  <2>7. Queued(s)
    BY DEF Init, Each, Queued
  <2>8. EndedOnce(s)
    BY ScriptEnds DEF Init, EndedOnce
  <2> QED BY <2>5, <2>6, <2>7, <2>8 DEF SessionInv
<1> QED BY <1>1, <1>2, <1>3 DEF IInv

LEMMA NextInv ==
  ASSUME IInv, LifetimeAssumption, ProperUse, [Next]_vars
  PROVE  IInv'
<1>1. CASE UNCHANGED vars
  <2>1. /\ Types' <=> Types
        /\ Forms' <=> Forms
        /\ \A s \in Sessions : SessionInv(s)' <=> SessionInv(s)
    <3> USE <1>1 DEF vars, queueVars, timerVars
    <3>1. Types' <=> Types
      BY DEF Types
    <3>2. \A a \in Threads, s \in Sessions, n \in StepNames : At(a, n, s)' <=> At(a, n, s)
      BY DEF At
    <3>3. \A s \in Sessions : /\ Posted(s)' <=> Posted(s)
                              /\ SelfHeld(s)' <=> SelfHeld(s)
                              /\ OffTimer(s)' <=> OffTimer(s)
                              /\ Kept(s)' <=> Kept(s)
                              /\ Shut(s)' <=> Shut(s)
      BY <3>2 DEF Posted, SelfHeld, OffTimer, Kept, Shut, StepNames
    <3>4. Forms' <=> Forms
      BY <3>3 DEF Forms, Form, NetForm, OtherForm
    <3>5. ASSUME NEW s \in Sessions PROVE SessionInv(s)' <=> SessionInv(s)
      <4>1. SelfRefs(s)' = SelfRefs(s) /\ Answering(s)' = Answering(s)
        BY DEF SelfRefs, Clearing, Answering, At
      <4>2. Holders(s)' = Holders(s)
        BY <4>1, Zenon DEF Holders
      <4>3. /\ Counted(s)' <=> Counted(s)
            /\ Freed(s)' <=> Freed(s)
            /\ Started(s)' <=> Started(s)
            /\ Opened(s)' <=> Opened(s)
            /\ Listed(s)' <=> Listed(s)
        BY <3>3, <4>2 DEF Counted, Freed, Started, Opened, Listed, Live
      <4>4. (Queued(s)' <=> Queued(s)) /\ (EndedOnce(s)' <=> EndedOnce(s))
        BY <3>3 DEF Queued, EndedOnce
      <4> QED BY <4>3, <4>4 DEF SessionInv
    <3> QED BY <3>1, <3>4, <3>5
  <2> QED BY <2>1 DEF IInv
<1>2. CASE TimerSteps
  BY <1>2, TimerSwapStep, TimerClearsDeathStep, OnTimerStep DEF TimerSteps
<1>3. ASSUME NEW s \in Sessions, Create(s) \/ Remote(s) \/ LookupAnswered(s)
      PROVE  IInv'
  BY <1>3, CreateStep, RemoteStep, LookupAnsweredStep
<1>4. ASSUME NEW s \in Sessions, NetSteps(s)
      PROVE  IInv'
  <2>1. ~AskAtOnce(s)
    BY DEF AskAtOnce, ProperUse
  <2> QED BY <1>4, <2>1, CloseCallbackStep, CannotCloseStep, DelToTimerStep,
             AskLaterStep, AnswerStep, DropLookupStep DEF NetSteps
<1>5. ASSUME NEW s \in Sessions, QueueSteps(s)
      PROVE  IInv'
  BY <1>5, ServeSocketStep, CallItemStep, EndSocketStep DEF QueueSteps
<1>6. ASSUME NEW s \in Sessions, NEW a \in Threads, NEW rest,
             CalledFrom(a, s, rest), Call(a, s, rest)
      PROVE  IInv'
  <2>1. CASE a # Net
    BY <1>6, <2>1, CallStepOther
  <2>2. CASE a = Net
    BY <1>6, <2>2, NetCloseStep, NetConnectStep, NetDeleteStep DEF Call
  <2> QED BY <2>1, <2>2
<1>7. ASSUME NEW s \in Sessions, NEW a \in Threads, OwnerCall(a, s) \/ CallbackCalls(a, s)
      PROVE  IInv'
  BY <1>6, <1>7 DEF OwnerCall, CallbackCalls, CalledFrom, Idle
<1>8. ASSUME NEW s \in Sessions, NEW a \in Threads, Steps(a, s)
      PROVE  IInv'
  BY <1>8, RegisterStep, ReleaseStep, ClearStep, CallbackReturnsStep DEF Steps
<1> HIDE DEF IInv
<1> QED BY <1>1, <1>2, <1>3, <1>4, <1>5, <1>7, <1>8 DEF Next

-----------------------------------------------------------------------------
(* What the invariant says of the properties.                              *)
LEMMA FormIsLive ==
  ASSUME IInv, NEW a \in Threads, NEW s \in Sessions, Form(a, todo[a], s),
         Net \in Threads
  PROVE  todo[a] = One("clear", s) \/ Live(s)
<1>1. CASE Kept(s)
  BY <1>1, KeptIsLive
<1>2. CASE Ends(todo[a], s) /\ todo[a] # One("clear", s)
  <2>1. ~At(a, "clear", s)
    BY <1>2, AtClear
  <2> QED BY <1>2, <2>1, EndingIsHeld, KeptIsLive DEF Kept
<1>3. CASE a = Net /\ (todo[a] = One("answer", s) \/ todo[a] = One("dropLookup", s))
  <2>1. Answering(s) = 1
    BY <1>3, ScriptHeads DEF Answering, At
  <2> QED BY <2>1, HeldIsLive DEF IInv, Held
<1>4. CASE a = Timer /\ todo[a] = One("callback", s)
  <2>1. SelfHeld(s) \/ Posted(s) \/ deaths[s] > 0
    BY <1>4 DEF IInv, SessionInv, Listed, OffTimer
  <2> QED BY <2>1, KeptIsLive, HeldIsLive DEF Kept, Held, IInv
<1>5. \/ Kept(s)
      \/ Ends(todo[a], s)
      \/ a = Net /\ (todo[a] = One("answer", s) \/ todo[a] = One("dropLookup", s))
      \/ a = Timer /\ todo[a] = One("callback", s)
  <2>1. CASE a = Net
    <3>1. /\ Ends(Ending2(s), s) /\ Ends(Ending3("unlist", s), s)
          /\ \A n \in Closing : Ends(Ending4(n, s), s)
          /\ Ends(One("clear", s), s)
      BY ScriptEnds DEF StepNames, Closing
    <3>2. NetForm(todo[a], s)
      BY <2>1 DEF Form
    <3> QED BY <2>1, <3>1, <3>2 DEF NetForm, Kept, Closing
  <2>2. CASE a # Net
    BY <2>2 DEF Form, OtherForm, Kept
  <2> QED BY <2>1, <2>2
<1> QED BY <1>1, <1>2, <1>3, <1>4, <1>5

LEMMA FormIsOf ==
  ASSUME NEW a, NEW q, NEW s, Form(a, q, s)
  PROVE  /\ \A i \in 1 .. Len(q) : q[i][2] = s
         /\ q = One("clear", s) => \A i \in 1 .. Len(q) : q[i][1] = "clear"
<1>1. \A n, m : \A i \in 1 .. Len(One(n, s)) : One(n, s)[i][2] = s
  BY DEF One
<1>2. \A n : \A i \in 1 .. Len(Two(n, s)) : Two(n, s)[i][2] = s
  BY DEF Two
<1>3. \A i \in 1 .. Len(Ending2(s)) : Ending2(s)[i][2] = s
  BY DEF Ending2
<1>4. \A n : \A i \in 1 .. Len(Ending3(n, s)) : Ending3(n, s)[i][2] = s
  BY DEF Ending3
<1>5. \A n : \A i \in 1 .. Len(Ending4(n, s)) : Ending4(n, s)[i][2] = s
  BY DEF Ending4
<1>6. \A i \in 1 .. Len(One("clear", s)) : One("clear", s)[i][1] = "clear"
  BY DEF One
<1> QED BY <1>1, <1>2, <1>3, <1>4, <1>5, <1>6 DEF Form, NetForm, OtherForm

LEMMA InvUsesAlive ==
  ASSUME IInv
  PROVE  UsesAlive
<1>1. ASSUME NEW a \in Threads, NEW i \in 1 .. Len(todo[a]), todo[a][i][1] # "clear"
      PROVE  Live(todo[a][i][2])
  <2>1. todo[a] # <<>>
    BY <1>1
  <2>2. PICK s \in Sessions : Form(a, todo[a], s)
    BY <2>1 DEF IInv, Forms
  <2>3. todo[a][i][2] = s /\ todo[a] # One("clear", s)
    BY <1>1, <2>2, FormIsOf
  <2> QED BY <2>2, <2>3, FormIsLive DEF Threads
<1>2. ASSUME serving # None PROVE Live(serving)
  <2>1. serving \in Sessions
    BY <1>2 DEF IInv, Types
  <2>2. Served(serving) = 1
    BY DEF Served
  <2> QED BY <2>1, <2>2, HeldIsLive DEF IInv, Held
<1>3. ASSUME NEW s \in Sessions, items[s] # <<>> \/ queued[s] > 0 \/ lookups[s] > 0
      PROVE  Live(s)
  <2>1. Held(s)
    BY <1>3 DEF IInv, SessionInv, Queued, Posted, Held
  <2> QED BY <2>1, HeldIsLive DEF IInv
<1> QED BY <1>1, <1>2, <1>3 DEF UsesAlive

LEMMA InvTimerListAlive ==
  ASSUME IInv
  PROVE  TimerListAlive
<1>1. ASSUME NEW s \in addList \cup timerList \cup toTick PROVE Live(s)
  <2>1. s \in Sessions /\ s \in addList \cup timerList
    BY DEF IInv, Types
  <2>2. SelfHeld(s) \/ Posted(s) \/ deaths[s] > 0
    BY <2>1 DEF IInv, SessionInv, Listed, OffTimer
  <2> QED BY <2>1, <2>2, KeptIsLive, HeldIsLive DEF Kept, Held, IInv
<1> QED BY <1>1 DEF TimerListAlive

LEMMA InvFreedClosed ==
  ASSUME IInv
  PROVE  FreedClosed
BY KeptIsLive DEF IInv, SessionInv, Opened, FreedClosed, Live

LEMMA InvRefsExact ==
  ASSUME IInv, ProperUse
  PROVE  RefsExact
<1>1. ASSUME NEW s \in Sessions
      PROVE  /\ Live(s) <=> refs[s] > 0
             /\ refs[s] <= Holders(s)
             /\ refs[s] >= Holders(s) - (IF s \in SyncLookups THEN connects[s] ELSE 0)
  <2>1. refs[s] = Holders(s) /\ (Live(s) <=> refs[s] > 0)
    BY DEF IInv, SessionInv, Counted, Freed
  <2>2. refs[s] \in Int /\ s \notin SyncLookups
    BY DEF IInv, Types, ProperUse
  <2> QED BY <2>1, <2>2
<1> QED BY <1>1 DEF RefsExact

-----------------------------------------------------------------------------
LEMMA Invariant == ProperUse => (SafeSpec => []IInv)
<1> SUFFICES ASSUME ProperUse PROVE SafeSpec => []IInv
  OBVIOUS
<1>1. Init => IInv
  BY InitInv, LifetimeAssumption
<1>2. IInv /\ [Next]_vars => IInv'
  BY NextInv, LifetimeAssumption
<1> QED BY <1>1, <1>2, PTL DEF SafeSpec

(* Nothing is done to a freed session: what a thread has still to do with  *)
(* one, a queued call, an entry in the network thread's queue, the queue   *)
(* being run and a name lookup each find it alive (AddRef and DelRef in    *)
(* net_mgr.cpp, net_client.cpp and net.cpp).                               *)
THEOREM UsesAliveTheorem == ProperUse => (SafeSpec => []UsesAlive)
<1> SUFFICES ASSUME ProperUse PROVE SafeSpec => []UsesAlive
  OBVIOUS
<1>1. IInv => UsesAlive
  BY InvUsesAlive
<1> QED BY <1>1, Invariant, PTL

(* The raw pointers of the timer thread are good (DelToTimer, OnTimer).    *)
THEOREM TimerListTheorem == ProperUse => (SafeSpec => []TimerListAlive)
<1> SUFFICES ASSUME ProperUse PROVE SafeSpec => []TimerListAlive
  OBVIOUS
<1>1. IInv => TimerListAlive
  BY InvTimerListAlive
<1> QED BY <1>1, Invariant, PTL

(* A session is freed with its socket closed (~CBasicNet_Socket).          *)
THEOREM FreedClosedTheorem == ProperUse => (SafeSpec => []FreedClosed)
<1> SUFFICES ASSUME ProperUse PROVE SafeSpec => []FreedClosed
  OBVIOUS
<1>1. IInv => FreedClosed
  BY InvFreedClosed
<1> QED BY <1>1, Invariant, PTL

(* Every reference is accounted for, and a session is freed exactly when   *)
(* nothing holds it (EnableRefPtr::DelRef).                                *)
THEOREM RefsExactTheorem == ProperUse => (SafeSpec => []RefsExact)
<1> SUFFICES ASSUME ProperUse PROVE SafeSpec => []RefsExact
  OBVIOUS
<1>1. IInv => RefsExact
  BY InvRefsExact
<1> QED BY <1>1, Invariant, PTL

-----------------------------------------------------------------------------
(* The types of the model, for every use of a session. What bounds the     *)
(* counters is what is still before the network thread and in a session's  *)
(* queue: it is counted here.                                              *)
Found(q, x) == {i \in 1 .. Len(q) : q[i] = x}
Count(q, x) == Cardinality(Found(q, x))
Unit(b) == IF b THEN 1 ELSE 0

LEMMA CountType ==
  ASSUME NEW S, NEW q \in Seq(S), NEW x
  PROVE  IsFiniteSet(Found(q, x)) /\ Count(q, x) \in Nat
<1>1. Len(q) \in Nat
  BY LenProperties
<1>2. IsFiniteSet(1 .. Len(q))
  BY <1>1, FS_Interval
<1>3. Found(q, x) \in SUBSET (1 .. Len(q))
  BY DEF Found
<1> QED BY <1>2, <1>3, FS_Subset, FS_CardinalityType DEF Count

LEMMA CountNone == \A x : Count(<<>>, x) = 0
<1>1. \A x : Found(<<>>, x) = {}
  BY DEF Found
<1> QED BY <1>1, FS_EmptySet DEF Count

LEMMA CountOne ==
  ASSUME NEW e, NEW x
  PROVE  Count(<<e>>, x) = Unit(e = x)
<1>1. CASE e = x
  <2>1. Found(<<e>>, x) = {1}
    BY <1>1 DEF Found
  <2> QED BY <1>1, <2>1, FS_Singleton DEF Count, Unit
<1>2. CASE e # x
  <2>1. Found(<<e>>, x) = {}
    BY <1>2 DEF Found
  <2> QED BY <1>2, <2>1, FS_EmptySet DEF Count, Unit
<1> QED BY <1>1, <1>2

LEMMA CountJoin ==
  ASSUME NEW S, NEW p \in Seq(S), NEW q \in Seq(S), NEW x
  PROVE  Count(p \o q, x) = Count(p, x) + Count(q, x)
<1> DEFINE t == p \o q
           M == {Len(p) + i : i \in Found(q, x)}
           f == [i \in Found(q, x) |-> Len(p) + i]
<1>1. /\ Len(p) \in Nat /\ Len(q) \in Nat /\ Len(t) = Len(p) + Len(q)
      /\ \A i \in 1 .. Len(p) + Len(q) :
           t[i] = IF i <= Len(p) THEN p[i] ELSE q[i - Len(p)]
  BY ConcatProperties
<1>2. f \in Bijection(Found(q, x), M)
  <2>1. Found(q, x) \subseteq Int
    BY DEF Found
  <2>2. f \in Injection(Found(q, x), M)
    BY <1>1, <2>1 DEF Injection, IsInjective
  <2>3. f \in Surjection(Found(q, x), M)
    BY DEF Surjection
  <2> QED BY <2>2, <2>3 DEF Bijection
<1>3. IsFiniteSet(Found(p, x)) /\ IsFiniteSet(Found(q, x))
  BY CountType
<1>4. IsFiniteSet(M) /\ Cardinality(M) = Count(q, x)
  BY <1>2, <1>3, FS_Bijection DEF ExistsBijection, Count
<1>5. Found(t, x) = Found(p, x) \cup M
  <2>1. ASSUME NEW i \in Found(t, x) PROVE i \in Found(p, x) \cup M
    <3>1. i \in 1 .. Len(p) + Len(q) /\ t[i] = x
      BY <1>1, <2>1 DEF Found
    <3>2. CASE i <= Len(p)
      BY <1>1, <3>1, <3>2 DEF Found
    <3>3. CASE i > Len(p)
      <4>1. i - Len(p) \in Found(q, x) /\ i = Len(p) + (i - Len(p))
        BY <1>1, <3>1, <3>3 DEF Found
      <4> QED BY <4>1
    <3> QED BY <1>1, <3>1, <3>2, <3>3
  <2>2. ASSUME NEW i \in Found(p, x) PROVE i \in Found(t, x)
    BY <1>1, <2>2 DEF Found
  <2>3. ASSUME NEW j \in Found(q, x) PROVE Len(p) + j \in Found(t, x)
    <3>1. j \in 1 .. Len(q) /\ q[j] = x
      BY <2>3 DEF Found
    <3>2. Len(p) + j \in 1 .. Len(p) + Len(q) /\ ~(Len(p) + j <= Len(p))
          /\ (Len(p) + j) - Len(p) = j
      BY <1>1, <3>1
    <3> HIDE DEF t
    <3> QED BY <1>1, <3>1, <3>2 DEF Found
  <2> HIDE DEF t
  <2> QED BY <2>1, <2>2, <2>3
<1>6. Found(p, x) \cap M = {}
  BY <1>1 DEF Found
<1> HIDE DEF M, t
<1>7. Cardinality(Found(p, x) \cup M)
        = Cardinality(Found(p, x)) + Cardinality(M) - Cardinality(Found(p, x) \cap M)
  BY <1>3, <1>4, FS_Union
<1>8. Count(p, x) \in Nat /\ Count(q, x) \in Nat /\ Cardinality({}) = 0
  BY CountType, FS_EmptySet
<1>9. Count(t, x) = Cardinality(Found(p, x) \cup M)
  BY <1>5 DEF Count
<1>10. Cardinality(Found(p, x)) = Count(p, x)
  BY DEF Count
<1>11. Count(t, x) = Count(p, x) + Count(q, x) - 0
  BY <1>4, <1>6, <1>7, <1>8, <1>9, <1>10
<1> QED BY <1>8, <1>11 DEF t

LEMMA CountFirst ==
  ASSUME NEW S, NEW q \in Seq(S), q # <<>>, NEW x
  PROVE  Count(q, x) = Unit(Head(q) = x) + Count(Tail(q), x)
<1> DEFINE h == <<Head(q)>>
<1>1. /\ Head(q) \in S /\ Tail(q) \in Seq(S) /\ Len(Tail(q)) = Len(q) - 1
      /\ \A i \in 1 .. Len(Tail(q)) : Tail(q)[i] = q[i + 1]
      /\ Len(q) \in Nat \ {0}
  BY HeadTailProperties, EmptySeq
<1>2. h \in Seq(S) /\ Len(h) = 1 /\ h[1] = Head(q) /\ Head(q) = q[1]
  BY <1>1
<1>3. h \o Tail(q) = q
  <2> HIDE DEF h
  <2>1. /\ h \o Tail(q) \in Seq(S) /\ Len(h \o Tail(q)) = Len(q)
        /\ \A i \in 1 .. 1 + Len(Tail(q)) :
             (h \o Tail(q))[i] = IF i <= 1 THEN h[i] ELSE Tail(q)[i - 1]
    <3>1. /\ h \o Tail(q) \in Seq(S) /\ Len(h \o Tail(q)) = Len(h) + Len(Tail(q))
          /\ \A i \in 1 .. Len(h) + Len(Tail(q)) :
               (h \o Tail(q))[i] = IF i <= Len(h) THEN h[i] ELSE Tail(q)[i - Len(h)]
      BY <1>1, <1>2, ConcatProperties
    <3> QED BY <1>1, <1>2, <3>1
  <2>2. ASSUME NEW i \in 1 .. Len(q) PROVE (h \o Tail(q))[i] = q[i]
    <3>1. CASE i = 1
      BY <1>1, <1>2, <2>1, <3>1
    <3>2. CASE i # 1
      <4>1. i \in 1 .. 1 + Len(Tail(q)) /\ ~(i <= 1)
            /\ i - 1 \in 1 .. Len(Tail(q)) /\ (i - 1) + 1 = i
        BY <1>1, <3>2
      <4> QED BY <1>1, <2>1, <4>1
    <3> QED BY <3>1, <3>2
  <2> QED BY <2>1, <2>2, SeqEqual
<1>4. Count(h, x) = Unit(Head(q) = x)
  BY CountOne
<1> HIDE DEF h
<1>5. Count(h \o Tail(q), x) = Count(h, x) + Count(Tail(q), x)
  BY <1>1, <1>2, CountJoin
<1> QED BY <1>3, <1>4, <1>5

LEMMA CountGrown ==
  ASSUME NEW S, NEW q \in Seq(S), NEW e \in S, NEW x
  PROVE  Count(Append(q, e), x) = Count(q, x) + Unit(e = x)
<1>1. Append(q, e) = q \o <<e>> /\ <<e>> \in Seq(S)
  BY AppendIsConcat
<1>2. Count(q \o <<e>>, x) = Count(q, x) + Count(<<e>>, x)
  BY <1>1, CountJoin
<1> QED BY <1>1, <1>2, CountOne

Pending == StepNames \X Sessions

Plain ==
  /\ life \in [Sessions -> {"none", "live", "freed"}]
  /\ refs \in [Sessions -> Int]
  /\ self \in [Sessions -> BOOLEAN] /\ open \in [Sessions -> BOOLEAN]
  /\ items \in [Sessions -> Seq(Items)] /\ batch \in Seq(Items)
  /\ queued \in [Sessions -> 0 .. 1] /\ serving \in Sessions \cup {None}
  /\ lookups \in [Sessions -> Nat]
  /\ deaths \in [Sessions -> Nat] /\ deathsDeal \in [Sessions -> Nat]
  /\ addList \subseteq Sessions /\ delList \subseteq Sessions
  /\ timerList \subseteq Sessions /\ toTick \subseteq timerList
  /\ posts \in [Sessions -> 0 .. MaxPosts]
  /\ deletes \in [Sessions -> 0 .. MaxDeletes]
  /\ connects \in [Sessions -> 0 .. MaxConnects]

(* Only the step before a thread can be to register a session.             *)
Below(q) == \A i \in 2 .. Len(q) : q[i][1] # "register"
Stacks ==
  /\ todo \in [Threads -> Seq(Pending)]
  /\ \A a \in Threads : Below(todo[a])

(* A session is in the network thread's queue once at most, or one thread  *)
(* is about to put it there; then it has queued calls.                     *)
HandedOnce(s) ==
  /\ queued[s] > 0 => items[s] # <<>>
  /\ \A a \in Threads : At(a, "register", s) =>
       /\ queued[s] = 0 /\ items[s] # <<>>
       /\ \A b \in Threads : At(b, "register", s) => a = b

(* What the network thread owes a session: steps before it, and queued     *)
(* calls taken or not.                                                     *)
Running(item, s) == IF serving = s THEN Count(batch, item) ELSE 0
Owed(step, item, s) ==
  Count(todo[Net], <<step, s>>) + Count(items[s], item) + Running(item, s)

(* Each entry among the dead comes of a SafeDelete, each lookup of a       *)
(* Connect.                                                                *)
Tallied(s) ==
  /\ deaths[s] + deathsDeal[s] + Owed("unlist", "delete", s) <= deletes[s]
  /\ lookups[s] + Owed("ask", "lookup", s) <= connects[s]

TInv == Plain /\ Stacks /\ \A s \in Sessions : HandedOnce(s) /\ Tallied(s)

-----------------------------------------------------------------------------
(* Thread a does the step before it, if there is one, and then has p       *)
(* before it.                                                              *)
Beneath(a) == IF todo[a] = <<>> THEN <<>> ELSE Tail(todo[a])
Pushes(a, p) == todo' = [todo EXCEPT ![a] = p \o Beneath(a)]
Before(a, x) == todo[a] # <<>> /\ Head(todo[a]) = x

LEMMA Taken ==
  ASSUME Stacks, NEW a \in Threads
  PROVE  /\ todo[a] \in Seq(Pending) /\ Beneath(a) \in Seq(Pending)
         /\ \A i \in 1 .. Len(Beneath(a)) : Beneath(a)[i][1] # "register"
         /\ \A x : Count(todo[a], x) = Unit(Before(a, x)) + Count(Beneath(a), x)
<1>1. todo[a] \in Seq(Pending) /\ Below(todo[a])
  BY DEF Stacks
<1>2. CASE todo[a] = <<>>
  BY <1>1, <1>2, CountNone, EmptySeq DEF Beneath, Before, Unit
<1>3. CASE todo[a] # <<>>
  <2>1. Beneath(a) = Tail(todo[a])
    BY <1>3 DEF Beneath
  <2>2. /\ Tail(todo[a]) \in Seq(Pending) /\ Len(Tail(todo[a])) = Len(todo[a]) - 1
        /\ \A i \in 1 .. Len(Tail(todo[a])) : Tail(todo[a])[i] = todo[a][i + 1]
        /\ Len(todo[a]) \in Nat \ {0}
    BY <1>1, <1>3, HeadTailProperties, EmptySeq
  <2>3. \A x : Count(todo[a], x) = Unit(Head(todo[a]) = x) + Count(Tail(todo[a]), x)
    BY <1>1, <1>3, CountFirst
  <2>4. \A x : Before(a, x) <=> Head(todo[a]) = x
    BY <1>3 DEF Before
  <2>5. \A i \in 1 .. Len(Tail(todo[a])) : Tail(todo[a])[i][1] # "register"
    BY <1>1, <2>2 DEF Below
  <2> QED BY <1>1, <2>1, <2>2, <2>3, <2>4, <2>5 DEF Unit
<1> QED BY <1>2, <1>3

LEMMA StackPushed ==
  ASSUME Stacks, NEW a \in Threads, NEW p \in Seq(Pending), Below(p), Pushes(a, p)
  PROVE  /\ Stacks'
         /\ \A b \in Threads \ {a} : todo'[b] = todo[b]
         /\ \A s : At(a, "register", s)' => p # <<>> /\ Head(p) = <<"register", s>>
         /\ \A x : Count(todo'[a], x) + Unit(Before(a, x))
                     = Count(p, x) + Count(todo[a], x)
<1> DEFINE r == Beneath(a)
           t == p \o r
<1>1. todo' = [todo EXCEPT ![a] = t] /\ todo \in [Threads -> Seq(Pending)]
  BY DEF Pushes, Stacks
<1>2. /\ r \in Seq(Pending) /\ \A i \in 1 .. Len(r) : r[i][1] # "register"
      /\ todo[a] \in Seq(Pending)
  BY Taken
<1>3. /\ t \in Seq(Pending) /\ Len(t) = Len(p) + Len(r)
      /\ \A i \in 1 .. Len(p) + Len(r) :
           t[i] = IF i <= Len(p) THEN p[i] ELSE r[i - Len(p)]
      /\ Len(p) \in Nat /\ Len(r) \in Nat
  BY <1>2, ConcatProperties
<1>4. todo'[a] = t /\ \A b \in Threads \ {a} : todo'[b] = todo[b]
  BY <1>1
<1>5. todo' \in [Threads -> Seq(Pending)]
  BY <1>1, <1>3
<1>6. ASSUME NEW i \in 1 .. Len(t), i >= 2 \/ p = <<>>
      PROVE  t[i][1] # "register"
  <2>1. CASE i <= Len(p)
    <3>1. i \in 2 .. Len(p) /\ t[i] = p[i]
      BY <1>3, <1>6, <2>1
    <3> QED BY <3>1 DEF Below
  <2>2. CASE ~(i <= Len(p))
    <3>1. i - Len(p) \in 1 .. Len(r) /\ t[i] = r[i - Len(p)]
      BY <1>3, <2>2
    <3> QED BY <1>2, <3>1
  <2> QED BY <2>1, <2>2
<1>7. Below(t)
  BY <1>3, <1>6 DEF Below
<1>8. Stacks'
  BY <1>4, <1>5, <1>7 DEF Stacks
<1>9. ASSUME NEW s, t # <<>>, Head(t) = <<"register", s>>
      PROVE  p # <<>> /\ Head(p) = <<"register", s>>
  <2>1. Len(t) \in Nat \ {0} /\ 1 \in 1 .. Len(t) /\ Head(t) = t[1]
    BY <1>3, <1>9, EmptySeq
  <2>2. p # <<>>
    BY <1>6, <1>9, <2>1
  <2>3. Len(p) \in Nat \ {0} /\ Head(p) = p[1]
    BY <2>2, EmptySeq
  <2>4. t[1] = p[1]
    BY <1>3, <2>1, <2>3
  <2> QED BY <1>9, <2>1, <2>2, <2>3, <2>4
<1>10. ASSUME NEW x PROVE Count(t, x) + Unit(Before(a, x)) = Count(p, x) + Count(todo[a], x)
  <2>1. Count(t, x) = Count(p, x) + Count(r, x)
    BY <1>2, CountJoin
  <2>2. Count(todo[a], x) = Unit(Before(a, x)) + Count(r, x)
    BY Taken
  <2>3. Count(p, x) \in Nat /\ Count(r, x) \in Nat /\ Unit(Before(a, x)) \in Nat
    BY <1>2, CountType DEF Unit
  <2> QED BY <2>1, <2>2, <2>3
<1> HIDE DEF t, r
<1> QED BY <1>4, <1>8, <1>9, <1>10 DEF At

(* A count of one sort of call.                                            *)
LEMMA OwedType ==
  ASSUME Plain, Stacks, NEW step, NEW item, NEW s \in Sessions
  PROVE  /\ Count(todo[Net], <<step, s>>) \in Nat /\ Count(items[s], item) \in Nat
         /\ Running(item, s) \in Nat /\ Owed(step, item, s) \in Nat
<1>1. todo[Net] \in Seq(Pending) /\ items[s] \in Seq(Items) /\ batch \in Seq(Items)
  BY DEF Plain, Stacks, Threads
<1>2. /\ Count(todo[Net], <<step, s>>) \in Nat /\ Count(items[s], item) \in Nat
      /\ Count(batch, item) \in Nat
  BY <1>1, CountType
<1> QED BY <1>2 DEF Owed, Running

LEMMA Less ==
  ASSUME NEW d \in Nat, NEW e \in Nat, NEW u \in Nat, NEW n \in Nat,
         NEW o \in Nat, NEW r \in Nat, e <= d + u, r + u = o, d + o <= n
  PROVE  e + r <= n
OBVIOUS

(* A step that takes nothing from a queue and calls nothing.               *)
LEMMA Turn ==
  ASSUME TInv, Plain', NEW a \in Threads, NEW p \in Seq(Pending), Below(p), Pushes(a, p),
         p # <<>> => Head(p)[1] # "register",
         UNCHANGED <<queueVars, deletes, connects>>,
         \A s \in Sessions :
           /\ Count(p, <<"unlist", s>>) = 0 /\ Count(p, <<"ask", s>>) = 0
           /\ deaths'[s] + deathsDeal'[s]
                <= deaths[s] + deathsDeal[s] + Unit(a = Net /\ Before(Net, <<"unlist", s>>))
           /\ lookups'[s] <= lookups[s] + Unit(a = Net /\ Before(Net, <<"ask", s>>))
  PROVE  TInv'
<1>1. /\ Stacks'
      /\ \A b \in Threads \ {a} : todo'[b] = todo[b]
      /\ \A s : ~At(a, "register", s)'
      /\ \A x : Count(todo'[a], x) + Unit(Before(a, x))
                  = Count(p, x) + Count(todo[a], x)
  <2>1. \A s : Head(p) = <<"register", s>> => Head(p)[1] = "register"
    OBVIOUS
  <2> QED BY <2>1, StackPushed DEF TInv
<1>2. ASSUME NEW s \in Sessions PROVE HandedOnce(s)'
  <2>1. \A b \in Threads : At(b, "register", s)' => At(b, "register", s)
    BY <1>1 DEF At
  <2> QED BY <2>1 DEF TInv, HandedOnce, queueVars
<1>3. ASSUME NEW s \in Sessions, NEW step \in {"unlist", "ask"}, NEW item
      PROVE  Owed(step, item, s)' + Unit(a = Net /\ Before(Net, <<step, s>>))
               = Owed(step, item, s)
  <2>1. Count(todo'[Net], <<step, s>>) + Unit(a = Net /\ Before(Net, <<step, s>>))
          = Count(todo[Net], <<step, s>>)
    <3>0. Count(todo[Net], <<step, s>>) \in Nat
      BY <1>3, OwedType DEF TInv
    <3>1. CASE a = Net
      <4>1. Count(p, <<step, s>>) = 0
        BY <1>3
      <4>2. Count(todo'[a], <<step, s>>) + Unit(Before(a, <<step, s>>))
              = Count(p, <<step, s>>) + Count(todo[a], <<step, s>>)
        BY <1>1
      <4>3. Unit(Before(a, <<step, s>>)) = Unit(a = Net /\ Before(Net, <<step, s>>))
        BY <3>1 DEF Unit
      <4>4. 0 + Count(todo[Net], <<step, s>>) = Count(todo[Net], <<step, s>>)
        BY <3>0
      <4> QED BY <3>1, <4>1, <4>2, <4>3, <4>4
    <3>2. CASE a # Net
      <4>1. todo'[Net] = todo[Net]
        BY <1>1, <3>2 DEF Threads
      <4> QED BY <3>0, <3>2, <4>1 DEF Unit
    <3> QED BY <3>1, <3>2
  <2>2. Count(items'[s], item) = Count(items[s], item) /\ Running(item, s)' = Running(item, s)
    BY DEF queueVars, Running
  <2>3. /\ Count(todo[Net], <<step, s>>) \in Nat /\ Count(items[s], item) \in Nat
        /\ Running(item, s) \in Nat
    BY <1>3, OwedType DEF TInv
  <2>4. Count(todo'[Net], <<step, s>>) \in Nat
    <3>1. todo'[Net] \in Seq(Pending)
      BY <1>1 DEF Stacks, Threads
    <3> QED BY <3>1, CountType
  <2>5. Unit(a = Net /\ Before(Net, <<step, s>>)) \in Nat
    BY DEF Unit

  <2> QED BY <2>1, <2>2, <2>3, <2>4, <2>5 DEF Owed
<1>4. ASSUME NEW s \in Sessions PROVE Tallied(s)'
  <2> DEFINE u == Unit(a = Net /\ Before(Net, <<"unlist", s>>))
             v == Unit(a = Net /\ Before(Net, <<"ask", s>>))
             d == deaths[s] + deathsDeal[s]
             e == deaths'[s] + deathsDeal'[s]
  <2>1. /\ Owed("unlist", "delete", s)' + u = Owed("unlist", "delete", s)
        /\ Owed("ask", "lookup", s)' + v = Owed("ask", "lookup", s)
    BY <1>3, <1>4
  <2>2. /\ d \in Nat /\ e \in Nat /\ lookups[s] \in Nat /\ lookups'[s] \in Nat
        /\ deletes[s] \in Nat /\ connects[s] \in Nat
    <3>1. /\ lookups[s] \in Nat /\ lookups'[s] \in Nat
          /\ deaths[s] \in Nat /\ deaths'[s] \in Nat
          /\ deathsDeal[s] \in Nat /\ deathsDeal'[s] \in Nat
      BY <1>4 DEF TInv, Plain
    <3>2. deletes[s] \in 0 .. MaxDeletes /\ connects[s] \in 0 .. MaxConnects
      BY <1>4 DEF TInv, Plain
    <3>3. MaxDeletes \in Nat /\ MaxConnects \in Nat
      BY LifetimeAssumption
    <3>4. deletes[s] \in Nat /\ connects[s] \in Nat
      BY <3>2, <3>3
    <3>5. d \in Nat /\ e \in Nat
      <4>1. \A i, j \in Nat : i + j \in Nat
        OBVIOUS
      <4> QED BY <3>1, <4>1, Zenon
    <3> HIDE DEF d, e
    <3> QED BY <3>1, <3>4, <3>5
  <2>3. /\ Owed("unlist", "delete", s) \in Nat /\ Owed("ask", "lookup", s) \in Nat
        /\ Owed("unlist", "delete", s)' \in Nat /\ Owed("ask", "lookup", s)' \in Nat
    <3>1. /\ Owed("unlist", "delete", s) \in Nat /\ Owed("ask", "lookup", s) \in Nat
      BY <1>4, OwedType DEF TInv
    <3>2. /\ Count(todo'[Net], <<"unlist", s>>) \in Nat /\ Count(todo'[Net], <<"ask", s>>) \in Nat
      <4>1. todo'[Net] \in Seq(Pending)
        BY <1>1 DEF Stacks, Threads
      <4> QED BY <4>1, CountType
    <3>3. Running("delete", s)' = Running("delete", s) /\ Running("lookup", s)' = Running("lookup", s)
          /\ items' = items
      BY DEF queueVars, Running
    <3>4. /\ Count(items[s], "delete") \in Nat /\ Count(items[s], "lookup") \in Nat
          /\ Running("delete", s) \in Nat /\ Running("lookup", s) \in Nat
      BY <1>4, OwedType DEF TInv
    <3>5. /\ Owed("unlist", "delete", s)' = Count(todo'[Net], <<"unlist", s>>)
                + Count(items[s], "delete") + Running("delete", s)
          /\ Owed("ask", "lookup", s)' = Count(todo'[Net], <<"ask", s>>)
                + Count(items[s], "lookup") + Running("lookup", s)
      BY <3>3 DEF Owed
    <3>6. \A i, j, k \in Nat : i + j + k \in Nat
      OBVIOUS
    <3> QED BY <3>1, <3>2, <3>4, <3>5, <3>6
  <2>4. u \in Nat /\ v \in Nat
    BY DEF Unit
  <2>5. /\ d + Owed("unlist", "delete", s) <= deletes[s]
        /\ lookups[s] + Owed("ask", "lookup", s) <= connects[s]
    BY <1>4 DEF TInv, Tallied
  <2>6. e <= d + u /\ lookups'[s] <= lookups[s] + v
    BY <1>4
  <2>7. deletes' = deletes /\ connects' = connects
    OBVIOUS
  <2> HIDE DEF d, e, u, v
  <2>8. /\ e + Owed("unlist", "delete", s)' <= deletes[s]
        /\ lookups'[s] + Owed("ask", "lookup", s)' <= connects[s]
    BY <2>1, <2>2, <2>3, <2>4, <2>5, <2>6, Less
  <2> QED BY <2>7, <2>8 DEF Tallied, e
<1> QED BY <1>1, <1>2, <1>4 DEF TInv

LEMMA ReplacePushes ==
  ASSUME NEW a \in Threads, NEW n, NEW s, NEW p, At(a, n, s), Replace(a, p)
  PROVE  Pushes(a, p)
BY DEF At, Replace, Pushes, Beneath

LEMMA IdlePushes ==
  ASSUME NEW a \in Threads, NEW p \in Seq(Pending), Idle(a), todo' = [todo EXCEPT ![a] = p]
  PROVE  Pushes(a, p)
<1>1. p \o <<>> = p
  BY ConcatEmptySeq
<1> QED BY <1>1 DEF Idle, Pushes, Beneath

CalmSteps == {"callback", "release", "clear", "close", "tryClose", "answer", "dropLookup"}

LEMMA Short ==
  /\ <<>> \in Seq(Pending) /\ Below(<<>>) /\ \A x : Count(<<>>, x) = 0
  /\ \A n \in StepNames, s \in Sessions :
       /\ << <<n, s>> >> \in Seq(Pending) /\ Below(<< <<n, s>> >>)
       /\ Head(<< <<n, s>> >>)[1] = n
       /\ \A x : Count(<< <<n, s>> >>, x) = Unit(<<n, s>> = x)
<1>1. <<>> \in Seq(Pending) /\ Below(<<>>)
  BY EmptySeq DEF Below
<1>2. ASSUME NEW n \in StepNames, NEW s \in Sessions
      PROVE  /\ << <<n, s>> >> \in Seq(Pending) /\ Below(<< <<n, s>> >>)
             /\ Head(<< <<n, s>> >>)[1] = n
  BY <1>2 DEF Pending, Below
<1> QED BY <1>1, <1>2, CountNone, CountOne

LEMMA CalmTurn ==
  ASSUME TInv, Plain', NEW a \in Threads,
         \/ Pushes(a, <<>>)
         \/ \E n \in CalmSteps, s \in Sessions : Pushes(a, << <<n, s>> >>),
         UNCHANGED <<queueVars, deletes, connects>>,
         \A s \in Sessions :
           /\ deaths'[s] + deathsDeal'[s]
                <= deaths[s] + deathsDeal[s] + Unit(a = Net /\ Before(Net, <<"unlist", s>>))
           /\ lookups'[s] <= lookups[s] + Unit(a = Net /\ Before(Net, <<"ask", s>>))
  PROVE  TInv'
<1>1. CASE Pushes(a, <<>>)
  BY <1>1, Short, Turn
<1>2. ASSUME NEW n \in CalmSteps, NEW s \in Sessions, Pushes(a, << <<n, s>> >>) PROVE TInv'
  <2> DEFINE p == << <<n, s>> >>
  <2>1. n \in StepNames /\ n # "register" /\ n # "unlist" /\ n # "ask"
    BY <1>2 DEF CalmSteps, StepNames
  <2>2. p \in Seq(Pending) /\ Below(p) /\ Head(p)[1] # "register"
    BY <1>2, <2>1, Short
  <2>3. \A r : Count(p, <<"unlist", r>>) = 0 /\ Count(p, <<"ask", r>>) = 0
    <3>1. \A x : Count(p, x) = Unit(<<n, s>> = x)
      BY <1>2, <2>1, Short
    <3>2. \A r : <<n, s>> # <<"unlist", r>> /\ <<n, s>> # <<"ask", r>>
      BY <2>1
    <3> QED BY <3>1, <3>2 DEF Unit
  <2>4. Pushes(a, p)
    BY <1>2
  <2> HIDE DEF p
  <2> QED BY <2>2, <2>3, <2>4, Turn
<1> QED BY <1>1, <1>2

(* A turn that neither puts a session among the dead nor asks for a name.  *)
LEMMA QuietTurn ==
  ASSUME TInv, Plain', NEW a \in Threads,
         \/ Pushes(a, <<>>)
         \/ \E n \in CalmSteps, s \in Sessions : Pushes(a, << <<n, s>> >>),
         UNCHANGED <<queueVars, deletes, connects, deaths, deathsDeal>>,
         \A s \in Sessions : lookups'[s] <= lookups[s]
  PROVE  TInv'
<1>1. ASSUME NEW s \in Sessions
      PROVE  /\ deaths'[s] + deathsDeal'[s]
                  <= deaths[s] + deathsDeal[s] + Unit(a = Net /\ Before(Net, <<"unlist", s>>))
             /\ lookups'[s] <= lookups[s] + Unit(a = Net /\ Before(Net, <<"ask", s>>))
  <2>1. /\ lookups[s] \in Nat /\ lookups'[s] \in Nat /\ lookups'[s] <= lookups[s]
        /\ deaths[s] \in Nat /\ deathsDeal[s] \in Nat
    BY <1>1 DEF TInv, Plain
  <2>2. Unit(a = Net /\ Before(Net, <<"unlist", s>>)) \in Nat
        /\ Unit(a = Net /\ Before(Net, <<"ask", s>>)) \in Nat
    BY DEF Unit
  <2>3. deaths' = deaths /\ deathsDeal' = deathsDeal
    OBVIOUS
  <2> QED BY <2>1, <2>2, <2>3
<1> QED BY <1>1, CalmTurn

LEMMA RefTypes ==
  ASSUME Plain, NEW s \in Sessions, AddRef(s) \/ DelRef(s) \/ NoRef
  PROVE  /\ life' \in [Sessions -> {"none", "live", "freed"}]
         /\ refs' \in [Sessions -> Int]
<1>1. refs' \in [Sessions -> Int]
  <2>1. refs \in [Sessions -> Int]
    BY DEF Plain
  <2>2. refs' \in {refs, [refs EXCEPT ![s] = @ + 1], [refs EXCEPT ![s] = @ - 1]}
    BY DEF AddRef, DelRef, NoRef
  <2> QED BY <2>1, <2>2
<1>2. life' = life \/ life' = [life EXCEPT ![s] = "freed"]
  <2>1. CASE DelRef(s)
    BY <2>1, Zenon DEF DelRef
  <2> QED BY <2>1 DEF AddRef, NoRef
<1> QED BY <1>1, <1>2 DEF Plain

LEMMA StepTurns ==
  ASSUME TInv, NEW a \in Threads, NEW s \in Sessions,
         \/ CallbackReturns(a, s) \/ Release(a, s) \/ Clear(a, s)
  PROVE  TInv'
<1>1. \E n \in StepNames : At(a, n, s) /\ Replace(a, <<>>)
  BY DEF CallbackReturns, Release, Clear, Done, StepNames
<1>2. Pushes(a, <<>>)
  BY <1>1, ReplacePushes
<1>3. UNCHANGED <<queueVars, deletes, connects, deaths, deathsDeal, lookups>>
  BY DEF CallbackReturns, Release, Clear, timerVars
<1>4. Plain'
  <2>1. CASE CallbackReturns(a, s)
    BY <2>1 DEF CallbackReturns, TInv, Plain, timerVars, queueVars
  <2>2. CASE Release(a, s)
    BY <2>2, RefTypes DEF Release, TInv, Plain, timerVars, queueVars
  <2>3. CASE Clear(a, s)
    BY <2>3 DEF Clear, TInv, Plain, timerVars, queueVars
  <2> QED BY <2>1, <2>2, <2>3
<1>5. \A r \in Sessions : lookups'[r] <= lookups[r]
  BY <1>3 DEF TInv, Plain
<1> QED BY <1>2, <1>3, <1>4, <1>5, QuietTurn

LEMMA NetTurns ==
  ASSUME TInv, NEW s \in Sessions,
         \/ CloseCallback(s) \/ CannotClose(s) \/ AskAtOnce(s)
         \/ DNSParseConnectCallback(s) \/ DropLookup(s)
  PROVE  TInv'
<1>1. \E n \in StepNames :
        /\ At(Net, n, s)
        /\ \/ Replace(Net, <<>>)
           \/ \E m \in CalmSteps : Replace(Net, << <<m, s>> >>)
  <2>1. CASE CloseCallback(s)
    BY <2>1 DEF CloseCallback, StepNames, CalmSteps
  <2> QED BY <2>1 DEF CannotClose, AskAtOnce, DNSParseConnectCallback, Answer,
                      DropLookup, EndLookup, Done, StepNames, CalmSteps
<1>2. Net \in Threads
  BY DEF Threads
<1>3. \/ Pushes(Net, <<>>)
      \/ \E n \in CalmSteps, r \in Sessions : Pushes(Net, << <<n, r>> >>)
  BY <1>1, <1>2, ReplacePushes
<1>4. UNCHANGED <<queueVars, deletes, connects, deaths, deathsDeal, lookups>>
  BY DEF CloseCallback, CannotClose, AskAtOnce, DNSParseConnectCallback, Answer,
         DropLookup, EndLookup, timerVars
<1>5. Plain'
  <2>1. CASE CloseCallback(s)
    BY <2>1 DEF CloseCallback, TInv, Plain, timerVars, queueVars
  <2>2. CASE CannotClose(s) \/ AskAtOnce(s)
    BY <2>2 DEF CannotClose, AskAtOnce, TInv, Plain, timerVars, queueVars
  <2>3. CASE DNSParseConnectCallback(s)
    BY <2>3 DEF DNSParseConnectCallback, Answer, TInv, Plain, timerVars, queueVars
  <2>4. CASE DropLookup(s)
    BY <2>4, RefTypes DEF DropLookup, EndLookup, TInv, Plain, timerVars, queueVars
  <2> QED BY <2>1, <2>2, <2>3, <2>4
<1>6. \A r \in Sessions : lookups'[r] <= lookups[r]
  BY <1>4 DEF TInv, Plain
<1> QED BY <1>2, <1>3, <1>4, <1>5, <1>6, QuietTurn

LEMMA EventTurns ==
  ASSUME TInv, NEW s \in Sessions, Remote(s) \/ LookupAnswered(s) \/ OnTimer(s)
  PROVE  TInv'
<1>1. \E a \in {Net, Timer}, n \in CalmSteps :
        Idle(a) /\ todo' = [todo EXCEPT ![a] = << <<n, s>> >>]
  BY DEF Remote, LookupAnswered, OnTimer, CalmSteps
<1>2. PICK a \in {Net, Timer}, n \in CalmSteps :
        Idle(a) /\ todo' = [todo EXCEPT ![a] = << <<n, s>> >>]
  BY <1>1
<1>3. a \in Threads /\ n \in StepNames
  BY DEF Threads, CalmSteps, StepNames
<1>4. Pushes(a, << <<n, s>> >>)
  BY <1>2, <1>3, Short, IdlePushes
<1>5. UNCHANGED <<queueVars, deletes, connects, deaths, deathsDeal>>
  BY DEF Remote, LookupAnswered, OnTimer, timerVars
<1>6. Plain'
  <2>1. CASE Remote(s)
    BY <2>1 DEF Remote, TInv, Plain, timerVars, queueVars
  <2>2. CASE LookupAnswered(s)
    <3>1. lookups' \in [Sessions -> Nat]
      BY <2>2 DEF LookupAnswered, TInv, Plain
    <3> QED BY <2>2, <3>1 DEF LookupAnswered, TInv, Plain, timerVars, queueVars
  <2>3. CASE OnTimer(s)
    BY <2>3 DEF OnTimer, TInv, Plain, queueVars
  <2> QED BY <2>1, <2>2, <2>3
<1>7. \A r \in Sessions : lookups'[r] <= lookups[r]
  <2>1. lookups' = lookups \/ lookups' = [lookups EXCEPT ![s] = @ - 1]
    BY DEF Remote, LookupAnswered, OnTimer
  <2>2. lookups \in [Sessions -> Nat]
    BY DEF TInv, Plain
  <2>3. ASSUME NEW r \in Sessions PROVE lookups'[r] <= lookups[r]
    <3>1. lookups[r] \in Nat /\ lookups'[r] \in {lookups[r], lookups[r] - 1}
      BY <2>1, <2>2
    <3> QED BY <3>1
  <2> QED BY <2>3
<1> QED BY <1>3, <1>4, <1>5, <1>6, <1>7, QuietTurn

LEMMA DelToTimerTurn ==
  ASSUME TInv, NEW s \in Sessions, DelToTimer(s)
  PROVE  TInv'
<1>1. Net \in Threads /\ Pushes(Net, <<>>) /\ Before(Net, <<"unlist", s>>)
  BY ReplacePushes DEF DelToTimer, Done, At, Before, Threads
<1>2. UNCHANGED <<queueVars, deletes, connects, deathsDeal, lookups>>
  BY DEF DelToTimer
<1>3. Plain'
  <2>1. deaths' \in [Sessions -> Nat]
    BY DEF DelToTimer, TInv, Plain
  <2> QED BY <2>1, RefTypes DEF DelToTimer, TInv, Plain, queueVars
<1>4. deaths' = [deaths EXCEPT ![s] = @ + 1]
  BY DEF DelToTimer
<1>5. ASSUME NEW r \in Sessions
      PROVE  /\ deaths'[r] + deathsDeal'[r]
                  <= deaths[r] + deathsDeal[r] + Unit(Net = Net /\ Before(Net, <<"unlist", r>>))
             /\ lookups'[r] <= lookups[r] + Unit(Net = Net /\ Before(Net, <<"ask", r>>))
  <2>1. /\ lookups[r] \in Nat /\ deaths[r] \in Nat /\ deathsDeal[r] \in Nat
        /\ deaths'[r] = IF r = s THEN deaths[r] + 1 ELSE deaths[r]
    BY <1>4, <1>5 DEF TInv, Plain
  <2>2. r = s => Unit(Net = Net /\ Before(Net, <<"unlist", r>>)) = 1
    BY <1>1 DEF Unit
  <2>3. Unit(Net = Net /\ Before(Net, <<"unlist", r>>)) \in Nat
        /\ Unit(Net = Net /\ Before(Net, <<"ask", r>>)) \in Nat
    BY DEF Unit
  <2> QED BY <1>2, <2>1, <2>2, <2>3
<1> QED BY <1>1, <1>2, <1>3, <1>5, CalmTurn

LEMMA AskLaterTurn ==
  ASSUME TInv, NEW s \in Sessions, AskLater(s)
  PROVE  TInv'
<1>1. Net \in Threads /\ Pushes(Net, <<>>) /\ Before(Net, <<"ask", s>>)
  BY ReplacePushes DEF AskLater, Ask, Done, At, Before, Threads
<1>2. UNCHANGED <<queueVars, deletes, connects, deaths, deathsDeal>>
  BY DEF AskLater, Ask, timerVars
<1>3. Plain'
  <2>1. lookups' \in [Sessions -> Nat]
    BY DEF AskLater, Ask, TInv, Plain
  <2> QED BY <2>1, RefTypes DEF AskLater, Ask, TInv, Plain, queueVars, timerVars
<1>4. lookups' = [lookups EXCEPT ![s] = @ + 1]
  BY DEF AskLater, Ask
<1>5. ASSUME NEW r \in Sessions
      PROVE  /\ deaths'[r] + deathsDeal'[r]
                  <= deaths[r] + deathsDeal[r] + Unit(Net = Net /\ Before(Net, <<"unlist", r>>))
             /\ lookups'[r] <= lookups[r] + Unit(Net = Net /\ Before(Net, <<"ask", r>>))
  <2>1. /\ lookups[r] \in Nat /\ deaths[r] \in Nat /\ deathsDeal[r] \in Nat
        /\ lookups'[r] = IF r = s THEN lookups[r] + 1 ELSE lookups[r]
    BY <1>4, <1>5 DEF TInv, Plain
  <2>2. r = s => Unit(Net = Net /\ Before(Net, <<"ask", r>>)) = 1
    BY <1>1 DEF Unit
  <2>3. Unit(Net = Net /\ Before(Net, <<"unlist", r>>)) \in Nat
        /\ Unit(Net = Net /\ Before(Net, <<"ask", r>>)) \in Nat
    BY DEF Unit
  <2> QED BY <1>2, <2>1, <2>2, <2>3
<1> QED BY <1>1, <1>2, <1>3, <1>5, CalmTurn

-----------------------------------------------------------------------------
(* Steps that leave every stack as it is.                                  *)
LEMMA ListTurn ==
  ASSUME TInv, Plain', UNCHANGED <<todo, queueVars, deletes, connects, lookups>>,
         \A s \in Sessions : deaths'[s] + deathsDeal'[s] <= deaths[s] + deathsDeal[s]
  PROVE  TInv'
<1>1. Stacks' /\ \A s \in Sessions : HandedOnce(s)'
  BY DEF TInv, Stacks, HandedOnce, At, queueVars
<1>2. ASSUME NEW s \in Sessions PROVE Tallied(s)'
  <2>1. \A step, item : Owed(step, item, s)' = Owed(step, item, s)
    BY DEF Owed, Running, queueVars
  <2>2. Owed("unlist", "delete", s) \in Nat
    BY <1>2, OwedType DEF TInv
  <2>3. /\ deaths[s] \in Nat /\ deathsDeal[s] \in Nat
        /\ deaths'[s] \in Nat /\ deathsDeal'[s] \in Nat
    BY <1>2 DEF TInv, Plain
  <2>4. deletes[s] \in Nat
    <3>1. deletes[s] \in 0 .. MaxDeletes /\ MaxDeletes \in Nat
      BY <1>2, LifetimeAssumption DEF TInv, Plain
    <3> QED BY <3>1
  <2>5. Tallied(s) /\ deaths'[s] + deathsDeal'[s] <= deaths[s] + deathsDeal[s]
    BY <1>2 DEF TInv
  <2>6. deaths'[s] + deathsDeal'[s] + Owed("unlist", "delete", s) <= deletes[s]
    BY <2>2, <2>3, <2>4, <2>5 DEF Tallied
  <2> QED BY <2>1, <2>5, <2>6 DEF Tallied
<1> QED BY <1>1, <1>2 DEF TInv

LEMMA TimerTurns ==
  ASSUME TInv, TimerSwap \/ \E s \in Sessions : TimerClearsDeath(s) \/ Create(s)
  PROVE  TInv'
<1>0. /\ deaths \in [Sessions -> Nat] /\ deathsDeal \in [Sessions -> Nat]
  BY DEF TInv, Plain
<1>1. CASE TimerSwap
  <2>1. UNCHANGED <<todo, queueVars, deletes, connects, lookups>>
    BY <1>1 DEF TimerSwap, TimerRound
  <2>2. deathsDeal = Each(0) /\ deathsDeal' = deaths /\ deaths' = Each(0)
    BY <1>1 DEF TimerSwap, TimerRound
  <2>3. ASSUME NEW s \in Sessions
        PROVE  deaths'[s] + deathsDeal'[s] <= deaths[s] + deathsDeal[s]
    BY <1>0, <2>2, <2>3 DEF Each
  <2>4. Plain'
    <3>1. deathsDeal' \in [Sessions -> Nat] /\ deaths' \in [Sessions -> Nat]
      BY <1>0, <2>2 DEF Each
    <3> QED BY <1>1, <3>1 DEF TimerSwap, TimerRound, TInv, Plain, queueVars
  <2> QED BY <2>1, <2>3, <2>4, ListTurn
<1>2. ASSUME NEW s \in Sessions, TimerClearsDeath(s) PROVE TInv'
  <2>1. UNCHANGED <<todo, queueVars, deletes, connects, lookups>>
    BY <1>2 DEF TimerClearsDeath
  <2>2. deathsDeal[s] > 0 /\ deathsDeal' = [deathsDeal EXCEPT ![s] = @ - 1] /\ deaths' = deaths
    BY <1>2 DEF TimerClearsDeath
  <2>3. ASSUME NEW r \in Sessions
        PROVE  deaths'[r] + deathsDeal'[r] <= deaths[r] + deathsDeal[r]
    <3>1. deathsDeal'[r] \in {deathsDeal[r], deathsDeal[r] - 1} /\ deathsDeal[r] \in Nat
          /\ deaths'[r] = deaths[r] /\ deaths[r] \in Nat
      BY <1>0, <2>2
    <3> QED BY <3>1
  <2>4. Plain'
    <3>1. deathsDeal' \in [Sessions -> Nat]
      BY <1>0, <2>2
    <3> QED BY <1>2, <3>1, RefTypes DEF TimerClearsDeath, TInv, Plain, queueVars
  <2> QED BY <2>1, <2>3, <2>4, ListTurn
<1>3. ASSUME NEW s \in Sessions, Create(s) PROVE TInv'
  <2>1. UNCHANGED <<todo, queueVars, deletes, connects, lookups, deaths, deathsDeal>>
    BY <1>3 DEF Create
  <2>2. Plain'
    BY <1>3 DEF Create, TInv, Plain, queueVars
  <2>3. ASSUME NEW r \in Sessions
        PROVE  deaths'[r] + deathsDeal'[r] <= deaths[r] + deathsDeal[r]
    <3>1. deathsDeal[r] \in Nat /\ deaths[r] \in Nat
      BY <1>0
    <3> QED BY <2>1, <3>1
  <2> QED BY <2>1, <2>2, <2>3, ListTurn
<1> QED BY <1>1, <1>2, <1>3

(* A step that leaves what is owed to each session as it is.               *)
LEMMA SameOwed ==
  ASSUME TInv, Plain', Stacks', UNCHANGED <<deletes, connects, deaths, deathsDeal, lookups>>,
         \A s \in Sessions :
           /\ HandedOnce(s)'
           /\ Owed("unlist", "delete", s)' = Owed("unlist", "delete", s)
           /\ Owed("ask", "lookup", s)' = Owed("ask", "lookup", s)
  PROVE  TInv'
BY DEF TInv, Tallied

LEMMA ServeTurns ==
  ASSUME TInv, NEW s \in Sessions, ServeSocket(s) \/ EndSocket(s)
  PROVE  TInv'
<1>0. None \notin Sessions /\ Plain /\ Stacks
  BY LifetimeAssumption DEF TInv
<1>1. CASE ServeSocket(s)
  <2>1. /\ serving = None /\ queued[s] > 0 /\ queued' = [queued EXCEPT ![s] = @ - 1]
        /\ serving' = s /\ batch' = items[s] /\ items' = [items EXCEPT ![s] = <<>>]
        /\ todo' = todo
        /\ UNCHANGED <<deletes, connects, deaths, deathsDeal, lookups>>
    BY <1>1 DEF ServeSocket, timerVars
  <2>2. queued' \in [Sessions -> 0 .. 1] /\ queued'[s] = 0
    BY <1>0, <2>1 DEF Plain
  <2>3. items' \in [Sessions -> Seq(Items)] /\ batch' \in Seq(Items)
    BY <1>0, <2>1, EmptySeq DEF Plain
  <2>4. Plain'
    BY <1>0, <1>1, <2>2, <2>3 DEF ServeSocket, Plain, timerVars
  <2>5. ASSUME NEW r \in Sessions PROVE HandedOnce(r)'
    <3>1. HandedOnce(r)
      BY DEF TInv
    <3>2. CASE r = s
      <4>1. \A a \in Threads : ~At(a, "register", s)
        BY <1>0, <2>1, <3>1, <3>2 DEF HandedOnce, Plain
      <4> QED BY <2>1, <2>2, <3>2, <4>1 DEF HandedOnce, At
    <3>3. CASE r # s
      <4>1. queued'[r] = queued[r] /\ items'[r] = items[r]
        BY <1>0, <2>1, <3>3 DEF Plain
      <4> QED BY <2>1, <3>1, <4>1 DEF HandedOnce, At
    <3> QED BY <3>2, <3>3
  <2>6. ASSUME NEW r \in Sessions, NEW step, NEW item
        PROVE  Owed(step, item, r)' = Owed(step, item, r)
    <3>1. Running(item, r) = 0
      BY <1>0, <2>1 DEF Running
    <3>2. Count(items[r], item) \in Nat /\ Count(todo[Net], <<step, r>>) \in Nat
      BY <1>0, OwedType
    <3>3. CASE r = s
      <4>1. items'[r] = <<>> /\ Running(item, r)' = Count(items[r], item)
        BY <1>0, <2>1, <3>3 DEF Plain, Running
      <4>2. Count(items'[r], item) = 0
        BY <4>1, CountNone
      <4> QED BY <2>1, <3>1, <3>2, <4>1, <4>2 DEF Owed
    <3>4. CASE r # s
      <4>1. items'[r] = items[r] /\ Running(item, r)' = 0
        BY <1>0, <2>1, <3>4 DEF Plain, Running
      <4> QED BY <2>1, <3>1, <4>1 DEF Owed
    <3> QED BY <3>3, <3>4
  <2>7. Stacks'
    BY <1>0, <2>1 DEF Stacks
  <2> QED BY <2>1, <2>4, <2>5, <2>6, <2>7, SameOwed
<1>2. CASE EndSocket(s)
  <2>1. /\ serving = s /\ serving' = None /\ batch = <<>>
        /\ UNCHANGED <<items, queued, batch, todo>>
        /\ UNCHANGED <<deletes, connects, deaths, deathsDeal, lookups>>
    BY <1>2 DEF EndSocket, LeaveSocket, timerVars
  <2>2. Plain'
    BY <1>0, <1>2, <2>1, RefTypes DEF EndSocket, LeaveSocket, Plain, timerVars
  <2>3. Stacks' /\ \A r \in Sessions : HandedOnce(r)'
    BY <2>1 DEF TInv, Stacks, HandedOnce, At
  <2>4. \A r \in Sessions : \A item : Running(item, r) = 0 /\ Running(item, r)' = 0
    BY <1>0, <2>1, CountNone DEF Running
  <2>5. \A r \in Sessions : \A step, item : Owed(step, item, r)' = Owed(step, item, r)
    BY <2>1, <2>4 DEF Owed
  <2> QED BY <2>1, <2>2, <2>3, <2>5, SameOwed
<1> QED BY <1>1, <1>2

(* A stack loses no step that is owed if none is owed before it.           *)
LEMMA SameStack ==
  ASSUME Stacks, NEW a \in Threads, NEW p \in Seq(Pending), Below(p), Pushes(a, p),
         NEW x, ~Before(a, x)
  PROVE  Count(todo'[Net], x) = IF a = Net THEN Count(p, x) + Count(todo[Net], x)
                                ELSE Count(todo[Net], x)
<1>1. /\ \A b \in Threads \ {a} : todo'[b] = todo[b]
      /\ Count(todo'[a], x) + Unit(Before(a, x)) = Count(p, x) + Count(todo[a], x)
      /\ Stacks'
  BY StackPushed
<1>2. Unit(Before(a, x)) = 0 /\ Net \in Threads
  BY DEF Unit, Threads
<1>3. Count(todo'[a], x) \in Nat
  <2>1. todo'[a] \in Seq(Pending)
    BY <1>1 DEF Stacks
  <2> QED BY <2>1, CountType
<1> QED BY <1>1, <1>2, <1>3

LEMMA RegisterTurn ==
  ASSUME TInv, NEW a \in Threads, NEW s \in Sessions, Register(a, s)
  PROVE  TInv'
<1>0. Plain /\ Stacks
  BY DEF TInv
<1>1. /\ At(a, "register", s) /\ Pushes(a, <<>>)
      /\ queued' = [queued EXCEPT ![s] = @ + 1]
      /\ UNCHANGED <<items, serving, batch>>
      /\ UNCHANGED <<deletes, connects, deaths, deathsDeal, lookups>>
  BY ReplacePushes DEF Register, HandOver, Done, timerVars
<1>2. HandedOnce(s)
  BY DEF TInv
<1>3. queued[s] = 0 /\ items[s] # <<>>
  BY <1>1, <1>2 DEF HandedOnce
<1>4. queued' \in [Sessions -> 0 .. 1]
  BY <1>0, <1>1, <1>3 DEF Plain
<1>5. Plain'
  BY <1>0, <1>4, RefTypes DEF Register, HandOver, Plain, timerVars
<1>6. /\ Stacks' /\ \A r : ~At(a, "register", r)'
      /\ \A b \in Threads \ {a} : todo'[b] = todo[b]
  BY <1>0, <1>1, Short, StackPushed
<1>7. ASSUME NEW r \in Sessions PROVE HandedOnce(r)'
  <2>1. HandedOnce(r) /\ items' = items
    BY <1>1 DEF TInv
  <2>2. \A b \in Threads : At(b, "register", r)' => b # a /\ At(b, "register", r)
    BY <1>6 DEF At
  <2>3. CASE r = s
    <3>1. \A b \in Threads : ~At(b, "register", r)'
      BY <1>1, <1>2, <2>2, <2>3 DEF HandedOnce
    <3> QED BY <1>3, <2>1, <2>3, <3>1 DEF HandedOnce
  <2>4. CASE r # s
    <3>1. queued'[r] = queued[r]
      BY <1>0, <1>1, <2>4 DEF Plain
    <3> QED BY <2>1, <2>2, <3>1 DEF HandedOnce
  <2> QED BY <2>3, <2>4
<1>8. ASSUME NEW r \in Sessions, NEW step \in {"unlist", "ask"}, NEW item
      PROVE  Owed(step, item, r)' = Owed(step, item, r)
  <2>1. ~Before(a, <<step, r>>)
    BY <1>1 DEF At, Before
  <2>2. Count(todo[Net], <<step, r>>) \in Nat
    BY <1>0, OwedType
  <2>3. Count(todo'[Net], <<step, r>>) = Count(todo[Net], <<step, r>>)
    <3>1. Count(<<>>, <<step, r>>) = 0
      BY CountNone
    <3>2. Count(todo'[Net], <<step, r>>)
            = IF a = Net THEN Count(<<>>, <<step, r>>) + Count(todo[Net], <<step, r>>)
              ELSE Count(todo[Net], <<step, r>>)
      BY <1>0, <1>1, <2>1, Short, SameStack
    <3> QED BY <2>2, <3>1, <3>2
  <2> QED BY <1>1, <2>3 DEF Owed, Running
<1> QED BY <1>1, <1>5, <1>6, <1>7, <1>8, SameOwed

LEMMA CountTwo ==
  ASSUME NEW S, NEW d \in S, NEW e \in S, NEW x
  PROVE  Count(<<d, e>>, x) = Unit(d = x) + Unit(e = x)
<1> DEFINE q == <<d, e>>
           t == Tail(q)
<1>1. /\ q \in Seq(S) /\ q # <<>> /\ Head(q) = d
      /\ t \in Seq(S) /\ Len(t) = 1 /\ t[1] = e
  OBVIOUS
<1>2. <<e>> \in Seq(S) /\ Len(<<e>>) = 1 /\ <<e>>[1] = e
  OBVIOUS
<1>3. t = <<e>>
  <2> HIDE DEF t
  <2> QED BY <1>1, <1>2, SeqEqual
<1>4. Count(t, x) = Unit(e = x)
  BY <1>3, CountOne
<1> HIDE DEF q
<1>5. Count(q, x) = Unit(d = x) + Count(t, x)
  BY <1>1, CountFirst
<1> QED BY <1>4, <1>5 DEF q

(* What a queued call becomes on the network thread.                       *)
LEMMA WorkCounts ==
  ASSUME NEW item \in Items, NEW s \in Sessions
  PROVE  /\ Work(item, s) \in Seq(Pending) /\ Below(Work(item, s))
         /\ Work(item, s) # <<>> => Head(Work(item, s))[1] # "register"
         /\ \A r : /\ Count(Work(item, s), <<"unlist", r>>) = Unit(item = "delete" /\ r = s)
                   /\ Count(Work(item, s), <<"ask", r>>) = Unit(item = "lookup" /\ r = s)
<1>1. CASE item = "close"
  <2>1. Work(item, s) = << <<"tryClose", s>> >>
    BY <1>1 DEF Work
  <2>2. \A x : Count(Work(item, s), x) = Unit(<<"tryClose", s>> = x)
    BY <2>1, CountOne
  <2>3. /\ Work(item, s) \in Seq(Pending) /\ Below(Work(item, s))
        /\ Head(Work(item, s))[1] = "tryClose"
    BY <2>1, Short DEF StepNames
  <2> QED BY <1>1, <2>2, <2>3 DEF Unit
<1>2. CASE item = "lookup"
  <2>1. Work(item, s) = << <<"ask", s>> >>
    BY <1>2 DEF Work
  <2>2. \A x : Count(Work(item, s), x) = Unit(<<"ask", s>> = x)
    BY <2>1, CountOne
  <2>3. /\ Work(item, s) \in Seq(Pending) /\ Below(Work(item, s))
        /\ Head(Work(item, s))[1] = "ask"
    BY <2>1, Short DEF StepNames
  <2> QED BY <1>2, <2>2, <2>3 DEF Unit
<1>3. CASE item = "init"
  <2>1. Work(item, s) = <<>>
    BY <1>3 DEF Work
  <2> QED BY <1>3, <2>1, Short DEF Unit
<1>4. CASE item = "delete"
  <2>1. Work(item, s) = << <<"close", s>>, <<"unlist", s>> >>
    BY <1>4 DEF Work
  <2>2. <<"close", s>> \in Pending /\ <<"unlist", s>> \in Pending
    BY DEF Pending, StepNames
  <2>3. \A x : Count(Work(item, s), x) = Unit(<<"close", s>> = x) + Unit(<<"unlist", s>> = x)
    BY <2>1, <2>2, CountTwo
  <2>4. /\ Work(item, s) \in Seq(Pending) /\ Below(Work(item, s))
        /\ Head(Work(item, s))[1] = "close"
    BY <2>1 DEF Pending, StepNames, Below
  <2> QED BY <1>4, <2>3, <2>4 DEF Unit
<1> QED BY <1>1, <1>2, <1>3, <1>4 DEF Items

LEMMA CallItemTurn ==
  ASSUME TInv, NEW s \in Sessions, CallItem(s)
  PROVE  TInv'
<1> DEFINE head == Head(batch)
           p == Work(head, s)
<1>0. Plain /\ Stacks /\ Net \in Threads /\ None \notin Sessions
  BY LifetimeAssumption DEF TInv, Threads
<1>1. /\ serving = s /\ Idle(Net) /\ batch # <<>>
      /\ todo' = [todo EXCEPT ![Net] = p] /\ batch' = Tail(batch)
      /\ UNCHANGED <<items, queued, serving>>
      /\ UNCHANGED <<deletes, connects, deaths, deathsDeal, lookups>>
  BY DEF CallItem, timerVars
<1>2. /\ batch \in Seq(Items) /\ head \in Items /\ batch' \in Seq(Items)
      /\ \A x : Count(batch, x) = Unit(head = x) + Count(batch', x)
  <2>1. batch \in Seq(Items) /\ batch # <<>>
    BY <1>0, <1>1 DEF Plain
  <2> QED BY <1>1, <2>1, HeadTailProperties, CountFirst
<1> HIDE DEF head
<1>3. /\ p \in Seq(Pending) /\ Below(p)
      /\ p # <<>> => Head(p)[1] # "register"
      /\ \A r : /\ Count(p, <<"unlist", r>>) = Unit(head = "delete" /\ r = s)
                /\ Count(p, <<"ask", r>>) = Unit(head = "lookup" /\ r = s)
  BY <1>2, WorkCounts
<1> HIDE DEF p
<1>4. Pushes(Net, p)
  BY <1>0, <1>1, <1>3, IdlePushes
<1>5. Plain'
  BY <1>0, <1>2 DEF CallItem, Plain, timerVars
<1>6. /\ Stacks' /\ \A r : ~At(Net, "register", r)'
      /\ \A b \in Threads \ {Net} : todo'[b] = todo[b]
  <2>1. \A r : Head(p) = <<"register", r>> => Head(p)[1] = "register"
    OBVIOUS
  <2> QED BY <1>0, <1>3, <1>4, <2>1, StackPushed
<1>7. ASSUME NEW r \in Sessions PROVE HandedOnce(r)'
  <2>1. \A b \in Threads : At(b, "register", r)' => At(b, "register", r)
    BY <1>6 DEF At
  <2> QED BY <1>1, <2>1 DEF TInv, HandedOnce
<1>8. ASSUME NEW r \in Sessions, NEW step \in {"unlist", "ask"}, NEW item,
             Count(p, <<step, r>>) = Unit(head = item /\ r = s)
      PROVE  Owed(step, item, r)' = Owed(step, item, r)
  <2> DEFINE c == Count(todo[Net], <<step, r>>)
             u == Unit(head = item /\ r = s)
  <2>1. ~Before(Net, <<step, r>>)
    BY <1>1 DEF Idle, Before
  <2>2. Count(todo'[Net], <<step, r>>) = u + c
    BY <1>0, <1>3, <1>4, <1>8, <2>1, SameStack
  <2>3. /\ c \in Nat /\ u \in Nat /\ Count(items[r], item) \in Nat
        /\ Count(batch, item) \in Nat /\ Count(batch', item) \in Nat
    BY <1>0, <1>2, OwedType, CountType DEF Unit
  <2>4. Running(item, r) = u + Running(item, r)' /\ Running(item, r)' \in Nat
    <3>1. CASE r = s
      BY <1>1, <1>2, <2>3, <3>1 DEF Running, Unit
    <3>2. CASE r # s
      BY <1>1, <3>2 DEF Running, Unit
    <3> QED BY <3>1, <3>2
  <2>5. items' = items
    BY <1>1
  <2> HIDE DEF c, u
  <2> QED BY <2>2, <2>3, <2>4, <2>5 DEF Owed, c
<1>9. \A r \in Sessions :
        /\ Owed("unlist", "delete", r)' = Owed("unlist", "delete", r)
        /\ Owed("ask", "lookup", r)' = Owed("ask", "lookup", r)
  BY <1>3, <1>8
<1> QED BY <1>1, <1>5, <1>6, <1>7, <1>9, SameOwed

(* A stack without the step that registers.                                *)
Bare(q) == \A i \in 1 .. Len(q) : q[i][1] # "register"

LEMMA BareParts ==
  ASSUME NEW q \in Seq(Pending)
  PROVE  Bare(q) <=> Below(q) /\ (q # <<>> => Head(q)[1] # "register")
<1>1. Len(q) \in Nat /\ (q # <<>> => Len(q) > 0 /\ Head(q) = q[1])
  BY EmptySeq
<1>2. q = <<>> => Len(q) = 0
  OBVIOUS
<1>3. ASSUME Bare(q) PROVE Below(q) /\ (q # <<>> => Head(q)[1] # "register")
  BY <1>1, <1>3 DEF Bare, Below
<1>4. ASSUME Below(q), q # <<>> => Head(q)[1] # "register" PROVE Bare(q)
  <2>1. ASSUME NEW i \in 1 .. Len(q) PROVE q[i][1] # "register"
    <3>1. q # <<>>
      BY <1>2, <2>1
    <3>2. CASE i = 1
      BY <1>1, <1>4, <3>1, <3>2
    <3>3. CASE i # 1
      BY <1>1, <1>4, <3>3 DEF Below
    <3> QED BY <3>2, <3>3
  <2> QED BY <2>1 DEF Bare
<1> QED BY <1>3, <1>4

LEMMA BareJoin ==
  ASSUME NEW p \in Seq(Pending), NEW q \in Seq(Pending), Bare(q)
  PROVE  /\ p \o q \in Seq(Pending)
         /\ Bare(p) => Bare(p \o q)
         /\ Len(p) = 1 => Below(p \o q) /\ Head(p \o q) = Head(p)
<1> DEFINE t == p \o q
<1>1. /\ t \in Seq(Pending) /\ Len(t) = Len(p) + Len(q)
      /\ \A i \in 1 .. Len(p) + Len(q) :
           t[i] = IF i <= Len(p) THEN p[i] ELSE q[i - Len(p)]
      /\ Len(p) \in Nat /\ Len(q) \in Nat
  BY ConcatProperties
<1> HIDE DEF t
<1>2. ASSUME NEW i \in 1 .. Len(t), i > Len(p) PROVE t[i][1] # "register"
  <2>1. i - Len(p) \in 1 .. Len(q) /\ t[i] = q[i - Len(p)]
    BY <1>1, <1>2
  <2> QED BY <2>1 DEF Bare
<1>3. ASSUME Bare(p) PROVE Bare(t)
  <2>1. ASSUME NEW i \in 1 .. Len(t) PROVE t[i][1] # "register"
    <3>1. CASE i > Len(p)
      BY <1>2, <3>1
    <3>2. CASE ~(i > Len(p))
      <4>1. i \in 1 .. Len(p) /\ t[i] = p[i]
        BY <1>1, <3>2
      <4> QED BY <1>3, <4>1 DEF Bare
    <3> QED BY <3>1, <3>2
  <2> QED BY <2>1 DEF Bare
<1>4. ASSUME Len(p) = 1 PROVE Below(t) /\ Head(t) = Head(p)
  <2>1. Below(t)
    BY <1>1, <1>2, <1>4 DEF Below
  <2>2. t[1] = p[1] /\ t # <<>>
    BY <1>1, <1>4
  <2> QED BY <1>1, <1>4, <2>1, <2>2
<1> QED BY <1>1, <1>3, <1>4 DEF t

(* A step that lets more be owed, for calls it counts.                     *)
LEMMA PaidTurn ==
  ASSUME TInv, Plain', Stacks', UNCHANGED <<deaths, deathsDeal, lookups>>,
         \A s \in Sessions :
           /\ HandedOnce(s)'
           /\ \E n \in Nat : /\ Owed("unlist", "delete", s)' = Owed("unlist", "delete", s) + n
                             /\ deletes'[s] >= deletes[s] + n
           /\ \E n \in Nat : /\ Owed("ask", "lookup", s)' = Owed("ask", "lookup", s) + n
                             /\ connects'[s] >= connects[s] + n
  PROVE  TInv'
<1>1. ASSUME NEW s \in Sessions PROVE Tallied(s)'
  <2>1. Tallied(s)
    BY DEF TInv
  <2>2. /\ Owed("unlist", "delete", s) \in Nat /\ Owed("ask", "lookup", s) \in Nat
    BY OwedType DEF TInv
  <2>3. /\ deaths[s] \in Nat /\ deathsDeal[s] \in Nat /\ lookups[s] \in Nat
        /\ deletes[s] \in Int /\ connects[s] \in Int
        /\ deletes'[s] \in Int /\ connects'[s] \in Int
    BY LifetimeAssumption DEF TInv, Plain
  <2>4. PICK n \in Nat : /\ Owed("unlist", "delete", s)' = Owed("unlist", "delete", s) + n
                         /\ deletes'[s] >= deletes[s] + n
    OBVIOUS
  <2>5. PICK m \in Nat : /\ Owed("ask", "lookup", s)' = Owed("ask", "lookup", s) + m
                         /\ connects'[s] >= connects[s] + m
    OBVIOUS
  <2>6. deaths[s] + deathsDeal[s] + Owed("unlist", "delete", s)' <= deletes'[s]
    BY <2>1, <2>2, <2>3, <2>4 DEF Tallied
  <2>7. lookups[s] + Owed("ask", "lookup", s)' <= connects'[s]
    BY <2>1, <2>2, <2>3, <2>5 DEF Tallied
  <2> QED BY <2>6, <2>7 DEF Tallied
<1> QED BY <1>1 DEF TInv

(* What a call leaves to do after its event is set.                        *)
Harmless(after) ==
  /\ after \in Seq(Pending) /\ Bare(after)
  /\ \A r \in Sessions : /\ Count(after, <<"unlist", r>>) = 0
                         /\ Count(after, <<"ask", r>>) = 0

(* A thread may call: it does nothing, or runs a callback.                 *)
Calling(a) == todo[a] # <<>> => Head(todo[a])[1] = "callback"

(* What is owed to a session after a call to session s of one sort.        *)
Charged(s, item) ==
  \A r \in Sessions :
    /\ HandedOnce(r)'
    /\ Owed("unlist", "delete", r)'
         = Owed("unlist", "delete", r) + Unit(item = "delete" /\ r = s)
    /\ Owed("ask", "lookup", r)'
         = Owed("ask", "lookup", r) + Unit(item = "lookup" /\ r = s)

LEMMA NotOwed ==
  ASSUME NEW a \in Threads, Calling(a)
  PROVE  /\ \A r : ~Before(a, <<"unlist", r>>) /\ ~Before(a, <<"ask", r>>)
         /\ \A r : ~At(a, "register", r)
BY DEF Calling, Before, At

LEMMA OwnPost ==
  ASSUME TInv, NEW s \in Sessions, NEW item \in Items, NEW after, Harmless(after),
         Calling(Net), SetLibEvent(Net, s, item, Beneath(Net), after)
  PROVE  Stacks' /\ Charged(s, item)
<1> DEFINE w == Work(item, s)
           p == w \o after
<1>0. Plain /\ Stacks /\ Net \in Threads
  BY DEF TInv, Threads
<1>1. todo' = [todo EXCEPT ![Net] = p \o Beneath(Net)] /\ UNCHANGED queueVars
  BY DEF SetLibEvent, SetEventOf
<1>2. /\ w \in Seq(Pending) /\ Bare(w)
      /\ \A r : /\ Count(w, <<"unlist", r>>) = Unit(item = "delete" /\ r = s)
                /\ Count(w, <<"ask", r>>) = Unit(item = "lookup" /\ r = s)
  BY WorkCounts, BareParts
<1>3. \A x : Count(w \o after, x) = Count(w, x) + Count(after, x)
  BY <1>2, CountJoin DEF Harmless
<1>4. p \in Seq(Pending) /\ Bare(p)
  BY <1>2, BareJoin DEF Harmless
<1>5. Below(p) /\ (p # <<>> => Head(p)[1] # "register")
  BY <1>4, BareParts
<1>6. ASSUME NEW r \in Sessions
      PROVE  /\ Count(p, <<"unlist", r>>) = Unit(item = "delete" /\ r = s)
             /\ Count(p, <<"ask", r>>) = Unit(item = "lookup" /\ r = s)
  <2>1. /\ Count(p, <<"unlist", r>>) = Unit(item = "delete" /\ r = s) + 0
        /\ Count(p, <<"ask", r>>) = Unit(item = "lookup" /\ r = s) + 0
    BY <1>2, <1>3, <1>6 DEF Harmless
  <2>2. \A b : Unit(b) + 0 = Unit(b)
    BY DEF Unit
  <2> HIDE DEF p
  <2> QED BY <2>1, <2>2
<1> HIDE DEF p, w
<1>7. Pushes(Net, p)
  BY <1>1 DEF Pushes
<1>8. /\ Stacks' /\ \A r : ~At(Net, "register", r)'
      /\ \A b \in Threads \ {Net} : todo'[b] = todo[b]
  <2>1. \A r : Head(p) = <<"register", r>> => Head(p)[1] = "register"
    OBVIOUS
  <2> QED BY <1>0, <1>4, <1>5, <1>7, <2>1, StackPushed
<1>9. ASSUME NEW r \in Sessions PROVE HandedOnce(r)'
  <2>1. \A b \in Threads : At(b, "register", r)' => At(b, "register", r)
    BY <1>8 DEF At
  <2> QED BY <1>1, <2>1 DEF TInv, HandedOnce, queueVars
<1>10. ASSUME NEW r \in Sessions, NEW step \in {"unlist", "ask"}, NEW i
       PROVE  Owed(step, i, r)' = Owed(step, i, r) + Count(p, <<step, r>>)
  <2>1. ~Before(Net, <<step, r>>)
    BY <1>0, NotOwed
  <2>2. Count(todo'[Net], <<step, r>>) = Count(p, <<step, r>>) + Count(todo[Net], <<step, r>>)
    BY <1>0, <1>4, <1>5, <1>7, <2>1, SameStack
  <2>3. Count(items'[r], i) = Count(items[r], i) /\ Running(i, r)' = Running(i, r)
    BY <1>1 DEF queueVars, Running
  <2>4. /\ Count(todo[Net], <<step, r>>) \in Nat /\ Count(items[r], i) \in Nat
        /\ Running(i, r) \in Nat /\ Count(p, <<step, r>>) \in Nat
    BY <1>0, <1>4, OwedType, CountType
  <2> QED BY <2>2, <2>3, <2>4 DEF Owed
<1>11. \A r \in Sessions :
         /\ Owed("unlist", "delete", r)'
              = Owed("unlist", "delete", r) + Unit(item = "delete" /\ r = s)
         /\ Owed("ask", "lookup", r)'
              = Owed("ask", "lookup", r) + Unit(item = "lookup" /\ r = s)
  BY <1>6, <1>10
<1> QED BY <1>8, <1>9, <1>11 DEF Charged

LEMMA OtherPost ==
  ASSUME TInv, NEW a \in Threads, a # Net, NEW s \in Sessions, NEW item \in Items,
         NEW after, Harmless(after), Calling(a), SetLibEvent(a, s, item, Beneath(a), after)
  PROVE  Stacks' /\ Charged(s, item) /\ items' \in [Sessions -> Seq(Items)]
<1> DEFINE first == items[s] = <<>>
           g == IF first THEN << <<"register", s>> >> ELSE <<>>
           p == g \o after
<1>0. Plain /\ Stacks /\ Net \in Threads
  BY DEF TInv, Threads
<1>1. /\ todo' = [todo EXCEPT ![a] = p \o Beneath(a)]
      /\ items' = [items EXCEPT ![s] = Append(@, item)]
      /\ UNCHANGED <<queued, serving, batch>>
  BY DEF SetLibEvent, SetEventOf
<1>2. /\ p \in Seq(Pending) /\ Below(p)
      /\ first => Head(p) = <<"register", s>>
      /\ ~first /\ p # <<>> => Head(p)[1] # "register"
  <2>1. CASE first
    <3>1. g = << <<"register", s>> >>
      BY <2>1
    <3>2. g \in Seq(Pending) /\ Len(g) = 1 /\ Head(g) = <<"register", s>>
      <4>1. <<"register", s>> \in Pending
        BY DEF Pending, StepNames
      <4> HIDE DEF g, first
      <4> QED BY <3>1, <4>1
    <3> HIDE DEF g, first
    <3> QED BY <2>1, <3>2, BareJoin DEF Harmless
  <2>2. CASE ~first
    <3>1. g = <<>> /\ Bare(<<>>) /\ <<>> \in Seq(Pending)
      BY <2>2, EmptySeq DEF Bare
    <3> HIDE DEF g, first
    <3>2. p \in Seq(Pending) /\ Bare(p)
      BY <3>1, BareJoin DEF Harmless
    <3> QED BY <2>2, <3>2, BareParts
  <2> QED BY <2>1, <2>2
<1> HIDE DEF p, g
<1>3. Pushes(a, p)
  BY <1>1 DEF Pushes
<1>4. /\ Stacks'
      /\ \A r : At(a, "register", r)' => p # <<>> /\ Head(p) = <<"register", r>>
      /\ \A b \in Threads \ {a} : todo'[b] = todo[b]
  BY <1>0, <1>2, <1>3, StackPushed
<1>5. items \in [Sessions -> Seq(Items)]
  BY <1>0 DEF Plain
<1>6. /\ items' \in [Sessions -> Seq(Items)]
      /\ items'[s] = Append(items[s], item) /\ items'[s] # <<>>
      /\ \A r \in Sessions \ {s} : items'[r] = items[r]
  <2>1. items[s] \in Seq(Items)
    BY <1>5
  <2>2. Append(items[s], item) \in Seq(Items) /\ Append(items[s], item) # <<>>
    BY <2>1, AppendProperties, EmptySeq
  <2> QED BY <1>1, <1>5, <2>2
<1>7. ASSUME NEW r \in Sessions PROVE HandedOnce(r)'
  <2>1. HandedOnce(r) /\ queued'[r] = queued[r] /\ queued[r] \in 0 .. 1
    BY <1>0, <1>1 DEF TInv, Plain
  <2>2. \A b \in Threads \ {a} : At(b, "register", r)' => At(b, "register", r)
    BY <1>4 DEF At
  <2>3. At(a, "register", r)' => r = s /\ first
    <3>1. ASSUME At(a, "register", r)' PROVE r = s /\ first
      <4>1. p # <<>> /\ Head(p) = <<"register", r>> /\ Head(p)[1] = "register"
        BY <1>4, <3>1
      <4>2. first
        BY <1>2, <4>1
      <4> HIDE DEF first
      <4>3. <<"register", r>> = <<"register", s>>
        BY <1>2, <4>1, <4>2
      <4> QED BY <4>2, <4>3
    <3> QED BY <3>1
  <2>4. items[r] # <<>> => items'[r] # <<>>
    BY <1>6
  <2>5. CASE At(a, "register", r)'
    <3>1. queued[r] = 0 /\ \A b \in Threads : ~At(b, "register", r)
      BY <2>1, <2>3, <2>5 DEF HandedOnce
    <3> QED BY <1>6, <2>1, <2>2, <2>3, <2>5, <3>1 DEF HandedOnce
  <2>6. CASE ~At(a, "register", r)'
    BY <2>1, <2>2, <2>4, <2>6 DEF HandedOnce
  <2> QED BY <2>5, <2>6
<1>8. ASSUME NEW r \in Sessions, NEW step, NEW i
      PROVE  Owed(step, i, r)' = Owed(step, i, r) + Unit(item = i /\ r = s)
  <2>1. todo'[Net] = todo[Net] /\ Running(i, r)' = Running(i, r)
    BY <1>0, <1>1, <1>4 DEF Running
  <2>2. /\ Count(todo[Net], <<step, r>>) \in Nat /\ Count(items[r], i) \in Nat
        /\ Running(i, r) \in Nat
    BY <1>0, OwedType
  <2>3. Count(items'[r], i) = Count(items[r], i) + Unit(item = i /\ r = s)
    <3>1. CASE r = s
      <4>1. Count(Append(items[s], item), i) = Count(items[s], i) + Unit(item = i)
        BY <1>5, CountGrown
      <4> QED BY <1>6, <3>1, <4>1
    <3>2. CASE r # s
      BY <1>6, <2>2, <3>2 DEF Unit
    <3> QED BY <3>1, <3>2
  <2>4. Unit(item = i /\ r = s) \in Nat
    BY DEF Unit
  <2> QED BY <2>1, <2>2, <2>3, <2>4 DEF Owed
<1> QED BY <1>4, <1>6, <1>7, <1>8 DEF Charged

(* The event of a call, set at once or queued.                             *)
LEMMA PostTurn ==
  ASSUME TInv, NEW a \in Threads, NEW s \in Sessions, NEW item \in Items,
         NEW after, Harmless(after), Calling(a), SetLibEvent(a, s, item, Beneath(a), after)
  PROVE  /\ Stacks' /\ Charged(s, item) /\ items' \in [Sessions -> Seq(Items)]
         /\ UNCHANGED <<queued, serving, batch>>
         /\ posts' \in [Sessions -> 0 .. MaxPosts]
         /\ life' \in [Sessions -> {"none", "live", "freed"}]
         /\ refs' \in [Sessions -> Int]
<1>0. Plain
  BY DEF TInv
<1>1. UNCHANGED <<queued, serving, batch>>
  BY DEF SetLibEvent, SetEventOf, queueVars
<1>2. AddRef(s) \/ NoRef
  BY DEF SetLibEvent, SetEventOf
<1>3. \/ posts' = posts
      \/ posts[s] < MaxPosts /\ posts' = [posts EXCEPT ![s] = @ + 1]
  BY DEF SetLibEvent, SetEventOf
<1>4. posts' \in [Sessions -> 0 .. MaxPosts]
  <2>1. posts \in [Sessions -> 0 .. MaxPosts] /\ MaxPosts \in Nat
    BY <1>0, LifetimeAssumption DEF Plain
  <2>2. ASSUME posts[s] < MaxPosts PROVE posts[s] + 1 \in 0 .. MaxPosts
    BY <2>1, <2>2
  <2> QED BY <1>3, <2>1, <2>2
<1>5. CASE a = Net
  <2>1. items' = items
    BY <1>5 DEF SetLibEvent, SetEventOf, queueVars
  <2> QED BY <1>0, <1>1, <1>2, <1>4, <1>5, <2>1, OwnPost, RefTypes DEF Plain
<1>6. CASE a # Net
  BY <1>0, <1>1, <1>2, <1>4, <1>6, OtherPost, RefTypes
<1> QED BY <1>5, <1>6

LEMMA AfterCalls ==
  /\ Harmless(<<>>)
  /\ \A s \in Sessions : Harmless(<< <<"release", s>>, <<"clear", s>> >>)
<1>1. Harmless(<<>>)
  BY CountNone, EmptySeq DEF Harmless, Bare
<1>2. ASSUME NEW s \in Sessions
      PROVE  Harmless(<< <<"release", s>>, <<"clear", s>> >>)
  <2> DEFINE q == << <<"release", s>>, <<"clear", s>> >>
  <2>1. <<"release", s>> \in Pending /\ <<"clear", s>> \in Pending
    BY DEF Pending, StepNames
  <2>2. \A x : Count(q, x) = Unit(<<"release", s>> = x) + Unit(<<"clear", s>> = x)
    BY <2>1, CountTwo
  <2>3. \A r : Count(q, <<"unlist", r>>) = 0 /\ Count(q, <<"ask", r>>) = 0
    BY <2>2 DEF Unit
  <2>4. q \in Seq(Pending)
    BY <2>1
  <2>5. Bare(q)
    BY DEF Bare
  <2> QED BY <2>3, <2>4, <2>5 DEF Harmless
<1> QED BY <1>1, <1>2

LEMMA CallTurn ==
  ASSUME TInv, NEW a \in Threads, NEW s \in Sessions, Calling(a), Call(a, s, Beneath(a))
  PROVE  TInv'
<1>0. Plain
  BY DEF TInv
<1>1. ASSUME NEW item \in Items, NEW after, Harmless(after),
             SetLibEvent(a, s, item, Beneath(a), after),
             deletes' \in [Sessions -> 0 .. MaxDeletes],
             connects' \in [Sessions -> 0 .. MaxConnects],
             open' \in [Sessions -> BOOLEAN],
             UNCHANGED <<self, lookups, timerVars>>,
             \A r \in Sessions :
               /\ deletes'[r] >= deletes[r] + Unit(item = "delete" /\ r = s)
               /\ connects'[r] >= connects[r] + Unit(item = "lookup" /\ r = s)
      PROVE  TInv'
  <2>1. /\ Stacks' /\ Charged(s, item) /\ items' \in [Sessions -> Seq(Items)]
        /\ UNCHANGED <<queued, serving, batch>>
        /\ posts' \in [Sessions -> 0 .. MaxPosts]
        /\ life' \in [Sessions -> {"none", "live", "freed"}]
        /\ refs' \in [Sessions -> Int]
    BY <1>1, PostTurn
  <2>2. Plain'
    BY <1>0, <1>1, <2>1 DEF Plain, timerVars
  <2>3. UNCHANGED <<deaths, deathsDeal, lookups>>
    BY <1>1 DEF timerVars
  <2>4. \A b : Unit(b) \in Nat
    BY DEF Unit
  <2> QED BY <1>1, <2>1, <2>2, <2>3, <2>4, PaidTurn DEF Charged
<1>2. ASSUME NEW r \in Sessions
      PROVE  deletes[r] \in Int /\ connects[r] \in Int
  BY <1>0, <1>2, LifetimeAssumption DEF Plain
<1>3. /\ ~("close" = "delete") /\ ~("close" = "lookup") /\ ~("delete" = "lookup")
      /\ ~("init" = "delete") /\ ~("init" = "lookup") /\ ~("lookup" = "delete")
  OBVIOUS
<1>4. CASE Close(a, s, Beneath(a))
  <2>1. ASSUME NEW r \in Sessions
        PROVE  /\ deletes'[r] >= deletes[r] + Unit("close" = "delete" /\ r = s)
               /\ connects'[r] >= connects[r] + Unit("close" = "lookup" /\ r = s)
    BY <1>2, <1>4, <2>1 DEF Close, Unit
  <2> QED BY <1>0, <1>1, <1>4, <2>1, AfterCalls DEF Close, Items, Plain
<1>5. CASE SafeDelete(a, s, Beneath(a))
  <2>0. deletes[s] < MaxDeletes /\ deletes' = [deletes EXCEPT ![s] = @ + 1]
        /\ connects' = connects
    BY <1>5 DEF SafeDelete
  <2>1. ASSUME NEW r \in Sessions
        PROVE  /\ deletes'[r] >= deletes[r] + Unit("delete" = "delete" /\ r = s)
               /\ connects'[r] >= connects[r] + Unit("delete" = "lookup" /\ r = s)
    <3>1. /\ deletes'[r] = IF r = s THEN deletes[r] + 1 ELSE deletes[r]
          /\ connects'[r] = connects[r]
      BY <1>0, <2>0 DEF Plain
    <3>2. /\ Unit("delete" = "delete" /\ r = s) = IF r = s THEN 1 ELSE 0
          /\ Unit("delete" = "lookup" /\ r = s) = 0
      BY <1>3 DEF Unit
    <3> QED BY <1>2, <3>1, <3>2
  <2>2. deletes' \in [Sessions -> 0 .. MaxDeletes]
    BY <1>0, <2>0, LifetimeAssumption DEF Plain
  <2> QED BY <1>0, <1>1, <1>5, <2>1, <2>2, AfterCalls DEF SafeDelete, Items, Plain
<1>6. CASE Connect(a, s, Beneath(a)) \/ ConnectByName(a, s, Beneath(a))
  <2>0. connects[s] < MaxConnects /\ connects' = [connects EXCEPT ![s] = @ + 1]
        /\ deletes' = deletes
    BY <1>6 DEF Connect, ConnectByName
  <2>1. ASSUME NEW r \in Sessions, NEW item \in {"init", "lookup"}
        PROVE  /\ deletes'[r] >= deletes[r] + Unit(item = "delete" /\ r = s)
               /\ connects'[r] >= connects[r] + Unit(item = "lookup" /\ r = s)
    <3>1. /\ connects'[r] = IF r = s THEN connects[r] + 1 ELSE connects[r]
          /\ deletes'[r] = deletes[r]
      BY <1>0, <2>0 DEF Plain
    <3>2. /\ Unit(item = "delete" /\ r = s) = 0
          /\ Unit(item = "lookup" /\ r = s) = 0 \/ r = s
          /\ Unit(item = "lookup" /\ r = s) \in {0, 1}
      BY <1>3, <2>1 DEF Unit
    <3> QED BY <1>2, <3>1, <3>2
  <2>2. connects' \in [Sessions -> 0 .. MaxConnects]
    BY <1>0, <2>0, LifetimeAssumption DEF Plain
  <2>3. CASE Connect(a, s, Beneath(a))
    BY <1>0, <1>1, <2>3, <2>1, <2>2, AfterCalls DEF Connect, Items, Plain
  <2>4. CASE ConnectByName(a, s, Beneath(a))
    BY <1>0, <1>1, <2>4, <2>1, <2>2, AfterCalls DEF ConnectByName, Items, Plain
  <2> QED BY <1>6, <2>3, <2>4
<1> QED BY <1>4, <1>5, <1>6 DEF Call

-----------------------------------------------------------------------------
LEMMA TypesInit == Init => TInv
<1> SUFFICES ASSUME Init PROVE TInv
  OBVIOUS
<1>0. MaxPosts \in Nat /\ MaxDeletes \in Nat /\ MaxConnects \in Nat
  BY LifetimeAssumption
<1>1. Plain
  BY <1>0, EmptySeq DEF Init, Each, Plain
<1>2. Stacks
  BY EmptySeq DEF Init, Stacks, Below
<1>3. ASSUME NEW s \in Sessions PROVE HandedOnce(s) /\ Tallied(s)
  <2>1. Net \in Threads /\ None # s
    BY LifetimeAssumption DEF Threads
  <2>2. todo[Net] = <<>> /\ items[s] = <<>> /\ serving # s
    BY <2>1 DEF Init, Each
  <2>3. \A step, item : Owed(step, item, s) = 0
    BY <2>2, CountNone DEF Owed, Running
  <2>4. /\ deaths[s] = 0 /\ deathsDeal[s] = 0 /\ lookups[s] = 0
        /\ deletes[s] = 0 /\ connects[s] = 0 /\ queued[s] = 0
        /\ \A a \in Threads : todo[a] = <<>>
    BY DEF Init, Each
  <2>5. HandedOnce(s)
    BY <2>4 DEF HandedOnce, At
  <2> QED BY <2>3, <2>4, <2>5 DEF Tallied
<1> QED BY <1>1, <1>2, <1>3 DEF TInv

LEMMA TypesNext == TInv /\ [Next]_vars => TInv'
<1> SUFFICES ASSUME TInv, [Next]_vars PROVE TInv'
  OBVIOUS
<1>1. CASE UNCHANGED vars
  BY <1>1 DEF vars, queueVars, timerVars, TInv, Plain, Stacks, HandedOnce,
              Tallied, Owed, Running, At
<1>2. CASE TimerSteps
  BY <1>2, TimerTurns, EventTurns DEF TimerSteps
<1>3. ASSUME NEW s \in Sessions, Create(s) \/ Remote(s) \/ LookupAnswered(s)
      PROVE  TInv'
  BY <1>3, TimerTurns, EventTurns
<1>4. ASSUME NEW s \in Sessions, NetSteps(s) PROVE TInv'
  BY <1>4, NetTurns, DelToTimerTurn, AskLaterTurn DEF NetSteps
<1>5. ASSUME NEW s \in Sessions, QueueSteps(s) PROVE TInv'
  BY <1>5, ServeTurns, CallItemTurn DEF QueueSteps
<1>6. ASSUME NEW s \in Sessions, NEW a \in Threads, OwnerCall(a, s) PROVE TInv'
  <2>1. Calling(a) /\ Beneath(a) = <<>>
    BY <1>6 DEF OwnerCall, Idle, Calling, Beneath
  <2>2. Call(a, s, <<>>)
    BY <1>6 DEF OwnerCall
  <2>3. Call(a, s, Beneath(a))
    BY <2>1, <2>2, Zenon
  <2> QED BY <2>1, <2>3, CallTurn
<1>7. ASSUME NEW s \in Sessions, NEW a \in Threads, CallbackCalls(a, s) PROVE TInv'
  <2>1. Calling(a) /\ Beneath(a) = Tail(todo[a])
    BY <1>7 DEF CallbackCalls, At, Calling, Beneath
  <2>2. Call(a, s, Tail(todo[a]))
    BY <1>7 DEF CallbackCalls
  <2>3. Call(a, s, Beneath(a))
    BY <2>1, <2>2, Zenon
  <2> QED BY <2>1, <2>3, CallTurn
<1>8. ASSUME NEW s \in Sessions, NEW a \in Threads, Steps(a, s) PROVE TInv'
  BY <1>8, RegisterTurn, StepTurns DEF Steps
<1> QED BY <1>1, <1>2, <1>3, <1>4, <1>5, <1>6, <1>7, <1>8 DEF Next

LEMMA TypesHold == TInv => TypeOK
<1> SUFFICES ASSUME TInv PROVE TypeOK
  OBVIOUS
<1>1. Plain /\ Stacks /\ MaxDeletes \in Nat /\ MaxConnects \in Nat
  BY LifetimeAssumption DEF TInv
<1>2. ASSUME NEW s \in Sessions
      PROVE  /\ deaths[s] \in 0 .. MaxDeletes /\ deathsDeal[s] \in 0 .. MaxDeletes
             /\ lookups[s] \in 0 .. MaxConnects
  <2>1. /\ deaths[s] \in Nat /\ deathsDeal[s] \in Nat /\ lookups[s] \in Nat
        /\ deletes[s] \in 0 .. MaxDeletes /\ connects[s] \in 0 .. MaxConnects
    BY <1>1 DEF Plain
  <2>2. /\ Owed("unlist", "delete", s) \in Nat /\ Owed("ask", "lookup", s) \in Nat
    BY <1>1, OwedType
  <2>3. Tallied(s)
    BY DEF TInv
  <2> QED BY <1>1, <2>1, <2>2, <2>3 DEF Tallied
<1>3. /\ deaths \in [Sessions -> 0 .. MaxDeletes]
      /\ deathsDeal \in [Sessions -> 0 .. MaxDeletes]
      /\ lookups \in [Sessions -> 0 .. MaxConnects]
  BY <1>1, <1>2 DEF Plain
<1> QED BY <1>1, <1>3 DEF TypeOK, Plain, Stacks, Pending, Items

(* The types, and with them what bounds the counters: a session is in the  *)
(* network thread's queue once at most, whoever calls (SetEvent hands it   *)
(* over only with the first item, RunMessageQueue takes all of them), it   *)
(* is among the dead at most once for each SafeDelete, and evdns looks up  *)
(* at most one name for each Connect.                                      *)
THEOREM TypeTheorem == SafeSpec => []TypeOK
<1>1. Init => TInv
  BY TypesInit
<1>2. TInv /\ [Next]_vars => TInv'
  BY TypesNext
<1>3. TInv => TypeOK
  BY TypesHold
<1> QED BY <1>1, <1>2, <1>3, PTL DEF SafeSpec
=============================================================================
