----------------------------- MODULE ServerProofs -----------------------------
(***************************************************************************)
(* Proofs about the server: first its map of sessions (ServerSessions),    *)
(* then its listening socket (ListenSocket).                               *)
(***************************************************************************)
EXTENDS ServerSessions, ListenSocket, FiniteSetTheorems, SequenceTheorems, TLAPS

IsOpen(s) == stage[s] \in {"accepted", "connected"}

(* No two open sessions have one descriptor: the kernel's promise.         *)
FdsApart ==
  \A s, x \in Sessions : IsOpen(s) /\ IsOpen(x) /\ fd[s] = fd[x] => s = x

(* A session has a descriptor exactly while it is open, and the one that   *)
(* is being entered has been accepted.                                     *)
FdWhileOpen ==
  /\ \A s \in Sessions : fd[s] \in Fds <=> IsOpen(s)
  /\ \A s \in Sessions : stage[s] = "none" => entering # s

(* Every open session but the one being entered stands under its own       *)
(* descriptor.                                                             *)
OpenIsListed ==
  \A s \in Sessions : IsOpen(s) /\ entering # s => fd[s] \in DOMAIN map /\ map[fd[s]] = s

IInv == TypeOK /\ FdsApart /\ FdWhileOpen /\ OpenIsListed

LEMMA InitInv == Init => IInv
  BY ServerAssumption
  DEF Init, IInv, TypeOK, FdsApart, FdWhileOpen, OpenIsListed, IsOpen

LEMMA StepInv == IInv /\ [Next]_vars => IInv'
<1> SUFFICES ASSUME IInv, [Next]_vars PROVE IInv'
  OBVIOUS
<1> USE ServerAssumption DEF IInv
<1>1. CASE UNCHANGED vars
  BY <1>1 DEF vars, TypeOK, FdsApart, FdWhileOpen, OpenIsListed, IsOpen
<1>2. ASSUME NEW s \in Sessions, NEW f \in Fds, Accept(s, f)
      PROVE  IInv'
  <2>1. TypeOK'
    BY <1>2 DEF Accept, TypeOK
  <2>2. f # Invalid /\ \A x \in Sessions : IsOpen(x) => fd[x] # f
    BY <1>2 DEF Accept, InUse, IsOpen
  <2>3. FdsApart'
    BY <1>2, <2>2 DEF Accept, TypeOK, FdsApart, IsOpen
  <2>4. FdWhileOpen'
    BY <1>2 DEF Accept, TypeOK, FdWhileOpen, IsOpen
  <2>5. OpenIsListed'
    BY <1>2 DEF Accept, TypeOK, OpenIsListed, IsOpen
  <2> QED BY <2>1, <2>3, <2>4, <2>5
<1>3. ASSUME NEW s \in Sessions, Start(s)
      PROVE  IInv'
  BY <1>3 DEF Start, StartIf, TypeOK, FdsApart, FdWhileOpen, OpenIsListed, IsOpen
<1>4. ASSUME NEW s \in Sessions, CloseCallback(s)
      PROVE  IInv'
  BY <1>4 DEF CloseCallback, CloseLeaving, TypeOK, FdsApart, FdWhileOpen, OpenIsListed, IsOpen
<1>5. ASSUME NEW s \in Sessions, Disconnect(s)
      PROVE  IInv'
  <2>1. fd[s] = Invalid
    BY <1>5 DEF Disconnect, TypeOK, FdWhileOpen, IsOpen
  <2>2. map' = [j \in DOMAIN map \ {Invalid} |-> map[j]]
    BY <1>5, <2>1 DEF Disconnect, Without
  <2>3. TypeOK'
    BY <1>5, <2>2 DEF Disconnect, TypeOK
  <2>4. FdsApart' /\ FdWhileOpen'
    BY <1>5 DEF Disconnect, TypeOK, FdsApart, FdWhileOpen, IsOpen
  <2>5. OpenIsListed'
    BY <1>5, <2>2 DEF Disconnect, TypeOK, FdWhileOpen, OpenIsListed, IsOpen
  <2> QED BY <2>3, <2>4, <2>5
<1>6. ASSUME NEW s \in Sessions, Enter(s)
      PROVE  IInv'
  <2>1. map' = [j \in DOMAIN map \cup {fd[s]} |-> IF j = fd[s] THEN s ELSE map[j]]
    BY <1>6 DEF Enter, EnterAs, With
  <2>2. entering = s /\ entering' = None /\ UNCHANGED <<stage, fd, refused>>
    BY <1>6 DEF Enter, EnterAs
  <2>3. TypeOK'
    BY <2>1, <2>2 DEF TypeOK
  <2>4. FdsApart' /\ FdWhileOpen'
    BY <2>2 DEF TypeOK, FdsApart, FdWhileOpen, IsOpen
  <2>5. OpenIsListed'
    <3> SUFFICES ASSUME NEW x \in Sessions, IsOpen(x)
                 PROVE  fd[x] \in DOMAIN map' /\ map'[fd[x]] = x
      BY <2>2 DEF OpenIsListed, IsOpen
    <3>1. CASE x = s
      BY <2>1, <3>1
    <3>2. CASE x # s
      <4>1. fd[x] # fd[s]
        <5>1. fd[x] \in Fds
          BY DEF FdWhileOpen
        <5>2. fd[s] \in Fds => IsOpen(s)
          BY DEF FdWhileOpen
        <5> QED BY <3>2, <5>1, <5>2 DEF FdsApart
      <4>2. fd[x] \in DOMAIN map /\ map[fd[x]] = x
        BY <2>2, <3>2 DEF OpenIsListed
      <4> QED BY <2>1, <4>1, <4>2
    <3> QED BY <3>1, <3>2
  <2> QED BY <2>3, <2>4, <2>5
<1> QED BY <1>1, <1>2, <1>3, <1>4, <1>5, <1>6 DEF Next

LEMMA Inductive == Spec => []IInv
  BY InitInv, StepInv, PTL DEF Spec

(* The map holds sessions under descriptors, in every behaviour.           *)
THEOREM TypeCorrect == Spec => []TypeOK
<1>1. IInv => TypeOK
  BY DEF IInv
<1> QED BY <1>1, Inductive, PTL

(* However many sessions and descriptors there are: a late OnDisconnect    *)
(* never takes a connected session out of the map.                         *)
THEOREM ListedTheorem == Spec => []ConnectedIsListed
<1>1. IInv => ConnectedIsListed
  BY DEF IInv, OpenIsListed, ConnectedIsListed, Online, IsOpen
<1> QED BY <1>1, Inductive, PTL
-----------------------------------------------------------------------------
(* Who is admitted is open, and stands in the map unless he is entering.   *)
LEMMA OthersAreCounted ==
  ASSUME IInv, IsFiniteSet(DOMAIN map), NEW A \in SUBSET Sessions,
         \A s \in A : IsOpen(s) /\ s # entering
  PROVE  IsFiniteSet(A) /\ Cardinality(A) <= Cardinality(DOMAIN map)
<1> DEFINE f == [s \in A |-> fd[s]]
<1>1. f \in Injection(A, DOMAIN map)
  <2>1. f \in [A -> DOMAIN map]
    BY DEF IInv, OpenIsListed
  <2>2. \A s, x \in A : f[s] = f[x] => s = x
    BY DEF IInv, FdsApart
  <2> QED BY <2>1, <2>2 DEF Injection, IsInjective
<1> QED BY <1>1, FS_Injection

(* The bound that holds for as long as there is a limit.                   *)
Bounded ==
  /\ IsFiniteSet(DOMAIN map)
  /\ IsFiniteSet(Admitted)
  /\ Limit >= 0 => Cardinality(Admitted) <= Limit + 1

LEMMA AdmissionKeepsBound ==
  ASSUME IInv, IInv', Bounded, NEW s \in Sessions, Start(s)
  PROVE  IsFiniteSet(Admitted') /\ (Limit >= 0 => Cardinality(Admitted') <= Limit + 1)
<1> USE ServerAssumption DEF Start, StartIf
<1>1. CASE Limit >= 0 /\ TooMany
  <2>1. Admitted' = Admitted
    BY <1>1 DEF IInv, TypeOK, Admitted, Online
  <2> QED BY <2>1 DEF Bounded
<1>2. CASE Limit < 0
  <2>1. TooMany = FALSE
    BY <1>2 DEF TooMany
  <2>2. Admitted' \subseteq Admitted \cup {s}
    BY <2>1 DEF IInv, TypeOK, Admitted, Online
  <2>3. IsFiniteSet(Admitted \cup {s})
    BY FS_AddElement DEF Bounded
  <2>4. IsFiniteSet(Admitted')
    BY <2>2, <2>3, FS_Subset
  <2> QED BY <1>2, <2>4
<1>3. CASE Limit >= 0 /\ ~TooMany
  <2> DEFINE A == Admitted' \ {entering}
  <2>1. A \in SUBSET Sessions
    BY DEF Admitted, Online
  <2>2. \A x \in A : IsOpen(x) /\ x # entering
    BY DEF IInv, TypeOK, Admitted, Online, IsOpen
  <2>3. IsFiniteSet(DOMAIN map) /\ Cardinality(DOMAIN map) <= Limit
    <3>1. Cardinality(DOMAIN map) \in Nat
      BY FS_CardinalityType DEF Bounded
    <3> QED BY <1>3, <3>1 DEF Bounded, TooMany
  <2>4. IsFiniteSet(A) /\ Cardinality(A) <= Limit
    <3>1. IsFiniteSet(A) /\ Cardinality(A) <= Cardinality(DOMAIN map)
      BY <2>1, <2>2, <2>3, OthersAreCounted
    <3> QED BY <2>3, <3>1, FS_CardinalityType
  <2> DEFINE B == A \cup {entering}
  <2>5. IsFiniteSet(B) /\ Cardinality(B) <= Limit + 1
    <3> HIDE DEF A
    <3>1. Cardinality(A) \in Nat
      BY <2>4, FS_CardinalityType
    <3>2. /\ IsFiniteSet(B)
          /\ Cardinality(B) = IF entering \in A THEN Cardinality(A) ELSE Cardinality(A) + 1
      BY <2>4, FS_AddElement
    <3> QED BY <2>4, <3>1, <3>2
  <2>6. Admitted' \in SUBSET B
    OBVIOUS
  <2>7. IsFiniteSet(Admitted') /\ Cardinality(Admitted') <= Cardinality(B)
    BY <2>5, <2>6, FS_Subset
  <2> QED BY <2>5, <2>7, FS_CardinalityType
<1> QED BY <1>1, <1>2, <1>3 DEF TooMany

LEMMA BoundStep == IInv /\ IInv' /\ Bounded /\ [Next]_vars => Bounded'
<1> SUFFICES ASSUME IInv, IInv', Bounded, [Next]_vars
             PROVE  Bounded'
  OBVIOUS
<1> USE ServerAssumption
<1>1. IsFiniteSet(DOMAIN map')
  <2>1. DOMAIN map' \subseteq DOMAIN map \/ \E k : DOMAIN map' = DOMAIN map \cup {k}
    BY DEF Next, vars, Accept, Start, StartIf, CloseCallback, CloseLeaving, Disconnect,
           Without, Enter, EnterAs, With
  <2> QED BY <2>1, FS_Subset, FS_AddElement DEF Bounded
<1>2. CASE \E s \in Sessions : Start(s)
  BY <1>1, <1>2, AdmissionKeepsBound DEF Bounded
<1>3. CASE ~\E s \in Sessions : Start(s)
  <2>1. Admitted' \in SUBSET Admitted
    BY <1>3 DEF IInv, TypeOK, Next, vars, Accept, CloseCallback, CloseLeaving, Disconnect,
           Enter, EnterAs, Admitted, Online
  <2>2. IsFiniteSet(Admitted') /\ Cardinality(Admitted') <= Cardinality(Admitted)
    BY <2>1, FS_Subset DEF Bounded
  <2> QED BY <1>1, <2>2, FS_CardinalityType DEF Bounded
<1> QED BY <1>2, <1>3

(* However many sessions are accepted, whichever are tested before they are *)
(* entered: never is more than one above the limit of the template admitted. *)
THEOREM LimitTheorem == Spec => []AdmittedWithinLimit
<1>1. Init => Bounded
  <2> SUFFICES ASSUME Init PROVE Bounded
    OBVIOUS
  <2>1. DOMAIN map = {} /\ Admitted = {}
    BY DEF Init, Admitted, Online
  <2> QED BY <2>1, FS_EmptySet, ServerAssumption DEF Bounded
<1>2. Bounded => AdmittedWithinLimit
  BY DEF Bounded, AdmittedWithinLimit
<1> QED BY <1>1, <1>2, Inductive, BoundStep, PTL DEF Spec
-----------------------------------------------------------------------------
(* The application calls Listen once: one of its threads, one time.        *)
ListenOnce ==
  /\ \A u \in Users : listens[u] <= 1
  /\ \A u, v \in Users : listens[u] > 0 /\ listens[v] > 0 => u = v

Calling(t) == pc[t] \in {"check", "open", "mark", "post", "test", "wait", "done"}
Holds(t) == pc[t] \in {"mark", "post"}

(* Where sockets stand in the queue of the network thread.                 *)
SocketsIn(q) == {i \in 1 .. Len(q) : q[i] # NoSocket}

(* Users call before the address is noted, the timer afterwards: they      *)
(* never call Listen at the same time.                                     *)
CallsApart ==
  /\ \A u \in Users : Calling(u) => ~address /\ listens[u] > 0
  /\ Calling(Timer) => address
  /\ address => \E u \in Users : listens[u] > 0

(* The only socket there is, and whose it is.                              *)
NoneOpen ==
  /\ sockfd = NoSocket /\ link = "idle" /\ open = {} /\ SocketsIn(queue) = {}
  /\ \A t \in Threads : ~Holds(t)

OneHeld ==
  /\ sockfd = NoSocket /\ SocketsIn(queue) = {}
  /\ \E t \in Threads :
       /\ Holds(t) /\ open = {sock[t]}
       /\ link = IF pc[t] = "post" THEN "listening" ELSE "idle"
       /\ \A v \in Threads : Holds(v) => v = t

OneQueued ==
  /\ sockfd = NoSocket /\ link = "listening"
  /\ \A t \in Threads : ~Holds(t)
  /\ \E i \in 1 .. Len(queue) : SocketsIn(queue) = {i} /\ open = {queue[i]}

OneServed ==
  /\ sockfd # NoSocket /\ link = "listening" /\ open = {sockfd} /\ SocketsIn(queue) = {}
  /\ \A t \in Threads : ~Holds(t)

ListenInv ==
  /\ ListenTypeOK /\ CallsApart
  /\ NoneOpen \/ OneHeld \/ OneQueued \/ OneServed
  /\ \A t \in Threads : pc[t] = "open" => NoneOpen
-----------------------------------------------------------------------------
LEMMA CallersApart ==
  ASSUME CallsApart, ListenOnce, NEW t \in Threads, NEW v \in Threads,
         Calling(t), Calling(v)
  PROVE  t = v
BY DEF CallsApart, ListenOnce, Threads

LEMMA QueueGrows ==
  ASSUME NEW S, NEW q \in Seq(S), NEW x \in S
  PROVE  /\ Append(q, x) \in Seq(S) /\ Len(Append(q, x)) = Len(q) + 1 /\ Len(q) \in Nat
         /\ \A i \in 1 .. Len(q) : Append(q, x)[i] = q[i]
         /\ Append(q, x)[Len(q) + 1] = x
         /\ SocketsIn(Append(q, x)) =
              SocketsIn(q) \cup (IF x = NoSocket THEN {} ELSE {Len(q) + 1})
<1>1. /\ Append(q, x) \in Seq(S) /\ Len(Append(q, x)) = Len(q) + 1
      /\ \A i \in 1 .. Len(q) : Append(q, x)[i] = q[i]
      /\ Append(q, x)[Len(q) + 1] = x
  BY AppendProperties
<1>2. Len(q) \in Nat
  BY LenProperties
<1>3. PICK a : a = Append(q, x)
  OBVIOUS
<1>4. SocketsIn(a) = SocketsIn(q) \cup (IF x = NoSocket THEN {} ELSE {Len(q) + 1})
  BY <1>1, <1>2, <1>3 DEF SocketsIn
<1> QED BY <1>1, <1>2, <1>3, <1>4

LEMMA QueueShrinks ==
  ASSUME NEW S, NEW q \in Seq(S), q # <<>>
  PROVE  /\ Tail(q) \in Seq(S) /\ Len(Tail(q)) = Len(q) - 1 /\ Len(q) \in Nat \ {0}
         /\ Head(q) = q[1] /\ q[1] \in S
         /\ \A i \in 1 .. Len(q) - 1 : Tail(q)[i] = q[i + 1]
         /\ SocketsIn(Tail(q)) = {i \in 1 .. Len(q) - 1 : i + 1 \in SocketsIn(q)}
<1>1. /\ Tail(q) \in Seq(S) /\ Len(Tail(q)) = Len(q) - 1 /\ Head(q) = q[1] /\ Head(q) \in S
      /\ \A i \in 1 .. Len(Tail(q)) : Tail(q)[i] = q[i + 1]
  BY HeadTailProperties
<1>2. Len(q) \in Nat \ {0}
  BY EmptySeq, LenProperties
<1>3. PICK r : r = Tail(q)
  OBVIOUS
<1>4. SocketsIn(r) = {i \in 1 .. Len(q) - 1 : i + 1 \in SocketsIn(q)}
  BY <1>1, <1>2, <1>3 DEF SocketsIn
<1> QED BY <1>1, <1>2, <1>3, <1>4

LEMMA ListenInitInv == ListenInit => ListenInv
<1> SUFFICES ASSUME ListenInit PROVE ListenInv
  OBVIOUS
<1> USE ListenAssumption DEF ListenInit
<1>1. ListenTypeOK
  <2>1. queue \in Seq(Sockets \cup {CloseJob}) /\ Len(queue) = 0
    BY EmptySeq
  <2>2. listens \in [Users -> 0..MaxListen] /\ closes \in [Users -> 0..MaxClose]
    OBVIOUS
  <2>3. \A t \in Threads : pc[t] = "idle" /\ sock[t] = NoSocket /\ waits[t] = FALSE
    OBVIOUS
  <2>4. /\ sock \in [Threads -> Sockets \cup {NoSocket}] /\ waits \in [Threads -> BOOLEAN]
        /\ pc \in [Threads -> {"idle", "check", "open", "mark", "post", "test", "wait",
                             "done", "close", "toclose", "postclose"}]
    OBVIOUS
  <2> HIDE DEF ListenInit
  <2>5. /\ sockfd = NoSocket /\ link = "idle" /\ open = {} /\ asleep = {}
        /\ toClose = FALSE /\ address = FALSE
    BY Zenon DEF ListenInit
  <2>6. toClose \in BOOLEAN /\ address \in BOOLEAN
    BY <2>5, Zenon
  <2>7. Len(queue) <= MaxQueue
    BY <2>1
  <2>8. /\ sockfd \in Sockets \cup {NoSocket} /\ link \in {"idle", "listening"}
        /\ open \subseteq Sockets /\ asleep \subseteq Threads /\ \A t \in Threads : t \notin asleep
    BY <2>5
  <2>9. \A t \in Threads : sock[t] = NoSocket /\ pc[t] \notin {"mark", "post"} /\ t \notin asleep
    BY <2>3, <2>8
  <2> QED BY <2>1, <2>2, <2>4, <2>6, <2>7, <2>8, <2>9 DEF ListenTypeOK
<1>2. CallsApart
  BY DEF CallsApart, Calling, Threads
<1>3. NoneOpen
  BY DEF NoneOpen, SocketsIn, Holds
<1> QED BY <1>1, <1>2, <1>3 DEF ListenInv

LEMMA ListenTypeStep == ListenTypeOK /\ [ListenNext]_listenVars => ListenTypeOK'
<1> SUFFICES ASSUME ListenTypeOK, [ListenNext]_listenVars PROVE ListenTypeOK'
  OBVIOUS
<1> USE ListenAssumption DEF ListenTypeOK, status, counts, Threads
<1>1. ASSUME NEW u \in Users, UserListens(u) PROVE ListenTypeOK'
  BY <1>1 DEF UserListens, Goto
<1>2. ASSUME NEW u \in Users, UserCloses(u) PROVE ListenTypeOK'
  BY <1>2 DEF UserCloses, Goto
<1>3. ASSUME NEW t \in Threads, Check(t) \/ Test(t) \/ Done(t) \/ CloseTest(t) \/ CloseMark(t)
      PROVE  ListenTypeOK'
  <2>1. CASE Check(t)
    BY <2>1 DEF Check, CheckIf, AfterFailure, Goto
  <2>2. CASE Test(t)
    BY <2>2 DEF Test, Goto
  <2>3. CASE Done(t)
    BY <2>3 DEF Done, Goto
  <2>4. CASE CloseTest(t) \/ CloseMark(t)
    BY <2>4 DEF CloseTest, CloseMark, Goto
  <2> QED BY <1>3, <2>1, <2>2, <2>3, <2>4
<1>4. ASSUME NEW t \in Threads, Open(t) PROVE ListenTypeOK'
  BY <1>4 DEF Open, Goto
<1>5. ASSUME NEW t \in Threads, OpenFails(t) PROVE ListenTypeOK'
  BY <1>5 DEF OpenFails, OpenFailsTo, AfterFailure, Goto
<1>6. ASSUME NEW t \in Threads, Mark(t) PROVE ListenTypeOK'
  BY <1>6 DEF Mark, Goto
<1>7. ASSUME NEW t \in Threads, Post(t) PROVE ListenTypeOK'
  <2>1. /\ queue' \in Seq(Sockets \cup {CloseJob}) /\ Len(queue') = Len(queue) + 1
        /\ Len(queue) \in Nat
    BY <1>7, QueueGrows DEF Post, CloseJob
  <2> QED BY <1>7, <2>1 DEF Post, Goto
<1>8. ASSUME NEW t \in Threads, ClosePost(t) PROVE ListenTypeOK'
  <2>1. /\ queue' \in Seq(Sockets \cup {CloseJob}) /\ Len(queue') = Len(queue) + 1
        /\ Len(queue) \in Nat
    BY <1>8, QueueGrows DEF ClosePost, CloseJob
  <2> QED BY <1>8, <2>1 DEF ClosePost, Goto
<1>9. ASSUME NEW t \in Threads, Wait(t) \/ WakeUp(t) PROVE ListenTypeOK'
  BY <1>9 DEF Wait, WaitEvent, WakeUp, Goto
<1>10. CASE OnTimer
  BY <1>10 DEF OnTimer, Goto
<1>11. CASE InitListenEvent
  <2>1. /\ queue' \in Seq(Sockets \cup {CloseJob}) /\ Len(queue') <= MaxQueue
        /\ sockfd' \in Sockets \cup {NoSocket}
    BY <1>11, QueueShrinks DEF InitListenEvent, CloseJob
  <2>2. asleep' \subseteq asleep
    BY <1>11 DEF InitListenEvent, SetEvent
  <2> QED BY <1>11, <2>1, <2>2 DEF InitListenEvent
<1>12. CASE RunClose
  <2>1. queue' \in Seq(Sockets \cup {CloseJob}) /\ Len(queue') <= MaxQueue
    BY <1>12, QueueShrinks DEF RunClose
  <2> QED BY <1>12, <2>1 DEF RunClose, CloseListening
<1>13. CASE AcceptClosing
  BY <1>13 DEF AcceptClosing, CloseListening
<1>14. CASE UNCHANGED listenVars
  BY <1>14 DEF listenVars
<1> QED
  BY <1>1, <1>2, <1>3, <1>4, <1>5, <1>6, <1>7, <1>8, <1>9, <1>10, <1>11, <1>12, <1>13, <1>14
  DEF ListenNext, Goes, Network

(* Who calls Listen, from one step to the next.                            *)
LEMMA CallsApartStep ==
  ASSUME ListenInv, ListenOnce, ListenOnce', [ListenNext]_listenVars
  PROVE  CallsApart'
<1> USE ListenAssumption DEF ListenInv, ListenTypeOK, status, counts, Threads
<1>1. ASSUME NEW t \in Threads, Calling(t), UNCHANGED <<listens, address>>,
             \A v \in Threads \ {t} : pc'[v] = pc[v]
      PROVE  CallsApart'
  BY <1>1 DEF CallsApart, Calling
<1>2. ASSUME UNCHANGED <<listens, address>>, \A v \in Threads : Calling(v)' => Calling(v)
      PROVE  CallsApart'
  BY <1>2 DEF CallsApart
<1>3. ASSUME NEW u \in Users, UserListens(u) PROVE CallsApart'
  <2>1. /\ pc[u] = "idle" /\ listens' = [listens EXCEPT ![u] = listens[u] + 1]
        /\ pc' = [pc EXCEPT ![u] = "check"] /\ address' = address
    BY <1>3 DEF UserListens, Goto
  <2>2. listens[u] = 0 /\ \A v \in Users : listens[v] = 0
    BY <2>1 DEF ListenOnce
  <2>3. ~address
    BY <2>2 DEF CallsApart
  <2> QED BY <2>1, <2>2, <2>3 DEF CallsApart, Calling
<1>4. ASSUME NEW u \in Users, UserCloses(u) PROVE CallsApart'
  BY <1>2, <1>4 DEF UserCloses, Goto, Calling
<1>5. ASSUME NEW t \in Threads, Check(t) \/ Open(t) \/ OpenFails(t) \/ Mark(t) \/ Post(t)
                                \/ Test(t) \/ Wait(t)
      PROVE  CallsApart'
  BY <1>1, <1>5 DEF Check, CheckIf, Open, OpenFails, OpenFailsTo, Mark, Post, Test, Wait,
                    Goto, Calling
<1>6. ASSUME NEW t \in Threads, WakeUp(t) \/ CloseTest(t) \/ CloseMark(t) \/ ClosePost(t)
      PROVE  CallsApart'
  BY <1>2, <1>6 DEF WakeUp, CloseTest, CloseMark, ClosePost, Goto, Calling
<1>7. ASSUME NEW t \in Threads, Done(t) PROVE CallsApart'
  <2>1. /\ Calling(t) /\ address' /\ listens' = listens
        /\ pc' = [pc EXCEPT ![t] = "idle"]
    BY <1>7 DEF Done, Goto, Calling
  <2>2. \A v \in Threads : ~Calling(v)'
    BY <2>1, CallersApart DEF Calling
  <2>3. \E u \in Users : listens[u] > 0
    BY <2>1 DEF CallsApart
  <2> QED BY <2>1, <2>2, <2>3 DEF CallsApart
<1>8. CASE OnTimer
  BY <1>8 DEF OnTimer, Goto, CallsApart, Calling
<1>9. CASE Network \/ AcceptClosing \/ UNCHANGED listenVars
  BY <1>2, <1>9 DEF Network, AcceptClosing, InitListenEvent, RunClose, CloseListening,
                    listenVars, Calling
<1> QED BY <1>3, <1>4, <1>5, <1>6, <1>7, <1>8, <1>9 DEF ListenNext, Goes

(* A thread that has no socket goes on, and nothing else happens.          *)
LEMMA SocketStays ==
  ASSUME ListenInv, NEW t \in Threads, ~Holds(t), ~Holds(t)', pc'[t] = "open" => NoneOpen,
         \A v \in Threads \ {t} : pc'[v] = pc[v],
         UNCHANGED <<sockfd, link, open, sock>>, SocketsIn(queue') = SocketsIn(queue),
         Len(queue') >= Len(queue), \A i \in 1 .. Len(queue) : queue'[i] = queue[i]
  PROVE  /\ NoneOpen' \/ OneHeld' \/ OneQueued' \/ OneServed'
         /\ \A v \in Threads : pc'[v] = "open" => NoneOpen'
<1>1. \A v \in Threads : Holds(v)' <=> Holds(v)
  BY DEF Holds
<1>2. NoneOpen => NoneOpen'
  BY <1>1 DEF NoneOpen
<1>3. ASSUME OneHeld PROVE OneHeld'
  <2>1. PICK v \in Threads :
          /\ Holds(v) /\ open = {sock[v]}
          /\ link = IF pc[v] = "post" THEN "listening" ELSE "idle"
          /\ \A x \in Threads : Holds(x) => x = v
    BY <1>3 DEF OneHeld
  <2>2. pc'[v] = pc[v]
    BY <2>1
  <2> QED BY <1>1, <1>3, <2>1, <2>2 DEF OneHeld
<1>4. ASSUME OneQueued PROVE OneQueued'
  <2>1. PICK i \in 1 .. Len(queue) : SocketsIn(queue) = {i} /\ open = {queue[i]}
    BY <1>4 DEF OneQueued
  <2>2. Len(queue) \in Nat /\ Len(queue') \in Int => i \in 1 .. Len(queue')
    OBVIOUS
  <2>3. i \in SocketsIn(queue')
    BY <2>1
  <2>4. i \in 1 .. Len(queue')
    BY <2>3 DEF SocketsIn
  <2> QED BY <1>1, <1>4, <2>1, <2>4 DEF OneQueued
<1>5. OneServed => OneServed'
  BY <1>1 DEF OneServed
<1>6. ASSUME NEW v \in Threads, pc'[v] = "open" PROVE NoneOpen'
  BY <1>2, <1>6 DEF ListenInv
<1> QED BY <1>2, <1>3, <1>4, <1>5, <1>6 DEF ListenInv

LEMMA SocketStep ==
  ASSUME ListenInv, ListenOnce, [ListenNext]_listenVars
  PROVE  /\ NoneOpen' \/ OneHeld' \/ OneQueued' \/ OneServed'
         /\ \A v \in Threads : pc'[v] = "open" => NoneOpen'
<1> DEFINE Goal == /\ NoneOpen' \/ OneHeld' \/ OneQueued' \/ OneServed'
                   /\ \A v \in Threads : pc'[v] = "open" => NoneOpen'
<1>a. /\ ListenTypeOK /\ CallsApart /\ pc = [t \in Threads |-> pc[t]] /\ Timer \in Threads
      /\ queue \in Seq(Sockets \cup {NoSocket}) /\ NoSocket \notin Sockets
      /\ open \subseteq Sockets
  BY ListenAssumption DEF ListenInv, ListenTypeOK, CloseJob, Threads
<1>b. ASSUME NEW t \in Threads, ~Holds(t), ~Holds(t)', pc'[t] = "open" => NoneOpen,
             \A v \in Threads \ {t} : pc'[v] = pc[v], UNCHANGED <<sockfd, link, open, sock, queue>>
      PROVE  Goal
  <2>1. Len(queue') >= Len(queue) /\ SocketsIn(queue') = SocketsIn(queue)
    BY <1>a, <1>b, LenProperties
  <2> QED BY <1>b, <2>1, SocketStays
<1>c. ASSUME NEW t \in Threads, Calling(t), NEW v \in Threads \ {t}, pc[v] = "open" PROVE FALSE
  BY <1>a, <1>c, CallersApart DEF Calling
<1> HIDE DEF Goal
<1>1. ASSUME NEW u \in Users, UserListens(u) \/ UserCloses(u) PROVE Goal
  <2>1. u \in Threads
    BY DEF Threads
  <2> QED BY <1>a, <1>b, <1>1, <2>1 DEF UserListens, UserCloses, status, Goto, Holds
<1>2. ASSUME NEW t \in Threads, Check(t) PROVE Goal
  <2>1. pc[t] = "check" /\ pc'[t] \in {"done", "close", "open"}
        /\ \A v \in Threads \ {t} : pc'[v] = pc[v]
    BY <1>a, <1>2 DEF Check, CheckIf, AfterFailure, Goto
  <2>2. ASSUME pc'[t] = "open" PROVE NoneOpen
    <3>1. sockfd = NoSocket /\ link = "idle"
      BY <1>a, <1>2, <2>1, <2>2 DEF Check, CheckIf, AfterFailure, IsListen, Goto
    <3>2. \A v \in Threads : ~Holds(v)
      BY <1>a, <2>1, CallersApart DEF Holds, Calling
    <3> QED BY <3>1, <3>2 DEF ListenInv, OneHeld, OneQueued, OneServed
  <2>3. UNCHANGED <<sockfd, link, open, sock, queue>>
    BY <1>2 DEF Check, CheckIf, status
  <2> QED BY <1>b, <2>1, <2>2, <2>3 DEF Holds
<1>3. ASSUME NEW t \in Threads, Open(t) PROVE Goal
  <2>1. PICK s \in Sockets : open' = open \cup {s} /\ sock' = [sock EXCEPT ![t] = s]
    BY <1>3 DEF Open
  <2>2. /\ pc[t] = "open" /\ pc' = [pc EXCEPT ![t] = "mark"]
        /\ UNCHANGED <<sockfd, link, queue>>
    BY <1>3 DEF Open, Goto, status
  <2>3. NoneOpen
    BY <2>2 DEF ListenInv
  <2>4. sock'[t] = s /\ pc'[t] = "mark" /\ \A v \in Threads \ {t} : pc'[v] = pc[v]
    BY <1>a, <2>1, <2>2 DEF ListenTypeOK
  <2>5. OneHeld'
    BY <2>1, <2>2, <2>3, <2>4 DEF NoneOpen, OneHeld, Holds
  <2>6. \A v \in Threads : pc'[v] # "open"
    BY <1>c, <2>2, <2>4 DEF Calling
  <2> QED BY <2>5, <2>6 DEF Goal
<1>4. ASSUME NEW t \in Threads, OpenFails(t) PROVE Goal
  BY <1>a, <1>b, <1>4 DEF OpenFails, OpenFailsTo, AfterFailure, Goto, Holds
<1>5. ASSUME NEW t \in Threads, Mark(t) PROVE Goal
  <2>1. /\ pc[t] = "mark" /\ pc' = [pc EXCEPT ![t] = "post"] /\ link' = "listening"
        /\ UNCHANGED <<sockfd, open, sock, queue>>
    BY <1>5 DEF Mark, Goto
  <2>2. Holds(t) /\ pc'[t] = "post" /\ \A v \in Threads \ {t} : pc'[v] = pc[v]
    BY <1>a, <2>1 DEF Holds
  <2>3. OneHeld /\ open = {sock[t]} /\ \A v \in Threads : Holds(v) => v = t
    BY <2>2 DEF ListenInv, NoneOpen, OneQueued, OneServed, OneHeld
  <2>4. OneHeld'
    BY <2>1, <2>2, <2>3 DEF OneHeld, Holds
  <2>5. \A v \in Threads : pc'[v] # "open"
    BY <1>c, <2>1, <2>2 DEF Calling
  <2> QED BY <2>4, <2>5 DEF Goal
<1>6. ASSUME NEW t \in Threads, Post(t) PROVE Goal
  <2>1. /\ pc[t] = "post" /\ queue' = Append(queue, sock[t]) /\ pc'[t] \in {"test", "done"}
        /\ \A v \in Threads \ {t} : pc'[v] = pc[v]
        /\ UNCHANGED <<sockfd, link, open>>
    BY <1>a, <1>6 DEF Post, Goto, status
  <2>2. sock[t] \in Sockets /\ sock[t] # NoSocket
    BY <1>a, <2>1 DEF ListenTypeOK
  <2>3. OneHeld /\ open = {sock[t]} /\ link = "listening" /\ \A v \in Threads : Holds(v) => v = t
    BY <2>1 DEF ListenInv, NoneOpen, OneQueued, OneServed, OneHeld, Holds
  <2>4. /\ SocketsIn(queue') = {Len(queue) + 1} /\ queue'[Len(queue) + 1] = sock[t]
        /\ Len(queue) + 1 \in 1 .. Len(queue')
    BY <1>a, <2>1, <2>2, <2>3, QueueGrows DEF OneHeld
  <2>5. OneQueued'
    BY <2>1, <2>3, <2>4 DEF OneQueued, OneHeld, Holds
  <2>6. \A v \in Threads : pc'[v] # "open"
    BY <1>c, <2>1 DEF Calling
  <2> QED BY <2>5, <2>6 DEF Goal
<1>7. ASSUME NEW t \in Threads, Test(t) \/ Wait(t) \/ Done(t) \/ CloseTest(t) \/ CloseMark(t)
      PROVE  Goal
  BY <1>a, <1>b, <1>7 DEF Test, Wait, Done, CloseTest, CloseMark, status, Goto, Holds
<1>8. ASSUME NEW t \in Threads, WakeUp(t) PROVE Goal
  <2>1. UNCHANGED <<sockfd, link, open, sock, queue, pc>> /\ pc[t] = "test"
    BY <1>a, <1>8 DEF WakeUp, status, ListenTypeOK
  <2> QED BY <1>b, <2>1 DEF Holds
<1>9. ASSUME NEW t \in Threads, ClosePost(t) PROVE Goal
  <2>1. /\ pc[t] = "postclose" /\ pc'[t] = "idle" /\ \A v \in Threads \ {t} : pc'[v] = pc[v]
        /\ queue' = Append(queue, NoSocket) /\ UNCHANGED <<sockfd, link, open, sock>>
    BY <1>a, <1>9 DEF ClosePost, Goto, CloseJob, status
  <2>2. /\ SocketsIn(Append(queue, NoSocket)) = SocketsIn(queue)
        /\ Len(Append(queue, NoSocket)) = Len(queue) + 1 /\ Len(queue) \in Nat
        /\ \A i \in 1 .. Len(queue) : Append(queue, NoSocket)[i] = queue[i]
    <3>1. NoSocket \in Sockets \cup {NoSocket}
      OBVIOUS
    <3>2. SocketsIn(Append(queue, NoSocket)) = SocketsIn(queue) \cup {}
      BY <1>a, <3>1, QueueGrows
    <3> QED BY <1>a, <3>1, <3>2, QueueGrows
  <2>3. ~Holds(t) /\ ~Holds(t)' /\ pc'[t] # "open"
    BY <2>1 DEF Holds
  <2>4. SocketsIn(queue') = SocketsIn(queue) /\ Len(queue') >= Len(queue)
    BY <2>1, <2>2
  <2>5. \A i \in 1 .. Len(queue) : queue'[i] = queue[i]
    BY <2>1, <2>2
  <2> QED BY <2>1, <2>3, <2>4, <2>5, SocketStays DEF Goal
<1>10. CASE OnTimer
  <2>1. /\ UNCHANGED <<sockfd, link, open, sock, queue>> /\ pc[Timer] = "idle"
        /\ pc'[Timer] \in {"close", "check"}
        /\ \A v \in Threads \ {Timer} : pc'[v] = pc[v]
    BY <1>a, <1>10 DEF OnTimer, status, Goto
  <2> QED BY <1>a, <1>b, <2>1 DEF Holds, Goal
<1>11. CASE InitListenEvent
  <2>1. /\ queue # <<>> /\ Head(queue) # NoSocket /\ sockfd' = Head(queue) /\ queue' = Tail(queue)
        /\ UNCHANGED <<link, open, pc>>
    BY <1>11 DEF InitListenEvent, CloseJob, status
  <2>2. /\ Len(queue) \in Nat \ {0} /\ Head(queue) = queue[1]
        /\ SocketsIn(queue') = {i \in 1 .. Len(queue) - 1 : i + 1 \in SocketsIn(queue)}
    BY <1>a, <2>1, QueueShrinks
  <2>3. 1 \in SocketsIn(queue)
    BY <2>1, <2>2 DEF SocketsIn
  <2>4. OneQueued /\ SocketsIn(queue) = {1} /\ open = {queue[1]}
    BY <2>3 DEF ListenInv, NoneOpen, OneHeld, OneServed, OneQueued
  <2>5. SocketsIn(queue') = {}
    BY <2>2, <2>4
  <2>6. OneServed'
    BY <2>1, <2>2, <2>4, <2>5 DEF OneQueued, OneServed, Holds
  <2>7. ~NoneOpen
    BY <2>4 DEF NoneOpen
  <2> QED BY <2>1, <2>6, <2>7 DEF Goal, ListenInv
<1>12. ASSUME CloseListening, sockfd # NoSocket, SocketsIn(queue') \in {{}, SocketsIn(queue)}
       PROVE  Goal
  <2>1. OneServed
    BY <1>12 DEF ListenInv, NoneOpen, OneHeld, OneQueued
  <2>2. NoneOpen'
    BY <1>12, <2>1 DEF CloseListening, IsListen, OneServed, NoneOpen, Holds
  <2> QED BY <2>2 DEF Goal
<1>13. CASE RunClose
  <2>1. /\ queue # <<>> /\ Head(queue) = NoSocket /\ queue' = Tail(queue) /\ CloseListening
    BY <1>13 DEF RunClose, CloseJob
  <2>2. /\ Len(queue) \in Nat \ {0} /\ Head(queue) = queue[1] /\ Len(queue') = Len(queue) - 1
        /\ SocketsIn(queue') = {i \in 1 .. Len(queue) - 1 : i + 1 \in SocketsIn(queue)}
        /\ \A i \in 1 .. Len(queue) - 1 : queue'[i] = queue[i + 1]
    BY <1>a, <2>1, QueueShrinks
  <2>3. SocketsIn(queue) = {} => SocketsIn(queue') = {}
    BY <2>2
  <2>4. CASE sockfd # NoSocket
    <3>1. SocketsIn(queue) = {}
      BY <2>4 DEF ListenInv, NoneOpen, OneHeld, OneQueued, OneServed
    <3> QED BY <1>12, <2>1, <2>3, <2>4, <3>1 DEF Goal
  <2>5. CASE sockfd = NoSocket
    <3>1. UNCHANGED <<sockfd, link, open, sock, pc>>
      BY <1>a, <2>1, <2>5 DEF CloseListening, IsListen, status
    <3>2. NoneOpen => NoneOpen'
      BY <2>3, <3>1 DEF NoneOpen, Holds
    <3>3. OneHeld => OneHeld'
      BY <2>3, <3>1 DEF OneHeld, Holds
    <3>4. ASSUME OneQueued PROVE OneQueued'
      <4>1. PICK i \in 1 .. Len(queue) : SocketsIn(queue) = {i} /\ open = {queue[i]}
        BY <3>4 DEF OneQueued
      <4>2. i # 1 /\ i \in Nat
        BY <2>1, <2>2, <4>1 DEF SocketsIn
      <4>3. i - 1 \in 1 .. Len(queue') /\ (i - 1) + 1 = i /\ i - 1 \in 1 .. Len(queue) - 1
        BY <2>2, <4>2
      <4>4. SocketsIn(queue') = {i - 1}
        BY <2>2, <4>1, <4>3
      <4>5. open' = {queue'[i - 1]}
        BY <2>2, <3>1, <4>1, <4>3
      <4> QED BY <3>1, <3>4, <4>3, <4>4, <4>5 DEF OneQueued, Holds
    <3> QED BY <2>5, <3>1, <3>2, <3>3, <3>4 DEF Goal, ListenInv, OneServed
  <2> QED BY <2>4, <2>5
<1>14. CASE AcceptClosing
  <2>1. sockfd # NoSocket /\ CloseListening /\ queue' = queue
    BY <1>14 DEF AcceptClosing, IsListen
  <2> QED BY <1>12, <2>1 DEF Goal
<1>15. CASE UNCHANGED listenVars
  <2>1. UNCHANGED <<sockfd, link, open, sock, queue, pc>>
    BY <1>15 DEF listenVars, status
  <2> QED BY <2>1 DEF Goal, ListenInv, NoneOpen, OneHeld, OneQueued, OneServed, Holds
<1> QED BY <1>1, <1>2, <1>3, <1>4, <1>5, <1>6, <1>7, <1>8, <1>9, <1>10, <1>11, <1>13, <1>14,
           <1>15 DEF ListenNext, Goes, Network, Goal

LEMMA ListenStep ==
  ListenInv /\ ListenOnce /\ ListenOnce' /\ [ListenNext]_listenVars => ListenInv'
<1> SUFFICES ASSUME ListenInv, ListenOnce, ListenOnce', [ListenNext]_listenVars
             PROVE  ListenInv'
  OBVIOUS
<1>1. ListenTypeOK'
  BY ListenTypeStep DEF ListenInv
<1> QED BY <1>1, CallsApartStep, SocketStep DEF ListenInv

(* The types of the listening socket's state, however often Listen is      *)
(* called: a thread has a socket just between Open and the hand-over, and  *)
(* only one that waits for the event sleeps.                               *)
THEOREM ListenTypeTheorem == ListenSpec => []ListenTypeOK
<1>1. ListenInit => ListenTypeOK
  BY ListenInitInv DEF ListenInv
<1> QED BY <1>1, ListenTypeStep, PTL DEF ListenSpec

(* While the application calls Listen once, no listening socket is left    *)
(* without an owner, however many threads close the server however often,  *)
(* and however often the timer binds again.                                *)
THEOREM NoSocketLostTheorem == ListenSpec /\ []ListenOnce => []NoSocketLost
<1>1. ListenInv => NoSocketLost
  <2> SUFFICES ASSUME ListenInv, NEW s \in open
               PROVE  s = sockfd \/ s \in Queued \/ \E t \in Threads : sock[t] = s
    BY DEF NoSocketLost
  <2>1. CASE NoneOpen
    BY <2>1 DEF NoneOpen
  <2>2. CASE OneHeld
    BY <2>2 DEF OneHeld
  <2>3. CASE OneQueued
    <3>1. PICK i \in 1 .. Len(queue) : SocketsIn(queue) = {i} /\ open = {queue[i]}
      BY <2>3 DEF OneQueued
    <3>2. i \in DOMAIN queue /\ queue[i] # NoSocket
      BY <3>1 DEF SocketsIn, ListenInv, ListenTypeOK
    <3> QED BY <3>1, <3>2 DEF Queued, CloseJob
  <2>4. CASE OneServed
    BY <2>4 DEF OneServed
  <2> QED BY <2>1, <2>2, <2>3, <2>4 DEF ListenInv
<1> QED BY <1>1, ListenInitInv, ListenStep, PTL DEF ListenSpec
=============================================================================
