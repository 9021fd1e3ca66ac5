-------------------------- MODULE MessageQueueProofs --------------------------
(***************************************************************************)
(* Proofs about MessageQueue for every number of threads, set of values,   *)
(* first capacity and threshold: one thread is inside, and the locked ring *)
(* implements the queue without limit.                                     *)
(***************************************************************************)
EXTENDS MessageQueue, SequenceTheorems, TLAPS

USE MessageQueueAssumption DEF MessageQueueAssumption

Stored == Values \cup {None}

(* Where the i-th value lies.                                              *)
LEMMA AtType ==
  ASSUME TypeOK, NEW i \in 0 .. cap - 1
  PROVE  At(i) \in Stored
BY DEF TypeOK, At, Stored

LEMMA LengthType ==
  ASSUME TypeOK
  PROVE  GetMQLength \in 0 .. cap - 1
BY DEF TypeOK, GetMQLength

LEMMA CountType ==
  ASSUME TypeOK
  PROVE  Count \in 0 .. cap
BY LengthType DEF TypeOK, Count

(* What waits is a sequence whose i-th value is the i-th of the ring.      *)
ItemsListed ==
  /\ Items \in Seq(Stored)
  /\ Len(Items) = Count
  /\ \A i \in 1 .. Count : Items[i] = At(i - 1)

LEMMA ItemsType == TypeOK => ItemsListed
<1> SUFFICES ASSUME TypeOK PROVE ItemsListed
  OBVIOUS
<1>1. Count \in Nat /\ Count <= cap
  BY CountType DEF TypeOK
<1>2. ASSUME NEW i \in 1 .. Count PROVE At(i - 1) \in Stored
  BY <1>1, AtType DEF TypeOK
<1>3. Items \in [1 .. Count -> Stored]
  BY <1>2 DEF Items
<1> HIDE DEF Items
<1>4. Items \in Seq(Stored)
  BY <1>1, <1>3, SeqDef
<1>5. QED BY <1>1, <1>3, <1>4, LenProperties DEF Items, ItemsListed
-----------------------------------------------------------------------------
LEMMA InvInit == Init => RingInv
BY DEF Init, RingInv, TypeOK, OneInside, Fits, Inside, Places, Methods

(* What ForeachData and CopyAll give.                                      *)
LEMMA ListType ==
  ASSUME TypeOK
  PROVE  [i \in 1 .. GetMQLength |-> At(i - 1)] \in Seq(Stored)
<1>1. GetMQLength \in Nat
  BY LengthType DEF TypeOK
<1>2. ASSUME NEW i \in 1 .. GetMQLength PROVE At(i - 1) \in Stored
  BY LengthType, AtType DEF TypeOK
<1>3. [i \in 1 .. GetMQLength |-> At(i - 1)] \in [1 .. GetMQLength -> Stored]
  BY <1>2
<1>4. QED BY <1>1, <1>3, SeqDef

LEMMA CopyType ==
  ASSUME TypeOK, NEW t \in Threads, CopyAll(t)
  PROVE  copied' \in [Threads -> Seq(Stored)]
<1> DEFINE Raw(i) == IF i < cap THEN queue[i] ELSE None
           list == [i \in 1 .. GetMQLength |->
                      IF head + i - 1 < cap THEN Raw(head + i - 1)
                      ELSE Raw(head + (head + i - 1 - cap))]
<1>1. GetMQLength \in Nat
  BY LengthType DEF TypeOK
<1>2. \A i \in Nat : Raw(i) \in Stored
  BY DEF TypeOK, Stored
<1>3. \A i \in 1 .. GetMQLength : list[i] \in Stored
  BY <1>1, <1>2 DEF TypeOK
<1>4. list \in [1 .. GetMQLength -> Stored]
  BY <1>3
<1> HIDE DEF list
<1>5. list \in Seq(Stored)
  BY <1>1, <1>4, SeqDef
<1>6. copied' = [copied EXCEPT ![t] = list]
  BY DEF CopyAll, list
<1>7. QED BY <1>5, <1>6 DEF TypeOK, Stored

(* The method a thread enters with the lock.                               *)
LEMMA LockEnters ==
  ASSUME NEW t \in Threads, Lock(t)
  PROVE  \E m \in Methods :
           /\ call' = [call EXCEPT ![t] = m]
           /\ pc' = [pc EXCEPT ![t] = Start(m)]
           /\ m = "push" => \E v \in Values : arg' = [arg EXCEPT ![t] = v]
           /\ m # "push" => arg' = arg
<1>1. PICK m \in IF call[t] = "drop" THEN {"drop"} ELSE Methods :
        /\ call' = [call EXCEPT ![t] = m]
        /\ Goto(t, Start(m))
        /\ IF m = "push" THEN \E v \in Values : Brings(t, v) ELSE UNCHANGED arg
  BY DEF Lock, LockIf
<1>2. m \in Methods
  BY DEF Methods
<1>3. QED BY <1>1, <1>2 DEF Goto, Brings

LEMMA TypeStep ==
  ASSUME RingInv, [Next]_vars
  PROVE  TypeOK'
<1> USE DEF RingInv, TypeOK, Goto, Places, Methods, ring
<1>1. CASE UNCHANGED vars
  BY <1>1 DEF vars
<1>2. ASSUME NEW t \in Threads, Begin(t) PROVE TypeOK'
  BY <1>2 DEF Begin
<1>3. ASSUME NEW t \in Threads, Lock(t) PROVE TypeOK'
  <2>1. PICK m \in Methods :
          /\ call' = [call EXCEPT ![t] = m]
          /\ pc' = [pc EXCEPT ![t] = Start(m)]
          /\ m = "push" => \E v \in Values : arg' = [arg EXCEPT ![t] = v]
          /\ m # "push" => arg' = arg
    BY <1>3, LockEnters
  <2>2. arg' \in [Threads -> Values \cup {None}]
    BY <2>1
  <2>3. Start(m) \in Places
    BY DEF Start
  <2>4. QED BY <1>3, <2>1, <2>2, <2>3 DEF Lock, LockIf
<1>4. ASSUME NEW t \in Threads, Store(t) PROVE TypeOK'
  BY <1>4 DEF Store, Fits
<1>5. ASSUME NEW t \in Threads, StepTail(t) PROVE TypeOK'
  BY <1>5 DEF StepTail, Back, Wrap
<1>6. ASSUME NEW t \in Threads, expand_queue(t) PROVE TypeOK'
  <2>1. \A i \in 0 .. cap - 1 : At(i) \in Values \cup {None}
    BY AtType DEF Stored
  <2>2. queue' \in [0 .. cap' - 1 -> Values \cup {None}]
    BY <1>6, <2>1 DEF expand_queue, ExpandTo
  <2>3. QED BY <1>6, <2>2 DEF expand_queue, ExpandTo, Back
<1>7. ASSUME NEW t \in Threads, Take(t) PROVE TypeOK'
  <2>1. queue[head] \in Values \cup {None} \cup Nat
    BY <1>7 DEF Take
  <2>2. <<queue[head]>> \in Seq(Values \cup {None} \cup Nat)
    BY <2>1
  <2>3. QED BY <1>7, <2>2 DEF Take, Gives, Wrap
<1>8. ASSUME NEW t \in Threads, TakeNothing(t) PROVE TypeOK'
  <2>1. <<None>> \in Seq(Values \cup {None} \cup Nat)
    OBVIOUS
  <2>2. QED BY <1>8, <2>1 DEF TakeNothing, Gives, Back
<1>9. ASSUME NEW t \in Threads, Warn(t) PROVE TypeOK'
  BY <1>9 DEF Warn, RaiseTo, CallsBack
<1>10. ASSUME NEW t \in Threads, WithinThreshold(t) PROVE TypeOK'
  BY <1>10 DEF WithinThreshold, Back
<1>11. ASSUME NEW t \in Threads, TellLength(t) PROVE TypeOK'
  <2>1. <<GetMQLength>> \in Seq(Values \cup {None} \cup Nat)
    BY LengthType
  <2>2. QED BY <1>11, <2>1 DEF TellLength, Gives
<1>12. ASSUME NEW t \in Threads, CopyAll(t) PROVE TypeOK'
  <2>1. copied' \in [Threads -> Seq(Values \cup {None})]
    BY <1>12, CopyType DEF Stored
  <2>2. QED BY <1>12, <2>1 DEF CopyAll
<1>13. ASSUME NEW t \in Threads, ForeachData(t) PROVE TypeOK'
  <2> DEFINE list == [i \in 1 .. GetMQLength |-> At(i - 1)]
  <2>1. list \in Seq(Values \cup {None})
    BY ListType DEF Stored
  <2> HIDE DEF list
  <2>2. list \in Seq(Values \cup {None} \cup Nat)
    BY <2>1
  <2>3. got' = [got EXCEPT ![t] = list]
    BY <1>13 DEF ForeachData, Gives, list
  <2>4. QED BY <1>13, <2>2, <2>3 DEF ForeachData, CallsBack
<1>14. ASSUME NEW t \in Threads, Unlock(t) PROVE TypeOK'
  BY <1>14 DEF Unlock, Gives
<1>15. ASSUME NEW t \in Threads, NEW v \in Values, SafeMQPush(t, v)
       PROVE TypeOK'
  BY <1>15 DEF SafeMQPush, Brings
<1>16. ASSUME NEW t \in Threads, SafeMQPop(t) PROVE TypeOK'
  BY <1>16 DEF SafeMQPop
<1>17. ASSUME NEW t \in Threads, Finish(t) PROVE TypeOK'
  BY <1>17 DEF Finish, CallsBack
<1>18. QED
  BY <1>1, <1>2, <1>3, <1>4, <1>5, <1>6, <1>7, <1>8, <1>9, <1>10, <1>11,
     <1>12, <1>13, <1>14, <1>15, <1>16, <1>17 DEF Next, Ring

(* Whoever gets inside finds the lock free; only the thread inside frees   *)
(* it, and leaves.                                                         *)
LEMMA InsideStep ==
  ASSUME RingInv, [Next]_vars
  PROVE  OneInside'
<1> USE DEF RingInv, TypeOK, OneInside, Inside, Goto, Places, Methods
<1>1. CASE UNCHANGED vars
  BY <1>1 DEF vars
<1>2. ASSUME NEW t \in Threads, Begin(t) PROVE OneInside'
  BY <1>2 DEF Begin
<1>3. ASSUME NEW t \in Threads, Lock(t) PROVE OneInside'
  <2>1. PICK m \in Methods : pc' = [pc EXCEPT ![t] = Start(m)]
    BY <1>3, LockEnters
  <2>2. lock = 0 /\ lock' = 1
    BY <1>3 DEF Lock, LockIf
  <2>3. QED BY <2>1, <2>2
<1>4. ASSUME NEW t \in Threads,
             \/ Store(t) \/ StepTail(t) \/ expand_queue(t)
             \/ Take(t) \/ TakeNothing(t) \/ Warn(t) \/ WithinThreshold(t)
             \/ TellLength(t) \/ CopyAll(t) \/ ForeachData(t)
             \/ SafeMQPop(t) \/ Finish(t)
             \/ \E v \in Values : SafeMQPush(t, v)
      PROVE OneInside'
  <2>1. Inside(t) /\ lock' = lock
    BY <1>4 DEF Store, StepTail, expand_queue, ExpandTo, Take, TakeNothing,
       Warn, RaiseTo, WithinThreshold, TellLength, CopyAll, ForeachData,
       SafeMQPop, Finish, SafeMQPush
  <2>2. \E p \in Places : pc' = [pc EXCEPT ![t] = p]
    BY <1>4 DEF Store, StepTail, expand_queue, ExpandTo, Take, TakeNothing,
       Warn, RaiseTo, WithinThreshold, TellLength, CopyAll, ForeachData,
       SafeMQPop, Finish, SafeMQPush, CallsBack, Back
  <2>3. QED BY <2>1, <2>2
<1>5. ASSUME NEW t \in Threads, Unlock(t) PROVE OneInside'
  <2>1. pc'[t] \in {"idle", "spin"} /\ \A u \in Threads \ {t} : pc'[u] = pc[u]
    BY <1>5 DEF Unlock
  <2>2. \A u \in Threads \ {t} : ~Inside(u)
    BY <1>5 DEF Unlock
  <2>3. QED BY <2>1, <2>2
<1>6. QED
  BY <1>1, <1>2, <1>3, <1>4, <1>5 DEF Next, Ring

(* The steps of one thread, with nobody else inside, leave the places of   *)
(* the others as they were.                                                *)
LEMMA OthersFit ==
  ASSUME RingInv, NEW t \in Threads, Inside(t),
         NEW u \in Threads \ {t},
         pc'[u] = pc[u], call'[u] = call[u], arg'[u] = arg[u]
  PROVE  Fits(u)'
BY DEF RingInv, OneInside, Inside, Fits

LEMMA FitsStep ==
  ASSUME RingInv, [Next]_vars
  PROVE  \A u \in Threads : Fits(u)'
<1> USE DEF RingInv, TypeOK, Goto
<1>1. CASE UNCHANGED vars
  BY <1>1 DEF vars, ring, Fits
<1>2. ASSUME NEW t \in Threads, Begin(t)
      PROVE \A u \in Threads : Fits(u)'
  BY <1>2 DEF Begin, Fits, ring
<1>3. ASSUME NEW t \in Threads, Lock(t)
      PROVE \A u \in Threads : Fits(u)'
  <2>1. PICK m \in Methods :
          /\ call' = [call EXCEPT ![t] = m]
          /\ pc' = [pc EXCEPT ![t] = Start(m)]
          /\ m = "push" => \E v \in Values : arg' = [arg EXCEPT ![t] = v]
          /\ m # "push" => arg' = arg
    BY <1>3, LockEnters
  <2>2. Fits(t)'
    BY <2>1 DEF Fits, Start, Methods
  <2>3. \A u \in Threads \ {t} : ~Inside(u)
    BY <1>3 DEF Lock, LockIf, OneInside
  <2>4. \A u \in Threads \ {t} : Fits(u)'
    BY <2>1, <2>3 DEF Inside, Fits
  <2>5. QED BY <2>2, <2>4
<1>4. ASSUME NEW t \in Threads,
             \/ Ring(t) \/ SafeMQPop(t) \/ Finish(t)
             \/ \E v \in Values : SafeMQPush(t, v)
      PROVE \A u \in Threads : Fits(u)'
  <2>1. Inside(t)
    BY <1>4 DEF Ring, Store, StepTail, expand_queue, ExpandTo, Take,
       TakeNothing, Warn, RaiseTo, WithinThreshold, TellLength, CopyAll,
       ForeachData, Unlock, SafeMQPop, Finish, SafeMQPush, Inside
  <2>2. \A u \in Threads \ {t} :
          pc'[u] = pc[u] /\ call'[u] = call[u] /\ arg'[u] = arg[u]
    BY <1>4 DEF Ring, Store, StepTail, expand_queue, ExpandTo, Take,
       TakeNothing, Warn, RaiseTo, WithinThreshold, TellLength, CopyAll,
       ForeachData, Unlock, SafeMQPop, Finish, SafeMQPush, CallsBack, Brings
  <2>3. \A u \in Threads \ {t} : Fits(u)'
    BY <2>1, <2>2, OthersFit
  <2>4. Fits(t)'
    <3>1. CASE Ring(t)
      BY <3>1 DEF Fits, Back, Ring, Store, StepTail, expand_queue, ExpandTo,
         Take, TakeNothing, Warn, RaiseTo, WithinThreshold, TellLength, CopyAll,
         ForeachData, Unlock, CallsBack
    <3>2. CASE \/ SafeMQPop(t) \/ Finish(t)
               \/ \E v \in Values : SafeMQPush(t, v)
      BY <3>2 DEF Fits, SafeMQPop, Finish, SafeMQPush, CallsBack, Brings
    <3> QED BY <1>4, <3>1, <3>2
  <2>5. QED BY <2>3, <2>4
<1>5. QED
  BY <1>1, <1>2, <1>3, <1>4 DEF Next

(* One thread is inside, and the indices are right whenever it is not      *)
(* between two steps of Push.                                              *)
THEOREM InsideTheorem == SafeSpec => []RingInv
<1>1. RingInv /\ [Next]_vars => RingInv'
  BY TypeStep, InsideStep, FitsStep DEF RingInv
<1>2. QED BY InvInit, <1>1, PTL DEF SafeSpec
-----------------------------------------------------------------------------
(* Sequences given by their members.                                       *)
LEMMA IsAppend ==
  ASSUME NEW S, NEW s \in Seq(S), NEW r \in Seq(S), NEW v \in S,
         Len(r) = Len(s) + 1,
         \A i \in 1 .. Len(s) : r[i] = s[i],
         r[Len(r)] = v
  PROVE  r = Append(s, v)
<1>1. /\ Append(s, v) \in Seq(S)
      /\ Len(Append(s, v)) = Len(s) + 1
      /\ \A i \in 1 .. Len(s) : Append(s, v)[i] = s[i]
      /\ Append(s, v)[Len(s) + 1] = v
  BY AppendProperties
<1>2. Len(s) \in Nat
  BY LenProperties
<1>3. \A i \in 1 .. Len(r) : r[i] = Append(s, v)[i]
  BY <1>1, <1>2
<1>4. QED BY <1>1, <1>3, SeqEqual

LEMMA IsTail ==
  ASSUME NEW S, NEW s \in Seq(S), NEW r \in Seq(S), s # <<>>,
         Len(r) = Len(s) - 1,
         \A i \in 1 .. Len(r) : r[i] = s[i + 1]
  PROVE  r = Tail(s)
<1>1. Tail(s) \in Seq(S) /\ Len(Tail(s)) = Len(s) - 1
  BY HeadTailProperties
<1>2. \A i \in 1 .. Len(r) : Tail(s)[i] = s[i + 1]
  BY <1>1, HeadTailProperties
<1>3. QED BY <1>1, <1>2, SeqEqual

LEMMA SameItems ==
  ASSUME TypeOK, TypeOK', Count' = Count,
         \A i \in 0 .. Count - 1 : At(i)' = At(i)
  PROVE  Items' = Items
<1>1. Count \in Nat
  BY CountType DEF TypeOK
<1>2. ItemsListed /\ ItemsListed'
  BY ItemsType, PTL
<1>3. QED BY <1>1, <1>2, SeqEqual DEF ItemsListed

(* Who has the queue to itself.                                            *)
OwnerListed ==
  /\ \A t \in Threads : InFunc(t) => Owner = t
  /\ (\A t \in Threads : ~InFunc(t)) => Owner = None

LEMMA OwnerType == RingInv => OwnerListed
<1> SUFFICES ASSUME RingInv PROVE OwnerListed
  OBVIOUS
<1>1. \A t, u \in Threads : InFunc(t) /\ InFunc(u) => t = u
  BY DEF RingInv, OneInside, InFunc
<1>2. QED BY <1>1 DEF OwnerListed, Owner

(* Only t moves, and t is inside.                                          *)
Moves(t) ==
  /\ Inside(t)
  /\ \A u \in Threads \ {t} : pc'[u] = pc[u] /\ call'[u] = call[u]

LEMMA MovesOwner ==
  ASSUME RingInv, RingInv', NEW t \in Threads, Moves(t)
  PROVE  /\ Owner \in {t, None}
         /\ InFunc(t) => Owner = t
         /\ ~InFunc(t) => Owner = None
         /\ InFunc(t)' => Owner' = t
         /\ ~InFunc(t)' => Owner' = None
<1>1. OwnerListed /\ OwnerListed'
  BY OwnerType, PTL
<1>2. \A u \in Threads \ {t} : ~InFunc(u) /\ ~InFunc(u)'
  BY DEF Moves, RingInv, OneInside, InFunc, Inside
<1>3. QED BY <1>1, <1>2 DEF OwnerListed

(* The ring is between two steps of Push only while its thread is at one.  *)
LEMMA MovesGrowing ==
  ASSUME RingInv, NEW t \in Threads, Moves(t)
  PROVE  /\ Growing <=> pc[t] = "grow"
         /\ Growing' <=> pc'[t] = "grow"
BY DEF RingInv, OneInside, Inside, Moves, Growing

LEMMA SameRing ==
  ASSUME RingInv, RingInv', ring' = ring, Growing' <=> Growing
  PROVE  Items' = Items
<1>1. Count' = Count
  BY DEF Count, GetMQLength, ring
<1>2. \A i \in 0 .. Count - 1 : At(i)' = At(i)
  BY DEF At, ring
<1>3. QED BY <1>1, <1>2, SameItems DEF RingInv

(* The slot that Store fills holds nothing that waits.                     *)
LEMMA StoreItems ==
  ASSUME RingInv, RingInv', NEW t \in Threads, Moves(t), Store(t)
  PROVE  Items' = Items
<1>1. ~Growing /\ ~Growing'
  BY MovesGrowing DEF Store, Goto, RingInv, TypeOK
<1>2. Count = GetMQLength /\ Count' = Count
  BY <1>1 DEF Count, GetMQLength, Store
<1>3. \A i \in 0 .. Count - 1 : At(i)' = At(i)
  BY <1>2 DEF At, Store, RingInv, TypeOK, GetMQLength
<1>4. QED BY <1>2, <1>3, SameItems DEF RingInv

LEMMA StepTailItems ==
  ASSUME RingInv, RingInv', NEW t \in Threads, Moves(t), StepTail(t)
  PROVE  Items' = Append(Items, queue[tail])
<1> USE DEF RingInv, TypeOK
<1>1. ~Growing /\ (Growing' <=> head = tail')
  BY MovesGrowing DEF StepTail, Goto, Back
<1>2. Count = GetMQLength /\ Count' = Count + 1
  BY <1>1 DEF Count, GetMQLength, StepTail, Wrap
<1>3. \A i \in 0 .. Count - 1 : At(i)' = At(i)
  BY DEF At, StepTail
<1>8. ASSUME NEW n, n = Count PROVE At(n)' = queue[tail]
  <2>1. (IF head + n < cap THEN head + n ELSE head + n - cap) = tail
    <3>1. /\ n = IF head <= tail THEN tail - head ELSE tail + cap - head
          /\ head \in Nat /\ tail \in Nat /\ cap \in Nat /\ head < cap /\ tail < cap
      BY <1>2, <1>8 DEF GetMQLength
    <3> HIDE DEF RingInv, TypeOK
    <3> QED BY <3>1
  <2>2. QED BY <2>1 DEF At, StepTail
<1>4. ItemsListed /\ ItemsListed'
  BY ItemsType, PTL
<1>5. queue[tail] \in Stored
  BY DEF Stored
<1>11. TypeOK
  OBVIOUS
<1> HIDE DEF RingInv, TypeOK
<1>6. Count \in Nat
  BY <1>11, CountType
<1>7. \A i \in 1 .. Len(Items) : Items'[i] = Items[i]
  BY <1>2, <1>3, <1>4, <1>6 DEF ItemsListed
<1>9. Items'[Len(Items')] = queue[tail]
  <2>1. PICK n : n = Count
    OBVIOUS
  <2>2. At(n)' = queue[tail] /\ Len(Items') = n + 1 /\ n \in Nat
    BY <1>2, <1>4, <1>6, <1>8, <2>1 DEF ItemsListed
  <2>3. \A i \in 1 .. n + 1 : Items'[i] = At(i - 1)'
    BY <1>2, <1>4, <2>1 DEF ItemsListed
  <2>4. Items'[n + 1] = At((n + 1) - 1)' /\ (n + 1) - 1 = n
    BY <2>2, <2>3
  <2>5. QED BY <2>2, <2>4
<1>10. QED BY <1>2, <1>4, <1>5, <1>7, <1>9, IsAppend DEF ItemsListed

LEMMA ExpandItems ==
  ASSUME RingInv, RingInv', NEW t \in Threads, Moves(t), expand_queue(t)
  PROVE  Items' = Items
<1> USE DEF RingInv, TypeOK
<1>1. Growing /\ ~Growing'
  BY MovesGrowing DEF expand_queue, ExpandTo, Goto, Back
<1>2. Count = cap /\ Count' = cap
  BY <1>1 DEF Count, GetMQLength, expand_queue, ExpandTo
<1>3. \A i \in 0 .. Count - 1 : At(i)' = At(i)
  <2>1. TAKE i \in 0 .. Count - 1
  <2>2. i < cap /\ i \in 0 .. 2 * cap - 1
    BY <1>2
  <2>3. queue'[i] = At(i)
    BY <2>2 DEF expand_queue, ExpandTo
  <2>4. head' = 0 /\ cap' = 2 * cap /\ i < cap' /\ i \in Nat
    BY <2>2 DEF expand_queue, ExpandTo
  <2> HIDE DEF RingInv, TypeOK
  <2>5. At(i)' = queue'[i]
    BY <2>4 DEF At
  <2>6. QED BY <2>3, <2>5
<1>4. QED BY <1>2, <1>3, SameItems

LEMMA TakeItems ==
  ASSUME RingInv, RingInv', NEW t \in Threads, Moves(t), Take(t)
  PROVE  /\ Items # <<>>
         /\ Head(Items) = queue[head]
         /\ Items' = Tail(Items)
<1> USE DEF RingInv, TypeOK
<1>1. ~Growing /\ ~Growing'
  BY MovesGrowing DEF Take, Goto
<1>2. Count = GetMQLength /\ Count # 0 /\ Count' = Count - 1
  BY <1>1 DEF Count, GetMQLength, Take, Wrap
<1>3. At(0) = queue[head]
  BY DEF At
<1>4. Count \in Nat /\ Count < cap
  <2>1. GetMQLength \in 0 .. cap - 1
    BY LengthType
  <2>2. QED BY <1>2, <2>1
<1>5. \A i \in 0 .. Count' - 1 : At(i)' = At(i + 1)
  <2>1. TAKE i \in 0 .. Count' - 1
  <2>2. i \in Nat /\ i + 1 < cap
    BY <1>2, <1>4
  <2>3. CASE head + 1 < cap
    BY <2>2, <2>3 DEF At, Take, Wrap
  <2>4. CASE head + 1 = cap
    <3>1. head' = 0 /\ cap' = cap /\ queue' = queue
      BY <2>4 DEF Take, Wrap
    <3>2. At(i)' = queue[i]
      BY <2>2, <3>1 DEF At
    <3>3. ~(head + (i + 1) < cap) /\ head + (i + 1) - cap = i
      BY <2>2, <2>4
    <3>4. At(i + 1) = queue[i]
      BY <3>3 DEF At
    <3>5. QED BY <3>2, <3>4
  <2>5. QED BY <2>3, <2>4
<1>6. ItemsListed /\ ItemsListed'
  BY ItemsType, PTL
<1> HIDE DEF RingInv, TypeOK
<1>7. Items # <<>>
  BY <1>2, <1>4, <1>6 DEF ItemsListed
<1>8. Head(Items) = queue[head]
  BY <1>2, <1>3, <1>4, <1>6, <1>7 DEF ItemsListed
<1>9. \A i \in 1 .. Len(Items') : Items'[i] = Items[i + 1]
  BY <1>2, <1>4, <1>5, <1>6 DEF ItemsListed
<1>10. QED BY <1>2, <1>4, <1>6, <1>7, <1>8, <1>9, IsTail DEF ItemsListed

LEMMA AtRest ==
  ASSUME RingInv, NEW t \in Threads, Moves(t), pc[t] # "grow"
  PROVE  /\ Len(Items) = GetMQLength
         /\ Items = [i \in 1 .. GetMQLength |-> At(i - 1)]
         /\ head = tail => Items = <<>>
<1>1. Count = GetMQLength
  BY MovesGrowing DEF Count
<1>2. ItemsListed
  BY ItemsType DEF RingInv
<1>3. head = tail => GetMQLength = 0
  BY DEF RingInv, TypeOK, GetMQLength
<1>4. Len(Items) = GetMQLength /\ Items \in Seq(Stored)
  BY <1>1, <1>2 DEF ItemsListed
<1>5. head = tail => Items = <<>>
  BY <1>3, <1>4, EmptySeq
<1>6. Items = [i \in 1 .. GetMQLength |-> At(i - 1)]
  BY <1>1 DEF Items
<1>7. QED BY <1>4, <1>5, <1>6
-----------------------------------------------------------------------------
(* Steps outside, which the callers of a queue do not see.                 *)
LEMMA OutsideStep ==
  ASSUME RingInv, RingInv', NEW t \in Threads, Begin(t) \/ Lock(t)
  PROVE  [Fifo!Next]_(Fifo!fifoVars)
<1>1. ring' = ring /\ got' = got
  BY DEF Begin, Lock, LockIf, ring
<1>2. Growing' <=> Growing
  <2>1. PICK p \in Places \ {"grow"} : pc' = [pc EXCEPT ![t] = p]
    BY LockEnters DEF Begin, Goto, Places, Methods, Start
  <2>2. pc[t] # "grow"
    BY DEF Begin, Lock, LockIf
  <2>3. QED BY <2>1, <2>2 DEF Growing, RingInv, TypeOK
<1>3. Items' = Items
  BY <1>1, <1>2, SameRing
<1>4. OwnerListed /\ OwnerListed'
  BY OwnerType, PTL
<1>5. CASE Begin(t)
  <2>1. \A u \in Threads : InFunc(u)' <=> InFunc(u)
    BY <1>5 DEF Begin, Goto, InFunc, Inside, RingInv, TypeOK
  <2>2. Owner' = Owner
    BY <1>4, <2>1 DEF OwnerListed
  <2>3. QED BY <1>1, <1>3, <2>2 DEF Fifo!fifoVars
<1>6. CASE Lock(t)
  <2>1. \A u \in Threads : ~InFunc(u)
    BY <1>6 DEF Lock, LockIf, InFunc, RingInv, OneInside
  <2>2. \A u \in Threads \ {t} : ~InFunc(u)'
    <3>1. PICK m \in Methods : /\ pc' = [pc EXCEPT ![t] = Start(m)]
                               /\ call' = [call EXCEPT ![t] = m]
      BY <1>6, LockEnters
    <3>2. QED BY <2>1, <3>1 DEF InFunc, Inside
  <2>3. Owner = None /\ Owner' \in {t, None}
    BY <1>4, <2>1, <2>2 DEF OwnerListed
  <2>4. QED
    BY <1>1, <1>3, <2>3 DEF Fifo!fifoVars, Fifo!Next, Fifo!Open
<1>7. QED BY <1>5, <1>6

(* Steps inside that leave the ring and its owner.                         *)
LEMMA SilentStep ==
  ASSUME RingInv, RingInv', NEW t \in Threads, Moves(t),
         ring' = ring, got' = got, pc[t] # "grow", pc'[t] # "grow",
         InFunc(t)' => InFunc(t)
  PROVE  [Fifo!Next]_(Fifo!fifoVars)
<1>1. Items' = Items
  BY MovesGrowing, SameRing
<1>2. Owner' = Owner \/ (Owner = t /\ Owner' = None)
  BY MovesOwner
<1>3. QED BY <1>1, <1>2 DEF Fifo!fifoVars, Fifo!Next, Fifo!Close

(* An answer is of the moment.                                             *)
LEMMA AnswerStep ==
  ASSUME RingInv, RingInv', NEW t \in Threads, Moves(t),
         ring' = ring, pc[t] # "grow", pc'[t] # "grow",
         InFunc(t)' <=> InFunc(t),
         \/ got' = [got EXCEPT ![t] = <<>>]
         \/ Items = <<>> /\ got' = [got EXCEPT ![t] = <<None>>]
         \/ got' = [got EXCEPT ![t] = <<Len(Items)>>]
         \/ got' = [got EXCEPT ![t] = Items]
  PROVE  [Fifo!Next]_(Fifo!fifoVars)
<1>1. Items' = Items
  BY MovesGrowing, SameRing
<1>2. Owner' = Owner /\ Owner \in {t, None}
  BY MovesOwner
<1>3. QED
  BY <1>1, <1>2 DEF Fifo!fifoVars, Fifo!Next, Fifo!TellLength, Fifo!TellAll,
     Fifo!Return, Fifo!GetNothing, Fifo!Gives, Fifo!May

LEMMA InsideSilent ==
  ASSUME RingInv, RingInv', NEW t \in Threads,
         \/ Warn(t) \/ WithinThreshold(t) \/ CopyAll(t)
         \/ SafeMQPop(t) \/ Finish(t)
         \/ \E v \in Values : SafeMQPush(t, v)
  PROVE  [Fifo!Next]_(Fifo!fifoVars)
<1> USE DEF Warn, RaiseTo, WithinThreshold, CopyAll, SafeMQPop, Finish,
            SafeMQPush, CallsBack, Back, Goto
<1>1. PICK p \in {"over", "spin", "func", "unlock", "pop", "push"} :
        pc' = [pc EXCEPT ![t] = p]
  OBVIOUS
<1>2. pc[t] \in {"over", "copy", "func"} /\ call' = call
  OBVIOUS
<1>3. Moves(t) /\ pc'[t] # "grow" /\ pc[t] # "grow"
  BY <1>1, <1>2 DEF Moves, Inside, RingInv, TypeOK
<1>4. InFunc(t)' => InFunc(t)
  BY <1>2, <1>3 DEF InFunc, Moves
<1>5. ring' = ring /\ got' = got
  OBVIOUS
<1>6. QED BY <1>3, <1>4, <1>5, SilentStep

LEMMA InsideAnswers ==
  ASSUME RingInv, RingInv', NEW t \in Threads,
         TakeNothing(t) \/ TellLength(t) \/ ForeachData(t) \/ Unlock(t)
  PROVE  [Fifo!Next]_(Fifo!fifoVars)
<1> USE DEF TakeNothing, TellLength, ForeachData, Unlock, CallsBack, Goto, Gives
<1>1. PICK p \in {"func", "unlock", "spin", "idle"} :
        pc' = [pc EXCEPT ![t] = p]
  BY DEF Back
<1>2. pc[t] \in {"pop", "length", "foreach", "unlock"}
  OBVIOUS
<1>3. \A u \in Threads \ {t} : call'[u] = call[u]
  <2>1. CASE Unlock(t)
    <3>1. PICK c : call' = [call EXCEPT ![t] = c]
      BY <2>1
    <3>2. QED BY <3>1 DEF RingInv, TypeOK
  <2>2. CASE TakeNothing(t) \/ TellLength(t) \/ ForeachData(t)
    BY <2>2
  <2>3. QED BY <2>1, <2>2
<1>4. Moves(t) /\ pc'[t] # "grow" /\ pc[t] # "grow"
  BY <1>1, <1>2, <1>3 DEF Moves, Inside, RingInv, TypeOK
<1>5. InFunc(t)' <=> InFunc(t)
  <2> USE DEF RingInv, TypeOK, InFunc, Inside
  <2>1. CASE TakeNothing(t)
    <3>1. pc'[t] = Back(t) /\ call' = call /\ pc[t] = "pop"
      BY <2>1
    <3>2. QED BY <3>1 DEF Back
  <2>2. CASE TellLength(t) \/ ForeachData(t)
    <3>1. call[t] # "func" /\ call' = call
      BY <2>2 DEF Fits
    <3>2. QED BY <3>1
  <2>3. CASE Unlock(t)
    <3>1. pc[t] = "unlock" /\ pc'[t] \in {"idle", "spin"}
      BY <2>3
    <3>2. QED BY <3>1
  <2>4. QED BY <2>1, <2>2, <2>3
<1>6. /\ Len(Items) = GetMQLength
      /\ Items = [i \in 1 .. GetMQLength |-> At(i - 1)]
      /\ head = tail => Items = <<>>
  BY <1>4, AtRest
<1>7. ring' = ring
  OBVIOUS
<1>8. \/ got' = [got EXCEPT ![t] = <<>>]
      \/ Items = <<>> /\ got' = [got EXCEPT ![t] = <<None>>]
      \/ got' = [got EXCEPT ![t] = <<Len(Items)>>]
      \/ got' = [got EXCEPT ![t] = Items]
  BY <1>6
<1>9. QED BY <1>4, <1>5, <1>7, <1>8, AnswerStep

LEMMA InsideChanges ==
  ASSUME RingInv, RingInv', NEW t \in Threads,
         Store(t) \/ StepTail(t) \/ expand_queue(t) \/ Take(t)
  PROVE  [Fifo!Next]_(Fifo!fifoVars)
<1> USE DEF Store, StepTail, expand_queue, ExpandTo, Take, Goto
<1>1. PICK p \in {"step", "grow", "func", "unlock", "over"} :
        /\ pc' = [pc EXCEPT ![t] = p]
        /\ p = "func" => call[t] = "func"
        /\ p = "unlock" => call[t] # "func"
  BY DEF Back
<1>2. pc[t] \in {"push", "step", "grow", "pop"} /\ call' = call
  OBVIOUS
<1>3. Moves(t)
  BY <1>1, <1>2 DEF Moves, Inside, RingInv, TypeOK
<1>4. InFunc(t)' <=> InFunc(t)
  BY <1>1, <1>2 DEF InFunc, Inside, RingInv, TypeOK
<1>5. Owner' = Owner /\ Owner \in {t, None}
  BY <1>3, <1>4, MovesOwner
<1>6. CASE Store(t)
  BY <1>3, <1>5, <1>6, StoreItems DEF Fifo!fifoVars
<1>7. CASE StepTail(t)
  <2>1. queue[tail] \in Values
    BY <1>7 DEF RingInv, Fits
  <2>2. Items' = Append(Items, queue[tail])
    BY <1>3, <1>7, StepTailItems
  <2>3. Fifo!Put(t, queue[tail])
    BY <1>5, <1>7, <2>2 DEF Fifo!Put, Fifo!May
  <2>4. QED BY <2>1, <2>3 DEF Fifo!Next
<1>8. CASE expand_queue(t)
  BY <1>3, <1>5, <1>8, ExpandItems DEF Fifo!fifoVars
<1>9. CASE Take(t)
  <2>1. Items # <<>> /\ Head(Items) = queue[head] /\ Items' = Tail(Items)
    BY <1>3, <1>9, TakeItems
  <2>2. Fifo!Get(t)
    BY <1>5, <1>9, <2>1 DEF Fifo!Get, Fifo!May, Fifo!Gives, Gives
  <2>3. QED BY <2>2 DEF Fifo!Next
<1>10. QED BY <1>6, <1>7, <1>8, <1>9

(* The locked ring is the queue without limit, whatever its first size.    *)
THEOREM FifoTheorem == SafeSpec => FifoKept
<1>1. Init => Fifo!Init
  <2> SUFFICES ASSUME Init PROVE Fifo!Init
    OBVIOUS
  <2>1. RingInv
    BY InvInit
  <2>2. Count = 0
    BY DEF Init, Count, Growing, GetMQLength
  <2>3. Items = <<>>
    BY <2>1, <2>2, ItemsType, EmptySeq DEF RingInv, ItemsListed
  <2>4. Owner = None
    BY DEF Init, Owner, InFunc, Inside
  <2>5. QED BY <2>3, <2>4 DEF Init, Fifo!Init
<1>2. RingInv /\ RingInv' /\ [Next]_vars => [Fifo!Next]_(Fifo!fifoVars)
  <2> SUFFICES ASSUME RingInv, RingInv', [Next]_vars
               PROVE  [Fifo!Next]_(Fifo!fifoVars)
    OBVIOUS
  <2>1. CASE UNCHANGED vars
    <3>1. ring' = ring /\ got' = got /\ (Growing' <=> Growing)
      BY <2>1 DEF vars, ring, Growing
    <3>2. Owner' = Owner
      <4>1. \A t \in Threads : InFunc(t)' <=> InFunc(t)
        BY <2>1 DEF vars, InFunc, Inside
      <4>2. OwnerListed /\ OwnerListed'
        BY OwnerType, PTL
      <4>3. QED BY <4>1, <4>2 DEF OwnerListed
    <3>3. QED BY <3>1, <3>2, SameRing DEF Fifo!fifoVars
  <2>2. CASE Next
    BY <2>2, OutsideStep, InsideSilent, InsideAnswers, InsideChanges
    DEF Next, Ring
  <2>3. QED BY <2>1, <2>2
<1>3. QED BY <1>1, <1>2, InsideTheorem, PTL DEF SafeSpec, FifoKept, Fifo!Spec
=============================================================================
