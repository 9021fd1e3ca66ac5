----------------------------- MODULE MessageQueue -----------------------------
(***************************************************************************)
(* CMessageQueueLock: a ring that doubles when it is full, under a spin    *)
(* lock.  Between the step that fills the last slot and the end of         *)
(* expand_queue the ring looks empty; only the lock hides it.              *)
(*                                                                         *)
(* A section under the lock has a step for each change of what another     *)
(* call would read.  Callbacks of the application run with the lock held,  *)
(* which the same thread cannot take again.                                *)
(***************************************************************************)
EXTENDS Integers, Sequences, FiniteSets

CONSTANTS
  Threads,
  Values,
  None,         (* no value, no thread                                     *)
  Cap0,         (* nDefaultQueueSize                                       *)
  Overload,     (* nOverLoadLength                                         *)
  MaxItems,     (* bound: values waiting                                   *)
  Nested        (* whether a callback may call a method that locks         *)

ASSUME MessageQueueAssumption ==
  /\ None \notin Values /\ None \notin Threads
  /\ Cap0 \in Nat \ {0} /\ Overload \in Nat \ {0} /\ MaxItems \in Nat
  /\ Nested \in BOOLEAN

VARIABLES
  cap, head, tail, queue,
  threshold,    (* m_overload_threshold                                    *)
  lock,         (* m_lock.m_nLock                                          *)
  pc,           (* the next step of a thread                               *)
  call,         (* the method it is in                                     *)
  arg,          (* the value it has still to push, or None                 *)
  got,          (* what the call has given it; <<None>> is "nothing"        *)
  copied        (* what CopyAll has written for it                         *)

ring == <<cap, head, tail, queue>>
vars == <<ring, threshold, lock, pc, call, arg, got, copied>>

Init ==
  /\ cap = Cap0 /\ head = 0 /\ tail = 0
  /\ queue = [i \in 0 .. Cap0 - 1 |-> None]
  /\ threshold = Overload
  /\ lock = 0
  /\ pc = [t \in Threads |-> "idle"]
  /\ call = [t \in Threads |-> "none"]
  /\ arg = [t \in Threads |-> None]
  /\ got = [t \in Threads |-> <<>>]
  /\ copied = [t \in Threads |-> <<>>]

Methods == {"push", "pop", "length", "copy", "foreach", "func", "drop"}

(* Drop_Queue calls Pop.                                                   *)
Start(m) == IF m = "drop" THEN "pop" ELSE m

Goto(t, place) == pc' = [pc EXCEPT ![t] = place]
Gives(t, result) == got' = [got EXCEPT ![t] = result]

(* The end of Push or Pop: of a method that unlocks, or of SafeMQPush or   *)
(* SafeMQPop, which go back to the function of SafeFuncCallback.           *)
Back(t) == IF call[t] = "func" THEN "func" ELSE "unlock"
-----------------------------------------------------------------------------
(* The i-th value of the ring, at (m_head + i) % m_cap.                    *)
At(i) == queue[IF head + i < cap THEN head + i ELSE head + i - cap]

GetMQLength == IF head <= tail THEN tail - head ELSE tail + cap - head

Growing == \E t \in Threads : pc[t] = "grow"

(* The values that wait, also when the ring is full.                       *)
Count == IF Growing THEN cap ELSE GetMQLength
Items == [i \in 1 .. Count |-> At(i - 1)]

Brings(t, v) == Count < MaxItems /\ arg' = [arg EXCEPT ![t] = v]
-----------------------------------------------------------------------------
(* A method that locks is called; which one is told once it has the lock.  *)
Begin(t) ==
  /\ pc[t] = "idle"
  /\ Goto(t, "spin")
  /\ UNCHANGED <<ring, threshold, lock, call, arg, got, copied>>

(* The exchange that finds 0; one that finds 1 changes nothing.            *)
LockIf(t, free) ==
  /\ pc[t] = "spin"
  /\ free
  /\ lock' = 1
  /\ \E m \in IF call[t] = "drop" THEN {"drop"} ELSE Methods :
       /\ call' = [call EXCEPT ![t] = m]
       /\ Goto(t, Start(m))
       /\ IF m = "push" THEN \E v \in Values : Brings(t, v) ELSE UNCHANGED arg
  /\ UNCHANGED <<ring, threshold, got, copied>>

FaultLocksOnce(t) == LockIf(t, TRUE)

Lock(t) == LockIf(t, lock = 0)

(* Drop_Queue goes on while Pop gives nothing.                             *)
Unlock(t) ==
  LET again == call[t] = "drop" /\ got[t] = <<None>> IN
  /\ pc[t] = "unlock"
  /\ lock' = 0
  /\ Goto(t, IF again THEN "spin" ELSE "idle")
  /\ call' = [call EXCEPT ![t] = IF again THEN "drop" ELSE "none"]
  /\ Gives(t, <<>>)
  /\ copied' = [copied EXCEPT ![t] = <<>>]
  /\ UNCHANGED <<ring, threshold, arg>>
-----------------------------------------------------------------------------
Wrap(i) == IF i >= cap THEN 0 ELSE i

Store(t) ==
  /\ pc[t] = "push"
  /\ queue' = [queue EXCEPT ![tail] = arg[t]]
  /\ arg' = [arg EXCEPT ![t] = None]
  /\ Goto(t, "step")
  /\ UNCHANGED <<cap, head, tail, threshold, lock, call, got, copied>>

StepTail(t) ==
  /\ pc[t] = "step"
  /\ tail' = Wrap(tail + 1)
  /\ Goto(t, IF head = tail' THEN "grow" ELSE Back(t))
  /\ UNCHANGED <<cap, head, queue, threshold, lock, call, arg, got, copied>>

ExpandTo(t, old(_)) ==
  /\ pc[t] = "grow"
  /\ queue' = [i \in 0 .. 2 * cap - 1 |-> IF i < cap THEN old(i) ELSE None]
  /\ head' = 0
  /\ tail' = cap
  /\ cap' = 2 * cap
  /\ Goto(t, Back(t))
  /\ UNCHANGED <<threshold, lock, call, arg, got, copied>>

FaultCopiesFlat(t) == LET Flat(i) == queue[i] IN ExpandTo(t, Flat)

expand_queue(t) == ExpandTo(t, At)
-----------------------------------------------------------------------------
Take(t) ==
  /\ pc[t] = "pop"
  /\ head # tail
  /\ Gives(t, <<queue[head]>>)
  /\ head' = Wrap(head + 1)
  /\ Goto(t, "over")
  /\ UNCHANGED <<cap, tail, queue, threshold, lock, call, arg, copied>>

TakeNothing(t) ==
  /\ pc[t] = "pop"
  /\ head = tail
  /\ Gives(t, <<None>>)
  /\ threshold' = Overload
  /\ Goto(t, Back(t))
  /\ UNCHANGED <<ring, lock, call, arg, copied>>

(* A callback may lead to Lock again.                                      *)
CallsBack(t, place) ==
  \E p \in {place} \cup (IF Nested THEN {"spin"} ELSE {}) : Goto(t, p)

RaiseTo(t, limit) ==
  /\ pc[t] = "over"
  /\ GetMQLength > threshold
  /\ threshold' = limit
  /\ CallsBack(t, "over")
  /\ UNCHANGED <<ring, lock, call, arg, got, copied>>

FaultSameThreshold(t) == RaiseTo(t, threshold)

Warn(t) == RaiseTo(t, 2 * threshold)

WithinThreshold(t) ==
  /\ pc[t] = "over"
  /\ GetMQLength <= threshold
  /\ Goto(t, Back(t))
  /\ UNCHANGED <<ring, threshold, lock, call, arg, got, copied>>
-----------------------------------------------------------------------------
TellLength(t) ==
  /\ pc[t] = "length"
  /\ Gives(t, <<GetMQLength>>)
  /\ Goto(t, "unlock")
  /\ UNCHANGED <<ring, threshold, lock, call, arg, copied>>

(* The second memcpy starts at m_head again, and may leave the ring.       *)
CopyAll(t) ==
  LET Raw(i) == IF i < cap THEN queue[i] ELSE None IN
  /\ pc[t] = "copy"
  /\ copied' = [copied EXCEPT ![t] = [i \in 1 .. GetMQLength |->
       IF head + i - 1 < cap THEN Raw(head + i - 1)
       ELSE Raw(head + (head + i - 1 - cap))]]
  /\ Goto(t, "unlock")
  /\ UNCHANGED <<ring, threshold, lock, call, arg, got>>

ForeachData(t) ==
  /\ pc[t] = "foreach"
  /\ Gives(t, [i \in 1 .. GetMQLength |-> At(i - 1)])
  /\ CallsBack(t, "unlock")
  /\ UNCHANGED <<ring, threshold, lock, call, arg, copied>>
-----------------------------------------------------------------------------
(* What the function of SafeFuncCallback does next.                        *)
SafeMQPush(t, v) ==
  /\ pc[t] = "func"
  /\ Brings(t, v)
  /\ Goto(t, "push")
  /\ UNCHANGED <<ring, threshold, lock, call, got, copied>>

SafeMQPop(t) ==
  /\ pc[t] = "func"
  /\ Goto(t, "pop")
  /\ UNCHANGED <<ring, threshold, lock, call, arg, got, copied>>

Finish(t) ==
  /\ pc[t] = "func"
  /\ CallsBack(t, "unlock")
  /\ UNCHANGED <<ring, threshold, lock, call, arg, got, copied>>
-----------------------------------------------------------------------------
Ring(t) ==
  \/ Store(t) \/ StepTail(t) \/ expand_queue(t)
  \/ Take(t) \/ TakeNothing(t) \/ Warn(t) \/ WithinThreshold(t)
  \/ TellLength(t) \/ CopyAll(t) \/ ForeachData(t) \/ Unlock(t)

Next == \E t \in Threads :
  \/ Begin(t) \/ Lock(t) \/ Ring(t)
  \/ \E v \in Values : SafeMQPush(t, v)
  \/ SafeMQPop(t) \/ Finish(t)

SafeSpec == Init /\ [][Next]_vars

(* A thread inside a call is scheduled, and a callback ends.               *)
Fairness == \A t \in Threads :
  WF_vars(Lock(t)) /\ WF_vars(Ring(t)) /\ SF_vars(Finish(t))

Spec == SafeSpec /\ Fairness
-----------------------------------------------------------------------------
Places == {"idle", "spin", "unlock", "step", "grow", "over"} \cup Methods

Inside(t) == pc[t] \notin {"idle", "spin"}

TypeOK ==
  /\ cap \in Nat \ {0} /\ head \in 0 .. cap - 1 /\ tail \in 0 .. cap - 1
  /\ queue \in [0 .. cap - 1 -> Values \cup {None}]
  /\ threshold \in Nat \ {0}
  /\ lock \in {0, 1}
  /\ pc \in [Threads -> Places]
  /\ call \in [Threads -> Methods \cup {"none"}]
  /\ arg \in [Threads -> Values \cup {None}]
  /\ got \in [Threads -> Seq(Values \cup {None} \cup Nat)]
  /\ copied \in [Threads -> Seq(Values \cup {None})]

(* What holds at a place inside.                                           *)
Fits(t) ==
  /\ pc[t] = "push" => arg[t] \in Values
  /\ pc[t] = "step" => queue[tail] \in Values
  /\ pc[t] = "grow" => head = tail
  /\ pc[t] = "func" => call[t] = "func"
  /\ pc[t] \in {"length", "copy", "foreach"} => call[t] = pc[t]

(* The spin lock lets one thread in (253-255 and the like), also into the  *)
(* steps between which the indices do not describe the ring.               *)
OneInside ==
  \A t \in Threads : Inside(t) =>
    /\ lock = 1
    /\ \A u \in Threads : Inside(u) => u = t

(* The types, with what makes them last: the lock, and the fit of the      *)
(* indices to the place of the thread inside.                              *)
RingInv == TypeOK /\ OneInside /\ \A t \in Threads : Fits(t)

(* The thread whose function has the queue to itself.                      *)
InFunc(t) == call[t] = "func" /\ Inside(t) /\ pc[t] # "unlock"
Owner == IF \E t \in Threads : InFunc(t)
         THEN CHOOSE t \in Threads : InFunc(t) ELSE None

Fifo == INSTANCE FifoQueue WITH items <- Items, owner <- Owner

(* The locked ring is a queue without limit: a value comes out once and in *)
(* order whatever calls meet while the ring fills and is copied to a       *)
(* larger one (198-206), every length or list is of one moment, and no     *)
(* call gets between those of one SafeFuncCallback (253-263).              *)
FifoKept == Fifo!Spec

(* CopyAll gives what ForeachData would (143-151).                         *)
CopyIsWhole ==
  \A t \in Threads : call[t] = "copy" /\ pc[t] = "unlock" => copied[t] = Items

(* Drop_Queue ends when the queue is empty, and has called back with every *)
(* value by then (153-159).                                                *)
DropEmpties == [][\A t \in Threads :
  call[t] = "drop" /\ pc[t] = "unlock" /\ pc'[t] = "idle" => got[t] = <<None>>]_vars

(* The spin lock is taken and given back: while any thread is in a call    *)
(* some call comes to its end.  A waiting thread may be overtaken for      *)
(* ever; a callback that stays or a threshold that stays stop them all.    *)
CallsEnd == (\E t \in Threads : pc[t] # "idle")
              ~> (\E t \in Threads : pc[t] = "unlock")
=============================================================================
