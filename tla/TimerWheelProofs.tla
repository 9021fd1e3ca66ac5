--------------------------- MODULE TimerWheelProofs ---------------------------
(***************************************************************************)
(* Proofs about TimerWheel, for any number of timers and keys, any sizes   *)
(* of the wheels and any delay below half the time: first the map of       *)
(* repeating timers, then the arithmetic of the wheels, and on it that the *)
(* wheel implements TimerService.                                          *)
(***************************************************************************)
EXTENDS TimerWheel, TLAPS

(* The types of what the map is about; the lists need only be lists.       *)
NodeTypes ==
  /\ repeat \in [Timers -> Nat]
  /\ valid \in [Timers -> BOOLEAN]
  /\ key \in [Timers -> Keys \cup {None}]
  /\ where = [n \in Timers |-> where[n]]
  /\ map \in [Keys -> Timers \cup {None}]

(* The node in hand is of the batch, and one that is about to be freed has *)
(* been deleted or does not repeat.                                        *)
HandIsBusy ==
  /\ pc \in {"call", "rearm", "free"} => hand \in Timers /\ where[hand] = Batch
  /\ pc = "free" => ~valid[hand] \/ repeat[hand] = 0
  /\ phase \in {"first", "second"}

RepeatingHasKey == \A n \in Timers : repeat[n] > 0 => key[n] \in Keys

MInv == NodeTypes /\ HandIsBusy /\ RepeatingHasKey /\ MapSound

(* add_node puts a node into a list of a wheel.                            *)
LEMMA SlotLemma ==
  \A e, c : Slot(e, c) # Free /\ Slot(e, c) # Batch
  BY DEF Slot, NearList, FarList, Free, Batch

(* timer_shift moves nodes of the wheels only.                             *)
LEMMA ShiftedLemma ==
  \A c : Free \notin Shifted(c) /\ Batch \notin Shifted(c)
  BY DEF Shifted, ShiftedAt, FarList, Free, Batch

LEMMA ListLemma ==
  \A i : NearList(i) # Free /\ NearList(i) # Batch /\ Free # Batch
  BY DEF NearList, Free, Batch

LEMMA InitM == Init => MInv
  BY WheelAssumption
  DEF Init, MInv, NodeTypes, HandIsBusy, RepeatingHasKey, MapSound

(* What a new node does to the conjuncts that do not speak of the map.     *)
LEMMA NewNodeLemma ==
  ASSUME MInv, NEW n \in Timers, NEW delay \in 1..MaxDelay, NEW repeats \in BOOLEAN,
         NEW k \in Keys \cup {None}, repeats => k \in Keys,
         NewNode(n, delay, repeats, k), UNCHANGED <<pc, phase, hand>>
  PROVE  /\ repeat' \in [Timers -> Nat]
         /\ valid' \in [Timers -> BOOLEAN]
         /\ key' \in [Timers -> Keys \cup {None}]
         /\ where' = [m \in Timers |-> where'[m]]
         /\ HandIsBusy' /\ RepeatingHasKey'
         /\ where'[n] # Free
<1> USE DEF MInv, NodeTypes, NewNode
<1>1. delay \in Nat
  BY WheelAssumption
<1>2. hand \in Timers /\ where[hand] = Batch => hand # n
  BY ListLemma
<1>3. HandIsBusy'
  BY <1>2 DEF HandIsBusy
<1>4. RepeatingHasKey'
  BY <1>1 DEF RepeatingHasKey
<1>5. where'[n] # Free
  BY SlotLemma
<1> QED BY <1>1, <1>3, <1>4, <1>5

LEMMA StepM == MInv /\ [Next]_vars => MInv'
<1> SUFFICES ASSUME MInv, [Next]_vars PROVE MInv'
  OBVIOUS
<1> USE WheelAssumption DEF MInv
<1>1. CASE UNCHANGED vars
  BY <1>1 DEF vars, NodeTypes, HandIsBusy, RepeatingHasKey, MapSound
<1>2. ASSUME NEW n \in Timers, NEW delay \in 1..MaxDelay, AddTimeOut(n, delay)
      PROVE  MInv'
  <2>1. NewNode(n, delay, FALSE, None) /\ UNCHANGED <<map, pc, phase, hand>>
    BY <1>2 DEF AddTimeOut
  <2>2. MapSound'
    BY <2>1 DEF NewNode, MapSound, NodeTypes
  <2> QED BY <2>1, <2>2, NewNodeLemma DEF NodeTypes
<1>3. ASSUME NEW n \in Timers, NEW delay \in 1..MaxDelay, NEW k \in Keys,
             AddOnTimer(n, delay, k)
      PROVE  MInv'
  <2>1. NewNode(n, delay, TRUE, k) /\ UNCHANGED <<pc, phase, hand>>
    BY <1>3 DEF AddOnTimer
  <2>2. map' = [map EXCEPT ![k] = n]
    BY <1>3 DEF AddOnTimer
  <2>3. where'[n] # Free
    BY <2>1, NewNodeLemma
  <2>4. where[n] = Free /\ valid'[n] /\ repeat'[n] = delay /\ key'[n] = k /\ delay > 0
    BY <2>1 DEF NewNode, NodeTypes
  <2>5. map' \in [Keys -> Timers \cup {None}]
    BY <2>2 DEF NodeTypes
  <2>6. ASSUME NEW j \in Keys, map'[j] # None
        PROVE  /\ where'[map'[j]] # Free
               /\ valid'[map'[j]] /\ repeat'[map'[j]] > 0 /\ key'[map'[j]] = j
    <3>1. CASE j = k
      BY <2>2, <2>3, <2>4, <3>1 DEF NodeTypes
    <3>2. CASE j # k
      <4>0. map'[j] = map[j] /\ map[j] \in Timers
        BY <2>2, <2>6, <3>2 DEF NodeTypes
      <4>1. map'[j] = map[j] /\ map[j] \in Timers \ {n}
        <5>1. where[map[j]] # Free
          BY <2>6, <4>0, Zenon DEF MapSound
        <5> QED BY <2>4, <4>0, <5>1
      <4>2. /\ where[map[j]] # Free
            /\ valid[map[j]] /\ repeat[map[j]] > 0 /\ key[map[j]] = j
        BY <2>6, <4>1 DEF MapSound
      <4>3. ASSUME NEW m \in Timers \ {n}
            PROVE  /\ where'[m] = where[m] /\ valid'[m] = valid[m]
                   /\ repeat'[m] = repeat[m] /\ key'[m] = key[m]
        BY <2>1 DEF NewNode, NodeTypes
      <4> QED BY <4>1, <4>2, <4>3
    <3> QED BY <3>1, <3>2
  <2>7. MapSound'
    BY <2>6 DEF MapSound
  <2> QED BY <2>1, <2>5, <2>7, NewNodeLemma DEF NodeTypes
<1>4. ASSUME NEW k \in Keys, DelTimer(k)
      PROVE  MInv'
  <2>1. /\ map[k] \in Timers
        /\ valid' = [valid EXCEPT ![map[k]] = FALSE]
        /\ map' = [map EXCEPT ![k] = None]
        /\ UNCHANGED <<repeat, key, where, pc, phase, hand>>
    BY <1>4 DEF DelTimer, DelTimerAs, NodeTypes
  <2>2. NodeTypes'
    BY <2>1 DEF NodeTypes
  <2>3. RepeatingHasKey'
    BY <2>1 DEF RepeatingHasKey
  <2>4. hand \in Timers /\ ~valid[hand] => ~valid'[hand]
    BY <2>1 DEF NodeTypes
  <2>5. HandIsBusy'
    <3>1. (pc \in {"call", "rearm", "free"} => hand \in Timers /\ where[hand] = Batch)'
      BY <2>1 DEF HandIsBusy
    <3>2. (pc = "free" => ~valid[hand] \/ repeat[hand] = 0)'
      BY <2>1, <2>4, Zenon DEF HandIsBusy
    <3>3. (phase \in {"first", "second"})'
      BY <2>1 DEF HandIsBusy
    <3> QED BY <3>1, <3>2, <3>3 DEF HandIsBusy
  <2>6. map[k] # None /\ key[map[k]] = k
    BY <1>4, Zenon DEF DelTimer, DelTimerAs, MapSound
  <2>7. ASSUME NEW j \in Keys, map'[j] # None
        PROVE  /\ where'[map'[j]] # Free
               /\ valid'[map'[j]] /\ repeat'[map'[j]] > 0 /\ key'[map'[j]] = j
    <3>1. map'[j] = map[j] /\ j # k /\ map[j] \in Timers
      BY <2>1, <2>7 DEF NodeTypes
    <3>2. PICK m \in Timers : m = map[j]
      BY <3>1
    <3>3. where[m] # Free /\ valid[m] /\ repeat[m] > 0 /\ key[m] = j
      BY <2>7, <3>1, <3>2, Zenon DEF MapSound
    <3>4. m # map[k]
      BY <2>6, <3>1, <3>3
    <3>5. valid'[m]
      BY <2>1, <3>3, <3>4 DEF NodeTypes
    <3> QED BY <2>1, <3>1, <3>2, <3>3, <3>5
  <2>8. MapSound'
    BY <2>7, Zenon DEF MapSound
  <2> QED BY <2>2, <2>3, <2>5, <2>8
<1>5. CASE Tick
  BY <1>5 DEF Tick, node, NodeTypes, HandIsBusy, RepeatingHasKey, MapSound
<1>6. CASE Execute
  BY <1>6, ListLemma DEF Execute, node, NodeTypes, HandIsBusy, RepeatingHasKey, MapSound
<1>7. CASE Shift
  <2>1. UNCHANGED <<repeat, valid, key, map, phase>> /\ pc' = "second"
    BY <1>7 DEF Shift, node
  <2>2. /\ where' = [m \in Timers |-> where'[m]]
        /\ \A m \in Timers : where[m] # Free => where'[m] # Free
    BY <1>7, SlotLemma DEF Shift
  <2>3. MapSound'
    BY <2>1, <2>2 DEF NodeTypes, MapSound
  <2> QED BY <2>1, <2>2, <2>3 DEF NodeTypes, HandIsBusy, RepeatingHasKey
<1>8. ASSUME NEW n \in Timers, Dispatch(n)
      PROVE  MInv'
  BY <1>8 DEF Dispatch, node, NodeTypes, HandIsBusy, RepeatingHasKey, MapSound
<1>9. CASE Returned
  <2>1. /\ UNCHANGED <<repeat, valid, key, where, map, phase, hand>>
        /\ pc = "call" /\ pc' \in {"rearm", "free"}
        /\ pc' = "free" => ~valid[hand] \/ ~(repeat[hand] > 0)
    BY <1>9 DEF Returned
  <2>2. HandIsBusy'
    BY <2>1 DEF HandIsBusy, NodeTypes
  <2> QED BY <2>1, <2>2 DEF NodeTypes, RepeatingHasKey, MapSound
<1>10. CASE Rearm
  <2>1. UNCHANGED <<repeat, valid, key, map, phase>> /\ pc' = "dispatch" /\ hand \in Timers
    BY <1>10 DEF Rearm, node, HandIsBusy
  <2>2. /\ where' = [m \in Timers |-> where'[m]]
        /\ \A m \in Timers : where[m] # Free => where'[m] # Free
    BY <1>10, <2>1, SlotLemma DEF Rearm, NodeTypes
  <2>3. MapSound'
    BY <2>1, <2>2 DEF NodeTypes, MapSound
  <2> QED BY <2>1, <2>2, <2>3 DEF NodeTypes, HandIsBusy, RepeatingHasKey
<1>11. CASE Deallocate
  <2>1. /\ hand \in Timers /\ (~valid[hand] \/ repeat[hand] = 0)
        /\ map' = map /\ pc' = "dispatch"
    BY <1>11 DEF Deallocate, HandIsBusy
  <2>2. \A k \in Keys : map[k] # None => map[k] \in Timers \ {hand}
    BY <2>1 DEF NodeTypes, MapSound
  <2>3. NodeTypes'
    BY <1>11, <2>1 DEF Deallocate, NodeTypes
  <2>4. \A m \in Timers \ {hand} :
          /\ where'[m] = where[m] /\ valid'[m] = valid[m]
          /\ repeat'[m] = repeat[m] /\ key'[m] = key[m]
    BY <1>11, <2>1 DEF Deallocate, NodeTypes
  <2>5. MapSound'
    BY <2>1, <2>2, <2>4 DEF MapSound
  <2>6. repeat'[hand] = 0
    BY <1>11, <2>1 DEF Deallocate, NodeTypes
  <2>7. RepeatingHasKey'
    BY <2>4, <2>6 DEF RepeatingHasKey
  <2>8. HandIsBusy'
    BY <1>11, <2>1 DEF Deallocate, HandIsBusy
  <2> QED BY <2>3, <2>5, <2>7, <2>8
<1>12. CASE Dispatched
  BY <1>12 DEF Dispatched, node, NodeTypes, HandIsBusy, RepeatingHasKey, MapSound
<1> QED
  BY <1>1, <1>2, <1>3, <1>4, <1>5, <1>6, <1>7, <1>8, <1>9, <1>10, <1>11, <1>12
  DEF Next, TimerThread, Callers

(* Whatever adds and deletes interleave with the dispatching of a batch,   *)
(* the map never keeps a node that was freed or deleted.                   *)
THEOREM MapTheorem == Spec => []MapSound
<1>1. MInv => MapSound
  BY DEF MInv
<1> QED BY InitM, StepM, <1>1, PTL DEF Spec
-----------------------------------------------------------------------------
LEMMA StepDeletable ==
  ASSUME OncePerKey, MInv, Deletable, [Next]_vars
  PROVE  Deletable'
<1> USE WheelAssumption DEF MInv
<1>1. CASE UNCHANGED vars
  BY <1>1 DEF vars, Deletable
<1>2. ASSUME NEW n \in Timers, NEW delay \in 1..MaxDelay, AddTimeOut(n, delay)
      PROVE  Deletable'
  BY <1>2 DEF AddTimeOut, NewNode, NodeTypes, Deletable
<1>3. ASSUME NEW n \in Timers, NEW delay \in 1..MaxDelay, NEW k \in Keys,
             AddOnTimer(n, delay, k)
      PROVE  Deletable'
  <2>1. \A m \in Timers \ {n} : where'[m] # Free /\ valid'[m] /\ repeat'[m] > 0
          => key[m] # k /\ key'[m] = key[m] /\ map[key[m]] = m
    BY <1>3 DEF AddOnTimer, NewNode, NodeTypes, Deletable
  <2> QED BY <1>3, <2>1 DEF AddOnTimer, NewNode, NodeTypes, RepeatingHasKey, Deletable
<1>4. ASSUME NEW k \in Keys, DelTimer(k)
      PROVE  Deletable'
  BY <1>4 DEF DelTimer, DelTimerAs, NodeTypes, RepeatingHasKey, Deletable
<1>5. CASE Tick
  BY <1>5 DEF Tick, node, Deletable
<1>6. CASE Execute
  BY <1>6, ListLemma DEF Execute, node, NodeTypes, Deletable
<1>7. CASE Shift
  BY <1>7, ShiftedLemma DEF Shift, node, NodeTypes, Deletable
<1>8. ASSUME NEW n \in Timers, Dispatch(n)
      PROVE  Deletable'
  BY <1>8 DEF Dispatch, node, Deletable
<1>9. CASE Returned
  BY <1>9 DEF Returned, Deletable
<1>10. CASE Rearm
  BY <1>10, ListLemma DEF Rearm, node, NodeTypes, HandIsBusy, Deletable
<1>11. CASE Deallocate
  BY <1>11 DEF Deallocate, NodeTypes, HandIsBusy, Deletable
<1>12. CASE Dispatched
  BY <1>12 DEF Dispatched, node, Deletable
<1> QED
  BY <1>1, <1>2, <1>3, <1>4, <1>5, <1>6, <1>7, <1>8, <1>9, <1>10, <1>11, <1>12
  DEF Next, TimerThread, Callers

(* A repeating timer can be deleted as long as it is called, provided that *)
(* no caller adds a second one under its key.                              *)
THEOREM DeletableTheorem == OncePerKey => (Spec => []Deletable)
<1> SUFFICES ASSUME OncePerKey PROVE Spec => []Deletable
  OBVIOUS
<1>1. Init => MInv /\ Deletable
  BY InitM DEF Init, Deletable
<1>2. (MInv /\ Deletable) /\ [Next]_vars => (MInv /\ Deletable)'
  BY StepM, StepDeletable
<1> QED BY <1>1, <1>2, PTL DEF Spec
-----------------------------------------------------------------------------
(* The arithmetic of the wheels.  Division, as the provers need it said.   *)
LEMMA DivFacts ==
  ASSUME NEW t \in Nat, NEW u \in Nat \ {0}
  PROVE  /\ t \div u \in Nat /\ t % u \in 0 .. u - 1
         /\ t = u * (t \div u) + (t % u)
<1>1. t % u \in 0 .. u - 1 /\ t \div u \in Int
  OBVIOUS
<1>2. t - (t % u) = u * (t \div u)
  OBVIOUS
<1>3. PICK d \in Int, m \in 0 .. u - 1 : d = t \div u /\ m = t % u /\ t - m = u * d
  BY <1>1, <1>2
<1>4. d >= 0
  <2>1. d <= -1 => u * d <= -u
    OBVIOUS
  <2> QED BY <2>1, <1>3
<1> QED BY <1>3, <1>4

LEMMA DivUnique ==
  ASSUME NEW u \in Nat \ {0}, NEW q \in Nat, NEW r \in 0 .. u - 1
  PROVE  (u * q + r) \div u = q /\ (u * q + r) % u = r
<1>1. PICK t \in Nat : t = u * q + r
  OBVIOUS
<1>2. PICK d \in Nat, m \in 0 .. u - 1 : d = t \div u /\ m = t % u /\ t = u * d + m
  BY DivFacts
<1>3. u * (d - q) = r - m
  BY <1>1, <1>2
<1>4. ~(d - q >= 1)
  <2> SUFFICES ASSUME d - q >= 1 PROVE FALSE
    OBVIOUS
  <2>1. u * (d - q) >= u
    OBVIOUS
  <2> QED BY <2>1, <1>3
<1>5. ~(q - d >= 1)
  <2> SUFFICES ASSUME q - d >= 1 PROVE FALSE
    OBVIOUS
  <2>1. u * (q - d) >= u
    OBVIOUS
  <2>2. u * (q - d) = m - r
    BY <1>3
  <2> QED BY <2>1, <2>2
<1> QED BY <1>1, <1>2, <1>3, <1>4, <1>5

LEMMA DivDiv ==
  ASSUME NEW t \in Nat, NEW u \in Nat \ {0}, NEW v \in Nat \ {0}
  PROVE  /\ u * v \in Nat \ {0}
         /\ t \div (u * v) = (t \div u) \div v
         /\ (t % (u * v) = 0) <=> (t % u = 0 /\ (t \div u) % v = 0)
<1>1. PICK q \in Nat, r \in 0 .. u - 1 : q = t \div u /\ r = t % u /\ t = u * q + r
  BY DivFacts
<1>2. PICK p \in Nat, s \in 0 .. v - 1 : p = q \div v /\ s = q % v /\ q = v * p + s
  BY DivFacts
<1>3. u * v \in Nat \ {0}
  <2>1. u * v >= u
    OBVIOUS
  <2> QED BY <2>1
<1>4. u * s + r \in 0 .. u * v - 1
  <2>1. u * s \in Nat
    OBVIOUS
  <2>2. u * (v - 1 - s) >= 0
    OBVIOUS
  <2>3. u * (v - 1 - s) = u * v - u - u * s
    OBVIOUS
  <2> QED BY <2>1, <2>2, <2>3, <1>3
<1>5. t = (u * v) * p + (u * s + r)
  <2>1. u * q = u * (v * p + s)
    BY <1>2
  <2>2. u * (v * p + s) = (u * v) * p + u * s
    OBVIOUS
  <2> QED BY <1>1, <2>1, <2>2
<1>6. t \div (u * v) = p /\ t % (u * v) = u * s + r
  BY <1>3, <1>4, <1>5, DivUnique
<1>7. (u * s + r = 0) <=> (r = 0 /\ s = 0)
  <2>1. s >= 1 => u * s >= u
    OBVIOUS
  <2> QED BY <2>1
<1> QED BY <1>1, <1>2, <1>3, <1>6, <1>7

LEMMA DivNext ==
  ASSUME NEW t \in Nat, NEW u \in Nat \ {0}
  PROVE  /\ (t + 1) % u # 0 => (t + 1) \div u = t \div u
         /\ (t + 1) % u = 0 => (t + 1) \div u = (t \div u) + 1 /\ t + 1 = u * ((t \div u) + 1)
<1>1. PICK q \in Nat, r \in 0 .. u - 1 : q = t \div u /\ r = t % u /\ t = u * q + r
  BY DivFacts
<1>2. CASE r < u - 1
  <2>1. t + 1 = u * q + (r + 1) /\ r + 1 \in 0 .. u - 1
    BY <1>1, <1>2
  <2>2. (t + 1) \div u = q /\ (t + 1) % u = r + 1
    BY <2>1, DivUnique
  <2> QED BY <2>1, <2>2, <1>1
<1>3. CASE r = u - 1
  <2>1. t + 1 = u * (q + 1) /\ t \div u = q
    <3>1. u * (q + 1) = u * q + u
      OBVIOUS
    <3> QED BY <3>1, <1>1, <1>3
  <2>2. (u * (q + 1)) \div u = q + 1 /\ (u * (q + 1)) % u = 0
    <3>1. PICK p \in Nat : p = q + 1
      OBVIOUS
    <3>2. \A s \in 0 .. u - 1 : (u * p + s) \div u = p /\ (u * p + s) % u = s
      BY DivUnique
    <3>3. 0 \in 0 .. u - 1
      OBVIOUS
    <3>4. (u * p + 0) \div u = p /\ (u * p + 0) % u = 0
      BY <3>2, <3>3, Zenon
    <3> QED BY <3>1, <3>4
  <2>3. (t + 1) \div u = (t \div u) + 1 /\ t + 1 = u * ((t \div u) + 1) /\ (t + 1) % u = 0
    BY <2>1, <2>2, Zenon
  <2> QED BY <2>3, Zenon
<1> QED BY <1>1, <1>2, <1>3

-----------------------------------------------------------------------------
(* The values of the time, and whether two agree from a digit up.          *)
Times == 0 .. Horizon - 1
Same(e, c, l) == From(e, l) = From(c, l)

LEMMA Units ==
  /\ \A l \in 0 .. 4 : Unit(l) \in Nat \ {0}
  /\ \A l \in 0 .. 3 : Unit(l + 1) = Unit(l) * Level
  /\ Horizon = Unit(4)
<1> USE WheelAssumption
<1>1. \A a \in Nat \ {0} : a * Level \in Nat \ {0}
  BY DivDiv
<1>2. /\ Unit(0) = Near /\ Unit(1) = Unit(0) * Level /\ Unit(2) = Unit(1) * Level
      /\ Unit(3) = Unit(2) * Level /\ Unit(4) = Unit(3) * Level
  BY DEF Unit
<1>3. Unit(0) \in Nat \ {0} /\ Unit(1) \in Nat \ {0} /\ Unit(2) \in Nat \ {0}
  BY <1>1, <1>2
<1>4. Unit(3) \in Nat \ {0} /\ Unit(4) \in Nat \ {0}
  BY <1>1, <1>2, <1>3
<1>5. \A l \in 0 .. 4 : l = 0 \/ l = 1 \/ l = 2 \/ l = 3 \/ l = 4
  OBVIOUS
<1>6. \A l \in 0 .. 3 : l = 0 \/ l = 1 \/ l = 2 \/ l = 3
  OBVIOUS
<1>7. \A l \in 0 .. 3 : Unit(l + 1) = Unit(l) * Level
  BY <1>2, <1>6
<1> QED BY <1>3, <1>4, <1>5, <1>7 DEF Horizon

(* The digits of a time.                                                   *)
LEMMA Digits ==
  ASSUME NEW t \in Times, NEW l \in 0 .. 3
  PROVE  /\ From(t, l) \in Nat /\ From(t, l + 1) \in Nat
         /\ Digit(t, l) \in 0 .. Level - 1
         /\ From(t, l) = Level * From(t, l + 1) + Digit(t, l)
         /\ From(t, l + 1) = From(t, l) \div Level
         /\ (t % Unit(l + 1) = 0) <=> (t % Unit(l) = 0 /\ Digit(t, l) = 0)
<1>1. PICK u \in Nat \ {0} : u = Unit(l) /\ Unit(l + 1) = u * Level
  BY Units
<1>2. t \in Nat
  BY Units DEF Times
<1>3. PICK v \in Nat \ {0} : v = Level
  BY WheelAssumption
<1>4. /\ u * v \in Nat \ {0}
      /\ t \div (u * v) = (t \div u) \div v
      /\ (t % (u * v) = 0) <=> (t % u = 0 /\ (t \div u) % v = 0)
  BY <1>2, DivDiv, Zenon
<1>5. PICK q \in Nat : q = t \div u
  BY <1>2, DivFacts
<1>6. q \div v \in Nat /\ q % v \in 0 .. v - 1 /\ q = v * (q \div v) + (q % v)
  BY DivFacts
<1>7. Unit(l + 1) = u * v
  BY <1>1, <1>3
<1>8. From(t, l) = q /\ From(t, l + 1) = q \div v /\ Digit(t, l) = q % v
  BY <1>1, <1>3, <1>4, <1>5, <1>7, Zenon DEF From, Digit
<1>9. (t % Unit(l + 1) = 0) <=> (t % Unit(l) = 0 /\ Digit(t, l) = 0)
  BY <1>1, <1>4, <1>5, <1>7, <1>8, Zenon
<1> QED BY <1>3, <1>5, <1>6, <1>8, <1>9, Zenon

LEMMA TopDigit == \A t \in Times : From(t, 4) = 0
<1> SUFFICES ASSUME NEW t \in Times PROVE From(t, 4) = 0
  OBVIOUS
<1>1. PICK u \in Nat \ {0} : u = Unit(4) /\ u = Horizon
  BY Units
<1>2. t \in 0 .. u - 1
  BY <1>1 DEF Times
<1>3. (u * 0 + t) \div u = 0
  BY <1>2, DivUnique
<1>4. u * 0 + t = t
  BY <1>2
<1> QED BY <1>1, <1>3, <1>4 DEF From

(* Times that agree from a digit up agree from every higher one up.        *)
LEMMA Coarser ==
  ASSUME NEW e \in Times, NEW c \in Times, NEW l \in 0 .. 4, NEW m \in l .. 4, Same(e, c, l)
  PROVE  Same(e, c, m)
<1>1. \A k \in 0 .. 3 : Same(e, c, k) => Same(e, c, k + 1)
  BY Digits, Zenon DEF Same
<1>2. (Same(e, c, 0) => Same(e, c, 1)) /\ (Same(e, c, 1) => Same(e, c, 2))
  BY <1>1
<1>3. (Same(e, c, 2) => Same(e, c, 3)) /\ (Same(e, c, 3) => Same(e, c, 4))
  BY <1>1
<1>4. l \in {0, 1, 2, 3, 4} /\ m \in {0, 1, 2, 3, 4} /\ l <= m
  OBVIOUS
<1> QED BY <1>2, <1>3, <1>4

(* The list of a node only depends on the digits in which its time is that *)
(* of now.                                                                 *)
LEMMA SlotSame ==
  ASSUME NEW e, NEW c, NEW d, \A l \in 0 .. 3 : Same(e, c, l) <=> Same(e, d, l)
  PROVE  Slot(e, c) = Slot(e, d)
<1>1. /\ Same(e, c, 0) <=> Same(e, d, 0)
      /\ Same(e, c, 1) <=> Same(e, d, 1)
      /\ Same(e, c, 2) <=> Same(e, d, 2)
      /\ Same(e, c, 3) <=> Same(e, d, 3)
  OBVIOUS
<1> QED BY <1>1, Zenon DEF Slot, Same

LEMMA SlotAt ==
  ASSUME NEW e \in Times, NEW c \in Times, NEW m \in 0 .. 3,
         ~Same(e, c, m), Same(e, c, m + 1)
  PROVE  Slot(e, c) = FarList(m, Digit(e, m))
<1>1. \A l \in 0 .. m : ~Same(e, c, l)
  BY Coarser
<1>2. \A l \in m + 1 .. 4 : Same(e, c, l)
  BY Coarser
<1>3. CASE m = 0
  <2>1. ~Same(e, c, 0) /\ Same(e, c, 1)
    BY <1>3
  <2> QED BY <2>1, <1>3 DEF Slot, Same
<1>4. CASE m = 1
  <2>1. ~Same(e, c, 0) /\ ~Same(e, c, 1) /\ Same(e, c, 2)
    BY <1>1, <1>4
  <2> QED BY <2>1, <1>4 DEF Slot, Same
<1>5. CASE m = 2
  <2>1. ~Same(e, c, 0) /\ ~Same(e, c, 1) /\ ~Same(e, c, 2) /\ Same(e, c, 3)
    BY <1>1, <1>5
  <2> QED BY <2>1, <1>5 DEF Slot, Same
<1>6. CASE m = 3
  <2>1. ~Same(e, c, 0) /\ ~Same(e, c, 1) /\ ~Same(e, c, 2) /\ ~Same(e, c, 3)
    BY <1>1, <1>6
  <2> QED BY <2>1, <1>6 DEF Slot, Same
<1> QED BY <1>3, <1>4, <1>5, <1>6

(* The ticks from c to e, round the end of the time.                       *)
Ahead(e, c) == IF c <= e THEN e - c ELSE e - c + Horizon

(* No delay is half the time, and no digit's unit more than half.          *)
LEMMA Halves ==
  /\ Horizon \in Nat \ {0} /\ MaxDelay \in Nat /\ 2 * MaxDelay < Horizon
  /\ \A l \in 0 .. 3 : 2 * Unit(l) <= Horizon
<1> USE WheelAssumption
<1>1. \A u \in Nat \ {0} : 2 * u <= u * Level
  OBVIOUS
<1>2. \A l \in 0 .. 3 : 2 * Unit(l) <= Unit(l + 1)
  BY <1>1, Units
<1>3. /\ Unit(0) \in Nat \ {0} /\ Unit(1) \in Nat \ {0} /\ Unit(2) \in Nat \ {0}
      /\ Unit(3) \in Nat \ {0} /\ Unit(4) = Horizon
  BY Units
<1>4. /\ 2 * Unit(0) <= Unit(1) /\ 2 * Unit(1) <= Unit(2)
      /\ 2 * Unit(2) <= Unit(3) /\ 2 * Unit(3) <= Unit(4)
  <2>1. /\ 2 * Unit(0) <= Unit(0 + 1) /\ 2 * Unit(1) <= Unit(1 + 1)
        /\ 2 * Unit(2) <= Unit(2 + 1) /\ 2 * Unit(3) <= Unit(3 + 1)
    BY <1>2
  <2> QED BY <2>1
<1>5. \A l \in 0 .. 3 : l = 0 \/ l = 1 \/ l = 2 \/ l = 3
  OBVIOUS
<1>6. Horizon \in Nat \ {0}
  BY Units
<1>7. \A l \in 0 .. 3 : 2 * Unit(l) <= Horizon
  BY <1>3, <1>4, <1>5, <1>6
<1>8. 2 * MaxDelay < Horizon /\ MaxDelay \in Nat
  <2>1. PICK h \in Nat \ {0} : h = Horizon
    BY <1>6
  <2>2. PICK q \in Nat : q = h \div 2 /\ 2 * q <= h
    BY DivFacts
  <2>3. MaxDelay \in 1 .. q - 1
    BY <2>1, <2>2
  <2> QED BY <2>1, <2>2, <2>3
<1> QED BY <1>6, <1>7, <1>8

(* The list of this tick holds what expires now.                           *)
LEMMA SlotNow ==
  ASSUME NEW e \in Times, NEW c \in Times
  PROVE  Slot(e, c) = NearList(c % Near) <=> e = c
<1>1. ASSUME e = c PROVE Slot(e, c) = NearList(c % Near)
  BY <1>1 DEF Slot
<1>2. ASSUME Slot(e, c) = NearList(c % Near) PROVE e = c
  <2>1. Near \in Nat \ {0} /\ e \in Nat /\ c \in Nat
    BY WheelAssumption, Units DEF Times
  <2>2. Same(e, c, 0)
    <3>1. \A i : \A l \in 0 .. 3 : FarList(l, i) # NearList(c % Near)
      BY DEF FarList, NearList
    <3>2. \A k \in 0 .. 3 : ~Same(e, c, k) /\ Same(e, c, k + 1) => Slot(e, c) = FarList(k, Digit(e, k))
      BY SlotAt
    <3>3. \A k \in 0 .. 3 : ~Same(e, c, k) => ~Same(e, c, k + 1)
      BY <3>1, <3>2, <1>2
    <3>4. Same(e, c, 4)
      BY TopDigit DEF Same
    <3>5. Same(e, c, 3)
      BY <3>3, <3>4
    <3>6. Same(e, c, 2)
      BY <3>3, <3>5
    <3>7. Same(e, c, 1)
      BY <3>3, <3>6
    <3> QED BY <3>3, <3>7
  <2>3. e % Near = c % Near
    BY <1>2, <2>2 DEF Slot, Same, NearList
  <2>4. e \div Near = c \div Near
    BY <2>2 DEF Same, From, Unit
  <2>5. e = Near * (e \div Near) + (e % Near) /\ c = Near * (c \div Near) + (c % Near)
    BY <2>1, DivFacts
  <2> QED BY <2>3, <2>4, <2>5, Zenon
<1> QED BY <1>1, <1>2

(* A time that is a delay from now.                                        *)
LEMMA Later ==
  ASSUME NEW c \in Times, NEW k \in 1 .. MaxDelay
  PROVE  (c + k) % Horizon \in Times /\ Ahead((c + k) % Horizon, c) = k
<1>1. PICK h \in Nat \ {0} : h = Horizon /\ 2 * k < h
  BY Halves
<1>2. c \in 0 .. h - 1
  BY <1>1 DEF Times
<1>3. CASE c + k < h
  <2>1. (c + k) % h = c + k
    BY <1>2, <1>3
  <2> QED BY <1>1, <1>2, <1>3, <2>1 DEF Times, Ahead
<1>4. CASE c + k >= h
  <2>1. (h * 1 + (c + k - h)) % h = c + k - h
    <3>1. c + k - h \in 0 .. h - 1
      BY <1>1, <1>2, <1>4
    <3> QED BY <3>1, DivUnique
  <2>2. (c + k) % h = c + k - h
    BY <1>1, <1>2, <2>1
  <2> QED BY <1>1, <1>2, <1>4, <2>2 DEF Times, Ahead
<1> QED BY <1>1, <1>2, <1>3, <1>4

LEMMA NextDigits ==
  ASSUME NEW c \in Times, c + 1 \in Times, NEW l \in 0 .. 4
  PROVE  /\ (c + 1) % Unit(l) # 0 => From(c + 1, l) = From(c, l)
         /\ (c + 1) % Unit(l) = 0 =>
              /\ From(c + 1, l) = From(c, l) + 1
              /\ From(c, l) \in Nat
              /\ c + 1 = Unit(l) * From(c, l) + Unit(l)
<1>1. PICK u \in Nat \ {0} : u = Unit(l)
  BY Units
<1>2. c \in Nat
  BY Units DEF Times
<1>3. PICK q \in Nat : q = c \div u
  BY <1>2, DivFacts
<1>4. /\ (c + 1) % u # 0 => (c + 1) \div u = q
      /\ (c + 1) % u = 0 => (c + 1) \div u = q + 1 /\ c + 1 = u * (q + 1)
  BY <1>2, <1>3, DivNext
<1>5. u * (q + 1) = u * q + u
  OBVIOUS
<1>6. From(c, l) = q /\ From(c + 1, l) = (c + 1) \div u
  BY <1>1, <1>3 DEF From
<1> QED BY <1>1, <1>4, <1>5, <1>6

(* A node that timer_shift does not move is in the list of its time still: *)
(* within the time ...                                                     *)
LEMMA StayPut ==
  ASSUME NEW e \in Times, NEW c \in Times, NEW d \in Times, d = c + 1,
         Ahead(e, c) \in 1 .. MaxDelay, Slot(e, c) \notin Shifted(d)
  PROVE  Slot(e, d) = Slot(e, c)
<1> DEFINE Crossed(l) == d % Unit(l) = 0
<1>0. /\ \A l \in 0 .. 4 : ~Crossed(l) => From(d, l) = From(c, l)
      /\ \A l \in 0 .. 3 : Crossed(l) => From(d, l) = From(c, l) + 1
  BY NextDigits
<1>1. ~Crossed(4)
  <2>1. PICK h \in Nat \ {0} : h = Horizon /\ h = Unit(4)
    BY Units
  <2>2. d \in 1 .. h - 1
    BY <2>1 DEF Times
  <2>3. d % h = d
    BY <2>2
  <2> QED BY <2>1, <2>2, <2>3
<1>2. \A l \in 0 .. 3 : Crossed(l + 1) <=> (Crossed(l) /\ Digit(d, l) = 0)
  BY Digits
<1> HIDE DEF Crossed
<1>3. ASSUME NEW m \in 0 .. 3, Crossed(m), ~Crossed(m + 1)
      PROVE  Slot(e, d) = Slot(e, c)
  <2>1. \A l \in m + 1 .. 4 : ~Crossed(l)
    BY <1>1, <1>2, <1>3
  <2>2. ~Same(e, c, m)
    <3> SUFFICES ASSUME Same(e, c, m) PROVE FALSE
      OBVIOUS
    <3>1. PICK u \in Nat \ {0}, k \in Nat :
            u = Unit(m) /\ k = From(c, m) /\ c + 1 = u * k + u
      BY <1>3, NextDigits, Units DEF Crossed
    <3>2. PICK h \in Nat \ {0} : h = Horizon /\ 2 * u <= h /\ 2 * MaxDelay < h
      BY <3>1, Halves
    <3>3. e \in Nat /\ c \in Nat /\ e < h /\ c < h
      BY <3>2 DEF Times
    <3>4. u * k \in Nat /\ u * k <= e /\ e < u * k + u
      <4>1. k = e \div u
        BY <3>1 DEF Same, From
      <4>2. e = u * (e \div u) + (e % u) /\ e % u \in 0 .. u - 1
        BY <3>3, DivFacts
      <4>3. u * k \in Nat
        OBVIOUS
      <4> QED BY <4>1, <4>2, <4>3
    <3>5. PICK p \in Nat : p = u * k /\ p <= e /\ e < p + u /\ c + 1 = p + u
      BY <3>1, <3>4
    <3>6. Ahead(e, c) = 0 \/ (Ahead(e, c) = e - c + h /\ e < c)
      BY <3>2, <3>3, <3>5 DEF Ahead
    <3>7. MaxDelay \in Nat
      BY Halves
    <3> QED BY <3>2, <3>3, <3>5, <3>6, <3>7
  <2>3. ~Same(e, d, m)
    <3> SUFFICES ASSUME Same(e, d, m) PROVE FALSE
      OBVIOUS
    <3>1. Same(e, d, m + 1)
      BY Coarser
    <3>2. Same(e, c, m + 1)
      BY <1>0, <1>3, <3>1 DEF Same
    <3>3. Slot(e, c) = FarList(m, Digit(e, m))
      BY <2>2, <3>2, SlotAt
    <3>4. Digit(e, m) = Digit(d, m)
      BY DEF Same, Digit
    <3>5. d # 0
      BY Units DEF Times
    <3>6. FarList(m, Digit(d, m)) \in Shifted(d)
      BY <1>2, <1>3, <3>5 DEF Shifted, ShiftedAt, Crossed
    <3> QED BY <3>3, <3>4, <3>6
  <2>4. \A l \in 0 .. m : ~Same(e, c, l) /\ ~Same(e, d, l)
    BY <2>2, <2>3, Coarser
  <2>5. \A l \in m + 1 .. 3 : Same(e, c, l) <=> Same(e, d, l)
    BY <1>0, <2>1 DEF Same
  <2>6. \A l \in 0 .. 3 : Same(e, c, l) <=> Same(e, d, l)
    BY <2>4, <2>5
  <2> QED BY <2>6, SlotSame
<1>4. CASE \A l \in 0 .. 3 : ~Crossed(l)
  <2>1. \A l \in 0 .. 3 : Same(e, c, l) <=> Same(e, d, l)
    BY <1>0, <1>4 DEF Same
  <2> QED BY <2>1, SlotSame
<1>5. CASE \E l \in 0 .. 3 : Crossed(l)
  <2>1. \E m \in 0 .. 3 : Crossed(m) /\ ~Crossed(m + 1)
    BY <1>1, <1>5
  <2> QED BY <2>1, <1>3
<1> QED BY <1>4, <1>5

(* ... and round its end.                                                  *)
LEMMA StayWrap ==
  ASSUME NEW e \in Times, NEW c \in Times, c = Horizon - 1,
         Ahead(e, c) \in 1 .. MaxDelay, Slot(e, c) \notin Shifted(0)
  PROVE  Slot(e, 0) = Slot(e, c)
<1>1. PICK u \in Nat \ {0}, h \in Nat \ {0} :
        /\ u = Unit(3) /\ h = Horizon /\ h = u * Level
        /\ 2 * u <= h /\ 2 * MaxDelay < h /\ MaxDelay \in Nat
  BY Units, Halves
<1>2. Level \in Nat \ {0}
  BY WheelAssumption
<1>3. e \in Nat /\ e <= MaxDelay /\ 0 \in Times
  BY <1>1 DEF Ahead, Times
<1>4. From(c, 3) = Level - 1
  <2>1. PICK q \in Nat, r \in 0 .. u - 1 : q = Level - 1 /\ r = u - 1
    BY <1>2
  <2>2. u * q = u * Level - u
    BY <1>2, <2>1
  <2>3. c = u * q + r
    BY <1>1, <2>1, <2>2
  <2>4. (u * q + r) \div u = q
    BY DivUnique
  <2> QED BY <1>1, <2>1, <2>3, <2>4, Zenon DEF From
<1>5. ~Same(e, c, 3)
  <2> SUFFICES ASSUME Same(e, c, 3) PROVE FALSE
    OBVIOUS
  <2>1. e \div u = Level - 1
    BY <1>1, <1>4 DEF Same, From
  <2>2. e = u * (e \div u) + (e % u) /\ e % u \in Nat
    BY <1>3, DivFacts
  <2>3. u * (Level - 1) = u * Level - u
    BY <1>1, <1>2
  <2> QED BY <1>1, <1>3, <2>1, <2>2, <2>3
<1>6. Same(e, c, 4) /\ Same(e, 0, 4)
  BY <1>3, TopDigit DEF Same
<1>7. Slot(e, c) = FarList(3, Digit(e, 3))
  BY <1>5, <1>6, SlotAt
<1>8. Digit(e, 3) # 0
  BY <1>7 DEF Shifted, ShiftedAt
<1>9. From(e, 3) = Digit(e, 3) /\ From(0, 3) = 0
  <2>1. From(e, 4) = 0
    BY TopDigit
  <2>2. From(e, 3) = Level * From(e, 4) + Digit(e, 3) /\ Digit(e, 3) \in Nat
    BY Digits
  <2>3. From(0, 3) = 0
    <3>1. 0 \div u = 0
      OBVIOUS
    <3> QED BY <1>1, <3>1 DEF From
  <2>4. Level * 0 = 0
    BY <1>2
  <2> QED BY <2>1, <2>2, <2>3, <2>4
<1>10. ~Same(e, 0, 3)
  BY <1>8, <1>9 DEF Same
<1> QED BY <1>3, <1>6, <1>7, <1>10, SlotAt

LEMMA Stay ==
  ASSUME NEW e \in Times, NEW c \in Times, NEW d, d = (c + 1) % Horizon,
         Ahead(e, c) \in 1 .. MaxDelay
  PROVE  /\ d \in Times
         /\ Ahead(e, d) = Ahead(e, c) - 1
         /\ Slot(e, c) \notin Shifted(d) => Slot(e, d) = Slot(e, c)
<1>1. PICK h \in Nat \ {0} : h = Horizon /\ 2 * MaxDelay < h /\ MaxDelay \in Nat
  BY Halves
<1>2. e \in 0 .. h - 1 /\ c \in 0 .. h - 1
  BY <1>1 DEF Times
<1>3. CASE c + 1 < h
  <2>1. d = c + 1
    BY <1>1, <1>2, <1>3
  <2>2. d \in Times
    BY <1>1, <1>2, <1>3, <2>1 DEF Times
  <2>3. Ahead(e, d) = Ahead(e, c) - 1
    BY <1>1, <1>2, <2>1 DEF Ahead
  <2> QED BY <2>1, <2>2, <2>3, StayPut
<1>4. CASE c + 1 = h
  <2>1. h % h = 0
    BY <1>1
  <2>2. d = 0 /\ c = h - 1
    BY <1>1, <1>2, <1>4, <2>1
  <2>3. 0 \in Times
    BY <1>1 DEF Times
  <2>4. Ahead(e, d) = Ahead(e, c) - 1
    BY <1>1, <1>2, <2>2 DEF Ahead
  <2> QED BY <1>1, <2>2, <2>3, <2>4, StayWrap
<1> QED BY <1>2, <1>3, <1>4
-----------------------------------------------------------------------------
(* What makes the wheel keep its time: a node in a list is in the one that *)
(* its time has now, and its time is ahead by a delay at most; what is in  *)
(* the batch is due, but for the node about to be armed again; and         *)
(* the thread only sleeps or shifts when nothing is due.                   *)
Waits ==
  \A n \in Timers :
    where[n] \notin {Free, Batch} =>
      where[n] = Slot(expire[n], time) /\ Ahead(expire[n], time) \in 0 .. MaxDelay

Rearms(n) == pc = "rearm" /\ hand = n

InBatch ==
  \A n \in Timers :
    where[n] = Batch =>
      IF Rearms(n) THEN Ahead(expire[n], time) \in 1 .. MaxDelay ELSE expire[n] = time

Between ==
  /\ pc \in {"sleep", "first", "shift", "second"} => \A n \in Timers : where[n] # Batch
  /\ pc \in {"sleep", "first", "shift", "second", "dispatch"} => hand = None
  /\ pc \in {"sleep", "shift"} => \A n \in Timers : where[n] # NearList(time % Near)

OnTime == TypeOK /\ Waits /\ InBatch /\ Between

LEMMA SlotType ==
  ASSUME NEW e \in Times, NEW c \in Times
  PROVE  Slot(e, c) \in Lists
<1>1. \A l \in 0 .. 3 : FarList(l, Digit(e, l)) \in Lists
  BY Digits DEF Lists
<1>2. NearList(e % Near) \in Lists
  <2>1. e \in Nat /\ Near \in Nat \ {0}
    BY Units, WheelAssumption DEF Times
  <2>2. e % Near \in 0 .. Near - 1
    BY <2>1, DivFacts
  <2> QED BY <2>2 DEF Lists
<1> QED BY <1>1, <1>2 DEF Slot

LEMMA TimeTypes ==
  /\ TypeOK => time \in Times /\ expire \in [Timers -> Times]
  /\ MaxDelay \in Nat /\ 0 \in Times
  BY Halves DEF TypeOK, Times

LEMMA OnTimeInit == Init => OnTime
<1> SUFFICES ASSUME Init PROVE OnTime
  OBVIOUS
<1>1. Horizon \in Nat \ {0} /\ MaxDelay \in Nat
  BY Halves
<1>2. TypeOK
  BY <1>1, WheelAssumption DEF Init, TypeOK
<1>3. \A n \in Timers : where[n] = Free
  BY DEF Init
<1>4. \A n \in Timers : where[n] # Batch /\ where[n] # NearList(time % Near)
  BY <1>3, ListLemma
<1> QED BY <1>2, <1>3, <1>4 DEF Init, OnTime, Waits, InBatch, Between

(* A new node, with the types of what it changes.                          *)
LEMMA NewNodeOnTime ==
  ASSUME OnTime, NEW n \in Timers, NEW delay \in 1 .. MaxDelay, NEW repeats \in BOOLEAN,
         NEW k \in Keys \cup {None}, NewNode(n, delay, repeats, k),
         map' \in [Keys -> Timers \cup {None}], UNCHANGED <<time, pc, phase, hand>>
  PROVE  OnTime'
<1> USE DEF OnTime
<1>1. PICK e \in Times : e = (time + delay) % Horizon /\ Ahead(e, time) = delay
  BY TimeTypes, Later
<1>2. /\ where[n] = Free
      /\ where' = [where EXCEPT ![n] = Slot(e, time)]
      /\ expire' = [expire EXCEPT ![n] = e]
      /\ repeat' = [repeat EXCEPT ![n] = IF repeats THEN delay ELSE 0]
      /\ valid' = [valid EXCEPT ![n] = TRUE]
      /\ key' = [key EXCEPT ![n] = k]
  BY <1>1 DEF NewNode
<1>3. time \in Times /\ expire \in [Timers -> Times] /\ MaxDelay \in Nat
  BY TimeTypes
<1>4. Slot(e, time) \in Lists
  BY <1>3, SlotType
<1>5. TypeOK'
  BY <1>2, <1>3, <1>4 DEF TypeOK, Times
<1>6. where'[n] = Slot(e, time) /\ expire'[n] = e
  BY <1>2, <1>3 DEF TypeOK
<1>7. \A m \in Timers \ {n} : where'[m] = where[m] /\ expire'[m] = expire[m]
  BY <1>2, <1>3 DEF TypeOK
<1>8. Waits'
  BY <1>1, <1>3, <1>6, <1>7 DEF Waits
<1>9. where'[n] # Batch
  BY <1>6, SlotLemma
<1>10. InBatch'
  BY <1>7, <1>9 DEF InBatch, Rearms
<1>11. Slot(e, time) # NearList(time % Near)
  <2>1. e # time
    BY <1>1, <1>3 DEF Ahead, Times
  <2> QED BY <1>3, <2>1, SlotNow
<1>12. Between'
  BY <1>6, <1>7, <1>9, <1>11 DEF Between
<1> QED BY <1>5, <1>8, <1>10, <1>12

(* timer_shift: what it moves goes to the list of the new time, what it    *)
(* leaves is in it already.                                                *)
LEMMA ShiftOnTime == ASSUME OnTime, Shift PROVE OnTime'
<1> USE DEF OnTime
<1>1. time \in Times /\ expire \in [Timers -> Times] /\ MaxDelay \in Nat
  BY TimeTypes
<1>2. PICK d : d = (time + 1) % Horizon
  OBVIOUS
<1>3. /\ pc = "shift" /\ time' = d /\ pc' = "second" /\ UNCHANGED <<node, map, phase, hand>>
      /\ where' = [n \in Timers |-> IF where[n] \in Shifted(d) THEN Slot(expire[n], d) ELSE where[n]]
  BY <1>2 DEF Shift
<1>4. ASSUME NEW n \in Timers, where[n] # Free
      PROVE  /\ d \in Times
             /\ Ahead(expire[n], d) \in 0 .. MaxDelay
             /\ where'[n] = Slot(expire[n], d)
  <2>1. where[n] # Batch /\ where[n] # NearList(time % Near)
    BY <1>3 DEF Between
  <2>2. where[n] = Slot(expire[n], time) /\ Ahead(expire[n], time) \in 0 .. MaxDelay
    BY <1>4, <2>1 DEF Waits
  <2>3. expire[n] # time
    BY <1>1, <2>1, <2>2, SlotNow
  <2>4. Ahead(expire[n], time) # 0
    <3>1. PICK h \in Nat \ {0} : h = Horizon
      BY Halves
    <3> QED BY <1>1, <2>3, <3>1 DEF Ahead, Times
  <2>5. PICK a \in 1 .. MaxDelay : a = Ahead(expire[n], time)
    BY <1>1, <2>2, <2>4
  <2>6. /\ d \in Times /\ Ahead(expire[n], d) = a - 1
        /\ Slot(expire[n], time) \notin Shifted(d) => Slot(expire[n], d) = Slot(expire[n], time)
    BY <1>1, <1>2, <2>5, Stay
  <2>7. where'[n] = Slot(expire[n], d)
    BY <1>3, <2>2, <2>6
  <2> QED BY <1>1, <2>5, <2>6, <2>7
<1>5. \A n \in Timers : where[n] = Free => where'[n] = Free
  BY <1>3, ShiftedLemma
<1>6. \A n \in Timers : where'[n] # Batch
  BY <1>4, <1>5, SlotLemma, ListLemma
<1>7. d \in Times
  <2>1. PICK h \in Nat \ {0} : h = Horizon
    BY Halves
  <2>2. time + 1 \in Nat
    BY <1>1, <2>1 DEF Times
  <2>3. (time + 1) % h \in 0 .. h - 1
    BY <2>2, DivFacts
  <2> QED BY <1>2, <2>1, <2>3 DEF Times
<1>8. TypeOK'
  <2>1. \A n \in Timers : where'[n] \in Lists \cup {Free}
    BY <1>1, <1>4, <1>5, <1>7, SlotType
  <2>2. where' \in [Timers -> Lists \cup {Batch, Free}]
    BY <1>3, <2>1
  <2> QED BY <1>3, <1>7, <2>2 DEF TypeOK, Times, node
<1>9. Waits' /\ InBatch'
  BY <1>3, <1>4, <1>5, <1>6 DEF Waits, InBatch, node
<1>10. Between'
  BY <1>3, <1>6 DEF Between
<1> QED BY <1>8, <1>9, <1>10

(* The steps of dispatching, under the facts about the node in hand.       *)
LEMMA DispatchOnTime ==
  ASSUME OnTime, HandIsBusy,
         (\E n \in Timers : Dispatch(n)) \/ Returned \/ Rearm \/ Deallocate \/ Dispatched
  PROVE  OnTime'
<1> USE DEF OnTime
<1>1. time \in Times /\ expire \in [Timers -> Times] /\ MaxDelay \in Nat
  BY TimeTypes
<1>2. ASSUME NEW n \in Timers, Dispatch(n) PROVE OnTime'
  <2>1. pc = "dispatch" /\ where[n] = Batch /\ hand' = n /\ pc' \in {"call", "free"}
    BY <1>2 DEF Dispatch
  <2>2. UNCHANGED <<time, expire, repeat, valid, key, where, map, phase>>
    BY <1>2 DEF Dispatch, node
  <2>3. TypeOK'
    BY <2>1, <2>2 DEF TypeOK
  <2> QED BY <2>1, <2>2, <2>3 DEF Waits, InBatch, Rearms, Between
<1>3. CASE Returned
  <2>1. /\ pc = "call" /\ hand \in Timers /\ where[hand] = Batch
        /\ UNCHANGED <<time, repeat, valid, key, where, map, phase, hand>>
    BY <1>3 DEF Returned, HandIsBusy
  <2>2. expire[hand] = time
    BY <2>1 DEF InBatch, Rearms
  <2>3. \A m \in Timers \ {hand} : where[m] = Batch => expire[m] = time
    BY <2>1 DEF InBatch, Rearms
  <2>4. CASE repeat[hand] > 0 /\ valid[hand]
    <3>1. repeat[hand] \in 1 .. MaxDelay
      BY <1>1, <2>1, <2>4 DEF TypeOK
    <3>2. PICK e \in Times : e = (time + repeat[hand]) % Horizon /\ Ahead(e, time) = repeat[hand]
      BY <1>1, <3>1, Later
    <3>3. pc' = "rearm" /\ expire' = [expire EXCEPT ![hand] = e]
      BY <1>3, <2>2, <2>4, <3>2 DEF Returned
    <3>4. TypeOK'
      BY <1>1, <2>1, <3>3 DEF TypeOK, Times
    <3>5. expire'[hand] = e /\ \A m \in Timers \ {hand} : expire'[m] = expire[m]
      BY <1>1, <2>1, <3>3
    <3>6. Waits'
      BY <2>1, <3>5 DEF Waits
    <3>7. InBatch'
      BY <2>1, <2>3, <3>1, <3>2, <3>3, <3>5 DEF InBatch, Rearms
    <3> QED BY <3>3, <3>4, <3>6, <3>7 DEF Between
  <2>5. CASE ~(repeat[hand] > 0 /\ valid[hand])
    <3>1. pc' = "free" /\ expire' = expire
      BY <1>3, <2>5 DEF Returned
    <3>2. TypeOK'
      BY <2>1, <3>1 DEF TypeOK
    <3> QED BY <2>1, <2>2, <2>3, <3>1, <3>2 DEF Waits, InBatch, Rearms, Between
  <2> QED BY <2>4, <2>5
<1>4. CASE Rearm
  <2>1. /\ pc = "rearm" /\ hand \in Timers /\ where[hand] = Batch
        /\ where' = [where EXCEPT ![hand] = Slot(expire[hand], time)]
        /\ pc' = "dispatch" /\ hand' = None
        /\ UNCHANGED <<time, expire, repeat, valid, key, map, phase>>
    BY <1>4 DEF Rearm, HandIsBusy, node
  <2>2. Ahead(expire[hand], time) \in 1 .. MaxDelay
    BY <2>1 DEF InBatch, Rearms
  <2>3. PICK s \in Lists : s = Slot(expire[hand], time) /\ s # Batch
    BY <1>1, <2>1, SlotType, SlotLemma
  <2>4. where' = [where EXCEPT ![hand] = s]
    BY <2>1, <2>3
  <2>5. where'[hand] = s /\ \A m \in Timers \ {hand} : where'[m] = where[m]
    BY <2>1, <2>4 DEF TypeOK
  <2>6. TypeOK'
    BY <2>1, <2>4 DEF TypeOK
  <2>7. Waits'
    BY <1>1, <2>1, <2>2, <2>3, <2>5 DEF Waits
  <2>8. InBatch'
    BY <2>1, <2>3, <2>5 DEF InBatch, Rearms
  <2> QED BY <2>1, <2>6, <2>7, <2>8 DEF Between
<1>5. CASE Deallocate
  <2>1. /\ pc = "free" /\ hand \in Timers /\ where[hand] = Batch
        /\ where' = [where EXCEPT ![hand] = Free]
        /\ expire' = [expire EXCEPT ![hand] = 0]
        /\ repeat' = [repeat EXCEPT ![hand] = 0]
        /\ valid' = [valid EXCEPT ![hand] = FALSE]
        /\ key' = [key EXCEPT ![hand] = None]
        /\ pc' = "dispatch" /\ hand' = None
        /\ UNCHANGED <<time, map, phase>>
    BY <1>5 DEF Deallocate, HandIsBusy
  <2>2. TypeOK'
    BY <1>1, <2>1, TimeTypes DEF TypeOK, Times
  <2>3. where'[hand] = Free
    BY <2>1 DEF TypeOK
  <2>4. \A m \in Timers \ {hand} : where'[m] = where[m] /\ expire'[m] = expire[m]
    BY <1>1, <2>1 DEF TypeOK
  <2>5. Waits'
    BY <2>1, <2>3, <2>4 DEF Waits
  <2>6. InBatch'
    BY <2>1, <2>3, <2>4, ListLemma DEF InBatch, Rearms
  <2> QED BY <2>1, <2>2, <2>5, <2>6 DEF Between
<1>6. CASE Dispatched
  <2>1. /\ pc = "dispatch" /\ pc' = phase /\ \A n \in Timers : where[n] # Batch
        /\ UNCHANGED <<time, expire, repeat, valid, key, where, map, phase, hand>>
        /\ phase \in {"first", "second"}
    BY <1>6 DEF Dispatched, node, TypeOK
  <2>2. TypeOK'
    BY <2>1 DEF TypeOK
  <2> QED BY <2>1, <2>2 DEF Waits, InBatch, Between
<1> QED BY <1>2, <1>3, <1>4, <1>5, <1>6

LEMMA ExecuteOnTime == ASSUME OnTime, Execute PROVE OnTime'
<1> USE DEF OnTime
<1>1. time \in Times /\ expire \in [Timers -> Times] /\ MaxDelay \in Nat
  BY TimeTypes
<1>2. PICK S \in SUBSET Timers : S = {n \in Timers : where[n] = NearList(time % Near)}
  OBVIOUS
<1>3. /\ pc \in {"first", "second"}
      /\ where' = [n \in Timers |-> IF n \in S THEN Batch ELSE where[n]]
      /\ pc' = IF S # {} THEN "dispatch" ELSE IF pc = "first" THEN "shift" ELSE "sleep"
      /\ phase' = IF S # {} THEN pc ELSE "first"
      /\ UNCHANGED <<time, expire, repeat, valid, key, map, hand>>
  BY <1>2 DEF Execute, node
<1>4. TypeOK'
  BY <1>3 DEF TypeOK
<1>5. \A n \in S : expire[n] = time
  <2> SUFFICES ASSUME NEW n \in S PROVE expire[n] = time
    OBVIOUS
  <2>1. where[n] = NearList(time % Near) /\ where[n] \notin {Free, Batch}
    BY <1>2, ListLemma
  <2>2. Slot(expire[n], time) = NearList(time % Near)
    BY <2>1 DEF Waits
  <2> QED BY <1>1, <1>2, <2>2, SlotNow
<1>6. \A n \in Timers : where[n] # Batch
  BY <1>3 DEF Between
<1>7. Waits'
  BY <1>3 DEF Waits
<1>8. InBatch'
  BY <1>3, <1>5, <1>6 DEF InBatch, Rearms
<1>9. Between'
  BY <1>2, <1>3, <1>6 DEF Between
<1> QED BY <1>4, <1>7, <1>8, <1>9

LEMMA OnTimeStep == OnTime /\ HandIsBusy /\ [Next]_vars => OnTime'
<1> SUFFICES ASSUME OnTime, HandIsBusy, [Next]_vars PROVE OnTime'
  OBVIOUS
<1>1. CASE UNCHANGED vars
  BY <1>1 DEF vars, OnTime, TypeOK, Waits, InBatch, Rearms, Between
<1>2. ASSUME NEW n \in Timers, NEW delay \in 1 .. MaxDelay, AddTimeOut(n, delay) PROVE OnTime'
  <2>1. NewNode(n, delay, FALSE, None) /\ UNCHANGED <<time, map, pc, phase, hand>>
    BY <1>2 DEF AddTimeOut
  <2>2. map' \in [Keys -> Timers \cup {None}]
    BY <2>1 DEF OnTime, TypeOK
  <2> QED BY <2>1, <2>2, NewNodeOnTime
<1>3. ASSUME NEW n \in Timers, NEW delay \in 1 .. MaxDelay, NEW k \in Keys, AddOnTimer(n, delay, k)
      PROVE  OnTime'
  <2>1. NewNode(n, delay, TRUE, k) /\ UNCHANGED <<time, pc, phase, hand>>
    BY <1>3 DEF AddOnTimer
  <2>2. map' \in [Keys -> Timers \cup {None}]
    BY <1>3 DEF AddOnTimer, OnTime, TypeOK
  <2> QED BY <2>1, <2>2, NewNodeOnTime
<1>4. ASSUME NEW k \in Keys, DelTimer(k) PROVE OnTime'
  <2>1. /\ UNCHANGED <<time, expire, repeat, key, where, pc, phase, hand>>
        /\ valid' = [valid EXCEPT ![map[k]] = FALSE]
        /\ map' = [map EXCEPT ![k] = None]
    BY <1>4 DEF DelTimer, DelTimerAs
  <2>2. TypeOK'
    BY <2>1 DEF OnTime, TypeOK
  <2> QED BY <2>1, <2>2 DEF OnTime, Waits, InBatch, Rearms, Between
<1>5. CASE Tick
  <2>1. /\ pc = "sleep" /\ pc' = "first"
        /\ UNCHANGED <<time, expire, repeat, valid, key, where, map, phase, hand>>
    BY <1>5 DEF Tick, node
  <2>2. TypeOK'
    BY <2>1 DEF OnTime, TypeOK
  <2> QED BY <2>1, <2>2 DEF OnTime, Waits, InBatch, Rearms, Between
<1> QED
  BY <1>1, <1>2, <1>3, <1>4, <1>5, ShiftOnTime, ExecuteOnTime, DispatchOnTime
  DEF Next, TimerThread, Callers

LEMMA OnTimeInvariant == Spec => [](MInv /\ OnTime)
<1>1. (MInv /\ OnTime) /\ [Next]_vars => (MInv /\ OnTime)'
  BY StepM, OnTimeStep DEF MInv
<1> QED BY InitM, OnTimeInit, <1>1, PTL DEF Spec

(* The types of the wheel: every node is in a list of a wheel, in the      *)
(* batch or free (add_node, link_clear).                                   *)
THEOREM TypeTheorem == Spec => []TypeOK
<1>1. OnTime => TypeOK
  BY DEF OnTime
<1> QED BY OnTimeInvariant, <1>1, PTL
-----------------------------------------------------------------------------
(* What the service sees of a node, from where it is.                      *)
Stage(n) ==
  IF where[n] = Free THEN "free"
  ELSE IF where[n] # Batch THEN (IF expire[n] = time THEN "due" ELSE "armed")
  ELSE IF hand # n THEN "due"
  ELSE IF pc = "call" THEN "called" ELSE IF pc = "rearm" THEN "armed" ELSE "free"

LEMMA StateIsStage == OnTime => \A n \in Timers : State(n) = Stage(n)
<1> SUFFICES ASSUME OnTime, NEW n \in Timers PROVE State(n) = Stage(n)
  OBVIOUS
<1> USE DEF OnTime
<1>1. time \in Times /\ expire[n] \in Times
  BY TimeTypes
<1>2. Free # Batch /\ NearList(time % Near) # Free /\ NearList(time % Near) # Batch
  BY ListLemma
<1>3. CASE where[n] \in {Free, Batch}
  BY <1>2, <1>3 DEF State, Stage
<1>4. CASE where[n] \notin {Free, Batch}
  <2>1. where[n] = Slot(expire[n], time)
    BY <1>4 DEF Waits
  <2>2. where[n] = NearList(time % Near) <=> expire[n] = time
    BY <1>1, <2>1, SlotNow
  <2> QED BY <1>4, <2>2 DEF State, Stage
<1> QED BY <1>3, <1>4

Due(n) == IF Stage(n) = "free" THEN 0 ELSE expire[n]
Every(n) == IF Stage(n) = "free" THEN 0 ELSE repeat[n]
Live(n) == Stage(n) # "free" /\ valid[n]

(* A node of which nothing changes that the service sees.                  *)
Still(n) ==
  /\ Due(n)' = Due(n) /\ Every(n)' = Every(n)
  /\ Live(n)' = Live(n) /\ Stage(n)' = Stage(n)

LEMMA StillLemma ==
  ASSUME NEW n \in Timers, Stage(n)' = Stage(n),
         Stage(n) # "free" =>
           expire'[n] = expire[n] /\ repeat'[n] = repeat[n] /\ (valid'[n] <=> valid[n])
  PROVE  Still(n)
<1>1. Due(n)' = Due(n)
  BY DEF Due
<1>2. Every(n)' = Every(n)
  BY DEF Every
<1>3. Live(n)' = Live(n)
  BY DEF Live
<1> QED BY <1>1, <1>2, <1>3 DEF Still

(* The functions of the service and what they are of.                      *)
LEMMA View ==
  OnTime =>
    /\ [n \in Timers |-> IF Gone(n) THEN 0 ELSE expire[n]] = [n \in Timers |-> Due(n)]
    /\ [n \in Timers |-> IF Gone(n) THEN 0 ELSE repeat[n]] = [n \in Timers |-> Every(n)]
    /\ [n \in Timers |-> ~Gone(n) /\ valid[n]] = [n \in Timers |-> Live(n)]
    /\ [n \in Timers |-> State(n)] = [n \in Timers |-> Stage(n)]
<1> SUFFICES ASSUME OnTime
             PROVE  /\ \A n \in Timers : (IF Gone(n) THEN 0 ELSE expire[n]) = Due(n)
                    /\ \A n \in Timers : (IF Gone(n) THEN 0 ELSE repeat[n]) = Every(n)
                    /\ \A n \in Timers : (~Gone(n) /\ valid[n]) = Live(n)
                    /\ \A n \in Timers : State(n) = Stage(n)
  OBVIOUS
<1>1. \A n \in Timers : State(n) = Stage(n)
  BY StateIsStage
<1> QED BY <1>1 DEF Gone, Due, Every, Live

DueF == [n \in Timers |-> Due(n)]
EveryF == [n \in Timers |-> Every(n)]
LiveF == [n \in Timers |-> Live(n)]
StageF == [n \in Timers |-> Stage(n)]

S == INSTANCE TimerService WITH now <- time, due <- DueF, every <- EveryF, live <- LiveF, state <- StageF

(* What a step that concerns one node does to the functions.               *)
LEMMA OneSeen ==
  ASSUME NEW n \in Timers, \A m \in Timers \ {n} : Still(m)
  PROVE  /\ DueF' = [DueF EXCEPT ![n] = Due(n)']
         /\ EveryF' = [EveryF EXCEPT ![n] = Every(n)']
         /\ LiveF' = [LiveF EXCEPT ![n] = Live(n)']
         /\ StageF' = [StageF EXCEPT ![n] = Stage(n)']
<1>1. DueF' = [DueF EXCEPT ![n] = Due(n)']
  BY DEF DueF, Still
<1>2. EveryF' = [EveryF EXCEPT ![n] = Every(n)']
  BY DEF EveryF, Still
<1>3. LiveF' = [LiveF EXCEPT ![n] = Live(n)']
  BY DEF LiveF, Still
<1>4. StageF' = [StageF EXCEPT ![n] = Stage(n)']
  BY DEF StageF, Still
<1> QED BY <1>1, <1>2, <1>3, <1>4

LEMMA NoneSeen ==
  ASSUME \A m \in Timers : Still(m)
  PROVE  UNCHANGED <<DueF, EveryF, LiveF, StageF>>
<1>1. DueF' = DueF
  BY DEF DueF, Still
<1>2. EveryF' = EveryF
  BY DEF EveryF, Still
<1>3. LiveF' = LiveF
  BY DEF LiveF, Still
<1>4. StageF' = StageF
  BY DEF StageF, Still
<1> QED BY <1>1, <1>2, <1>3, <1>4

(* The functions of Service are these.                                     *)
LEMMA SameView ==
  OnTime =>
    /\ [n \in Timers |-> IF Gone(n) THEN 0 ELSE expire[n]] = DueF
    /\ [n \in Timers |-> IF Gone(n) THEN 0 ELSE repeat[n]] = EveryF
    /\ [n \in Timers |-> ~Gone(n) /\ valid[n]] = LiveF
    /\ [n \in Timers |-> State(n)] = StageF
BY View DEF DueF, EveryF, LiveF, StageF

LEMMA SameNext ==
  ASSUME OnTime, OnTime', [S!Next]_(S!vars)
  PROVE  [Service!Next]_(Service!vars)
<1> DEFINE due == [n \in Timers |-> IF Gone(n) THEN 0 ELSE expire[n]]
           every == [n \in Timers |-> IF Gone(n) THEN 0 ELSE repeat[n]]
           live == [n \in Timers |-> ~Gone(n) /\ valid[n]]
           state == [n \in Timers |-> State(n)]
<1>1. due = DueF /\ every = EveryF /\ live = LiveF /\ state = StageF
  BY SameView
<1>2. (OnTime => due = DueF /\ every = EveryF /\ live = LiveF /\ state = StageF)'
  BY SameView, PTL
<1>3. due' = DueF' /\ every' = EveryF' /\ live' = LiveF' /\ state' = StageF'
  BY <1>2
<1>4. CASE UNCHANGED S!vars
  <2>1. time' = time /\ due' = due /\ every' = every /\ live' = live /\ state' = state
    BY <1>1, <1>3, <1>4, Zenon DEF S!vars
  <2> QED BY <2>1, Zenon DEF Service!vars
<1>5. CASE S!Tick
  <2>1. Service!Tick
    BY <1>1, <1>3, <1>5, Zenon DEF S!Tick, Service!Tick
  <2> QED BY <2>1 DEF Service!Next
<1>6. ASSUME NEW t \in Timers, NEW delay \in 1 .. MaxDelay, NEW repeats \in BOOLEAN, S!Add(t, delay, repeats)
      PROVE  [Service!Next]_(Service!vars)
  <2>1. Service!Add(t, delay, repeats)
    BY <1>1, <1>3, <1>6, Zenon DEF S!Add, Service!Add
  <2> QED BY <2>1 DEF Service!Next
<1>7. ASSUME NEW t \in Timers, S!Delete(t) \/ S!Call(t) \/ S!Rearm(t) \/ S!End(t)
      PROVE  [Service!Next]_(Service!vars)
  <2>1. S!Delete(t) => Service!Delete(t)
    BY <1>1, <1>3, Zenon DEF S!Delete, Service!Delete
  <2>2. S!Call(t) => Service!Call(t)
    BY <1>1, <1>3, Zenon DEF S!Call, Service!Call
  <2>3. S!Rearm(t) => Service!Rearm(t)
    BY <1>1, <1>3, Zenon DEF S!Rearm, Service!Rearm
  <2>4. S!End(t) => Service!End(t)
    BY <1>1, <1>3, Zenon DEF S!End, Service!End
  <2> QED BY <1>7, <2>1, <2>2, <2>3, <2>4 DEF Service!Next
<1> QED BY <1>4, <1>5, <1>6, <1>7 DEF S!Next

(* The steps, one by one: the tick is the shift of the wheels ...          *)
LEMMA ShiftSeen == ASSUME OnTime, OnTime', Shift PROVE S!Tick
<1>1. /\ pc = "shift" /\ pc' = "second" /\ hand' = hand /\ time' = (time + 1) % Horizon
      /\ UNCHANGED <<expire, repeat, valid>>
      /\ \A n \in Timers : where[n] # Batch /\ where'[n] # Batch
      /\ \A n \in Timers : where[n] # NearList(time % Near)
  BY DEF Shift, node, OnTime, Between
<1>2. \A n \in Timers : where'[n] = Free <=> where[n] = Free
  BY SlotLemma, ShiftedLemma DEF Shift
<1>3. \A n \in Timers : where[n] # Free => expire[n] # time
  <2> SUFFICES ASSUME NEW n \in Timers, where[n] # Free PROVE expire[n] # time
    OBVIOUS
  <2>1. where[n] = Slot(expire[n], time)
    BY <1>1 DEF OnTime, Waits
  <2>2. expire[n] \in Times /\ time \in Times
    BY TimeTypes DEF OnTime
  <2> QED BY <1>1, <2>1, <2>2, SlotNow
<1>4. \A n \in Timers : Stage(n) = IF where[n] = Free THEN "free" ELSE "armed"
  BY <1>1, <1>3 DEF Stage
<1>5. \A n \in Timers : Stage(n)' =
        IF where[n] = Free THEN "free" ELSE IF expire[n] = time' THEN "due" ELSE "armed"
  BY <1>1, <1>2 DEF Stage
<1>6. ASSUME NEW n \in Timers
      PROVE  Due(n)' = Due(n) /\ Every(n)' = Every(n) /\ Live(n)' = Live(n)
  <2>1. Stage(n)' = "free" <=> Stage(n) = "free"
    BY <1>4, <1>5
  <2>2. Due(n)' = Due(n) /\ Every(n)' = Every(n)
    BY <1>1, <2>1 DEF Due, Every
  <2> QED BY <1>1, <2>1, <2>2 DEF Live
<1>7. DueF' = DueF
  BY <1>6 DEF DueF
<1>8. EveryF' = EveryF
  BY <1>6 DEF EveryF
<1>9. LiveF' = LiveF
  BY <1>6 DEF LiveF
<1>10. \A n \in Timers : StageF[n] \in {"free", "armed"}
  BY <1>4 DEF StageF
<1>11. StageF' = [t \in Timers |->
                   IF StageF[t] = "armed" /\ DueF[t] = time' THEN "due" ELSE StageF[t]]
  BY <1>4, <1>5 DEF StageF, DueF, Due
<1> QED BY <1>1, <1>7, <1>8, <1>9, <1>10, <1>11 DEF S!Tick

(* ... a new node is armed ...                                             *)
LEMMA NewNodeSeen ==
  ASSUME OnTime, OnTime', NEW n \in Timers, NEW delay \in 1 .. MaxDelay, NEW repeats \in BOOLEAN,
         NEW k \in Keys \cup {None}, NewNode(n, delay, repeats, k), UNCHANGED <<time, pc, phase, hand>>
  PROVE  S!Add(n, delay, repeats)
<1>1. PICK e \in Times : e = (time + delay) % Horizon /\ Ahead(e, time) = delay
  BY TimeTypes, Later DEF OnTime
<1>2. /\ where[n] = Free
      /\ where' = [where EXCEPT ![n] = Slot(e, time)]
      /\ expire' = [expire EXCEPT ![n] = e]
      /\ repeat' = [repeat EXCEPT ![n] = IF repeats THEN delay ELSE 0]
      /\ valid' = [valid EXCEPT ![n] = TRUE]
  BY <1>1 DEF NewNode
<1>3. /\ where'[n] \notin {Free, Batch} /\ expire'[n] = e /\ valid'[n]
      /\ repeat'[n] = IF repeats THEN delay ELSE 0
  BY <1>2, SlotLemma DEF OnTime, TypeOK
<1>4. e # time
  BY <1>1, TimeTypes DEF OnTime, Ahead, Times
<1>5. Stage(n) = "free" /\ Stage(n)' = "armed"
  BY <1>2, <1>3, <1>4 DEF Stage
<1>6. Due(n)' = e /\ Every(n)' = (IF repeats THEN delay ELSE 0) /\ Live(n)'
  BY <1>3, <1>5 DEF Due, Every, Live
<1>7. \A m \in Timers \ {n} : Still(m)
  <2> SUFFICES ASSUME NEW m \in Timers \ {n} PROVE Still(m)
    OBVIOUS
  <2>1. /\ where'[m] = where[m] /\ expire'[m] = expire[m]
        /\ repeat'[m] = repeat[m] /\ valid'[m] = valid[m]
    BY <1>2 DEF OnTime, TypeOK
  <2>2. Stage(m)' = Stage(m)
    BY <2>1 DEF Stage
  <2> QED BY <2>1, <2>2, StillLemma
<1>8. /\ DueF' = [DueF EXCEPT ![n] = e]
      /\ EveryF' = [EveryF EXCEPT ![n] = IF repeats THEN delay ELSE 0]
      /\ LiveF' = [LiveF EXCEPT ![n] = TRUE]
      /\ StageF' = [StageF EXCEPT ![n] = "armed"]
  <2>1. /\ DueF' = [DueF EXCEPT ![n] = Due(n)']
        /\ EveryF' = [EveryF EXCEPT ![n] = Every(n)']
        /\ LiveF' = [LiveF EXCEPT ![n] = Live(n)']
        /\ StageF' = [StageF EXCEPT ![n] = Stage(n)']
    BY <1>7, OneSeen
  <2>2. Live(n)' = TRUE
    BY <1>6 DEF Live
  <2> QED BY <1>5, <1>6, <2>1, <2>2
<1>9. StageF[n] = "free"
  BY <1>5 DEF StageF
<1> QED BY <1>1, <1>8, <1>9, Zenon DEF S!Add

(* ... DelTimer is a deletion of a node that the service knows ...         *)
LEMMA DelTimerSeen ==
  ASSUME OnTime, MInv, OnTime', NEW k \in Keys, DelTimer(k)
  PROVE  S!Delete(map[k])
<1>1. PICK n \in Timers : n = map[k]
  BY DEF DelTimer, DelTimerAs, OnTime, TypeOK
<1>2. /\ UNCHANGED <<time, expire, repeat, key, where, pc, phase, hand>>
      /\ valid' = [valid EXCEPT ![n] = FALSE]
      /\ map[k] # None
  BY <1>1 DEF DelTimer, DelTimerAs
<1>3. where[n] # Free /\ valid[n] /\ repeat[n] > 0
  BY <1>1, <1>2 DEF MInv, MapSound
<1>4. where[n] = Batch /\ hand = n => pc \in {"call", "rearm"}
  <2>1. pc = "free" => ~(hand = n)
    BY <1>3 DEF MInv, HandIsBusy
  <2>2. WheelAssumption /\ (hand = n => hand # None)
    BY WheelAssumption
  <2> QED BY <2>1, <2>2 DEF OnTime, Between, TypeOK
<1>5. Stage(n) # "free"
  BY <1>3, <1>4 DEF Stage
<1>6. \A m \in Timers : Stage(m)' = Stage(m)
  BY <1>2 DEF Stage
<1>7. \A m \in Timers \ {n} : Still(m)
  <2> SUFFICES ASSUME NEW m \in Timers \ {n} PROVE Still(m)
    OBVIOUS
  <2>1. expire'[m] = expire[m] /\ repeat'[m] = repeat[m] /\ valid'[m] = valid[m]
    BY <1>2 DEF OnTime, TypeOK
  <2> QED BY <1>6, <2>1, StillLemma
<1>8. Due(n)' = Due(n) /\ Every(n)' = Every(n) /\ Live(n)' = FALSE
  <2>1. ~valid'[n]
    BY <1>2 DEF OnTime, TypeOK
  <2>2. Due(n)' = Due(n) /\ Every(n)' = Every(n)
    BY <1>2, <1>6 DEF Due, Every
  <2> QED BY <2>1, <2>2 DEF Live
<1>9. /\ DueF' = DueF /\ EveryF' = EveryF /\ StageF' = StageF
      /\ LiveF' = [LiveF EXCEPT ![n] = FALSE]
  <2>1. /\ DueF' = [DueF EXCEPT ![n] = Due(n)']
        /\ EveryF' = [EveryF EXCEPT ![n] = Every(n)']
        /\ LiveF' = [LiveF EXCEPT ![n] = Live(n)']
        /\ StageF' = [StageF EXCEPT ![n] = Stage(n)']
    BY <1>7, OneSeen
  <2>2. DueF[n] = Due(n) /\ EveryF[n] = Every(n) /\ StageF[n] = Stage(n)
    BY DEF DueF, EveryF, StageF
  <2>3. DueF' = DueF
    BY <1>8, <2>1, <2>2 DEF DueF
  <2>4. EveryF' = EveryF
    BY <1>8, <2>1, <2>2 DEF EveryF
  <2>5. StageF' = StageF
    BY <1>6, <2>1, <2>2 DEF StageF
  <2> QED BY <1>8, <2>1, <2>3, <2>4, <2>5
<1>10. StageF[n] # "free" /\ LiveF[n] /\ EveryF[n] > 0
  BY <1>3, <1>5 DEF StageF, LiveF, EveryF, Live, Every
<1> QED BY <1>1, <1>2, <1>9, <1>10 DEF S!Delete

(* ... a node of the batch is called, or ended if it was deleted ...       *)
LEMMA DispatchSeen ==
  ASSUME OnTime, MInv, OnTime', NEW n \in Timers, Dispatch(n)
  PROVE  S!Call(n) \/ S!End(n)
<1>1. /\ pc = "dispatch" /\ where[n] = Batch /\ hand = None /\ hand' = n
      /\ pc' = IF valid[n] THEN "call" ELSE "free"
      /\ UNCHANGED <<time, expire, repeat, valid, where>>
  BY DEF Dispatch, node, OnTime, Between
<1>2. n # None /\ Batch # Free
  BY WheelAssumption, ListLemma
<1>3. Stage(n) = "due" /\ Stage(n)' = IF valid[n] THEN "called" ELSE "free"
  BY <1>1, <1>2 DEF Stage
<1>4. \A m \in Timers \ {n} : Still(m)
  <2> SUFFICES ASSUME NEW m \in Timers \ {n} PROVE Still(m)
    OBVIOUS
  <2>1. Stage(m)' = Stage(m)
    BY <1>1, WheelAssumption DEF Stage
  <2> QED BY <1>1, <2>1, StillLemma
<1>5. /\ DueF' = [DueF EXCEPT ![n] = Due(n)']
      /\ EveryF' = [EveryF EXCEPT ![n] = Every(n)']
      /\ LiveF' = [LiveF EXCEPT ![n] = Live(n)']
      /\ StageF' = [StageF EXCEPT ![n] = Stage(n)']
  BY <1>4, OneSeen
<1>6. StageF[n] = Stage(n) /\ (LiveF[n] <=> Live(n))
  BY DEF StageF, LiveF
<1>7. CASE valid[n]
  <2>1. Stage(n)' = "called" /\ Stage(n) # "free"
    BY <1>3, <1>7
  <2>2. Due(n)' = Due(n) /\ Every(n)' = Every(n)
    BY <1>1, <2>1 DEF Due, Every
  <2>3. Live(n)' = Live(n) /\ Live(n)
    BY <1>1, <1>7, <2>1 DEF Live
  <2>4. DueF' = DueF
    BY <1>5, <2>2 DEF DueF
  <2>5. EveryF' = EveryF
    BY <1>5, <2>2 DEF EveryF
  <2>6. LiveF' = LiveF
    BY <1>5, <2>3 DEF LiveF
  <2> QED BY <1>1, <1>3, <1>5, <1>6, <2>1, <2>3, <2>4, <2>5, <2>6 DEF S!Call
<1>8. CASE ~valid[n]
  <2>1. Stage(n)' = "free"
    BY <1>3, <1>8
  <2>2. Due(n)' = 0 /\ Every(n)' = 0 /\ Live(n)' = FALSE /\ ~Live(n)
    BY <1>8, <2>1 DEF Due, Every, Live
  <2> QED BY <1>1, <1>3, <1>5, <1>6, <2>1, <2>2 DEF S!End
<1> QED BY <1>7, <1>8

(* ... and is armed again for one period later, or ended, when its         *)
(* callback returns.                                                       *)
LEMMA ReturnedSeen ==
  ASSUME OnTime, MInv, OnTime', Returned
  PROVE  S!Rearm(hand) \/ S!End(hand)
<1>1. PICK n \in Timers : n = hand
  BY DEF Returned, MInv, HandIsBusy
<1>2. /\ pc = "call" /\ where[n] = Batch /\ UNCHANGED <<time, repeat, valid, where, hand>>
      /\ Batch # Free
  BY <1>1, ListLemma DEF Returned, MInv, HandIsBusy
<1>3. Stage(n) = "called"
  BY <1>1, <1>2 DEF Stage
<1>4. \A m \in Timers \ {n} : Stage(m)' = Stage(m) /\ expire'[m] = expire[m]
  <2> SUFFICES ASSUME NEW m \in Timers \ {n} PROVE Stage(m)' = Stage(m) /\ expire'[m] = expire[m]
    OBVIOUS
  <2>1. expire'[m] = expire[m]
    BY <1>1 DEF Returned, OnTime, TypeOK
  <2> QED BY <1>1, <1>2, <2>1 DEF Stage
<1>5. \A m \in Timers \ {n} : Still(m)
  BY <1>2, <1>4, StillLemma
<1>6. /\ DueF' = [DueF EXCEPT ![n] = Due(n)']
      /\ EveryF' = [EveryF EXCEPT ![n] = Every(n)']
      /\ LiveF' = [LiveF EXCEPT ![n] = Live(n)']
      /\ StageF' = [StageF EXCEPT ![n] = Stage(n)']
  BY <1>5, OneSeen
<1>7. /\ StageF[n] = Stage(n) /\ (LiveF[n] <=> Live(n)) /\ EveryF[n] = Every(n) /\ DueF[n] = Due(n)
  BY DEF StageF, LiveF, EveryF, DueF
<1>8. Due(n) = expire[n] /\ Every(n) = repeat[n] /\ (Live(n) <=> valid[n])
  BY <1>3 DEF Due, Every, Live
<1>9. repeat[n] \in Nat
  BY TimeTypes DEF OnTime, TypeOK
<1>10. CASE repeat[n] > 0 /\ valid[n]
  <2>1. pc' = "rearm" /\ expire' = [expire EXCEPT ![n] = (expire[n] + repeat[n]) % Horizon]
    BY <1>1, <1>10 DEF Returned
  <2>2. expire'[n] = (expire[n] + repeat[n]) % Horizon
    BY <2>1 DEF OnTime, TypeOK
  <2>3. Stage(n)' = "armed"
    BY <1>1, <1>2, <2>1 DEF Stage
  <2>4. Due(n)' = (DueF[n] + EveryF[n]) % Horizon
    BY <1>7, <1>8, <2>2, <2>3 DEF Due
  <2>5. Every(n)' = Every(n) /\ Live(n)' = Live(n)
    BY <1>2, <1>8, <1>10, <2>3 DEF Every, Live
  <2>6. EveryF' = EveryF
    BY <1>6, <2>5 DEF EveryF
  <2>7. LiveF' = LiveF
    BY <1>6, <2>5 DEF LiveF
  <2>8. DueF' = [DueF EXCEPT ![n] = (DueF[n] + EveryF[n]) % Horizon]
    BY <1>6, <2>4
  <2>9. StageF' = [StageF EXCEPT ![n] = "armed"]
    BY <1>6, <2>3
  <2> QED BY <1>1, <1>2, <1>3, <1>7, <1>8, <1>10, <2>6, <2>7, <2>8, <2>9 DEF S!Rearm
<1>11. CASE ~(repeat[n] > 0 /\ valid[n])
  <2>1. pc' = "free"
    BY <1>1, <1>11 DEF Returned
  <2>2. Stage(n)' = "free"
    BY <1>1, <1>2, <2>1 DEF Stage
  <2>3. Due(n)' = 0 /\ Every(n)' = 0 /\ Live(n)' = FALSE
    BY <2>2 DEF Due, Every, Live
  <2>4. EveryF[n] = 0 \/ ~LiveF[n]
    BY <1>7, <1>8, <1>9, <1>11
  <2> QED BY <1>1, <1>2, <1>3, <1>6, <1>7, <2>2, <2>3, <2>4 DEF S!End
<1> QED BY <1>10, <1>11

(* The service does not see the other steps.                               *)
LEMMA OthersUnseen ==
  ASSUME OnTime, MInv, OnTime',
         UNCHANGED vars \/ Tick \/ Execute \/ Rearm \/ Deallocate \/ Dispatched
  PROVE  UNCHANGED S!vars
<1> SUFFICES ASSUME TRUE PROVE time' = time /\ \A n \in Timers : Still(n)
  BY NoneSeen DEF S!vars
<1>1. time' = time
  BY DEF vars, Tick, Execute, Rearm, Deallocate, Dispatched
<1>2. Batch # Free
  BY ListLemma
<1>3. CASE UNCHANGED vars \/ Tick \/ Dispatched
  <2>1. /\ UNCHANGED <<time, expire, repeat, valid, where, hand>>
        /\ pc' = pc \/ \A n \in Timers : where[n] # Batch
    BY <1>3 DEF vars, Tick, Dispatched, node, OnTime, Between
  <2>2. \A n \in Timers : Stage(n)' = Stage(n)
    BY <2>1 DEF Stage
  <2> QED BY <1>1, <2>1, <2>2, StillLemma
<1>4. CASE Execute
  <2>1. /\ UNCHANGED <<time, expire, repeat, valid, hand>> /\ hand = None
        /\ \A n \in Timers : where'[n] = IF where[n] = NearList(time % Near) THEN Batch ELSE where[n]
        /\ \A n \in Timers : where[n] # Batch
    BY <1>4 DEF Execute, node, OnTime, Between
  <2> SUFFICES ASSUME NEW n \in Timers PROVE Still(n)
    BY <1>1
  <2>2. n # hand /\ hand' = hand
    BY <2>1, WheelAssumption
  <2>3. CASE where[n] = NearList(time % Near)
    <3>1. where[n] \notin {Free, Batch} /\ where'[n] = Batch
      BY <2>1, <2>3, ListLemma
    <3>2. Slot(expire[n], time) = NearList(time % Near)
      BY <2>3, <3>1 DEF OnTime, Waits
    <3>3. expire[n] = time
      BY <3>2, TimeTypes, SlotNow DEF OnTime
    <3>4. Stage(n) = "due" /\ Stage(n)' = "due"
      BY <1>2, <2>2, <3>1, <3>3 DEF Stage
    <3> QED BY <2>1, <3>4, StillLemma
  <2>4. CASE where[n] # NearList(time % Near)
    <3>1. where'[n] = where[n] /\ where[n] # Batch
      BY <2>1, <2>4
    <3>2. Stage(n)' = Stage(n)
      BY <2>1, <3>1 DEF Stage
    <3> QED BY <2>1, <3>2, StillLemma
  <2> QED BY <2>3, <2>4
<1>5. CASE Rearm \/ Deallocate
  <2>1. PICK k \in Timers : k = hand
    BY <1>5 DEF Rearm, Deallocate, MInv, HandIsBusy
  <2>2. /\ where[k] = Batch /\ pc \in {"rearm", "free"} /\ pc' = "dispatch"
        /\ hand' = None /\ k # None
    BY <1>5, <2>1, WheelAssumption DEF Rearm, Deallocate, MInv, HandIsBusy
  <2>3. \A n \in Timers \ {k} : Still(n)
    <3> SUFFICES ASSUME NEW n \in Timers \ {k} PROVE Still(n)
      OBVIOUS
    <3>1. /\ where'[n] = where[n] /\ expire'[n] = expire[n]
          /\ repeat'[n] = repeat[n] /\ valid'[n] = valid[n]
      BY <1>5, <2>1 DEF Rearm, Deallocate, node, OnTime, TypeOK
    <3>2. n # hand /\ n # hand'
      BY <2>1, <2>2, WheelAssumption
    <3>3. Stage(n)' = Stage(n)
      BY <1>1, <3>1, <3>2 DEF Stage
    <3> QED BY <3>1, <3>3, StillLemma
  <2>4. CASE Rearm
    <3>1. /\ pc = "rearm" /\ UNCHANGED <<expire, repeat, valid>>
          /\ where' = [where EXCEPT ![k] = Slot(expire[k], time)]
      BY <2>1, <2>4 DEF Rearm, node
    <3>2. where'[k] \notin {Free, Batch}
      BY <3>1, SlotLemma DEF OnTime, TypeOK
    <3>3. expire[k] # time
      <4>1. Ahead(expire[k], time) \in 1 .. MaxDelay
        BY <2>1, <2>2, <3>1 DEF OnTime, InBatch, Rearms
      <4> QED BY <4>1, TimeTypes DEF OnTime, Ahead, Times
    <3>4. Stage(k) = "armed" /\ Stage(k)' = "armed"
      BY <1>1, <1>2, <2>1, <2>2, <3>1, <3>2, <3>3 DEF Stage
    <3>5. Still(k)
      BY <3>1, <3>4, StillLemma
    <3> QED BY <1>1, <2>3, <3>5
  <2>5. CASE Deallocate
    <3>1. pc = "free" /\ where' = [where EXCEPT ![k] = Free]
      BY <2>1, <2>5 DEF Deallocate
    <3>2. where'[k] = Free
      BY <3>1 DEF OnTime, TypeOK
    <3>3. Stage(k) = "free" /\ Stage(k)' = "free"
      BY <1>2, <2>1, <2>2, <3>1, <3>2 DEF Stage
    <3>4. Still(k)
      BY <3>3, StillLemma
    <3> QED BY <1>1, <2>3, <3>4
  <2> QED BY <1>5, <2>4, <2>5
<1> QED BY <1>3, <1>4, <1>5

LEMMA ServiceStep ==
  ASSUME OnTime, MInv, OnTime', [Next]_vars
  PROVE  [Service!Next]_(Service!vars)
<1>1. ASSUME NEW n \in Timers, NEW delay \in 1 .. MaxDelay, AddTimeOut(n, delay)
      PROVE  S!Next
  <2>1. NewNode(n, delay, FALSE, None) /\ UNCHANGED <<time, pc, phase, hand>>
    BY <1>1 DEF AddTimeOut
  <2>2. S!Add(n, delay, FALSE)
    BY <2>1, NewNodeSeen
  <2> QED BY <2>2 DEF S!Next
<1>2. ASSUME NEW n \in Timers, NEW delay \in 1 .. MaxDelay, NEW k \in Keys, AddOnTimer(n, delay, k)
      PROVE  S!Next
  <2>1. NewNode(n, delay, TRUE, k) /\ UNCHANGED <<time, pc, phase, hand>>
    BY <1>2 DEF AddOnTimer
  <2>2. S!Add(n, delay, TRUE)
    BY <2>1, NewNodeSeen
  <2> QED BY <2>2 DEF S!Next
<1>3. ASSUME NEW k \in Keys, DelTimer(k) PROVE S!Next
  <2>1. map[k] \in Timers
    BY <1>3 DEF DelTimer, DelTimerAs, OnTime, TypeOK
  <2> QED BY <1>3, <2>1, DelTimerSeen DEF S!Next
<1>4. Shift => S!Next
  BY ShiftSeen DEF S!Next
<1>5. ASSUME NEW n \in Timers, Dispatch(n) PROVE S!Next
  BY <1>5, DispatchSeen DEF S!Next
<1>6. ASSUME Returned PROVE S!Next
  <2>1. hand \in Timers
    BY <1>6 DEF Returned, MInv, HandIsBusy
  <2> QED BY <1>6, <2>1, ReturnedSeen DEF S!Next
<1>7. S!Next \/ UNCHANGED S!vars
  BY <1>1, <1>2, <1>3, <1>4, <1>5, <1>6, OthersUnseen DEF Next, TimerThread, Callers
<1> QED BY <1>7, SameNext

(* Whatever lists a node goes through, across the wrap-round of the time   *)
(* too, it is called in the tick it is due and in no other, again and      *)
(* again if it repeats, and never after it was deleted: the wheel          *)
(* implements the service (add_node, timer_shift, dispatch_list).          *)
THEOREM OnTimeTheorem == Spec => CalledOnTime
<1>1. Init => Service!Init
  <2> SUFFICES ASSUME Init PROVE Service!Init
    OBVIOUS
  <2>1. \A n \in Timers : State(n) = "free" /\ Gone(n)
    <3>1. \A n \in Timers : where[n] = Free
      BY DEF Init
    <3>2. \A n \in Timers : State(n) = "free"
      BY <3>1, ListLemma DEF State
    <3> QED BY <3>2 DEF Gone
  <2>2. /\ time = 0
        /\ [n \in Timers |-> IF Gone(n) THEN 0 ELSE expire[n]] = [t \in Timers |-> 0]
        /\ [n \in Timers |-> IF Gone(n) THEN 0 ELSE repeat[n]] = [t \in Timers |-> 0]
        /\ [n \in Timers |-> ~Gone(n) /\ valid[n]] = [t \in Timers |-> FALSE]
        /\ [n \in Timers |-> State(n)] = [t \in Timers |-> "free"]
    BY <2>1 DEF Init
  <2> QED BY <2>2, Zenon DEF Service!Init
<1>2. (MInv /\ OnTime) /\ (MInv /\ OnTime)' /\ [Next]_vars => [Service!Next]_(Service!vars)
  BY ServiceStep
<1> QED BY <1>1, <1>2, OnTimeInvariant, PTL DEF Spec, CalledOnTime, Service!Spec
=============================================================================
