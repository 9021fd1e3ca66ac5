------------------------------ MODULE TimerWheel ------------------------------
(***************************************************************************)
(* CBasicOnTimer: a timing wheel.  A near wheel holds the timers of the    *)
(* current round, four far wheels those of later ones, by the first digit  *)
(* in which their time differs from the current one.  The code's digits    *)
(* have 8 bits (near) and 4 times 6 bits (far), 32 in all: the time wraps  *)
(* round exactly when the last wheel does, and so it does here.            *)
(*                                                                         *)
(* The timer thread advances the time under a lock, which it gives up to   *)
(* call the timers; any thread, its callbacks included, adds and deletes   *)
(* timers under the lock.  An action that needs the lock is enabled when   *)
(* the timer thread does not hold it.  How many ticks have passed is the   *)
(* clock's affair: the thread takes a next one at any time.                *)
(***************************************************************************)
EXTENDS Integers, FiniteSets

CONSTANTS
  Timers,      (* timer nodes, as allocated                                *)
  Keys,        (* nKey                                                     *)
  None,
  Near, Level, (* TIME_NEAR and TIME_LEVEL, the sizes of the wheels         *)
  MaxDelay,    (* the largest nTimes                                       *)
  OncePerKey   (* whether callers add a repeating timer only under a key   *)
               (* that has none                                            *)

(* The ticks of a digit of far wheel l, and of the whole time.             *)
Unit(l) ==
  CASE l = 0 -> Near
    [] l = 1 -> Near * Level
    [] l = 2 -> Near * Level * Level
    [] l = 3 -> Near * Level * Level * Level
    [] l = 4 -> Near * Level * Level * Level * Level
Horizon == Unit(4)

ASSUME WheelAssumption ==
  /\ None \notin Timers
  /\ Near \in Nat \ {0} /\ Level \in Nat \ {0, 1}
  /\ MaxDelay \in 1..(Horizon \div 2 - 1)
  /\ OncePerKey \in BOOLEAN

VARIABLES
  time,        (* m_time                                                   *)
  expire,      (* of a node: expire ...                                    *)
  repeat,      (* ... m_nRepeatTime ...                                    *)
  valid,       (* ... m_bIsValid ...                                       *)
  key,         (* ... m_nKey ...                                           *)
  where,       (* ... and the list it is in                                *)
  map,         (* m_pMapNode                                               *)
  pc, phase,   (* what the timer thread does next, and after dispatch_list *)
  hand         (* the node it holds in dispatch_list                       *)

vars == <<time, expire, repeat, valid, key, where, map, pc, phase, hand>>
node == <<expire, repeat, valid, key>>

(* A list is a wheel and an index in it: wheel 0 is m_near, wheel l + 1 is *)
(* m_t[l].  The batch is the list being dispatched, the hand included.     *)
NearList(i) == <<0, i>>
FarList(l, i) == <<l + 1, i>>
Batch == <<-1, 0>>
Free == <<-2, 0>>
-----------------------------------------------------------------------------
(* The digit of a time in far wheel l, and the time from it up.            *)
From(t, l) == t \div Unit(l)
Digit(t, l) == From(t, l) % Level

(* add_node: the list of a node that expires at e, at time c.              *)
Slot(e, c) ==
  IF From(e, 0) = From(c, 0) THEN NearList(e % Near)
  ELSE LET l == IF From(e, 1) = From(c, 1) THEN 0
                ELSE IF From(e, 2) = From(c, 2) THEN 1
                ELSE IF From(e, 3) = From(c, 3) THEN 2 ELSE 3
       IN FarList(l, Digit(e, l))

(* timer_shift: the lists whose nodes come nearer at time c, one or none.  *)
ShiftedAt(c, wrapped) ==
  IF c = 0 THEN wrapped
  ELSE {FarList(l, Digit(c, l)) :
          l \in {l \in 0..3 : c % Unit(l) = 0 /\ Digit(c, l) # 0}}

FaultForgetsWrap(c) == ShiftedAt(c, {})

Shifted(c) == ShiftedAt(c, {FarList(3, 0)})
-----------------------------------------------------------------------------
Init ==
  /\ time = 0
  /\ expire = [n \in Timers |-> 0]
  /\ repeat = [n \in Timers |-> 0]
  /\ valid = [n \in Timers |-> FALSE]
  /\ key = [n \in Timers |-> None]
  /\ where = [n \in Timers |-> Free]
  /\ map = [k \in Keys |-> None]
  /\ pc = "sleep" /\ phase = "first" /\ hand = None

Locked == pc \in {"first", "shift", "second"}

(* timer_add: a new node in the list of its time; only a repeating timer   *)
(* is entered under its key.                                               *)
NewNode(n, delay, repeats, k) ==
  LET e == (time + delay) % Horizon IN
  /\ where[n] = Free
  /\ where' = [where EXCEPT ![n] = Slot(e, time)]
  /\ expire' = [expire EXCEPT ![n] = e]
  /\ repeat' = [repeat EXCEPT ![n] = IF repeats THEN delay ELSE 0]
  /\ valid' = [valid EXCEPT ![n] = TRUE]
  /\ key' = [key EXCEPT ![n] = k]

AddTimeOut(n, delay) ==
  /\ ~Locked
  /\ NewNode(n, delay, FALSE, None)
  /\ UNCHANGED <<time, map, pc, phase, hand>>

AddOnTimer(n, delay, k) ==
  /\ ~Locked
  /\ OncePerKey => map[k] = None
  /\ NewNode(n, delay, TRUE, k)
  /\ map' = [map EXCEPT ![k] = n]
  /\ UNCHANGED <<time, pc, phase, hand>>

DelTimerAs(k, validAfter, entryAfter) ==
  /\ ~Locked /\ map[k] # None
  /\ valid' = [valid EXCEPT ![map[k]] = validAfter]
  /\ map' = [map EXCEPT ![k] = entryAfter]
  /\ UNCHANGED <<time, expire, repeat, key, where, pc, phase, hand>>

FaultDelKeepsEntry(k) == DelTimerAs(k, FALSE, map[k])
FaultDelOnlyErases(k) == DelTimerAs(k, TRUE, None)

DelTimer(k) == DelTimerAs(k, FALSE, None)
-----------------------------------------------------------------------------
(* TimerUpdate: for each tick, execute, shift and execute again.           *)
Tick ==
  /\ pc = "sleep"
  /\ pc' = "first"
  /\ UNCHANGED <<time, node, where, map, phase, hand>>

(* timer_execute: as long as the list of this tick is not empty.           *)
Execute ==
  LET now == {n \in Timers : where[n] = NearList(time % Near)} IN
  /\ pc \in {"first", "second"}
  /\ where' = [n \in Timers |-> IF n \in now THEN Batch ELSE where[n]]
  /\ pc' = IF now # {} THEN "dispatch"
           ELSE IF pc = "first" THEN "shift" ELSE "sleep"
  /\ phase' = IF now # {} THEN pc ELSE "first"
  /\ UNCHANGED <<time, node, map, hand>>

(* timer_shift and move_list                                               *)
Shift ==
  /\ pc = "shift"
  /\ time' = (time + 1) % Horizon
  /\ where' = [n \in Timers |->
                 IF where[n] \in Shifted(time') THEN Slot(expire[n], time')
                 ELSE where[n]]
  /\ pc' = "second"
  /\ UNCHANGED <<node, map, phase, hand>>
-----------------------------------------------------------------------------
(* dispatch_list, in any order: the callback of a valid node is called.    *)
Dispatch(n) ==
  /\ pc = "dispatch" /\ where[n] = Batch
  /\ hand' = n
  /\ pc' = IF valid[n] THEN "call" ELSE "free"
  /\ UNCHANGED <<time, node, where, map, phase>>

(* The callback has returned; a node that repeats and is still valid goes  *)
(* on from the time it was due.                                            *)
Returned ==
  /\ pc = "call"
  /\ IF repeat[hand] > 0 /\ valid[hand]
     THEN expire' = [expire EXCEPT ![hand] = (@ + repeat[hand]) % Horizon] /\ pc' = "rearm"
     ELSE pc' = "free" /\ UNCHANGED expire
  /\ UNCHANGED <<time, repeat, valid, key, where, map, phase, hand>>

Rearm ==
  /\ pc = "rearm"
  /\ where' = [where EXCEPT ![hand] = Slot(expire[hand], time)]
  /\ pc' = "dispatch" /\ hand' = None
  /\ UNCHANGED <<time, node, map, phase>>

Deallocate ==
  /\ pc = "free"
  /\ where' = [where EXCEPT ![hand] = Free]
  /\ expire' = [expire EXCEPT ![hand] = 0]
  /\ repeat' = [repeat EXCEPT ![hand] = 0]
  /\ valid' = [valid EXCEPT ![hand] = FALSE]
  /\ key' = [key EXCEPT ![hand] = None]
  /\ pc' = "dispatch" /\ hand' = None
  /\ UNCHANGED <<time, map, phase>>

(* The list is done: the lock is taken and the loop of timer_execute goes on. *)
Dispatched ==
  /\ pc = "dispatch" /\ \A n \in Timers : where[n] # Batch
  /\ pc' = phase
  /\ UNCHANGED <<time, node, where, map, phase, hand>>
-----------------------------------------------------------------------------
TimerThread ==
  \/ Tick \/ Execute \/ Shift
  \/ \E n \in Timers : Dispatch(n)
  \/ Returned \/ Rearm \/ Deallocate \/ Dispatched

Callers ==
  \/ \E n \in Timers, delay \in 1..MaxDelay :
       AddTimeOut(n, delay) \/ \E k \in Keys : AddOnTimer(n, delay, k)
  \/ \E k \in Keys : DelTimer(k)

Next == TimerThread \/ Callers

Spec == Init /\ [][Next]_vars
-----------------------------------------------------------------------------
Lists ==
  {NearList(i) : i \in 0..(Near - 1)} \cup
  {FarList(l, i) : l \in 0..3, i \in 0..(Level - 1)}

TypeOK ==
  /\ time \in 0..(Horizon - 1)
  /\ expire \in [Timers -> 0..(Horizon - 1)]
  /\ repeat \in [Timers -> 0..MaxDelay]
  /\ valid \in [Timers -> BOOLEAN]
  /\ key \in [Timers -> Keys \cup {None}]
  /\ where \in [Timers -> Lists \cup {Batch, Free}]
  /\ map \in [Keys -> Timers \cup {None}]
  /\ pc \in {"sleep", "first", "shift", "second", "dispatch", "call", "rearm",
             "free"}
  /\ phase \in {"first", "second"}
  /\ hand \in Timers \cup {None}

(* An entry of the map is a repeating timer of that key that was not       *)
(* deleted: DelTimer never writes to a node that was freed (227-228).      *)
MapSound ==
  \A k \in Keys :
    map[k] # None =>
      /\ where[map[k]] # Free
      /\ valid[map[k]] /\ repeat[map[k]] > 0 /\ key[map[k]] = k

(* A repeating timer can be deleted as long as it is called (214-231).     *)
Deletable ==
  \A n \in Timers :
    where[n] # Free /\ valid[n] /\ repeat[n] > 0 => map[key[n]] = n
-----------------------------------------------------------------------------
(* In terms of TimerService: a node in the near list of this tick is due.  *)
State(n) ==
  CASE where[n] = Free                   -> "free"
    [] where[n] = NearList(time % Near)  -> "due"
    [] where[n] = Batch /\ hand # n      -> "due"
    [] where[n] = Batch /\ hand = n      ->
         IF pc = "call" THEN "called" ELSE IF pc = "rearm" THEN "armed" ELSE "free"
    [] OTHER                             -> "armed"

Gone(n) == State(n) = "free"

Service == INSTANCE TimerService WITH
  now   <- time,
  due   <- [n \in Timers |-> IF Gone(n) THEN 0 ELSE expire[n]],
  every <- [n \in Timers |-> IF Gone(n) THEN 0 ELSE repeat[n]],
  live  <- [n \in Timers |-> ~Gone(n) /\ valid[n]],
  state <- [n \in Timers |-> State(n)]

(* Whatever the lists a node goes through, across the wrap-round of the    *)
(* time too, it is called in the tick it is due and in no other.           *)
CalledOnTime == Service!Spec
=============================================================================
