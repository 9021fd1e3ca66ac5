------------------------------- MODULE FixQueue -------------------------------
(***************************************************************************)
(* CCLockfreeFixQueue: a ring of Size slots with four counters that only   *)
(* grow.  A producer reserves a position, fills its slot and moves m_nWrite *)
(* over every filled slot; a consumer asks for a position below m_nWrite   *)
(* and empties the slot of the next m_nRead.                               *)
(*                                                                         *)
(* One action per atomic operation, under sequential consistency.  The     *)
(* counters do not wrap round: MaxPush bounds them.                        *)
(***************************************************************************)
EXTENDS Integers, FiniteSets

CONSTANTS
  Producers, Consumers,
  Size,        (* defaultfixsize                                           *)
  MaxPush,     (* bound: how often Push is called                          *)
  Polite       (* whether Push is called only when its slot is free        *)

ASSUME FixQueueAssumption ==
  /\ Producers \cap Consumers = {}
  /\ Size \in Nat \ {0} /\ MaxPush \in Nat /\ Polite \in BOOLEAN

VARIABLES
  nPreWrite, nWrite, nPreRead, nRead,
  mark,        (* m_cWrite: 0x10 is "taken", 0x01 is "filled"              *)
  data,        (* m_data: the position whose Push wrote it                 *)
  op,          (* the next operation of a thread                           *)
  pos,         (* its local position                                       *)
  seen         (* its local nPreWritePosition, or the value it pops        *)

queueVars == <<nPreWrite, nWrite, nPreRead, nRead, mark, data, op, pos, seen>>
counters == <<nPreWrite, nWrite, nPreRead, nRead>>

Users == Producers \cup Consumers
Slots == 0..(Size - 1)
Slot(p) == p % Size

QueueInit ==
  /\ nPreWrite = 0 /\ nWrite = 0 /\ nPreRead = 0 /\ nRead = 0
  /\ mark = [s \in Slots |-> {}]
  /\ data = [s \in Slots |-> 0]
  /\ op = [t \in Users |-> "idle"]
  /\ pos = [t \in Users |-> 0]
  /\ seen = [t \in Users |-> 0]

GoesTo(t, place) == op' = [op EXCEPT ![t] = place]
EndsCall(t) ==
  /\ GoesTo(t, "idle")
  /\ pos' = [pos EXCEPT ![t] = 0]
  /\ seen' = [seen EXCEPT ![t] = 0]
-----------------------------------------------------------------------------
(* The slot of the next position is free: its value was popped, and no     *)
(* producer is on its way to it.                                           *)
Room ==
  /\ mark[Slot(nPreWrite)] = {}
  /\ \A t \in Producers : op[t] = "take" => Slot(pos[t]) # Slot(nPreWrite)

Reserve(t) ==
  /\ op[t] = "idle"
  /\ nPreWrite < MaxPush
  /\ Polite => Room
  /\ nPreWrite' = nPreWrite + 1
  /\ pos' = [pos EXCEPT ![t] = nPreWrite]
  /\ GoesTo(t, "take")
  /\ UNCHANGED <<nWrite, nPreRead, nRead, mark, data, seen>>

TakeSlotAs(t, m) ==
  LET s == Slot(pos[t]) IN
  /\ op[t] = "take"
  /\ mark' = [mark EXCEPT ![s] = @ \cup m]
  /\ IF "taken" \in mark[s] THEN EndsCall(t)
     ELSE GoesTo(t, "store") /\ UNCHANGED <<pos, seen>>
  /\ UNCHANGED <<counters, data>>

FaultFillsFirst(t) == TakeSlotAs(t, {"taken", "filled"})

TakeSlot(t) == TakeSlotAs(t, {"taken"})

Store(t) ==
  /\ op[t] = "store"
  /\ data' = [data EXCEPT ![Slot(pos[t])] = pos[t]]
  /\ GoesTo(t, "fill")
  /\ UNCHANGED <<counters, mark, pos, seen>>

Fill(t) ==
  /\ op[t] = "fill"
  /\ mark' = [mark EXCEPT ![Slot(pos[t])] = @ \cup {"filled"}]
  /\ GoesTo(t, "advance")
  /\ UNCHANGED <<counters, data, pos, seen>>

(* Both swaps of m_nWrite, at the own position and at one that follows it. *)
Advance(t) ==
  /\ op[t] = "advance"
  /\ \/ /\ nWrite = pos[t]
        /\ nWrite' = nWrite + 1
        /\ GoesTo(t, "more")
        /\ UNCHANGED <<pos, seen>>
     \/ nWrite # pos[t] /\ EndsCall(t) /\ UNCHANGED nWrite
  /\ UNCHANGED <<nPreWrite, nPreRead, nRead, mark, data>>

(* Whether a position that follows was reserved.                           *)
More(t) ==
  /\ op[t] = "more"
  /\ IF nPreWrite # pos[t] + 1
     THEN GoesTo(t, "look") /\ pos' = [pos EXCEPT ![t] = @ + 1] /\ UNCHANGED seen
     ELSE EndsCall(t)
  /\ UNCHANGED <<counters, mark, data>>

(* Whether it is filled; if not, its producer will find m_nWrite there.    *)
LookIf(t, filled) ==
  /\ op[t] = "look"
  /\ \/ filled /\ GoesTo(t, "advance") /\ UNCHANGED <<pos, seen>>
     \/ ~filled /\ EndsCall(t)
  /\ UNCHANGED <<counters, mark, data>>

FaultLooksForTaken(t) == LookIf(t, "taken" \in mark[Slot(pos[t])])
FaultNeverLooks(t) == LookIf(t, FALSE)

Look(t) == LookIf(t, "filled" \in mark[Slot(pos[t])])
-----------------------------------------------------------------------------
Ask(t) ==
  /\ op[t] = "idle"
  /\ nPreRead' = nPreRead + 1
  /\ pos' = [pos EXCEPT ![t] = nPreRead]
  /\ GoesTo(t, "asked")
  /\ UNCHANGED <<nPreWrite, nWrite, nRead, mark, data, seen>>

Asked(t) ==
  /\ op[t] = "asked"
  /\ GoesTo(t, IF pos[t] < nWrite THEN "seat" ELSE "giveback")
  /\ pos' = [pos EXCEPT ![t] = 0]
  /\ UNCHANGED <<counters, mark, data, seen>>

GiveBackBy(t, k) ==
  /\ op[t] = "giveback"
  /\ nPreRead' = nPreRead - k
  /\ EndsCall(t)
  /\ UNCHANGED <<nPreWrite, nWrite, nRead, mark, data>>

FaultGivesTwo(t) == GiveBackBy(t, 2)

GiveBack(t) == GiveBackBy(t, 1)

Seat(t) ==
  /\ op[t] = "seat"
  /\ nRead' = nRead + 1
  /\ pos' = [pos EXCEPT ![t] = nRead]
  /\ GoesTo(t, "read")
  /\ UNCHANGED <<nPreWrite, nWrite, nPreRead, mark, data, seen>>

(* continue leaves do ... while(false): any other mark is an error.        *)
Read(t) ==
  /\ op[t] = "read"
  /\ GoesTo(t, IF mark[Slot(pos[t])] = {"taken", "filled"} THEN "copy"
             ELSE "error")
  /\ UNCHANGED <<counters, mark, data, pos, seen>>

Copy(t) ==
  /\ op[t] = "copy"
  /\ seen' = [seen EXCEPT ![t] = data[Slot(pos[t])]]
  /\ GoesTo(t, "clear")
  /\ UNCHANGED <<counters, mark, data, pos>>

Clear(t) ==
  /\ op[t] = "clear"
  /\ mark' = [mark EXCEPT ![Slot(pos[t])] = {}]
  /\ EndsCall(t)
  /\ UNCHANGED <<counters, data>>
-----------------------------------------------------------------------------
PushGoesOn(t) ==
  \/ TakeSlot(t) \/ Store(t) \/ Fill(t) \/ Advance(t) \/ More(t) \/ Look(t)
PopGoesOn(t) ==
  \/ Asked(t) \/ GiveBack(t) \/ Seat(t) \/ Read(t) \/ Copy(t) \/ Clear(t)

QueueNext ==
  \/ \E t \in Producers : Reserve(t) \/ PushGoesOn(t)
  \/ \E t \in Consumers : Ask(t) \/ PopGoesOn(t)

QueueSpec == QueueInit /\ [][QueueNext]_queueVars
-----------------------------------------------------------------------------
QueuePlaces ==
  {"idle", "take", "store", "fill", "advance", "more", "look", "asked",
   "giveback", "seat", "read", "copy", "clear", "error"}

QueueTypeOK ==
  /\ nPreWrite \in 0..MaxPush /\ nWrite \in 0..nPreWrite
  /\ nPreRead \in Nat /\ nRead \in 0..nPreRead
  /\ mark \in [Slots -> SUBSET {"taken", "filled"}]
  /\ data \in [Slots -> 0..MaxPush]
  /\ op \in [Users -> QueuePlaces]
  /\ pos \in [Users -> Nat]
  /\ seen \in [Users -> 0..MaxPush]

AtRest == \A t \in Users : op[t] = "idle"

(* A consumer that was let in finds a filled slot: assert(0) at the end of *)
(* Pop is never reached (61-77).                                           *)
NoErrorPop == \A t \in Consumers : op[t] # "error"

(* Values come out once, in the order in which their positions were        *)
(* reserved: the consumer of position p gets what the producer of p wrote. *)
PopsInOrder == \A t \in Consumers : op[t] = "clear" => seen[t] = pos[t]

(* No slot is written while a consumer copies it, or by two producers.     *)
SlotIsPrivate ==
  \A t, u \in Users :
    /\ t # u
    /\ op[t] \in {"store", "fill"}
    /\ op[u] \in {"store", "fill", "copy", "clear"}
    => Slot(pos[t]) # Slot(pos[u])

(* When no call is under way every value that was pushed can be popped:    *)
(* one of the producers has moved m_nWrite over it, whoever was last.      *)
AllVisible == AtRest => nWrite = nPreWrite

(* The places that were asked for and given back leave no trace.           *)
PlacesGivenBack == AtRest => nPreRead = nRead
=============================================================================
