----------------------------- MODULE TimerService -----------------------------
(***************************************************************************)
(* What CBasicOnTimer promises: a timer is called in the tick it is due,   *)
(* neither before nor after, once or every so many ticks until it is       *)
(* deleted.  Time goes round after Horizon ticks, as 32-bit ticks do.      *)
(***************************************************************************)
EXTENDS Naturals

CONSTANTS
  Timers,
  Horizon,     (* number of values of the time                             *)
  MaxDelay     (* the longest delay                                        *)

VARIABLES
  now,
  due,         (* the tick in which a timer is to be called                *)
  every,       (* the period of a timer that repeats, else 0               *)
  live,        (* whether it was not deleted                               *)
  state        (* "free", "armed", "due" in this tick, or "called"         *)

vars == <<now, due, every, live, state>>

Init ==
  /\ now = 0
  /\ due = [t \in Timers |-> 0]
  /\ every = [t \in Timers |-> 0]
  /\ live = [t \in Timers |-> FALSE]
  /\ state = [t \in Timers |-> "free"]

Add(t, delay, repeats) ==
  /\ state[t] = "free"
  /\ state' = [state EXCEPT ![t] = "armed"]
  /\ due' = [due EXCEPT ![t] = (now + delay) % Horizon]
  /\ every' = [every EXCEPT ![t] = IF repeats THEN delay ELSE 0]
  /\ live' = [live EXCEPT ![t] = TRUE]
  /\ UNCHANGED now

Delete(t) ==
  /\ state[t] # "free" /\ live[t] /\ every[t] > 0
  /\ live' = [live EXCEPT ![t] = FALSE]
  /\ UNCHANGED <<now, due, every, state>>

(* The next tick begins when everything that was due in this one is done.  *)
Tick ==
  /\ \A t \in Timers : state[t] \in {"free", "armed"}
  /\ now' = (now + 1) % Horizon
  /\ state' = [t \in Timers |->
                 IF state[t] = "armed" /\ due[t] = now' THEN "due" ELSE state[t]]
  /\ UNCHANGED <<due, every, live>>

Call(t) ==
  /\ state[t] = "due" /\ live[t]
  /\ state' = [state EXCEPT ![t] = "called"]
  /\ UNCHANGED <<now, due, every, live>>

Rearm(t) ==
  /\ state[t] = "called" /\ live[t] /\ every[t] > 0
  /\ state' = [state EXCEPT ![t] = "armed"]
  /\ due' = [due EXCEPT ![t] = (@ + every[t]) % Horizon]
  /\ UNCHANGED <<now, every, live>>

End(t) ==
  /\ \/ state[t] = "called" /\ (every[t] = 0 \/ ~live[t])
     \/ state[t] = "due" /\ ~live[t]
  /\ state' = [state EXCEPT ![t] = "free"]
  /\ due' = [due EXCEPT ![t] = 0]
  /\ every' = [every EXCEPT ![t] = 0]
  /\ live' = [live EXCEPT ![t] = FALSE]
  /\ UNCHANGED now

Next ==
  \/ Tick
  \/ \E t \in Timers :
       \/ \E delay \in 1..MaxDelay, repeats \in BOOLEAN : Add(t, delay, repeats)
       \/ Delete(t) \/ Call(t) \/ Rearm(t) \/ End(t)

Spec == Init /\ [][Next]_vars
=============================================================================
