--------------------------- MODULE LogChannelProofs ---------------------------
(***************************************************************************)
(* Proofs about LogChannel, for any number of writers, channels, objects   *)
(* and calls: nothing that was closed is used, nothing waits after the     *)
(* close, and the log implements LogJournal.                               *)
(***************************************************************************)
EXTENDS LogChannel, SequenceTheorems, TLAPS

(* What the theorems assume of the callers: nobody logs before the log is  *)
(* set up, and a channel is closed while no visit is under way.            *)
Calm == ~Early /\ ~CloseAwake

Records == Writers \X Nat

WriterPlaces == {"idle", "get", "make", "assign", "log", "write"}
VisitPlaces == {"visit", "check", "enter", "flush"}
ClosePlaces == {"drain", "handle", "put"}

Types ==
  /\ mode \in {"none", "self", "runs", "stopped"}
  /\ phase \in {"setup", "running", "closing", "closed"}
  /\ shut \subseteq Chans /\ current \in Nat /\ made \in 0 .. MaxObject
  /\ channel \in [Chans -> 0 .. made]
  /\ option \in [Objects -> Options \cup {{}}]
  /\ sync \in [Objects -> Actors \cup {"free", "absent"}]
  /\ buf \in [Objects -> Seq(Records)]
  /\ file \in [Chans -> Seq(Records)]
  /\ count \in [Writers -> Nat]
  /\ pc \in [Actors -> WriterPlaces \cup VisitPlaces \cup ClosePlaces]
  /\ at \in [Actors -> 0 .. MaxChannel]
  /\ obj \in [Actors -> 0 .. made]
  /\ upto \in [Visitors -> 0 .. MaxChannel]
  /\ batch \in [Visitors -> Seq(Records)]
  /\ handle \in [Actors -> {"none", "own", "shared"}]

(* Whether what is logged to an object may wait in it.                     *)
Kept(o) == mode = "self" \/ "buffer" \in option[o]

(* Two threads that log first to a channel may each make an object for it. *)
(* All of them write at once, so it does not matter which of them a thread *)
(* goes on with.                                                           *)
PlainAt(c) == channel[c] = Null \/ option[channel[c]] = {}
Serves(c, o) ==
  /\ o # Null
  /\ \/ o = channel[c]
     \/ mode \in {"runs", "stopped"} /\ phase # "setup" /\ option[o] = {} /\ PlainAt(c)

Phases ==
  /\ phase \in {"setup", "closing", "closed"} => NobodyLogs
  /\ phase \in {"setup", "running"} => mode # "stopped"
  /\ phase \in {"closing", "closed"} => mode # "runs"
  /\ phase = "setup" => shut = {}
  /\ mode = "none" => made = 0

LogsRight(w) ==
  /\ pc[w] \in WriterPlaces
  /\ pc[w] # "idle" => mode \in {"runs", "self"} /\ at[w] \in Chans \ shut
  /\ pc[w] = "get" => channel[at[w]] # Null \/ mode = "runs"
  /\ pc[w] \in {"make", "assign"} => mode = "runs" /\ PlainAt(at[w])
  /\ pc[w] = "assign" => obj[w] # Null /\ option[obj[w]] = {}
  /\ pc[w] \in {"log", "write"} => Serves(at[w], obj[w])
  /\ pc[w] = "write" => mode = "runs" /\ "buffer" \notin option[obj[w]] /\ sync[obj[w]] = w
  /\ handle[w] # "none" => pc[w] = "write"

VisitsRight(p) ==
  /\ pc[p] \in VisitPlaces => at[p] <= upto[p]
  /\ pc[p] \in {"check", "enter", "flush"} => at[p] < upto[p]
  /\ pc[p] = "check" => channel[at[p]] # Null
  /\ pc[p] \in {"enter", "flush"} => Serves(at[p], obj[p])
  /\ pc[p] = "flush" => sync[obj[p]] \in {p, "absent"}
  /\ batch[p] # <<>> => pc[p] \in {"flush", "handle", "put"} /\ Kept(obj[p])

TimerRight ==
  /\ pc[Timer] \in {"idle"} \cup VisitPlaces
  /\ pc[Timer] # "idle" => mode # "none"
  /\ handle[Timer] = "none"

(* How much of the channels the last visit has to see.                     *)
Whole == IF Size > 1 THEN Size ELSE 0

AppRight ==
  /\ pc[App] \in {"idle", "assign"} \cup VisitPlaces \cup ClosePlaces
  /\ pc[App] \notin {"idle", "assign"} => pc[Timer] = "idle"
  /\ handle[App] # "none" => pc[App] = "put"
  /\ pc[App] = "assign" =>
       /\ phase = "setup" /\ obj[App] # Null
       /\ at[App] \in Chans /\ channel[at[App]] = Null /\ 1 <= current /\ at[App] <= current
  /\ pc[App] \in ClosePlaces =>
       /\ phase = "running" /\ at[App] \in shut
       /\ obj[App] # Null /\ obj[App] = channel[at[App]]
  /\ pc[App] \in {"handle", "put"} => buf[obj[App]] = <<>>
  /\ pc[App] = "put" => batch[App] # <<>>
  /\ pc[App] \in VisitPlaces =>
       /\ phase = "closing" /\ mode = "stopped" /\ upto[App] = Whole
       /\ \A c \in Chans : c < at[App] => Buffered(c) = <<>>
  /\ pc[App] \in {"enter", "flush"} => obj[App] = channel[at[App]]
  /\ pc[App] = "flush" => buf[obj[App]] = <<>>

Making(p) == pc[p] = "assign"
OneEach ==
  /\ \A c, d \in Chans : channel[c] = channel[d] /\ channel[c] # Null => c = d
  /\ \A p, q \in Actors : Making(p) /\ Making(q) /\ obj[p] = obj[q] => p = q
  /\ \A p \in Actors, c \in Chans : Making(p) => channel[c] # obj[p]

Covered ==
  \A c \in Chans :
    channel[c] # Null /\ phase # "closed" /\ (phase = "setup" \/ ~PlainAt(c))
      => 1 <= current /\ c <= current

WaitsWhere ==
  /\ \A o \in Objects : buf[o] # <<>> => Kept(o) /\ \E c \in Chans : channel[c] = o
  /\ \A o \in Objects : sync[o] = "absent" => mode = "self"

(* Nothing waits before the first call and after the last.                 *)
Silent == phase \in {"setup", "closed"} \/ (phase = "closing" /\ mode # "stopped")
NothingWaits ==
  Silent => /\ \A o \in Objects : buf[o] = <<>>
            /\ \A p \in Visitors : batch[p] = <<>>

LogInv ==
  /\ Types /\ Phases /\ TimerRight /\ AppRight /\ OneEach /\ Covered /\ WaitsWhere /\ NothingWaits
  /\ \A w \in Writers : LogsRight(w)
  /\ \A p \in Visitors : VisitsRight(p)
-----------------------------------------------------------------------------
LEMMA LogInitInv == Init => LogInv
<1> SUFFICES ASSUME Init PROVE LogInv
  OBVIOUS
<1> USE LogAssumption DEF Init
<1>1. <<>> \in Seq(Records)
  BY EmptySeq
<1>2. Types
  <2>1. /\ channel \in [Chans -> 0 .. made] /\ option \in [Objects -> Options \cup {{}}]
        /\ sync \in [Objects -> Actors \cup {"free", "absent"}]
        /\ buf \in [Objects -> Seq(Records)] /\ file \in [Chans -> Seq(Records)]
    BY <1>1 DEF Null
  <2>2. /\ count \in [Writers -> Nat]
        /\ pc \in [Actors -> WriterPlaces \cup VisitPlaces \cup ClosePlaces]
        /\ at \in [Actors -> 0 .. MaxChannel] /\ obj \in [Actors -> 0 .. made]
    BY DEF Null, WriterPlaces
  <2>3. /\ upto \in [Visitors -> 0 .. MaxChannel] /\ batch \in [Visitors -> Seq(Records)]
        /\ handle \in [Actors -> {"none", "own", "shared"}]
    BY <1>1
  <2>4. /\ mode \in {"none", "self", "runs", "stopped"} /\ current \in Nat
        /\ phase \in {"setup", "running", "closing", "closed"}
        /\ shut \subseteq Chans /\ made \in 0 .. MaxObject
    OBVIOUS
  <2> QED BY <2>1, <2>2, <2>3, <2>4 DEF Types
<1>3. \A p \in Actors : pc[p] = "idle" /\ obj[p] = Null /\ handle[p] = "none"
  OBVIOUS
<1>4. \A p \in Visitors : batch[p] = <<>> /\ p \in Actors
  BY DEF Actors
<1>5. \A w \in Writers : w \in Actors
  BY DEF Actors
<1>6. Timer \in Actors /\ App \in Actors
  BY DEF Actors, Visitors
<1>7. (\A o \in Objects : buf[o] = <<>> /\ sync[o] = "free") /\ \A c \in Chans : channel[c] = Null
  OBVIOUS
<1>8. Phases
  BY <1>3, <1>5 DEF Phases, NobodyLogs
<1>9. TimerRight /\ AppRight
  BY <1>3, <1>6 DEF TimerRight, AppRight, VisitPlaces, ClosePlaces
<1>10. OneEach /\ Covered
  BY <1>3, <1>7 DEF OneEach, Covered, Making
<1>11. WaitsWhere /\ NothingWaits
  BY <1>4, <1>7 DEF WaitsWhere, NothingWaits
<1>12. \A w \in Writers : LogsRight(w)
  BY <1>3, <1>5 DEF LogsRight, WriterPlaces
<1>13. \A p \in Visitors : VisitsRight(p)
  BY <1>3, <1>4 DEF VisitsRight, VisitPlaces
<1> QED BY <1>2, <1>8, <1>9, <1>10, <1>11, <1>12, <1>13 DEF LogInv

(* Facts of the types that most steps need.                                *)
LEMMA Places ==
  ASSUME LogInv
  PROVE  /\ Timer \in Visitors /\ App \in Visitors /\ Timer # App
         /\ \A w \in Writers : w \in Actors /\ w \notin Visitors
         /\ \A p \in Visitors : p \in Actors /\ p \notin Writers
         /\ \A p \in Actors : p # "free" /\ p # "absent"
         /\ \A p \in Actors : obj[p] \in 0 .. made /\ (obj[p] # Null => obj[p] \in Objects)
         /\ \A c \in Chans : channel[c] \in 0 .. made /\ (channel[c] # Null => channel[c] \in Objects)
         /\ \A p \in Actors : at[p] \in 0 .. MaxChannel
         /\ \A p \in Visitors : upto[p] \in 0 .. MaxChannel
<1>1. made \in 0 .. MaxObject /\ MaxObject \in Nat
  BY LogAssumption DEF LogInv, Types
<1>2. \A n \in 0 .. made : n # Null => n \in Objects
  BY <1>1 DEF Objects, Null
<1>3. \A p \in Actors : obj[p] \in 0 .. made /\ at[p] \in 0 .. MaxChannel
  BY DEF LogInv, Types
<1>4. \A c \in Chans : channel[c] \in 0 .. made
  BY DEF LogInv, Types
<1>5. \A p \in Visitors : upto[p] \in 0 .. MaxChannel
  BY DEF LogInv, Types
<1> QED BY <1>2, <1>3, <1>4, <1>5, LogAssumption DEF Actors, Visitors

(* The step of one actor, who leaves the others where they are ...         *)
Others(p) ==
  /\ \A q \in Actors \ {p} : /\ pc'[q] = pc[q] /\ at'[q] = at[q]
                            /\ obj'[q] = obj[q] /\ handle'[q] = handle[q]
  /\ \A v \in Visitors \ {p} : upto'[v] = upto[v] /\ batch'[v] = batch[v]

(* ... and channels and objects as they are.                               *)
World == <<mode, phase, shut, current, channel, made, option>>

(* No lock but one's own is touched.                                       *)
LocksOwn(p) ==
  \A o \in Objects :
    sync'[o] = sync[o] \/ (sync[o] \in {p, "free"} /\ sync'[o] \in {p, "free"})

LEMMA OthersKept ==
  ASSUME LogInv, NEW p \in Actors, Others(p), UNCHANGED World, LocksOwn(p)
  PROVE  /\ \A w \in Writers \ {p} : LogsRight(w)'
         /\ \A v \in Visitors \ {p} : VisitsRight(v)'
         /\ p # Timer => TimerRight'
         /\ Covered'
         /\ \A o \in Objects : sync'[o] = "absent" => mode' = "self"
<1> USE DEF World
<1>1. ASSUME NEW w \in Writers \ {p} PROVE LogsRight(w)'
  <2>1. /\ w \in Actors /\ w # "free" /\ w # "absent" /\ LogsRight(w)
        /\ obj[w] # Null => obj[w] \in Objects
    BY Places DEF LogInv
  <2>2. pc'[w] = pc[w] /\ at'[w] = at[w] /\ obj'[w] = obj[w] /\ handle'[w] = handle[w]
    BY <2>1 DEF Others
  <2>3. pc[w] = "write" => sync'[obj[w]] = sync[obj[w]]
    BY <2>1 DEF LogsRight, LocksOwn, Serves
  <2> QED BY <2>1, <2>2, <2>3 DEF LogsRight, PlainAt, Serves
<1>2. ASSUME NEW v \in Visitors \ {p} PROVE VisitsRight(v)'
  <2>1. /\ v \in Actors /\ v # "free" /\ v # "absent" /\ p # "absent" /\ VisitsRight(v)
        /\ obj[v] # Null => obj[v] \in Objects
    BY Places DEF LogInv
  <2>2. /\ pc'[v] = pc[v] /\ at'[v] = at[v] /\ obj'[v] = obj[v]
        /\ upto'[v] = upto[v] /\ batch'[v] = batch[v]
    BY <2>1 DEF Others
  <2>3. pc[v] = "flush" => sync'[obj[v]] = sync[obj[v]]
    BY <2>1 DEF VisitsRight, LocksOwn, Serves
  <2> QED BY <2>1, <2>2, <2>3 DEF VisitsRight, PlainAt, Serves, Kept
<1>3. p # Timer => TimerRight'
  BY Places DEF LogInv, TimerRight, Others
<1>4. Covered'
  BY DEF LogInv, Covered, PlainAt
<1>5. ASSUME NEW o \in Objects, sync'[o] = "absent" PROVE mode' = "self"
  BY <1>5, Places DEF LocksOwn, LogInv, WaitsWhere
<1> QED BY <1>1, <1>2, <1>3, <1>4, <1>5

(* What of the application's state a step of another may disturb.          *)
LEMMA AppKept ==
  ASSUME LogInv, NEW p \in Actors \ {App}, Others(p), UNCHANGED World,
         p = Timer => pc[App] \in {"idle", "assign"} \/ pc'[Timer] = "idle",
         pc[App] \in VisitPlaces => buf' = buf,
         pc[App] \in {"handle", "put"} => buf'[obj[App]] = buf[obj[App]]
  PROVE  AppRight'
<1>1. /\ pc'[App] = pc[App] /\ at'[App] = at[App] /\ obj'[App] = obj[App]
      /\ handle'[App] = handle[App] /\ upto'[App] = upto[App] /\ batch'[App] = batch[App]
  BY Places DEF Others
<1>2. pc'[App] \notin {"idle", "assign"} => pc'[Timer] = "idle"
  BY <1>1, Places DEF LogInv, AppRight, Others
<1>3. Whole' = Whole
  BY DEF World, Whole, Size
<1>4. pc[App] \in VisitPlaces => \A c \in Chans : Buffered(c)' = Buffered(c)
  BY DEF World, Buffered
<1>5. AppRight
  BY DEF LogInv
<1> QED BY <1>1, <1>2, <1>3, <1>4, <1>5 DEF AppRight, World, VisitPlaces, ClosePlaces

(* A visitor goes on, and buffers get no longer.                           *)
LEMMA VisitorStep ==
  ASSUME LogInv, NEW p \in Visitors, Others(p), UNCHANGED World, LocksOwn(p),
         ~Making(p), ~Making(p)',
         \A o \in Objects : buf'[o] = buf[o] \/ buf'[o] = <<>>,
         Silent => batch'[p] = <<>>,
         p = Timer => TimerRight' /\ pc[App] \in {"idle", "assign"},
         p = App => AppRight',
         Types', VisitsRight(p)'
  PROVE  LogInv'
<1>1. p \in Actors /\ p \notin Writers
  BY Places
<1>2. /\ \A w \in Writers : LogsRight(w)' /\ pc'[w] = pc[w]
      /\ \A v \in Visitors : VisitsRight(v)'
      /\ TimerRight' /\ Covered'
      /\ \A o \in Objects : sync'[o] = "absent" => mode' = "self"
  BY <1>1, OthersKept, Places DEF Others
<1>3. AppRight'
  <2>1. CASE p = Timer
    BY <1>1, <2>1, AppKept, Places DEF VisitPlaces
  <2> QED BY <2>1 DEF Visitors
<1>4. Phases'
  <2>1. NobodyLogs' <=> NobodyLogs
    BY <1>2 DEF NobodyLogs
  <2> QED BY <2>1 DEF LogInv, Phases, World
<1>5. OneEach'
  <2>1. \A q \in Actors : Making(q)' => Making(q) /\ obj'[q] = obj[q]
    BY DEF Others, Making
  <2> QED BY <2>1 DEF LogInv, OneEach, World
<1>6. WaitsWhere'
  BY <1>2 DEF LogInv, WaitsWhere, Kept, World
<1>7. NothingWaits'
  BY DEF LogInv, NothingWaits, Silent, World, Others
<1> QED BY <1>2, <1>3, <1>4, <1>5, <1>6, <1>7 DEF LogInv

(* A writer goes on, and what it adds waits where it may.                  *)
LEMMA WriterStep ==
  ASSUME LogInv, NEW w \in Writers, Others(w), UNCHANGED World, LocksOwn(w),
         ~Making(w), ~Making(w)', phase = "running",
         \A o \in Objects :
           \/ buf'[o] = buf[o]
           \/ Kept(o) /\ (\E c \in Chans \ shut : channel[c] = o),
         Types', LogsRight(w)'
  PROVE  LogInv'
<1>1. w \in Actors /\ w \notin Visitors /\ w # Timer /\ w # App
  BY Places
<1>2. /\ \A v \in Writers : LogsRight(v)'
      /\ \A v \in Visitors : VisitsRight(v)'
      /\ TimerRight' /\ Covered'
      /\ \A o \in Objects : sync'[o] = "absent" => mode' = "self"
  BY <1>1, OthersKept
<1>3. AppRight'
  <2>1. pc[App] \notin VisitPlaces
    BY DEF LogInv, AppRight
  <2>2. ASSUME pc[App] \in {"handle", "put"} PROVE buf'[obj[App]] = buf[obj[App]]
    <3>1. /\ obj[App] = channel[at[App]] /\ at[App] \in shut /\ obj[App] # Null
      BY <2>2 DEF LogInv, AppRight, ClosePlaces
    <3>2. obj[App] \in Objects /\ at[App] \in Chans
      BY <3>1, Places DEF LogInv, Types
    <3>3. \A c \in Chans \ shut : channel[c] # obj[App]
      BY <3>1, <3>2 DEF LogInv, OneEach
    <3> QED BY <3>2, <3>3
  <2> QED BY <1>1, <2>1, <2>2, AppKept
<1>4. Phases'
  BY DEF LogInv, Phases, World
<1>5. OneEach'
  <2>1. \A q \in Actors : Making(q)' => Making(q) /\ obj'[q] = obj[q]
    BY DEF Others, Making
  <2> QED BY <2>1 DEF LogInv, OneEach, World
<1>6. WaitsWhere'
  BY <1>2 DEF LogInv, WaitsWhere, Kept, World
<1>7. NothingWaits'
  BY DEF NothingWaits, Silent, World
<1> QED BY <1>2, <1>3, <1>4, <1>5, <1>6, <1>7 DEF LogInv

LEMMA NeverShared ==
  ASSUME LogInv, NEW p \in Actors, NEW o \in Objects, Closes(p, o),
         \A q \in Actors \ {p} : obj[q] = o => handle[q] # "shared"
  PROVE  handle' = handle
<1>1. \A q \in Actors : handle'[q] = handle[q]
  BY DEF Closes
<1>2. handle = [q \in Actors |-> handle[q]] /\ handle' = [q \in Actors |-> handle'[q]]
  BY DEF LogInv, Types, Closes
<1> QED BY <1>1, <1>2, Zenon
-----------------------------------------------------------------------------
(* The visits, by the log's thread and at the end by the application.      *)
LEMMA WholeFits == ASSUME LogInv PROVE Whole \in 0 .. MaxChannel /\ Size \in Nat
BY LogAssumption DEF LogInv, Types, Whole, Size

LEMMA OneVisits ==
  ASSUME LogInv, NEW p \in Visitors, pc[p] # "idle"
  PROVE  p = Timer => pc[App] \in {"idle", "assign"}
BY DEF LogInv, AppRight

LEMMA OnTimerStep ==
  ASSUME Calm, LogInv, OnTimerBasicLog
  PROVE  LogInv'
<1>1. /\ Timer \in Visitors /\ Timer \in Actors /\ pc[Timer] = "idle" /\ pc[App] = "idle"
      /\ mode \in {"runs", "self"} /\ batch[Timer] = <<>> /\ Whole \in 0 .. MaxChannel
  BY Places, WholeFits DEF OnTimerBasicLog, OnTimerOf, Calm, LogInv, VisitsRight
<1>2. /\ UNCHANGED World /\ UNCHANGED <<sync, buf, file, count, obj, batch, handle>>
      /\ upto' = [upto EXCEPT ![Timer] = Whole] /\ at' = [at EXCEPT ![Timer] = 0]
      /\ pc' = [pc EXCEPT ![Timer] = "visit"]
  BY DEF OnTimerBasicLog, OnTimerOf, VisitsBelow, Goto, Whole, World, globals, objects
<1>3. Types'
  <2>1. upto' \in [Visitors -> 0 .. MaxChannel] /\ at' \in [Actors -> 0 .. MaxChannel]
    BY <1>1, <1>2, LogAssumption DEF LogInv, Types
  <2>2. pc' \in [Actors -> WriterPlaces \cup VisitPlaces \cup ClosePlaces]
    BY <1>2 DEF LogInv, Types, VisitPlaces
  <2> QED BY <1>2, <2>1, <2>2 DEF LogInv, Types, World
<1>4. Others(Timer) /\ LocksOwn(Timer) /\ batch'[Timer] = <<>> /\ buf' = buf
  BY <1>1, <1>2 DEF LogInv, Types, Others, LocksOwn
<1>5. pc'[Timer] = "visit" /\ at'[Timer] = 0 /\ upto'[Timer] = Whole
  BY <1>1, <1>2 DEF LogInv, Types
<1>6. handle'[Timer] = "none" /\ mode' = mode
  BY <1>2 DEF World, LogInv, TimerRight
<1>7. ~Making(Timer) /\ ~Making(Timer)'
  BY <1>1, <1>5 DEF Making
<1>8. VisitsRight(Timer)'
  BY <1>1, <1>4, <1>5 DEF VisitsRight, VisitPlaces
<1>9. TimerRight'
  BY <1>1, <1>5, <1>6 DEF TimerRight, VisitPlaces
<1> QED BY <1>1, <1>2, <1>3, <1>4, <1>7, <1>8, <1>9, VisitorStep, Places

LEMMA VisitStep ==
  ASSUME LogInv, NEW p \in Visitors, Visit(p)
  PROVE  LogInv'
<1>1. /\ p \in Actors /\ pc[p] = "visit" /\ at[p] \in Nat /\ upto[p] \in 0 .. MaxChannel
      /\ at[p] < upto[p] /\ batch[p] = <<>> /\ at[p] \in Chans /\ UNCHANGED World
      /\ UNCHANGED <<sync, buf, file, count, obj, upto, batch, handle>>
      /\ IF channel[at[p]] = Null
           THEN at' = [at EXCEPT ![p] = at[p] + 1] /\ pc' = pc
           ELSE pc' = [pc EXCEPT ![p] = "check"] /\ at' = at
  BY Places, LogAssumption DEF Visit, Goto, World, globals, objects, LogInv, VisitsRight, Chans
<1>2. Types'
  <2>1. at' \in [Actors -> 0 .. MaxChannel]
    <3>1. at[p] + 1 \in 0 .. MaxChannel
      BY <1>1, LogAssumption
    <3> QED BY <1>1, <3>1 DEF LogInv, Types
  <2>2. pc' \in [Actors -> WriterPlaces \cup VisitPlaces \cup ClosePlaces]
    BY <1>1 DEF LogInv, Types, VisitPlaces
  <2> QED BY <1>1, <2>1, <2>2 DEF LogInv, Types, World
<1>3. Others(p) /\ LocksOwn(p)
  BY <1>1 DEF LogInv, Types, Others, LocksOwn
<1>4. \/ channel[at[p]] = Null /\ at'[p] = at[p] + 1 /\ pc'[p] = "visit"
      \/ channel[at[p]] # Null /\ at'[p] = at[p] /\ pc'[p] = "check"
  BY <1>1 DEF LogInv, Types
<1>5. VisitsRight(p)'
  BY <1>1, <1>4 DEF VisitsRight, World
<1>6. p = Timer => TimerRight' /\ pc[App] \in {"idle", "assign"}
  BY <1>1, <1>4, OneVisits DEF LogInv, TimerRight, VisitPlaces, World
<1>7. ASSUME p = App PROVE AppRight'
  <2>1. /\ phase = "closing" /\ mode = "stopped" /\ upto[App] = Whole /\ handle[App] = "none"
        /\ \A c \in Chans : c < at[App] => Buffered(c) = <<>>
        /\ pc[Timer] = "idle" /\ pc'[Timer] = "idle"
    BY <1>1, <1>3, <1>7, Places DEF LogInv, Types, AppRight, VisitPlaces, Others
  <2>2. /\ Whole' = Whole /\ \A c \in Chans : Buffered(c)' = Buffered(c)
    BY <1>1 DEF World, Whole, Size, Buffered
  <2>3. ASSUME NEW c \in Chans, c < at'[App] PROVE Buffered(c) = <<>>
    <3>1. c < at[App] \/ (c = at[App] /\ channel[c] = Null)
      <4>1. c \in Nat
        BY LogAssumption DEF Chans
      <4> QED BY <1>1, <1>4, <1>7, <2>3, <4>1
    <3> QED BY <2>1, <3>1, <2>3 DEF Buffered
  <2> QED BY <1>1, <1>4, <1>7, <2>1, <2>2, <2>3
    DEF AppRight, VisitPlaces, ClosePlaces, World
<1>8. ~Making(p) /\ ~Making(p)'
  BY <1>1, <1>4 DEF Making
<1> QED BY <1>1, <1>2, <1>3, <1>5, <1>6, <1>7, <1>8, VisitorStep

LEMMA CheckStep ==
  ASSUME LogInv, NEW p \in Visitors, CheckChannel(p)
  PROVE  LogInv'
<1>0. /\ p \in Actors /\ pc[p] = "check" /\ at[p] \in Nat /\ upto[p] \in 0 .. MaxChannel
      /\ at[p] < upto[p] /\ batch[p] = <<>> /\ at[p] \in Chans /\ channel[at[p]] # Null
  BY Places, LogAssumption DEF CheckChannel, LogInv, VisitsRight, Chans
<1>1. /\ UNCHANGED World /\ UNCHANGED <<sync, buf, file, count, at, upto, batch, handle>>
      /\ pc' = [pc EXCEPT ![p] = "enter"] /\ obj' = [obj EXCEPT ![p] = channel[at[p]]]
  BY <1>0 DEF CheckChannel, Goto, World, globals, objects
<1>2. channel[at[p]] \in 0 .. made
  BY <1>0, Places
<1>3. Types'
  BY <1>0, <1>1, <1>2 DEF LogInv, Types, World, VisitPlaces
<1>4. Others(p) /\ LocksOwn(p)
  BY <1>0, <1>1 DEF LogInv, Types, Others, LocksOwn
<1>5. pc'[p] = "enter" /\ obj'[p] = channel[at[p]]
  BY <1>0, <1>1 DEF LogInv, Types
<1>6. VisitsRight(p)'
  BY <1>0, <1>1, <1>5 DEF VisitsRight, World, Serves
<1>7. p = Timer => TimerRight' /\ pc[App] \in {"idle", "assign"}
  BY <1>0, <1>1, <1>5, OneVisits DEF LogInv, TimerRight, VisitPlaces, World
<1>8. ASSUME p = App PROVE AppRight'
  <2>1. /\ phase = "closing" /\ mode = "stopped" /\ upto[App] = Whole /\ handle[App] = "none"
        /\ \A c \in Chans : c < at[App] => Buffered(c) = <<>>
        /\ pc[Timer] = "idle" /\ pc'[Timer] = "idle"
    BY <1>0, <1>1, <1>4, <1>8, Places DEF LogInv, Types, AppRight, VisitPlaces, Others
  <2>2. /\ Whole' = Whole /\ \A c \in Chans : Buffered(c)' = Buffered(c)
    BY <1>1 DEF World, Whole, Size, Buffered
  <2> QED BY <1>0, <1>1, <1>5, <1>8, <2>1, <2>2 DEF AppRight, VisitPlaces, ClosePlaces, World
<1>9. ~Making(p) /\ ~Making(p)'
  BY <1>0, <1>1, <1>5 DEF Making
<1> QED BY <1>0, <1>1, <1>3, <1>4, <1>6, <1>7, <1>8, <1>9, VisitorStep

LEMMA EnterDoes ==
  ASSUME LogInv, NEW p \in Visitors, Enter(p)
  PROVE  /\ p \in Actors /\ pc[p] = "enter" /\ at[p] \in Chans /\ obj[p] \in Objects
         /\ Serves(at[p], obj[p]) /\ at[p] < upto[p] /\ batch[p] = <<>>
         /\ sync[obj[p]] \in {"free", "absent"}
         /\ UNCHANGED World /\ UNCHANGED <<file, count, at, obj, upto, handle>>
         /\ pc' = [pc EXCEPT ![p] = "flush"]
         /\ sync' = [sync EXCEPT ![obj[p]] = IF sync[obj[p]] = "absent" THEN "absent" ELSE p]
         /\ batch' = [batch EXCEPT ![p] = buf[obj[p]]]
         /\ buf' = [buf EXCEPT ![obj[p]] = <<>>]
<1>1. /\ p \in Actors /\ pc[p] = "enter" /\ VisitsRight(p)
      /\ at[p] \in 0 .. MaxChannel /\ upto[p] \in 0 .. MaxChannel
      /\ obj[p] # Null => obj[p] \in Objects
  BY Places DEF Enter, LogInv
<1>2. /\ Serves(at[p], obj[p]) /\ at[p] < upto[p] /\ batch[p] = <<>> /\ obj[p] \in Objects
  BY <1>1 DEF VisitsRight, Serves
<1>3. at[p] \in Chans
  BY <1>1, <1>2, LogAssumption DEF Chans
<1>4. sync[obj[p]] \in {"free", "absent"}
  BY DEF Enter, Free
<1>5. ASSUME NEW q \in Actors \ {p}, obj[q] = obj[p] PROVE handle[q] = "none"
  <2>1. CASE q \in Writers
    BY <1>4, <1>5, <2>1, Places DEF LogInv, LogsRight
  <2>2. CASE q = Timer
    BY <2>2 DEF LogInv, TimerRight
  <2>3. CASE q = App
    BY <1>1, <1>5, <2>3 DEF LogInv, AppRight, Visitors
  <2> QED BY <2>1, <2>2, <2>3 DEF Actors, Visitors
<1>6. handle' = handle
  BY <1>1, <1>2, <1>5, NeverShared DEF Enter
<1>7. /\ UNCHANGED World /\ UNCHANGED <<file, count, at, obj, upto>>
      /\ pc' = [pc EXCEPT ![p] = "flush"]
      /\ batch' = [batch EXCEPT ![p] = buf[obj[p]]]
      /\ buf' = [buf EXCEPT ![obj[p]] = <<>>]
  BY DEF Enter, World, globals, Goto, Takes
<1>8. sync' = [sync EXCEPT ![obj[p]] = IF sync[obj[p]] = "absent" THEN "absent" ELSE p]
  BY DEF Enter, Locked
<1> QED BY <1>1, <1>2, <1>3, <1>4, <1>6, <1>7, <1>8

LEMMA EnterStep ==
  ASSUME LogInv, NEW p \in Visitors, Enter(p)
  PROVE  LogInv'
<1>1. /\ p \in Actors /\ pc[p] = "enter" /\ at[p] \in Chans /\ obj[p] \in Objects
      /\ Serves(at[p], obj[p]) /\ at[p] < upto[p] /\ sync[obj[p]] \in {"free", "absent"}
      /\ UNCHANGED World /\ UNCHANGED <<file, count, at, obj, upto, handle>>
  BY EnterDoes
<1>2. /\ pc' = [pc EXCEPT ![p] = "flush"]
      /\ sync' = [sync EXCEPT ![obj[p]] = IF sync[obj[p]] = "absent" THEN "absent" ELSE p]
      /\ batch' = [batch EXCEPT ![p] = buf[obj[p]]]
      /\ buf' = [buf EXCEPT ![obj[p]] = <<>>]
  BY EnterDoes
<1>3. buf[obj[p]] \in Seq(Records) /\ <<>> \in Seq(Records)
  BY <1>1, EmptySeq DEF LogInv, Types
<1>4. Types'
  <2>1. /\ sync' \in [Objects -> Actors \cup {"free", "absent"}]
        /\ pc' \in [Actors -> WriterPlaces \cup VisitPlaces \cup ClosePlaces]
    BY <1>1, <1>2 DEF LogInv, Types, VisitPlaces
  <2>2. batch' \in [Visitors -> Seq(Records)] /\ buf' \in [Objects -> Seq(Records)]
    BY <1>2, <1>3 DEF LogInv, Types
  <2> QED BY <1>1, <2>1, <2>2 DEF LogInv, Types, World
<1>5. /\ pc'[p] = "flush" /\ batch'[p] = buf[obj[p]] /\ buf'[obj[p]] = <<>>
      /\ sync'[obj[p]] \in {p, "absent"}
  BY <1>1, <1>2 DEF LogInv, Types
<1>6. Others(p) /\ LocksOwn(p)
  BY <1>1, <1>2 DEF LogInv, Types, Others, LocksOwn
<1>7. \A o \in Objects : buf'[o] = buf[o] \/ buf'[o] = <<>>
  BY <1>1, <1>2 DEF LogInv, Types
<1>8. Silent => batch'[p] = <<>>
  BY <1>1, <1>5 DEF LogInv, NothingWaits
<1>9. VisitsRight(p)'
  <2>1. buf[obj[p]] # <<>> => Kept(obj[p])
    BY <1>1 DEF LogInv, WaitsWhere
  <2>2. at[p] \in Int /\ upto[p] \in Int
    BY <1>1, Places
  <2> QED BY <1>1, <1>5, <2>1, <2>2 DEF VisitsRight, Serves, PlainAt, Kept, World
<1>10. p = Timer => TimerRight' /\ pc[App] \in {"idle", "assign"}
  BY <1>1, <1>5, OneVisits DEF LogInv, TimerRight, VisitPlaces, World
<1>11. ASSUME p = App PROVE AppRight'
  <2>1. /\ phase = "closing" /\ mode = "stopped" /\ upto[App] = Whole /\ handle[App] = "none"
        /\ \A c \in Chans : c < at[App] => Buffered(c) = <<>>
        /\ pc[Timer] = "idle" /\ pc'[Timer] = "idle" /\ obj[App] = channel[at[App]]
    BY <1>1, <1>6, <1>11, Places DEF LogInv, Types, AppRight, VisitPlaces, Others
  <2>2. Whole' = Whole
    BY <1>1 DEF World, Whole, Size
  <2>3. \A c \in Chans : Buffered(c) = <<>> => Buffered(c)' = <<>>
    BY <1>1, <1>7, Places DEF World, Buffered
  <2> QED BY <1>1, <1>5, <1>11, <2>1, <2>2, <2>3 DEF AppRight, VisitPlaces, ClosePlaces, World
<1>12. ~Making(p) /\ ~Making(p)'
  BY <1>1, <1>5 DEF Making
<1> QED BY <1>1, <1>4, <1>6, <1>7, <1>8, <1>9, <1>10, <1>11, <1>12, VisitorStep

LEMMA FlushDoes ==
  ASSUME LogInv, NEW p \in Visitors, pc[p] = "flush"
  PROVE  /\ p \in Actors /\ at[p] \in Chans /\ obj[p] \in Objects
         /\ Serves(at[p], obj[p]) /\ at[p] < upto[p] /\ at[p] \in Nat /\ upto[p] \in 0 .. MaxChannel
         /\ sync[obj[p]] \in {p, "absent"} /\ batch[p] \in Seq(Records)
         /\ batch[p] # <<>> => Kept(obj[p]) /\ obj[p] = channel[at[p]]
<1>1. /\ p \in Actors /\ VisitsRight(p) /\ batch[p] \in Seq(Records)
      /\ at[p] \in 0 .. MaxChannel /\ upto[p] \in 0 .. MaxChannel
      /\ obj[p] # Null => obj[p] \in Objects
  BY Places DEF LogInv, Types
<1>2. /\ Serves(at[p], obj[p]) /\ at[p] < upto[p] /\ obj[p] \in Objects
      /\ sync[obj[p]] \in {p, "absent"} /\ (batch[p] # <<>> => Kept(obj[p]))
  BY <1>1 DEF VisitsRight, Serves
<1>3. at[p] \in Chans
  BY <1>1, <1>2, LogAssumption DEF Chans
<1>4. batch[p] # <<>> => obj[p] = channel[at[p]]
  BY <1>2 DEF Serves, Kept
<1> QED BY <1>1, <1>2, <1>3, <1>4

LEMMA FlushStep ==
  ASSUME LogInv, NEW p \in Visitors, Flush(p)
  PROVE  LogInv'
<1>1. /\ pc[p] = "flush" /\ batch[p] # <<>> /\ UNCHANGED World
      /\ UNCHANGED <<sync, buf, count, pc, at, obj, upto, handle>>
      /\ file' = [file EXCEPT ![at[p]] = Append(file[at[p]], Head(batch[p]))]
      /\ batch' = [batch EXCEPT ![p] = Tail(batch[p])]
  BY DEF Flush, World, globals, objects
<1>2. /\ p \in Actors /\ at[p] \in Chans /\ batch[p] \in Seq(Records)
      /\ Kept(obj[p]) /\ Serves(at[p], obj[p]) /\ at[p] < upto[p] /\ sync[obj[p]] \in {p, "absent"}
  BY <1>1, FlushDoes
<1>3. Head(batch[p]) \in Records /\ Tail(batch[p]) \in Seq(Records)
  BY <1>1, <1>2, HeadTailProperties
<1>4. Append(file[at[p]], Head(batch[p])) \in Seq(Records)
  BY <1>2, <1>3, AppendProperties DEF LogInv, Types
<1>5. Types'
  <2>1. batch' \in [Visitors -> Seq(Records)] /\ file' \in [Chans -> Seq(Records)]
    BY <1>1, <1>3, <1>4 DEF LogInv, Types
  <2> QED BY <1>1, <2>1 DEF LogInv, Types, World
<1>6. Others(p) /\ LocksOwn(p)
  BY <1>1, <1>2 DEF LogInv, Types, Others, LocksOwn
<1>7. ~Silent
  BY <1>1 DEF LogInv, NothingWaits
<1>8. VisitsRight(p)'
  BY <1>1, <1>2 DEF LogInv, VisitsRight, Serves, PlainAt, Kept, World
<1>9. p = Timer => TimerRight' /\ pc[App] \in {"idle", "assign"}
  BY <1>1, OneVisits DEF LogInv, TimerRight, World
<1>10. ASSUME p = App PROVE AppRight'
  <2>1. Whole' = Whole /\ \A c \in Chans : Buffered(c)' = Buffered(c)
    BY <1>1 DEF World, Whole, Size, Buffered
  <2> QED BY <1>1, <1>10, <2>1 DEF LogInv, AppRight, VisitPlaces, ClosePlaces, World
<1>11. ~Making(p) /\ ~Making(p)'
  BY <1>1 DEF Making
<1> QED BY <1>1, <1>5, <1>6, <1>7, <1>8, <1>9, <1>10, <1>11, VisitorStep

LEMMA LeaveStep ==
  ASSUME LogInv, NEW p \in Visitors, Leave(p)
  PROVE  LogInv'
<1>1. /\ pc[p] = "flush" /\ batch[p] = <<>> /\ UNCHANGED World
      /\ UNCHANGED <<file, count, upto, batch, handle>>
      /\ sync' = [sync EXCEPT ![obj[p]] = IF sync[obj[p]] = "absent" THEN "absent" ELSE "free"]
      /\ buf' = [buf EXCEPT ![obj[p]] = buf[obj[p]]]
      /\ obj' = [obj EXCEPT ![p] = Null] /\ at' = [at EXCEPT ![p] = at[p] + 1]
      /\ pc' = [pc EXCEPT ![p] = "visit"]
  BY DEF Leave, LeaveWith, Unlocked, Goto, World, globals
<1>2. /\ p \in Actors /\ at[p] \in Chans /\ obj[p] \in Objects /\ at[p] \in Nat
      /\ at[p] < upto[p] /\ upto[p] \in 0 .. MaxChannel /\ sync[obj[p]] \in {p, "absent"}
  BY <1>1, FlushDoes
<1>3. buf' = buf
  BY <1>1, <1>2 DEF LogInv, Types
<1>4. Types'
  <2>1. sync' \in [Objects -> Actors \cup {"free", "absent"}]
    BY <1>1, <1>2 DEF LogInv, Types
  <2>2. pc' \in [Actors -> WriterPlaces \cup VisitPlaces \cup ClosePlaces]
    BY <1>1, <1>2 DEF LogInv, Types, VisitPlaces
  <2>3. at' \in [Actors -> 0 .. MaxChannel]
    <3>1. at[p] + 1 \in 0 .. MaxChannel
      BY <1>2, LogAssumption
    <3> QED BY <1>1, <3>1 DEF LogInv, Types
  <2>4. obj' \in [Actors -> 0 .. made]
    <3>1. Null \in 0 .. made
      BY DEF LogInv, Types, Null
    <3> QED BY <1>1, <3>1 DEF LogInv, Types
  <2> QED BY <1>1, <1>3, <2>1, <2>2, <2>3, <2>4 DEF LogInv, Types, World
<1>5. pc'[p] = "visit" /\ at'[p] = at[p] + 1 /\ batch'[p] = <<>> /\ upto'[p] = upto[p]
  BY <1>1, <1>2 DEF LogInv, Types
<1>6. Others(p) /\ LocksOwn(p)
  BY <1>1, <1>2 DEF LogInv, Types, Others, LocksOwn
<1>7. VisitsRight(p)'
  BY <1>2, <1>5 DEF VisitsRight
<1>8. p = Timer => TimerRight' /\ pc[App] \in {"idle", "assign"}
  BY <1>1, <1>5, OneVisits DEF LogInv, TimerRight, VisitPlaces, World
<1>9. ASSUME p = App PROVE AppRight'
  <2>1. /\ phase = "closing" /\ mode = "stopped" /\ upto[App] = Whole /\ handle[App] = "none"
        /\ \A c \in Chans : c < at[App] => Buffered(c) = <<>>
        /\ pc[Timer] = "idle" /\ pc'[Timer] = "idle"
        /\ obj[App] = channel[at[App]] /\ buf[obj[App]] = <<>>
    BY <1>1, <1>6, <1>9, Places DEF LogInv, Types, AppRight, VisitPlaces, Others
  <2>2. /\ Whole' = Whole /\ \A c \in Chans : Buffered(c)' = Buffered(c)
    BY <1>1, <1>3 DEF World, Whole, Size, Buffered
  <2>3. ASSUME NEW c \in Chans, c < at[App] + 1 PROVE Buffered(c) = <<>>
    <3>1. c \in Nat
      BY LogAssumption DEF Chans
    <3>2. c < at[App] \/ c = at[App]
      BY <1>2, <1>9, <2>3, <3>1
    <3> QED BY <2>1, <2>3, <3>2 DEF Buffered
  <2> QED BY <1>1, <1>5, <1>9, <2>1, <2>2, <2>3 DEF AppRight, VisitPlaces, ClosePlaces, World
<1>10. ~Making(p) /\ ~Making(p)'
  BY <1>1, <1>5 DEF Making
<1> QED BY <1>1, <1>3, <1>4, <1>5, <1>6, <1>7, <1>8, <1>9, <1>10, VisitorStep

LEMMA AsleepStep ==
  ASSUME LogInv, Asleep
  PROVE  LogInv'
<1>1. /\ Timer \in Visitors /\ Timer \in Actors /\ pc[Timer] = "visit" /\ batch[Timer] = <<>>
      /\ mode # "none"
  BY Places DEF Asleep, LogInv, VisitsRight, TimerRight, VisitPlaces
<1>2. /\ UNCHANGED World /\ UNCHANGED <<sync, buf, file, count, batch, handle>>
      /\ pc' = [pc EXCEPT ![Timer] = "idle"] /\ at' = [at EXCEPT ![Timer] = 0]
      /\ obj' = [obj EXCEPT ![Timer] = Null] /\ upto' = [upto EXCEPT ![Timer] = 0]
  BY DEF Asleep, Idle, Goto, World, globals, objects
<1>3. Types'
  <2>0. 0 \in 0 .. MaxChannel /\ Null \in 0 .. made
    BY LogAssumption DEF LogInv, Types, Null
  <2>1. upto' \in [Visitors -> 0 .. MaxChannel] /\ at' \in [Actors -> 0 .. MaxChannel]
    BY <1>2, <2>0 DEF LogInv, Types
  <2>2. pc' \in [Actors -> WriterPlaces \cup VisitPlaces \cup ClosePlaces]
    BY <1>2 DEF LogInv, Types, WriterPlaces
  <2>3. obj' \in [Actors -> 0 .. made]
    BY <1>2, <2>0 DEF LogInv, Types
  <2> QED BY <1>2, <2>1, <2>2, <2>3 DEF LogInv, Types, World
<1>4. Others(Timer) /\ LocksOwn(Timer) /\ batch'[Timer] = <<>> /\ pc'[Timer] = "idle"
  BY <1>1, <1>2 DEF LogInv, Types, Others, LocksOwn
<1>5. VisitsRight(Timer)'
  BY <1>4 DEF VisitsRight, VisitPlaces
<1>6. TimerRight' /\ pc[App] \in {"idle", "assign"}
  BY <1>1, <1>2, <1>4, OneVisits DEF LogInv, TimerRight, World
<1>7. ~Making(Timer) /\ ~Making(Timer)'
  BY <1>1, <1>4 DEF Making
<1> QED BY <1>1, <1>2, <1>3, <1>4, <1>5, <1>6, <1>7, VisitorStep, Places

LEMMA StopStep ==
  ASSUME LogInv, Stop
  PROVE  LogInv'
<1>1. /\ App \in Visitors /\ App \in Actors /\ pc[App] = "idle" /\ pc[Timer] = "idle"
      /\ phase = "closing" /\ mode = "stopped" /\ batch[App] = <<>> /\ handle[App] = "none"
      /\ Whole \in 0 .. MaxChannel
  BY Places, WholeFits DEF Stop, StopWith, LogInv, Types, VisitsRight, AppRight
<1>2. /\ UNCHANGED World /\ UNCHANGED <<sync, buf, file, count, obj, batch, handle>>
      /\ pc' = [pc EXCEPT ![App] = "visit"] /\ at' = [at EXCEPT ![App] = 0]
      /\ upto' = [upto EXCEPT ![App] = Whole]
  BY DEF Stop, StopWith, VisitsBelow, Whole, Goto, World, globals, objects
<1>3. Types'
  <2>1. upto' \in [Visitors -> 0 .. MaxChannel] /\ at' \in [Actors -> 0 .. MaxChannel]
    BY <1>1, <1>2, LogAssumption DEF LogInv, Types
  <2>2. pc' \in [Actors -> WriterPlaces \cup VisitPlaces \cup ClosePlaces]
    BY <1>2 DEF LogInv, Types, VisitPlaces
  <2> QED BY <1>2, <2>1, <2>2 DEF LogInv, Types, World
<1>4. /\ Others(App) /\ LocksOwn(App) /\ batch'[App] = <<>> /\ pc'[App] = "visit"
      /\ at'[App] = 0 /\ upto'[App] = Whole
  BY <1>1, <1>2 DEF LogInv, Types, Others, LocksOwn
<1>5. VisitsRight(App)'
  BY <1>1, <1>4 DEF VisitsRight
<1>6. AppRight'
  <2>1. pc'[Timer] = "idle"
    BY <1>1, <1>4, Places DEF Others
  <2>2. Whole' = Whole /\ \A c \in Chans : ~(c < 0)
    BY <1>2, LogAssumption DEF World, Whole, Size, Chans
  <2> QED BY <1>1, <1>2, <1>4, <2>1, <2>2 DEF AppRight, VisitPlaces, ClosePlaces, World
<1>7. ~Making(App) /\ ~Making(App)'
  BY <1>1, <1>4 DEF Making
<1> QED BY <1>1, <1>2, <1>3, <1>4, <1>5, <1>6, <1>7, VisitorStep, Places

LEMMA CloserIs ==
  ASSUME LogInv, pc[App] \in ClosePlaces
  PROVE  /\ App \in Visitors /\ App \in Actors /\ App # Timer
         /\ phase = "running" /\ ~Silent /\ pc[Timer] = "idle"
         /\ at[App] \in shut /\ at[App] \in Chans
         /\ obj[App] \in Objects /\ obj[App] = channel[at[App]] /\ obj[App] # Null
         /\ batch[App] \in Seq(Records)
         /\ batch[App] # <<>> => Kept(obj[App])
         /\ pc[App] \in {"handle", "put"} => buf[obj[App]] = <<>>
         /\ pc[App] = "put" => batch[App] # <<>>
         /\ handle[App] # "none" => pc[App] = "put"
         /\ handle[App] \in {"none", "own", "shared"}
BY Places DEF LogInv, Types, AppRight, VisitsRight, ClosePlaces, Silent

(* What the closing application must keep.                                 *)
LEMMA CloserRight ==
  ASSUME LogInv, pc[App] \in ClosePlaces, pc'[App] \in ClosePlaces, Others(App),
         UNCHANGED <<World, at, obj>>,
         handle'[App] # "none" => pc'[App] = "put",
         pc'[App] \in {"handle", "put"} => buf'[obj[App]] = <<>>,
         pc'[App] = "put" => batch'[App] # <<>>,
         batch'[App] # <<>> => pc'[App] \in {"handle", "put"} /\ Kept(obj[App])
  PROVE  AppRight' /\ VisitsRight(App)' /\ ~Making(App) /\ ~Making(App)'
<1>1. pc'[Timer] = "idle"
  BY CloserIs, Places DEF Others
<1>2. AppRight'
  BY <1>1, CloserIs DEF AppRight, World, ClosePlaces, VisitPlaces
<1>3. VisitsRight(App)'
  BY DEF VisitsRight, Kept, World, ClosePlaces, VisitPlaces
<1> QED BY <1>2, <1>3 DEF Making, ClosePlaces

LEMMA DrainStep ==
  ASSUME LogInv, Drain
  PROVE  LogInv'
<1>1. pc[App] = "drain" /\ pc[App] \in ClosePlaces
  BY DEF Drain, ClosePlaces
<1>2. /\ App \in Visitors /\ App \in Actors /\ ~Silent /\ obj[App] \in Objects /\ App # Timer
  BY <1>1, CloserIs
<1>3. /\ UNCHANGED World /\ UNCHANGED <<sync, file, count, at, obj, upto, handle>>
      /\ pc' = [pc EXCEPT ![App] = "handle"]
      /\ batch' = [batch EXCEPT ![App] = buf[obj[App]]]
      /\ buf' = [buf EXCEPT ![obj[App]] = <<>>]
  BY DEF Drain, Takes, Goto, World, globals
<1>4. buf[obj[App]] \in Seq(Records) /\ <<>> \in Seq(Records)
  BY <1>2, EmptySeq DEF LogInv, Types
<1>5. Types'
  <2>1. batch' \in [Visitors -> Seq(Records)] /\ buf' \in [Objects -> Seq(Records)]
    BY <1>3, <1>4 DEF LogInv, Types
  <2>2. pc' \in [Actors -> WriterPlaces \cup VisitPlaces \cup ClosePlaces]
    BY <1>3 DEF LogInv, Types, ClosePlaces
  <2> QED BY <1>3, <2>1, <2>2 DEF LogInv, Types, World
<1>6. Others(App) /\ LocksOwn(App)
  BY <1>3 DEF LogInv, Types, Others, LocksOwn
<1>7. /\ pc'[App] = "handle" /\ batch'[App] = buf[obj[App]] /\ buf'[obj[App]] = <<>>
      /\ \A o \in Objects : buf'[o] = buf[o] \/ buf'[o] = <<>>
  BY <1>2, <1>3 DEF LogInv, Types
<1>8. buf[obj[App]] # <<>> => Kept(obj[App])
  BY <1>2 DEF LogInv, WaitsWhere
<1>9. handle'[App] = "none"
  BY <1>1, <1>3, CloserIs
<1>10. AppRight' /\ VisitsRight(App)' /\ ~Making(App) /\ ~Making(App)'
  BY <1>1, <1>3, <1>6, <1>7, <1>8, <1>9, CloserRight DEF ClosePlaces
<1> QED BY <1>2, <1>3, <1>5, <1>6, <1>7, <1>10, VisitorStep

LEMMA TakeHandleStep ==
  ASSUME LogInv, TakeHandle
  PROVE  LogInv'
<1>1. pc[App] = "handle" /\ pc[App] \in ClosePlaces /\ batch[App] # <<>>
  BY DEF TakeHandle, ClosePlaces
<1>2. /\ App \in Visitors /\ App \in Actors /\ ~Silent /\ obj[App] \in Objects /\ App # Timer
      /\ Kept(obj[App]) /\ buf[obj[App]] = <<>>
  BY <1>1, CloserIs
<1>3. /\ UNCHANGED World /\ UNCHANGED <<sync, buf, file, count, at, obj, upto, batch>>
      /\ pc' = [pc EXCEPT ![App] = "put"]
      /\ handle' = [handle EXCEPT ![App] = HandleOf(obj[App])]
  BY DEF TakeHandle, Goto, World, globals, objects
<1>4. Types'
  <2>1. HandleOf(obj[App]) \in {"none", "own", "shared"}
    BY DEF HandleOf
  <2>2. handle' \in [Actors -> {"none", "own", "shared"}]
    BY <1>3, <2>1 DEF LogInv, Types
  <2>3. pc' \in [Actors -> WriterPlaces \cup VisitPlaces \cup ClosePlaces]
    BY <1>3 DEF LogInv, Types, ClosePlaces
  <2> QED BY <1>3, <2>2, <2>3 DEF LogInv, Types, World
<1>5. Others(App) /\ LocksOwn(App) /\ pc'[App] = "put"
  BY <1>2, <1>3 DEF LogInv, Types, Others, LocksOwn
<1>6. AppRight' /\ VisitsRight(App)' /\ ~Making(App) /\ ~Making(App)'
  BY <1>1, <1>2, <1>3, <1>5, CloserRight DEF ClosePlaces
<1> QED BY <1>2, <1>3, <1>4, <1>5, <1>6, VisitorStep

LEMMA PutDoes ==
  ASSUME LogInv, Put
  PROVE  /\ pc[App] = "put" /\ batch[App] # <<>>
         /\ UNCHANGED World /\ UNCHANGED <<sync, buf, count, at, obj, upto>>
         /\ pc' = [pc EXCEPT ![App] = "handle"]
         /\ handle' = [handle EXCEPT ![App] = "none"]
         /\ file' = [file EXCEPT ![at[App]] = Append(file[at[App]], Head(batch[App]))]
         /\ batch' = [batch EXCEPT ![App] = Tail(batch[App])]
<1>1. pc[App] = "put" /\ pc[App] \in ClosePlaces
  BY DEF Put, ClosePlaces
<1>2. handle[App] # "stale" /\ batch[App] # <<>>
  BY <1>1, CloserIs
<1> QED BY <1>1, <1>2 DEF Put, Writes, Goto, World, globals, objects

LEMMA PutStep ==
  ASSUME LogInv, Put
  PROVE  LogInv'
<1>1. /\ pc[App] = "put" /\ pc[App] \in ClosePlaces /\ batch[App] # <<>>
      /\ UNCHANGED World /\ UNCHANGED <<sync, buf, count, at, obj, upto>>
      /\ pc' = [pc EXCEPT ![App] = "handle"] /\ handle' = [handle EXCEPT ![App] = "none"]
  BY PutDoes DEF ClosePlaces
<1>2. /\ file' = [file EXCEPT ![at[App]] = Append(file[at[App]], Head(batch[App]))]
      /\ batch' = [batch EXCEPT ![App] = Tail(batch[App])]
  BY PutDoes
<1>3. /\ App \in Visitors /\ App \in Actors /\ ~Silent /\ obj[App] \in Objects /\ App # Timer
      /\ Kept(obj[App]) /\ buf[obj[App]] = <<>> /\ batch[App] \in Seq(Records) /\ at[App] \in Chans
  BY <1>1, CloserIs
<1>4. Head(batch[App]) \in Records /\ Tail(batch[App]) \in Seq(Records)
  BY <1>1, <1>3, HeadTailProperties
<1>5. Append(file[at[App]], Head(batch[App])) \in Seq(Records)
  BY <1>3, <1>4, AppendProperties DEF LogInv, Types
<1>6. Types'
  <2>1. batch' \in [Visitors -> Seq(Records)] /\ file' \in [Chans -> Seq(Records)]
    BY <1>2, <1>4, <1>5 DEF LogInv, Types
  <2>2. /\ pc' \in [Actors -> WriterPlaces \cup VisitPlaces \cup ClosePlaces]
        /\ handle' \in [Actors -> {"none", "own", "shared"}]
    BY <1>1 DEF LogInv, Types, ClosePlaces
  <2> QED BY <1>1, <2>1, <2>2 DEF LogInv, Types, World
<1>7. Others(App) /\ LocksOwn(App) /\ pc'[App] = "handle" /\ handle'[App] = "none"
  BY <1>1, <1>2, <1>3 DEF LogInv, Types, Others, LocksOwn
<1>8. AppRight' /\ VisitsRight(App)' /\ ~Making(App) /\ ~Making(App)'
  BY <1>1, <1>3, <1>7, CloserRight DEF ClosePlaces
<1> QED BY <1>1, <1>3, <1>6, <1>7, <1>8, VisitorStep
-----------------------------------------------------------------------------
(* The threads that log.                                                   *)
LEMMA WriterIs ==
  ASSUME LogInv, NEW w \in Writers, pc[w] # "idle"
  PROVE  /\ w \in Actors /\ w \notin Visitors /\ LogsRight(w)
         /\ phase = "running" /\ mode \in {"runs", "self"}
         /\ at[w] \in Chans \ shut /\ at[w] \in Chans
         /\ obj[w] \in 0 .. made /\ (obj[w] # Null => obj[w] \in Objects)
         /\ w # "free" /\ w # "absent"
BY Places DEF LogInv, Types, Phases, NobodyLogs, LogsRight

LEMMA BeginStep ==
  ASSUME Calm, LogInv, NEW w \in Writers, NEW c \in Chans, BasicLogEvent(w, c)
  PROVE  LogInv'
<1>1. /\ w \in Actors /\ pc[w] = "idle" /\ phase = "running" /\ mode # "stopped" /\ handle[w] = "none"
  BY Places DEF BasicLogEvent, MayLog, Calm, LogInv, Phases, LogsRight
<1>2. /\ c \in Chans \ shut /\ (channel[c] # Null \/ mode = "runs")
  BY DEF BasicLogEvent, MayLog, Calm
<1>3. mode \in {"runs", "self"}
  <2>1. mode = "none" => channel[c] = Null
    BY DEF LogInv, Types, Phases, Null
  <2> QED BY <1>1, <1>2, <2>1 DEF LogInv, Types
<1>4. /\ UNCHANGED World /\ UNCHANGED <<sync, buf, file, count, obj, upto, batch, handle>>
      /\ at' = [at EXCEPT ![w] = c] /\ pc' = [pc EXCEPT ![w] = "get"]
  BY DEF BasicLogEvent, Goto, World, globals, objects
<1>5. Types'
  <2>1. at' \in [Actors -> 0 .. MaxChannel]
    <3>1. c \in 0 .. MaxChannel
      BY LogAssumption DEF Chans
    <3> QED BY <1>4, <3>1 DEF LogInv, Types
  <2>2. pc' \in [Actors -> WriterPlaces \cup VisitPlaces \cup ClosePlaces]
    BY <1>4 DEF LogInv, Types, WriterPlaces
  <2> QED BY <1>4, <2>1, <2>2 DEF LogInv, Types, World
<1>6. Others(w) /\ LocksOwn(w) /\ pc'[w] = "get" /\ at'[w] = c
  BY <1>1, <1>4 DEF LogInv, Types, Others, LocksOwn
<1>7. LogsRight(w)'
  BY <1>1, <1>2, <1>3, <1>4, <1>6 DEF LogsRight, WriterPlaces, World
<1>8. ~Making(w) /\ ~Making(w)'
  BY <1>1, <1>6 DEF Making
<1> QED BY <1>1, <1>4, <1>5, <1>6, <1>7, <1>8, WriterStep

LEMMA GetStep ==
  ASSUME LogInv, NEW w \in Writers, GetChannel(w)
  PROVE  LogInv'
<1>1. pc[w] = "get" /\ pc[w] # "idle"
  BY DEF GetChannel
<1>2. /\ w \in Actors /\ phase = "running" /\ mode \in {"runs", "self"}
      /\ at[w] \in Chans \ shut /\ at[w] \in Chans /\ handle[w] = "none"
      /\ channel[at[w]] # Null \/ mode = "runs"
  BY <1>1, WriterIs DEF LogsRight
<1>3. /\ UNCHANGED World /\ UNCHANGED <<sync, buf, file, count, at, upto, batch, handle>>
      /\ \/ channel[at[w]] = Null /\ pc' = [pc EXCEPT ![w] = "make"] /\ obj' = obj
         \/ /\ channel[at[w]] # Null /\ pc' = [pc EXCEPT ![w] = "log"]
            /\ obj' = [obj EXCEPT ![w] = channel[at[w]]]
  BY DEF GetChannel, Goto, World, globals, objects
<1>4. channel[at[w]] \in 0 .. made
  BY <1>2, Places
<1>5. Types'
  <2>1. pc' \in [Actors -> WriterPlaces \cup VisitPlaces \cup ClosePlaces]
    BY <1>3 DEF LogInv, Types, WriterPlaces
  <2>2. obj' \in [Actors -> 0 .. made]
    BY <1>3, <1>4 DEF LogInv, Types
  <2> QED BY <1>3, <2>1, <2>2 DEF LogInv, Types, World
<1>6. Others(w) /\ LocksOwn(w)
  BY <1>2, <1>3 DEF LogInv, Types, Others, LocksOwn
<1>7. \/ channel[at[w]] = Null /\ pc'[w] = "make"
      \/ channel[at[w]] # Null /\ pc'[w] = "log" /\ obj'[w] = channel[at[w]]
  BY <1>2, <1>3 DEF LogInv, Types
<1>8. LogsRight(w)'
  BY <1>2, <1>3, <1>7 DEF LogsRight, WriterPlaces, World, Serves, PlainAt
<1>9. ~Making(w) /\ ~Making(w)'
  BY <1>1, <1>7 DEF Making
<1> QED BY <1>2, <1>3, <1>5, <1>6, <1>8, <1>9, WriterStep

(* What is kept is kept in the object that the channel has.                *)
LEMMA LogLaterDoes ==
  ASSUME LogInv, NEW w \in Writers, LogLater(w)
  PROVE  /\ pc[w] = "log" /\ w \in Actors /\ phase = "running"
         /\ at[w] \in Chans \ shut /\ at[w] \in Chans
         /\ obj[w] \in Objects /\ obj[w] = channel[at[w]] /\ Kept(obj[w])
         /\ UNCHANGED World /\ UNCHANGED <<sync, file, upto, batch, handle>>
         /\ buf' = [buf EXCEPT ![obj[w]] = Append(buf[obj[w]], Record(w))]
         /\ count' = [count EXCEPT ![w] = count[w] + 1]
         /\ pc' = [pc EXCEPT ![w] = "idle"] /\ at' = [at EXCEPT ![w] = 0]
         /\ obj' = [obj EXCEPT ![w] = Null]
<1>1. pc[w] = "log" /\ pc[w] # "idle"
  BY DEF LogLater
<1>2. /\ w \in Actors /\ phase = "running" /\ mode \in {"runs", "self"}
      /\ at[w] \in Chans \ shut /\ at[w] \in Chans /\ Serves(at[w], obj[w]) /\ obj[w] \in Objects
  BY <1>1, WriterIs DEF LogsRight, Serves
<1>3. Kept(obj[w])
  BY <1>2 DEF LogLater, Buffers, Kept
<1>4. obj[w] = channel[at[w]]
  BY <1>2, <1>3 DEF Serves, Kept
<1> QED BY <1>1, <1>2, <1>3, <1>4 DEF LogLater, Counted, Idle, Goto, World, globals

LEMMA RecordType ==
  ASSUME LogInv, NEW w \in Writers
  PROVE  Record(w) \in Records /\ count[w] \in Nat
BY DEF LogInv, Types, Record, Records

LEMMA LogLaterStep ==
  ASSUME LogInv, NEW w \in Writers, LogLater(w)
  PROVE  LogInv'
<1>1. /\ pc[w] = "log" /\ w \in Actors /\ phase = "running"
      /\ at[w] \in Chans \ shut /\ obj[w] \in Objects /\ obj[w] = channel[at[w]] /\ Kept(obj[w])
      /\ UNCHANGED World /\ UNCHANGED <<sync, file, upto, batch, handle>>
  BY LogLaterDoes
<1>2. /\ buf' = [buf EXCEPT ![obj[w]] = Append(buf[obj[w]], Record(w))]
      /\ count' = [count EXCEPT ![w] = count[w] + 1]
      /\ pc' = [pc EXCEPT ![w] = "idle"] /\ at' = [at EXCEPT ![w] = 0]
      /\ obj' = [obj EXCEPT ![w] = Null]
  BY LogLaterDoes
<1>3. Append(buf[obj[w]], Record(w)) \in Seq(Records)
  BY <1>1, RecordType, AppendProperties DEF LogInv, Types
<1>4. Types'
  <2>0. 0 \in 0 .. MaxChannel /\ Null \in 0 .. made /\ count[w] + 1 \in Nat
    BY LogAssumption, RecordType DEF LogInv, Types, Null
  <2>1. buf' \in [Objects -> Seq(Records)] /\ count' \in [Writers -> Nat]
    BY <1>2, <1>3, <2>0 DEF LogInv, Types
  <2>2. pc' \in [Actors -> WriterPlaces \cup VisitPlaces \cup ClosePlaces]
    BY <1>2 DEF LogInv, Types, WriterPlaces
  <2>3. at' \in [Actors -> 0 .. MaxChannel] /\ obj' \in [Actors -> 0 .. made]
    BY <1>2, <2>0 DEF LogInv, Types
  <2> QED BY <1>1, <2>1, <2>2, <2>3 DEF LogInv, Types, World
<1>5. Others(w) /\ LocksOwn(w) /\ pc'[w] = "idle" /\ handle'[w] = "none"
  BY <1>1, <1>2 DEF LogInv, Types, Others, LocksOwn, LogsRight
<1>6. \A o \in Objects : buf'[o] = buf[o] \/ (Kept(o) /\ \E c \in Chans \ shut : channel[c] = o)
  BY <1>1, <1>2 DEF LogInv, Types
<1>7. LogsRight(w)'
  BY <1>5 DEF LogsRight, WriterPlaces
<1>8. ~Making(w) /\ ~Making(w)'
  BY <1>1, <1>5 DEF Making
<1> QED BY <1>1, <1>4, <1>5, <1>6, <1>7, <1>8, WriterStep

LEMMA LogNowStep ==
  ASSUME LogInv, NEW w \in Writers, LogNow(w)
  PROVE  LogInv'
<1>1. pc[w] = "log" /\ pc[w] # "idle" /\ sync[obj[w]] \in {"free", "absent"} /\ ~Buffers(obj[w])
  BY DEF LogNow, LogNowIf, Free
<1>2. /\ w \in Actors /\ phase = "running" /\ mode \in {"runs", "self"}
      /\ at[w] \in Chans \ shut /\ Serves(at[w], obj[w]) /\ obj[w] \in Objects
  BY <1>1, WriterIs DEF LogsRight, Serves
<1>3. mode = "runs" /\ "buffer" \notin option[obj[w]]
  BY <1>1, <1>2 DEF Buffers
<1>4. sync[obj[w]] = "free"
  BY <1>1, <1>2, <1>3 DEF LogInv, WaitsWhere
<1>5. /\ UNCHANGED World /\ UNCHANGED <<buf, file, count, at, obj, upto, batch>>
      /\ sync' = [sync EXCEPT ![obj[w]] = w]
      /\ handle' = [handle EXCEPT ![w] = HandleOf(obj[w])]
      /\ pc' = [pc EXCEPT ![w] = "write"]
  BY <1>4 DEF LogNow, LogNowIf, Locked, Goto, World, globals
<1>6. Types'
  <2>1. HandleOf(obj[w]) \in {"none", "own", "shared"}
    BY DEF HandleOf
  <2>2. /\ handle' \in [Actors -> {"none", "own", "shared"}]
        /\ sync' \in [Objects -> Actors \cup {"free", "absent"}]
    BY <1>2, <1>5, <2>1 DEF LogInv, Types
  <2>3. pc' \in [Actors -> WriterPlaces \cup VisitPlaces \cup ClosePlaces]
    BY <1>5 DEF LogInv, Types, WriterPlaces
  <2> QED BY <1>5, <2>2, <2>3 DEF LogInv, Types, World
<1>7. Others(w) /\ LocksOwn(w) /\ pc'[w] = "write" /\ sync'[obj[w]] = w
  BY <1>2, <1>4, <1>5 DEF LogInv, Types, Others, LocksOwn
<1>8. LogsRight(w)'
  BY <1>2, <1>3, <1>5, <1>7 DEF LogsRight, WriterPlaces, World, Serves, PlainAt
<1>9. ~Making(w) /\ ~Making(w)'
  BY <1>1, <1>7 DEF Making
<1> QED BY <1>2, <1>5, <1>6, <1>7, <1>8, <1>9, WriterStep

LEMMA WriteNowDoes ==
  ASSUME LogInv, NEW w \in Writers, WriteNow(w)
  PROVE  /\ pc[w] = "write" /\ w \in Actors /\ phase = "running" /\ mode = "runs"
         /\ at[w] \in Chans \ shut /\ at[w] \in Chans
         /\ obj[w] \in Objects /\ Serves(at[w], obj[w]) /\ ~Kept(obj[w]) /\ sync[obj[w]] = w
         /\ UNCHANGED World /\ UNCHANGED <<buf, upto, batch>>
         /\ sync' = [sync EXCEPT ![obj[w]] = "free"]
         /\ handle' = [handle EXCEPT ![w] = "none"]
         /\ file' = [file EXCEPT ![at[w]] = Append(file[at[w]], Record(w))]
         /\ count' = [count EXCEPT ![w] = count[w] + 1]
         /\ pc' = [pc EXCEPT ![w] = "idle"] /\ at' = [at EXCEPT ![w] = 0]
         /\ obj' = [obj EXCEPT ![w] = Null]
<1>1. pc[w] = "write" /\ pc[w] # "idle"
  BY DEF WriteNow
<1>2. /\ w \in Actors /\ phase = "running" /\ mode = "runs"
      /\ at[w] \in Chans \ shut /\ at[w] \in Chans /\ Serves(at[w], obj[w]) /\ obj[w] \in Objects
      /\ sync[obj[w]] = w /\ w # "absent" /\ "buffer" \notin option[obj[w]]
  BY <1>1, WriterIs DEF LogsRight, Serves
<1>3. handle[w] # "stale"
  BY <1>2 DEF LogInv, Types
<1> QED BY <1>1, <1>2, <1>3
        DEF WriteNow, Writes, Counted, Unlocked, Idle, Goto, World, globals, Kept

LEMMA WriteNowStep ==
  ASSUME LogInv, NEW w \in Writers, WriteNow(w)
  PROVE  LogInv'
<1>1. /\ pc[w] = "write" /\ w \in Actors /\ phase = "running"
      /\ at[w] \in Chans /\ obj[w] \in Objects /\ sync[obj[w]] = w
      /\ UNCHANGED World /\ UNCHANGED <<buf, upto, batch>>
  BY WriteNowDoes
<1>2. /\ sync' = [sync EXCEPT ![obj[w]] = "free"]
      /\ handle' = [handle EXCEPT ![w] = "none"]
      /\ file' = [file EXCEPT ![at[w]] = Append(file[at[w]], Record(w))]
      /\ count' = [count EXCEPT ![w] = count[w] + 1]
  BY WriteNowDoes
<1>3. /\ pc' = [pc EXCEPT ![w] = "idle"] /\ at' = [at EXCEPT ![w] = 0]
      /\ obj' = [obj EXCEPT ![w] = Null]
  BY WriteNowDoes
<1>4. Append(file[at[w]], Record(w)) \in Seq(Records)
  BY <1>1, RecordType, AppendProperties DEF LogInv, Types
<1>5. Types'
  <2>0. 0 \in 0 .. MaxChannel /\ Null \in 0 .. made /\ count[w] + 1 \in Nat
    BY LogAssumption, RecordType DEF LogInv, Types, Null
  <2>1. file' \in [Chans -> Seq(Records)] /\ count' \in [Writers -> Nat]
    BY <1>2, <1>4, <2>0 DEF LogInv, Types
  <2>2. /\ pc' \in [Actors -> WriterPlaces \cup VisitPlaces \cup ClosePlaces]
        /\ sync' \in [Objects -> Actors \cup {"free", "absent"}]
        /\ handle' \in [Actors -> {"none", "own", "shared"}]
    BY <1>2, <1>3 DEF LogInv, Types, WriterPlaces
  <2>3. at' \in [Actors -> 0 .. MaxChannel] /\ obj' \in [Actors -> 0 .. made]
    BY <1>3, <2>0 DEF LogInv, Types
  <2> QED BY <1>1, <2>1, <2>2, <2>3 DEF LogInv, Types, World
<1>6. Others(w) /\ LocksOwn(w) /\ pc'[w] = "idle" /\ handle'[w] = "none"
  BY <1>1, <1>2, <1>3 DEF LogInv, Types, Others, LocksOwn
<1>7. LogsRight(w)'
  BY <1>6 DEF LogsRight, WriterPlaces
<1>8. ~Making(w) /\ ~Making(w)'
  BY <1>1, <1>6 DEF Making
<1> QED BY <1>1, <1>5, <1>6, <1>7, <1>8, WriterStep
-----------------------------------------------------------------------------
(* The application sets the log up: nothing waits, nobody logs, and a      *)
(* channel that is there stays.                                            *)
LEMMA SetUpStep ==
  ASSUME LogInv, phase = "setup", phase' \in {"setup", "running"}, Others(App),
         pc'[App] \in {"idle", "assign"}, UNCHANGED <<shut, buf, batch, upto>>,
         mode # "none" => mode' = mode, mode' # "stopped",
         mode' = "none" => made' = 0,
         \A c \in Chans : channel[c] # Null => channel'[c] = channel[c],
         \A o \in 1 .. made : sync'[o] = sync[o],
         \A o \in Objects : sync'[o] = "absent" => mode' = "self",
         Types', AppRight', OneEach', Covered'
  PROVE  LogInv'
<1>1. /\ \A o \in Objects : buf'[o] = <<>>
      /\ \A p \in Visitors : batch'[p] = <<>>
      /\ Timer \in Visitors \ {App} /\ Timer \in Actors \ {App} /\ mode # "stopped"
      /\ shut' = {}
  BY Places DEF LogInv, NothingWaits, Silent, Phases
<1>2. \A w \in Writers : w \in Actors \ {App} /\ pc[w] = "idle" /\ handle[w] = "none"
  BY Places DEF LogInv, Phases, NobodyLogs, LogsRight
<1>3. \A w \in Writers : pc'[w] = "idle" /\ handle'[w] = "none"
  BY <1>2 DEF Others
<1>4. \A w \in Writers : LogsRight(w)'
  BY <1>3 DEF LogsRight, WriterPlaces
<1>5. /\ pc'[Timer] = pc[Timer] /\ at'[Timer] = at[Timer] /\ obj'[Timer] = obj[Timer]
      /\ handle'[Timer] = handle[Timer] /\ upto'[Timer] = upto[Timer]
  BY <1>1 DEF Others
<1>6. TimerRight'
  BY <1>5 DEF LogInv, TimerRight
<1>7. VisitsRight(Timer)'
  <2>1. VisitsRight(Timer) /\ made \in Nat /\ obj[Timer] \in 0 .. made
    BY <1>1, Places DEF LogInv, Types
  <2>2. ASSUME pc[Timer] \in {"check", "enter", "flush"} PROVE at[Timer] \in Chans
    BY <1>1, <2>1, <2>2, Places, LogAssumption DEF VisitsRight, Chans
  <2>3. ASSUME pc[Timer] \in {"enter", "flush"}
        PROVE  obj[Timer] # Null /\ obj[Timer] = channel[at[Timer]]
    BY <2>1, <2>3 DEF VisitsRight, Serves
  <2>4. ASSUME pc[Timer] = "flush" PROVE sync'[obj[Timer]] = sync[obj[Timer]]
    <3>1. obj[Timer] \in 1 .. made
      BY <2>1, <2>3, <2>4 DEF Null
    <3> QED BY <3>1
  <2>5. pc[Timer] \in {"enter", "flush"} => Serves(at[Timer], obj[Timer])'
    BY <1>5, <2>2, <2>3 DEF Serves
  <2>6. pc[Timer] = "check" => channel'[at[Timer]] # Null
    BY <2>1, <2>2 DEF VisitsRight
  <2>7. batch'[Timer] = <<>>
    BY <1>1
  <2> QED BY <1>5, <2>1, <2>4, <2>5, <2>6, <2>7 DEF VisitsRight
<1>8. VisitsRight(App)'
  BY <1>1 DEF VisitsRight, VisitPlaces, Visitors
<1>9. Phases'
  BY <1>1, <1>3 DEF Phases, NobodyLogs
<1>10. WaitsWhere' /\ NothingWaits'
  BY <1>1 DEF WaitsWhere, NothingWaits
<1>11. \A p \in Visitors : VisitsRight(p)'
  BY <1>7, <1>8 DEF Visitors
<1> QED BY <1>4, <1>6, <1>9, <1>10, <1>11 DEF LogInv

(* The application is not at work when it sets up.                         *)
LEMMA SettingUpIs ==
  ASSUME LogInv, SettingUp
  PROVE  /\ phase = "setup" /\ pc[App] = "idle" /\ App \in Actors /\ App \in Visitors
         /\ App # Timer /\ handle[App] = "none" /\ mode # "stopped"
         /\ current \in Nat /\ made \in Nat /\ made <= MaxObject /\ MaxObject \in Nat
         /\ mode = "none" => made = 0 /\ pc[Timer] = "idle"
         /\ NobodyLogs
BY Places, LogAssumption
   DEF SettingUp, LogInv, Types, AppRight, TimerRight, Phases

LEMMA CallInitStep ==
  ASSUME LogInv, CallInitBasicLog
  PROVE  LogInv'
<1>1. /\ phase = "setup" /\ pc[App] = "idle" /\ mode = "none" /\ mode' \in {"self", "runs"}
      /\ UNCHANGED <<phase, shut, current, channel, made, option, sync, buf>>
      /\ UNCHANGED <<file, count, pc, at, obj, upto, batch, handle>>
  BY DEF CallInitBasicLog, SettingUp, InitBasicLog, objects, local
<1>2. Types'
  BY <1>1 DEF LogInv, Types
<1>3. Others(App)
  BY <1>1 DEF Others
<1>4. \A o \in Objects : sync[o] # "absent"
  BY <1>1 DEF LogInv, WaitsWhere
<1>5. AppRight'
  BY <1>1 DEF LogInv, AppRight, VisitPlaces, ClosePlaces
<1>6. OneEach' /\ Covered'
  BY <1>1 DEF LogInv, OneEach, Covered, Making
<1> QED BY <1>1, <1>2, <1>3, <1>4, <1>5, <1>6, SetUpStep

LEMMA LogIsFullStep ==
  ASSUME LogInv, LogIsFull
  PROVE  LogInv'
<1>1. /\ SettingUp /\ phase = "setup" /\ pc[App] = "idle" /\ current' = current + 1
      /\ mode' = (IF mode = "none" THEN "runs" ELSE mode)
      /\ UNCHANGED <<phase, shut, channel, made, option, sync, buf>>
      /\ UNCHANGED <<file, count, pc, at, obj, upto, batch, handle>>
  BY DEF LogIsFull, SettingUp, InitBasicLog, objects, local
<1>2. current \in Nat /\ mode # "stopped"
  BY <1>1, SettingUpIs
<1>3. Types'
  BY <1>1, <1>2 DEF LogInv, Types
<1>4. Others(App)
  BY <1>1 DEF Others
<1>5. \A o \in Objects : sync'[o] = "absent" => mode' = "self"
  BY <1>1 DEF LogInv, WaitsWhere
<1>6. AppRight'
  BY <1>1 DEF LogInv, AppRight, VisitPlaces, ClosePlaces
<1>7. OneEach'
  BY <1>1 DEF LogInv, OneEach, Making
<1>8. Covered'
  BY <1>1, <1>2, LogAssumption DEF LogInv, Covered, Chans
<1> QED BY <1>1, <1>2, <1>3, <1>4, <1>5, <1>6, <1>7, <1>8, SetUpStep

LEMMA ReadyStep ==
  ASSUME LogInv, Ready
  PROVE  LogInv'
<1>1. /\ SettingUp /\ phase = "setup" /\ pc[App] = "idle" /\ phase' = "running"
      /\ UNCHANGED <<mode, shut, current, channel, made, option, sync, buf>>
      /\ UNCHANGED <<file, count, pc, at, obj, upto, batch, handle>>
  BY DEF Ready, SettingUp, objects, local
<1>2. mode # "stopped" /\ (mode = "none" => made = 0)
  BY <1>1, SettingUpIs
<1>3. Types'
  BY <1>1 DEF LogInv, Types
<1>4. Others(App)
  BY <1>1 DEF Others
<1>5. \A o \in Objects : sync'[o] = "absent" => mode' = "self"
  BY <1>1 DEF LogInv, WaitsWhere
<1>6. AppRight'
  BY <1>1 DEF LogInv, AppRight, VisitPlaces, ClosePlaces
<1>7. OneEach'
  BY <1>1 DEF LogInv, OneEach, Making
<1>8. Covered'
  BY <1>1 DEF LogInv, Covered, PlainAt
<1> QED BY <1>1, <1>2, <1>3, <1>4, <1>5, <1>6, <1>7, <1>8, SetUpStep

LEMMA AssignAppStep ==
  ASSUME LogInv, Assign(App)
  PROVE  LogInv'
<1>1. /\ App \in Actors /\ App \in Visitors /\ Timer \in Actors /\ pc[App] = "assign"
      /\ AppRight /\ made \in Nat /\ obj[App] \in 0 .. made /\ handle[App] = "none"
  BY Places DEF Assign, LogInv, Types, AppRight
<1>2. /\ phase = "setup" /\ obj[App] # Null /\ at[App] \in Chans /\ channel[at[App]] = Null
      /\ 1 <= current /\ at[App] <= current
  BY <1>1 DEF AppRight
<1>3. /\ channel' = [channel EXCEPT ![at[App]] = obj[App]]
      /\ pc' = [pc EXCEPT ![App] = "idle"] /\ at' = [at EXCEPT ![App] = 0]
      /\ obj' = [obj EXCEPT ![App] = Null]
      /\ UNCHANGED <<mode, phase, shut, current, made, option, sync, buf>>
      /\ UNCHANGED <<file, count, upto, batch, handle>>
  BY DEF Assign, Idle, Goto, objects
<1>4. Types'
  <2>0. 0 \in 0 .. MaxChannel /\ Null \in 0 .. made
    BY <1>1, LogAssumption DEF Null
  <2>1. channel' \in [Chans -> 0 .. made] /\ obj' \in [Actors -> 0 .. made]
    BY <1>1, <1>3, <2>0 DEF LogInv, Types
  <2>2. at' \in [Actors -> 0 .. MaxChannel]
    BY <1>3, <2>0 DEF LogInv, Types
  <2>3. pc' \in [Actors -> WriterPlaces \cup VisitPlaces \cup ClosePlaces]
    BY <1>3 DEF LogInv, Types, WriterPlaces
  <2> QED BY <1>3, <2>1, <2>2, <2>3 DEF LogInv, Types
<1>5. Others(App) /\ pc'[App] = "idle"
  BY <1>1, <1>3 DEF LogInv, Types, Others
<1>6. /\ channel'[at[App]] = obj[App]
      /\ \A c \in Chans \ {at[App]} : channel'[c] = channel[c]
  BY <1>2, <1>3 DEF LogInv, Types
<1>7. AppRight'
  BY <1>1, <1>3, <1>5 DEF AppRight, VisitPlaces, ClosePlaces
<1>8. OneEach'
  <2>1. \A q \in Actors : Making(q)' => q # App /\ Making(q) /\ obj'[q] = obj[q]
    BY <1>5 DEF Others, Making
  <2>2. Making(App) /\ OneEach
    BY <1>1 DEF Making, LogInv
  <2>3. \A c \in Chans : channel[c] # obj[App]
    BY <1>1, <2>2 DEF OneEach
  <2>4. ASSUME NEW c \in Chans, NEW d \in Chans, channel'[c] = channel'[d], channel'[c] # Null
        PROVE  c = d
    BY <1>6, <2>2, <2>3, <2>4 DEF OneEach
  <2>5. ASSUME NEW q \in Actors, Making(q)', NEW c \in Chans PROVE channel'[c] # obj'[q]
    <3>1. q # App /\ Making(q) /\ obj'[q] = obj[q]
      BY <2>1, <2>5
    <3>2. obj[q] # obj[App] /\ channel[c] # obj[q]
      BY <1>1, <2>2, <3>1 DEF OneEach
    <3> QED BY <1>6, <3>1, <3>2
  <2>6. \A p, q \in Actors : Making(p)' /\ Making(q)' /\ obj'[p] = obj'[q] => p = q
    BY <2>1, <2>2 DEF OneEach
  <2> QED BY <2>4, <2>5, <2>6 DEF OneEach
<1>9. Covered'
  BY <1>2, <1>3, <1>6 DEF LogInv, Covered
<1>10. \A o \in Objects : sync'[o] = "absent" => mode' = "self"
  BY <1>3 DEF LogInv, WaitsWhere
<1>11. mode # "stopped" /\ (mode = "none" => made = 0)
  BY <1>2 DEF LogInv, Phases
<1> QED BY <1>2, <1>3, <1>4, <1>5, <1>6, <1>7, <1>8, <1>9, <1>10, <1>11, SetUpStep

LEMMA ChangeStep ==
  ASSUME LogInv, NEW c \in Chans, ChangeLogChannel(c)
  PROVE  LogInv'
<1>1. /\ SettingUp /\ phase = "setup" /\ channel[c] # Null /\ channel[c] \in Objects
      /\ App \in Actors /\ pc[App] = "idle"
  BY Places, SettingUpIs DEF ChangeLogChannel
<1>2. \A q \in Actors \ {App} : handle[q] = "none"
  BY <1>1, SettingUpIs DEF LogInv, LogsRight, NobodyLogs, TimerRight, Actors, Visitors
<1>3. handle' = handle
  BY <1>1, <1>2, NeverShared DEF ChangeLogChannel
<1>4. mode # "none" /\ mode # "stopped"
  BY <1>1, SettingUpIs DEF LogInv, Types, Null
<1>5. PICK options \in Options : option' = [option EXCEPT ![channel[c]] = options]
  BY DEF ChangeLogChannel
<1>6. /\ UNCHANGED <<mode, phase, shut, current, channel, made, sync, buf>>
      /\ UNCHANGED <<file, count, pc, at, obj, upto, batch, handle>>
  BY <1>3, <1>4 DEF ChangeLogChannel, InitBasicLog
<1>7. Types'
  BY <1>5, <1>6 DEF LogInv, Types
<1>8. Others(App)
  BY <1>6 DEF Others
<1>9. \A o \in Objects : sync'[o] = "absent" => mode' = "self"
  BY <1>6 DEF LogInv, WaitsWhere
<1>10. AppRight'
  BY <1>1, <1>6 DEF LogInv, AppRight, VisitPlaces, ClosePlaces
<1>11. OneEach' /\ Covered'
  BY <1>1, <1>6 DEF LogInv, OneEach, Covered, Making
<1> QED BY <1>1, <1>4, <1>6, <1>7, <1>8, <1>9, <1>10, <1>11, SetUpStep

LEMMA NewChannelStep ==
  ASSUME LogInv, SettingUp, NEW c \in Chans, channel[c] = Null, c <= current + 1,
         NewChannel(c)
  PROVE  LogInv'
<1>1. /\ phase = "setup" /\ pc[App] = "idle" /\ App \in Actors /\ handle[App] = "none"
      /\ current \in Nat /\ made \in Nat /\ mode # "stopped"
  BY SettingUpIs
<1>2. /\ mode' = (IF mode = "none" THEN "runs" ELSE mode) /\ current' = current + 1
      /\ made < MaxObject /\ made' = made + 1
      /\ at' = [at EXCEPT ![App] = c] /\ obj' = [obj EXCEPT ![App] = made']
      /\ pc' = [pc EXCEPT ![App] = "assign"]
      /\ sync' = [sync EXCEPT ![made'] = IF mode' = "self" THEN "absent" ELSE "free"]
      /\ UNCHANGED <<phase, shut, channel, buf, file, count, upto, batch, handle>>
  BY DEF NewChannel, InitBasicLog, Create, Goto
<1>3. PICK options \in Options : option' = [option EXCEPT ![made'] = options]
  BY DEF NewChannel, Create
<1>4. /\ made' \in Objects /\ made' \in Nat /\ made' \in 0 .. MaxObject /\ made' # Null
      /\ made' > made
  BY <1>1, <1>2, LogAssumption DEF Objects, Null
<1>5. Types'
  <2>1. c \in 0 .. MaxChannel
    BY LogAssumption DEF Chans
  <2>2. \A n \in 0 .. made : n \in 0 .. made'
    BY <1>1, <1>2
  <2>3. channel' \in [Chans -> 0 .. made'] /\ obj' \in [Actors -> 0 .. made']
    <3>1. made' \in 0 .. made'
      BY <1>4
    <3>2. \A p \in Actors : obj'[p] \in 0 .. made'
      BY <1>2, <2>2, <3>1 DEF LogInv, Types
    <3>3. \A d \in Chans : channel'[d] \in 0 .. made'
      BY <1>2, <2>2 DEF LogInv, Types
    <3> QED BY <1>2, <3>2, <3>3 DEF LogInv, Types
  <2>4. at' \in [Actors -> 0 .. MaxChannel]
    BY <1>2, <2>1 DEF LogInv, Types
  <2>5. pc' \in [Actors -> WriterPlaces \cup VisitPlaces \cup ClosePlaces]
    BY <1>2 DEF LogInv, Types, WriterPlaces
  <2>6. option' \in [Objects -> Options \cup {{}}]
    BY <1>3 DEF LogInv, Types
  <2>7. sync' \in [Objects -> Actors \cup {"free", "absent"}]
    BY <1>2 DEF LogInv, Types
  <2>8. current' \in Nat
    BY <1>1, <1>2
  <2> QED BY <1>2, <1>4, <2>3, <2>4, <2>5, <2>6, <2>7, <2>8 DEF LogInv, Types
<1>6. /\ Others(App) /\ pc'[App] = "assign" /\ at'[App] = c /\ obj'[App] = made'
  BY <1>1, <1>2 DEF LogInv, Types, Others
<1>7. \A o \in Objects : sync'[o] = IF o = made' THEN (IF mode' = "self" THEN "absent" ELSE "free")
                                    ELSE sync[o]
  BY <1>2 DEF LogInv, Types
<1>8. /\ \A o \in 1 .. made : sync'[o] = sync[o]
      /\ \A o \in Objects : sync'[o] = "absent" => mode' = "self"
  <2>1. \A o \in 1 .. made : o \in Objects /\ o # made'
    BY <1>1, <1>2, LogAssumption DEF Objects
  <2>2. \A o \in Objects : sync[o] = "absent" => mode = "self"
    BY DEF LogInv, WaitsWhere
  <2> QED BY <1>2, <1>7, <2>1, <2>2
<1>9. AppRight'
  <2>1. c \in Int /\ 1 <= current + 1
    BY <1>1, LogAssumption DEF Chans
  <2> QED BY <1>1, <1>2, <1>4, <1>6, <2>1 DEF AppRight, VisitPlaces, ClosePlaces
<1>10. OneEach'
  <2>1. \A q \in Actors : Making(q)' => q = App \/ (Making(q) /\ obj'[q] = obj[q])
    BY <1>6 DEF Others, Making
  <2>2. /\ \A q \in Actors : obj[q] # made'
        /\ \A d \in Chans : channel[d] # made'
    <3>1. \A n \in 0 .. made : n # made'
      BY <1>1, <1>2
    <3> QED BY <3>1, Places
  <2>3. \A p, q \in Actors : Making(p)' /\ Making(q)' /\ obj'[p] = obj'[q] => p = q
    BY <1>6, <2>1, <2>2 DEF LogInv, OneEach
  <2>4. \A q \in Actors, d \in Chans : Making(q)' => channel'[d] # obj'[q]
    BY <1>2, <1>6, <2>1, <2>2 DEF LogInv, OneEach
  <2> QED BY <1>2, <2>3, <2>4 DEF LogInv, OneEach
<1>11. Covered'
  BY <1>1, <1>2, LogAssumption DEF LogInv, Covered, Chans
<1>12. mode' # "none" /\ mode' # "stopped"
  BY <1>1, <1>2
<1> QED BY <1>1, <1>2, <1>5, <1>6, <1>8, <1>9, <1>10, <1>11, <1>12, SetUpStep

LEMMA NewChannelSteps ==
  ASSUME LogInv, BasicSetLogEventMode \/ \E c \in {0, 1} : BasicSetDefaultLogEventMode(c)
  PROVE  LogInv'
<1>1. CASE BasicSetLogEventMode
  <2>1. SettingUp /\ NewChannel(current + 1) /\ current \in Nat /\ phase = "setup"
    BY <1>1, SettingUpIs DEF BasicSetLogEventMode
  <2>2. current + 1 \in Chans
    BY <1>1, <2>1, LogAssumption DEF BasicSetLogEventMode, Chans
  <2>3. channel[current + 1] = Null
    BY <2>1, <2>2 DEF LogInv, Covered
  <2> QED BY <2>1, <2>2, <2>3, NewChannelStep
<1>2. ASSUME NEW c \in {0, 1}, BasicSetDefaultLogEventMode(c) PROVE LogInv'
  <2>1. SettingUp /\ NewChannel(c) /\ channel[c] = Null /\ current \in Nat
    BY <1>2, SettingUpIs DEF BasicSetDefaultLogEventMode
  <2>2. c \in Chans /\ c <= current + 1
    BY <2>1, LogAssumption DEF Chans
  <2> QED BY <2>1, <2>2, NewChannelStep
<1> QED BY <1>1, <1>2
-----------------------------------------------------------------------------
(* Channels are made by the threads that log, and closed.                  *)
LEMMA MakeStep ==
  ASSUME LogInv, NEW w \in Writers, MakeDefault(w)
  PROVE  LogInv'
<1>1. /\ pc[w] = "make" /\ w \in Actors /\ w \notin Visitors /\ w # App /\ w # Timer
      /\ phase = "running" /\ mode = "runs" /\ PlainAt(at[w]) /\ handle[w] = "none"
      /\ at[w] \in Chans \ shut /\ made \in Nat /\ pc[App] \notin VisitPlaces
  <2>1. pc[w] = "make" /\ pc[w] # "idle"
    BY DEF MakeDefault
  <2>2. made \in Nat
    BY DEF LogInv, Types
  <2>3. pc[App] \notin VisitPlaces
    BY <2>1, WriterIs DEF LogInv, AppRight
  <2> QED BY <2>1, <2>2, <2>3, WriterIs, Places DEF LogsRight
<1>2. /\ made < MaxObject /\ made' = made + 1
      /\ option' = [option EXCEPT ![made'] = {}] /\ sync' = [sync EXCEPT ![made'] = "free"]
      /\ obj' = [obj EXCEPT ![w] = made'] /\ pc' = [pc EXCEPT ![w] = "assign"]
      /\ UNCHANGED <<mode, phase, shut, current, channel, buf>>
      /\ UNCHANGED <<file, count, at, upto, batch, handle>>
  BY <1>1 DEF MakeDefault, Create, Goto, globals
<1>3. /\ made' \in Objects /\ made' \in 0 .. MaxObject /\ made' # Null /\ made' \in Nat
      /\ \A n \in 0 .. made : n # made' /\ n \in 0 .. made'
      /\ made' \in 0 .. made'
  BY <1>1, <1>2, LogAssumption DEF Objects, Null
<1>4. Types'
  <2>1. channel' \in [Chans -> 0 .. made'] /\ obj' \in [Actors -> 0 .. made']
    <3>1. \A p \in Actors : obj'[p] \in 0 .. made'
      BY <1>2, <1>3 DEF LogInv, Types
    <3>2. \A d \in Chans : channel'[d] \in 0 .. made'
      BY <1>2, <1>3 DEF LogInv, Types
    <3> QED BY <1>2, <3>1, <3>2 DEF LogInv, Types
  <2>2. pc' \in [Actors -> WriterPlaces \cup VisitPlaces \cup ClosePlaces]
    BY <1>2 DEF LogInv, Types, WriterPlaces
  <2>3. /\ option' \in [Objects -> Options \cup {{}}]
        /\ sync' \in [Objects -> Actors \cup {"free", "absent"}]
    BY <1>2 DEF LogInv, Types
  <2> QED BY <1>2, <1>3, <2>1, <2>2, <2>3 DEF LogInv, Types
<1>5. /\ pc'[w] = "assign" /\ obj'[w] = made' /\ option'[made'] = {}
      /\ \A q \in Actors \ {w} : pc'[q] = pc[q] /\ obj'[q] = obj[q]
      /\ \A o \in Objects : o # made' => option'[o] = option[o] /\ sync'[o] = sync[o]
  BY <1>1, <1>2, <1>3 DEF LogInv, Types
<1>6. /\ \A q \in Actors : obj[q] # made' /\ obj[q] \in 0 .. made
      /\ \A c \in Chans : channel[c] # made' /\ channel[c] \in 0 .. made
  BY <1>3, Places
<1>7. \A c \in Chans : PlainAt(c)' <=> PlainAt(c)
  BY <1>2, <1>5, <1>6, Places DEF PlainAt
<1>8. \A q \in Actors : obj[q] # Null =>
        option'[obj[q]] = option[obj[q]] /\ sync'[obj[q]] = sync[obj[q]]
  BY <1>5, <1>6, Places
<1>9. ASSUME NEW c \in Chans, NEW q \in Actors \ {w}, Serves(c, obj[q])
      PROVE  Serves(c, obj[q])'
  BY <1>2, <1>5, <1>7, <1>8, <1>9 DEF Serves
<1>10. ASSUME NEW v \in Writers PROVE LogsRight(v)'
  <2>1. LogsRight(v) /\ v \in Actors
    BY Places DEF LogInv
  <2>2. CASE v = w
    BY <1>1, <1>2, <1>3, <1>5, <1>7, <2>2 DEF LogsRight, WriterPlaces
  <2>3. CASE v # w
    <3>1. pc[v] # "idle" => at[v] \in Chans
      BY <2>1 DEF LogsRight
    <3>2. pc[v] \in {"log", "write"} => Serves(at[v], obj[v])'
      BY <1>2, <1>9, <2>1, <2>3, <3>1 DEF LogsRight, Serves
    <3>3. pc[v] \in {"log", "write"} => obj[v] # Null
      BY <2>1 DEF LogsRight, Serves
    <3> QED BY <1>2, <1>5, <1>7, <1>8, <2>1, <2>3, <3>1, <3>2, <3>3 DEF LogsRight, Serves
  <2> QED BY <2>2, <2>3
<1>11. ASSUME NEW v \in Visitors PROVE VisitsRight(v)'
  <2>1. VisitsRight(v) /\ v \in Actors /\ v # w /\ at[v] \in 0 .. MaxChannel /\ upto[v] \in 0 .. MaxChannel
    BY <1>1, Places DEF LogInv
  <2>2. pc[v] \in {"enter", "flush"} => at[v] \in Chans /\ obj[v] # Null
    BY <2>1, LogAssumption DEF VisitsRight, Serves, Chans
  <2>3. pc[v] \in {"enter", "flush"} => Serves(at[v], obj[v])'
    BY <1>2, <1>9, <2>1, <2>2 DEF VisitsRight, Serves
  <2>4. ASSUME batch[v] # <<>> PROVE obj[v] # Null
    <3>1. CASE pc[v] \in {"handle", "put"}
      <4>1. v = App
        BY <3>1 DEF LogInv, TimerRight, Visitors, VisitPlaces
      <4> QED BY <3>1, <4>1, CloserIs DEF ClosePlaces
    <3> QED BY <2>1, <2>2, <2>4, <3>1 DEF VisitsRight
  <2>5. batch[v] # <<>> => Kept(obj[v])'
    BY <1>2, <1>5, <1>8, <2>1, <2>4 DEF VisitsRight, Kept
  <2> QED BY <1>2, <1>5, <1>8, <2>1, <2>2, <2>3, <2>5 DEF VisitsRight, Serves
<1>12. TimerRight'
  BY <1>1, <1>2, <1>5, Places DEF LogInv, TimerRight
<1>13. AppRight'
  <2>1. pc'[App] = pc[App] /\ obj'[App] = obj[App] /\ pc'[Timer] = pc[Timer]
    BY <1>1, <1>5, Places
  <2>2. pc'[App] # "assign"
    BY <1>1, <2>1 DEF LogInv, AppRight
  <2> QED BY <1>1, <1>2, <2>1, <2>2 DEF LogInv, AppRight, VisitPlaces, ClosePlaces
<1>14. Phases'
  BY <1>1, <1>2, <1>3, <1>5 DEF LogInv, Phases
<1>15. OneEach'
  <2>1. \A q \in Actors : Making(q)' => q = w \/ (Making(q) /\ obj'[q] = obj[q])
    BY <1>5 DEF Making
  <2>2. \A p, q \in Actors : Making(p)' /\ Making(q)' /\ obj'[p] = obj'[q] => p = q
    BY <1>5, <1>6, <2>1 DEF LogInv, OneEach
  <2>3. \A q \in Actors, d \in Chans : Making(q)' => channel'[d] # obj'[q]
    BY <1>2, <1>5, <1>6, <2>1 DEF LogInv, OneEach
  <2> QED BY <1>2, <2>2, <2>3 DEF LogInv, OneEach
<1>16. Covered'
  BY <1>2, <1>7 DEF LogInv, Covered
<1>17. WaitsWhere'
  <2>1. ASSUME NEW o \in Objects, buf'[o] # <<>>
        PROVE  Kept(o)' /\ \E c \in Chans : channel'[c] = o
    <3>1. Kept(o) /\ \E c \in Chans : channel[c] = o
      BY <1>2, <2>1 DEF LogInv, WaitsWhere
    <3>2. o # made'
      BY <1>6, <3>1
    <3> QED BY <1>2, <1>5, <3>1, <3>2 DEF Kept
  <2>2. \A o \in Objects : sync'[o] = "absent" => sync[o] = "absent"
    BY <1>2 DEF LogInv, Types
  <2> QED BY <1>2, <2>1, <2>2 DEF LogInv, WaitsWhere
<1>18. NothingWaits'
  BY <1>1, <1>2 DEF NothingWaits, Silent
<1> QED BY <1>4, <1>10, <1>11, <1>12, <1>13, <1>14, <1>15, <1>16, <1>17, <1>18 DEF LogInv

LEMMA AssignStep ==
  ASSUME LogInv, NEW w \in Writers, Assign(w)
  PROVE  LogInv'
<1>1. /\ pc[w] = "assign" /\ w \in Actors /\ w \notin Visitors /\ w # App /\ w # Timer
      /\ phase = "running" /\ mode = "runs" /\ PlainAt(at[w]) /\ handle[w] = "none"
      /\ at[w] \in Chans \ shut /\ at[w] \in Chans /\ pc[App] \notin VisitPlaces
      /\ obj[w] # Null /\ option[obj[w]] = {} /\ obj[w] \in 0 .. made /\ obj[w] \in Objects
  <2>1. pc[w] = "assign" /\ pc[w] # "idle"
    BY DEF Assign
  <2>2. pc[App] \notin VisitPlaces
    BY <2>1, WriterIs DEF LogInv, AppRight
  <2> QED BY <2>1, <2>2, WriterIs, Places DEF LogsRight
<1>2. /\ channel' = [channel EXCEPT ![at[w]] = obj[w]] /\ pc' = [pc EXCEPT ![w] = "get"]
      /\ UNCHANGED <<mode, phase, shut, current, made, option, sync, buf>>
      /\ UNCHANGED <<file, count, at, obj, upto, batch, handle>>
  BY <1>1 DEF Assign, Goto, objects
<1>3. Types'
  <2>1. channel' \in [Chans -> 0 .. made]
    BY <1>1, <1>2 DEF LogInv, Types
  <2>2. pc' \in [Actors -> WriterPlaces \cup VisitPlaces \cup ClosePlaces]
    BY <1>2 DEF LogInv, Types, WriterPlaces
  <2> QED BY <1>2, <2>1, <2>2 DEF LogInv, Types
<1>4. /\ pc'[w] = "get" /\ \A q \in Actors \ {w} : pc'[q] = pc[q]
      /\ channel'[at[w]] = obj[w]
      /\ \A c \in Chans \ {at[w]} : channel'[c] = channel[c]
  BY <1>1, <1>2 DEF LogInv, Types
<1>5. \A c \in Chans : PlainAt(c)' <=> PlainAt(c)
  BY <1>1, <1>2, <1>4 DEF PlainAt
<1>6. ASSUME NEW c \in Chans, NEW o, Serves(c, o) PROVE Serves(c, o)'
  <2>1. CASE c = at[w] /\ o = channel[c]
    BY <1>1, <1>2, <1>5, <1>6, <2>1 DEF Serves, PlainAt
  <2>2. CASE ~(c = at[w] /\ o = channel[c])
    BY <1>2, <1>4, <1>5, <1>6, <2>2 DEF Serves
  <2> QED BY <2>1, <2>2
<1>7. \A c \in Chans : channel[c] # Null => channel'[c] # Null
  BY <1>1, <1>4
<1>8. ASSUME NEW v \in Writers PROVE LogsRight(v)'
  <2>1. LogsRight(v) /\ v \in Actors
    BY Places DEF LogInv
  <2>2. CASE v = w
    BY <1>1, <1>2, <1>4, <2>2 DEF LogsRight, WriterPlaces
  <2>3. CASE v # w
    <3>1. pc[v] # "idle" => at[v] \in Chans
      BY <2>1 DEF LogsRight
    <3>2. pc[v] \in {"log", "write"} => Serves(at[v], obj[v])'
      BY <1>2, <1>6, <2>1, <2>3, <3>1 DEF LogsRight, Serves
    <3> QED BY <1>2, <1>4, <1>5, <1>7, <2>1, <2>3, <3>1, <3>2 DEF LogsRight
  <2> QED BY <2>2, <2>3
<1>9. ASSUME NEW v \in Visitors PROVE VisitsRight(v)'
  <2>1. VisitsRight(v) /\ v \in Actors /\ v # w /\ at[v] \in 0 .. MaxChannel /\ upto[v] \in 0 .. MaxChannel
    BY <1>1, Places DEF LogInv
  <2>2. pc[v] \in {"check", "enter", "flush"} => at[v] \in Chans
    BY <2>1, LogAssumption DEF VisitsRight, Chans
  <2>3. pc[v] \in {"enter", "flush"} => Serves(at[v], obj[v])'
    BY <1>2, <1>6, <2>1, <2>2 DEF VisitsRight, Serves
  <2>4. Kept(obj[v])' <=> Kept(obj[v])
    BY <1>2 DEF Kept
  <2>5. pc[v] = "check" => channel'[at[v]] # Null
    BY <1>7, <2>1, <2>2 DEF VisitsRight
  <2> QED BY <1>2, <1>4, <2>1, <2>3, <2>4, <2>5 DEF VisitsRight, Kept
<1>10. TimerRight'
  BY <1>1, <1>2, <1>4, Places DEF LogInv, TimerRight
<1>11. AppRight'
  <2>1. pc'[App] = pc[App] /\ pc'[Timer] = pc[Timer]
    BY <1>1, <1>4, Places
  <2>2. pc'[App] # "assign"
    BY <1>1, <2>1 DEF LogInv, AppRight
  <2>3. pc[App] \in ClosePlaces => channel'[at[App]] = channel[at[App]]
    BY <1>1, <1>4, CloserIs
  <2> QED BY <1>1, <1>2, <2>1, <2>2, <2>3 DEF LogInv, AppRight, VisitPlaces, ClosePlaces
<1>12. Phases'
  BY <1>1, <1>2 DEF LogInv, Phases
<1>13. OneEach'
  <2>1. \A q \in Actors : Making(q)' => q # w /\ Making(q)
    BY <1>4 DEF Making
  <2>2. Making(w) /\ OneEach
    BY <1>1 DEF Making, LogInv
  <2>3. \A c \in Chans : channel[c] # obj[w]
    BY <1>1, <2>2 DEF OneEach
  <2>4. ASSUME NEW c \in Chans, NEW d \in Chans, channel'[c] = channel'[d], channel'[c] # Null
        PROVE  c = d
    BY <1>4, <2>2, <2>3, <2>4 DEF OneEach
  <2>5. ASSUME NEW q \in Actors, Making(q)', NEW c \in Chans PROVE channel'[c] # obj'[q]
    <3>1. q # w /\ Making(q) /\ obj'[q] = obj[q]
      BY <1>2, <2>1, <2>5
    <3>2. obj[q] # obj[w] /\ channel[c] # obj[q]
      BY <1>1, <2>2, <3>1 DEF OneEach
    <3> QED BY <1>4, <3>1, <3>2
  <2>6. \A p, q \in Actors : Making(p)' /\ Making(q)' /\ obj'[p] = obj'[q] => p = q
    BY <1>2, <2>1, <2>2 DEF OneEach
  <2> QED BY <2>4, <2>5, <2>6 DEF OneEach
<1>14. Covered'
  <2> SUFFICES ASSUME NEW c \in Chans, channel'[c] # Null, ~PlainAt(c)'
               PROVE  1 <= current /\ c <= current
    BY <1>1, <1>2 DEF Covered
  <2>1. ~PlainAt(c)
    BY <1>5
  <2>2. c # at[w]
    BY <1>1, <2>1
  <2> QED BY <1>1, <1>4, <2>1, <2>2 DEF LogInv, Covered
<1>15. WaitsWhere'
  <2>1. ASSUME NEW o \in Objects, buf'[o] # <<>>
        PROVE  Kept(o)' /\ \E c \in Chans : channel'[c] = o
    <3>1. PICK c \in Chans : Kept(o) /\ channel[c] = o
      BY <1>2, <2>1 DEF LogInv, WaitsWhere
    <3>2. o # Null
      BY DEF Objects, Null
    <3>3. c # at[w]
      BY <1>1, <3>1, <3>2 DEF PlainAt, Kept
    <3> QED BY <1>2, <1>4, <3>1, <3>3 DEF Kept
  <2> QED BY <1>2, <2>1 DEF LogInv, WaitsWhere
<1>16. NothingWaits'
  BY <1>1, <1>2 DEF NothingWaits, Silent
<1> QED BY <1>3, <1>8, <1>9, <1>10, <1>11, <1>12, <1>13, <1>14, <1>15, <1>16 DEF LogInv

LEMMA CloseAllStep ==
  ASSUME Calm, LogInv, CloseAll
  PROVE  LogInv'
<1>1. /\ phase = "running" /\ pc[App] = "idle" /\ NobodyLogs /\ phase' = "closing"
      /\ mode = "self" => (\A o \in Objects : buf[o] = <<>>) /\ pc[Timer] = "idle"
      /\ mode' = (IF mode = "runs" THEN "stopped" ELSE mode)
      /\ UNCHANGED <<shut, current, channel, made, option, sync, buf>>
      /\ UNCHANGED <<file, count, pc, at, obj, upto, batch, handle>>
  BY DEF CloseAll, Calm, objects, local
<1>2. mode \in {"none", "self", "runs"} /\ (mode = "none" => made = 0 /\ pc[Timer] = "idle")
  BY <1>1 DEF LogInv, Types, Phases, TimerRight
<1>3. Types'
  BY <1>1 DEF LogInv, Types
<1>4. Phases'
  BY <1>1, <1>2 DEF LogInv, Phases, NobodyLogs
<1>5. TimerRight'
  BY <1>1, <1>2 DEF LogInv, TimerRight
<1>6. AppRight'
  BY <1>1 DEF LogInv, AppRight, VisitPlaces, ClosePlaces
<1>7. OneEach'
  BY <1>1 DEF LogInv, OneEach, Making
<1>8. Covered'
  BY <1>1 DEF LogInv, Covered, PlainAt
<1>9. \A o : Kept(o)' <=> Kept(o)
  BY <1>1 DEF Kept
<1>10. WaitsWhere'
  BY <1>1, <1>2 DEF LogInv, WaitsWhere, Kept
<1>11. NothingWaits'
  <2>1. CASE mode = "runs"
    BY <1>1, <2>1 DEF NothingWaits, Silent
  <2>2. CASE mode # "runs"
    <3>1. \A o \in Objects : buf[o] = <<>>
      <4>1. ASSUME mode = "none", NEW o \in Objects, buf[o] # <<>> PROVE FALSE
        <5>1. PICK c \in Chans : channel[c] = o
          BY <4>1 DEF LogInv, WaitsWhere
        <5>2. o \in 0 .. 0
          BY <1>2, <4>1, <5>1, Places
        <5> QED BY <5>2 DEF Objects
      <4> QED BY <1>1, <1>2, <2>2, <4>1
    <3>2. \A p \in Visitors : batch[p] = <<>>
      BY <1>1, <1>2, <2>2 DEF LogInv, VisitsRight, Visitors
    <3> QED BY <1>1, <3>1, <3>2 DEF NothingWaits
  <2> QED BY <2>1, <2>2
<1>12. \A w \in Writers : LogsRight(w)'
  BY <1>1, Places DEF LogInv, LogsRight, NobodyLogs
<1>13. ASSUME NEW p \in Visitors PROVE VisitsRight(p)'
  BY <1>1, <1>2 DEF LogInv, VisitsRight, Serves, PlainAt, Kept
<1> QED BY <1>3, <1>4, <1>5, <1>6, <1>7, <1>8, <1>10, <1>11, <1>12, <1>13 DEF LogInv

(* The last visit has seen every channel that may hold something.          *)
LEMMA AllSeen ==
  ASSUME LogInv, Closed
  PROVE  /\ \A o \in Objects : buf[o] = <<>>
         /\ \A p \in Visitors : batch[p] = <<>>
<1>1. phase = "closing"
  BY DEF Closed
<1>2. CASE mode # "stopped"
  BY <1>1, <1>2 DEF LogInv, NothingWaits, Silent
<1>3. CASE mode = "stopped"
  <2>1. pc[App] = "visit" /\ at[App] >= upto[App]
    BY <1>3 DEF Closed
  <2>2. /\ upto[App] = Whole /\ pc[Timer] = "idle"
        /\ \A c \in Chans : c < at[App] => Buffered(c) = <<>>
    BY <2>1 DEF LogInv, AppRight, VisitPlaces
  <2>3. ASSUME NEW o \in Objects, buf[o] # <<>> PROVE FALSE
    <3>1. PICK c \in Chans : channel[c] = o /\ Kept(o)
      BY <2>3 DEF LogInv, WaitsWhere
    <3>2. o # Null
      BY DEF Objects, Null
    <3>3. ~PlainAt(c)
      BY <1>3, <3>1, <3>2 DEF PlainAt, Kept
    <3>4. 1 <= current /\ c <= current
      BY <1>1, <3>1, <3>2, <3>3 DEF LogInv, Covered
    <3>5. c < Whole
      BY <3>4, LogAssumption DEF LogInv, Types, Whole, Size, Chans
    <3>6. c < at[App]
      <4>1. at[App] \in Nat /\ Whole \in Nat /\ c \in Nat
        BY WholeFits, Places, LogAssumption DEF Chans, Visitors, Actors
      <4> QED BY <2>1, <2>2, <3>5, <4>1
    <3> QED BY <2>2, <2>3, <3>1, <3>2, <3>6 DEF Buffered
  <2>4. \A p \in Visitors : batch[p] = <<>>
    BY <2>1, <2>2 DEF LogInv, VisitsRight, Visitors
  <2> QED BY <2>3, <2>4
<1> QED BY <1>2, <1>3

LEMMA ClosedStep ==
  ASSUME LogInv, Closed
  PROVE  LogInv'
<1>1. /\ phase = "closing" /\ phase' = "closed" /\ current' = 0
      /\ pc' = [pc EXCEPT ![App] = "idle"] /\ at' = [at EXCEPT ![App] = 0]
      /\ obj' = [obj EXCEPT ![App] = Null]
      /\ UNCHANGED <<mode, shut, channel, made, option, sync, buf>>
      /\ UNCHANGED <<file, count, upto, batch, handle>>
  BY DEF Closed, Idle, Goto, objects
<1>2. /\ NobodyLogs /\ mode # "runs" /\ App \in Actors /\ App \in Visitors /\ Timer # App
      /\ Timer \in Actors /\ ~Making(App)
  BY <1>1, Places DEF LogInv, Phases, AppRight, Making
<1>3. Types'
  <2>0. 0 \in 0 .. MaxChannel /\ Null \in 0 .. made
    BY LogAssumption DEF LogInv, Types, Null
  <2>1. at' \in [Actors -> 0 .. MaxChannel] /\ obj' \in [Actors -> 0 .. made]
    BY <1>1, <2>0 DEF LogInv, Types
  <2>2. pc' \in [Actors -> WriterPlaces \cup VisitPlaces \cup ClosePlaces]
    BY <1>1 DEF LogInv, Types, WriterPlaces
  <2> QED BY <1>1, <2>1, <2>2 DEF LogInv, Types
<1>4. /\ pc'[App] = "idle"
      /\ \A q \in Actors \ {App} : pc'[q] = pc[q] /\ at'[q] = at[q] /\ obj'[q] = obj[q]
  BY <1>1, <1>2 DEF LogInv, Types
<1>5. \A w \in Writers : w \in Actors \ {App} /\ pc'[w] = "idle" /\ handle'[w] = "none"
  BY <1>1, <1>2, <1>4, Places DEF LogInv, LogsRight, NobodyLogs
<1>6. Phases'
  BY <1>1, <1>2, <1>5 DEF LogInv, Phases, NobodyLogs
<1>7. TimerRight'
  BY <1>1, <1>2, <1>4 DEF LogInv, TimerRight
<1>8. handle[App] = "none"
  <2>1. pc[App] # "put"
    BY <1>1 DEF LogInv, AppRight, ClosePlaces
  <2> QED BY <2>1 DEF LogInv, AppRight
<1>9. AppRight'
  BY <1>1, <1>4, <1>8 DEF AppRight, VisitPlaces, ClosePlaces
<1>10. OneEach'
  <2>1. \A q \in Actors : Making(q)' => Making(q) /\ obj'[q] = obj[q]
    BY <1>4 DEF Making
  <2> QED BY <1>1, <2>1 DEF LogInv, OneEach
<1>11. Covered'
  BY <1>1 DEF Covered
<1>12. /\ \A o \in Objects : buf'[o] = <<>>
       /\ \A p \in Visitors : batch'[p] = <<>>
  BY <1>1, AllSeen
<1>13. WaitsWhere' /\ NothingWaits'
  BY <1>1, <1>12 DEF LogInv, WaitsWhere, NothingWaits
<1>14. \A w \in Writers : LogsRight(w)'
  BY <1>5 DEF LogsRight, WriterPlaces
<1>15. VisitsRight(App)'
  BY <1>2, <1>4, <1>12 DEF VisitsRight, VisitPlaces
<1>16. VisitsRight(Timer)'
  <2>1. /\ VisitsRight(Timer) /\ batch'[Timer] = <<>> /\ sync' = sync /\ channel' = channel
        /\ pc'[Timer] = pc[Timer] /\ at'[Timer] = at[Timer] /\ obj'[Timer] = obj[Timer]
        /\ upto'[Timer] = upto[Timer]
    BY <1>1, <1>2, <1>4, <1>12, Places DEF LogInv
  <2>2. pc[Timer] \in {"enter", "flush"} => Serves(at[Timer], obj[Timer])'
    BY <1>1, <2>1 DEF VisitsRight, Serves, PlainAt
  <2> QED BY <2>1, <2>2 DEF VisitsRight
<1> QED BY <1>3, <1>6, <1>7, <1>9, <1>10, <1>11, <1>13, <1>14, <1>15, <1>16 DEF LogInv, Visitors

LEMMA CloseStep ==
  ASSUME Calm, LogInv, NEW c \in Chans, BasicCloseLogEvent(c)
  PROVE  LogInv'
<1>1. /\ phase = "running" /\ pc[App] = "idle" /\ channel[c] # Null /\ pc[Timer] = "idle"
      /\ \A w \in Writers : pc[w] # "idle" => at[w] # c
      /\ shut' = shut \cup {c} /\ at' = [at EXCEPT ![App] = c]
      /\ obj' = [obj EXCEPT ![App] = channel[c]] /\ pc' = [pc EXCEPT ![App] = "drain"]
      /\ UNCHANGED <<mode, phase, current, channel, made, option, sync, buf>>
      /\ UNCHANGED <<file, count, upto, batch, handle>>
  BY DEF BasicCloseLogEvent, Calm, Goto, objects
<1>2. /\ App \in Actors /\ App \in Visitors /\ Timer # App /\ Timer \in Actors
      /\ channel[c] \in 0 .. made /\ batch[App] = <<>> /\ handle[App] = "none"
  BY <1>1, Places DEF LogInv, VisitsRight, AppRight
<1>3. Types'
  <2>1. c \in 0 .. MaxChannel
    BY LogAssumption DEF Chans
  <2>2. at' \in [Actors -> 0 .. MaxChannel] /\ obj' \in [Actors -> 0 .. made]
    BY <1>1, <1>2, <2>1 DEF LogInv, Types
  <2>3. pc' \in [Actors -> WriterPlaces \cup VisitPlaces \cup ClosePlaces]
    BY <1>1 DEF LogInv, Types, ClosePlaces
  <2> QED BY <1>1, <2>2, <2>3 DEF LogInv, Types
<1>4. /\ pc'[App] = "drain" /\ at'[App] = c /\ obj'[App] = channel[c]
      /\ \A q \in Actors \ {App} : pc'[q] = pc[q] /\ at'[q] = at[q] /\ obj'[q] = obj[q]
  BY <1>1, <1>2 DEF LogInv, Types
<1>5. \A w \in Writers : w \in Actors \ {App}
  BY Places
<1>6. Phases'
  BY <1>1, <1>4, <1>5 DEF LogInv, Phases
<1>7. TimerRight'
  BY <1>1, <1>2, <1>4 DEF LogInv, TimerRight
<1>8. AppRight'
  BY <1>1, <1>2, <1>4 DEF AppRight, VisitPlaces, ClosePlaces
<1>9. OneEach'
  <2>1. \A q \in Actors : Making(q)' => Making(q) /\ obj'[q] = obj[q]
    BY <1>4 DEF Making
  <2> QED BY <1>1, <2>1 DEF LogInv, OneEach
<1>10. Covered'
  BY <1>1 DEF LogInv, Covered, PlainAt
<1>11. WaitsWhere' /\ NothingWaits'
  BY <1>1 DEF LogInv, WaitsWhere, NothingWaits, Kept, Silent
<1>12. ASSUME NEW w \in Writers PROVE LogsRight(w)'
  <2>1. LogsRight(w) /\ pc'[w] = pc[w] /\ at'[w] = at[w] /\ obj'[w] = obj[w]
    BY <1>4, <1>5 DEF LogInv
  <2>2. pc[w] # "idle" => at[w] # c
    BY <1>1
  <2> QED BY <1>1, <2>1, <2>2 DEF LogsRight, Serves, PlainAt
<1>13. VisitsRight(App)'
  BY <1>1, <1>2, <1>4 DEF VisitsRight, VisitPlaces
<1>14. VisitsRight(Timer)'
  BY <1>1, <1>2, <1>4, Places DEF LogInv, VisitsRight, VisitPlaces
<1> QED BY <1>3, <1>6, <1>7, <1>8, <1>9, <1>10, <1>11, <1>12, <1>13, <1>14 DEF LogInv, Visitors

LEMMA DropStep ==
  ASSUME LogInv, Drop
  PROVE  LogInv'
<1>1. /\ pc[App] = "handle" /\ batch[App] = <<>>
      /\ channel' = [channel EXCEPT ![at[App]] = Null]
      /\ pc' = [pc EXCEPT ![App] = "idle"] /\ at' = [at EXCEPT ![App] = 0]
      /\ obj' = [obj EXCEPT ![App] = Null]
      /\ UNCHANGED <<mode, phase, shut, current, made, option, sync, buf>>
      /\ UNCHANGED <<file, count, upto, batch, handle>>
  BY DEF Drop, Idle, Goto, objects
<1>2. /\ App \in Actors /\ App \in Visitors /\ Timer # App /\ Timer \in Actors
      /\ phase = "running" /\ pc[Timer] = "idle" /\ at[App] \in shut /\ at[App] \in Chans
      /\ obj[App] = channel[at[App]] /\ buf[obj[App]] = <<>> /\ handle[App] = "none"
  BY <1>1, CloserIs, Places DEF ClosePlaces
<1>3. Types'
  <2>0. 0 \in 0 .. MaxChannel /\ Null \in 0 .. made
    BY LogAssumption DEF LogInv, Types, Null
  <2>1. at' \in [Actors -> 0 .. MaxChannel] /\ obj' \in [Actors -> 0 .. made]
    BY <1>1, <2>0 DEF LogInv, Types
  <2>2. pc' \in [Actors -> WriterPlaces \cup VisitPlaces \cup ClosePlaces]
    BY <1>1 DEF LogInv, Types, WriterPlaces
  <2>3. channel' \in [Chans -> 0 .. made]
    BY <1>1, <2>0 DEF LogInv, Types
  <2> QED BY <1>1, <2>1, <2>2, <2>3 DEF LogInv, Types
<1>4. /\ pc'[App] = "idle" /\ channel'[at[App]] = Null
      /\ \A q \in Actors \ {App} : pc'[q] = pc[q] /\ at'[q] = at[q] /\ obj'[q] = obj[q]
      /\ \A c \in Chans \ {at[App]} : channel'[c] = channel[c]
  BY <1>1, <1>2 DEF LogInv, Types
<1>5. \A w \in Writers : w \in Actors \ {App}
  BY Places
<1>6. Phases'
  BY <1>1, <1>2, <1>4, <1>5 DEF LogInv, Phases
<1>7. TimerRight'
  BY <1>1, <1>2, <1>4 DEF LogInv, TimerRight
<1>8. AppRight'
  BY <1>1, <1>2, <1>4 DEF AppRight, VisitPlaces, ClosePlaces
<1>9. \A c \in Chans : channel'[c] = channel[c] \/ channel'[c] = Null
  BY <1>4
<1>10. OneEach'
  <2>1. \A q \in Actors : Making(q)' => Making(q) /\ obj'[q] = obj[q] /\ obj[q] # Null
    <3>1. \A q \in Actors : Making(q)' => Making(q) /\ obj'[q] = obj[q] /\ q \in Writers
      BY <1>2, <1>4 DEF Making, Actors, Visitors
    <3> QED BY <3>1 DEF LogInv, LogsRight, Making
  <2> QED BY <1>9, <2>1 DEF LogInv, OneEach
<1>11. Covered'
  BY <1>1, <1>9 DEF LogInv, Covered, PlainAt
<1>12. WaitsWhere' /\ NothingWaits'
  <2>1. ASSUME NEW o \in Objects, buf'[o] # <<>>
        PROVE  Kept(o)' /\ \E c \in Chans : channel'[c] = o
    <3>1. PICK c \in Chans : Kept(o) /\ channel[c] = o
      BY <1>1, <2>1 DEF LogInv, WaitsWhere
    <3>2. c # at[App]
      BY <1>1, <1>2, <2>1, <3>1
    <3> QED BY <1>1, <1>4, <3>1, <3>2 DEF Kept
  <2>2. WaitsWhere'
    BY <1>1, <2>1 DEF LogInv, WaitsWhere
  <2> QED BY <1>1, <1>2, <2>2 DEF NothingWaits, Silent
<1>13. ASSUME NEW w \in Writers PROVE LogsRight(w)'
  <2>1. LogsRight(w) /\ pc'[w] = pc[w] /\ at'[w] = at[w] /\ obj'[w] = obj[w]
    BY <1>4, <1>5 DEF LogInv
  <2>2. pc[w] # "idle" => channel'[at[w]] = channel[at[w]]
    BY <1>2, <1>4, <2>1 DEF LogsRight
  <2> QED BY <1>1, <2>1, <2>2 DEF LogsRight, Serves, PlainAt
<1>14. VisitsRight(App)'
  BY <1>1, <1>2, <1>4 DEF VisitsRight, VisitPlaces
<1>15. VisitsRight(Timer)'
  BY <1>1, <1>2, <1>4, Places DEF LogInv, VisitsRight, VisitPlaces
<1> QED BY <1>3, <1>6, <1>7, <1>8, <1>10, <1>11, <1>12, <1>13, <1>14, <1>15 DEF LogInv, Visitors
-----------------------------------------------------------------------------
LEMMA LoggingSteps ==
  ASSUME LogInv, NEW w \in Writers, Logging(w)
  PROVE  LogInv'
BY GetStep, MakeStep, AssignStep, LogLaterStep, LogNowStep, WriteNowStep DEF Logging

LEMMA VisitingSteps ==
  ASSUME LogInv, NEW p \in Visitors, Visiting(p)
  PROVE  LogInv'
BY VisitStep, CheckStep, EnterStep, FlushStep, LeaveStep DEF Visiting

LEMMA LogStep ==
  ASSUME Calm, LogInv, [Next]_vars
  PROVE  LogInv'
<1>1. CASE SettingUpSteps
  <2>1. ASSUME NEW c \in {0, 1}, ChangeLogChannel(c) PROVE LogInv'
    <3>1. c \in Chans
      BY LogAssumption DEF Chans
    <3> QED BY <2>1, <3>1, ChangeStep
  <2> QED BY <1>1, <2>1, CallInitStep, NewChannelSteps, LogIsFullStep, AssignAppStep, ReadyStep
          DEF SettingUpSteps
<1>2. CASE ClosingSteps
  BY <1>2, StopStep, ClosedStep, VisitingSteps, DrainStep, TakeHandleStep, PutStep, DropStep,
     Places DEF ClosingSteps
<1>3. CASE CloseAll
  BY <1>3, CloseAllStep
<1>4. ASSUME NEW c \in Chans, BasicCloseLogEvent(c) PROVE LogInv'
  BY <1>4, CloseStep
<1>5. ASSUME NEW w \in Writers, Logging(w) \/ \E c \in Chans : BasicLogEvent(w, c) PROVE LogInv'
  BY <1>5, LoggingSteps, BeginStep
<1>6. CASE OnTimerBasicLog \/ Visiting(Timer) \/ Asleep
  BY <1>6, OnTimerStep, VisitingSteps, AsleepStep, Places
<1>7. CASE UNCHANGED vars
  <2>1. /\ UNCHANGED <<mode, phase, shut, current, channel, made, option, sync, buf>>
        /\ UNCHANGED <<file, count, pc, at, obj, upto, batch, handle>>
    BY <1>7 DEF vars, globals, objects, local
  <2>2. Types' /\ Phases' /\ TimerRight'
    BY <2>1 DEF LogInv, Types, Phases, NobodyLogs, TimerRight
  <2>3. AppRight'
    BY <2>1 DEF LogInv, AppRight, Buffered, Whole, Size
  <2>4. OneEach' /\ Covered' /\ WaitsWhere' /\ NothingWaits'
    BY <2>1 DEF LogInv, OneEach, Covered, WaitsWhere, NothingWaits, Making, PlainAt, Kept, Silent
  <2>5. \A w \in Writers : LogsRight(w)'
    BY <2>1 DEF LogInv, LogsRight, Serves, PlainAt
  <2>6. \A p \in Visitors : VisitsRight(p)'
    BY <2>1 DEF LogInv, VisitsRight, Serves, PlainAt, Kept
  <2> QED BY <2>2, <2>3, <2>4, <2>5, <2>6 DEF LogInv
<1> QED BY <1>1, <1>2, <1>3, <1>4, <1>5, <1>6, <1>7 DEF Next

LEMMA LogInductive == ASSUME Calm PROVE SafeSpec => []LogInv
<1>1. LogInv /\ [Next]_vars => LogInv'
  BY LogStep
<1> QED BY <1>1, LogInitInv, PTL DEF SafeSpec
-----------------------------------------------------------------------------
(* The variables keep their types; the objects a channel or a thread has   *)
(* are objects that were made.                                             *)
THEOREM LogTypeTheorem == ASSUME Calm PROVE SafeSpec => []TypeOK
<1>1. LogInv => TypeOK
  <2> SUFFICES ASSUME LogInv PROVE TypeOK
    OBVIOUS
  <2>1. channel \in [Chans -> Objects \cup {Null}]
    BY Places DEF LogInv, Types
  <2>2. obj \in [Actors -> Objects \cup {Null}]
    BY Places DEF LogInv, Types
  <2> QED BY <2>1, <2>2 DEF LogInv, Types, TypeOK
<1> QED BY <1>1, LogInductive, PTL

(* Nobody writes to a file that was closed after he took its handle, nor   *)
(* visits a channel that was closed after he tested its pointer, as long   *)
(* as channels are closed between the visits (407-447, 728-730).           *)
THEOREM NoStaleUseTheorem == ASSUME Calm PROVE SafeSpec => []NoStaleUse
<1>1. LogInv => NoStaleUse
  BY DEF LogInv, Types, NoStaleUse, WriterPlaces, VisitPlaces, ClosePlaces
<1> QED BY <1>1, LogInductive, PTL

(* After BasicCloseLogEvent(-1) nothing waits (207-217).                   *)
THEOREM ClosedWrittenTheorem == ASSUME Calm PROVE SafeSpec => []ClosedIsWritten
<1>1. LogInv => ClosedIsWritten
  <2> SUFFICES ASSUME LogInv, phase = "closed", NEW c \in Chans PROVE Waiting[c] = <<>>
    BY DEF ClosedIsWritten
  <2>1. /\ \A o \in Objects : buf[o] = <<>>
        /\ \A p \in Visitors : batch[p] = <<>>
    BY DEF LogInv, NothingWaits, Silent
  <2>2. Taken(c) = <<>>
    BY <2>1 DEF Taken
  <2>3. Buffered(c) = <<>>
    BY <2>1, Places DEF Buffered
  <2>4. <<>> \o <<>> = <<>>
    BY EmptySeq, ConcatEmptySeq
  <2> QED BY <2>2, <2>3, <2>4 DEF Waiting
<1> QED BY <1>1, LogInductive, PTL
-----------------------------------------------------------------------------
(* The journal: what waits of a channel is in the hands of at most one     *)
(* visitor, and in the object the channel has.                             *)
TakenOf(b, a, c) ==
  IF \E p \in Visitors : b[p] # <<>> /\ a[p] = c
  THEN b[CHOOSE p \in Visitors : b[p] # <<>> /\ a[p] = c]
  ELSE <<>>

OneTakes(b) == \A p, q \in Visitors : b[p] # <<>> /\ b[q] # <<>> => p = q

LEMMA TakenIs ==
  ASSUME NEW b, NEW a, NEW c, OneTakes(b)
  PROVE  /\ \A p \in Visitors : b[p] # <<>> /\ a[p] = c => TakenOf(b, a, c) = b[p]
         /\ (\A p \in Visitors : b[p] # <<>> => a[p] # c) => TakenOf(b, a, c) = <<>>
<1>1. ASSUME NEW p \in Visitors, b[p] # <<>>, a[p] = c PROVE TakenOf(b, a, c) = b[p]
  <2> DEFINE q == CHOOSE q \in Visitors : b[q] # <<>> /\ a[q] = c
  <2>1. q \in Visitors /\ b[q] # <<>> /\ a[q] = c
    BY <1>1
  <2>2. q = p
    BY <1>1, <2>1 DEF OneTakes
  <2>3. TakenOf(b, a, c) = b[q]
    BY <1>1 DEF TakenOf
  <2> QED BY <2>2, <2>3
<1>2. (\A p \in Visitors : b[p] # <<>> => a[p] # c) => TakenOf(b, a, c) = <<>>
  BY DEF TakenOf
<1> QED BY <1>1, <1>2

LEMMA TakenNow ==
  ASSUME OneTakes(batch), NEW c
  PROVE  /\ \A p \in Visitors : batch[p] # <<>> /\ at[p] = c => Taken(c) = batch[p]
         /\ (\A p \in Visitors : batch[p] # <<>> => at[p] # c) => Taken(c) = <<>>
<1>1. Taken(c) = TakenOf(batch, at, c)
  BY DEF Taken, TakenOf
<1> QED BY <1>1, TakenIs

LEMMA TakenNext ==
  ASSUME OneTakes(batch'), NEW c
  PROVE  /\ \A p \in Visitors : batch'[p] # <<>> /\ at'[p] = c => Taken(c)' = batch'[p]
         /\ (\A p \in Visitors : batch'[p] # <<>> => at'[p] # c) => Taken(c)' = <<>>
<1>1. Taken(c)' = TakenOf(batch', at', c)
  BY DEF Taken, TakenOf
<1> QED BY <1>1, TakenIs

LEMMA TakenSame ==
  ASSUME NEW b, NEW a, NEW d, NEW c, OneTakes(b),
         \A p \in Visitors : b[p] # <<>> => a[p] = d[p]
  PROVE  TakenOf(b, a, c) = TakenOf(b, d, c)
<1>1. CASE \E p \in Visitors : b[p] # <<>> /\ a[p] = c
  <2>1. PICK p \in Visitors : b[p] # <<>> /\ a[p] = c
    BY <1>1
  <2>2. d[p] = c
    BY <2>1
  <2> QED BY <2>1, <2>2, TakenIs
<1>2. CASE \A p \in Visitors : b[p] # <<>> => a[p] # c
  <2>1. \A p \in Visitors : b[p] # <<>> => d[p] # c
    BY <1>2
  <2> QED BY <1>2, <2>1, TakenIs
<1> QED BY <1>1, <1>2

LEMMA OneTaker == LogInv => OneTakes(batch)
BY DEF LogInv, AppRight, VisitsRight, Visitors, OneTakes

LEMMA OneTakerNext == LogInv' => OneTakes(batch')
BY DEF LogInv, AppRight, VisitsRight, Visitors, OneTakes

(* Whoever has taken something took it from the object of the channel.     *)
LEMMA TakerIs ==
  ASSUME LogInv, NEW p \in Visitors, batch[p] # <<>>
  PROVE  /\ pc[p] \in {"flush", "handle", "put"} /\ batch[p] \in Seq(Records)
         /\ at[p] \in Chans /\ obj[p] = channel[at[p]] /\ Kept(obj[p])
         /\ obj[p] \in Objects
<1>1. pc[p] \in {"flush", "handle", "put"} /\ batch[p] \in Seq(Records)
  BY DEF LogInv, Types, VisitsRight
<1>2. CASE pc[p] = "flush"
  BY <1>1, <1>2, FlushDoes
<1>3. CASE pc[p] \in {"handle", "put"}
  <2>1. p = App /\ pc[App] \in ClosePlaces
    BY <1>3 DEF LogInv, TimerRight, Visitors, VisitPlaces, ClosePlaces
  <2> QED BY <1>1, <2>1, CloserIs
<1> QED BY <1>1, <1>2, <1>3

LEMMA WaitingTypes ==
  ASSUME LogInv, NEW c \in Chans
  PROVE  Taken(c) \in Seq(Records) /\ Buffered(c) \in Seq(Records)
<1>1. CASE \E p \in Visitors : batch[p] # <<>> /\ at[p] = c
  <2>1. PICK p \in Visitors : batch[p] # <<>> /\ at[p] = c
    BY <1>1
  <2>2. Taken(c) = batch[p]
    BY <2>1, OneTaker, TakenNow
  <2>3. batch[p] \in Seq(Records)
    BY <2>1, TakerIs
  <2>4. Buffered(c) \in Seq(Records)
    BY Places, EmptySeq DEF Buffered, LogInv, Types
  <2> QED BY <2>2, <2>3, <2>4
<1>2. CASE \A p \in Visitors : batch[p] # <<>> => at[p] # c
  <2>1. Taken(c) = <<>>
    BY <1>2, OneTaker, TakenNow
  <2> QED BY <2>1, Places, EmptySeq DEF Buffered, LogInv, Types
<1> QED BY <1>1, <1>2

(* The steps that leave what waits, and where it waits.                    *)
Stutters == UNCHANGED <<count, Waiting, file>>

LEMMA ChannelMoves ==
  ASSUME LogInv, UNCHANGED <<batch, buf, file, count>>,
         \A p \in Visitors : batch[p] # <<>> => at'[p] = at[p],
         \A c \in Chans : Buffered(c)' = Buffered(c)
  PROVE  Stutters
<1>1. \A c \in Chans : Taken(c)' = Taken(c)
  <2>1. \A c : TakenOf(batch, at', c) = TakenOf(batch, at, c)
    BY OneTaker, TakenSame
  <2>2. \A c : TakenOf(batch', at', c) = TakenOf(batch, at, c)
    BY <2>1
  <2> QED BY <2>2 DEF Taken, TakenOf
<1> QED BY <1>1 DEF Stutters, Waiting

LEMMA StaysPut ==
  ASSUME LogInv, UNCHANGED <<batch, buf, channel, file, count>>,
         \A p \in Visitors : batch[p] # <<>> => at'[p] = at[p]
  PROVE  Stutters
BY ChannelMoves DEF Buffered

LEMMA SettingUpStutters ==
  ASSUME LogInv, SettingUpSteps
  PROVE  Stutters
<1>1. CASE Assign(App)
  <2>1. phase = "setup" /\ pc[App] = "assign"
    BY <1>1 DEF Assign, LogInv, AppRight
  <2>2. /\ \A o \in Objects : buf[o] = <<>>
        /\ \A p \in Visitors : batch[p] = <<>>
    BY <2>1 DEF LogInv, NothingWaits, Silent
  <2>3. /\ UNCHANGED <<batch, buf, file, count>>
        /\ channel' = [channel EXCEPT ![at[App]] = obj[App]]
    BY <1>1 DEF Assign, objects
  <2>4. \A c \in Chans : Buffered(c) = <<>> /\ Buffered(c)' = <<>>
    <3>1. \A c \in Chans : channel'[c] = Null \/ channel'[c] \in Objects
      <4>1. obj[App] = Null \/ obj[App] \in Objects
        BY Places
      <4>2. \A c \in Chans : channel'[c] \in {channel[c], obj[App]}
        BY <2>3 DEF LogInv, Types
      <4> QED BY <4>1, <4>2, Places
    <3> QED BY <2>2, <2>3, <3>1, Places DEF Buffered
  <2> QED BY <2>2, <2>3, <2>4, ChannelMoves
<1>2. CASE CallInitBasicLog \/ LogIsFull \/ Ready \/ \E c \in {0, 1} : ChangeLogChannel(c)
  <2>1. UNCHANGED <<batch, buf, channel, file, count, at>>
    BY <1>2 DEF CallInitBasicLog, LogIsFull, Ready, ChangeLogChannel, objects, local
  <2> QED BY <2>1, StaysPut
<1>3. CASE BasicSetLogEventMode \/ \E c \in {0, 1} : BasicSetDefaultLogEventMode(c)
  <2>1. UNCHANGED <<batch, buf, channel, file, count>>
    BY <1>3 DEF BasicSetLogEventMode, BasicSetDefaultLogEventMode, NewChannel, Create
  <2>2. phase = "setup"
    BY <1>3 DEF BasicSetLogEventMode, BasicSetDefaultLogEventMode, SettingUp
  <2>3. \A p \in Visitors : batch[p] = <<>>
    BY <2>2 DEF LogInv, NothingWaits, Silent
  <2> QED BY <2>1, <2>3, StaysPut
<1> QED BY <1>1, <1>2, <1>3 DEF SettingUpSteps

LEMMA VisitsStutter ==
  ASSUME LogInv, NEW p \in Visitors, Visit(p) \/ CheckChannel(p) \/ Leave(p)
  PROVE  Stutters
<1>1. p \in Actors /\ batch[p] = <<>>
  BY Places DEF LogInv, VisitsRight, Visit, CheckChannel, Leave, LeaveWith
<1>2. UNCHANGED <<batch, channel, file, count>>
  BY DEF Visit, CheckChannel, Leave, LeaveWith, globals, objects
<1>3. at' = at \/ at' = [at EXCEPT ![p] = at[p] + 1]
  BY DEF Visit, CheckChannel, Leave, LeaveWith
<1>4. \A q \in Visitors : batch[q] # <<>> => at'[q] = at[q]
  BY <1>1, <1>3, Places DEF LogInv, Types
<1>5. buf' = buf
  <2>1. CASE Leave(p)
    <3>1. obj[p] \in Objects /\ buf' = [buf EXCEPT ![obj[p]] = buf[obj[p]]]
      BY <2>1, FlushDoes DEF Leave, LeaveWith
    <3> QED BY <3>1 DEF LogInv, Types
  <2>2. CASE Visit(p) \/ CheckChannel(p)
    BY <2>2 DEF Visit, CheckChannel, objects
  <2> QED BY <2>1, <2>2
<1> QED BY <1>2, <1>4, <1>5, StaysPut

LEMMA ClosingStutters ==
  ASSUME Calm, LogInv, Stop \/ Closed \/ CloseAll \/ TakeHandle
                       \/ \E c \in Chans : BasicCloseLogEvent(c)
  PROVE  Stutters
<1>1. UNCHANGED <<batch, channel, buf, file, count>>
  BY DEF Stop, StopWith, Closed, CloseAll, TakeHandle, BasicCloseLogEvent, globals, objects, local
<1>2. \A p \in Visitors : batch[p] # <<>> => at'[p] = at[p]
  <2>1. CASE TakeHandle \/ CloseAll
    BY <2>1 DEF TakeHandle, CloseAll, local
  <2>2. CASE Closed
    BY <2>2, AllSeen
  <2>3. CASE Stop \/ \E c \in Chans : BasicCloseLogEvent(c)
    <3>1. pc[App] = "idle" /\ pc[Timer] = "idle"
      BY <2>3 DEF Stop, StopWith, BasicCloseLogEvent, Calm
    <3>2. \A p \in Visitors : batch[p] = <<>>
      BY <3>1 DEF LogInv, VisitsRight, Visitors
    <3> QED BY <3>2
  <2> QED BY <2>1, <2>2, <2>3
<1> QED BY <1>1, <1>2, StaysPut

LEMMA TimerStutters ==
  ASSUME LogInv, OnTimerBasicLog \/ Asleep
  PROVE  Stutters
<1>1. UNCHANGED <<batch, channel, buf, file, count>> /\ at' = [at EXCEPT ![Timer] = 0]
  BY DEF OnTimerBasicLog, OnTimerOf, VisitsBelow, Asleep, Idle, globals, objects
<1>2. batch[Timer] = <<>>
  BY Places DEF OnTimerBasicLog, OnTimerOf, Asleep, LogInv, VisitsRight
<1>3. \A p \in Visitors : batch[p] # <<>> => at'[p] = at[p]
  BY <1>1, <1>2, Places DEF LogInv, Types
<1> QED BY <1>1, <1>3, StaysPut

LEMMA LoggingStutters ==
  ASSUME LogInv, NEW w \in Writers,
         GetChannel(w) \/ MakeDefault(w) \/ Assign(w) \/ LogNow(w)
           \/ \E c \in Chans : BasicLogEvent(w, c)
  PROVE  Stutters
<1>1. w \in Actors /\ w # App /\ \A p \in Visitors : p \in Actors \ {w}
  BY Places
<1>2. UNCHANGED <<batch, buf, file, count>>
  BY DEF GetChannel, MakeDefault, Assign, LogNow, LogNowIf, BasicLogEvent, Create, objects
<1>3. \A p \in Visitors : at'[p] = at[p]
  <2>1. at' = at \/ \E c : at' = [at EXCEPT ![w] = c]
    BY <1>1 DEF GetChannel, MakeDefault, Assign, LogNow, LogNowIf, BasicLogEvent
  <2> QED BY <1>1, <2>1 DEF LogInv, Types
<1>4. CASE Assign(w)
  <2>1. /\ pc[w] = "assign" /\ pc[w] # "idle" /\ at[w] \in Chans /\ PlainAt(at[w]) /\ mode = "runs"
        /\ obj[w] # Null /\ obj[w] \in Objects
    BY <1>4, WriterIs DEF Assign, LogsRight
  <2>2. channel' = [channel EXCEPT ![at[w]] = obj[w]]
    BY <1>4 DEF Assign
  <2>3. buf[obj[w]] = <<>>
    BY <1>1, <2>1 DEF LogInv, WaitsWhere, OneEach, Making
  <2>4. channel[at[w]] # Null => buf[channel[at[w]]] = <<>>
    BY <2>1, Places DEF LogInv, WaitsWhere, PlainAt, Kept
  <2>5. /\ channel'[at[w]] = obj[w]
        /\ \A c \in Chans \ {at[w]} : channel'[c] = channel[c]
    BY <2>1, <2>2 DEF LogInv, Types
  <2>6. ASSUME NEW c \in Chans PROVE Buffered(c)' = Buffered(c)
    <3>1. CASE c = at[w]
      BY <1>2, <2>1, <2>3, <2>4, <2>5, <3>1 DEF Buffered
    <3>2. CASE c # at[w]
      BY <1>2, <2>5, <3>2 DEF Buffered
    <3> QED BY <3>1, <3>2
  <2> QED BY <1>2, <1>3, <2>6, ChannelMoves
<1>5. CASE channel' = channel
  BY <1>2, <1>3, <1>5, StaysPut
<1> QED BY <1>4, <1>5 DEF GetChannel, MakeDefault, LogNow, LogNowIf, BasicLogEvent, globals

LEMMA DropStutters ==
  ASSUME LogInv, Drop
  PROVE  Stutters
<1>1. /\ pc[App] = "handle" /\ batch[App] = <<>> /\ UNCHANGED <<batch, buf, file, count>>
      /\ channel' = [channel EXCEPT ![at[App]] = Null] /\ at' = [at EXCEPT ![App] = 0]
  BY DEF Drop, Idle, objects
<1>2. /\ at[App] \in Chans /\ obj[App] = channel[at[App]] /\ buf[obj[App]] = <<>>
  BY <1>1, CloserIs DEF ClosePlaces
<1>3. /\ channel'[at[App]] = Null
      /\ \A c \in Chans \ {at[App]} : channel'[c] = channel[c]
  BY <1>1, <1>2 DEF LogInv, Types
<1>4. ASSUME NEW c \in Chans PROVE Buffered(c)' = Buffered(c)
  <2>1. CASE c = at[App]
    BY <1>1, <1>2, <1>3, <2>1 DEF Buffered
  <2>2. CASE c # at[App]
    BY <1>1, <1>3, <2>2 DEF Buffered
  <2> QED BY <2>1, <2>2
<1>5. \A p \in Visitors : batch[p] # <<>> => at'[p] = at[p]
  BY <1>1, Places DEF LogInv, Types
<1> QED BY <1>1, <1>4, <1>5, ChannelMoves
-----------------------------------------------------------------------------
(* The steps that write, keep or take what waits.                          *)
LEMMA HeadTailOfConcat ==
  ASSUME NEW S, NEW s \in Seq(S), NEW t \in Seq(S), s # <<>>
  PROVE  s \o t # <<>> /\ Head(s \o t) = Head(s) /\ Tail(s \o t) = Tail(s) \o t
<1>1. Len(s) \in Nat \ {0} /\ Len(t) \in Nat
  BY EmptySeq, LenProperties
<1>2. /\ s \o t \in Seq(S) /\ Len(s \o t) = Len(s) + Len(t)
      /\ \A i \in 1 .. Len(s) + Len(t) :
           (s \o t)[i] = IF i <= Len(s) THEN s[i] ELSE t[i - Len(s)]
  BY ConcatProperties
<1>3. s \o t # <<>>
  BY <1>1, <1>2, EmptySeq
<1>4. Head(s \o t) = Head(s)
  <2>1. (s \o t)[1] = s[1]
    BY <1>1, <1>2
  <2> QED BY <1>2, <1>3, <2>1
<1>5. /\ Tail(s) \in Seq(S) /\ Len(Tail(s)) = Len(s) - 1
      /\ \A i \in 1 .. Len(s) - 1 : Tail(s)[i] = s[i + 1]
  BY HeadTailProperties
<1>6. /\ Tail(s \o t) \in Seq(S) /\ Len(Tail(s \o t)) = Len(s) + Len(t) - 1
      /\ \A i \in 1 .. Len(s) + Len(t) - 1 : Tail(s \o t)[i] = (s \o t)[i + 1]
  <2>1. /\ Tail(s \o t) \in Seq(S) /\ Len(Tail(s \o t)) = Len(s \o t) - 1
        /\ \A i \in 1 .. Len(Tail(s \o t)) : Tail(s \o t)[i] = (s \o t)[i + 1]
    BY <1>2, <1>3, HeadTailProperties
  <2> QED BY <1>2, <2>1
<1>7. /\ Tail(s) \o t \in Seq(S) /\ Len(Tail(s) \o t) = Len(s) - 1 + Len(t)
      /\ \A i \in 1 .. Len(s) - 1 + Len(t) :
           (Tail(s) \o t)[i] = IF i <= Len(s) - 1 THEN Tail(s)[i] ELSE t[i - (Len(s) - 1)]
  <2>1. /\ Tail(s) \o t \in Seq(S) /\ Len(Tail(s) \o t) = Len(Tail(s)) + Len(t)
        /\ \A i \in 1 .. Len(Tail(s)) + Len(t) :
             (Tail(s) \o t)[i] = IF i <= Len(Tail(s)) THEN Tail(s)[i] ELSE t[i - Len(Tail(s))]
    BY <1>5, ConcatProperties
  <2> QED BY <1>5, <2>1
<1>8. ASSUME NEW i \in 1 .. Len(s) + Len(t) - 1 PROVE Tail(s \o t)[i] = (Tail(s) \o t)[i]
  <2>1. Tail(s \o t)[i] = (s \o t)[i + 1]
    BY <1>6
  <2>2. (s \o t)[i + 1] = IF i + 1 <= Len(s) THEN s[i + 1] ELSE t[i + 1 - Len(s)]
    BY <1>1, <1>2
  <2>3. (Tail(s) \o t)[i] = IF i <= Len(s) - 1 THEN Tail(s)[i] ELSE t[i - (Len(s) - 1)]
    BY <1>1, <1>7
  <2>4. CASE i <= Len(s) - 1
    BY <1>1, <1>5, <2>1, <2>2, <2>3, <2>4
  <2>5. CASE i > Len(s) - 1
    <3>1. i + 1 - Len(s) = i - (Len(s) - 1)
      BY <1>1
    <3> QED BY <1>1, <2>1, <2>2, <2>3, <2>5, <3>1
  <2> QED BY <1>1, <2>4, <2>5
<1>9. Tail(s \o t) = Tail(s) \o t
  <2>1. Len(Tail(s \o t)) = Len(Tail(s) \o t)
    BY <1>1, <1>6, <1>7
  <2>2. \A i \in 1 .. Len(Tail(s \o t)) : Tail(s \o t)[i] = (Tail(s) \o t)[i]
    BY <1>6, <1>8
  <2> QED BY <1>6, <1>7, <2>1, <2>2, SeqEqual
<1> QED BY <1>3, <1>4, <1>9

LEMMA AppendToConcat ==
  ASSUME NEW S, NEW s \in Seq(S), NEW t \in Seq(S), NEW e \in S
  PROVE  s \o Append(t, e) = Append(s \o t, e)
<1>1. s \o t \in Seq(S) /\ <<e>> \in Seq(S)
  BY ConcatProperties
<1>2. s \o Append(t, e) = s \o (t \o <<e>>) /\ Append(s \o t, e) = (s \o t) \o <<e>>
  BY <1>1, AppendIsConcat
<1> QED BY <1>1, <1>2, ConcatAssociative

(* A visit or a close takes a buffer as it is.                             *)
LEMMA SwapStutters ==
  ASSUME LogInv, LogInv', NEW p \in Visitors, batch[p] = <<>>, obj[p] \in Objects,
         buf[obj[p]] # <<>> => at[p] \in Chans /\ obj[p] = channel[at[p]],
         UNCHANGED <<channel, file, count, at>>,
         batch' = [batch EXCEPT ![p] = buf[obj[p]]],
         buf' = [buf EXCEPT ![obj[p]] = <<>>]
  PROVE  Stutters
<1>1. CASE buf[obj[p]] = <<>>
  <2>1. batch' = batch /\ buf' = buf
    BY <1>1 DEF LogInv, Types
  <2> QED BY <2>1, StaysPut
<1>2. CASE buf[obj[p]] # <<>>
  <2>1. /\ at[p] \in Chans /\ obj[p] = channel[at[p]] /\ obj[p] # Null
        /\ buf[obj[p]] \in Seq(Records)
    BY <1>2 DEF LogInv, Types, Objects, Null
  <2>2. batch'[p] = buf[obj[p]] /\ \A q \in Visitors \ {p} : batch'[q] = batch[q]
    BY DEF LogInv, Types
  <2>3. \A q \in Visitors : batch[q] = <<>>
    BY <1>2, <2>2, OneTakerNext DEF OneTakes
  <2>4. /\ buf'[obj[p]] = <<>>
        /\ \A c \in Chans \ {at[p]} : channel[c] # Null => buf'[channel[c]] = buf[channel[c]]
    <3>1. \A c \in Chans \ {at[p]} : channel[c] # obj[p]
      BY <2>1 DEF LogInv, OneEach
    <3> QED BY <3>1, Places DEF LogInv, Types
  <2>5. \A c \in Chans : Taken(c) = <<>>
    BY <2>3 DEF Taken
  <2>6. ASSUME NEW c \in Chans \ {at[p]} PROVE Taken(c)' = <<>> /\ Buffered(c)' = Buffered(c)
    <3>1. \A q \in Visitors : batch'[q] # <<>> => at'[q] # c
      BY <2>2, <2>3
    <3>2. Taken(c)' = <<>>
      BY <3>1, OneTakerNext, TakenNext
    <3> QED BY <2>4, <3>2 DEF Buffered
  <2>7. Taken(at[p])' = buf[obj[p]] /\ Buffered(at[p])' = <<>> /\ Buffered(at[p]) = buf[obj[p]]
    <3>1. \A c : at'[p] = c => Taken(c)' = batch'[p]
      BY <1>2, <2>2, OneTakerNext, TakenNext
    <3>2. Taken(at[p])' = batch'[p]
      BY <3>1
    <3> QED BY <2>1, <2>2, <2>4, <3>2 DEF Buffered
  <2>8. \A c \in Chans : Taken(c)' \o Buffered(c)' = Taken(c) \o Buffered(c)
    <3>1. buf[obj[p]] \o <<>> = <<>> \o buf[obj[p]]
      BY <2>1, ConcatEmptySeq
    <3>2. ASSUME NEW c \in Chans PROVE Taken(c)' \o Buffered(c)' = Taken(c) \o Buffered(c)
      BY <2>1, <2>5, <2>6, <2>7, <3>1
    <3> QED BY <3>2
  <2> QED BY <2>8 DEF Stutters, Waiting
<1> QED BY <1>1, <1>2

LEMMA TakesStutter ==
  ASSUME LogInv, LogInv', Drain \/ \E p \in Visitors : Enter(p)
  PROVE  Stutters
<1>1. CASE Drain
  <2>1. /\ pc[App] \in ClosePlaces /\ UNCHANGED <<channel, file, count, at>>
        /\ batch' = [batch EXCEPT ![App] = buf[obj[App]]]
        /\ buf' = [buf EXCEPT ![obj[App]] = <<>>]
    BY <1>1 DEF Drain, Takes, ClosePlaces, globals
  <2>2. batch[App] = <<>>
    BY <1>1, Places DEF Drain, LogInv, VisitsRight
  <2>3. /\ App \in Visitors /\ obj[App] \in Objects /\ at[App] \in Chans
        /\ obj[App] = channel[at[App]]
    BY <2>1, CloserIs
  <2> QED BY <2>1, <2>2, <2>3, SwapStutters
<1>2. ASSUME NEW p \in Visitors, Enter(p) PROVE Stutters
  <2>1. /\ at[p] \in Chans /\ obj[p] \in Objects /\ Serves(at[p], obj[p]) /\ batch[p] = <<>>
        /\ UNCHANGED World /\ UNCHANGED <<file, count, at>>
    BY <1>2, EnterDoes
  <2>2. /\ batch' = [batch EXCEPT ![p] = buf[obj[p]]]
        /\ buf' = [buf EXCEPT ![obj[p]] = <<>>]
    BY <1>2, EnterDoes
  <2>3. buf[obj[p]] # <<>> => obj[p] = channel[at[p]]
    BY <2>1 DEF LogInv, WaitsWhere, Serves, Kept
  <2> QED BY <2>1, <2>2, <2>3, SwapStutters DEF World
<1> QED BY <1>1, <1>2

LEMMA WriteImplements ==
  ASSUME LogInv, LogInv', NEW p \in Visitors, batch[p] # <<>>,
         UNCHANGED <<buf, channel, count, at>>,
         file' = [file EXCEPT ![at[p]] = Append(file[at[p]], Head(batch[p]))],
         batch' = [batch EXCEPT ![p] = Tail(batch[p])]
  PROVE  \E c \in Chans : Journal!WriteOldest(c)
<1>1. at[p] \in Chans /\ batch[p] \in Seq(Records)
  BY TakerIs
<1>2. /\ batch'[p] = Tail(batch[p])
      /\ \A q \in Visitors \ {p} : batch[q] = <<>> /\ batch'[q] = <<>>
  BY OneTaker DEF OneTakes, LogInv, Types
<1>3. Taken(at[p]) = batch[p]
  BY OneTaker, TakenNow
<1>4. Taken(at[p])' = Tail(batch[p])
  <2>1. at' = at
    OBVIOUS
  <2>2. ASSUME NEW c, c = at[p] PROVE Taken(c)' = batch'[p]
    <3>1. CASE batch'[p] # <<>>
      BY <2>1, <2>2, <3>1, OneTakerNext, TakenNext
    <3>2. CASE batch'[p] = <<>>
      <4>1. \A q \in Visitors : batch'[q] # <<>> => at'[q] # c
        BY <1>2, <3>2
      <4> QED BY <3>2, <4>1, OneTakerNext, TakenNext
    <3> QED BY <3>1, <3>2
  <2>3. PICK c : c = at[p]
    OBVIOUS
  <2>4. Taken(c)' = Tail(batch[p])
    BY <1>2, <2>2, <2>3
  <2> QED BY <2>1, <2>3, <2>4
<1>5. ASSUME NEW c \in Chans \ {at[p]} PROVE Taken(c)' = Taken(c)
  <2>1. /\ \A q \in Visitors : batch'[q] # <<>> => at'[q] # c
        /\ \A q \in Visitors : batch[q] # <<>> => at[q] # c
    BY <1>2
  <2>2. Taken(c)' = <<>>
    BY <2>1, OneTakerNext, TakenNext
  <2>3. Taken(c) = <<>>
    BY <2>1, OneTaker, TakenNow
  <2> QED BY <2>2, <2>3
<1>6. \A c \in Chans : Buffered(c)' = Buffered(c)
  BY DEF Buffered
<1>7. /\ Waiting[at[p]] # <<>> /\ Head(Waiting[at[p]]) = Head(batch[p])
      /\ Tail(Waiting[at[p]]) = Tail(batch[p]) \o Buffered(at[p])
  BY <1>1, <1>3, WaitingTypes, HeadTailOfConcat DEF Waiting
<1>8. Waiting' = [Waiting EXCEPT ![at[p]] = Tail(Waiting[at[p]])]
  <2>1. Waiting'[at[p]] = Tail(Waiting[at[p]])
    BY <1>1, <1>4, <1>6, <1>7 DEF Waiting
  <2>2. \A c \in Chans \ {at[p]} : Waiting'[c] = Waiting[c]
    BY <1>5, <1>6 DEF Waiting
  <2> QED BY <1>1, <2>1, <2>2 DEF Waiting
<1>9. file' = [file EXCEPT ![at[p]] = Append(file[at[p]], Head(Waiting[at[p]]))]
  BY <1>7
<1>10. Journal!WriteOldest(at[p])
  BY <1>7, <1>8, <1>9 DEF Journal!WriteOldest
<1> QED BY <1>1, <1>10

LEMMA LogLaterImplements ==
  ASSUME LogInv, NEW w \in Writers, LogLater(w)
  PROVE  \E c \in Chans : Journal!Keep(w, c)
<1>1. /\ w \in Actors /\ at[w] \in Chans /\ obj[w] \in Objects /\ obj[w] = channel[at[w]]
      /\ UNCHANGED World /\ UNCHANGED <<file, batch>>
      /\ buf' = [buf EXCEPT ![obj[w]] = Append(buf[obj[w]], Record(w))]
      /\ count' = [count EXCEPT ![w] = count[w] + 1]
      /\ at' = [at EXCEPT ![w] = 0]
  BY LogLaterDoes
<1>2. \A p \in Visitors : at'[p] = at[p]
  BY <1>1, Places DEF LogInv, Types
<1>3. \A c \in Chans : Taken(c)' = Taken(c)
  <2>1. \A c : TakenOf(batch, at', c) = TakenOf(batch, at, c)
    BY <1>2, OneTaker, TakenSame
  <2>2. \A c : TakenOf(batch', at', c) = TakenOf(batch, at, c)
    BY <1>1, <2>1
  <2> QED BY <2>2 DEF Taken, TakenOf
<1>4. obj[w] # Null /\ channel' = channel
  BY <1>1 DEF Objects, Null, World
<1>5. PICK c \in Chans : c = at[w]
  BY <1>1
<1>6. Buffered(c) = buf[obj[w]] /\ Buffered(c)' = Append(buf[obj[w]], Record(w))
  <2>1. buf'[obj[w]] = Append(buf[obj[w]], Record(w))
    BY <1>1 DEF LogInv, Types
  <2> QED BY <1>1, <1>4, <1>5, <2>1 DEF Buffered
<1>7. ASSUME NEW d \in Chans \ {c} PROVE Buffered(d)' = Buffered(d)
  <2>1. channel[d] # obj[w]
    BY <1>1, <1>4, <1>5 DEF LogInv, OneEach
  <2> QED BY <1>1, <1>4, <2>1, Places DEF Buffered, LogInv, Types
<1>8. Waiting' = [Waiting EXCEPT ![c] = Append(Waiting[c], Record(w))]
  <2>1. Taken(c) \o Append(Buffered(c), Record(w)) = Append(Taken(c) \o Buffered(c), Record(w))
    BY WaitingTypes, RecordType, AppendToConcat
  <2>2. Waiting'[c] = Append(Waiting[c], Record(w))
    BY <1>3, <1>6, <2>1 DEF Waiting
  <2>3. \A d \in Chans \ {c} : Waiting'[d] = Waiting[d]
    BY <1>3, <1>7 DEF Waiting
  <2> QED BY <2>2, <2>3 DEF Waiting
<1>9. Journal!Keep(w, c)
  BY <1>1, <1>8 DEF Journal!Keep, Journal!Counted, Journal!Record, Record
<1> QED BY <1>9

(* Who writes at once overtakes nothing: his channel keeps nothing.        *)
LEMMA WriteNowImplements ==
  ASSUME LogInv, NEW w \in Writers, WriteNow(w)
  PROVE  \E c \in Chans : Journal!WriteNow(w, c)
<1>1. /\ w \in Actors /\ at[w] \in Chans /\ Serves(at[w], obj[w]) /\ ~Kept(obj[w])
      /\ mode = "runs" /\ UNCHANGED World /\ UNCHANGED <<buf, batch>>
      /\ file' = [file EXCEPT ![at[w]] = Append(file[at[w]], Record(w))]
      /\ count' = [count EXCEPT ![w] = count[w] + 1]
      /\ at' = [at EXCEPT ![w] = 0]
  BY WriteNowDoes
<1>2. channel[at[w]] # Null => ~Kept(channel[at[w]])
  BY <1>1 DEF Serves, PlainAt, Kept
<1>3. Buffered(at[w]) = <<>>
  BY <1>1, <1>2, Places DEF Buffered, LogInv, WaitsWhere
<1>4. \A p \in Visitors : batch[p] # <<>> => at[p] # at[w]
  <2>1. ASSUME NEW p \in Visitors, batch[p] # <<>>, at[p] = at[w] PROVE FALSE
    <3>1. obj[p] = channel[at[p]] /\ Kept(obj[p]) /\ obj[p] \in Objects
      BY <2>1, TakerIs
    <3> QED BY <1>2, <2>1, <3>1 DEF Objects, Null
  <2> QED BY <2>1
<1>5. Taken(at[w]) = <<>>
  BY <1>4, OneTaker, TakenNow
<1>6. Waiting[at[w]] = <<>>
  BY <1>1, <1>3, <1>5, EmptySeq, ConcatEmptySeq DEF Waiting
<1>7. Waiting' = Waiting
  <2>1. \A p \in Visitors : at'[p] = at[p]
    BY <1>1, Places DEF LogInv, Types
  <2>2. \A c : TakenOf(batch, at', c) = TakenOf(batch, at, c)
    BY <2>1, OneTaker, TakenSame
  <2>3. \A c : TakenOf(batch', at', c) = TakenOf(batch, at, c)
    BY <1>1, <2>2
  <2>4. \A c \in Chans : Taken(c)' = Taken(c)
    BY <2>3 DEF Taken, TakenOf
  <2>5. \A c \in Chans : Buffered(c)' = Buffered(c)
    BY <1>1 DEF Buffered, World
  <2> QED BY <2>4, <2>5 DEF Waiting
<1>8. Journal!WriteNow(w, at[w])
  BY <1>1, <1>6, <1>7 DEF Journal!WriteNow, Journal!Counted, Journal!Record, Record
<1> QED BY <1>1, <1>8

LEMMA JournalInit == Init => Journal!Init
<1> SUFFICES ASSUME Init PROVE Journal!Init
  OBVIOUS
<1>1. \A c \in Chans : Taken(c) = <<>> /\ Buffered(c) = <<>>
  BY DEF Init, Taken, Buffered
<1>2. <<>> \o <<>> = <<>>
  BY EmptySeq, ConcatEmptySeq
<1>3. Waiting = [c \in Chans |-> <<>>]
  BY <1>1, <1>2 DEF Waiting
<1> QED BY <1>3 DEF Init, Journal!Init

LEMMA JournalStep ==
  ASSUME Calm, LogInv, LogInv', [Next]_vars
  PROVE  [Journal!Next]_(Journal!journal)
<1>1. Stutters => [Journal!Next]_(Journal!journal)
  BY DEF Stutters, Journal!journal
<1>2. ASSUME NEW p \in Visitors, Visiting(p) PROVE [Journal!Next]_(Journal!journal)
  <2>1. CASE Flush(p)
    <3>1. \E c \in Chans : Journal!WriteOldest(c)
      BY <2>1, WriteImplements DEF Flush, globals, objects
    <3> QED BY <3>1 DEF Journal!Next
  <2> QED BY <1>1, <1>2, <2>1, VisitsStutter, TakesStutter DEF Visiting
<1>3. ASSUME NEW w \in Writers, Logging(w) \/ \E c \in Chans : BasicLogEvent(w, c)
      PROVE  [Journal!Next]_(Journal!journal)
  <2>1. CASE LogLater(w)
    BY <2>1, LogLaterImplements DEF Journal!Next
  <2>2. CASE WriteNow(w)
    BY <2>2, WriteNowImplements DEF Journal!Next
  <2> QED BY <1>1, <1>3, <2>1, <2>2, LoggingStutters DEF Logging
<1>4. CASE ClosingSteps
  <2>1. CASE Put
    <3>1. /\ batch[App] # <<>> /\ UNCHANGED World /\ UNCHANGED <<buf, count, at>>
          /\ file' = [file EXCEPT ![at[App]] = Append(file[at[App]], Head(batch[App]))]
          /\ batch' = [batch EXCEPT ![App] = Tail(batch[App])]
      BY <2>1, PutDoes
    <3>2. \E c \in Chans : Journal!WriteOldest(c)
      BY <3>1, Places, WriteImplements DEF World
    <3> QED BY <3>2 DEF Journal!Next
  <2> QED BY <1>1, <1>2, <1>4, <2>1, ClosingStutters, TakesStutter, DropStutters, Places
          DEF ClosingSteps
<1>5. CASE UNCHANGED vars
  <2>1. UNCHANGED <<batch, buf, channel, file, count, at>>
    BY <1>5 DEF vars, globals, objects, local
  <2> QED BY <1>1, <2>1, StaysPut
<1> QED BY <1>1, <1>2, <1>3, <1>4, <1>5, SettingUpStutters, ClosingStutters, TimerStutters, Places
        DEF Next

(* What is logged is in the file once and in the order of the calls, while *)
(* the buffer is swapped and written by a visit, by the close of the       *)
(* channel or by the stop of the thread (313-360, 554-574): the log        *)
(* implements LogJournal.                                                  *)
THEOREM JournalTheorem == ASSUME Calm PROVE SafeSpec => JournalKept
<1>1. Init => Journal!Init
  BY JournalInit
<1>2. LogInv /\ LogInv' /\ [Next]_vars => [Journal!Next]_(Journal!journal)
  BY JournalStep
<1> QED BY <1>1, <1>2, LogInductive, PTL DEF SafeSpec, JournalKept, Journal!Spec
=============================================================================
