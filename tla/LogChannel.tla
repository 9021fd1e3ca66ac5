------------------------------ MODULE LogChannel ------------------------------
(***************************************************************************)
(* The log: channels that any thread may write to, each an object with a   *)
(* buffer and a file.  A thread of the log, or in "self" mode the          *)
(* application, visits the channels, starts new files and writes what was  *)
(* buffered; the application sets channels up and closes them.             *)
(*                                                                         *)
(* A section under the lock of a channel is a step unless another thread   *)
(* can see its middle.  A rename of the file keeps its content: the file   *)
(* here is all the files of a channel, one after the other.                *)
(***************************************************************************)
EXTENDS Integers, Sequences, FiniteSets, Functions

CONSTANTS
  Writers,      (* threads that log                                        *)
  Timer,        (* CWriteLogThread, or the application's calls of OnTimer  *)
  App,          (* the application's thread that sets up and closes        *)
  MaxChannel,   (* MAX_LOG_CHANNEL                                         *)
  Options,      (* the modes channels are set up with                      *)
  MaxObject,    (* bound: channel objects ever made                        *)
  MaxLog,       (* bound: calls of all writers                             *)
  Early,        (* whether threads log before the log is set up, or it is  *)
                (* never set up                                            *)
  CloseAwake    (* whether a channel is closed during a visit              *)

ASSUME LogAssumption ==
  /\ Timer # App /\ Timer \notin Writers /\ App \notin Writers
  /\ {"free", "absent"} \cap (Writers \cup {Timer, App}) = {}
  /\ MaxChannel \in Nat \ {0, 1} /\ MaxObject \in Nat /\ MaxLog \in Nat
  /\ Options \subseteq SUBSET {"buffer", "open"}
  /\ Early \in BOOLEAN /\ CloseAwake \in BOOLEAN

Chans == 0 .. MaxChannel - 1
Visitors == {Timer, App}
Actors == Writers \cup Visitors
Objects == 1 .. MaxObject
Null == 0       (* no object                                               *)

VARIABLES
  mode,         (* m_bInitLogFunc, m_bInitLock and g_LogThread: "none",    *)
                (* "self", the thread "runs", it "stopped"                 *)
  phase,        (* of the application: "setup", "running", "closing",      *)
                (* "closed"                                                *)
  shut,         (* the channels the application has closed                 *)
  current,      (* g_nCurrentChannel                                       *)
  channel,      (* g_pLogChannel                                           *)
  made,         (* the objects made so far are 1 .. made                   *)
  option,       (* per object: LOG_BY_BUFFER, LOG_BY_OPEN                  *)
  sync,         (* per object m_pSynLogFile: "absent", "free" or its owner *)
  buf,          (* per object m_vLogData                                   *)
  file,         (* per channel: what its files hold                        *)
  count,        (* per writer: its calls so far                            *)
  pc, at, obj,  (* per actor: its next step, channel and object            *)
  upto,         (* per visitor: nSize                                      *)
  batch,        (* per visitor: tmpVt of WriteLogBuffer                    *)
  handle        (* per actor: the FILE it is about to write to             *)

globals == <<mode, phase, shut, current, channel>>
objects == <<made, option, sync, buf>>
local == <<pc, at, obj, upto, batch, handle>>
vars == <<globals, objects, file, count, local>>

Init ==
  /\ mode = "none" /\ phase = "setup" /\ shut = {} /\ current = 0
  /\ channel = [c \in Chans |-> Null]
  /\ made = 0
  /\ option = [o \in Objects |-> {}]
  /\ sync = [o \in Objects |-> "free"]
  /\ buf = [o \in Objects |-> <<>>]
  /\ file = [c \in Chans |-> <<>>]
  /\ count = [w \in Writers |-> 0]
  /\ pc = [p \in Actors |-> "idle"]
  /\ at = [p \in Actors |-> 0]
  /\ obj = [p \in Actors |-> Null]
  /\ upto = [p \in Visitors |-> 0]
  /\ batch = [p \in Visitors |-> <<>>]
  /\ handle = [p \in Actors |-> "none"]

Goto(p, place) == pc' = [pc EXCEPT ![p] = place]
Idle(p) ==
  /\ Goto(p, "idle")
  /\ at' = [at EXCEPT ![p] = 0]
  /\ obj' = [obj EXCEPT ![p] = Null]
-----------------------------------------------------------------------------
(* The lock of a channel.  In self mode new channels have none.            *)
Free(o) == sync[o] \in {"free", "absent"}
Locked(o, p) == sync' = [sync EXCEPT ![o] = IF @ = "absent" THEN @ ELSE p]
Unlocked(o) == sync' = [sync EXCEPT ![o] = IF @ = "absent" THEN @ ELSE "free"]

(* GetFileHandle: the channel's open file, or one of the caller's own.     *)
HandleOf(o) == IF "open" \in option[o] THEN "shared" ELSE "own"

(* CloseLogFile by p: whoever else is about to write to that file is late. *)
Closes(p, o) == handle' = [q \in Actors |->
  IF q # p /\ obj[q] = o /\ handle[q] = "shared" THEN "stale" ELSE handle[q]]

(* _CreateLogChannel.                                                      *)
Create(p, options, unlocked) ==
  /\ made < MaxObject
  /\ made' = made + 1
  /\ option' = [option EXCEPT ![made'] = options]
  /\ sync' = [sync EXCEPT ![made'] = IF unlocked THEN "absent" ELSE "free"]
  /\ obj' = [obj EXCEPT ![p] = made']
  /\ UNCHANGED buf

Assign(p) ==
  /\ pc[p] = "assign"
  /\ channel' = [channel EXCEPT ![at[p]] = obj[p]]
  /\ IF p = App THEN Idle(p)
     ELSE Goto(p, "get") /\ UNCHANGED <<at, obj>>
  /\ UNCHANGED <<mode, phase, shut, current, objects, file, count, upto,
                 batch, handle>>
-----------------------------------------------------------------------------
SettingUp == phase = "setup" /\ pc[App] = "idle"

(* InitBasicLog, once.                                                     *)
InitBasicLog(self) ==
  mode' = IF mode # "none" THEN mode ELSE IF self THEN "self" ELSE "runs"

CallInitBasicLog ==
  /\ SettingUp
  /\ mode = "none"
  /\ \E self \in BOOLEAN : InitBasicLog(self)
  /\ UNCHANGED <<phase, shut, current, channel, objects, file, count, local>>

(* A new channel object for index c, after InitBasicLog(true).             *)
NewChannel(c) ==
  /\ InitBasicLog(FALSE)
  /\ current' = current + 1
  /\ at' = [at EXCEPT ![App] = c]
  /\ \E options \in Options : Create(App, options, mode' = "self")
  /\ Goto(App, "assign")
  /\ UNCHANGED <<phase, shut, channel, file, count, upto, batch, handle>>

BasicSetLogEventMode ==
  /\ SettingUp
  /\ current + 1 < MaxChannel
  /\ NewChannel(current + 1)

(* One too many: LOG_ERROR_FULL, after the count went up.                  *)
LogIsFull ==
  /\ SettingUp
  /\ current + 1 = MaxChannel
  /\ InitBasicLog(FALSE)
  /\ current' = current + 1
  /\ UNCHANGED <<phase, shut, channel, objects, file, count, local>>

(* BasicSetDefaultLogEventMode and BasicSetDefaultLogEventErrorMode.       *)
BasicSetDefaultLogEventMode(c) ==
  /\ SettingUp
  /\ channel[c] = Null
  /\ NewChannel(c)

(* The same for a channel that exists: ChangeLogChannel.                   *)
ChangeLogChannel(c) ==
  /\ SettingUp
  /\ channel[c] # Null
  /\ Free(channel[c])
  /\ InitBasicLog(FALSE)
  /\ \E options \in Options :
       option' = [option EXCEPT ![channel[c]] = options]
  /\ Closes(App, channel[c])
  /\ UNCHANGED <<phase, shut, current, channel, made, sync, buf, file, count,
                 pc, at, obj, upto, batch>>

Ready ==
  /\ SettingUp
  /\ phase' = "running"
  /\ UNCHANGED <<mode, shut, current, channel, objects, file, count, local>>
-----------------------------------------------------------------------------
(* Which channels are logged to, and when.  A self-driven log is set up    *)
(* before; the channels 0 and 1 make themselves otherwise.                 *)
MayLog(c) ==
  \/ phase = "running" /\ c \notin shut /\ channel[c] # Null
  \/ phase = "running" /\ c \in {0, 1} \ shut /\ (Early \/ mode = "runs")
  \/ phase = "setup" /\ c \in {0, 1} /\ Early

Calls == FoldFunction(LAMBDA n, m : n + m, 0, count)
           + Cardinality({w \in Writers : pc[w] # "idle"})

BasicLogEvent(w, c) ==
  /\ pc[w] = "idle"
  /\ Calls < MaxLog
  /\ MayLog(c)
  /\ at' = [at EXCEPT ![w] = c]
  /\ Goto(w, "get")
  /\ UNCHANGED <<globals, objects, file, count, obj, upto, batch, handle>>

(* _GetChannel: its test, and the pointer it returns after it has made one. *)
GetChannel(w) ==
  /\ pc[w] = "get"
  /\ IF channel[at[w]] = Null THEN Goto(w, "make") /\ UNCHANGED obj
     ELSE Goto(w, "log") /\ obj' = [obj EXCEPT ![w] = channel[at[w]]]
  /\ UNCHANGED <<globals, objects, file, count, at, upto, batch, handle>>

MakeDefault(w) ==
  /\ pc[w] = "make"
  /\ Create(w, {}, mode = "self")
  /\ Goto(w, "assign")
  /\ UNCHANGED <<globals, file, count, at, upto, batch, handle>>

Record(w) == <<w, count[w] + 1>>
Counted(w) == count' = [count EXCEPT ![w] = @ + 1]

(* Whether WriteLogData keeps the data for later.                          *)
Buffers(o) == mode \in {"none", "self"} \/ "buffer" \in option[o]

LogLater(w) ==
  /\ pc[w] = "log"
  /\ Free(obj[w])
  /\ Buffers(obj[w])
  /\ buf' = [buf EXCEPT ![obj[w]] = Append(@, Record(w))]
  /\ Counted(w)
  /\ Idle(w)
  /\ UNCHANGED <<globals, made, option, sync, file, upto, batch, handle>>

LogNowIf(w, mayEnter) ==
  /\ pc[w] = "log"
  /\ mayEnter
  /\ ~Buffers(obj[w])
  /\ Locked(obj[w], w)
  /\ handle' = [handle EXCEPT ![w] = HandleOf(obj[w])]
  /\ Goto(w, "write")
  /\ UNCHANGED <<globals, made, option, buf, file, count, at, obj, upto,
                 batch>>

FaultWritesUnlocked(w) == LogNowIf(w, TRUE)

LogNow(w) == LogNowIf(w, Free(obj[w]))

(* fwrite, on a handle that was closed meanwhile an error.                 *)
Writes(p, r, next) ==
  /\ handle' = [handle EXCEPT ![p] = "none"]
  /\ IF handle[p] = "stale"
     THEN Goto(p, "error") /\ UNCHANGED <<at, obj, file>>
     ELSE /\ file' = [file EXCEPT ![at[p]] = Append(@, r)]
          /\ next

WriteNow(w) ==
  /\ pc[w] = "write"
  /\ Writes(w, Record(w), Idle(w))
  /\ Counted(w)
  /\ Unlocked(obj[w])
  /\ UNCHANGED <<globals, made, option, buf, upto, batch>>
-----------------------------------------------------------------------------
(* OnTimerBasicLog.                                                        *)
VisitsBelow(p, size) ==
  /\ upto' = [upto EXCEPT ![p] = IF size > 1 THEN size ELSE 0]
  /\ at' = [at EXCEPT ![p] = 0]
  /\ Goto(p, "visit")

Size == IF current + 1 > MaxChannel THEN MaxChannel ELSE current + 1

OnTimerOf(size) ==
  /\ pc[Timer] = "idle"
  /\ \/ mode = "runs"
     \/ mode = "self" /\ pc[App] = "idle"
  /\ pc[App] # "idle" => CloseAwake
  /\ VisitsBelow(Timer, size)
  /\ UNCHANGED <<globals, objects, file, count, obj, batch, handle>>

FaultLastChannelOut == OnTimerOf(current)

OnTimerBasicLog == OnTimerOf(Size)

Visit(p) ==
  /\ pc[p] = "visit"
  /\ at[p] < upto[p]
  /\ IF channel[at[p]] = Null
     THEN at' = [at EXCEPT ![p] = @ + 1] /\ UNCHANGED pc
     ELSE Goto(p, "check") /\ UNCHANGED at
  /\ UNCHANGED <<globals, objects, file, count, obj, upto, batch, handle>>

(* The second read of the pointer.                                         *)
CheckChannel(p) ==
  /\ pc[p] = "check"
  /\ Goto(p, IF channel[at[p]] = Null THEN "error" ELSE "enter")
  /\ obj' = [obj EXCEPT ![p] = channel[at[p]]]
  /\ UNCHANGED <<globals, objects, file, count, at, upto, batch, handle>>

(* Under the lock: perhaps a new file, and the swap of the buffer.         *)
Takes(p, o, left) ==
  /\ batch' = [batch EXCEPT ![p] = buf[o]]
  /\ buf' = [buf EXCEPT ![o] = left]

Enter(p) ==
  /\ pc[p] = "enter"
  /\ Free(obj[p])
  /\ Locked(obj[p], p)
  /\ Closes(p, obj[p]) \/ UNCHANGED handle
  /\ Takes(p, obj[p], <<>>)
  /\ Goto(p, "flush")
  /\ UNCHANGED <<globals, made, option, file, count, at, obj, upto>>

Flush(p) ==
  /\ pc[p] = "flush"
  /\ batch[p] # <<>>
  /\ file' = [file EXCEPT ![at[p]] = Append(@, Head(batch[p]))]
  /\ batch' = [batch EXCEPT ![p] = Tail(@)]
  /\ UNCHANGED <<globals, objects, count, pc, at, obj, upto, handle>>

LeaveWith(p, kept) ==
  /\ pc[p] = "flush"
  /\ batch[p] = <<>>
  /\ Unlocked(obj[p])
  /\ buf' = [buf EXCEPT ![obj[p]] = kept]
  /\ obj' = [obj EXCEPT ![p] = Null]
  /\ at' = [at EXCEPT ![p] = @ + 1]
  /\ Goto(p, "visit")
  /\ UNCHANGED <<globals, made, option, file, count, upto, batch, handle>>

FaultClearsAfter(p) == LeaveWith(p, <<>>)

Leave(p) == LeaveWith(p, buf[obj[p]])

Asleep ==
  /\ pc[Timer] = "visit"
  /\ at[Timer] >= upto[Timer]
  /\ Idle(Timer)
  /\ upto' = [upto EXCEPT ![Timer] = 0]
  /\ UNCHANGED <<globals, objects, file, count, batch, handle>>
-----------------------------------------------------------------------------
(* BasicCloseLogEvent(-1), when nobody logs any more.  Stop waits for the  *)
(* thread, then visits once more.                                          *)
NobodyLogs == \A w \in Writers : pc[w] = "idle"

CloseAll ==
  /\ phase = "running" /\ pc[App] = "idle"
  /\ NobodyLogs
  /\ mode = "self" /\ ~Early => \A o \in Objects : buf[o] = <<>>
  /\ mode = "self" => pc[Timer] = "idle"
  /\ phase' = "closing"
  /\ mode' = IF mode = "runs" THEN "stopped" ELSE mode
  /\ UNCHANGED <<shut, current, channel, objects, file, count, local>>

StopWith(size) ==
  /\ phase = "closing" /\ mode = "stopped"
  /\ pc[App] = "idle" /\ pc[Timer] = "idle"
  /\ VisitsBelow(App, size)
  /\ UNCHANGED <<globals, objects, file, count, obj, batch, handle>>

FaultStopsAtOnce == StopWith(0)

Stop == StopWith(Size)

Closed ==
  /\ phase = "closing"
  /\ \/ mode # "stopped"
     \/ pc[App] = "visit" /\ at[App] >= upto[App]
  /\ phase' = "closed"
  /\ current' = 0
  /\ Idle(App)
  /\ UNCHANGED <<mode, shut, channel, objects, file, count, upto, batch,
                 handle>>
-----------------------------------------------------------------------------
(* BasicCloseLogEvent of one channel that nobody logs to any more.  It     *)
(* writes what was buffered after it has given the lock back.              *)
BasicCloseLogEvent(c) ==
  /\ phase = "running" /\ pc[App] = "idle"
  /\ channel[c] # Null
  /\ \A w \in Writers : pc[w] # "idle" => at[w] # c
  /\ pc[Timer] # "idle" => CloseAwake
  /\ shut' = shut \cup {c}
  /\ at' = [at EXCEPT ![App] = c]
  /\ obj' = [obj EXCEPT ![App] = channel[c]]
  /\ Goto(App, "drain")
  /\ UNCHANGED <<mode, phase, current, channel, objects, file, count, upto,
                 batch, handle>>

Drain ==
  /\ pc[App] = "drain"
  /\ Free(obj[App])
  /\ Takes(App, obj[App], <<>>)
  /\ Goto(App, "handle")
  /\ UNCHANGED <<globals, made, option, sync, file, count, at, obj, upto,
                 handle>>

TakeHandle ==
  /\ pc[App] = "handle"
  /\ batch[App] # <<>>
  /\ handle' = [handle EXCEPT ![App] = HandleOf(obj[App])]
  /\ Goto(App, "put")
  /\ UNCHANGED <<globals, objects, file, count, at, obj, upto, batch>>

Put ==
  /\ pc[App] = "put"
  /\ Writes(App, Head(batch[App]),
            Goto(App, "handle") /\ UNCHANGED <<at, obj>>)
  /\ batch' = [batch EXCEPT ![App] = Tail(@)]
  /\ UNCHANGED <<globals, objects, count, upto>>

Drop ==
  /\ pc[App] = "handle"
  /\ batch[App] = <<>>
  /\ channel' = [channel EXCEPT ![at[App]] = Null]
  /\ Idle(App)
  /\ UNCHANGED <<mode, phase, shut, current, objects, file, count, upto, batch,
                 handle>>
-----------------------------------------------------------------------------
Logging(w) ==
  \/ GetChannel(w) \/ MakeDefault(w) \/ Assign(w)
  \/ LogLater(w) \/ LogNow(w) \/ WriteNow(w)

Visiting(p) ==
  Visit(p) \/ CheckChannel(p) \/ Enter(p) \/ Flush(p) \/ Leave(p)

SettingUpSteps ==
  \/ CallInitBasicLog \/ BasicSetLogEventMode \/ LogIsFull \/ Assign(App) \/ Ready
  \/ \E c \in {0, 1} : BasicSetDefaultLogEventMode(c) \/ ChangeLogChannel(c)

ClosingSteps ==
  \/ Stop \/ Closed \/ Visiting(App)
  \/ Drain \/ TakeHandle \/ Put \/ Drop

Next ==
  \/ SettingUpSteps \/ ClosingSteps \/ CloseAll
  \/ \E c \in Chans : BasicCloseLogEvent(c)
  \/ \E w \in Writers : Logging(w) \/ \E c \in Chans : BasicLogEvent(w, c)
  \/ OnTimerBasicLog \/ Visiting(Timer) \/ Asleep

SafeSpec == Init /\ [][Next]_vars

(* A call goes on, and the visits come every thirty seconds: by the thread *)
(* of the log, or by the application as log.h asks of it.                  *)
Fairness ==
  /\ \A w \in Writers : SF_vars(Logging(w))
  /\ SF_vars(OnTimerBasicLog)
  /\ WF_vars(Visiting(Timer)) /\ WF_vars(Asleep)
  /\ WF_vars(ClosingSteps) /\ WF_vars(Assign(App))

Spec == SafeSpec /\ Fairness
-----------------------------------------------------------------------------
TypeOK ==
  /\ mode \in {"none", "self", "runs", "stopped"}
  /\ phase \in {"setup", "running", "closing", "closed"}
  /\ shut \subseteq Chans /\ current \in Nat
  /\ channel \in [Chans -> Objects \cup {Null}]
  /\ made \in 0 .. MaxObject
  /\ option \in [Objects -> Options \cup {{}}]
  /\ sync \in [Objects -> Actors \cup {"free", "absent"}]
  /\ count \in [Writers -> Nat]
  /\ at \in [Actors -> 0 .. MaxChannel]
  /\ obj \in [Actors -> Objects \cup {Null}]
  /\ upto \in [Visitors -> 0 .. MaxChannel]
  /\ handle \in [Actors -> {"none", "own", "shared", "stale"}]
-----------------------------------------------------------------------------
(* What of a channel is logged and not written: what a visit or a close    *)
(* has taken from its buffer, then what is in the buffer.                  *)
Taken(c) ==
  IF \E p \in Visitors : batch[p] # <<>> /\ at[p] = c
  THEN batch[CHOOSE p \in Visitors : batch[p] # <<>> /\ at[p] = c]
  ELSE <<>>
Buffered(c) == IF channel[c] = Null THEN <<>> ELSE buf[channel[c]]
Waiting == [c \in Chans |-> Taken(c) \o Buffered(c)]

Journal == INSTANCE LogJournal WITH waiting <- Waiting, written <- file

(* What is logged is in the file once and in the order of the calls, while *)
(* the buffer is swapped and written by a visit, by the close of the       *)
(* channel or by the stop of the thread (313-360, 554-574).                *)
JournalKept == Journal!Spec

(* What waits is written in the end (log.h:43).                            *)
JournalWritten == Journal!FairSpec

(* Nobody writes to a file that was closed after he took its handle, nor   *)
(* visits a channel that was closed after he tested its pointer (407-447,  *)
(* 728-730).                                                               *)
NoStaleUse == \A p \in Actors : pc[p] # "error"

(* After BasicCloseLogEvent(-1) nothing waits (207-217).                   *)
ClosedIsWritten ==
  phase = "closed" => \A c \in Chans : Waiting[c] = <<>>
=============================================================================
