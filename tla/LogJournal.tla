------------------------------ MODULE LogJournal ------------------------------
(***************************************************************************)
(* What the log promises: what is logged to a channel is in its file once  *)
(* and in the order of the calls, at once or after a while.                *)
(***************************************************************************)
EXTENDS Naturals, Sequences

CONSTANTS
  Writers,
  Chans

VARIABLES
  count,        (* per writer: its calls so far                            *)
  waiting,      (* per channel: logged and not yet in the file             *)
  written       (* per channel: its file, from the first day on            *)

journal == <<count, waiting, written>>

Init ==
  /\ count = [w \in Writers |-> 0]
  /\ waiting = [c \in Chans |-> <<>>]
  /\ written = [c \in Chans |-> <<>>]

Record(w) == <<w, count[w] + 1>>
Counted(w) == count' = [count EXCEPT ![w] = @ + 1]

Keep(w, c) ==
  /\ Counted(w)
  /\ waiting' = [waiting EXCEPT ![c] = Append(@, Record(w))]
  /\ UNCHANGED written

(* Written at once: nothing is overtaken.                                  *)
WriteNow(w, c) ==
  /\ waiting[c] = <<>>
  /\ Counted(w)
  /\ written' = [written EXCEPT ![c] = Append(@, Record(w))]
  /\ UNCHANGED waiting

WriteOldest(c) ==
  /\ waiting[c] # <<>>
  /\ written' = [written EXCEPT ![c] = Append(@, Head(waiting[c]))]
  /\ waiting' = [waiting EXCEPT ![c] = Tail(@)]
  /\ UNCHANGED count

Next == \E c \in Chans :
  \/ \E w \in Writers : Keep(w, c) \/ WriteNow(w, c)
  \/ WriteOldest(c)

Spec == Init /\ [][Next]_journal

(* With it: what waits is written.                                         *)
FairSpec == Spec /\ \A c \in Chans : WF_journal(WriteOldest(c))
===============================================================================
