------------------------------- MODULE FifoQueue -------------------------------
(***************************************************************************)
(* What CMessageQueueLock promises to its callers: a queue without limit.  *)
(* What is pushed is popped once and oldest first, a look at the queue     *)
(* sees one moment of it, and during SafeFuncCallback it belongs to the    *)
(* caller alone.                                                           *)
(***************************************************************************)
EXTENDS Naturals, Sequences

CONSTANTS
  Threads,
  Values,
  None          (* nobody, nothing                                         *)

VARIABLES
  items,        (* what waits, oldest first                                *)
  owner,        (* the thread in SafeFuncCallback, or None                 *)
  got           (* what its call has given a thread                        *)

fifoVars == <<items, owner, got>>

Init ==
  /\ items = <<>>
  /\ owner = None
  /\ got = [t \in Threads |-> <<>>]

May(t) == owner \in {t, None}
Gives(t, result) == got' = [got EXCEPT ![t] = result]

Put(t, v) ==
  May(t) /\ items' = Append(items, v) /\ UNCHANGED <<owner, got>>

Get(t) ==
  /\ May(t)
  /\ items # <<>>
  /\ Gives(t, <<Head(items)>>)
  /\ items' = Tail(items)
  /\ UNCHANGED owner

GetNothing(t) ==
  May(t) /\ items = <<>> /\ Gives(t, <<None>>) /\ UNCHANGED <<items, owner>>

TellLength(t) == May(t) /\ Gives(t, <<Len(items)>>) /\ UNCHANGED <<items, owner>>

TellAll(t) == May(t) /\ Gives(t, items) /\ UNCHANGED <<items, owner>>

Open(t) == owner = None /\ owner' = t /\ UNCHANGED <<items, got>>

Close(t) == owner = t /\ owner' = None /\ UNCHANGED <<items, got>>

(* The caller has its answer.                                              *)
Return(t) == Gives(t, <<>>) /\ UNCHANGED <<items, owner>>

Next == \E t \in Threads :
  \/ \E v \in Values : Put(t, v)
  \/ Get(t) \/ GetNothing(t) \/ TellLength(t) \/ TellAll(t)
  \/ Open(t) \/ Close(t) \/ Return(t)

Spec == Init /\ [][Next]_fifoVars
================================================================================
