----------------------------- MODULE LockFreeStack -----------------------------
(***************************************************************************)
(* CCLockfreeStack: a free list of nodes that threads push and pop without *)
(* a lock.  A node carries the number of references to it, the list's one  *)
(* included, and a bit that says it waits to be put on the list by the     *)
(* last thread that lets go of it.                                         *)
(*                                                                         *)
(* One action per atomic operation, in the order of the program text and   *)
(* under sequential consistency.                                           *)
(***************************************************************************)
EXTENDS Integers, FiniteSets

CONSTANTS
  Threads,
  Nodes,
  Null         (* nullptr, and no thread                                   *)

ASSUME StackAssumption ==
  /\ IsFiniteSet(Threads)
  /\ Null \notin Nodes /\ Null \notin Threads

VARIABLES
  head,        (* m_pHead                                                  *)
  next,        (* m_freeListNext                                           *)
  refs,        (* m_freeListRefs & REFS_MASK                               *)
  free,        (* m_freeListRefs & SHOULD_BE_ON_FREE                       *)
  owner,       (* who holds a node between its Pop and its Push            *)
  pc,          (* the next atomic operation of a thread                    *)
  my           (* its locals: see Locals                                   *)

vars == <<head, next, refs, free, owner, pc, my>>
shared == <<head, next, refs, free, owner>>

(* node: prevHead, or pNode; top and next, count and bit: head, next and   *)
(* refs of Pop; seen: head of PushByRefCountZero; popping: it was called   *)
(* by Pop.                                                                 *)
Locals == [node : Nodes \cup {Null}, top : Nodes \cup {Null},
           next : Nodes \cup {Null}, seen : Nodes \cup {Null},
           count : Nat, bit : BOOLEAN, popping : BOOLEAN]

Blank == [node |-> Null, top |-> Null, next |-> Null, seen |-> Null,
          count |-> 0, bit |-> FALSE, popping |-> FALSE]

Init ==
  /\ head = Null
  /\ next = [n \in Nodes |-> Null]
  /\ refs = [n \in Nodes |-> 0]
  /\ free = [n \in Nodes |-> FALSE]
  /\ owner \in [Nodes -> Threads]
  /\ pc = [t \in Threads |-> "idle"]
  /\ my = [t \in Threads |-> Blank]

(* Thread t goes on at a place with these locals.                          *)
Goto(t, place, locals) ==
  /\ pc' = [pc EXCEPT ![t] = place]
  /\ my' = [my EXCEPT ![t] = locals]

(* The locals of Pop when it has a head to look at, and of a thread that   *)
(* puts a node on the list.                                                *)
Looking(n) == [Blank EXCEPT !.top = n, !.popping = TRUE]
Pushing(n) == [Blank EXCEPT !.node = n]

(* Where PushByRefCountZero returns to.                                    *)
Return(t) ==
  IF my[t].popping THEN Goto(t, "loop", Looking(my[t].top))
                   ELSE Goto(t, "idle", Blank)
-----------------------------------------------------------------------------
(* Push: the node is put on the list now if nobody refers to it.           *)
PushIf(t, n, alone) ==
  /\ pc[t] = "idle" /\ owner[n] = t
  /\ owner' = [owner EXCEPT ![n] = Null]
  /\ free' = [free EXCEPT ![n] = TRUE]
  /\ IF alone THEN Goto(t, "load", Pushing(n)) ELSE UNCHANGED <<pc, my>>
  /\ UNCHANGED <<head, next, refs>>

FaultPushesReferred(t, n) == PushIf(t, n, TRUE)

Push(t, n) == PushIf(t, n, refs[n] = 0 /\ ~free[n])

Load(t) ==
  /\ pc[t] = "load"
  /\ Goto(t, "link", [my[t] EXCEPT !.seen = head])
  /\ UNCHANGED shared

Link(t) ==
  /\ pc[t] = "link"
  /\ next' = [next EXCEPT ![my[t].node] = my[t].seen]
  /\ Goto(t, "count", my[t])
  /\ UNCHANGED <<head, refs, free, owner>>

CountAs(t, k) ==
  /\ pc[t] = "count"
  /\ refs' = [refs EXCEPT ![my[t].node] = k]
  /\ free' = [free EXCEPT ![my[t].node] = FALSE]
  /\ Goto(t, "swap", my[t])
  /\ UNCHANGED <<head, next, owner>>

FaultCountsNone(t) == CountAs(t, 0)

Count(t) == CountAs(t, 1)

(* compare_exchange_strong loads the head it finds when it fails.          *)
Swap(t) ==
  /\ pc[t] = "swap"
  /\ IF head = my[t].seen
     THEN head' = my[t].node /\ Return(t)
     ELSE head' = head /\ Goto(t, "undo", [my[t] EXCEPT !.seen = head])
  /\ UNCHANGED <<next, refs, free, owner>>

(* fetch_add(SHOULD_BE_ON_FREE - 1): the list's reference is taken back;   *)
(* the bit, the highest, is flipped.                                       *)
Undo(t) ==
  /\ pc[t] = "undo"
  /\ refs' = [refs EXCEPT ![my[t].node] = @ - 1]
  /\ free' = [free EXCEPT ![my[t].node] = ~@]
  /\ IF refs[my[t].node] = 1 /\ ~free[my[t].node]
     THEN Goto(t, "link", my[t])
     ELSE Return(t)
  /\ UNCHANGED <<head, next, owner>>
-----------------------------------------------------------------------------
Pop(t) ==
  /\ pc[t] = "idle"
  /\ Goto(t, "loop", Looking(head))
  /\ UNCHANGED shared

Empty(t) ==
  /\ pc[t] = "loop" /\ my[t].top = Null
  /\ Goto(t, "idle", Blank)
  /\ UNCHANGED shared

ReadRefs(t) ==
  LET n == my[t].top IN
  /\ pc[t] = "loop" /\ n # Null
  /\ IF refs[n] = 0
     THEN Goto(t, "reload", Looking(Null))
     ELSE Goto(t, "hold", [my[t] EXCEPT !.count = refs[n], !.bit = free[n]])
  /\ UNCHANGED shared

Hold(t) ==
  LET n == my[t].top IN
  /\ pc[t] = "hold"
  /\ IF refs[n] = my[t].count /\ free[n] = my[t].bit
     THEN /\ refs' = [refs EXCEPT ![n] = @ + 1]
          /\ Goto(t, "next", [Looking(n) EXCEPT !.node = n])
     ELSE Goto(t, "reload", Looking(Null)) /\ UNCHANGED refs
  /\ UNCHANGED <<head, next, free, owner>>

Reload(t) ==
  /\ pc[t] = "reload"
  /\ Goto(t, "loop", Looking(head))
  /\ UNCHANGED shared

ReadNext(t) ==
  /\ pc[t] = "next"
  /\ Goto(t, "take", [my[t] EXCEPT !.next = next[my[t].node]])
  /\ UNCHANGED shared

Take(t) ==
  LET n == my[t].node IN
  /\ pc[t] = "take"
  /\ IF head = n
     THEN /\ head' = my[t].next
          /\ owner' = [owner EXCEPT ![n] = t]
          /\ Goto(t, "leave", Pushing(n))
     ELSE /\ Goto(t, "drop", [Looking(head) EXCEPT !.node = n])
          /\ UNCHANGED <<head, owner>>
  /\ UNCHANGED <<next, refs, free>>

(* The list's reference and the thread's own go, and Pop returns the node. *)
Leave(t) ==
  /\ pc[t] = "leave"
  /\ refs' = [refs EXCEPT ![my[t].node] = @ - 2]
  /\ Goto(t, "idle", Blank)
  /\ UNCHANGED <<head, next, free, owner>>

(* The last to let go of a node that waits for it puts it on the list.     *)
DropThen(t, push) ==
  /\ pc[t] = "drop"
  /\ refs' = [refs EXCEPT ![my[t].node] = @ - 1]
  /\ IF push THEN Goto(t, "load", my[t])
             ELSE Goto(t, "loop", Looking(my[t].top))
  /\ UNCHANGED <<head, next, free, owner>>

FaultDropForgets(t) == DropThen(t, FALSE)

Drop(t) == DropThen(t, free[my[t].node] /\ refs[my[t].node] = 1)
-----------------------------------------------------------------------------
(* The rest of a call of Push or Pop once it is begun.                     *)
Continue(t) ==
  \/ Load(t) \/ Link(t) \/ Count(t) \/ Swap(t) \/ Undo(t)
  \/ Empty(t) \/ ReadRefs(t) \/ Hold(t) \/ Reload(t) \/ ReadNext(t)
  \/ Take(t) \/ Leave(t) \/ Drop(t)

Next ==
  \E t \in Threads :
    \/ \E n \in Nodes : Push(t, n)
    \/ Pop(t)
    \/ Continue(t)

Spec == Init /\ [][Next]_vars

(* Every thread in a call is scheduled again; no thread has to begin one.  *)
FairSpec == Spec /\ \A t \in Threads : WF_vars(Continue(t))
-----------------------------------------------------------------------------
Places ==
  {"idle", "load", "link", "count", "swap", "undo", "loop", "hold", "reload",
   "next", "take", "leave", "drop"}

TypeOK ==
  /\ head \in Nodes \cup {Null}
  /\ next \in [Nodes -> Nodes \cup {Null}]
  /\ refs \in [Nodes -> Nat]
  /\ free \in [Nodes -> BOOLEAN]
  /\ owner \in [Nodes -> Threads \cup {Null}]
  /\ pc \in [Threads -> Places]
  /\ my \in [Threads -> Locals]

(* What can be reached from the head: the nodes that every set has which   *)
(* has the head and, with a node, the next one.                            *)
Closed(S) == head \in S \cup {Null} /\ \A n \in S : next[n] \in S \cup {Null}

Listed == {n \in Nodes : \A S \in SUBSET Nodes : Closed(S) => n \in S}

Quiet == \A t \in Threads : pc[t] = "idle"

(* The list has no cycle, and what is on it was pushed: no thread owns a   *)
(* node that another can pop (Push 35-39, Pop 40-61).                      *)
ListSound ==
  /\ \A S \in SUBSET Listed : S # {} => \E n \in S : next[n] \notin S
  /\ \A n \in Listed : owner[n] = Null

(* Pop takes a node that nobody owns: two threads never get the same one.  *)
Exclusive ==
  [][\A n \in Nodes : owner'[n] # owner[n] =>
        owner[n] = Null \/ owner'[n] = Null]_vars

(* A node keeps its reference from the list while it is on it; otherwise   *)
(* Pop, which skips a node without references, would turn for ever (45).   *)
ListedIsCounted == \A n \in Listed : refs[n] >= 1

(* When no call is under way every node that was pushed is on the list: a  *)
(* thread that fails to push or lets go of a node leaves it to another     *)
(* (55-58, 68-72), never to nobody.                                        *)
NoneLost ==
  Quiet => \A n \in Nodes : owner[n] = Null => n \in Listed

(* A thread that never finishes its call is overtaken by others that do:   *)
(* the calls never only hold each other up.                                *)
Finishes(t) == pc[t] # "idle" /\ pc'[t] = "idle"
LockFree ==
  \A t \in Threads :
    []<>(pc[t] = "idle") \/ []<><<\E u \in Threads : Finishes(u)>>_vars
=============================================================================
