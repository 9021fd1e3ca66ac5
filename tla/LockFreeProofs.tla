---------------------------- MODULE LockFreeProofs ----------------------------
(***************************************************************************)
(* Proofs about the two lock-free containers.  LockFreeStack: for any      *)
(* number of threads and nodes.  FixQueue: with finitely many consumers    *)
(* and polite callers of Push, for any number of threads, slots and calls. *)
(***************************************************************************)
EXTENDS LockFreeStack, FixQueue, FiniteSetTheorems, WellFoundedInduction, TLAPS

(* A thread holds a reference of its node, or is putting it on the list.   *)
Uses(t) == pc[t] \in {"next", "take", "leave", "drop"}
Puts(t) == pc[t] \in {"load", "link", "count", "swap", "undo"}

Holding(n) == {t \in Threads : Uses(t) /\ my[t].node = n}
Putting(n) == {t \in Threads : Puts(t) /\ my[t].node = n}

(* L is the list: r numbers it from its end, k is its length.              *)
Chain(L, r, k) ==
  /\ L \subseteq Nodes /\ r \in [Nodes -> Nat] /\ k \in Nat
  /\ \A n \in L : 1 <= r[n] /\ r[n] <= k
  /\ \A m, n \in L : r[m] = r[n] => m = n
  /\ \A j \in 1..k : \E n \in L : r[n] = j
  /\ IF k = 0 THEN head = Null ELSE head \in L /\ r[head] = k
  /\ \A n \in L :
       IF r[n] = 1 THEN next[n] = Null ELSE next[n] \in L /\ r[next[n]] = r[n] - 1

(* The list's reference, while a node is on it or in the hands of the      *)
(* thread that puts it there or has taken it off.                          *)
Kept(L, n) ==
  IF n \in L \/ \E t \in Threads : pc[t] \in {"swap", "undo", "leave"} /\ my[t].node = n
  THEN 1 ELSE 0

Counts(L) == \A n \in Nodes : refs[n] = Cardinality(Holding(n)) + Kept(L, n)

Doing(t) ==
  /\ Uses(t) \/ Puts(t) => my[t].node \in Nodes
  /\ pc[t] = "hold" => my[t].top \in Nodes /\ my[t].count # 0
  /\ pc[t] = "take" => my[t].next = next[my[t].node]
  /\ pc[t] \in {"load", "link", "count"} => refs[my[t].node] = 0 /\ free[my[t].node]
  /\ pc[t] \in {"count", "swap"} => my[t].seen = next[my[t].node]
  /\ pc[t] \in {"swap", "undo"} => ~free[my[t].node]
  /\ pc[t] = "leave" => owner[my[t].node] = t
  /\ Puts(t) => owner[my[t].node] = Null

(* A node is owned, listed, being put on the list by one thread, or waits  *)
(* for a thread that holds it.                                             *)
Roles(L) ==
  /\ \A n \in Nodes : owner[n] # Null \/ n \in L => ~free[n]
  /\ \A n \in L : owner[n] = Null /\ Putting(n) = {}
  /\ \A t, u \in Threads : Puts(t) /\ Puts(u) /\ my[t].node = my[u].node => t = u
  /\ \A n \in Nodes : owner[n] = Null =>
       n \in L \/ Putting(n) # {} \/ (free[n] /\ Holding(n) # {})

Inv(L, r, k) ==
  /\ TypeOK /\ Chain(L, r, k) /\ Counts(L) /\ Roles(L)
  /\ \A t \in Threads : Doing(t)

IInv == \E L \in SUBSET Nodes, r \in [Nodes -> Nat], k \in Nat : Inv(L, r, k)
-----------------------------------------------------------------------------
Less == {p \in Nat \X Nat : p[1] < p[2]}

LEMMA LeastNat ==
  ASSUME NEW S \in SUBSET Nat, S # {}
  PROVE  \E m \in S : \A j \in S : m <= j
<1>1. IsWellFoundedOn(Less, Nat)
  BY NatLessThanWellFounded DEF OpToRel, Less
<1>2. PICK m \in S : \A j \in S : ~ (<<j, m>> \in Less)
  BY <1>1, WFMin
<1>3. ASSUME NEW j \in S PROVE m <= j
  <2>1. m \in Nat /\ j \in Nat /\ (j < m => <<j, m>> \in Less)
    BY DEF Less
  <2> QED BY <1>2, <2>1
<1> QED BY <1>3

(* What can be reached is the chain.                                       *)
LEMMA ListedIsChain ==
  ASSUME NEW L, NEW r, NEW k, Chain(L, r, k)
  PROVE  Listed = L
<1> USE StackAssumption DEF Chain
<1>1. Closed(L)
  BY DEF Closed
<1>2. Listed \subseteq L
  BY <1>1 DEF Listed
<1>3. ASSUME NEW S \in SUBSET Nodes, Closed(S) PROVE L \subseteq S
  <2> SUFFICES ASSUME L \ S # {} PROVE FALSE
    OBVIOUS
  <2> DEFINE T == {k - r[n] : n \in L \ S}
  <2>1. T \in SUBSET Nat /\ T # {}
    OBVIOUS
  <2>2. PICK x \in T : \A y \in T : x <= y
    BY <2>1, LeastNat
  <2>3. PICK m \in L \ S : x = k - r[m]
    OBVIOUS
  <2> HIDE DEF T
  <2>4. ASSUME NEW n \in L \ S PROVE r[n] <= r[m]
    <3>1. k - r[n] \in T
      BY DEF T
    <3>2. k - r[m] <= k - r[n]
      BY <2>2, <2>3, <3>1
    <3>3. r[n] \in Nat /\ r[m] \in Nat /\ k \in Nat
      OBVIOUS
    <3> HIDE DEF Chain
    <3> QED BY <3>2, <3>3
  <2>5. CASE r[m] = k
    <3>1. head = m
      BY <2>5
    <3> QED BY <1>3, <3>1 DEF Closed
  <2>6. CASE r[m] < k
    <3>1. PICK n \in L : r[n] = r[m] + 1
      BY <2>6
    <3>2. n \in S
      BY <2>4, <3>1
    <3>3. next[n] = m
      BY <3>1
    <3> QED BY <1>3, <3>2, <3>3 DEF Closed
  <2> QED BY <2>5, <2>6
<1>4. L \subseteq Listed
  BY <1>3 DEF Listed
<1> QED BY <1>2, <1>4

(* A part of the chain has an end.                                         *)
LEMMA ChainEnds ==
  ASSUME NEW L, NEW r, NEW k, Chain(L, r, k), NEW S \in SUBSET L, S # {}
  PROVE  \E n \in S : next[n] \notin S
<1> USE StackAssumption DEF Chain
<1> DEFINE T == {r[n] : n \in S}
<1>1. T \in SUBSET Nat /\ T # {}
  OBVIOUS
<1>2. PICK x \in T : \A y \in T : x <= y
  BY <1>1, LeastNat
<1>3. PICK m \in S : x = r[m]
  OBVIOUS
<1>4. \A n \in S : r[m] <= r[n]
  BY <1>2, <1>3
<1>5. next[m] \notin S
  BY <1>4
<1> QED BY <1>5
-----------------------------------------------------------------------------
LEMMA HoldingFinite ==
  ASSUME NEW n
  PROVE  /\ IsFiniteSet(Holding(n)) /\ Cardinality(Holding(n)) \in Nat
         /\ Cardinality(Holding(n)) = 0 <=> Holding(n) = {}
<1>1. Holding(n) \in SUBSET Threads
  BY DEF Holding
<1>2. IsFiniteSet(Holding(n))
  BY <1>1, StackAssumption, FS_Subset
<1> QED BY <1>2, FS_CardinalityType, FS_EmptySet

(* A reference is held for each thread that uses a node.                   *)
LEMMA HeldIsCounted ==
  ASSUME NEW L, Counts(L), NEW n \in Nodes
  PROVE  /\ refs[n] \in Nat
         /\ refs[n] = 0 <=> Holding(n) = {} /\ Kept(L, n) = 0
         /\ Kept(L, n) \in {0, 1}
<1>1. Kept(L, n) \in {0, 1}
  BY DEF Kept
<1> QED BY <1>1, HoldingFinite DEF Counts

LEMMA InitInv == Init => IInv
<1> SUFFICES ASSUME Init PROVE IInv
  OBVIOUS
<1> USE StackAssumption DEF Init
<1>1. TypeOK
  BY DEF TypeOK, Locals, Blank, Places
<1>2. PICK r \in [Nodes -> Nat] : r = [n \in Nodes |-> 0]
  OBVIOUS
<1>3. Chain({}, r, 0)
  BY DEF Chain
<1>4. \A n \in Nodes : Holding(n) = {} /\ Kept({}, n) = 0
  BY DEF Holding, Kept, Uses
<1>5. Counts({})
  BY <1>4, FS_EmptySet DEF Counts
<1>6. Roles({}) /\ \A t \in Threads : Doing(t)
  BY DEF Roles, Doing, Uses, Puts
<1> QED BY <1>1, <1>3, <1>5, <1>6 DEF Inv, IInv
-----------------------------------------------------------------------------
(* What a step of one thread does to the sets of threads at a node.        *)
Still(t) == \A u \in Threads \ {t} : pc'[u] = pc[u] /\ my'[u] = my[u]

Carries(t) == pc[t] \in {"swap", "undo", "leave"}

At(t, n) == my[t].node = n

LEMMA GotoStill ==
  ASSUME TypeOK, NEW t \in Threads, NEW place \in Places, NEW locals \in Locals,
         Goto(t, place, locals)
  PROVE  /\ Still(t) /\ pc'[t] = place /\ my'[t] = locals
         /\ pc' \in [Threads -> Places] /\ my' \in [Threads -> Locals]
  BY DEF TypeOK, Goto, Still

LEMMA LocalsType ==
  /\ Blank \in Locals
  /\ \A n \in Nodes \cup {Null} :
       /\ Looking(n) \in Locals /\ Looking(n).top = n /\ Looking(n).popping
       /\ Pushing(n) \in Locals /\ Pushing(n).node = n
  BY DEF Locals, Blank, Looking, Pushing

LEMMA SetsStep ==
  ASSUME NEW t \in Threads, Still(t), NEW n
  PROVE  /\ Holding(n)' = IF Uses(t)' /\ At(t, n)' THEN Holding(n) \cup {t}
                                                  ELSE Holding(n) \ {t}
         /\ Putting(n)' = IF Puts(t)' /\ At(t, n)' THEN Putting(n) \cup {t}
                                                  ELSE Putting(n) \ {t}
<1>1. \A u \in Threads \ {t} : /\ Uses(u)' <=> Uses(u)
                               /\ Puts(u)' <=> Puts(u)
                               /\ At(u, n)' <=> At(u, n)
  BY DEF Still, Uses, Puts, At
<1> QED BY <1>1 DEF Holding, Putting, At

LEMMA HeldStep ==
  ASSUME NEW t \in Threads, Still(t), NEW n
  PROVE  Cardinality(Holding(n)') + (IF Uses(t) /\ At(t, n) THEN 1 ELSE 0)
           = Cardinality(Holding(n)) + (IF Uses(t)' /\ At(t, n)' THEN 1 ELSE 0)
<1>1. t \in Holding(n) <=> Uses(t) /\ At(t, n)
  BY DEF Holding, At
<1>2. IsFiniteSet(Holding(n)) /\ Cardinality(Holding(n)) \in Nat
  BY HoldingFinite
<1>3. Cardinality(Holding(n) \cup {t}) =
        IF t \in Holding(n) THEN Cardinality(Holding(n)) ELSE Cardinality(Holding(n)) + 1
  BY <1>2, FS_AddElement
<1>4. Cardinality(Holding(n) \ {t}) =
        IF t \in Holding(n) THEN Cardinality(Holding(n)) - 1 ELSE Cardinality(Holding(n))
  BY <1>2, FS_RemoveElement
<1>5. CASE Uses(t)' /\ At(t, n)'
  <2>1. Holding(n)' = Holding(n) \cup {t}
    BY <1>5, SetsStep
  <2> QED BY <1>1, <1>2, <1>3, <1>5, <2>1
<1>6. CASE ~ (Uses(t)' /\ At(t, n)')
  <2>1. Holding(n)' = Holding(n) \ {t}
    BY <1>6, SetsStep
  <2> QED BY <1>1, <1>2, <1>4, <1>6, <2>1
<1> QED BY <1>5, <1>6

(* The list's reference of a node is in one place.                         *)
LEMMA CarriedOnce ==
  ASSUME NEW L, NEW r, NEW k, Inv(L, r, k),
         NEW t \in Threads, Carries(t)
  PROVE  /\ my[t].node \in Nodes \ L
         /\ \A u \in Threads : Carries(u) /\ my[u].node = my[t].node => u = t
         /\ Kept(L, my[t].node) = 1
<1> USE StackAssumption DEF Inv, Carries
<1>1. \A u \in Threads : Carries(u) => /\ my[u].node \in Nodes
                                      /\ \/ Puts(u) /\ owner[my[u].node] = Null
                                         \/ pc[u] = "leave" /\ owner[my[u].node] = u
  BY DEF Doing, Puts, Uses
<1>2. my[t].node \notin L
  BY <1>1 DEF Roles, Putting, Puts
<1>3. \A u \in Threads : Carries(u) /\ my[u].node = my[t].node => u = t
  BY <1>1 DEF Roles
<1> QED BY <1>1, <1>2, <1>3 DEF Kept

(* A step that leaves its thread where it is as to its node.               *)
Stays(t) ==
  /\ Still(t)
  /\ Uses(t)' <=> Uses(t)
  /\ Puts(t)' <=> Puts(t)
  /\ Carries(t)' <=> Carries(t)
  /\ Uses(t) \/ Puts(t) => my'[t].node = my[t].node

LEMMA StaysSame ==
  ASSUME NEW t \in Threads, Stays(t)
  PROVE  /\ \A u \in Threads : /\ Uses(u)' <=> Uses(u)
                               /\ Puts(u)' <=> Puts(u)
                               /\ Uses(u) \/ Puts(u) => my'[u].node = my[u].node
         /\ \A n : Holding(n)' = Holding(n) /\ Putting(n)' = Putting(n)
         /\ \A L, n : Kept(L, n)' = Kept(L, n)
<1>1. \A u \in Threads : /\ Uses(u)' <=> Uses(u)
                         /\ Puts(u)' <=> Puts(u)
                         /\ Carries(u)' <=> Carries(u)
                         /\ Uses(u) \/ Puts(u) \/ Carries(u) => my'[u].node = my[u].node
  BY DEF Stays, Still, Uses, Puts, Carries
<1> QED BY <1>1 DEF Holding, Putting, Kept, Carries

LEMMA PassStep ==
  ASSUME NEW L, NEW r, NEW k, Inv(L, r, k),
         NEW t \in Threads, Stays(t), UNCHANGED shared, TypeOK', Doing(t)'
  PROVE  Inv(L, r, k)'
<1> USE DEF shared
<1>1. Chain(L, r, k)'
  BY DEF Inv, Chain
<1>2. Counts(L)'
  BY StaysSame DEF Inv, Counts
<1>3. Roles(L)'
  BY StaysSame DEF Inv, Roles
<1>4. ASSUME NEW u \in Threads PROVE Doing(u)'
  <2>1. CASE u = t
    BY <2>1
  <2>2. CASE u # t
    BY <2>2 DEF Inv, Doing, Stays, Still, Uses, Puts
  <2> QED BY <2>1, <2>2
<1> QED BY <1>1, <1>2, <1>3, <1>4 DEF Inv

LEMMA Passing ==
  ASSUME NEW L, NEW r, NEW k, Inv(L, r, k), NEW t \in Threads,
         \/ Pop(t) \/ Empty(t) \/ ReadRefs(t) \/ Reload(t) \/ ReadNext(t) \/ Load(t)
         \/ Hold(t) /\ UNCHANGED refs
         \/ Take(t) /\ head # my[t].node
         \/ Swap(t) /\ head # my[t].seen
  PROVE  Inv(L, r, k)'
<1> SUFFICES UNCHANGED shared /\ TypeOK' /\ Stays(t) /\ Doing(t)'
  BY PassStep
<1> USE LocalsType DEF Inv
<1>t. /\ head \in Nodes \cup {Null} /\ my[t] \in Locals
      /\ \A n \in Nodes : next[n] \in Nodes \cup {Null} /\ refs[n] \in Nat /\ free[n] \in BOOLEAN
  BY DEF TypeOK
<1>u. ASSUME UNCHANGED shared, pc' \in [Threads -> Places], my' \in [Threads -> Locals]
      PROVE  TypeOK'
  BY <1>u DEF TypeOK, shared
<1>1. CASE Pop(t) \/ Reload(t)
  <2>1. UNCHANGED shared /\ pc[t] \in {"idle", "reload"} /\ Goto(t, "loop", Looking(head))
    BY <1>1 DEF Pop, Reload
  <2>2. Still(t) /\ pc'[t] = "loop" /\ TypeOK'
    BY <1>t, <1>u, <2>1, GotoStill DEF Places
  <2> QED BY <2>1, <2>2 DEF Stays, Doing, Uses, Puts, Carries
<1>2. CASE Empty(t)
  <2>1. UNCHANGED shared /\ pc[t] = "loop" /\ Goto(t, "idle", Blank)
    BY <1>2 DEF Empty
  <2>2. Still(t) /\ pc'[t] = "idle" /\ TypeOK'
    BY <1>u, <2>1, GotoStill DEF Places
  <2> QED BY <2>1, <2>2 DEF Stays, Doing, Uses, Puts, Carries
<1>3. CASE ReadRefs(t)
  <2> DEFINE n == my[t].top
             read == [my[t] EXCEPT !.count = refs[n], !.bit = free[n]]
  <2>1. n \in Nodes /\ read \in Locals /\ read.top = n /\ read.count = refs[n]
    BY <1>3, <1>t DEF ReadRefs, Locals
  <2>2. CASE refs[n] = 0
    <3>1. UNCHANGED shared /\ pc[t] = "loop" /\ Goto(t, "reload", Looking(Null))
      BY <1>3, <2>2 DEF ReadRefs
    <3>2. Still(t) /\ pc'[t] = "reload" /\ TypeOK'
      BY <1>u, <3>1, GotoStill DEF Places
    <3> QED BY <3>1, <3>2 DEF Stays, Doing, Uses, Puts, Carries
  <2>3. CASE refs[n] # 0
    <3>1. UNCHANGED shared /\ pc[t] = "loop" /\ Goto(t, "hold", read)
      BY <1>3, <2>3 DEF ReadRefs
    <3>2. Still(t) /\ pc'[t] = "hold" /\ my'[t] = read /\ TypeOK'
      BY <1>u, <2>1, <3>1, GotoStill DEF Places
    <3> HIDE DEF read
    <3> QED BY <2>1, <2>3, <3>1, <3>2 DEF Stays, Doing, Uses, Puts, Carries
  <2> QED BY <2>2, <2>3
<1>4. CASE Hold(t) /\ UNCHANGED refs
  <2>1. UNCHANGED shared /\ pc[t] = "hold" /\ Goto(t, "reload", Looking(Null))
    BY <1>4, <1>t DEF Hold, shared, TypeOK, Doing
  <2>2. Still(t) /\ pc'[t] = "reload" /\ TypeOK'
    BY <1>u, <2>1, GotoStill DEF Places
  <2> QED BY <2>1, <2>2 DEF Stays, Doing, Uses, Puts, Carries
<1>5. CASE ReadNext(t)
  <2> DEFINE n == my[t].node
             read == [my[t] EXCEPT !.next = next[n]]
  <2>1. n \in Nodes /\ read \in Locals /\ read.node = n /\ read.next = next[n]
    BY <1>5, <1>t DEF ReadNext, Locals, Doing, Uses
  <2>2. UNCHANGED shared /\ pc[t] = "next" /\ Goto(t, "take", read)
    BY <1>5 DEF ReadNext
  <2>3. Still(t) /\ pc'[t] = "take" /\ my'[t] = read /\ TypeOK'
    BY <1>u, <2>1, <2>2, GotoStill DEF Places
  <2> HIDE DEF read
  <2> QED BY <2>1, <2>2, <2>3 DEF Stays, Doing, Uses, Puts, Carries, shared
<1>6. CASE Load(t)
  <2> DEFINE read == [my[t] EXCEPT !.seen = head]
  <2>1. read \in Locals /\ read.node = my[t].node
    BY <1>t DEF Locals
  <2>2. UNCHANGED shared /\ pc[t] = "load" /\ Goto(t, "link", read)
    BY <1>6 DEF Load
  <2>3. Still(t) /\ pc'[t] = "link" /\ my'[t] = read /\ TypeOK'
    BY <1>u, <2>1, <2>2, GotoStill DEF Places
  <2> HIDE DEF read
  <2> QED BY <2>1, <2>2, <2>3 DEF Stays, Doing, Uses, Puts, Carries, shared
<1>7. CASE Take(t) /\ head # my[t].node
  <2> DEFINE n == my[t].node
             rest == [Looking(head) EXCEPT !.node = n]
  <2>1. n \in Nodes /\ rest \in Locals /\ rest.node = n
    BY <1>7, <1>t DEF Take, Locals, Doing, Uses
  <2>2. UNCHANGED shared /\ pc[t] = "take" /\ Goto(t, "drop", rest)
    BY <1>7 DEF Take, shared
  <2>3. Still(t) /\ pc'[t] = "drop" /\ my'[t] = rest /\ TypeOK'
    BY <1>u, <2>1, <2>2, GotoStill DEF Places
  <2> HIDE DEF rest
  <2> QED BY <2>1, <2>2, <2>3 DEF Stays, Doing, Uses, Puts, Carries, shared
<1>8. CASE Swap(t) /\ head # my[t].seen
  <2> DEFINE read == [my[t] EXCEPT !.seen = head]
  <2>1. read \in Locals /\ read.node = my[t].node
    BY <1>t DEF Locals
  <2>2. UNCHANGED shared /\ pc[t] = "swap" /\ Goto(t, "undo", read)
    BY <1>8 DEF Swap, shared
  <2>3. Still(t) /\ pc'[t] = "undo" /\ my'[t] = read /\ TypeOK'
    BY <1>u, <2>1, <2>2, GotoStill DEF Places
  <2> HIDE DEF read
  <2> QED BY <2>1, <2>2, <2>3 DEF Stays, Doing, Uses, Puts, Carries, shared
<1> QED BY <1>1, <1>2, <1>3, <1>4, <1>5, <1>6, <1>7, <1>8
-----------------------------------------------------------------------------
(* The chain does not see a node that is not on it.                        *)
LEMMA ChainKept ==
  ASSUME NEW L, NEW r, NEW k, Chain(L, r, k), head' = head,
         \A n \in L : next'[n] = next[n]
  PROVE  Chain(L, r, k)'
  BY DEF Chain

(* Nobody else is at a node that one thread puts on the list and nobody    *)
(* refers to.                                                              *)
LEMMA LinkStep ==
  ASSUME NEW L, NEW r, NEW k, Inv(L, r, k), NEW t \in Threads, Link(t)
  PROVE  Inv(L, r, k)'
<1> DEFINE n == my[t].node
<1> USE DEF Inv
<1>1. /\ pc[t] = "link" /\ Goto(t, "count", my[t])
      /\ next' = [next EXCEPT ![n] = my[t].seen]
      /\ UNCHANGED <<head, refs, free, owner>>
  BY DEF Link
<1>2. /\ n \in Nodes /\ refs[n] = 0 /\ free[n] /\ owner[n] = Null
      /\ Puts(t) /\ my[t] \in Locals /\ my[t].seen \in Nodes \cup {Null}
  BY <1>1 DEF Doing, Puts, TypeOK, Locals
<1>3. Still(t) /\ pc'[t] = "count" /\ my'[t] = my[t]
      /\ pc' \in [Threads -> Places] /\ my' \in [Threads -> Locals]
  BY <1>1, <1>2, GotoStill DEF Places
<1>4. TypeOK'
  BY <1>1, <1>2, <1>3 DEF TypeOK
<1>5. Stays(t)
  BY <1>1, <1>3 DEF Stays, Uses, Puts, Carries
<1>6. n \notin L
  BY <1>2 DEF Roles, Putting
<1>7. Chain(L, r, k)'
  BY <1>1, <1>6, ChainKept DEF Chain, TypeOK
<1>8. Counts(L)' /\ Roles(L)'
  BY <1>1, <1>5, StaysSame DEF Counts, Roles
<1>9. Doing(t)'
  BY <1>1, <1>2, <1>3 DEF Doing, Uses, Puts, TypeOK
<1>10. ASSUME NEW u \in Threads \ {t} PROVE Doing(u)'
  <2>1. my[u].node = n => pc[u] \notin {"take", "count", "swap"}
    <3>1. Holding(n) = {}
      BY <1>2, HeldIsCounted
    <3>2. my[u].node = n => ~Uses(u) /\ ~Puts(u)
      BY <1>2, <3>1 DEF Holding, Roles
    <3> QED BY <3>2 DEF Uses, Puts
  <2>2. pc'[u] = pc[u] /\ my'[u] = my[u]
    BY <1>3 DEF Still
  <2>3. pc[u] \in {"take", "count", "swap"} => next'[my[u].node] = next[my[u].node]
    BY <1>1, <2>1 DEF Doing, Uses, Puts, TypeOK
  <2> QED BY <1>1, <2>2, <2>3 DEF Doing, Uses, Puts
<1> QED BY <1>4, <1>7, <1>8, <1>9, <1>10

(* Where the list's reference of a node is, after a step of thread t.      *)
LEMMA KeptStep ==
  ASSUME NEW t \in Threads, Still(t), NEW L, NEW n,
         Carries(t) /\ At(t, n) <=> Carries(t)' /\ At(t, n)'
  PROVE  Kept(L, n)' = Kept(L, n)
<1>1. \A u \in Threads \ {t} : (Carries(u) /\ At(u, n)) <=> (Carries(u)' /\ At(u, n)')
  BY DEF Still, Carries, At
<1> QED BY <1>1 DEF Kept, Carries, At

LEMMA KeptOf ==
  ASSUME NEW L, NEW M, NEW n, n \in L <=> n \in M
  PROVE  Kept(M, n) = Kept(L, n)
  BY DEF Kept

(* The thread that puts a node without references is alone at it.          *)
LEMMA Alone ==
  ASSUME NEW L, NEW r, NEW k, Inv(L, r, k), NEW t \in Threads, Puts(t), Holding(my[t].node) = {}
  PROVE  \A u \in Threads \ {t} : Uses(u) \/ Puts(u) => my[u].node # my[t].node
  BY DEF Inv, Roles, Holding

LEMMA CountStep ==
  ASSUME NEW L, NEW r, NEW k, Inv(L, r, k), NEW t \in Threads, Count(t),
         NEW n \in Nodes, n = my[t].node
  PROVE  Inv(L, r, k)'
<1> USE DEF Inv
<1>1. /\ pc[t] = "count" /\ Goto(t, "swap", my[t])
      /\ refs' = [refs EXCEPT ![n] = 1] /\ free' = [free EXCEPT ![n] = FALSE]
      /\ UNCHANGED <<head, next, owner>>
  BY DEF Count, CountAs
<1>2. /\ n \in Nodes /\ refs[n] = 0 /\ owner[n] = Null /\ my[t].seen = next[n]
      /\ Puts(t) /\ ~Uses(t) /\ ~Carries(t) /\ my[t] \in Locals
  BY <1>1 DEF Doing, Uses, Puts, Carries, TypeOK
<1>3. /\ Still(t) /\ pc'[t] = "swap" /\ my'[t] = my[t]
      /\ pc' \in [Threads -> Places] /\ my' \in [Threads -> Locals]
  BY <1>1, <1>2, GotoStill DEF Places
<1>4. TypeOK'
  BY <1>1, <1>2, <1>3 DEF TypeOK
<1>5. Puts(t)' /\ ~Uses(t)' /\ Carries(t)' /\ \A m : At(t, m)' <=> At(t, m)
  BY <1>3 DEF Uses, Puts, Carries, At
<1>6. Holding(n) = {} /\ Kept(L, n) = 0 /\ n \notin L
  BY <1>2, HeldIsCounted DEF Kept
<1>7. Chain(L, r, k)'
  BY <1>1, ChainKept
<1>8. \A m : Holding(m)' = Holding(m) /\ Putting(m)' = Putting(m)
  <2>1. ASSUME NEW m PROVE t \in Putting(m) <=> At(t, m)
    BY <1>2 DEF Putting, At
  <2>2. ASSUME NEW m PROVE t \notin Holding(m)
    BY <1>2 DEF Holding
  <2> QED BY <1>3, <1>5, <2>1, <2>2, SetsStep
<1>9. Counts(L)'
  <2>1. Kept(L, n)' = 1
    BY <1>3 DEF Kept
  <2>2. ASSUME NEW m \in Nodes \ {n} PROVE Kept(L, m)' = Kept(L, m)
    <3>1. ~At(t, m) /\ ~At(t, m)'
      BY <1>3 DEF At
    <3> QED BY <1>3, <3>1, KeptStep
  <2>3. Cardinality(Holding(n)) = 0
    BY <1>6, HoldingFinite
  <2> QED BY <1>1, <1>2, <1>8, <2>1, <2>2, <2>3 DEF Counts, TypeOK
<1>10. Roles(L)'
  <2>1. \A u \in Threads : (Puts(u)' <=> Puts(u)) /\ (Puts(u) => my'[u].node = my[u].node)
    BY <1>2, <1>3, <1>5 DEF Still, Puts
  <2>2. n \in Nodes => Putting(n) # {}
    BY <1>2 DEF Putting
  <2> QED BY <1>1, <1>2, <1>6, <1>8, <2>1, <2>2 DEF Roles, TypeOK
<1>11. Doing(t)'
  BY <1>1, <1>2, <1>3 DEF Doing, Uses, Puts, TypeOK
<1>12. ASSUME NEW u \in Threads \ {t} PROVE Doing(u)'
  <2>1. Uses(u) \/ Puts(u) => my[u].node # n
    BY <1>2, <1>6, Alone
  <2>2. pc'[u] = pc[u] /\ my'[u] = my[u]
    BY <1>3 DEF Still
  <2> QED BY <1>1, <2>1, <2>2 DEF Doing, Uses, Puts, TypeOK
<1> QED BY <1>4, <1>7, <1>9, <1>10, <1>11, <1>12

(* Where a thread goes that has put a node on the list, or left it to      *)
(* those that hold it.                                                     *)
LEMMA Returning ==
  ASSUME TypeOK, NEW t \in Threads, Return(t)
  PROVE  /\ Still(t) /\ pc' \in [Threads -> Places] /\ my' \in [Threads -> Locals]
         /\ ~Uses(t)' /\ ~Puts(t)' /\ ~Carries(t)' /\ pc'[t] # "hold" /\ Doing(t)'
<1>1. my[t].top \in Nodes \cup {Null}
  BY DEF TypeOK, Locals
<1>2. \/ Goto(t, "loop", Looking(my[t].top)) /\ Looking(my[t].top) \in Locals
      \/ Goto(t, "idle", Blank) /\ Blank \in Locals
  BY <1>1, LocalsType DEF Return
<1>3. /\ Still(t) /\ pc' \in [Threads -> Places] /\ my' \in [Threads -> Locals]
      /\ pc'[t] \in {"loop", "idle"}
  BY <1>2, GotoStill DEF Places
<1> QED BY <1>3 DEF Uses, Puts, Carries, Doing

LEMMA SwapStep ==
  ASSUME NEW L, NEW r, NEW k, Inv(L, r, k), NEW t \in Threads, Swap(t), head = my[t].seen,
         NEW n \in Nodes, n = my[t].node
  PROVE  Inv(L \cup {n}, [r EXCEPT ![n] = k + 1], k + 1)'
<1> DEFINE M == L \cup {n}
           s == [r EXCEPT ![n] = k + 1]
<1> USE DEF Inv
<1>1. /\ pc[t] = "swap" /\ Return(t) /\ head' = n
      /\ UNCHANGED <<next, refs, free, owner>>
  BY DEF Swap
<1>2. /\ n \in Nodes /\ ~free[n] /\ owner[n] = Null /\ next[n] = head
      /\ Puts(t) /\ ~Uses(t) /\ Carries(t)
  BY <1>1 DEF Doing, Uses, Puts, Carries
<1>3. /\ Still(t) /\ pc' \in [Threads -> Places] /\ my' \in [Threads -> Locals]
      /\ ~Uses(t)' /\ ~Puts(t)' /\ ~Carries(t)' /\ Doing(t)'
  BY <1>1, Returning
<1>4. TypeOK'
  BY <1>1, <1>2, <1>3 DEF TypeOK
<1>5. /\ n \notin L /\ Kept(L, n) = 1
      /\ \A u \in Threads : Puts(u) /\ my[u].node = n => u = t
  BY <1>2, CarriedOnce DEF Roles
<1>6. Chain(M, s, k + 1)'
  <2>1. /\ M \subseteq Nodes /\ s \in [Nodes -> Nat] /\ k \in Nat
        /\ s[n] = k + 1 /\ \A m \in L : s[m] = r[m] /\ m # n
    BY <1>2, <1>5 DEF Chain
  <2>2. \A m \in M : 1 <= s[m] /\ s[m] <= k + 1
    BY <2>1 DEF Chain
  <2>3. \A l, m \in M : s[l] = s[m] => l = m
    BY <2>1 DEF Chain
  <2>4. \A j \in 1..(k + 1) : \E m \in M : s[m] = j
    BY <2>1 DEF Chain
  <2>5. ASSUME NEW m \in M
        PROVE  IF s[m] = 1 THEN next[m] = Null ELSE next[m] \in M /\ s[next[m]] = s[m] - 1
    BY <1>2, <2>1 DEF Chain
  <2> HIDE DEF s, M
  <2>6. n \in M
    BY DEF M
  <2> QED BY <1>1, <2>1, <2>2, <2>3, <2>4, <2>5, <2>6 DEF Chain
<1>7. \A m : Holding(m)' = Holding(m) /\ Putting(m)' = Putting(m) \ {t}
  <2>1. ASSUME NEW m PROVE t \notin Holding(m)
    BY <1>2 DEF Holding
  <2> QED BY <1>3, <2>1, SetsStep
<1>8. \A m \in Nodes \ {n} : t \notin Putting(m)
  BY DEF Putting
<1>9. Counts(M)'
  <2>1. Kept(M, n)' = 1
    BY DEF Kept
  <2>2. ASSUME NEW m \in Nodes \ {n} PROVE Kept(M, m)' = Kept(L, m)
    <3>1. ~At(t, m)
      BY DEF At
    <3>2. Kept(L, m)' = Kept(L, m)
      BY <1>3, <3>1, KeptStep
    <3> QED BY <3>2 DEF Kept
  <2> QED BY <1>1, <1>5, <1>7, <2>1, <2>2 DEF Counts
<1>10. Roles(M)'
  <2>1. \A m \in M : owner[m] = Null /\ Putting(m) \ {t} = {}
    BY <1>2, <1>5 DEF Roles, Putting
  <2>2. \A u \in Threads : Puts(u)' => Puts(u) /\ my'[u].node = my[u].node
    BY <1>3 DEF Still, Puts
  <2> QED BY <1>1, <1>2, <1>7, <1>8, <2>1, <2>2 DEF Roles
<1>11. ASSUME NEW u \in Threads \ {t} PROVE Doing(u)'
  <2>1. pc'[u] = pc[u] /\ my'[u] = my[u]
    BY <1>3 DEF Still
  <2> QED BY <1>1, <2>1 DEF Doing, Uses, Puts
<1> QED BY <1>3, <1>4, <1>6, <1>9, <1>10, <1>11

(* A step of a thread that changes a node's count only.                    *)
LEMMA UndoStep ==
  ASSUME NEW L, NEW r, NEW k, Inv(L, r, k), NEW t \in Threads, Undo(t),
         NEW n \in Nodes, n = my[t].node
  PROVE  Inv(L, r, k)'
<1> USE DEF Inv
<1>1. /\ pc[t] = "undo" /\ UNCHANGED <<head, next, owner>>
      /\ refs' = [refs EXCEPT ![n] = @ - 1] /\ free' = [free EXCEPT ![n] = ~@]
      /\ Puts(t) /\ ~Uses(t) /\ Carries(t)
  BY DEF Undo, Puts, Uses, Carries
<1>2. /\ n \notin L /\ Kept(L, n) = 1 /\ ~free[n] /\ owner[n] = Null /\ my[t] \in Locals
      /\ \A u \in Threads \ {t} : my[u].node = n => ~Puts(u) /\ ~Carries(u)
  <2>1. n \notin L /\ Kept(L, n) = 1 /\ \A u \in Threads \ {t} : my[u].node = n => ~Carries(u)
    BY <1>1, CarriedOnce
  <2>2. ~free[n] /\ owner[n] = Null /\ my[t] \in Locals
    BY <1>1 DEF Doing, TypeOK
  <2>3. \A u \in Threads \ {t} : my[u].node = n => ~Puts(u)
    BY <1>1 DEF Roles
  <2> QED BY <2>1, <2>2, <2>3
<1>3. /\ Cardinality(Holding(n)) \in Nat /\ refs[n] = Cardinality(Holding(n)) + 1
      /\ Cardinality(Holding(n)) = 0 <=> Holding(n) = {}
  BY <1>2, HoldingFinite DEF Counts
<1>4. /\ refs'[n] = Cardinality(Holding(n)) /\ free'[n]
      /\ \A m \in Nodes \ {n} : refs'[m] = refs[m] /\ free'[m] = free[m]
      /\ refs' \in [Nodes -> Nat] /\ free' \in [Nodes -> BOOLEAN]
  <2>1. refs'[n] = Cardinality(Holding(n)) /\ refs' \in [Nodes -> Nat]
    BY <1>1, <1>3 DEF TypeOK
  <2>2. free'[n] /\ free' \in [Nodes -> BOOLEAN]
    BY <1>1, <1>2 DEF TypeOK
  <2>3. \A m \in Nodes \ {n} : refs'[m] = refs[m] /\ free'[m] = free[m]
    BY <1>1 DEF TypeOK
  <2> QED BY <2>1, <2>2, <2>3
<1>5. Chain(L, r, k)'
  BY <1>1, ChainKept
<1>6. /\ Still(t) /\ pc' \in [Threads -> Places] /\ my' \in [Threads -> Locals]
      /\ ~Uses(t)' /\ ~Carries(t)' /\ Doing(t)'
      /\ \/ Puts(t)' /\ my'[t].node = n /\ Holding(n) = {}
         \/ ~Puts(t)' /\ Holding(n) # {}
  <2>1. CASE refs[n] = 1
    <3>1. Goto(t, "link", my[t])
      BY <1>2, <2>1 DEF Undo
    <3>2. /\ Still(t) /\ pc' \in [Threads -> Places] /\ my' \in [Threads -> Locals]
          /\ pc'[t] = "link" /\ my'[t] = my[t]
      BY <1>2, <3>1, GotoStill DEF Places
    <3>3. refs'[n] = 0 /\ Holding(n) = {}
      BY <1>3, <1>4, <2>1
    <3> QED BY <1>1, <1>2, <1>4, <3>2, <3>3 DEF Doing, Uses, Puts, Carries
  <2>2. CASE refs[n] # 1
    <3>1. Return(t)
      BY <2>2 DEF Undo
    <3> QED BY <1>3, <2>2, <3>1, Returning
  <2> QED BY <2>1, <2>2
<1>7. \A m : Holding(m)' = Holding(m)
  <2>1. ASSUME NEW m PROVE t \notin Holding(m)
    BY <1>1 DEF Holding
  <2> QED BY <1>6, <2>1, SetsStep
<1>8. \A m \in Nodes \ {n} : Putting(m)' = Putting(m)
  <2>1. ASSUME NEW m \in Nodes \ {n} PROVE t \notin Putting(m) /\ ~ (Puts(t)' /\ At(t, m)')
    BY <1>6 DEF Putting, At
  <2> QED BY <1>6, <2>1, SetsStep
<1>9. Counts(L)'
  <2>1. Kept(L, n)' = 0
    BY <1>2, <1>6 DEF Kept, Carries, Still
  <2>2. ASSUME NEW m \in Nodes \ {n} PROVE Kept(L, m)' = Kept(L, m)
    <3>1. ~At(t, m)
      BY DEF At
    <3> QED BY <1>6, <3>1, KeptStep
  <2> QED BY <1>3, <1>4, <1>7, <2>1, <2>2 DEF Counts
<1>10. Roles(L)'
  <2>1. \A m \in Nodes : owner'[m] # Null \/ m \in L => ~free'[m]
    BY <1>1, <1>2, <1>4 DEF Roles
  <2>2. \A m \in L : owner'[m] = Null /\ Putting(m)' = {}
    BY <1>1, <1>2, <1>8 DEF Roles, Chain
  <2>3. \A u, v \in Threads : Puts(u)' /\ Puts(v)' /\ my'[u].node = my'[v].node => u = v
    <3>1. \A u \in Threads \ {t} : Puts(u)' => Puts(u) /\ my'[u].node = my[u].node /\ my[u].node # n
      BY <1>2, <1>6 DEF Still, Puts
    <3> QED BY <1>6, <3>1 DEF Roles
  <2>4. Puts(t)' /\ my'[t].node = n => Putting(n)' # {}
    BY DEF Putting
  <2>5. \A m \in Nodes : owner'[m] = Null =>
           m \in L \/ Putting(m)' # {} \/ (free'[m] /\ Holding(m)' # {})
    BY <1>1, <1>4, <1>6, <1>7, <1>8, <2>4 DEF Roles
  <2> QED BY <2>1, <2>2, <2>3, <2>5 DEF Roles
<1>11. ASSUME NEW u \in Threads \ {t} PROVE Doing(u)'
  <2>1. pc'[u] = pc[u] /\ my'[u] = my[u]
    BY <1>6 DEF Still
  <2> QED BY <1>1, <1>2, <1>4, <2>1 DEF Doing, Uses, Puts
<1> QED BY <1>1, <1>4, <1>5, <1>6, <1>9, <1>10, <1>11 DEF TypeOK

LEMMA PushStep ==
  ASSUME NEW L, NEW r, NEW k, Inv(L, r, k), NEW t \in Threads, NEW n \in Nodes, Push(t, n)
  PROVE  Inv(L, r, k)'
<1> USE StackAssumption DEF Inv
<1>1. /\ pc[t] = "idle" /\ owner[n] = t /\ UNCHANGED <<head, next, refs>>
      /\ owner' = [owner EXCEPT ![n] = Null] /\ free' = [free EXCEPT ![n] = TRUE]
      /\ ~Puts(t) /\ ~Uses(t) /\ ~Carries(t)
  BY DEF Push, PushIf, Puts, Uses, Carries
<1>2. /\ n \notin L /\ ~free[n] /\ owner[n] # Null
      /\ \A u \in Threads : my[u].node = n => ~Puts(u) /\ ~Carries(u)
  BY <1>1 DEF Roles, Doing, Carries, Puts
<1>3. Kept(L, n) = 0 /\ (refs[n] = 0 <=> Holding(n) = {})
  <2>1. Kept(L, n) = 0
    BY <1>2 DEF Kept, Carries
  <2> QED BY <2>1, HeldIsCounted
<1>4. /\ owner'[n] = Null /\ free'[n]
      /\ \A m \in Nodes \ {n} : owner'[m] = owner[m] /\ free'[m] = free[m]
      /\ owner' \in [Nodes -> Threads \cup {Null}] /\ free' \in [Nodes -> BOOLEAN]
  BY <1>1 DEF TypeOK
<1>5. Chain(L, r, k)'
  BY <1>1, ChainKept
<1>6. /\ Still(t) /\ pc' \in [Threads -> Places] /\ my' \in [Threads -> Locals]
      /\ ~Uses(t)' /\ ~Carries(t)' /\ Doing(t)'
      /\ \/ Puts(t)' /\ my'[t].node = n /\ Holding(n) = {}
         \/ ~Puts(t)' /\ Holding(n) # {}
  <2>1. CASE refs[n] = 0
    <3>1. Goto(t, "load", Pushing(n))
      BY <1>2, <2>1 DEF Push, PushIf
    <3>2. /\ Still(t) /\ pc' \in [Threads -> Places] /\ my' \in [Threads -> Locals]
          /\ pc'[t] = "load" /\ my'[t].node = n
      BY <3>1, GotoStill, LocalsType DEF Places
    <3> QED BY <1>1, <1>3, <1>4, <2>1, <3>2 DEF Doing, Uses, Puts, Carries
  <2>2. CASE refs[n] # 0
    <3>1. UNCHANGED <<pc, my>>
      BY <2>2 DEF Push, PushIf
    <3> QED BY <1>1, <1>3, <2>2, <3>1 DEF Still, TypeOK, Doing, Uses, Puts, Carries
  <2> QED BY <2>1, <2>2
<1>7. \A m : Holding(m)' = Holding(m)
  <2>1. ASSUME NEW m PROVE t \notin Holding(m)
    BY <1>1 DEF Holding
  <2> QED BY <1>6, <2>1, SetsStep
<1>8. ASSUME NEW m \in Nodes \ {n} PROVE Putting(m)' = Putting(m)
  <2>1. t \notin Putting(m) /\ ~ (Puts(t)' /\ At(t, m)')
    BY <1>1, <1>6 DEF Putting, At
  <2>2. Still(t)
    BY <1>6
  <2>3. Putting(m)' = IF Puts(t)' /\ At(t, m)' THEN Putting(m) \cup {t}
                                               ELSE Putting(m) \ {t}
    BY <2>2, SetsStep
  <2> HIDE DEF Inv
  <2> QED BY <2>1, <2>3
<1>9. Counts(L)'
  <2>1. ASSUME NEW m \in Nodes PROVE Kept(L, m)' = Kept(L, m)
    BY <1>1, <1>6, KeptStep
  <2> QED BY <1>1, <1>7, <2>1 DEF Counts
<1>10. Roles(L)'
  <2>1. \A m \in Nodes : owner'[m] # Null \/ m \in L => ~free'[m]
    BY <1>2, <1>4 DEF Roles
  <2>2. \A m \in L : owner'[m] = Null /\ Putting(m)' = {}
    BY <1>2, <1>4, <1>8 DEF Roles, Chain
  <2>3. \A u, v \in Threads : Puts(u)' /\ Puts(v)' /\ my'[u].node = my'[v].node => u = v
    <3>1. \A u \in Threads \ {t} : Puts(u)' => Puts(u) /\ my'[u].node = my[u].node /\ my[u].node # n
      BY <1>2, <1>6 DEF Still, Puts
    <3> QED BY <1>6, <3>1 DEF Roles
  <2>4. Puts(t)' /\ my'[t].node = n => Putting(n)' # {}
    BY DEF Putting
  <2>5. \A m \in Nodes : owner'[m] = Null =>
           m \in L \/ Putting(m)' # {} \/ (free'[m] /\ Holding(m)' # {})
    BY <1>4, <1>6, <1>7, <1>8, <2>4 DEF Roles
  <2> QED BY <2>1, <2>2, <2>3, <2>5 DEF Roles
<1>11. ASSUME NEW u \in Threads \ {t} PROVE Doing(u)'
  <2>1. pc'[u] = pc[u] /\ my'[u] = my[u]
    BY <1>6 DEF Still
  <2> QED BY <1>1, <1>2, <1>4, <2>1 DEF Doing, Uses, Puts, Carries
<1> QED BY <1>1, <1>4, <1>5, <1>6, <1>9, <1>10, <1>11 DEF TypeOK

LEMMA HoldStep ==
  ASSUME NEW L, NEW r, NEW k, Inv(L, r, k), NEW t \in Threads, Hold(t), ~UNCHANGED refs,
         NEW n \in Nodes, n = my[t].top
  PROVE  Inv(L, r, k)'
<1> USE DEF Inv
<1> DEFINE kept == [Looking(n) EXCEPT !.node = n]
<1>1. /\ pc[t] = "hold" /\ Goto(t, "next", kept) /\ UNCHANGED <<head, next, free, owner>>
      /\ refs' = [refs EXCEPT ![n] = @ + 1] /\ refs[n] # 0
      /\ ~Puts(t) /\ ~Uses(t) /\ ~Carries(t)
  BY DEF Hold, Doing, Puts, Uses, Carries
<1>2. kept \in Locals /\ kept.node = n
  BY LocalsType DEF Locals
<1>3. /\ Still(t) /\ pc'[t] = "next" /\ my'[t] = kept
      /\ pc' \in [Threads -> Places] /\ my' \in [Threads -> Locals]
  BY <1>1, <1>2, GotoStill DEF Places
<1> HIDE DEF kept
<1>4. /\ refs'[n] = refs[n] + 1 /\ \A m \in Nodes \ {n} : refs'[m] = refs[m]
      /\ refs' \in [Nodes -> Nat] /\ refs[n] \in Nat
  BY <1>1 DEF TypeOK
<1>5. Uses(t)' /\ ~Puts(t)' /\ ~Carries(t)' /\ At(t, n)' /\ Doing(t)'
  BY <1>2, <1>3 DEF Uses, Puts, Carries, At, Doing
<1>6. Chain(L, r, k)'
  BY <1>1, ChainKept
<1>7. \A m : Putting(m)' = Putting(m)
  <2>1. ASSUME NEW m PROVE t \notin Putting(m)
    BY <1>1 DEF Putting
  <2> QED BY <1>3, <1>5, <2>1, SetsStep
<1>8. Counts(L)'
  <2>1. ASSUME NEW m \in Nodes PROVE Kept(L, m)' = Kept(L, m)
    BY <1>1, <1>3, <1>5, KeptStep
  <2>2. ASSUME NEW m \in Nodes
        PROVE  Cardinality(Holding(m)') = Cardinality(Holding(m)) + (IF m = n THEN 1 ELSE 0)
    <3>1. Uses(t)' /\ At(t, m)' <=> m = n
      BY <1>2, <1>3, <1>5 DEF At
    <3>2. t \notin Holding(m) /\ IsFiniteSet(Holding(m)) /\ Cardinality(Holding(m)) \in Nat
      BY <1>1, HoldingFinite DEF Holding
    <3>3. Holding(m)' = IF m = n THEN Holding(m) \cup {t} ELSE Holding(m)
      BY <1>3, <3>1, <3>2, SetsStep
    <3>4. Cardinality(Holding(m) \cup {t}) = Cardinality(Holding(m)) + 1
      BY <3>2, FS_AddElement
    <3> QED BY <3>2, <3>3, <3>4
  <2>3. ASSUME NEW m \in Nodes PROVE Cardinality(Holding(m)) \in Nat /\ Kept(L, m) \in {0, 1}
    BY HoldingFinite, HeldIsCounted
  <2>4. ASSUME NEW m \in Nodes PROVE refs[m] = Cardinality(Holding(m)) + Kept(L, m)
    BY DEF Counts
  <2>5. ASSUME NEW m \in Nodes
        PROVE  refs'[m] = Cardinality(Holding(m)') + Kept(L, m)'
    BY <1>4, <2>1, <2>2, <2>3, <2>4
  <2> QED BY <2>5 DEF Counts
<1>9. Roles(L)'
  <2>1. \A u \in Threads : Puts(u)' => Puts(u) /\ my'[u].node = my[u].node
    BY <1>3, <1>5 DEF Still, Puts
  <2>2. \A m : Holding(m) # {} => Holding(m)' # {}
    <3>1. ASSUME NEW m PROVE t \notin Holding(m)
      BY <1>1 DEF Holding
    <3> QED BY <1>3, <3>1, SetsStep
  <2> QED BY <1>1, <1>7, <2>1, <2>2 DEF Roles
<1>10. ASSUME NEW u \in Threads \ {t} PROVE Doing(u)'
  <2>1. pc'[u] = pc[u] /\ my'[u] = my[u]
    BY <1>3 DEF Still
  <2> QED BY <1>1, <1>4, <2>1 DEF Doing, Uses, Puts
<1> QED BY <1>1, <1>3, <1>4, <1>5, <1>6, <1>8, <1>9, <1>10 DEF TypeOK

LEMMA TakeStep ==
  ASSUME NEW L, NEW r, NEW k, Inv(L, r, k), NEW t \in Threads, Take(t),
         NEW n \in Nodes, n = my[t].node, head = n
  PROVE  Inv(L \ {n}, r, k - 1)'
<1> USE StackAssumption DEF Inv
<1> DEFINE M == L \ {n}
<1>1. /\ pc[t] = "take" /\ Goto(t, "leave", Pushing(n)) /\ UNCHANGED <<next, refs, free>>
      /\ head' = next[n] /\ owner' = [owner EXCEPT ![n] = t]
      /\ ~Puts(t) /\ Uses(t) /\ ~Carries(t)
  BY DEF Take, Doing, Puts, Uses, Carries
<1>2. /\ Still(t) /\ pc'[t] = "leave" /\ my'[t].node = n
      /\ pc' \in [Threads -> Places] /\ my' \in [Threads -> Locals]
  BY <1>1, LocalsType, GotoStill DEF Places
<1>3. Uses(t)' /\ ~Puts(t)' /\ Carries(t)' /\ \A m : At(t, m)' <=> At(t, m)
  BY <1>2 DEF Uses, Puts, Carries, At
<1>4. TypeOK'
  BY <1>1, <1>2 DEF TypeOK
<1>5. n \in L /\ k # 0 /\ r[n] = k
  BY DEF Chain
<1>6. owner[n] = Null /\ Putting(n) = {} /\ ~free[n] /\ Kept(L, n) = 1
  BY <1>5 DEF Roles, Kept
<1>7. owner'[n] = t /\ \A m \in Nodes \ {n} : owner'[m] = owner[m]
  BY <1>1 DEF TypeOK
<1>8. Chain(M, r, k - 1)'
  <2>1. /\ M \subseteq Nodes /\ r \in [Nodes -> Nat] /\ k - 1 \in Nat
        /\ \A m \in M : 1 <= r[m] /\ r[m] <= k - 1
    BY <1>5 DEF Chain
  <2>2. \A l, m \in M : r[l] = r[m] => l = m
    BY DEF Chain
  <2>3. \A j \in 1..(k - 1) : \E m \in M : r[m] = j
    <3>1. TAKE j \in 1..(k - 1)
    <3>2. PICK m \in L : r[m] = j
      BY DEF Chain
    <3> QED BY <1>5, <3>2
  <2>4. IF k - 1 = 0 THEN next[n] = Null ELSE next[n] \in M /\ r[next[n]] = k - 1
    BY <1>5 DEF Chain
  <2>5. \A m \in M :
          IF r[m] = 1 THEN next[m] = Null ELSE next[m] \in M /\ r[next[m]] = r[m] - 1
    BY <1>5, <2>1 DEF Chain
  <2> HIDE DEF M
  <2> QED BY <1>1, <2>1, <2>2, <2>3, <2>4, <2>5 DEF Chain
<1>9. \A m : Holding(m)' = Holding(m) /\ Putting(m)' = Putting(m)
  <2>1. ASSUME NEW m PROVE t \notin Putting(m) /\ (t \in Holding(m) <=> At(t, m))
    BY <1>1 DEF Putting, Holding, At
  <2> QED BY <1>2, <1>3, <2>1, SetsStep
<1>10. Counts(M)'
  <2>1. Kept(M, n)' = 1
    BY <1>2 DEF Kept
  <2>2. ASSUME NEW m \in Nodes \ {n} PROVE Kept(M, m)' = Kept(L, m)
    <3>1. ~At(t, m) /\ ~At(t, m)'
      BY <1>3 DEF At
    <3>2. Kept(L, m)' = Kept(L, m)
      BY <1>2, <3>1, KeptStep
    <3> QED BY <3>2 DEF Kept
  <2> QED BY <1>1, <1>6, <1>9, <2>1, <2>2 DEF Counts
<1>11. Roles(M)'
  <2>1. \A u \in Threads : Puts(u)' => Puts(u) /\ my'[u].node = my[u].node
    BY <1>2, <1>3 DEF Still, Puts
  <2> QED BY <1>1, <1>6, <1>7, <1>9, <2>1 DEF Roles, Chain
<1>12. Doing(t)'
  BY <1>2, <1>7 DEF Doing, Uses, Puts
<1>13. ASSUME NEW u \in Threads \ {t} PROVE Doing(u)'
  <2>1. pc'[u] = pc[u] /\ my'[u] = my[u]
    BY <1>2 DEF Still
  <2>2. my[u].node = n => ~Puts(u) /\ pc[u] # "leave"
    BY <1>6 DEF Putting, Doing
  <2> QED BY <1>1, <1>7, <2>1, <2>2 DEF Doing, Uses, Puts
<1> QED BY <1>4, <1>8, <1>10, <1>11, <1>12, <1>13

(* The number of threads at a node goes down by one.                       *)
LEMMA OneLess ==
  ASSUME NEW t \in Threads, Still(t), Uses(t), ~Uses(t)', NEW n, At(t, n)
  PROVE  /\ Cardinality(Holding(n)) \in Nat \ {0}
         /\ Cardinality(Holding(n)') = Cardinality(Holding(n)) - 1
         /\ Cardinality(Holding(n)') = 0 <=> Holding(n)' = {}
         /\ \A m : m # n => Holding(m)' = Holding(m)
<1>1. t \in Holding(n)
  BY DEF Holding, At
<1>2. Holding(n)' = Holding(n) \ {t}
  BY SetsStep
<1>3. ASSUME NEW m, m # n PROVE Holding(m)' = Holding(m)
  <2>1. t \notin Holding(m)
    BY <1>3 DEF Holding, At
  <2> QED BY <2>1, SetsStep
<1>4. IsFiniteSet(Holding(n)) /\ Cardinality(Holding(n)) \in Nat \ {0}
  BY <1>1, HoldingFinite
<1>5. /\ Cardinality(Holding(n) \ {t}) = Cardinality(Holding(n)) - 1
      /\ IsFiniteSet(Holding(n) \ {t})
  BY <1>1, <1>4, FS_RemoveElement
<1> QED BY <1>2, <1>3, <1>4, <1>5, FS_EmptySet

LEMMA LeaveStep ==
  ASSUME NEW L, NEW r, NEW k, Inv(L, r, k), NEW t \in Threads, Leave(t),
         NEW n \in Nodes, n = my[t].node
  PROVE  Inv(L, r, k)'
<1> USE StackAssumption DEF Inv
<1>1. /\ pc[t] = "leave" /\ Goto(t, "idle", Blank) /\ UNCHANGED <<head, next, free, owner>>
      /\ refs' = [refs EXCEPT ![n] = @ - 2] /\ owner[n] = t
      /\ ~Puts(t) /\ Uses(t) /\ Carries(t) /\ At(t, n)
  BY DEF Leave, Doing, Puts, Uses, Carries, At
<1>2. /\ Still(t) /\ pc'[t] = "idle"
      /\ pc' \in [Threads -> Places] /\ my' \in [Threads -> Locals]
  BY <1>1, LocalsType, GotoStill DEF Places
<1>3. ~Uses(t)' /\ ~Puts(t)' /\ ~Carries(t)' /\ Doing(t)'
  BY <1>2 DEF Uses, Puts, Carries, Doing
<1>4. /\ n \notin L /\ Kept(L, n) = 1
      /\ \A u \in Threads : Carries(u) /\ my[u].node = n => u = t
  BY <1>1, CarriedOnce
<1>5. /\ Cardinality(Holding(n)) \in Nat \ {0}
      /\ Cardinality(Holding(n)') = Cardinality(Holding(n)) - 1
      /\ \A m : m # n => Holding(m)' = Holding(m)
  BY <1>1, <1>2, <1>3, OneLess
<1>6. refs[n] = Cardinality(Holding(n)) + 1
  BY <1>4 DEF Counts
<1>7. /\ refs'[n] = Cardinality(Holding(n)') /\ refs' \in [Nodes -> Nat]
      /\ \A m \in Nodes \ {n} : refs'[m] = refs[m]
  BY <1>1, <1>5, <1>6 DEF TypeOK
<1>8. Chain(L, r, k)'
  BY <1>1, ChainKept
<1>9. \A m : Putting(m)' = Putting(m)
  <2>1. ASSUME NEW m PROVE t \notin Putting(m)
    BY <1>1 DEF Putting
  <2> QED BY <1>2, <1>3, <2>1, SetsStep
<1>10. Counts(L)'
  <2>1. Kept(L, n)' = 0
    BY <1>2, <1>3, <1>4 DEF Kept, Carries, Still
  <2>2. ASSUME NEW m \in Nodes \ {n} PROVE Kept(L, m)' = Kept(L, m)
    <3>1. ~At(t, m)
      BY <1>1 DEF At
    <3> QED BY <1>2, <1>3, <3>1, KeptStep
  <2>3. refs'[n] = Cardinality(Holding(n)') + 0
    BY <1>5, <1>7
  <2> QED BY <1>5, <1>7, <2>1, <2>2, <2>3 DEF Counts
<1>11. Roles(L)'
  <2>1. \A u \in Threads : Puts(u)' => Puts(u) /\ my'[u].node = my[u].node
    BY <1>2, <1>3 DEF Still, Puts
  <2> QED BY <1>1, <1>5, <1>9, <2>1 DEF Roles
<1>12. ASSUME NEW u \in Threads \ {t} PROVE Doing(u)'
  <2>1. pc'[u] = pc[u] /\ my'[u] = my[u]
    BY <1>2 DEF Still
  <2>2. my[u].node = n => ~Puts(u)
    BY <1>1 DEF Doing
  <2> QED BY <1>1, <1>7, <2>1, <2>2 DEF Doing, Uses, Puts
<1> QED BY <1>1, <1>2, <1>3, <1>7, <1>8, <1>10, <1>11, <1>12 DEF TypeOK

LEMMA DropStep ==
  ASSUME NEW L, NEW r, NEW k, Inv(L, r, k), NEW t \in Threads, Drop(t),
         NEW n \in Nodes, n = my[t].node
  PROVE  Inv(L, r, k)'
<1> USE StackAssumption DEF Inv
<1>1. /\ pc[t] = "drop" /\ UNCHANGED <<head, next, free, owner>>
      /\ refs' = [refs EXCEPT ![n] = @ - 1]
      /\ IF free[n] /\ refs[n] = 1 THEN Goto(t, "load", my[t])
                                   ELSE Goto(t, "loop", Looking(my[t].top))
      /\ ~Puts(t) /\ Uses(t) /\ ~Carries(t) /\ At(t, n)
  BY DEF Drop, DropThen, Puts, Uses, Carries, At
<1>2. my[t] \in Locals /\ my[t].top \in Nodes \cup {Null}
  BY DEF TypeOK, Locals
<1>3. /\ Still(t) /\ pc' \in [Threads -> Places] /\ my' \in [Threads -> Locals]
      /\ IF free[n] /\ refs[n] = 1 THEN pc'[t] = "load" /\ my'[t].node = n
                                   ELSE pc'[t] = "loop"
  BY <1>1, <1>2, LocalsType, GotoStill DEF Places
<1>4. ~Uses(t)' /\ ~Carries(t)' /\ IF free[n] /\ refs[n] = 1 THEN Puts(t)' ELSE ~Puts(t)'
  BY <1>3 DEF Uses, Puts, Carries
<1>5. /\ Cardinality(Holding(n)) \in Nat \ {0}
      /\ Cardinality(Holding(n)') = Cardinality(Holding(n)) - 1
      /\ Cardinality(Holding(n)') = 0 <=> Holding(n)' = {}
      /\ \A m : m # n => Holding(m)' = Holding(m)
  BY <1>1, <1>3, <1>4, OneLess
<1>6. refs[n] = Cardinality(Holding(n)) + Kept(L, n) /\ Kept(L, n) \in {0, 1}
  BY DEF Counts, Kept
<1>7. /\ refs'[n] = refs[n] - 1 /\ refs[n] \in Nat \ {0} /\ refs' \in [Nodes -> Nat]
      /\ \A m \in Nodes \ {n} : refs'[m] = refs[m]
  BY <1>1, <1>5, <1>6 DEF TypeOK
<1>8. free[n] => owner[n] = Null /\ n \notin L
  BY DEF Roles
<1>9. ASSUME free[n], refs[n] = 1 PROVE Putting(n) = {}
  BY <1>9 DEF Putting, Doing, Puts
<1>10. ASSUME free[n], Putting(n) = {} PROVE Kept(L, n) = 0
  BY <1>8, <1>10 DEF Kept, Putting, Puts, Doing
<1>11. Chain(L, r, k)'
  BY <1>1, ChainKept
<1>12. /\ \A m \in Nodes \ {n} : Putting(m)' = Putting(m)
       /\ Putting(n)' = IF free[n] /\ refs[n] = 1 THEN {t} ELSE Putting(n)
  <2>1. ASSUME NEW m \in Nodes PROVE t \notin Putting(m)
    BY <1>1 DEF Putting
  <2>2. ASSUME NEW m \in Nodes \ {n} PROVE ~ (Puts(t)' /\ At(t, m)')
    BY <1>3, <1>4 DEF At
  <2>3. Puts(t)' /\ At(t, n)' <=> free[n] /\ refs[n] = 1
    BY <1>3, <1>4 DEF At
  <2>4. \A m \in Nodes \ {n} : Putting(m)' = Putting(m)
    BY <1>3, <2>1, <2>2, SetsStep
  <2>5. Putting(n)' = IF free[n] /\ refs[n] = 1 THEN Putting(n) \cup {t} ELSE Putting(n) \ {t}
    BY <1>3, <2>3, SetsStep
  <2> QED BY <1>9, <2>1, <2>4, <2>5
<1>13. Counts(L)'
  <2>1. ASSUME NEW m \in Nodes PROVE Kept(L, m)' = Kept(L, m)
    BY <1>1, <1>3, <1>4, KeptStep
  <2>2. refs'[n] = Cardinality(Holding(n)') + Kept(L, n)
    BY <1>5, <1>6, <1>7
  <2>3. ASSUME NEW m \in Nodes \ {n} PROVE refs'[m] = Cardinality(Holding(m)') + Kept(L, m)
    BY <1>5, <1>7 DEF Counts
  <2> QED BY <2>1, <2>2, <2>3 DEF Counts
<1>14. Roles(L)'
  <2>1. \A m \in Nodes : owner'[m] # Null \/ m \in L => ~free'[m]
    BY <1>1 DEF Roles
  <2>2. \A m \in L : owner'[m] = Null /\ Putting(m)' = {}
    BY <1>1, <1>8, <1>12 DEF Roles, Chain
  <2>3. \A u, v \in Threads : Puts(u)' /\ Puts(v)' /\ my'[u].node = my'[v].node => u = v
    <3>1. \A u \in Threads \ {t} : Puts(u)' => Puts(u) /\ my'[u].node = my[u].node
      BY <1>3 DEF Still, Puts
    <3>2. Puts(t)' => my'[t].node = n /\ Putting(n) = {}
      BY <1>3, <1>4, <1>9
    <3> QED BY <3>1, <3>2 DEF Roles, Putting
  <2>4. owner[n] = Null => n \in L \/ Putting(n)' # {} \/ (free[n] /\ Holding(n)' # {})
    <3>1. CASE free[n] /\ refs[n] = 1
      BY <1>12, <3>1
    <3>2. CASE ~ (free[n] /\ refs[n] = 1)
      <4> SUFFICES ASSUME owner[n] = Null, n \notin L, Putting(n) = {}
                   PROVE  free[n] /\ Holding(n)' # {}
        BY <1>12, <3>2
      <4>1. free[n]
        BY DEF Roles
      <4>2. refs[n] = Cardinality(Holding(n)) /\ refs[n] # 1
        BY <1>5, <1>6, <1>10, <3>2, <4>1
      <4> QED BY <1>5, <4>1, <4>2
    <3> QED BY <3>1, <3>2
  <2>5. \A m \in Nodes : owner'[m] = Null =>
           m \in L \/ Putting(m)' # {} \/ (free'[m] /\ Holding(m)' # {})
    BY <1>1, <1>5, <1>12, <2>4 DEF Roles
  <2> QED BY <2>1, <2>2, <2>3, <2>5 DEF Roles
<1>15. Doing(t)'
  <2>1. CASE free[n] /\ refs[n] = 1
    BY <1>1, <1>3, <1>4, <1>7, <1>8, <2>1 DEF Doing, Uses, Puts
  <2>2. CASE ~ (free[n] /\ refs[n] = 1)
    BY <1>3, <1>4, <2>2 DEF Doing
  <2> QED BY <2>1, <2>2
<1>16. ASSUME NEW u \in Threads \ {t} PROVE Doing(u)'
  <2>1. pc'[u] = pc[u] /\ my'[u] = my[u]
    BY <1>3 DEF Still
  <2>2. my[u].node = n => pc[u] \notin {"load", "link", "count"}
    BY <1>7 DEF Doing
  <2> QED BY <1>1, <1>7, <2>1, <2>2 DEF Doing, Uses, Puts
<1> QED BY <1>1, <1>3, <1>7, <1>11, <1>13, <1>14, <1>15, <1>16 DEF TypeOK
-----------------------------------------------------------------------------
LEMMA StepInv == IInv /\ [Next]_vars => IInv'
<1> SUFFICES ASSUME NEW L \in SUBSET Nodes, NEW r \in [Nodes -> Nat], NEW k \in Nat,
                    Inv(L, r, k), [Next]_vars
             PROVE  \E M, s, j : Inv(M, s, j)'
  <2>1. ASSUME NEW M, NEW s, NEW j, Inv(M, s, j)' PROVE IInv'
    BY <2>1 DEF IInv, Inv, Chain
  <2> QED BY <2>1 DEF IInv
<1>1. CASE UNCHANGED vars
  <2>1. UNCHANGED shared /\ UNCHANGED <<pc, my>>
    BY <1>1 DEF vars, shared
  <2>2. \A n : Holding(n)' = Holding(n) /\ Putting(n)' = Putting(n) /\ Kept(L, n)' = Kept(L, n)
    BY <2>1 DEF Holding, Putting, Kept, Uses, Puts
  <2>3. TypeOK' /\ Chain(L, r, k)'
    BY <2>1 DEF Inv, shared, TypeOK, Chain
  <2>4. Counts(L)'
    BY <2>1, <2>2 DEF Inv, shared, Counts
  <2>5. Roles(L)'
    BY <2>1, <2>2 DEF Inv, shared, Roles, Puts
  <2>6. \A t \in Threads : Doing(t)'
    BY <2>1 DEF Inv, shared, Doing, Uses, Puts
  <2>7. Inv(L, r, k)'
    BY <2>3, <2>4, <2>5, <2>6 DEF Inv
  <2> QED BY <2>7
<1>2. ASSUME NEW t \in Threads, NEW n \in Nodes, Push(t, n) PROVE Inv(L, r, k)'
  BY <1>2, PushStep
<1>3. ASSUME NEW t \in Threads, Pop(t) PROVE Inv(L, r, k)'
  BY <1>3, Passing
<1>4. ASSUME NEW t \in Threads, Continue(t) PROVE \E M, s, j : Inv(M, s, j)'
  <2> DEFINE n == my[t].node
  <2>1. /\ Uses(t) \/ Puts(t) => n \in Nodes
        /\ pc[t] = "hold" => my[t].top \in Nodes
    BY DEF Inv, Doing
  <2>2. CASE Empty(t) \/ ReadRefs(t) \/ Reload(t) \/ ReadNext(t) \/ Load(t)
    BY <2>2, Passing
  <2>3. CASE Link(t)
    BY <2>3, LinkStep
  <2>4. CASE Count(t)
    <3>1. n \in Nodes
      BY <2>1, <2>4 DEF Count, CountAs, Puts
    <3> QED BY <2>4, <3>1, CountStep
  <2>5. CASE Swap(t)
    <3>1. n \in Nodes
      BY <2>1, <2>5 DEF Swap, Puts
    <3>2. CASE head = my[t].seen
      <4>1. PICK m \in Nodes : m = n
        BY <3>1
      <4> QED BY <2>5, <3>2, <4>1, SwapStep
    <3> QED BY <2>5, <3>2, Passing
  <2>6. CASE Undo(t)
    <3>1. n \in Nodes
      BY <2>1, <2>6 DEF Undo, Puts
    <3> QED BY <2>6, <3>1, UndoStep
  <2>7. CASE Hold(t)
    <3>1. my[t].top \in Nodes
      BY <2>1, <2>7 DEF Hold
    <3>2. CASE UNCHANGED refs
      BY <2>7, <3>2, Passing
    <3> QED BY <2>7, <3>1, <3>2, HoldStep
  <2>8. CASE Take(t)
    <3>1. n \in Nodes
      BY <2>1, <2>8 DEF Take, Uses
    <3>2. CASE head = n
      <4>1. PICK m \in Nodes : m = n
        BY <3>1
      <4> QED BY <2>8, <3>2, <4>1, TakeStep
    <3> QED BY <2>8, <3>2, Passing
  <2>9. CASE Leave(t)
    <3>1. n \in Nodes
      BY <2>1, <2>9 DEF Leave, Uses
    <3> QED BY <2>9, <3>1, LeaveStep
  <2>10. CASE Drop(t)
    <3>1. n \in Nodes
      BY <2>1, <2>10 DEF Drop, DropThen, Uses
    <3> QED BY <2>10, <3>1, DropStep
  <2> QED BY <1>4, <2>2, <2>3, <2>4, <2>5, <2>6, <2>7, <2>8, <2>9, <2>10 DEF Continue
<1> QED BY <1>1, <1>2, <1>3, <1>4 DEF Next

LEMMA Inductive == Spec => []IInv
  BY InitInv, StepInv, PTL DEF Spec

(* Theorem: the variables keep their types.                                *)
THEOREM TypeTheorem == Spec => []TypeOK
<1>1. IInv => TypeOK
  BY DEF IInv, Inv
<1> QED BY <1>1, Inductive, PTL

(* Theorem: the list has no cycle, and no thread owns a node that another  *)
(* can pop (Push 35-39, Pop 40-61).                                        *)
THEOREM SoundTheorem == Spec => []ListSound
<1>1. ASSUME NEW L, NEW r, NEW k, Inv(L, r, k) PROVE ListSound
  <2>a. Chain(L, r, k) /\ Roles(L)
    BY <1>1 DEF Inv
  <2>b. L \subseteq Nodes
    BY <2>a DEF Chain
  <2>1. Listed = L /\ L \subseteq Nodes
    BY <2>a, <2>b, ListedIsChain
  <2>2. \A S \in SUBSET Listed : S # {} => \E n \in S : next[n] \notin S
    BY <1>1, <2>1, ChainEnds DEF Inv
  <2>3. \A n \in Listed : owner[n] = Null
    BY <1>1, <2>1 DEF Inv, Roles
  <2> QED BY <2>2, <2>3 DEF ListSound
<1>2. IInv => ListSound
  BY <1>1 DEF IInv
<1> QED BY <1>2, Inductive, PTL

(* Theorem: a node keeps its reference from the list while it is on it,    *)
(* which lets Pop go past it (45): its count is the threads that hold it   *)
(* and the list.                                                           *)
THEOREM CountedTheorem == Spec => []ListedIsCounted
<1>1. ASSUME NEW L, NEW r, NEW k, Inv(L, r, k) PROVE ListedIsCounted
  <2> SUFFICES ASSUME NEW n \in Listed PROVE refs[n] >= 1
    BY DEF ListedIsCounted
  <2>1. Chain(L, r, k) /\ Roles(L) /\ Counts(L)
    BY <1>1 DEF Inv
  <2>2. L \subseteq Nodes
    BY <2>1 DEF Chain
  <2>3. Listed = L
    BY <2>1, <2>2, ListedIsChain
  <2>4. Kept(L, n) = 1
    BY <2>3 DEF Kept
  <2>5. Cardinality(Holding(n)) \in Nat
    BY HoldingFinite
  <2> QED BY <2>1, <2>2, <2>3, <2>4, <2>5 DEF Counts
<1>2. IInv => ListedIsCounted
  BY <1>1 DEF IInv
<1> QED BY <1>2, Inductive, PTL

(* Theorem: when no call is under way every node that was pushed is on the *)
(* list: a thread that fails to push a node, or lets go of one, leaves it  *)
(* to another and never to nobody (55-58, 68-72).                          *)
THEOREM NoneLostTheorem == Spec => []NoneLost
<1>1. ASSUME NEW L, NEW r, NEW k, Inv(L, r, k) PROVE NoneLost
  <2>1. Listed = L
    BY <1>1, ListedIsChain DEF Inv
  <2>2. Quiet => \A n \in Nodes : Holding(n) = {} /\ Putting(n) = {}
    BY DEF Quiet, Holding, Putting, Uses, Puts
  <2> QED BY <1>1, <2>1, <2>2 DEF Inv, Roles, NoneLost
<1>2. IInv => NoneLost
  BY <1>1 DEF IInv
<1> QED BY <1>2, Inductive, PTL

(* Theorem: a node goes from a thread to the list and from the list to one *)
(* thread: two calls of Pop never return the same node.                    *)
THEOREM ExclusiveTheorem == Spec => Exclusive
<1>1. ASSUME IInv, [Next]_vars
      PROVE  [\A n \in Nodes : owner'[n] # owner[n] => owner[n] = Null \/ owner'[n] = Null]_vars
  <2> SUFFICES ASSUME Next, NEW n \in Nodes, owner'[n] # owner[n]
               PROVE  owner[n] = Null \/ owner'[n] = Null
    BY <1>1 DEF vars
  <2>1. PICK L \in SUBSET Nodes, r \in [Nodes -> Nat], k \in Nat : Inv(L, r, k)
    BY <1>1 DEF IInv
  <2>2. owner \in [Nodes -> Threads \cup {Null}]
    BY <2>1 DEF Inv, TypeOK
  <2>3. ASSUME NEW t \in Threads, NEW m \in Nodes, Push(t, m) PROVE owner'[n] = Null
    BY <2>2, <2>3 DEF Push, PushIf
  <2>4. ASSUME NEW t \in Threads, Take(t) PROVE owner[n] = Null
    <3>1. head = my[t].node /\ owner' = [owner EXCEPT ![my[t].node] = t]
      BY <2>4 DEF Take
    <3>2. n = head
      BY <2>2, <3>1
    <3>3. n \in L
      BY <2>1, <3>2, StackAssumption DEF Inv, Chain
    <3> QED BY <2>1, <3>3 DEF Inv, Roles
  <2>5. ASSUME NEW t \in Threads, Pop(t) \/ Continue(t), ~Take(t) PROVE owner' = owner
    BY <2>5 DEF Pop, Continue, Load, Link, Count, CountAs, Swap, Undo, Empty, ReadRefs,
                Hold, Reload, ReadNext, Leave, Drop, DropThen, shared
  <2> QED BY <2>3, <2>4, <2>5 DEF Next
<1> QED BY <1>1, Inductive, PTL DEF Spec, Exclusive
-----------------------------------------------------------------------------
(* What the theorems assume of the callers.                                *)
Callers == Polite /\ IsFiniteSet(Consumers)

(* The positions: filled and not cleared, or on the way to it.             *)
Full(p) == mark[Slot(p)] = {"taken", "filled"} /\ data[Slot(p)] = p

Fills(t) == op[t] \in {"take", "store", "fill"}
Claims(t) == op[t] \in {"read", "copy", "clear"}

Active(p) ==
  \/ nRead <= p /\ p < nPreWrite
  \/ \E c \in Consumers : Claims(c) /\ pos[c] = p

SlotsApart ==
  \A p, q \in Nat : Active(p) /\ Active(q) /\ Slot(p) = Slot(q) => p = q

(* From m_nRead on everything below m_nWrite is filled, and everything     *)
(* above it is or has its producer.                                        *)
Written == \A p \in Nat : nRead <= p /\ p < nWrite => Full(p)

Reserved ==
  \A p \in Nat : nWrite <= p /\ p < nPreWrite =>
    Full(p) \/ \E t \in Producers : Fills(t) /\ pos[t] = p

Produces(t) ==
  /\ op[t] \in {"idle", "take", "store", "fill", "advance", "more", "look"}
  /\ op[t] # "idle" => pos[t] < nPreWrite
  /\ Fills(t) => nWrite <= pos[t]
  /\ op[t] = "take" => mark[Slot(pos[t])] = {}
  /\ op[t] \in {"store", "fill"} => mark[Slot(pos[t])] = {"taken"}
  /\ op[t] = "fill" => data[Slot(pos[t])] = pos[t]
  /\ op[t] = "advance" /\ nWrite <= pos[t] => Full(pos[t])
  /\ op[t] = "more" => pos[t] < nWrite

Consumes(c) ==
  /\ op[c] \in {"idle", "asked", "giveback", "seat", "read", "copy", "clear"}
  /\ Claims(c) => pos[c] < nRead /\ Full(pos[c])
  /\ op[c] = "clear" => seen[c] = pos[c]

OneEach ==
  /\ \A t, u \in Producers : Fills(t) /\ Fills(u) /\ pos[t] = pos[u] => t = u
  /\ \A c, e \in Consumers : Claims(c) /\ Claims(e) /\ pos[c] = pos[e] => c = e

(* The consumers that asked for a place, and those that have one or will   *)
(* find that they have when m_nWrite is k.                                 *)
Asking == {c \in Consumers : op[c] \in {"asked", "giveback", "seat"}}
Seated(k) ==
  {c \in Consumers : op[c] = "seat" \/ (op[c] = "asked" /\ pos[c] < k)}

(* No more are let in than values are visible, whatever was asked for and  *)
(* given back in between.                                                  *)
SeatsFit ==
  /\ nPreRead = nRead + Cardinality(Asking)
  /\ \A k \in Nat : nWrite <= k => nRead + Cardinality(Seated(k)) <= k

(* While a position is reserved above m_nWrite, somebody will move it on.  *)
Served ==
  nWrite < nPreWrite => \E t \in Producers :
    \/ op[t] \in {"take", "store", "fill", "advance", "look"} /\ pos[t] = nWrite
    \/ op[t] = "more" /\ pos[t] + 1 = nWrite

RingInv ==
  /\ SlotsApart /\ Written /\ Reserved /\ OneEach
  /\ \A t \in Producers : Produces(t)
  /\ \A c \in Consumers : Consumes(c)

QueueInv == QueueTypeOK /\ RingInv /\ SeatsFit /\ Served
-----------------------------------------------------------------------------
LEMMA SlotType == \A p \in Nat : Slot(p) \in Slots
  BY FixQueueAssumption DEF Slot, Slots

LEMMA QueueInitInv == Callers /\ QueueInit => QueueInv
<1> SUFFICES ASSUME Callers, QueueInit PROVE QueueInv
  OBVIOUS
<1> USE FixQueueAssumption DEF QueueInit
<1>1. QueueTypeOK
  BY DEF QueueTypeOK, Users, QueuePlaces, Slots
<1>2. RingInv
  BY DEF RingInv, SlotsApart, Written, Reserved, OneEach, Produces, Consumes,
         Active, Fills, Claims, Users
<1>3. SeatsFit
  <2>1. Asking = {} /\ \A k : Seated(k) = {}
    BY DEF Asking, Seated, Users
  <2> QED BY <2>1, FS_EmptySet DEF SeatsFit
<1>4. Served
  BY DEF Served
<1> QED BY <1>1, <1>2, <1>3, <1>4 DEF QueueInv
-----------------------------------------------------------------------------
(* The places.                                                             *)
LEMMA PlacesFinite ==
  ASSUME Callers
  PROVE  /\ IsFiniteSet(Asking) /\ Cardinality(Asking) \in Nat
         /\ \A k : IsFiniteSet(Seated(k)) /\ Cardinality(Seated(k)) \in Nat
         /\ \A k : Cardinality(Seated(k)) <= Cardinality(Asking)
<1>1. Asking \in SUBSET Consumers /\ \A k : Seated(k) \in SUBSET Asking
  BY DEF Asking, Seated
<1>2. IsFiniteSet(Asking)
  BY <1>1, FS_Subset DEF Callers
<1>3. \A k : IsFiniteSet(Seated(k)) /\ Cardinality(Seated(k)) <= Cardinality(Asking)
  BY <1>1, <1>2, FS_Subset
<1> QED BY <1>2, <1>3, FS_CardinalityType

(* Producers take no places.                                               *)
LEMMA SeatsKept ==
  ASSUME SeatsFit, QueueTypeOK, UNCHANGED <<nPreRead, nRead>>, nWrite' \in Nat, nWrite <= nWrite',
         \A c \in Consumers : op'[c] = op[c] /\ pos'[c] = pos[c]
  PROVE  SeatsFit'
<1>1. Asking' = Asking /\ \A k : Seated(k)' = Seated(k)
  BY DEF Asking, Seated
<1> QED BY <1>1 DEF SeatsFit, QueueTypeOK

-----------------------------------------------------------------------------
(* Types.                                                                  *)
LEMMA QueueTypeStep ==
  ASSUME Callers, QueueInv, QueueNext
  PROVE  QueueTypeOK'
<1> USE FixQueueAssumption, SlotType DEF QueueInv, QueueTypeOK, Users, QueuePlaces, GoesTo, EndsCall
<1>1. ASSUME NEW t \in Producers, Reserve(t) PROVE QueueTypeOK'
  BY <1>1 DEF Reserve
<1>2. ASSUME NEW t \in Producers, TakeSlot(t) PROVE QueueTypeOK'
  BY <1>2 DEF TakeSlot, TakeSlotAs, counters
<1>3. ASSUME NEW t \in Producers, Store(t) PROVE QueueTypeOK'
  BY <1>3 DEF Store, counters, RingInv, Produces
<1>4. ASSUME NEW t \in Producers, Fill(t) PROVE QueueTypeOK'
  BY <1>4 DEF Fill, counters
<1>5. ASSUME NEW t \in Producers, Advance(t) PROVE QueueTypeOK'
  BY <1>5 DEF Advance, RingInv, Produces
<1>6. ASSUME NEW t \in Producers, More(t) PROVE QueueTypeOK'
  BY <1>6 DEF More, counters
<1>7. ASSUME NEW t \in Producers, Look(t) PROVE QueueTypeOK'
  BY <1>7 DEF Look, LookIf, counters
<1>8. ASSUME NEW t \in Consumers, Ask(t) PROVE QueueTypeOK'
  BY <1>8 DEF Ask
<1>9. ASSUME NEW t \in Consumers, Asked(t) PROVE QueueTypeOK'
  BY <1>9 DEF Asked, counters
<1>10. ASSUME NEW t \in Consumers, GiveBack(t) PROVE QueueTypeOK'
  <2>1. t \in Asking
    BY <1>10 DEF GiveBack, GiveBackBy, Asking
  <2>2. Cardinality(Asking) > 0
    BY <2>1, PlacesFinite, FS_EmptySet
  <2>3. nRead <= nPreRead - 1
    BY <2>2, PlacesFinite DEF SeatsFit
  <2> QED BY <1>10, <2>3 DEF GiveBack, GiveBackBy
<1>11. ASSUME NEW t \in Consumers, Seat(t) PROVE QueueTypeOK'
  <2>1. t \in Asking
    BY <1>11 DEF Seat, Asking
  <2>2. Cardinality(Asking) > 0
    BY <2>1, PlacesFinite, FS_EmptySet
  <2>3. nRead + 1 <= nPreRead
    BY <2>2, PlacesFinite DEF SeatsFit
  <2> QED BY <1>11, <2>3 DEF Seat
<1>12. ASSUME NEW t \in Consumers, Read(t) PROVE QueueTypeOK'
  BY <1>12 DEF Read, counters
<1>13. ASSUME NEW t \in Consumers, Copy(t) PROVE QueueTypeOK'
  BY <1>13 DEF Copy, counters
<1>14. ASSUME NEW t \in Consumers, Clear(t) PROVE QueueTypeOK'
  BY <1>14 DEF Clear, counters
<1> QED BY <1>1, <1>2, <1>3, <1>4, <1>5, <1>6, <1>7, <1>8, <1>9, <1>10,
           <1>11, <1>12, <1>13, <1>14 DEF QueueNext, PushGoesOn, PopGoesOn
-----------------------------------------------------------------------------
(* The places of consumers.                                                *)
LEMMA SeatsStep ==
  ASSUME Callers, QueueInv, QueueNext
  PROVE  SeatsFit'
<1> USE FixQueueAssumption DEF QueueInv, GoesTo, EndsCall
<1>1. ASSUME NEW t \in Producers, Reserve(t) \/ PushGoesOn(t) PROVE SeatsFit'
  <2>1. \A c \in Consumers : op'[c] = op[c] /\ pos'[c] = pos[c]
    BY <1>1 DEF Reserve, PushGoesOn, TakeSlot, TakeSlotAs, Store, Fill, Advance, More,
                Look, LookIf, QueueTypeOK, Users
  <2>2. UNCHANGED <<nPreRead, nRead>> /\ nWrite' \in Nat /\ nWrite <= nWrite'
    BY <1>1 DEF Reserve, PushGoesOn, TakeSlot, TakeSlotAs, Store, Fill, Advance, More,
                Look, LookIf, counters, QueueTypeOK
  <2> QED BY <2>1, <2>2, SeatsKept
<1>2. ASSUME NEW t \in Consumers, Ask(t) PROVE SeatsFit'
  <2>1. t \notin Asking /\ \A k : t \notin Seated(k)
    BY <1>2 DEF Ask, Asking, Seated
  <2>2. Asking' = Asking \cup {t}
    BY <1>2 DEF Ask, Asking, QueueTypeOK, Users
  <2>3. \A k : Seated(k)' = IF nPreRead < k THEN Seated(k) \cup {t} ELSE Seated(k)
    BY <1>2 DEF Ask, Seated, QueueTypeOK, Users
  <2>4. nPreRead' = nRead' + Cardinality(Asking)'
    <3>1. Cardinality(Asking)' = Cardinality(Asking) + 1
      BY <2>1, <2>2, PlacesFinite, FS_AddElement
    <3> QED BY <1>2, <3>1, PlacesFinite DEF Ask, SeatsFit, QueueTypeOK
  <2>5. ASSUME NEW k \in Nat, nWrite' <= k
        PROVE  nRead' + Cardinality(Seated(k))' <= k
    <3>1. nWrite <= k /\ nRead' = nRead
      BY <1>2, <2>5 DEF Ask
    <3>2. CASE nPreRead < k
      <4>1. Cardinality(Seated(k))' = Cardinality(Seated(k)) + 1
        BY <2>1, <2>3, <3>2, PlacesFinite, FS_AddElement
      <4>2. nRead + Cardinality(Seated(k)) <= nPreRead
        BY PlacesFinite DEF SeatsFit, QueueTypeOK
      <4> QED BY <3>1, <3>2, <4>1, <4>2, PlacesFinite DEF QueueTypeOK
    <3>3. CASE ~(nPreRead < k)
      BY <2>3, <3>1, <3>3 DEF SeatsFit
    <3> QED BY <3>2, <3>3
  <2> QED BY <2>4, <2>5 DEF SeatsFit
<1>3. ASSUME NEW t \in Consumers, Asked(t) PROVE SeatsFit'
  <2>1. Asking' = Asking /\ UNCHANGED <<nPreRead, nRead, nWrite>>
    BY <1>3 DEF Asked, Asking, counters, QueueTypeOK, Users
  <2>2. ASSUME NEW k \in Nat, nWrite <= k
        PROVE  Seated(k)' \in SUBSET Seated(k)
    BY <1>3, <2>2 DEF Asked, Seated, QueueTypeOK, Users
  <2>3. \A k \in Nat : nWrite <= k => Cardinality(Seated(k)') <= Cardinality(Seated(k)) /\ Cardinality(Seated(k)') \in Nat
    BY <2>2, PlacesFinite, FS_Subset, FS_CardinalityType
  <2> QED BY <2>1, <2>3, PlacesFinite DEF SeatsFit, QueueTypeOK
<1>4. ASSUME NEW t \in Consumers, GiveBack(t) PROVE SeatsFit'
  <2>1. t \in Asking /\ Asking' = Asking \ {t}
    BY <1>4 DEF GiveBack, GiveBackBy, Asking, QueueTypeOK, Users
  <2>2. \A k : Seated(k)' = Seated(k)
    BY <1>4 DEF GiveBack, GiveBackBy, Seated, QueueTypeOK, Users
  <2>3. Cardinality(Asking)' = Cardinality(Asking) - 1
    BY <2>1, PlacesFinite, FS_RemoveElement
  <2> QED BY <1>4, <2>2, <2>3, PlacesFinite DEF GiveBack, GiveBackBy, SeatsFit, QueueTypeOK
<1>5. ASSUME NEW t \in Consumers, Seat(t) PROVE SeatsFit'
  <2>1. t \in Asking /\ Asking' = Asking \ {t}
    BY <1>5 DEF Seat, Asking, QueueTypeOK, Users
  <2>2. \A k : t \in Seated(k) /\ Seated(k)' = Seated(k) \ {t}
    BY <1>5 DEF Seat, Seated, QueueTypeOK, Users
  <2>3. Cardinality(Asking)' = Cardinality(Asking) - 1
    BY <2>1, PlacesFinite, FS_RemoveElement
  <2>4. \A k : Cardinality(Seated(k))' = Cardinality(Seated(k)) - 1
    BY <2>2, PlacesFinite, FS_RemoveElement
  <2> QED BY <1>5, <2>3, <2>4, PlacesFinite DEF Seat, SeatsFit, QueueTypeOK
<1>6. ASSUME NEW t \in Consumers, Read(t) \/ Copy(t) \/ Clear(t) PROVE SeatsFit'
  <2>1. Asking' = Asking /\ \A k : Seated(k)' = Seated(k)
    BY <1>6 DEF Read, Copy, Clear, Asking, Seated, QueueTypeOK, Users
  <2> QED BY <1>6, <2>1 DEF Read, Copy, Clear, counters, SeatsFit
<1> QED BY <1>1, <1>2, <1>3, <1>4, <1>5, <1>6 DEF QueueNext, PopGoesOn

-----------------------------------------------------------------------------
(* The slots.                                                              *)
LEMMA ReadBelowWrite ==
  ASSUME Callers, QueueInv
  PROVE  nRead <= nWrite /\ \A c \in Consumers : op[c] = "seat" => nRead < nWrite
<1>1. Cardinality(Seated(nWrite)) \in Nat /\ nRead + Cardinality(Seated(nWrite)) <= nWrite
  BY PlacesFinite DEF QueueInv, SeatsFit, QueueTypeOK
<1>2. ASSUME NEW c \in Consumers, op[c] = "seat" PROVE Cardinality(Seated(nWrite)) > 0
  <2>1. c \in Seated(nWrite)
    BY <1>2 DEF Seated
  <2> QED BY <2>1, PlacesFinite, FS_EmptySet
<1> QED BY <1>1, <1>2 DEF QueueInv, QueueTypeOK

(* An active position is filled or has its producer.                       *)
LEMMA ActiveHasSlot ==
  ASSUME Callers, QueueInv, NEW p \in Nat, Active(p)
  PROVE  Full(p) \/ \E t \in Producers : Fills(t) /\ pos[t] = p
  BY ReadBelowWrite DEF QueueInv, QueueTypeOK, RingInv, Active, Written, Reserved, Consumes

(* A producer that fills has an active position of its own.                *)
LEMMA FillsIsActive ==
  ASSUME Callers, QueueInv, NEW t \in Producers, Fills(t)
  PROVE  /\ pos[t] \in Nat /\ nRead <= pos[t] /\ pos[t] < nPreWrite /\ Active(pos[t])
         /\ mark[Slot(pos[t])] \in {{}, {"taken"}}
  BY ReadBelowWrite, SlotType DEF QueueInv, QueueTypeOK, Users, RingInv, Active, Produces, Fills

(* What a producer does to its slot touches no other active position.      *)
LEMMA OthersApart ==
  ASSUME Callers, QueueInv, NEW t \in Producers, Fills(t)
  PROVE  /\ \A p \in Nat : Full(p) => Slot(p) # Slot(pos[t])
         /\ \A u \in Producers : u # t /\ Fills(u) => Slot(pos[u]) # Slot(pos[t])
<1>1. \A p \in Nat : Full(p) => Slot(p) # Slot(pos[t])
  BY FillsIsActive DEF Full
<1>2. \A u \in Producers : u # t /\ Fills(u) => Slot(pos[u]) # Slot(pos[t])
  BY FillsIsActive DEF QueueInv, RingInv, SlotsApart, OneEach
<1> QED BY <1>1, <1>2

LEMMA ReserveStep ==
  ASSUME Callers, QueueInv, NEW t \in Producers, Reserve(t)
  PROVE  RingInv'
<1> USE FixQueueAssumption DEF QueueInv, RingInv, QueueTypeOK, Users
<1>1. /\ nPreWrite' = nPreWrite + 1 /\ UNCHANGED <<nWrite, nRead, mark, data, seen>>
      /\ op[t] = "idle" /\ op' = [op EXCEPT ![t] = "take"] /\ pos' = [pos EXCEPT ![t] = nPreWrite]
      /\ Room
  BY DEF Reserve, GoesTo, Callers
<1>2. \A q \in Nat : Active(q) => Slot(q) # Slot(nPreWrite)
  <2> SUFFICES ASSUME NEW q \in Nat, Active(q), Slot(q) = Slot(nPreWrite) PROVE FALSE
    OBVIOUS
  <2>1. CASE Full(q)
    BY <1>1, <2>1 DEF Full, Room
  <2>2. ASSUME NEW u \in Producers, Fills(u), pos[u] = q PROVE FALSE
    BY <1>1, <2>2 DEF Produces, Fills, Room
  <2> QED BY <2>1, <2>2, ActiveHasSlot
<1>3. \A q \in Nat : Active(q)' => Active(q) \/ q = nPreWrite
  BY <1>1 DEF Active, Claims
<1>4. SlotsApart'
  <2> SUFFICES ASSUME NEW p \in Nat, NEW q \in Nat, Active(p)', Active(q)', Slot(p) = Slot(q)
               PROVE  p = q
    BY DEF SlotsApart, Slot
  <2> QED BY <1>2, <1>3 DEF SlotsApart
<1>5. Written' /\ Reserved'
  <2>1. Written'
    BY <1>1 DEF Written, Full, Slot
  <2>2. Reserved'
    <3> SUFFICES ASSUME NEW p \in Nat, nWrite <= p, p < nPreWrite + 1
                 PROVE  Full(p)' \/ \E u \in Producers : Fills(u)' /\ pos'[u] = p
      BY <1>1 DEF Reserved
    <3>1. CASE p = nPreWrite
      BY <1>1, <3>1 DEF Fills
    <3>2. CASE p < nPreWrite /\ Full(p)
      BY <1>1, <3>2 DEF Full, Slot
    <3>3. ASSUME NEW u \in Producers, Fills(u), pos[u] = p
          PROVE  Fills(u)' /\ pos'[u] = p
      BY <1>1, <3>3 DEF Fills
    <3> QED BY <3>1, <3>2, <3>3 DEF Reserved
  <2> QED BY <2>1, <2>2
<1>6. OneEach'
  BY <1>1 DEF OneEach, Produces, Fills, Claims
<1>7. ASSUME NEW u \in Producers PROVE Produces(u)'
  <2>1. CASE u = t
    BY <1>1, <2>1 DEF Produces, Fills, Room, Slot
  <2>2. CASE u # t
    BY <1>1, <2>2 DEF Produces, Fills, Full, Slot
  <2> QED BY <2>1, <2>2
<1>8. \A c \in Consumers : Consumes(c)'
  BY <1>1 DEF Consumes, Claims, Full, Slot
<1> QED BY <1>4, <1>5, <1>6, <1>7, <1>8

(* A producer that stays on its way, whatever it writes to its slot.       *)
LEMMA FillingStep ==
  ASSUME Callers, QueueInv, NEW t \in Producers, TakeSlot(t) \/ Store(t) \/ Fill(t)
  PROVE  RingInv'
<1> USE FixQueueAssumption DEF QueueInv, RingInv, QueueTypeOK, Users
<1> DEFINE s == Slot(pos[t])
<1>1. /\ UNCHANGED <<nPreWrite, nWrite, nRead, pos, seen>>
      /\ Fills(t)
      /\ \A u \in Users : u # t => op'[u] = op[u]
      /\ \A r \in Slots : r # s => mark'[r] = mark[r] /\ data'[r] = data[r]
  BY DEF TakeSlot, TakeSlotAs, Store, Fill, GoesTo, counters, Produces, Fills
<1>2. \/ op[t] = "take" /\ op'[t] = "store" /\ mark'[s] = {"taken"}
      \/ op[t] = "store" /\ op'[t] = "fill" /\ mark'[s] = {"taken"} /\ data'[s] = pos[t]
      \/ op[t] = "fill" /\ op'[t] = "advance" /\ mark'[s] = {"taken", "filled"} /\ data'[s] = pos[t]
  <2>1. s \in Slots
    BY SlotType
  <2>2. CASE TakeSlot(t)
    BY <2>1, <2>2 DEF TakeSlot, TakeSlotAs, GoesTo, Produces
  <2>3. CASE Store(t)
    BY <2>1, <2>3 DEF Store, GoesTo, Produces
  <2>4. CASE Fill(t)
    BY <2>1, <2>4 DEF Fill, GoesTo, Produces
  <2> QED BY <2>2, <2>3, <2>4
<1>3. \A p \in Nat : Full(p) => Full(p)'
  BY <1>1, OthersApart, SlotType DEF Full, Slot
<1>4. SlotsApart'
  <2>1. \A p \in Nat : Active(p)' <=> Active(p)
    BY <1>1 DEF Active, Claims
  <2> QED BY <2>1 DEF SlotsApart, Slot
<1>5. Written'
  BY <1>1, <1>3 DEF Written
<1>6. Reserved'
  <2> SUFFICES ASSUME NEW p \in Nat, nWrite <= p, p < nPreWrite
               PROVE  Full(p)' \/ \E u \in Producers : Fills(u)' /\ pos'[u] = p
    BY <1>1 DEF Reserved
  <2>1. CASE Full(p)
    BY <1>3, <2>1
  <2>2. ASSUME NEW u \in Producers, Fills(u), pos[u] = p
        PROVE  Full(p)' \/ (Fills(u)' /\ pos'[u] = p)
    BY <1>1, <1>2, <2>2 DEF Fills, Full, Slot
  <2> QED BY <2>1, <2>2 DEF Reserved
<1>7. OneEach'
  BY <1>1, <1>2 DEF OneEach, Fills, Claims
<1>8. ASSUME NEW u \in Producers PROVE Produces(u)'
  <2>1. CASE u = t
    BY <1>1, <1>2, <2>1 DEF Produces, Fills, Full, Slot
  <2>2. CASE u # t /\ Fills(u)
    <3>1. Slot(pos[u]) # s /\ Slot(pos[u]) \in Slots
      BY <1>1, <2>2, OthersApart, SlotType
    <3> QED BY <1>1, <2>2, <3>1 DEF Produces, Fills, Slot
  <2>3. CASE u # t /\ ~Fills(u)
    BY <1>1, <1>3, <2>3 DEF Produces, Fills
  <2> QED BY <2>1, <2>2, <2>3
<1>9. \A c \in Consumers : Consumes(c)'
  BY <1>1, <1>3 DEF Consumes, Claims
<1> QED BY <1>4, <1>5, <1>6, <1>7, <1>8, <1>9

(* A position a producer looks at after its own: what it finds filled at    *)
(* or above m_nWrite is that position.                                     *)
LEMMA FilledIsFull ==
  ASSUME Callers, QueueInv, NEW p \in Nat, nWrite <= p, p < nPreWrite, "filled" \in mark[Slot(p)]
  PROVE  Full(p)
<1>1. ASSUME NEW u \in Producers, Fills(u), pos[u] = p PROVE FALSE
  BY <1>1, FillsIsActive
<1> QED BY <1>1 DEF QueueInv, RingInv, Reserved, QueueTypeOK

LEMMA MovingStep ==
  ASSUME Callers, QueueInv, NEW t \in Producers, Advance(t) \/ More(t) \/ Look(t)
  PROVE  RingInv'
<1> USE FixQueueAssumption DEF QueueInv, RingInv, QueueTypeOK, Users
<1>1. /\ UNCHANGED <<nPreWrite, nRead, mark, data>>
      /\ ~Fills(t) /\ ~Fills(t)'
      /\ \A u \in Users : u # t => op'[u] = op[u] /\ pos'[u] = pos[u] /\ seen'[u] = seen[u]
  BY DEF Advance, More, Look, LookIf, GoesTo, EndsCall, counters, Fills
<1>2. \/ nWrite' = nWrite
      \/ nWrite' = nWrite + 1 /\ nWrite < nPreWrite /\ Full(nWrite)
  BY DEF Advance, More, Look, LookIf, counters, Produces
<1>3. \A p \in Nat : (Full(p) <=> Full(p)') /\ (Active(p) <=> Active(p)')
  BY <1>1 DEF Full, Active, Slot, Claims
<1>4. SlotsApart'
  BY <1>3 DEF SlotsApart, Slot
<1>5. Written' /\ Reserved'
  <2>1. Written'
    BY <1>1, <1>2, <1>3 DEF Written
  <2>2. Reserved'
    <3> SUFFICES ASSUME NEW p \in Nat, nWrite <= p, p < nPreWrite
                 PROVE  Full(p)' \/ \E u \in Producers : Fills(u)' /\ pos'[u] = p
      BY <1>1, <1>2 DEF Reserved
    <3>1. ASSUME NEW u \in Producers, Fills(u), pos[u] = p
          PROVE  Fills(u)' /\ pos'[u] = p
      BY <1>1, <3>1 DEF Fills
    <3> QED BY <1>3, <3>1 DEF Reserved
  <2> QED BY <2>1, <2>2
<1>6. OneEach'
  BY <1>1 DEF OneEach, Fills, Claims
<1>7. ASSUME NEW u \in Producers PROVE Produces(u)'
  <2>1. CASE u # t
    <3>1. Fills(u) => pos[u] # nWrite \/ ~Full(nWrite)
      BY FillsIsActive DEF Full
    <3> QED BY <1>1, <1>2, <1>3, <2>1, <3>1 DEF Produces, Fills
  <2>2. CASE u = t /\ Advance(t)
    BY <1>1, <1>2, <2>2 DEF Advance, GoesTo, EndsCall, Produces, Fills
  <2>3. CASE u = t /\ More(t)
    BY <1>1, <1>2, <2>3 DEF More, GoesTo, EndsCall, Produces, Fills
  <2>4. CASE u = t /\ Look(t)
    <3>1. CASE "filled" \in mark[Slot(pos[t])]
      <4>1. op'[t] = "advance" /\ pos'[t] = pos[t] /\ pos[t] < nPreWrite /\ nWrite' = nWrite
        BY <2>4, <3>1 DEF Look, LookIf, GoesTo, Produces, counters
      <4>2. nWrite <= pos[t] => Full(pos[t])'
        BY <1>3, <3>1, <4>1, FilledIsFull
      <4> QED BY <1>1, <2>4, <4>1, <4>2 DEF Produces, Fills
    <3>2. CASE "filled" \notin mark[Slot(pos[t])]
      BY <1>1, <2>4, <3>2 DEF Look, LookIf, EndsCall, GoesTo, Produces, Fills
    <3> QED BY <3>1, <3>2
  <2> QED BY <2>1, <2>2, <2>3, <2>4
<1>8. \A c \in Consumers : Consumes(c)'
  BY <1>1, <1>3 DEF Consumes, Claims
<1> QED BY <1>4, <1>5, <1>6, <1>7, <1>8

(* A consumer on its way to a seat, and reading.                           *)
LEMMA AskingStep ==
  ASSUME Callers, QueueInv, NEW c \in Consumers,
         Ask(c) \/ Asked(c) \/ GiveBack(c) \/ Read(c) \/ Copy(c)
  PROVE  RingInv'
<1> USE FixQueueAssumption DEF QueueInv, RingInv, QueueTypeOK, Users
<1>1. /\ UNCHANGED <<nPreWrite, nWrite, nRead, mark, data>>
      /\ \A u \in Users : u # c => op'[u] = op[u] /\ pos'[u] = pos[u] /\ seen'[u] = seen[u]
      /\ Claims(c) <=> Claims(c)'
      /\ Claims(c) => pos'[c] = pos[c]
  BY DEF Ask, Asked, GiveBack, GiveBackBy, Read, Copy, GoesTo, EndsCall, counters, Claims,
         Consumes, Full
<1>2. \A p \in Nat : (Full(p) <=> Full(p)') /\ (Active(p) <=> Active(p)')
  BY <1>1 DEF Full, Active, Slot, Claims
<1>3. SlotsApart'
  BY <1>2 DEF SlotsApart, Slot
<1>4. Written' /\ Reserved' /\ OneEach'
  BY <1>1, <1>2 DEF Written, Reserved, OneEach, Fills, Claims
<1>5. \A u \in Producers : Produces(u)'
  BY <1>1, <1>2 DEF Produces, Fills, Slot
<1>6. ASSUME NEW e \in Consumers PROVE Consumes(e)'
  <2>1. CASE e # c
    BY <1>1, <1>2, <2>1 DEF Consumes, Claims
  <2>2. CASE e = c
    <3>1. Claims(c)' => pos'[c] < nRead' /\ Full(pos[c])'
      BY <1>1, <1>2 DEF Consumes, Claims
    <3>2. op'[c] \in {"idle", "asked", "giveback", "seat", "read", "copy", "clear"}
      BY DEF Ask, Asked, GiveBack, GiveBackBy, Read, Copy, GoesTo, EndsCall, Consumes, Claims, Full
    <3>3. op'[c] = "clear" => seen'[c] = pos'[c]
      BY DEF Ask, Asked, GiveBack, GiveBackBy, Read, Copy, GoesTo, EndsCall, Consumes, Claims, Full
    <3> QED BY <1>1, <2>2, <3>1, <3>2, <3>3 DEF Consumes, Full
  <2> QED BY <2>1, <2>2
<1> QED BY <1>3, <1>4, <1>5, <1>6

LEMMA SeatStep ==
  ASSUME Callers, QueueInv, NEW c \in Consumers, Seat(c)
  PROVE  RingInv'
<1> USE FixQueueAssumption DEF QueueInv, RingInv, QueueTypeOK, Users
<1>1. /\ UNCHANGED <<nPreWrite, nWrite, mark, data, seen>> /\ nRead' = nRead + 1
      /\ op[c] = "seat" /\ op' = [op EXCEPT ![c] = "read"] /\ pos' = [pos EXCEPT ![c] = nRead]
  BY DEF Seat, GoesTo
<1>2. nRead < nWrite
  BY <1>1, ReadBelowWrite
<1>3. \A p \in Nat : (Full(p) <=> Full(p)') /\ (Active(p)' => Active(p))
  BY <1>1, <1>2 DEF Full, Active, Slot, Claims
<1>4. SlotsApart' /\ Written' /\ Reserved'
  <2>1. SlotsApart'
    BY <1>3 DEF SlotsApart, Slot
  <2>2. Written'
    BY <1>1, <1>3 DEF Written
  <2>3. Reserved'
    BY <1>1, <1>3 DEF Reserved, Fills
  <2> QED BY <2>1, <2>2, <2>3
<1>5. OneEach'
  BY <1>1 DEF OneEach, Fills, Claims, Consumes
<1>6. \A u \in Producers : Produces(u)'
  BY <1>1, <1>3 DEF Produces, Fills, Slot
<1>7. \A e \in Consumers : Consumes(e)'
  BY <1>1, <1>2, <1>3 DEF Consumes, Claims, Written
<1> QED BY <1>4, <1>5, <1>6, <1>7

LEMMA ClearStep ==
  ASSUME Callers, QueueInv, NEW c \in Consumers, Clear(c)
  PROVE  RingInv'
<1> USE FixQueueAssumption DEF QueueInv, RingInv, QueueTypeOK, Users
<1> DEFINE q == pos[c]
<1>1. /\ UNCHANGED <<nPreWrite, nWrite, nRead, data>>
      /\ op[c] = "clear" /\ op' = [op EXCEPT ![c] = "idle"] /\ pos' = [pos EXCEPT ![c] = 0]
      /\ seen' = [seen EXCEPT ![c] = 0] /\ mark' = [mark EXCEPT ![Slot(q)] = {}]
  BY DEF Clear, GoesTo, EndsCall, counters
<1>2. q \in Nat /\ q < nRead /\ Active(q)
  BY <1>1 DEF Consumes, Claims, Active
<1>3. \A p \in Nat : Active(p)' => Active(p) /\ p # q
  BY <1>1, <1>2 DEF Active, Claims, OneEach
<1>4. \A p \in Nat : Active(p)' => Slot(p) # Slot(q)
  BY <1>2, <1>3 DEF SlotsApart
<1>5. \A p \in Nat : Active(p)' /\ Full(p) => Full(p)'
  BY <1>1, <1>4, SlotType DEF Full, Slot
<1>6. SlotsApart'
  BY <1>3 DEF SlotsApart, Slot
<1>7. \A p \in Nat : nRead <= p /\ p < nPreWrite => Active(p)'
  BY <1>1 DEF Active
<1>8. Written' /\ Reserved' /\ OneEach'
  <2>1. Written'
    BY <1>1, <1>5, <1>7 DEF Written
  <2>2. Reserved'
    BY <1>1, <1>5, <1>7, ReadBelowWrite DEF Reserved, Fills
  <2>3. OneEach'
    BY <1>1 DEF OneEach, Fills, Claims
  <2> QED BY <2>1, <2>2, <2>3
<1>9. ASSUME NEW u \in Producers PROVE Produces(u)'
  <2>1. op'[u] = op[u] /\ pos'[u] = pos[u]
    BY <1>1
  <2>2. Fills(u) => Slot(pos[u]) # Slot(q) /\ Slot(pos[u]) \in Slots
    BY <1>4, <1>7, FillsIsActive, SlotType
  <2>3. op[u] = "advance" /\ nWrite <= pos[u] => Full(pos[u])'
    <3>1. ASSUME op[u] = "advance", nWrite <= pos[u] PROVE Full(pos[u])'
      <4>1. pos[u] \in Nat /\ pos[u] < nPreWrite /\ Full(pos[u])
        BY <3>1 DEF Produces
      <4>2. Active(pos[u])'
        BY <1>1, <1>2, <3>1, <4>1, ReadBelowWrite DEF Active
      <4> QED BY <1>1, <1>5, <2>1, <4>1, <4>2
    <3> QED BY <3>1
  <2> QED BY <1>1, <2>1, <2>2, <2>3 DEF Produces, Fills, Slot
<1>10. ASSUME NEW e \in Consumers PROVE Consumes(e)'
  <2>1. CASE e = c
    BY <1>1, <2>1 DEF Consumes, Claims
  <2>2. CASE e # c
    <3>1. op'[e] = op[e] /\ pos'[e] = pos[e] /\ seen'[e] = seen[e]
      BY <1>1, <2>2
    <3>2. Claims(e) => Active(pos[e])'
      BY <3>1 DEF Active, Claims
    <3>3. Claims(e) => Full(pos[e])'
      <4>1. pos[e] \in Nat /\ (Claims(e) => Full(pos[e]))
        BY DEF Consumes
      <4> QED BY <1>5, <3>1, <3>2, <4>1
    <3> QED BY <1>1, <3>1, <3>3 DEF Consumes, Claims, Full
  <2> QED BY <2>1, <2>2
<1> QED BY <1>6, <1>8, <1>9, <1>10

(* The one that moves m_nWrite on hands over to the next before it leaves.  *)
Serves(t) ==
  \/ op[t] \in {"take", "store", "fill", "advance", "look"} /\ pos[t] = nWrite
  \/ op[t] = "more" /\ pos[t] + 1 = nWrite

LEMMA ServedStep ==
  ASSUME Callers, QueueInv, QueueNext
  PROVE  Served'
<1> USE FixQueueAssumption DEF QueueInv, RingInv, QueueTypeOK, Users
<1>1. ASSUME NEW c \in Consumers, Ask(c) \/ PopGoesOn(c) PROVE Served'
  <2>1. /\ UNCHANGED <<nPreWrite, nWrite>>
        /\ \A t \in Producers : op'[t] = op[t] /\ pos'[t] = pos[t]
    BY <1>1 DEF Ask, PopGoesOn, Asked, GiveBack, GiveBackBy, Seat, Read, Copy, Clear, GoesTo,
                EndsCall, counters
  <2> QED BY <2>1 DEF Served
<1>2. ASSUME NEW t \in Producers, Reserve(t) PROVE Served'
  <2>1. /\ UNCHANGED nWrite /\ nPreWrite' = nPreWrite + 1 /\ op[t] = "idle"
        /\ op'[t] = "take" /\ pos'[t] = nPreWrite
        /\ \A u \in Producers : u # t => op'[u] = op[u] /\ pos'[u] = pos[u]
    BY <1>2 DEF Reserve, GoesTo
  <2>2. CASE nWrite < nPreWrite
    <3>1. PICK u \in Producers : Serves(u)
      BY <2>2 DEF Served, Serves
    <3>2. Serves(u)'
      BY <2>1, <3>1 DEF Serves
    <3> QED BY <3>2 DEF Served, Serves
  <2>3. CASE nWrite = nPreWrite
    BY <2>1, <2>3 DEF Served
  <2> QED BY <2>2, <2>3
<1>3. ASSUME NEW t \in Producers, PushGoesOn(t), nWrite' < nPreWrite' PROVE Served'
  <2>1. /\ nPreWrite' = nPreWrite
        /\ \A u \in Producers : u # t => op'[u] = op[u] /\ pos'[u] = pos[u]
    BY <1>3 DEF PushGoesOn, TakeSlot, TakeSlotAs, Store, Fill, Advance, More, Look, LookIf,
                GoesTo, EndsCall, counters
  <2>2. nWrite < nPreWrite
    BY <1>3, <2>1 DEF PushGoesOn, TakeSlot, TakeSlotAs, Store, Fill, Advance, More, Look,
                      LookIf, GoesTo, EndsCall, counters
  <2>3. PICK u \in Producers : Serves(u)
    BY <2>2 DEF Served, Serves
  <2>4. CASE TakeSlot(t) \/ Store(t) \/ Fill(t)
    <3>1. UNCHANGED nWrite /\ (Serves(t) => Serves(t)')
      BY <2>4 DEF TakeSlot, TakeSlotAs, Store, Fill, GoesTo, counters, Serves, Produces
    <3>2. Serves(u)'
      BY <2>1, <2>3, <3>1 DEF Serves
    <3> QED BY <3>2 DEF Served, Serves
  <2>5. CASE Advance(t)
    <3>1. CASE nWrite = pos[t]
      <4>1. Serves(t)'
        BY <2>5, <3>1 DEF Advance, GoesTo, Serves
      <4> QED BY <4>1 DEF Served, Serves
    <3>2. CASE nWrite # pos[t]
      <4>1. u # t /\ nWrite' = nWrite
        BY <2>3, <2>5, <3>2 DEF Advance, Serves
      <4>2. Serves(u)'
        BY <2>1, <2>3, <4>1 DEF Serves
      <4> QED BY <4>2 DEF Served, Serves
    <3> QED BY <3>1, <3>2
  <2>6. CASE More(t)
    <3>1. Serves(t) => Serves(t)'
      BY <2>2, <2>6 DEF More, GoesTo, EndsCall, counters, Serves
    <3>2. Serves(u)'
      BY <2>1, <2>3, <2>6, <3>1 DEF More, counters, Serves
    <3> QED BY <3>2 DEF Served, Serves
  <2>7. CASE Look(t)
    <3>1. UNCHANGED nWrite
      BY <2>7 DEF Look, LookIf, counters
    <3>2. CASE u = t /\ "filled" \notin mark[Slot(pos[t])]
      <4>1. pos[t] = nWrite
        BY <2>3, <2>7, <3>2 DEF Look, LookIf, Serves
      <4>2. ~Full(nWrite)
        BY <3>2, <4>1 DEF Full
      <4>3. PICK v \in Producers : Fills(v) /\ pos[v] = nWrite
        BY <2>2, <4>2 DEF Reserved
      <4>4. Serves(v)'
        BY <2>1, <2>7, <3>1, <4>3 DEF Look, LookIf, Serves, Fills
      <4> QED BY <4>4 DEF Served, Serves
    <3>3. CASE u = t /\ "filled" \in mark[Slot(pos[t])]
      <4>1. Serves(t)'
        BY <2>3, <2>7, <3>1, <3>3 DEF Look, LookIf, GoesTo, Serves
      <4> QED BY <4>1 DEF Served, Serves
    <3>4. CASE u # t
      <4>1. Serves(u)'
        BY <2>1, <2>3, <3>1, <3>4 DEF Serves
      <4> QED BY <4>1 DEF Served, Serves
    <3> QED BY <3>2, <3>3, <3>4
  <2> QED BY <1>3, <2>4, <2>5, <2>6, <2>7 DEF PushGoesOn
<1> QED BY <1>1, <1>2, <1>3 DEF QueueNext, Served
-----------------------------------------------------------------------------
LEMMA QueueStepInv == Callers /\ QueueInv /\ [QueueNext]_queueVars => QueueInv'
<1>1. ASSUME Callers, QueueInv, QueueNext PROVE RingInv'
  BY <1>1, ReserveStep, FillingStep, MovingStep, AskingStep, SeatStep, ClearStep
  DEF QueueNext, PushGoesOn, PopGoesOn
<1>2. ASSUME Callers, QueueInv, UNCHANGED queueVars PROVE QueueInv'
  <2> USE <1>2 DEF queueVars
  <2>1. QueueTypeOK'
    BY DEF QueueInv, QueueTypeOK
  <2>2. /\ \A p : Full(p)' = Full(p) /\ Active(p)' = Active(p)
        /\ \A t : Fills(t)' = Fills(t) /\ Claims(t)' = Claims(t)
    BY DEF Full, Active, Fills, Claims
  <2>3. SlotsApart' /\ Written' /\ Reserved' /\ OneEach'
    BY <2>2 DEF QueueInv, RingInv, SlotsApart, Written, Reserved, OneEach
  <2>4. \A t \in Producers : Produces(t)'
    BY <2>2 DEF QueueInv, RingInv, Produces
  <2>5. \A c \in Consumers : Consumes(c)'
    BY <2>2 DEF QueueInv, RingInv, Consumes
  <2>6. SeatsFit'
    BY SeatsKept DEF QueueInv, QueueTypeOK
  <2>7. Served'
    BY DEF QueueInv, Served
  <2> QED BY <2>1, <2>3, <2>4, <2>5, <2>6, <2>7 DEF QueueInv, RingInv
<1> QED BY <1>1, <1>2, QueueTypeStep, SeatsStep, ServedStep DEF QueueInv

LEMMA QueueInductive ==
  ASSUME Callers
  PROVE  QueueSpec => []QueueInv
<1>1. QueueInit => QueueInv
  BY QueueInitInv
<1>2. QueueInv /\ [QueueNext]_queueVars => QueueInv'
  BY QueueStepInv
<1> QED BY <1>1, <1>2, PTL DEF QueueSpec

(* Types, and that m_nWrite does not pass m_nPreWrite nor m_nRead m_nPreRead. *)
THEOREM QueueTypeTheorem ==
  ASSUME Callers
  PROVE  QueueSpec => []QueueTypeOK
<1>1. QueueInv => QueueTypeOK
  BY DEF QueueInv
<1>2. QueueSpec => []QueueInv
  BY QueueInductive
<1> QED BY <1>1, <1>2, PTL

(* assert(0) of Pop is out of reach: a consumer that was let in finds a    *)
(* filled slot (61-77).                                                    *)
THEOREM NoErrorTheorem ==
  ASSUME Callers
  PROVE  QueueSpec => []NoErrorPop
<1>1. QueueInv => NoErrorPop
  BY DEF QueueInv, RingInv, Consumes, NoErrorPop
<1>2. QueueSpec => []QueueInv
  BY QueueInductive
<1> QED BY <1>1, <1>2, PTL

(* No slot has two users: what a producer writes no other writes, and no   *)
(* consumer copies meanwhile.                                              *)
THEOREM SlotTheorem ==
  ASSUME Callers
  PROVE  QueueSpec => []SlotIsPrivate
<1>1. QueueInv => SlotIsPrivate
  <2> SUFFICES ASSUME QueueInv, NEW t \in Users, NEW u \in Users, t # u,
                      op[t] \in {"store", "fill"},
                      op[u] \in {"store", "fill", "copy", "clear"}
               PROVE  Slot(pos[t]) # Slot(pos[u])
    BY DEF SlotIsPrivate
  <2>1. t \in Producers /\ Fills(t)
    BY DEF QueueInv, RingInv, Consumes, Users, Fills
  <2>2. CASE u \in Producers
    BY <2>1, <2>2, OthersApart DEF QueueInv, RingInv, Produces, Fills
  <2>3. CASE u \in Consumers
    <3>1. Full(pos[u]) /\ pos[u] \in Nat
      BY <2>3 DEF QueueInv, RingInv, QueueTypeOK, Consumes, Claims
    <3> QED BY <2>1, <3>1, OthersApart
  <2> QED BY <2>2, <2>3 DEF Users
<1>2. QueueSpec => []QueueInv
  BY QueueInductive
<1> QED BY <1>1, <1>2, PTL

(* A consumer gets the value of its own position.                          *)
THEOREM OrderTheorem ==
  ASSUME Callers
  PROVE  QueueSpec => []PopsInOrder
<1>1. QueueInv => PopsInOrder
  BY DEF QueueInv, RingInv, Consumes, PopsInOrder
<1>2. QueueSpec => []QueueInv
  BY QueueInductive
<1> QED BY <1>1, <1>2, PTL

(* When no call is under way everything pushed is visible: whichever of    *)
(* the producers came last has moved m_nWrite over it.                     *)
THEOREM AllVisibleTheorem ==
  ASSUME Callers
  PROVE  QueueSpec => []AllVisible
<1>1. QueueInv => AllVisible
  BY DEF QueueInv, QueueTypeOK, Served, AllVisible, AtRest, Users
<1>2. QueueSpec => []QueueInv
  BY QueueInductive
<1> QED BY <1>1, <1>2, PTL

(* When no call is under way m_nPreRead has come back to m_nRead: the      *)
(* places that were asked for in vain were all given back (58-60).         *)
THEOREM GivenBackTheorem ==
  ASSUME Callers
  PROVE  QueueSpec => []PlacesGivenBack
<1>1. QueueInv => PlacesGivenBack
  <2> SUFFICES ASSUME QueueInv, AtRest PROVE nPreRead = nRead
    BY DEF PlacesGivenBack
  <2>1. Asking = {}
    BY DEF AtRest, Asking, Users
  <2> QED BY <2>1, FS_EmptySet DEF QueueInv, SeatsFit, QueueTypeOK
<1>2. QueueSpec => []QueueInv
  BY QueueInductive
<1> QED BY <1>1, <1>2, PTL
=============================================================================
