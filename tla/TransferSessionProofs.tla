------------------------ MODULE TransferSessionProofs ------------------------
(***************************************************************************)
(* Proofs about TransferSession for any number of threads, connections,    *)
(* pieces of data and queued calls: the data of one thread arrives in its  *)
(* order, and a Close loses nothing that was sent before it.               *)
(*                                                                         *)
(* The invariant looks at the data of the connection that is up as one     *)
(* stream: what is on the wire, then what is in the send buffer. Writing   *)
(* moves the border between the two and changes nothing of the stream.     *)
(*                                                                         *)
(* The types are proved at the end, for every use of a session.            *)
(***************************************************************************)
EXTENDS TransferSession, SequenceTheorems, TLAPS

Senders == Threads \cup {Net}
Items == [do : {"await", "connected", "send", "close", "must"}, data : Nat]
Sends == [by : Senders, to : Nat]

FlowTypes ==
  /\ conns \in Nat /\ sock \in 0 .. conns
  /\ out \in Seq(Nat)
  /\ wire \in Seq(Seq(Nat)) /\ Len(wire) = conns
  /\ sealed \in Seq(SUBSET Nat) /\ Len(sealed) = conns

CallTypes ==
  /\ sends \in Seq(Sends) /\ \A n \in 1 .. Len(sends) : sends[n].to <= conns
  /\ queue \in Seq(Items)
  /\ pc \in [Threads -> [at : Places, conn : Nat]]
  /\ \A t \in Threads : pc[t].conn <= conns

-----------------------------------------------------------------------------
(* A stream s of numbers of pieces, the queue q behind it, and the list    *)
(* from of all pieces sent.                                                *)

Known(s, from) == \A i \in 1 .. Len(s) : s[i] \in 1 .. Len(from)

Ordered(s, from) ==
  \A i, j \in 1 .. Len(s) :
    i < j /\ from[s[i]].by = from[s[j]].by => s[i] < s[j]

Ahead(s, q, from) ==
  \A i \in 1 .. Len(s), j \in 1 .. Len(q) :
    q[j].do = "send" /\ from[s[i]].by = from[q[j].data].by => s[i] < q[j].data

Good(s, q, from) == Known(s, from) /\ Ordered(s, from) /\ Ahead(s, q, from)

(* The pieces in the queue are other threads', in the order of their       *)
(* numbers, and a call of Close knows how many were sent before it.        *)
QueueGood(q, from) ==
  /\ \A i \in 1 .. Len(q) :
       /\ q[i].data <= Len(from)
       /\ q[i].do = "send" => q[i].data > 0 /\ from[q[i].data].by # Net
  /\ \A i, j \in 1 .. Len(q) :
       i < j /\ q[j].do = "send" => q[i].data < q[j].data

OnStream(s, n) == \E i \in 1 .. Len(s) : s[i] = n
InQueue(q, n) == \E j \in 1 .. Len(q) : q[j].do = "send" /\ q[j].data = n

(* What was sent on connection c is on the stream or still queued.         *)
Covers(s, q, from, c) ==
  \A n \in 1 .. Len(from) : from[n].to = c => OnStream(s, n) \/ InQueue(q, n)

LEMMA Grown ==
  ASSUME NEW S, NEW s \in Seq(S), NEW x \in S
  PROVE  LET t == Append(s, x)
         IN  /\ t \in Seq(S) /\ Len(s) \in Nat /\ Len(t) = Len(s) + 1
             /\ Len(s) + 1 \in 1 .. Len(t) /\ t[Len(s) + 1] = x
             /\ \A i \in 1 .. Len(s) : t[i] = s[i] /\ i \in 1 .. Len(t)
             /\ \A i \in 1 .. Len(t) :
                  \/ i \in 1 .. Len(s) /\ t[i] = s[i]
                  \/ i = Len(s) + 1 /\ t[i] = x
<1> DEFINE t == Append(s, x)
<1>1. /\ t \in Seq(S) /\ Len(s) \in Nat /\ Len(t) = Len(s) + 1
      /\ t[Len(s) + 1] = x /\ \A i \in 1 .. Len(s) : t[i] = s[i]
  BY AppendProperties
<1> HIDE DEF t
<1>2. \A i \in 1 .. Len(t) : i \in 1 .. Len(s) \/ i = Len(s) + 1
  BY <1>1
<1> QED BY <1>1, <1>2 DEF t

LEMMA ItemData ==
  ASSUME NEW q \in Seq(Items)
  PROVE  \A j \in 1 .. Len(q) : q[j].data \in Nat
<1>1. \A j \in 1 .. Len(q) : q[j] \in Items
  BY ElementOfSeq
<1>2. \A x \in Items : x.data \in Nat
  BY DEF Items
<1> QED BY <1>1, <1>2

LEMMA GoodPrefix ==
  ASSUME NEW s \in Seq(Nat), NEW b \in Seq(Nat), NEW k \in 0 .. Len(b),
         NEW from \in Seq(Sends),
         Known(s \o b, from), Ordered(s \o b, from)
  PROVE  /\ Known(s \o SubSeq(b, 1, k), from)
         /\ Ordered(s \o SubSeq(b, 1, k), from)
<1> DEFINE h == SubSeq(b, 1, k)
           p == s \o h
<1>1. h \in Seq(Nat) /\ Len(h) = k /\ \A i \in 1 .. k : h[i] = b[i]
  BY SubSeqProperties, ElementOfSeq
<1>2. /\ Len(p) = Len(s) + k /\ Len(s \o b) = Len(s) + Len(b)
      /\ \A i \in 1 .. Len(p) : p[i] = (s \o b)[i]
  <2> HIDE DEF h
  <2>1. /\ Len(p) = Len(s) + Len(h) /\ Len(s \o b) = Len(s) + Len(b)
        /\ \A i \in 1 .. Len(s) + Len(h) :
             p[i] = IF i <= Len(s) THEN s[i] ELSE h[i - Len(s)]
        /\ \A i \in 1 .. Len(s) + Len(b) :
             (s \o b)[i] = IF i <= Len(s) THEN s[i] ELSE b[i - Len(s)]
    BY <1>1, ConcatProperties
  <2>2. Len(s) \in Nat /\ Len(b) \in Nat
    OBVIOUS
  <2> HIDE DEF p
  <2>3. ASSUME NEW i \in 1 .. Len(s) + Len(h) PROVE p[i] = (s \o b)[i]
    <3>1. i \in 1 .. Len(s) + Len(b)
      BY <1>1, <2>2, <2>3, ElementOfSeq
    <3>2. CASE i <= Len(s)
      BY <2>1, <3>1, <3>2
    <3>3. CASE ~(i <= Len(s))
      <4>1. i - Len(s) \in 1 .. k
        BY <1>1, <2>2, <2>3, <3>3
      <4> QED BY <1>1, <2>1, <3>1, <3>3, <4>1
    <3> QED BY <3>2, <3>3
  <2> QED BY <1>1, <2>1, <2>3
<1> HIDE DEF p
<1>3. \A i \in 1 .. Len(p) : p[i] = (s \o b)[i] /\ i \in 1 .. Len(s \o b)
  BY <1>2
<1>4. Known(p, from) /\ Ordered(p, from)
  BY <1>3 DEF Known, Ordered
<1> QED BY <1>4 DEF p

LEMMA StreamCut ==
  ASSUME NEW s \in Seq(Nat), NEW b \in Seq(Nat), NEW k \in 0 .. Len(b)
  PROVE  /\ SubSeq(b, 1, k) \in Seq(Nat) /\ SubSeq(b, k + 1, Len(b)) \in Seq(Nat)
         /\ (s \o SubSeq(b, 1, k)) \o SubSeq(b, k + 1, Len(b)) = s \o b
<1> DEFINE h == SubSeq(b, 1, k)
           t == SubSeq(b, k + 1, Len(b))
<1>1. h \in Seq(Nat) /\ t \in Seq(Nat)
  BY SubSeqProperties, ElementOfSeq
<1>2. h \o t = SubSeq(b, 1, Len(b))
  <2>1. /\ 1 \in 1 .. Len(b) + 1 /\ k \in (1 - 1) .. Len(b)
        /\ Len(b) \in k .. Len(b)
    OBVIOUS
  <2> QED BY <2>1, ConcatAdjacentSubSeq, Zenon
<1>3. SubSeq(b, 1, Len(b)) = b
  BY SubSeqFull
<1> HIDE DEF h, t
<1>4. (s \o h) \o t = s \o (h \o t)
  BY <1>1, ConcatAssociative, SMTT(20)
<1>5. (s \o h) \o t = s \o b
  BY <1>2, <1>3, <1>4, Zenon
<1> QED BY <1>1, <1>5 DEF h, t

(* The head of the queue goes to the end of the stream.                    *)
LEMMA HeadMoves ==
  ASSUME NEW s \in Seq(Nat), NEW q \in Seq(Items), NEW from \in Seq(Sends),
         Good(s, q, from), QueueGood(q, from), q # <<>>, Head(q).do = "send"
  PROVE  /\ Good(Append(s, Head(q).data), Tail(q), from)
         /\ QueueGood(Tail(q), from)
         /\ \A c : Covers(s, q, from, c) =>
              Covers(Append(s, Head(q).data), Tail(q), from, c)
<1> DEFINE n == Head(q).data
           t == Append(s, n)
           r == Tail(q)
<1>1. /\ n \in Nat /\ q[1] = Head(q) /\ 1 \in 1 .. Len(q)
      /\ r \in Seq(Items) /\ Len(r) = Len(q) - 1
      /\ \A j \in 1 .. Len(r) : r[j] = q[j + 1] /\ j + 1 \in 1 .. Len(q)
  <2>1. Head(q) \in Items /\ q[1] = Head(q) /\ 1 \in 1 .. Len(q)
    BY HeadTailProperties
  <2> QED BY <2>1, HeadTailProperties DEF Items
<1>2. /\ Len(s) \in Nat /\ Len(t) = Len(s) + 1
      /\ \A i \in 1 .. Len(s) : t[i] = s[i] /\ s[i] \in Nat /\ i \in 1 .. Len(t)
      /\ \A i \in 1 .. Len(t) :
           \/ i \in 1 .. Len(s) /\ t[i] = s[i]
           \/ i = Len(s) + 1 /\ t[i] = n
  BY <1>1, Grown, ElementOfSeq
<1>3. n \in 1 .. Len(from) /\ \A j \in 1 .. Len(r) : r[j].do = "send" => n < r[j].data
  BY <1>1 DEF QueueGood
<1>0. \A i \in 1 .. Len(s) : from[s[i]].by = from[n].by => s[i] < n
  BY <1>1 DEF Good, Ahead
<1> HIDE DEF n, t, r
<1>4. Known(t, from)
  BY <1>2, <1>3 DEF Good, Known
<1>5. Ordered(t, from)
  <2> SUFFICES ASSUME NEW i \in 1 .. Len(t), NEW j \in 1 .. Len(t), i < j,
                      from[t[i]].by = from[t[j]].by
               PROVE  t[i] < t[j]
    BY DEF Ordered
  <2>1. i \in 1 .. Len(s) /\ t[i] = s[i]
    BY <1>2
  <2>2. CASE j = Len(s) + 1 /\ t[j] = n
    BY <1>0, <2>1, <2>2
  <2>3. CASE j \in 1 .. Len(s) /\ t[j] = s[j]
    BY <2>1, <2>3 DEF Good, Ordered
  <2> QED BY <1>2, <2>2, <2>3
<1>6. Ahead(t, r, from)
  <2> SUFFICES ASSUME NEW i \in 1 .. Len(t), NEW j \in 1 .. Len(r), r[j].do = "send",
                      from[t[i]].by = from[r[j].data].by
               PROVE  t[i] < r[j].data
    BY DEF Ahead
  <2>1. CASE t[i] = n
    BY <1>3, <2>1
  <2>2. CASE i \in 1 .. Len(s) /\ t[i] = s[i]
    BY <1>1, <2>2 DEF Good, Ahead
  <2> QED BY <1>2, <2>1, <2>2
<1>7. QueueGood(r, from)
  <2>1. \A i \in 1 .. Len(r) :
          /\ r[i].data <= Len(from)
          /\ r[i].do = "send" => r[i].data > 0 /\ from[r[i].data].by # Net
    BY <1>1 DEF QueueGood
  <2>2. ASSUME NEW i \in 1 .. Len(r), NEW j \in 1 .. Len(r), i < j, r[j].do = "send"
        PROVE  r[i].data < r[j].data
    <3>1. /\ i + 1 \in 1 .. Len(q) /\ r[i] = q[i + 1]
          /\ j + 1 \in 1 .. Len(q) /\ r[j] = q[j + 1]
      BY <1>1
    <3>2. i + 1 < j + 1
      BY <2>2
    <3> QED BY <2>2, <3>1, <3>2 DEF QueueGood
  <2> QED BY <2>1, <2>2 DEF QueueGood
<1>8. ASSUME NEW c, Covers(s, q, from, c) PROVE Covers(t, r, from, c)
  <2> SUFFICES ASSUME NEW m \in 1 .. Len(from), from[m].to = c, ~OnStream(t, m)
               PROVE  InQueue(r, m)
    BY DEF Covers
  <2>1. m # n /\ ~OnStream(s, m)
    BY <1>2 DEF OnStream
  <2>2. PICK j \in 1 .. Len(q) : q[j].do = "send" /\ q[j].data = m
    BY <1>8, <2>1 DEF Covers, InQueue
  <2>3. j # 1
    BY <1>1, <2>1, <2>2 DEF n
  <2>4. j - 1 \in 1 .. Len(r) /\ r[j - 1] = q[j]
    BY <1>1, <2>3
  <2> QED BY <2>2, <2>4 DEF InQueue
<1> QED BY <1>4, <1>5, <1>6, <1>7, <1>8 DEF Good, n, t, r

(* Another call goes from the queue.                                       *)
LEMMA HeadGoes ==
  ASSUME NEW s \in Seq(Nat), NEW q \in Seq(Items), NEW from \in Seq(Sends),
         QueueGood(q, from), q # <<>>
  PROVE  /\ QueueGood(Tail(q), from)
         /\ Good(s, q, from) => Good(s, Tail(q), from)
         /\ Head(q).do # "send" =>
              \A c : Covers(s, q, from, c) => Covers(s, Tail(q), from, c)
<1> DEFINE r == Tail(q)
<1>1. /\ q[1] = Head(q) /\ r \in Seq(Items) /\ Len(r) = Len(q) - 1
      /\ \A j \in 1 .. Len(r) : r[j] = q[j + 1] /\ j + 1 \in 1 .. Len(q)
      /\ \A j \in 1 .. Len(q) : j # 1 => j - 1 \in 1 .. Len(r) /\ r[j - 1] = q[j]
  BY HeadTailProperties
<1> HIDE DEF r
<1>2. QueueGood(r, from)
  <2>1. ASSUME NEW i \in 1 .. Len(r)
        PROVE  /\ r[i].data <= Len(from)
               /\ r[i].do = "send" => r[i].data > 0 /\ from[r[i].data].by # Net
    <3>1. r[i] = q[i + 1] /\ i + 1 \in 1 .. Len(q)
      BY <1>1
    <3> QED BY <3>1 DEF QueueGood
  <2>2. ASSUME NEW i \in 1 .. Len(r), NEW j \in 1 .. Len(r), i < j, r[j].do = "send"
        PROVE  r[i].data < r[j].data
    <3>1. /\ i + 1 \in 1 .. Len(q) /\ r[i] = q[i + 1]
          /\ j + 1 \in 1 .. Len(q) /\ r[j] = q[j + 1]
      BY <1>1
    <3>2. i + 1 < j + 1
      BY <2>2
    <3> QED BY <2>2, <3>1, <3>2 DEF QueueGood
  <2> QED BY <2>1, <2>2 DEF QueueGood
<1>3. ASSUME Good(s, q, from) PROVE Good(s, r, from)
  <2>1. ASSUME NEW i \in 1 .. Len(s), NEW j \in 1 .. Len(r), r[j].do = "send",
               from[s[i]].by = from[r[j].data].by
        PROVE  s[i] < r[j].data
    <3>1. j + 1 \in 1 .. Len(q) /\ r[j] = q[j + 1]
      BY <1>1
    <3> QED BY <1>3, <2>1, <3>1 DEF Good, Ahead
  <2>2. Ahead(s, r, from)
    BY <2>1 DEF Ahead
  <2> QED BY <1>3, <2>2 DEF Good
<1>4. ASSUME Head(q).do # "send", NEW c, Covers(s, q, from, c)
      PROVE  Covers(s, r, from, c)
  <2> SUFFICES ASSUME NEW m, InQueue(q, m) PROVE InQueue(r, m)
    BY <1>4 DEF Covers
  <2>1. PICK j \in 1 .. Len(q) : q[j].do = "send" /\ q[j].data = m
    BY DEF InQueue
  <2>2. j # 1
    BY <1>1, <1>4, <2>1
  <2> QED BY <1>1, <2>1, <2>2 DEF InQueue
<1> QED BY <1>2, <1>3, <1>4 DEF r

(* Another thread's piece is queued.                                       *)
LEMMA SendQueued ==
  ASSUME NEW q \in Seq(Items), NEW from \in Seq(Sends),
         NEW r \in Sends, r.by # Net, QueueGood(q, from)
  PROVE  LET p == Append(q, [do |-> "send", data |-> Len(from) + 1])
             all == Append(from, r)
         IN  /\ QueueGood(p, all)
             /\ \A s \in Seq(Nat) : Good(s, q, from) => Good(s, p, all)
             /\ \A s \in Seq(Nat) : \A c : Covers(s, q, from, c) => Covers(s, p, all, c)
<1> DEFINE x == [do |-> "send", data |-> Len(from) + 1]
           p == Append(q, x)
           all == Append(from, r)
<1>1. /\ Len(q) \in Nat /\ Len(p) = Len(q) + 1
      /\ p[Len(q) + 1] = x /\ Len(q) + 1 \in 1 .. Len(p)
      /\ \A j \in 1 .. Len(q) : p[j] = q[j] /\ j \in 1 .. Len(p)
      /\ \A j \in 1 .. Len(p) :
           \/ j \in 1 .. Len(q) /\ p[j] = q[j]
           \/ j = Len(q) + 1 /\ p[j] = x
  <2>1. x \in Items
    BY DEF Items
  <2> QED BY <2>1, Grown
<1>2. x.do = "send" /\ x.data = Len(from) + 1
  OBVIOUS
<1>3. /\ Len(from) \in Nat /\ Len(all) = Len(from) + 1
      /\ all[Len(from) + 1] = r
      /\ \A n \in 1 .. Len(from) : all[n] = from[n] /\ n \in 1 .. Len(all)
      /\ \A n \in 1 .. Len(all) :
           \/ n \in 1 .. Len(from) /\ all[n] = from[n]
           \/ n = Len(from) + 1 /\ all[n] = r
  BY Grown
<1>4. \A j \in 1 .. Len(q) : q[j].data \in Nat
  BY ItemData
<1> HIDE DEF x, p, all
<1>5. QueueGood(p, all)
  <2>1. ASSUME NEW i \in 1 .. Len(p)
        PROVE  /\ p[i].data <= Len(all)
               /\ p[i].do = "send" => p[i].data > 0 /\ all[p[i].data].by # Net
    <3>1. CASE i = Len(q) + 1 /\ p[i] = x
      BY <1>2, <1>3, <3>1
    <3>2. CASE i \in 1 .. Len(q) /\ p[i] = q[i]
      <4>1. q[i].data <= Len(from) /\ q[i].data <= Len(all)
        BY <1>3, <1>4, <3>2 DEF QueueGood
      <4>2. q[i].do = "send" => q[i].data > 0 /\ from[q[i].data].by # Net
        BY <3>2 DEF QueueGood
      <4>3. q[i].do = "send" => q[i].data \in 1 .. Len(from)
        BY <1>4, <3>2, <4>1, <4>2
      <4> QED BY <1>3, <3>2, <4>1, <4>2, <4>3
    <3> QED BY <1>1, <3>1, <3>2
  <2>2. ASSUME NEW i \in 1 .. Len(p), NEW j \in 1 .. Len(p), i < j, p[j].do = "send"
        PROVE  p[i].data < p[j].data
    <3>1. i \in 1 .. Len(q) /\ p[i] = q[i]
      BY <1>1, <2>2
    <3>2. CASE j = Len(q) + 1 /\ p[j] = x
      BY <1>2, <1>3, <1>4, <3>1, <3>2 DEF QueueGood
    <3>3. CASE j \in 1 .. Len(q) /\ p[j] = q[j]
      BY <2>2, <3>1, <3>3 DEF QueueGood
    <3> QED BY <1>1, <3>2, <3>3
  <2> QED BY <2>1, <2>2 DEF QueueGood
<1>6. ASSUME NEW s \in Seq(Nat), Good(s, q, from) PROVE Good(s, p, all)
  <2>1. Known(s, all) /\ \A i \in 1 .. Len(s) : s[i] < Len(from) + 1
    BY <1>3, <1>6 DEF Good, Known
  <2>2. Ordered(s, all)
    BY <1>3, <1>6 DEF Good, Known, Ordered
  <2>3. Ahead(s, p, all)
    <3> SUFFICES ASSUME NEW i \in 1 .. Len(s), NEW j \in 1 .. Len(p), p[j].do = "send",
                        all[s[i]].by = all[p[j].data].by
                 PROVE  s[i] < p[j].data
      BY DEF Ahead
    <3>1. CASE j = Len(q) + 1
      BY <1>1, <1>2, <2>1, <3>1
    <3>2. CASE j \in 1 .. Len(q)
      <4>1. q[j].data \in 1 .. Len(from) /\ s[i] \in 1 .. Len(from) /\ p[j] = q[j]
        BY <1>1, <1>4, <1>6, <3>2 DEF QueueGood, Good, Known
      <4> QED BY <1>3, <1>6, <3>2, <4>1 DEF Good, Ahead
    <3> QED BY <1>1, <3>1, <3>2
  <2> QED BY <2>1, <2>2, <2>3 DEF Good
<1>7. ASSUME NEW s \in Seq(Nat), NEW c, Covers(s, q, from, c) PROVE Covers(s, p, all, c)
  <2>1. \A m : InQueue(q, m) => InQueue(p, m)
    BY <1>1 DEF InQueue
  <2>2. InQueue(p, Len(from) + 1)
    BY <1>1, <1>2 DEF InQueue
  <2> QED BY <1>3, <1>7, <2>1, <2>2 DEF Covers
<1> QED BY <1>5, <1>6, <1>7 DEF x, p, all

(* Another call is queued, which knows how much was sent before it.        *)
LEMMA CallQueued ==
  ASSUME NEW q \in Seq(Items), NEW from \in Seq(Sends),
         NEW x \in Items, x.do # "send", x.data <= Len(from), QueueGood(q, from)
  PROVE  /\ QueueGood(Append(q, x), from)
         /\ \A s \in Seq(Nat) : Good(s, q, from) => Good(s, Append(q, x), from)
         /\ \A s \in Seq(Nat) : \A c :
              Covers(s, q, from, c) => Covers(s, Append(q, x), from, c)
<1> DEFINE p == Append(q, x)
<1>1. /\ Len(q) \in Nat /\ Len(p) = Len(q) + 1
      /\ \A j \in 1 .. Len(q) : p[j] = q[j] /\ j \in 1 .. Len(p)
      /\ \A j \in 1 .. Len(p) :
           \/ j \in 1 .. Len(q) /\ p[j] = q[j]
           \/ j = Len(q) + 1 /\ p[j] = x
  BY Grown
<1> HIDE DEF p
<1>2. QueueGood(p, from)
  <2>1. ASSUME NEW i \in 1 .. Len(p), NEW j \in 1 .. Len(p), i < j, p[j].do = "send"
        PROVE  p[i].data < p[j].data
    <3>1. j \in 1 .. Len(q) /\ p[j] = q[j]
      BY <1>1, <2>1
    <3>2. i \in 1 .. Len(q) /\ p[i] = q[i]
      BY <1>1, <2>1, <3>1
    <3> QED BY <2>1, <3>1, <3>2 DEF QueueGood
  <2>2. \A i \in 1 .. Len(p) :
          /\ p[i].data <= Len(from)
          /\ p[i].do = "send" => p[i].data > 0 /\ from[p[i].data].by # Net
    BY <1>1 DEF QueueGood
  <2> QED BY <2>1, <2>2 DEF QueueGood
<1>3. \A s \in Seq(Nat) : Good(s, q, from) => Good(s, p, from)
  BY <1>1 DEF Good, Ahead
<1>4. \A m : InQueue(q, m) => InQueue(p, m)
  BY <1>1 DEF InQueue
<1> QED BY <1>2, <1>3, <1>4 DEF Covers, p

(* The network thread sends: its piece overtakes the queue.                *)
LEMMA SentAtOnce ==
  ASSUME NEW s \in Seq(Nat), NEW q \in Seq(Items), NEW from \in Seq(Sends),
         NEW r \in Sends, r.by = Net, QueueGood(q, from)
  PROVE  LET t == Append(s, Len(from) + 1)
             all == Append(from, r)
         IN  /\ QueueGood(q, all)
             /\ Good(s, q, from) => Good(t, q, all)
             /\ \A c : Covers(s, q, from, c) => Covers(t, q, all, c)
<1> DEFINE t == Append(s, Len(from) + 1)
           all == Append(from, r)
<1>1. /\ Len(s) \in Nat /\ Len(t) = Len(s) + 1
      /\ t[Len(s) + 1] = Len(from) + 1 /\ Len(s) + 1 \in 1 .. Len(t)
      /\ \A i \in 1 .. Len(s) : t[i] = s[i] /\ i \in 1 .. Len(t)
      /\ \A i \in 1 .. Len(t) :
           \/ i \in 1 .. Len(s) /\ t[i] = s[i]
           \/ i = Len(s) + 1 /\ t[i] = Len(from) + 1
  BY Grown
<1>2. /\ Len(from) \in Nat /\ Len(all) = Len(from) + 1
      /\ all[Len(from) + 1] = r
      /\ \A n \in 1 .. Len(from) : all[n] = from[n] /\ n \in 1 .. Len(all)
      /\ \A n \in 1 .. Len(all) :
           \/ n \in 1 .. Len(from) /\ all[n] = from[n]
           \/ n = Len(from) + 1 /\ all[n] = r
  BY Grown
<1>3. \A j \in 1 .. Len(q) : q[j].data \in Nat
  BY ItemData
<1> HIDE DEF t, all
<1>4. \A j \in 1 .. Len(q) : q[j].do = "send" =>
        q[j].data \in 1 .. Len(from) /\ all[q[j].data].by # Net
  BY <1>2, <1>3 DEF QueueGood
<1>5. QueueGood(q, all)
  <2>1. \A j \in 1 .. Len(q) : q[j].data <= Len(from) /\ q[j].data <= Len(all)
    BY <1>2, <1>3 DEF QueueGood
  <2> QED BY <1>3, <1>4, <2>1 DEF QueueGood
<1>6. ASSUME Good(s, q, from) PROVE Good(t, q, all)
  <2>1. \A i \in 1 .. Len(s) : s[i] \in 1 .. Len(from) /\ all[s[i]] = from[s[i]]
    BY <1>2, <1>6 DEF Good, Known
  <2>2. Known(t, all)
    <3> SUFFICES ASSUME NEW i \in 1 .. Len(t) PROVE t[i] \in 1 .. Len(all)
      BY DEF Known
    <3>1. CASE t[i] = Len(from) + 1
      BY <1>2, <3>1
    <3>2. CASE i \in 1 .. Len(s) /\ t[i] = s[i]
      BY <1>2, <2>1, <3>2
    <3> QED BY <1>1, <3>1, <3>2
  <2>3. Ordered(t, all)
    <3> SUFFICES ASSUME NEW i \in 1 .. Len(t), NEW j \in 1 .. Len(t), i < j,
                        all[t[i]].by = all[t[j]].by
                 PROVE  t[i] < t[j]
      BY DEF Ordered
    <3>1. i \in 1 .. Len(s) /\ t[i] = s[i]
      BY <1>1
    <3>2. CASE t[j] = Len(from) + 1
      BY <1>2, <2>1, <3>1, <3>2
    <3>3. CASE j \in 1 .. Len(s) /\ t[j] = s[j]
      BY <1>6, <2>1, <3>1, <3>3 DEF Good, Ordered
    <3> QED BY <1>1, <3>2, <3>3
  <2>4. Ahead(t, q, all)
    <3>1. \A j \in 1 .. Len(q) : q[j].do = "send" => all[q[j].data] = from[q[j].data]
      BY <1>2, <1>4
    <3> SUFFICES ASSUME NEW i \in 1 .. Len(t), NEW j \in 1 .. Len(q), q[j].do = "send",
                        all[t[i]].by = all[q[j].data].by
                 PROVE  t[i] < q[j].data
      BY DEF Ahead
    <3>2. CASE t[i] = Len(from) + 1
      BY <1>2, <1>4, <3>2
    <3>3. CASE i \in 1 .. Len(s) /\ t[i] = s[i]
      BY <1>6, <2>1, <3>1, <3>3 DEF Good, Ahead
    <3> QED BY <1>1, <3>2, <3>3
  <2> QED BY <2>2, <2>3, <2>4 DEF Good
<1>7. ASSUME NEW c, Covers(s, q, from, c) PROVE Covers(t, q, all, c)
  <2>1. \A m : OnStream(s, m) => OnStream(t, m)
    BY <1>1 DEF OnStream
  <2>2. OnStream(t, Len(from) + 1)
    BY <1>1 DEF OnStream
  <2> QED BY <1>2, <1>7, <2>1, <2>2 DEF Covers
<1> QED BY <1>5, <1>6, <1>7 DEF t, all

(* What is on a wire stays good when more is sent.                         *)
LEMMA MoreSent ==
  ASSUME NEW from \in Seq(Sends), NEW r \in Sends, NEW s \in Seq(Nat),
         Known(s, from), Ordered(s, from)
  PROVE  Known(s, Append(from, r)) /\ Ordered(s, Append(from, r))
<1> DEFINE all == Append(from, r)
<1>1. /\ Len(from) \in Nat /\ Len(all) = Len(from) + 1
      /\ \A n \in 1 .. Len(from) : all[n] = from[n] /\ n \in 1 .. Len(all)
  BY Grown
<1> HIDE DEF all
<1>2. \A i \in 1 .. Len(s) : s[i] \in 1 .. Len(all) /\ all[s[i]] = from[s[i]]
  BY <1>1 DEF Known
<1>3. Known(s, all) /\ Ordered(s, all)
  BY <1>2 DEF Known, Ordered
<1> QED BY <1>3 DEF all

LEMMA AppendEnd ==
  ASSUME NEW s \in Seq(Nat), NEW b \in Seq(Nat), NEW n \in Nat
  PROVE  s \o Append(b, n) = Append(s \o b, n)
<1>1. Append(b, n) = b \o <<n>> /\ <<n>> \in Seq(Nat)
  BY AppendIsConcat
<1>2. s \o b \in Seq(Nat)
  BY ConcatProperties
<1>3. Append(s \o b, n) = (s \o b) \o <<n>>
  BY <1>2, AppendIsConcat
<1> QED BY <1>1, <1>3, ConcatAssociative

(* A new connection starts with what is in the buffer.                     *)
LEMMA GoodSuffix ==
  ASSUME NEW s \in Seq(Nat), NEW b \in Seq(Nat), NEW q, NEW from,
         Good(s \o b, q, from)
  PROVE  Good(b, q, from)
<1> DEFINE t == s \o b
<1>1. /\ Len(s) \in Nat /\ Len(b) \in Nat /\ Len(t) = Len(s) + Len(b)
      /\ \A i \in 1 .. Len(s) + Len(b) :
           t[i] = IF i <= Len(s) THEN s[i] ELSE b[i - Len(s)]
  BY ConcatProperties
<1>0. Good(t, q, from)
  OBVIOUS
<1> HIDE DEF t
<1>2. ASSUME NEW i \in 1 .. Len(b)
      PROVE  Len(s) + i \in 1 .. Len(t) /\ t[Len(s) + i] = b[i]
  <2>1. /\ Len(s) + i \in 1 .. Len(s) + Len(b)
        /\ ~(Len(s) + i <= Len(s)) /\ (Len(s) + i) - Len(s) = i
    BY <1>1
  <2> QED BY <1>1, <2>1
<1>3. Known(b, from)
  BY <1>0, <1>2 DEF Good, Known
<1>4. Ordered(b, from)
  <2> SUFFICES ASSUME NEW i \in 1 .. Len(b), NEW j \in 1 .. Len(b), i < j,
                      from[b[i]].by = from[b[j]].by
               PROVE  b[i] < b[j]
    BY DEF Ordered
  <2>1. Len(s) + i < Len(s) + j
    BY <1>1
  <2> QED BY <1>0, <1>2, <2>1 DEF Good, Ordered
<1>5. Ahead(b, q, from)
  <2> SUFFICES ASSUME NEW i \in 1 .. Len(b), NEW j \in 1 .. Len(q), q[j].do = "send",
                      from[b[i]].by = from[q[j].data].by
               PROVE  b[i] < q[j].data
    BY DEF Ahead
  <2>1. Len(s) + i \in 1 .. Len(t) /\ t[Len(s) + i] = b[i]
    BY <1>2
  <2>2. Ahead(t, q, from)
    BY <1>0 DEF Good
  <2> QED BY <2>1, <2>2 DEF Ahead
<1> QED BY <1>3, <1>4, <1>5 DEF Good

-----------------------------------------------------------------------------
(* The stream of the connection that is up.                                *)
Base == IF sock = 0 THEN <<>> ELSE wire[sock]
Sent == Base \o out

WiresGood(w, from) ==
  \A c \in 1 .. Len(w) : Known(w[c], from) /\ Ordered(w[c], from)

Flow ==
  /\ QueueGood(queue, sends) /\ Good(Sent, queue, sends) /\ WiresGood(wire, sends)
  /\ sock # 0 => Covers(Sent, queue, sends, sock)

IInv == FlowTypes /\ CallTypes /\ Flow

(* The four things a step does with the stream Base \o b: it leaves it as   *)
(* it is, writes a part of it, ends the connection, or both.               *)
StreamStep(b) ==
  \/ sock' = sock /\ out' = b /\ wire' = wire
  \/ /\ sock # 0 /\ sock' = sock
     /\ \E k \in 0 .. Len(b) : wire' = Written(b, k) /\ out' = Unsent(b, k)
  \/ sock # 0 /\ sock' = 0 /\ out' = <<>> /\ \E k \in 0 .. Len(b) : wire' = Written(b, k)
  \/ sock' = 0 /\ out' = <<>> /\ wire' = wire

(* What the queue and the pieces sent are after a step that works on b.    *)
Ready(b) ==
  /\ QueueGood(queue', sends') /\ Good(Base \o b, queue', sends')
  /\ WiresGood(wire, sends')
  /\ sock # 0 => Covers(Base \o b, queue', sends', sock)

LEMMA BaseType ==
  ASSUME FlowTypes
  PROVE  Base \in Seq(Nat) /\ Sent \in Seq(Nat)
<1>1. sock # 0 => wire[sock] \in Seq(Nat)
  BY ElementOfSeq DEF FlowTypes
<1>2. Base \in Seq(Nat)
  BY <1>1 DEF Base
<1> QED BY <1>2, ConcatProperties DEF Sent, FlowTypes

LEMMA WrittenWire ==
  ASSUME FlowTypes, sock # 0, NEW b \in Seq(Nat), NEW k \in 0 .. Len(b)
  PROVE  /\ Written(b, k) \in Seq(Seq(Nat)) /\ Len(Written(b, k)) = conns
         /\ Written(b, k)[sock] = Base \o SubSeq(b, 1, k)
         /\ \A c \in 1 .. conns : c # sock => Written(b, k)[c] = wire[c]
<1>1. sock \in 1 .. Len(wire) /\ Len(wire) = conns /\ wire \in Seq(Seq(Nat))
  BY DEF FlowTypes
<1>2. SubSeq(b, 1, k) \in Seq(Nat) /\ wire[sock] \in Seq(Nat)
  BY <1>1, StreamCut, ElementOfSeq
<1>3. wire[sock] \o SubSeq(b, 1, k) \in Seq(Nat)
  BY <1>2, ConcatProperties
<1> DEFINE e == wire[sock] \o SubSeq(b, 1, k)
<1>4. Written(b, k) = [wire EXCEPT ![sock] = e]
  BY DEF Written
<1>5. Base \o SubSeq(b, 1, k) = e
  BY DEF Base
<1>6. e \in Seq(Nat)
  BY <1>3
<1> HIDE DEF e
<1>7. /\ [wire EXCEPT ![sock] = e] \in Seq(Seq(Nat))
      /\ Len([wire EXCEPT ![sock] = e]) = Len(wire)
      /\ \A j \in 1 .. Len(wire) :
           [wire EXCEPT ![sock] = e][j] = IF j = sock THEN e ELSE wire[j]
  BY <1>1, <1>6, ExceptSeq
<1> QED BY <1>1, <1>4, <1>5, <1>7

LEMMA StreamTypes ==
  ASSUME FlowTypes, NEW b \in Seq(Nat), StreamStep(b), conns' = conns,
         sealed' \in Seq(SUBSET Nat), Len(sealed') = conns
  PROVE  FlowTypes'
<1>1. CASE sock' = sock /\ out' = b /\ wire' = wire
  BY <1>1 DEF FlowTypes
<1>2. ASSUME sock # 0, sock' = sock, NEW k \in 0 .. Len(b),
             wire' = Written(b, k), out' = Unsent(b, k)
      PROVE  FlowTypes'
  BY <1>2, WrittenWire, StreamCut, BaseType DEF FlowTypes, Unsent
<1>3. ASSUME sock # 0, sock' = 0, out' = <<>>, NEW k \in 0 .. Len(b),
             wire' = Written(b, k)
      PROVE  FlowTypes'
  BY <1>3, WrittenWire DEF FlowTypes
<1>4. CASE sock' = 0 /\ out' = <<>> /\ wire' = wire
  BY <1>4 DEF FlowTypes
<1> QED BY <1>1, <1>2, <1>3, <1>4 DEF StreamStep

LEMMA StreamFlow ==
  ASSUME FlowTypes, NEW b \in Seq(Nat), StreamStep(b), Ready(b),
         sends' \in Seq(Sends)
  PROVE  Flow'
<1>1. CASE sock' = sock /\ out' = b /\ wire' = wire
  <2>1. Sent' = Base \o b
    BY <1>1 DEF Sent, Base
  <2> QED BY <1>1, <2>1 DEF Flow, Ready
<1>2. ASSUME sock # 0, NEW k \in 0 .. Len(b), wire' = Written(b, k)
      PROVE  WiresGood(wire', sends')
  <2>1. Known(Base \o SubSeq(b, 1, k), sends') /\ Ordered(Base \o SubSeq(b, 1, k), sends')
    BY BaseType, GoodPrefix DEF Ready, Good
  <2>2. Len(wire) = conns
    BY DEF FlowTypes
  <2> QED BY <1>2, <2>1, <2>2, WrittenWire DEF Ready, WiresGood
<1>3. ASSUME sock # 0, sock' = sock, NEW k \in 0 .. Len(b),
             wire' = Written(b, k), out' = Unsent(b, k)
      PROVE  Flow'
  <2>1. Sent' = (Base \o SubSeq(b, 1, k)) \o SubSeq(b, k + 1, Len(b))
    BY <1>3, WrittenWire DEF Sent, Base, Unsent
  <2>2. Sent' = Base \o b
    BY <2>1, BaseType, StreamCut
  <2> QED BY <1>2, <1>3, <2>2 DEF Flow, Ready
<1>4. ASSUME sock' = 0, out' = <<>>, WiresGood(wire', sends')
      PROVE  Flow'
  <2>1. Sent' = <<>>
    BY <1>4 DEF Sent, Base
  <2>2. Good(Sent', queue', sends')
    BY <2>1 DEF Good, Known, Ordered, Ahead
  <2> QED BY <1>4, <2>2 DEF Flow, Ready
<1>5. CASE sock' = 0 /\ out' = <<>> /\ wire' = wire
  BY <1>4, <1>5 DEF Ready
<1> QED BY <1>1, <1>2, <1>3, <1>4, <1>5 DEF StreamStep

-----------------------------------------------------------------------------
(* Where the pieces of the handlers lead.                                  *)
LEMMA CloseStep ==
  ASSUME FlowTypes, NEW frames, NEW before \in SUBSET Nat,
         sock # 0, CloseCallback(frames, before), UNCHANGED <<conns, wire>>
  PROVE  StreamStep(out) /\ FlowTypes'
<1>1. StreamStep(out)
  BY DEF CloseCallback, ResetTo, StreamStep
<1>2. sealed' = [sealed EXCEPT ![sock] = before]
  BY DEF CloseCallback, ResetTo
<1>3. sock \in 1 .. Len(sealed) /\ Len(sealed) = conns /\ sealed \in Seq(SUBSET Nat)
  BY DEF FlowTypes
<1>4. sealed' \in Seq(SUBSET Nat) /\ Len(sealed') = conns
  BY <1>2, <1>3, ExceptSeq
<1>5. out \in Seq(Nat) /\ conns' = conns
  BY DEF FlowTypes
<1> QED BY <1>1, <1>4, <1>5, StreamTypes

LEMMA DrainStep ==
  ASSUME FlowTypes, NEW b \in Seq(Nat), NEW w, NEW frames, Drain(b, w, frames),
         UNCHANGED conns
  PROVE  StreamStep(b) /\ FlowTypes'
<1>1. CASE link # "connected" \/ sock = 0
  <2>1. StreamStep(b) /\ sealed' = sealed
    BY <1>1 DEF Drain, StreamStep, status
  <2> QED BY <2>1, StreamTypes DEF FlowTypes
<1>2. CASE link = "connected" /\ sock # 0
  <2>1. PICK k \in 0 .. Len(b) :
          /\ wire' = Written(b, k)
          /\ \/ /\ out' = Unsent(b, k) /\ UNCHANGED <<status, sealed>>
             \/ CloseCallback(frames, {})
    BY <1>2 DEF Drain
  <2>2. CASE out' = Unsent(b, k) /\ UNCHANGED <<status, sealed>>
    <3>1. StreamStep(b) /\ sealed' = sealed
      BY <1>2, <2>1, <2>2 DEF StreamStep, status
    <3> QED BY <3>1, StreamTypes DEF FlowTypes
  <2>3. CASE CloseCallback(frames, {})
    <3>1. StreamStep(b) /\ sealed' = [sealed EXCEPT ![sock] = {}]
      BY <1>2, <2>1, <2>3 DEF StreamStep, CloseCallback, ResetTo
    <3>2. sock \in 1 .. Len(sealed) /\ Len(sealed) = conns /\ sealed \in Seq(SUBSET Nat)
      BY <1>2 DEF FlowTypes
    <3>3. sealed' \in Seq(SUBSET Nat) /\ Len(sealed') = conns
      BY <3>1, <3>2, ExceptSeq
    <3> QED BY <3>1, <3>3, StreamTypes
  <2> QED BY <2>1, <2>2, <2>3
<1> QED BY <1>1, <1>2

LEMMA SteadyStep ==
  ASSUME FlowTypes, UNCHANGED <<conns, sock, out, wire, sealed>>
  PROVE  StreamStep(out) /\ FlowTypes'
BY DEF FlowTypes, StreamStep

LEMMA InlineStep ==
  ASSUME FlowTypes, CallTypes, NEW frames, NEW must \in BOOLEAN,
         CloseInline(frames, must), UNCHANGED <<conns, wire>>
  PROVE  StreamStep(out) /\ FlowTypes'
<1>1. CASE sock # 0 /\ (must \/ CanClose)
  <2>1. {n \in DOMAIN sends : sends[n].by = Net /\ ~must} \in SUBSET Nat
    BY DEF CallTypes
  <2> QED BY <1>1, <2>1, CloseStep DEF CloseInline
<1>2. CASE ~(sock # 0 /\ (must \/ CanClose))
  BY <1>2, SteadyStep DEF CloseInline
<1> QED BY <1>1, <1>2

LEMMA ReadyNow ==
  ASSUME Flow, UNCHANGED <<queue, sends>>
  PROVE  Ready(out)
BY DEF Flow, Ready, Sent

(* A step without a new connection leads from the invariant to itself.     *)
LEMMA StreamInv ==
  ASSUME IInv, NEW b \in Seq(Nat), StreamStep(b), Ready(b), FlowTypes', CallTypes'
  PROVE  IInv'
<1>1. sends' \in Seq(Sends)
  BY DEF CallTypes
<1> QED BY <1>1, StreamFlow DEF IInv

(* The pc of a thread in a call.                                           *)
LEMMA GotoTypes ==
  ASSUME CallTypes, conns \in Nat, conns' \in Nat, conns <= conns',
         NEW t \in Threads, NEW where \in Places, NEW c \in 0 .. conns',
         Goto(t, where, c)
  PROVE  /\ pc' \in [Threads -> [at : Places, conn : Nat]]
         /\ \A u \in Threads : pc'[u].conn <= conns'
<1>1. pc' = [pc EXCEPT ![t] = [at |-> where, conn |-> c]]
  BY DEF Goto
<1>2. [at |-> where, conn |-> c] \in [at : Places, conn : Nat]
  OBVIOUS
<1>3. \A u \in Threads : pc[u].conn \in Nat /\ pc[u].conn <= conns
  BY DEF CallTypes
<1> QED BY <1>1, <1>2, <1>3 DEF CallTypes

(* Steps that touch neither the stream nor the queue.                      *)
still == <<conns, sock, out, wire, sealed>>

LEMMA QuietStep ==
  ASSUME IInv, UNCHANGED <<still, queue, sends>>,
         \/ UNCHANGED pc
         \/ \E t \in Threads : \E where \in Places, c \in 0 .. conns : Goto(t, where, c)
  PROVE  IInv'
<1>1. StreamStep(out) /\ FlowTypes'
  BY SteadyStep DEF IInv, still
<1>2. CallTypes'
  <2>1. /\ pc' \in [Threads -> [at : Places, conn : Nat]]
        /\ \A u \in Threads : pc'[u].conn <= conns'
    <3>1. CASE UNCHANGED pc
      BY <3>1 DEF IInv, CallTypes, still
    <3>2. CASE \E t \in Threads : \E where \in Places, c \in 0 .. conns : Goto(t, where, c)
      <4>1. PICK t \in Threads : \E where \in Places, c \in 0 .. conns : Goto(t, where, c)
        BY <3>2
      <4>2. PICK where \in Places, c \in 0 .. conns : Goto(t, where, c)
        BY <4>1
      <4>3. conns' = conns /\ conns \in Nat /\ conns <= conns'
        BY DEF IInv, FlowTypes, still
      <4> QED BY <4>2, <4>3, GotoTypes DEF IInv
    <3> QED BY <3>1, <3>2
  <2> QED BY <2>1 DEF IInv, CallTypes, still
<1>3. Ready(out) /\ out \in Seq(Nat)
  BY ReadyNow DEF IInv, FlowTypes
<1> QED BY <1>1, <1>2, <1>3, StreamInv

(* Another call than Send is queued.                                       *)
LEMMA CallStep ==
  ASSUME IInv, UNCHANGED <<still, sends>>, NEW t \in Threads, Goto(t, "idle", 0),
         NEW x \in Items, x.do # "send", x.data <= Len(sends), Post(x)
  PROVE  IInv'
<1>1. StreamStep(out) /\ FlowTypes'
  BY SteadyStep DEF IInv, still
<1>2. queue' = Append(queue, x) /\ queue \in Seq(Items) /\ sends \in Seq(Sends)
  BY DEF Post, IInv, CallTypes
<1>3. CallTypes'
  <2>1. conns' = conns /\ conns \in Nat /\ conns <= conns' /\ 0 \in 0 .. conns'
        /\ "idle" \in Places
    BY DEF IInv, FlowTypes, still, Places
  <2>2. /\ pc' \in [Threads -> [at : Places, conn : Nat]]
        /\ \A u \in Threads : pc'[u].conn <= conns'
    BY <2>1, GotoTypes DEF IInv
  <2>3. queue' \in Seq(Items)
    BY <1>2, AppendProperties
  <2> QED BY <2>1, <2>2, <2>3 DEF IInv, CallTypes
<1>4. Ready(out)
  <2>1. QueueGood(queue, sends) /\ Sent \in Seq(Nat)
    BY BaseType DEF IInv, Flow
  <2>2. /\ QueueGood(queue', sends)
        /\ \A s \in Seq(Nat) : Good(s, queue, sends) => Good(s, queue', sends)
        /\ \A s \in Seq(Nat) : \A c :
             Covers(s, queue, sends, c) => Covers(s, queue', sends, c)
    BY <1>2, <2>1, CallQueued
  <2> QED BY <2>1, <2>2 DEF IInv, Flow, Ready, Sent
<1> QED BY <1>1, <1>3, <1>4, StreamInv DEF IInv, FlowTypes

LEMMA SendPostInv ==
  ASSUME IInv, TransferAssumption, NEW t \in Threads, SendPost(t)
  PROVE  IInv'
<1> DEFINE r == [by |-> t, to |-> pc[t].conn]
           x == [do |-> "send", data |-> Len(sends) + 1]
<1>1. /\ sends' = Append(sends, r) /\ queue' = Append(queue, x)
      /\ Goto(t, "idle", 0) /\ UNCHANGED still
  BY DEF SendPost, Post, still, status
<1>2. queue \in Seq(Items) /\ sends \in Seq(Sends) /\ Len(sends) \in Nat
      /\ conns' = conns /\ conns \in Nat
  BY <1>1 DEF IInv, CallTypes, FlowTypes, still
<1>3. r \in Sends /\ r.by # Net /\ r.to <= conns
  <2>1. pc[t].conn \in Nat /\ pc[t].conn <= conns
    BY DEF IInv, CallTypes
  <2>2. t \in Senders /\ t # Net
    BY DEF Senders, TransferAssumption
  <2> QED BY <2>1, <2>2 DEF Sends
<1>4. x \in Items
  BY <1>2 DEF Items
<1>5. StreamStep(out) /\ FlowTypes'
  BY <1>1, SteadyStep DEF IInv, still
<1>6. Ready(out)
  <2>1. QueueGood(queue, sends) /\ Sent \in Seq(Nat)
    BY BaseType DEF IInv, Flow
  <2>2. /\ QueueGood(queue', sends')
        /\ \A s \in Seq(Nat) : Good(s, queue, sends) => Good(s, queue', sends')
        /\ \A s \in Seq(Nat) : \A c :
             Covers(s, queue, sends, c) => Covers(s, queue', sends', c)
    BY <1>1, <1>2, <1>3, <2>1, SendQueued
  <2>3. WiresGood(wire, sends')
    <3>1. \A c \in 1 .. Len(wire) : wire[c] \in Seq(Nat)
      BY ElementOfSeq DEF IInv, FlowTypes
    <3> QED BY <1>1, <1>2, <1>3, <3>1, MoreSent DEF IInv, Flow, WiresGood
  <2> QED BY <2>1, <2>2, <2>3 DEF IInv, Flow, Ready, Sent
<1>7. CallTypes'
  <2>1. conns <= conns' /\ conns' \in Nat /\ 0 \in 0 .. conns' /\ "idle" \in Places
    BY <1>2 DEF Places
  <2>2. /\ pc' \in [Threads -> [at : Places, conn : Nat]]
        /\ \A u \in Threads : pc'[u].conn <= conns'
    BY <1>1, <1>2, <2>1, GotoTypes DEF IInv
  <2>3. queue' \in Seq(Items)
    BY <1>1, <1>2, <1>4, AppendProperties
  <2>4. sends' \in Seq(Sends) /\ \A n \in 1 .. Len(sends') : sends'[n].to <= conns
    <3> HIDE DEF r
    <3> QED BY <1>1, <1>2, <1>3, Grown DEF IInv, CallTypes
  <2> QED BY <1>2, <2>2, <2>3, <2>4 DEF CallTypes
<1> QED BY <1>5, <1>6, <1>7, StreamInv DEF IInv, FlowTypes

(* A function other than Send's is taken from the queue.                   *)
LEMMA TakeStep ==
  ASSUME IInv, NEW do, Runs(do)
  PROVE  /\ CallTypes' /\ conns' = conns /\ sends' = sends
         /\ do # "send" => Ready(out)
         /\ Head(queue) \in Items
<1>1. /\ queue # <<>> /\ queue' = Tail(queue) /\ Head(queue).do = do
      /\ UNCHANGED <<pc, conns, sends>>
  BY DEF Runs, outside
<1>2. queue \in Seq(Items) /\ sends \in Seq(Sends) /\ Sent \in Seq(Nat)
      /\ QueueGood(queue, sends)
  BY BaseType DEF IInv, CallTypes, Flow
<1>3. queue' \in Seq(Items) /\ Head(queue) \in Items
  BY <1>1, <1>2, HeadTailProperties
<1>4. /\ QueueGood(queue', sends)
      /\ Good(Sent, queue, sends) => Good(Sent, queue', sends)
      /\ do # "send" =>
           \A c : Covers(Sent, queue, sends, c) => Covers(Sent, queue', sends, c)
  BY <1>1, <1>2, HeadGoes
<1>5. do # "send" => Ready(out)
  BY <1>1, <1>4 DEF IInv, Flow, Ready, Sent
<1> QED BY <1>1, <1>3, <1>5 DEF IInv, CallTypes

LEMMA RunSendInv == IInv /\ RunSend => IInv'
<1> SUFFICES ASSUME IInv, RunSend PROVE IInv'
  OBVIOUS
<1> DEFINE n == Head(queue).data
           b == Append(out, n)
<1>1. /\ queue # <<>> /\ queue' = Tail(queue) /\ Head(queue).do = "send"
      /\ sends' = sends /\ Runs("send") /\ Drain(b, wevent, <<>>)
  BY DEF RunSend, Runs, outside
<1>2. CallTypes' /\ conns' = conns /\ Head(queue) \in Items
  BY <1>1, TakeStep
<1>3. n \in Nat /\ out \in Seq(Nat) /\ Base \in Seq(Nat) /\ Sent \in Seq(Nat)
      /\ queue \in Seq(Items) /\ sends \in Seq(Sends)
  BY <1>2, BaseType DEF IInv, FlowTypes, CallTypes, Items
<1>4. b \in Seq(Nat)
  BY <1>3, AppendProperties
<1>5. Base \o b = Append(Sent, n)
  BY <1>3, AppendEnd DEF Sent
<1>6. Good(Sent, queue, sends) /\ QueueGood(queue, sends)
  BY DEF IInv, Flow
<1>7. /\ Good(Append(Sent, n), Tail(queue), sends)
      /\ QueueGood(Tail(queue), sends)
      /\ \A c : Covers(Sent, queue, sends, c) =>
           Covers(Append(Sent, n), Tail(queue), sends, c)
  BY <1>1, <1>3, <1>6, HeadMoves
<1>8. Ready(b)
  <2> HIDE DEF b, n
  <2> QED BY <1>1, <1>5, <1>7 DEF IInv, Flow, Ready
<1>9. StreamStep(b) /\ FlowTypes'
  BY <1>1, <1>2, <1>4, DrainStep DEF IInv
<1> QED BY <1>2, <1>4, <1>8, <1>9, StreamInv

LEMMA NetSendInv == IInv /\ TransferAssumption /\ NetSend => IInv'
<1> SUFFICES ASSUME IInv, TransferAssumption, NetSend PROVE IInv'
  OBVIOUS
<1> DEFINE n == Len(sends) + 1
           r == [by |-> Net, to |-> sock]
           b == Append(out, n)
<1>1. /\ sends' = Append(sends, r) /\ Drain(b, wevent, net)
      /\ UNCHANGED <<queue, pc, conns>>
  BY DEF NetSend
<1>2. /\ out \in Seq(Nat) /\ Base \in Seq(Nat) /\ Sent \in Seq(Nat)
      /\ queue \in Seq(Items) /\ sends \in Seq(Sends) /\ n \in Nat
  BY BaseType DEF IInv, FlowTypes, CallTypes
<1>3. r \in Sends /\ r.by = Net /\ r.to <= conns
  BY DEF IInv, FlowTypes, Sends, Senders
<1>4. b \in Seq(Nat)
  BY <1>2, AppendProperties
<1>5. Base \o b = Append(Sent, n)
  BY <1>2, AppendEnd DEF Sent
<1>6. /\ QueueGood(queue, sends')
      /\ Good(Sent, queue, sends) => Good(Append(Sent, n), queue, sends')
      /\ \A c : Covers(Sent, queue, sends, c) => Covers(Append(Sent, n), queue, sends', c)
  <2>1. QueueGood(queue, sends)
    BY DEF IInv, Flow
  <2> QED BY <1>1, <1>2, <1>3, <2>1, SentAtOnce
<1>7. WiresGood(wire, sends')
  <2>1. \A c \in 1 .. Len(wire) : wire[c] \in Seq(Nat)
    BY ElementOfSeq DEF IInv, FlowTypes
  <2> QED BY <1>1, <1>2, <1>3, <2>1, MoreSent DEF IInv, Flow, WiresGood
<1>8. Ready(b)
  <2> HIDE DEF b, n, r
  <2> QED BY <1>1, <1>5, <1>6, <1>7 DEF IInv, Flow, Ready
<1>9. StreamStep(b) /\ FlowTypes'
  BY <1>1, <1>4, DrainStep DEF IInv
<1>10. CallTypes'
  <2>1. sends' \in Seq(Sends) /\ \A m \in 1 .. Len(sends') : sends'[m].to <= conns
    <3> HIDE DEF r
    <3> QED BY <1>1, <1>2, <1>3, Grown DEF IInv, CallTypes
  <2> QED BY <1>1, <2>1 DEF IInv, CallTypes
<1> QED BY <1>4, <1>8, <1>9, <1>10, StreamInv

LEMMA RunInv == IInv /\ (RunAwait \/ RunConnected \/ RunClose) => IInv'
<1>1. ASSUME IInv, RunAwait PROVE IInv'
  <2>1. Runs("await") /\ UNCHANGED <<sock, out, wire, sealed>>
    BY <1>1 DEF RunAwait, status
  <2>2. CallTypes' /\ conns' = conns /\ Ready(out)
    BY <1>1, <2>1, TakeStep
  <2> QED BY <1>1, <2>1, <2>2, SteadyStep, StreamInv DEF IInv, FlowTypes
<1>2. ASSUME IInv, RunConnected PROVE IInv'
  <2>1. Runs("connected") /\ UNCHANGED <<sock, out, wire, sealed>>
    BY <1>2 DEF RunConnected
  <2>2. CallTypes' /\ conns' = conns /\ Ready(out)
    BY <1>2, <2>1, TakeStep
  <2> QED BY <1>2, <2>1, <2>2, SteadyStep, StreamInv DEF IInv, FlowTypes
<1>3. ASSUME IInv, RunClose PROVE IInv'
  <2>1. PICK must \in BOOLEAN :
          /\ Runs(IF must THEN "must" ELSE "close")
          /\ \/ /\ sock # 0 /\ (must \/ CanClose)
                /\ CloseCallback(<<>>, IF must THEN {} ELSE 1 .. Head(queue).data)
             \/ /\ sock = 0 \/ (~must /\ ~CanClose)
                /\ UNCHANGED <<status, out, revent, wevent, net, sealed>>
    BY <1>3 DEF RunClose
  <2>2. CallTypes' /\ conns' = conns /\ Ready(out) /\ Head(queue) \in Items
    BY <1>3, <2>1, TakeStep
  <2>3. wire' = wire
    BY <1>3 DEF RunClose
  <2>4. StreamStep(out) /\ FlowTypes'
    <3>1. CASE /\ sock # 0
               /\ CloseCallback(<<>>, IF must THEN {} ELSE 1 .. Head(queue).data)
      <4>1. (IF must THEN {} ELSE 1 .. Head(queue).data) \in SUBSET Nat
        BY <2>2 DEF Items
      <4> QED BY <1>3, <2>2, <2>3, <3>1, <4>1, CloseStep DEF IInv
    <3>2. CASE UNCHANGED <<status, out, revent, wevent, net, sealed>>
      BY <1>3, <2>2, <2>3, <3>2, SteadyStep DEF IInv, status
    <3> QED BY <2>1, <3>1, <3>2
  <2> QED BY <1>3, <2>2, <2>4, StreamInv DEF IInv, FlowTypes
<1> QED BY <1>1, <1>2, <1>3

(* Handlers that take nothing from the queue and send nothing.             *)
LEMMA HandlerStep ==
  ASSUME IInv, UNCHANGED <<queue, pc, conns, sends>>, StreamStep(out), FlowTypes'
  PROVE  IInv'
<1>1. CallTypes' /\ Ready(out) /\ out \in Seq(Nat)
  BY ReadyNow DEF IInv, CallTypes, FlowTypes
<1> QED BY <1>1, StreamInv

LEMMA EventInv ==
  IInv /\ (WriteEvent \/ ReadData \/ ReadEnd \/ NetClose \/ NetReturn) => IInv'
<1>1. ASSUME IInv, WriteEvent PROVE IInv'
  <2>1. sock # 0 /\ UNCHANGED <<queue, pc, conns, sends>>
    BY <1>1 DEF WriteEvent, outside
  <2>2. CASE UNCHANGED <<sock, out, wire, sealed>>
    BY <1>1, <2>1, <2>2, SteadyStep, HandlerStep DEF IInv
  <2>3. CASE CloseCallback(<<>>, {}) /\ UNCHANGED wire
    BY <1>1, <2>1, <2>3, CloseStep, HandlerStep DEF IInv
  <2>4. CASE Drain(out, FALSE, <<>>)
    BY <1>1, <2>1, <2>4, DrainStep, HandlerStep DEF IInv, FlowTypes
  <2> QED BY <1>1, <2>2, <2>3, <2>4 DEF WriteEvent
<1>2. ASSUME IInv, ReadData PROVE IInv'
  <2>1. UNCHANGED <<queue, pc, conns, sends>> /\ UNCHANGED <<sock, out, wire, sealed>>
    BY <1>2 DEF ReadData, Readable, outside, status
  <2> QED BY <1>2, <2>1, SteadyStep, HandlerStep DEF IInv
<1>3. ASSUME IInv, ReadEnd PROVE IInv'
  <2>1. /\ UNCHANGED <<queue, pc, conns, sends>> /\ sock # 0
        /\ CloseCallback(<<>>, {}) /\ wire' = wire
    BY <1>3 DEF ReadEnd, Readable, outside
  <2> QED BY <1>3, <2>1, CloseStep, HandlerStep DEF IInv
<1>4. ASSUME IInv, NetClose PROVE IInv'
  <2>1. UNCHANGED <<queue, pc, conns, sends, wire>>
    BY <1>4 DEF NetClose, outside
  <2>2. PICK must \in BOOLEAN : CloseInline(net, must)
    BY <1>4 DEF NetClose
  <2> QED BY <1>4, <2>1, <2>2, InlineStep, HandlerStep DEF IInv
<1>5. ASSUME IInv, NetReturn PROVE IInv'
  <2>1. UNCHANGED <<queue, pc, conns, sends, wire>>
    BY <1>5 DEF NetReturn, outside
  <2>2. CASE CloseInline(Front(net), FALSE)
    BY <1>5, <2>1, <2>2, InlineStep, HandlerStep DEF IInv
  <2>3. CASE UNCHANGED <<sock, out, sealed>>
    BY <1>5, <2>1, <2>3, SteadyStep, HandlerStep DEF IInv
  <2> QED BY <1>5, <2>2, <2>3 DEF NetReturn
<1> QED BY <1>1, <1>2, <1>3, <1>4, <1>5

(* A new connection begins a stream with what is in the buffer.            *)
LEMMA NewInv ==
  ASSUME IInv, NEW state, NewConnection(state), sock' = conns',
         UNCHANGED <<out, queue, sends>>,
         \/ UNCHANGED pc
         \/ \E t \in Threads, where \in Places : Goto(t, where, 0)
  PROVE  IInv'
<1>1. /\ conns \in Nat /\ conns' = conns + 1 /\ conns <= conns' /\ conns' \in Nat
      /\ wire' = Append(wire, <<>>) /\ sealed' = Append(sealed, {})
      /\ wire \in Seq(Seq(Nat)) /\ Len(wire) = conns
      /\ sealed \in Seq(SUBSET Nat) /\ Len(sealed) = conns
      /\ <<>> \in Seq(Nat) /\ out \in Seq(Nat)
  BY DEF NewConnection, IInv, FlowTypes
<1>2. /\ wire' \in Seq(Seq(Nat)) /\ Len(wire') = conns'
      /\ \A c \in 1 .. Len(wire') :
           \/ c \in 1 .. conns /\ wire'[c] = wire[c]
           \/ c = conns' /\ wire'[c] = <<>>
      /\ wire'[conns'] = <<>>
  BY <1>1, Grown
<1>3. sealed' \in Seq(SUBSET Nat) /\ Len(sealed') = conns'
  BY <1>1, Grown
<1>4. FlowTypes'
  BY <1>1, <1>2, <1>3 DEF FlowTypes
<1>5. CallTypes'
  <2>1. /\ pc' \in [Threads -> [at : Places, conn : Nat]]
        /\ \A u \in Threads : pc'[u].conn <= conns'
    <3>1. CASE UNCHANGED pc
      <4>1. \A u \in Threads : pc[u].conn \in Nat /\ pc[u].conn <= conns
        BY DEF IInv, CallTypes
      <4> QED BY <1>1, <3>1, <4>1 DEF IInv, CallTypes
    <3>2. CASE \E t \in Threads, where \in Places : Goto(t, where, 0)
      <4>1. PICK t \in Threads, where \in Places : Goto(t, where, 0)
        BY <3>2
      <4>2. 0 \in 0 .. conns'
        BY <1>1
      <4> QED BY <1>1, <4>1, <4>2, GotoTypes DEF IInv
    <3> QED BY <3>1, <3>2
  <2>2. \A n \in 1 .. Len(sends) : sends[n].to <= conns'
    <3>1. \A n \in 1 .. Len(sends) : sends[n] \in Sends /\ sends[n].to <= conns
      BY ElementOfSeq DEF IInv, CallTypes
    <3>2. \A x \in Sends : x.to \in Nat
      BY DEF Sends
    <3> QED BY <1>1, <3>1, <3>2
  <2> QED BY <2>1, <2>2 DEF IInv, CallTypes
<1>6. Flow'
  <2>1. Sent' = <<>> \o out
    BY <1>1, <1>2 DEF Sent, Base
  <2>2. Sent' = out
    BY <1>1, <2>1, ConcatEmptySeq
  <2>3. Good(out, queue, sends)
    BY BaseType, <1>1, GoodSuffix DEF IInv, Flow, Sent
  <2>4. Covers(out, queue, sends, sock')
    <3>1. \A n \in 1 .. Len(sends) : sends[n] \in Sends /\ sends[n].to <= conns
      BY ElementOfSeq DEF IInv, CallTypes
    <3>2. \A x \in Sends : x.to \in Nat
      BY DEF Sends
    <3>3. \A n \in 1 .. Len(sends) : sends[n].to # sock'
      BY <1>1, <3>1, <3>2
    <3> QED BY <3>3 DEF Covers
  <2>5. WiresGood(wire', sends)
    <3>1. Known(<<>>, sends) /\ Ordered(<<>>, sends)
      BY DEF Known, Ordered
    <3> QED BY <1>1, <1>2, <3>1 DEF IInv, Flow, WiresGood
  <2> QED BY <2>2, <2>3, <2>4, <2>5 DEF IInv, Flow
<1> QED BY <1>4, <1>5, <1>6 DEF IInv

LEMMA ThreadInv ==
  ASSUME IInv, TransferAssumption, NEW t \in Threads, ThreadStep(t)
  PROVE  IInv'
<1>0. conns \in Nat /\ sock \in 0 .. conns /\ 0 \in 0 .. conns
  BY DEF IInv, FlowTypes
<1>1. CASE ConnectCheck(t)
  BY <1>0, <1>1, QuietStep DEF ConnectCheck, still, status, outside, Places
<1>2. CASE ConnectSocket(t)
  <2>0. UNCHANGED <<out, queue, sends>> /\ "await" \in Places /\ "connected" \in Places
    BY <1>2 DEF ConnectSocket, Places
  <2>1. CASE NewConnection("syn") /\ sock' = conns' /\ Goto(t, "await", 0)
    BY <2>0, <2>1, NewInv
  <2>3. CASE NewConnection("open") /\ sock' = conns' /\ Goto(t, "connected", 0)
    BY <2>0, <2>3, NewInv
  <2>2. CASE Goto(t, "idle", 0) /\ UNCHANGED <<link, sock, conns, peer, wire, sealed>>
    BY <1>0, <1>2, <2>2, QuietStep DEF ConnectSocket, still, Places
  <2> QED BY <1>2, <2>1, <2>2, <2>3 DEF ConnectSocket
<1>3. CASE ConnectPost(t)
  <2> DEFINE x == [do |-> pc[t].at, data |-> 0]
  <2>1. x \in Items /\ x.do # "send" /\ x.data <= Len(sends)
    BY <1>3 DEF ConnectPost, At, Items, IInv, CallTypes
  <2>2. Post(x) /\ Goto(t, "idle", 0) /\ UNCHANGED <<still, sends>>
    BY <1>3 DEF ConnectPost, still, status, outside
  <2> HIDE DEF x
  <2> QED BY <2>1, <2>2, CallStep
<1>4. CASE SendCheck(t)
  BY <1>0, <1>4, QuietStep DEF SendCheck, still, status, outside, Places
<1>5. CASE SendPost(t)
  BY <1>5, SendPostInv
<1>6. CASE CloseCheck(t)
  <2>1. \E how \in DOMAIN Marked : Goto(t, how, 0)
    BY <1>6 DEF CloseCheck, CloseIf
  <2>2. DOMAIN Marked \subseteq Places
    BY DEF Marked, Places
  <2>3. UNCHANGED <<still, queue, sends>>
    BY <1>6 DEF CloseCheck, CloseIf, still, status, outside
  <2> QED BY <1>0, <2>1, <2>2, <2>3, QuietStep
<1>7. CASE SetToClose(t)
  <2>1. Marked[pc[t].at] \in Places
    <3>1. pc[t].at = "close" \/ pc[t].at = "must"
      BY <1>7 DEF SetToClose, Marked
    <3>2. Marked["close"] = "post close" /\ Marked["must"] = "post must"
      BY DEF Marked
    <3> QED BY <3>1, <3>2 DEF Places
  <2>2. Goto(t, Marked[pc[t].at], 0) /\ UNCHANGED <<still, queue, sends>>
    BY <1>7 DEF SetToClose, still, outside
  <2> QED BY <1>0, <2>1, <2>2, QuietStep
<1>8. CASE ClosePost(t)
  <2>1. PICK how \in DOMAIN Marked : Post([do |-> how, data |-> Len(sends)])
    BY <1>8 DEF ClosePost
  <2> DEFINE x == [do |-> how, data |-> Len(sends)]
  <2>2. x \in Items /\ x.do # "send" /\ x.data <= Len(sends)
    BY DEF Marked, Items, IInv, CallTypes
  <2>3. Post(x) /\ Goto(t, "idle", 0) /\ UNCHANGED <<still, sends>>
    BY <1>8, <2>1 DEF ClosePost, still, status, outside
  <2> HIDE DEF x
  <2> QED BY <2>2, <2>3, CallStep
<1> QED BY <1>1, <1>2, <1>3, <1>4, <1>5, <1>6, <1>7, <1>8 DEF ThreadStep

LEMMA NextInv == IInv /\ TransferAssumption /\ [Next]_vars => IInv'
<1> SUFFICES ASSUME IInv, TransferAssumption, [Next]_vars PROVE IInv'
  OBVIOUS
<1>1. ASSUME NEW t \in Threads, ThreadStep(t) PROVE IInv'
  BY <1>1, ThreadInv
<1>2. CASE NetConnect
  <2>1. /\ NewConnection("syn") \/ NewConnection("open")
        /\ sock' = conns' /\ UNCHANGED <<out, queue, sends, pc>>
    BY <1>2 DEF NetConnect
  <2> QED BY <2>1, NewInv
<1>3. ASSUME NEW c \in 1 .. conns, PeerAnswers(c) \/ PeerCloses(c) PROVE IInv'
  <2>1. UNCHANGED <<still, queue, sends, pc>>
    BY <1>3 DEF PeerAnswers, PeerCloses, PeerTurns, still, status
  <2> QED BY <2>1, QuietStep
<1>4. CASE UNCHANGED vars
  BY <1>4, QuietStep DEF vars, still, status
<1> QED BY <1>1, <1>2, <1>3, <1>4, RunSendInv, NetSendInv, RunInv, EventInv
      DEF Next, RunItem

LEMMA InitInv == Init => IInv
<1> SUFFICES ASSUME Init PROVE IInv
  OBVIOUS
<1>1. FlowTypes /\ CallTypes
  BY DEF Init, FlowTypes, CallTypes, Idle, Places
<1>2. Sent = <<>>
  BY DEF Init, Sent, Base
<1>3. Flow
  BY <1>2 DEF Init, Flow, QueueGood, Good, Known, Ordered, Ahead, WiresGood
<1> QED BY <1>1, <1>3 DEF IInv

LEMMA Invariant == Spec => []IInv
<1>1. Init => IInv
  BY InitInv
<1>2. IInv /\ [Next]_vars => IInv'
  BY NextInv, TransferAssumption
<1> QED BY <1>1, <1>2, PTL DEF Spec

-----------------------------------------------------------------------------
(* On a connection the data of one thread arrives once and in the order of *)
(* its calls of Send, though the network thread's overtake the queue       *)
(* (AddSendQueue, SendDataFromQueue in net_socket.cpp).                    *)
THEOREM InOrderTheorem == Spec => []InOrder
<1>1. IInv => InOrder
  <2> SUFFICES ASSUME IInv, NEW c \in 1 .. conns, NEW i \in DOMAIN wire[c],
                      NEW j \in DOMAIN wire[c], i < j,
                      sends[wire[c][i]].by = sends[wire[c][j]].by
               PROVE  wire[c][i] < wire[c][j]
    BY DEF InOrder
  <2>1. wire[c] \in Seq(Nat) /\ Ordered(wire[c], sends)
    BY ElementOfSeq DEF IInv, FlowTypes, Flow, WiresGood
  <2>2. i \in 1 .. Len(wire[c]) /\ j \in 1 .. Len(wire[c])
    BY <2>1
  <2> QED BY <2>1, <2>2 DEF Ordered
<1> QED BY <1>1, Invariant, PTL

-----------------------------------------------------------------------------
(* When connect does not succeed at once, the status tells whether there   *)
(* is a socket.                                                            *)
LinkInv ==
  /\ link \in {"idle", "connecting", "connected"}
  /\ link = "idle" <=> sock = 0
  /\ \A t \in Threads : pc[t].at # "connected"
  /\ \A i \in 1 .. Len(queue) : queue[i].do # "connected"

LinkStep ==
  \/ UNCHANGED <<link, sock>>
  \/ link' = "idle" /\ sock' = 0
  \/ link' \in {"connecting", "connected"} /\ sock' # 0

PcStep ==
  \/ UNCHANGED pc
  \/ \E t \in Threads, where \in Places \ {"connected"}, c \in Nat : Goto(t, where, c)

QueueStep ==
  \/ UNCHANGED queue
  \/ queue # <<>> /\ queue' = Tail(queue)
  \/ \E x \in Items : x.do # "connected" /\ queue' = Append(queue, x)

LEMMA LinkKept ==
  ASSUME IInv, LinkInv, LinkStep, PcStep, QueueStep
  PROVE  LinkInv'
<1>1. \A t \in Threads : pc'[t].at # "connected"
  <2>1. ASSUME NEW t \in Threads, NEW where \in Places \ {"connected"}, NEW c \in Nat,
               Goto(t, where, c), NEW u \in Threads
        PROVE  pc'[u].at # "connected"
    BY <2>1 DEF Goto, IInv, CallTypes, LinkInv
  <2> QED BY <2>1 DEF PcStep, LinkInv
<1>2. \A i \in 1 .. Len(queue') : queue'[i].do # "connected"
  <2>0. queue \in Seq(Items)
    BY DEF IInv, CallTypes
  <2>1. CASE queue # <<>> /\ queue' = Tail(queue)
    <3>1. \A i \in 1 .. Len(queue') : queue'[i] = queue[i + 1] /\ i + 1 \in 1 .. Len(queue)
      BY <2>0, <2>1, HeadTailProperties
    <3> QED BY <3>1 DEF LinkInv
  <2>2. ASSUME NEW x \in Items, x.do # "connected", queue' = Append(queue, x)
        PROVE  \A i \in 1 .. Len(queue') : queue'[i].do # "connected"
    BY <2>0, <2>2, Grown DEF LinkInv
  <2> QED BY <2>1, <2>2 DEF QueueStep, LinkInv
<1>3. link' \in {"idle", "connecting", "connected"} /\ (link' = "idle" <=> sock' = 0)
  BY DEF LinkStep, LinkInv
<1> QED BY <1>1, <1>2, <1>3 DEF LinkInv

LEMMA DrainLink ==
  ASSUME NEW b, NEW w, NEW frames, Drain(b, w, frames)
  PROVE  LinkStep
BY DEF Drain, LinkStep, status, CloseCallback, ResetTo

LEMMA InlineLink ==
  ASSUME NEW frames, NEW must, CloseInline(frames, must)
  PROVE  LinkStep
BY DEF CloseInline, LinkStep, CloseCallback, ResetTo

LEMMA ThreadLink ==
  ASSUME IInv, LinkInv, ~AtOnce, NEW t \in Threads, ThreadStep(t)
  PROVE  LinkInv'
<1>0. conns \in Nat /\ sock \in Nat /\ 0 \in Nat
  BY DEF IInv, FlowTypes
<1>1. CASE ConnectCheck(t)
  BY <1>0, <1>1, LinkKept DEF ConnectCheck, status, LinkStep, PcStep, QueueStep, Places
<1>2. CASE ConnectSocket(t)
  <2>1. LinkStep
    BY <1>0, <1>2 DEF ConnectSocket, NewConnection, LinkStep
  <2>2. PcStep /\ QueueStep
    BY <1>0, <1>2 DEF ConnectSocket, PcStep, QueueStep, Places
  <2> QED BY <2>1, <2>2, LinkKept
<1>3. CASE ConnectPost(t)
  <2> DEFINE x == [do |-> pc[t].at, data |-> 0]
  <2>1. x \in Items /\ x.do # "connected"
    BY <1>3 DEF ConnectPost, At, Items, LinkInv
  <2>2. queue' = Append(queue, x) /\ LinkStep
    BY <1>3 DEF ConnectPost, Post, status, LinkStep
  <2>3. PcStep
    BY <1>0, <1>3 DEF ConnectPost, PcStep, Places
  <2> HIDE DEF x
  <2> QED BY <2>1, <2>2, <2>3, LinkKept DEF QueueStep
<1>4. CASE SendCheck(t)
  BY <1>0, <1>4, LinkKept DEF SendCheck, status, LinkStep, PcStep, QueueStep, Places
<1>5. CASE SendPost(t)
  <2> DEFINE x == [do |-> "send", data |-> Len(sends) + 1]
  <2>1. x \in Items /\ x.do # "connected"
    BY DEF Items, IInv, CallTypes
  <2>2. queue' = Append(queue, x) /\ LinkStep
    BY <1>5 DEF SendPost, Post, status, LinkStep
  <2>3. PcStep
    BY <1>0, <1>5 DEF SendPost, PcStep, Places
  <2> HIDE DEF x
  <2> QED BY <2>1, <2>2, <2>3, LinkKept DEF QueueStep
<1>6. CASE CloseCheck(t)
  <2>1. LinkStep /\ QueueStep
    BY <1>6 DEF CloseCheck, CloseIf, status, LinkStep, QueueStep
  <2>2. PcStep
    BY <1>0, <1>6 DEF CloseCheck, CloseIf, PcStep, Places, Marked
  <2> QED BY <2>1, <2>2, LinkKept
<1>7. CASE SetToClose(t)
  <2>1. LinkStep /\ QueueStep
    BY <1>7 DEF SetToClose, LinkStep, QueueStep
  <2>2. Marked[pc[t].at] \in Places \ {"connected"}
    <3>1. pc[t].at = "close" \/ pc[t].at = "must"
      BY <1>7 DEF SetToClose, Marked
    <3>2. Marked["close"] = "post close" /\ Marked["must"] = "post must"
      BY DEF Marked
    <3> QED BY <3>1, <3>2 DEF Places
  <2>3. PcStep
    BY <1>0, <1>7, <2>2 DEF SetToClose, PcStep
  <2> QED BY <2>1, <2>3, LinkKept
<1>8. CASE ClosePost(t)
  <2>1. PICK how \in DOMAIN Marked : Post([do |-> how, data |-> Len(sends)])
    BY <1>8 DEF ClosePost
  <2> DEFINE x == [do |-> how, data |-> Len(sends)]
  <2>2. x \in Items /\ x.do # "connected"
    BY DEF Marked, Items, IInv, CallTypes
  <2>3. queue' = Append(queue, x) /\ LinkStep
    BY <1>8, <2>1 DEF ClosePost, Post, status, LinkStep
  <2>4. PcStep
    BY <1>0, <1>8 DEF ClosePost, PcStep, Places
  <2> HIDE DEF x
  <2> QED BY <2>2, <2>3, <2>4, LinkKept DEF QueueStep
<1> QED BY <1>1, <1>2, <1>3, <1>4, <1>5, <1>6, <1>7, <1>8 DEF ThreadStep

LEMMA LinkNext == IInv /\ LinkInv /\ ~AtOnce /\ [Next]_vars => LinkInv'
<1> SUFFICES ASSUME IInv, LinkInv, ~AtOnce, [Next]_vars PROVE LinkInv'
  OBVIOUS
<1>1. ASSUME NEW t \in Threads, ThreadStep(t) PROVE LinkInv'
  BY <1>1, ThreadLink
<1>2. CASE RunItem
  <2>1. PcStep /\ QueueStep
    BY <1>2 DEF RunItem, RunAwait, RunConnected, RunSend, RunClose, Runs, PcStep, QueueStep
  <2>2. CASE RunAwait
    BY <2>1, <2>2, LinkKept DEF RunAwait, status, LinkStep
  <2>3. CASE RunConnected
    <3>1. queue # <<>> /\ Head(queue).do = "connected" /\ queue \in Seq(Items)
      BY <2>3 DEF RunConnected, Runs, IInv, CallTypes
    <3>2. 1 \in 1 .. Len(queue) /\ queue[1] = Head(queue)
      BY <3>1
    <3> QED BY <3>1, <3>2 DEF LinkInv
  <2>4. CASE RunSend
    BY <2>1, <2>4, DrainLink, LinkKept DEF RunSend
  <2>5. CASE RunClose
    <3>1. LinkStep
      BY <2>5 DEF RunClose, LinkStep, CloseCallback, ResetTo, status
    <3> QED BY <2>1, <3>1, LinkKept
  <2> QED BY <1>2, <2>2, <2>3, <2>4, <2>5 DEF RunItem
<1>3. CASE WriteEvent
  <2>1. PcStep /\ QueueStep
    BY <1>3 DEF WriteEvent, PcStep, QueueStep
  <2>2. CASE Drain(out, FALSE, <<>>)
    BY <2>1, <2>2, DrainLink, LinkKept
  <2>3. CASE ~Drain(out, FALSE, <<>>)
    <3>1. LinkStep
      BY <1>3, <2>3 DEF WriteEvent, LinkStep, OnConnect, CloseCallback, ResetTo
    <3> QED BY <2>1, <3>1, LinkKept
  <2> QED BY <2>2, <2>3
<1>4. CASE ReadData \/ ReadEnd
  <2>1. PcStep /\ QueueStep
    BY <1>4 DEF ReadData, ReadEnd, Readable, PcStep, QueueStep
  <2>2. LinkStep
    BY <1>4 DEF ReadData, ReadEnd, LinkStep, CloseCallback, ResetTo, status
  <2> QED BY <2>1, <2>2, LinkKept
<1>5. CASE NetSend
  BY <1>5, DrainLink, LinkKept DEF NetSend, PcStep, QueueStep
<1>6. CASE NetClose
  BY <1>6, InlineLink, LinkKept DEF NetClose, PcStep, QueueStep
<1>7. CASE NetConnect
  <2>1. PcStep /\ QueueStep
    BY <1>7 DEF NetConnect, PcStep, QueueStep
  <2>2. LinkStep
    BY <1>7 DEF NetConnect, NewConnection, LinkStep, IInv, FlowTypes
  <2> QED BY <2>1, <2>2, LinkKept
<1>8. CASE NetReturn
  <2>1. PcStep /\ QueueStep
    BY <1>8 DEF NetReturn, PcStep, QueueStep
  <2>2. CASE CloseInline(Front(net), FALSE)
    BY <2>1, <2>2, InlineLink, LinkKept
  <2>3. CASE UNCHANGED <<link, sock>>
    BY <2>1, <2>3, LinkKept DEF LinkStep
  <2> QED BY <1>8, <2>2, <2>3 DEF NetReturn
<1>9. ASSUME NEW c \in 1 .. conns, PeerAnswers(c) \/ PeerCloses(c) PROVE LinkInv'
  BY <1>9 DEF PeerAnswers, PeerCloses, PeerTurns, status, LinkInv
<1>10. CASE UNCHANGED vars
  BY <1>10 DEF vars, status, LinkInv
<1> QED BY <1>1, <1>2, <1>3, <1>4, <1>5, <1>6, <1>7, <1>8, <1>9, <1>10 DEF Next

LEMMA LinkInvariant == ~AtOnce => (Spec => []LinkInv)
<1> SUFFICES ASSUME ~AtOnce PROVE Spec => []LinkInv
  OBVIOUS
<1>1. Init => LinkInv
  BY DEF Init, LinkInv, Idle
<1>2. IInv /\ LinkInv /\ [Next]_vars => LinkInv'
  BY LinkNext
<1> QED BY <1>1, <1>2, Invariant, PTL DEF Spec

(* IsConnected says that there is a socket, if connect never succeeds at   *)
(* once (RealOnConnect in net_client.cpp).                                 *)
THEOREM ConnectedTheorem == ~AtOnce => (Spec => []ConnectedHasSocket)
<1> SUFFICES ASSUME ~AtOnce PROVE Spec => []ConnectedHasSocket
  OBVIOUS
<1>1. LinkInv => ConnectedHasSocket
  BY DEF LinkInv, ConnectedHasSocket
<1> QED BY <1>1, LinkInvariant, PTL

-----------------------------------------------------------------------------
(* What a Close promised was sent before it and has been written.          *)
Settled(n, c) ==
  n \in 1 .. Len(sends) /\ (sends[n].to = c => OnStream(wire[c], n))

Seals == \A c \in 1 .. conns : \A n \in sealed[c] : Settled(n, c)

SealStep ==
  \A c \in 1 .. conns' : \A n \in sealed'[c] :
    c \in 1 .. conns /\ (n \in sealed[c] \/ Settled(n, c))

WiresGrow ==
  \A c \in 1 .. conns : \A n : OnStream(wire[c], n) => OnStream(wire'[c], n)

SendsGrow ==
  /\ Len(sends) <= Len(sends') /\ Len(sends) \in Nat /\ Len(sends') \in Nat
  /\ \A n \in 1 .. Len(sends) : sends'[n] = sends[n]

LEMMA SealsKept ==
  ASSUME Seals, SealStep, WiresGrow, SendsGrow
  PROVE  Seals'
<1> SUFFICES ASSUME NEW c \in 1 .. conns', NEW n \in sealed'[c] PROVE Settled(n, c)'
  BY DEF Seals
<1>1. c \in 1 .. conns /\ Settled(n, c)
  BY DEF SealStep, Seals
<1>2. n \in 1 .. Len(sends') /\ sends'[n] = sends[n]
  BY <1>1 DEF Settled, SendsGrow
<1>3. OnStream(wire[c], n) => OnStream(wire'[c], n)
  BY <1>1 DEF WiresGrow
<1> QED BY <1>1, <1>2, <1>3 DEF Settled

LEMMA SendsSame ==
  ASSUME CallTypes, UNCHANGED sends
  PROVE  SendsGrow
BY DEF CallTypes, SendsGrow

LEMMA SendsMore ==
  ASSUME CallTypes, NEW r \in Sends, sends' = Append(sends, r)
  PROVE  SendsGrow
BY Grown DEF CallTypes, SendsGrow

LEMMA WireSame ==
  ASSUME UNCHANGED <<conns, wire, sealed>>
  PROVE  SealStep /\ WiresGrow
BY DEF SealStep, WiresGrow

LEMMA WrittenGrows ==
  ASSUME FlowTypes, sock # 0, NEW b \in Seq(Nat), NEW k \in 0 .. Len(b),
         wire' = Written(b, k)
  PROVE  WiresGrow
<1> DEFINE h == SubSeq(b, 1, k)
           t == Base \o h
<1>1. Base \in Seq(Nat) /\ h \in Seq(Nat) /\ Base = wire[sock]
  BY BaseType, StreamCut DEF Base
<1>2. /\ Len(Base) \in Nat /\ Len(h) \in Nat /\ Len(t) = Len(Base) + Len(h)
      /\ \A i \in 1 .. Len(Base) + Len(h) :
           t[i] = IF i <= Len(Base) THEN Base[i] ELSE h[i - Len(Base)]
  <2> HIDE DEF h
  <2>1. Len(Base) \in Nat /\ Len(h) \in Nat
    BY <1>1
  <2> QED BY <1>1, <2>1, ConcatProperties
<1>3. \A c \in 1 .. conns : wire'[c] = IF c = sock THEN t ELSE wire[c]
  <2>1. /\ Written(b, k)[sock] = t
        /\ \A c \in 1 .. conns : c # sock => Written(b, k)[c] = wire[c]
    BY WrittenWire
  <2> HIDE DEF t
  <2> QED BY <2>1
<1> HIDE DEF h, t
<1>4. \A i \in 1 .. Len(Base) : i \in 1 .. Len(t) /\ t[i] = Base[i]
  BY <1>2
<1>5. \A n : OnStream(Base, n) => OnStream(t, n)
  BY <1>4 DEF OnStream
<1> QED BY <1>1, <1>3, <1>5 DEF WiresGrow

LEMMA SealedEmpty ==
  ASSUME FlowTypes, conns' = conns, sealed' = [sealed EXCEPT ![sock] = {}]
  PROVE  SealStep
BY DEF SealStep, FlowTypes

LEMMA DrainSeals ==
  ASSUME FlowTypes, NEW b \in Seq(Nat), NEW w, NEW frames, Drain(b, w, frames),
         UNCHANGED conns
  PROVE  SealStep /\ WiresGrow
<1>1. CASE link # "connected" \/ sock = 0
  BY <1>1, WireSame DEF Drain
<1>2. CASE link = "connected" /\ sock # 0
  <2>1. PICK k \in 0 .. Len(b) :
          /\ wire' = Written(b, k)
          /\ sealed' = sealed \/ sealed' = [sealed EXCEPT ![sock] = {}]
    BY <1>2 DEF Drain, CloseCallback, ResetTo
  <2>2. SealStep
    <3>1. CASE sealed' = sealed
      BY <3>1 DEF SealStep
    <3>2. CASE sealed' = [sealed EXCEPT ![sock] = {}]
      BY <3>2, SealedEmpty
    <3> QED BY <2>1, <3>1, <3>2
  <2> QED BY <1>2, <2>1, <2>2, WrittenGrows
<1> QED BY <1>1, <1>2

LEMMA CloseSeals ==
  ASSUME FlowTypes, NEW frames, NEW before, sock # 0, CloseCallback(frames, before),
         UNCHANGED <<conns, wire>>, \A n \in before : Settled(n, sock)
  PROVE  SealStep /\ WiresGrow
<1>1. sealed' = [sealed EXCEPT ![sock] = before] /\ conns' = conns
  BY DEF CloseCallback, ResetTo
<1>2. sock \in 1 .. Len(sealed) /\ Len(sealed) = conns /\ sealed \in Seq(SUBSET Nat)
  BY DEF FlowTypes
<1>3. \A c \in 1 .. conns : sealed'[c] = IF c = sock THEN before ELSE sealed[c]
  BY <1>1, <1>2
<1>4. SealStep
  BY <1>1, <1>3 DEF SealStep
<1> QED BY <1>4 DEF WiresGrow

(* With nothing unsent, what was sent on the connection and is no longer   *)
(* queued has been written.                                                *)
LEMMA AllWritten ==
  ASSUME IInv, LinkInv, sock # 0, CanClose, NEW n \in 1 .. Len(sends),
         sends[n].to = sock => ~InQueue(queue, n)
  PROVE  Settled(n, sock)
<1>1. out = <<>>
  BY DEF CanClose, CanCloseIf, LinkInv
<1>2. Sent = wire[sock]
  <2>1. Base \in Seq(Nat) /\ Base = wire[sock]
    BY BaseType DEF IInv, Base
  <2> QED BY <1>1, <2>1, ConcatEmptySeq DEF Sent
<1>3. Covers(Sent, queue, sends, sock)
  BY DEF IInv, Flow
<1> QED BY <1>2, <1>3 DEF Covers, Settled

LEMMA InlineSeals ==
  ASSUME IInv, LinkInv, NEW frames, NEW must \in BOOLEAN, CloseInline(frames, must),
         UNCHANGED <<conns, wire>>
  PROVE  SealStep /\ WiresGrow
<1>1. CASE sock # 0 /\ (must \/ CanClose)
  <2> DEFINE before == {n \in DOMAIN sends : sends[n].by = Net /\ ~must}
  <2>1. ASSUME NEW n \in before PROVE Settled(n, sock)
    <3>1. n \in 1 .. Len(sends) /\ sends[n].by = Net /\ CanClose
      BY <1>1, <2>1 DEF IInv, CallTypes
    <3>2. ~InQueue(queue, n)
      BY <3>1 DEF InQueue, IInv, Flow, QueueGood
    <3> QED BY <1>1, <3>1, <3>2, AllWritten
  <2>2. CloseCallback(frames, before)
    BY <1>1 DEF CloseInline
  <2> HIDE DEF before
  <2> QED BY <1>1, <2>1, <2>2, CloseSeals DEF IInv
<1>2. CASE ~(sock # 0 /\ (must \/ CanClose))
  BY <1>2, WireSame DEF CloseInline
<1> QED BY <1>1, <1>2

LEMMA RunCloseSeals ==
  ASSUME IInv, LinkInv, RunClose
  PROVE  SealStep /\ WiresGrow
<1>1. PICK must \in BOOLEAN :
        /\ Runs(IF must THEN "must" ELSE "close")
        /\ \/ /\ sock # 0 /\ (must \/ CanClose)
              /\ CloseCallback(<<>>, IF must THEN {} ELSE 1 .. Head(queue).data)
           \/ UNCHANGED sealed
  BY DEF RunClose
<1>2. wire' = wire /\ conns' = conns
  BY DEF RunClose, Runs, outside
<1>3. CASE UNCHANGED sealed
  BY <1>2, <1>3, WireSame
<1>4. CASE /\ sock # 0 /\ (must \/ CanClose)
           /\ CloseCallback(<<>>, IF must THEN {} ELSE 1 .. Head(queue).data)
  <2> DEFINE before == IF must THEN {} ELSE 1 .. Head(queue).data
  <2>1. ASSUME NEW n \in before PROVE Settled(n, sock)
    <3>1. CanClose /\ n \in 1 .. Head(queue).data /\ Head(queue).do = "close"
          /\ queue # <<>> /\ queue \in Seq(Items)
      BY <1>1, <1>4, <2>1 DEF Runs, IInv, CallTypes
    <3>2. 1 \in 1 .. Len(queue) /\ queue[1] = Head(queue) /\ queue[1].data \in Nat
      BY <3>1, ItemData
    <3>3. n \in 1 .. Len(sends)
      <4>1. queue[1].data <= Len(sends)
        BY <3>2 DEF IInv, Flow, QueueGood
      <4>2. Len(sends) \in Nat
        BY DEF IInv, CallTypes
      <4> QED BY <3>1, <3>2, <4>1, <4>2
    <3>4. ~InQueue(queue, n)
      <4> SUFFICES ASSUME NEW j \in 1 .. Len(queue), queue[j].do = "send", queue[j].data = n
                   PROVE  FALSE
        BY DEF InQueue
      <4>1. 1 < j
        BY <3>1, <3>2
      <4>2. queue[1].data < queue[j].data
        BY <3>2, <4>1 DEF IInv, Flow, QueueGood
      <4> QED BY <3>1, <3>2, <4>2
    <3> QED BY <1>4, <3>1, <3>3, <3>4, AllWritten
  <2>2. CloseCallback(<<>>, before)
    BY <1>4
  <2> HIDE DEF before
  <2> QED BY <1>2, <1>4, <2>1, <2>2, CloseSeals DEF IInv
<1> QED BY <1>1, <1>3, <1>4

LEMMA NewSeals ==
  ASSUME IInv, NEW state, NewConnection(state)
  PROVE  SealStep /\ WiresGrow
<1>1. /\ conns \in Nat /\ conns' = conns + 1
      /\ wire' = Append(wire, <<>>) /\ sealed' = Append(sealed, {})
      /\ wire \in Seq(Seq(Nat)) /\ Len(wire) = conns
      /\ sealed \in Seq(SUBSET Nat) /\ Len(sealed) = conns /\ <<>> \in Seq(Nat)
  BY DEF NewConnection, IInv, FlowTypes
<1>2. \A c \in 1 .. conns : wire'[c] = wire[c]
  BY <1>1, Grown
<1>3. /\ \A c \in 1 .. conns : sealed'[c] = sealed[c]
      /\ sealed'[conns'] = {}
  BY <1>1, Grown
<1>4. \A c \in 1 .. conns' : c \in 1 .. conns \/ c = conns'
  BY <1>1
<1> QED BY <1>2, <1>3, <1>4 DEF SealStep, WiresGrow

LEMMA ThreadSeals ==
  ASSUME IInv, NEW t \in Threads, ThreadStep(t)
  PROVE  SealStep /\ WiresGrow /\ SendsGrow
<1>1. CASE ConnectSocket(t)
  <2>1. SendsGrow
    BY <1>1, SendsSame DEF ConnectSocket, IInv
  <2>2. SealStep /\ WiresGrow
    BY <1>1, NewSeals, WireSame DEF ConnectSocket
  <2> QED BY <2>1, <2>2
<1>2. CASE SendPost(t)
  <2>1. [by |-> t, to |-> pc[t].conn] \in Sends
    BY DEF Sends, Senders, IInv, CallTypes
  <2>2. SendsGrow
    BY <1>2, <2>1, SendsMore DEF SendPost, IInv
  <2>3. UNCHANGED <<conns, wire, sealed>>
    BY <1>2 DEF SendPost
  <2> QED BY <2>2, <2>3, WireSame
<1>3. CASE \/ ConnectCheck(t) \/ ConnectPost(t) \/ SendCheck(t)
           \/ CloseCheck(t) \/ SetToClose(t) \/ ClosePost(t)
  <2>1. UNCHANGED <<conns, wire, sealed, sends>>
    BY <1>3 DEF ConnectCheck, ConnectPost, SendCheck, CloseCheck, CloseIf, SetToClose,
         ClosePost, outside
  <2> QED BY <2>1, WireSame, SendsSame DEF IInv
<1> QED BY <1>1, <1>2, <1>3 DEF ThreadStep

LEMMA SealsNext == IInv /\ LinkInv /\ Seals /\ [Next]_vars => Seals'
<1> SUFFICES ASSUME IInv, LinkInv, Seals, [Next]_vars PROVE Seals'
  OBVIOUS
<1>0. FlowTypes /\ CallTypes /\ out \in Seq(Nat)
  BY DEF IInv, FlowTypes
<1>1. ASSUME NEW t \in Threads, ThreadStep(t) PROVE Seals'
  BY <1>1, ThreadSeals, SealsKept
<1>2. CASE RunSend
  <2>1. Runs("send") /\ Drain(Append(out, Head(queue).data), wevent, <<>>)
        /\ conns' = conns /\ sends' = sends
    BY <1>2 DEF RunSend, Runs, outside
  <2>2. Head(queue).data \in Nat
    BY <2>1, TakeStep DEF Items
  <2>3. Append(out, Head(queue).data) \in Seq(Nat)
    BY <1>0, <2>2, AppendProperties
  <2> QED BY <1>0, <2>1, <2>3, DrainSeals, SendsSame, SealsKept
<1>3. CASE RunAwait \/ RunConnected \/ ReadData
  <2>1. UNCHANGED <<conns, wire, sealed, sends>>
    BY <1>3 DEF RunAwait, RunConnected, ReadData, Readable, Runs, outside
  <2> QED BY <1>0, <2>1, WireSame, SendsSame, SealsKept
<1>4. CASE RunClose
  <2>1. sends' = sends
    BY <1>4 DEF RunClose, Runs, outside
  <2> QED BY <1>0, <1>4, <2>1, RunCloseSeals, SendsSame, SealsKept
<1>5. CASE WriteEvent
  <2>1. UNCHANGED <<conns, sends>> /\ sock # 0
    BY <1>5 DEF WriteEvent, outside
  <2>2. CASE Drain(out, FALSE, <<>>)
    BY <1>0, <2>1, <2>2, DrainSeals, SendsSame, SealsKept
  <2>3. CASE CloseCallback(<<>>, {}) /\ UNCHANGED wire
    BY <1>0, <2>1, <2>3, CloseSeals, SendsSame, SealsKept
  <2>4. CASE UNCHANGED <<wire, sealed>>
    BY <1>0, <2>1, <2>4, WireSame, SendsSame, SealsKept
  <2> QED BY <1>5, <2>2, <2>3, <2>4 DEF WriteEvent
<1>6. CASE ReadEnd
  <2>1. sock # 0 /\ CloseCallback(<<>>, {}) /\ UNCHANGED <<conns, wire, sends>>
    BY <1>6 DEF ReadEnd, Readable, outside
  <2> QED BY <1>0, <2>1, CloseSeals, SendsSame, SealsKept
<1>7. CASE NetSend
  <2>1. /\ sends' = Append(sends, [by |-> Net, to |-> sock]) /\ conns' = conns
        /\ Drain(Append(out, Len(sends) + 1), wevent, net)
    BY <1>7 DEF NetSend
  <2>2. [by |-> Net, to |-> sock] \in Sends
    BY <1>0 DEF FlowTypes, Sends, Senders
  <2>3. Append(out, Len(sends) + 1) \in Seq(Nat)
    <3>1. Len(sends) + 1 \in Nat
      BY <1>0 DEF CallTypes
    <3> QED BY <1>0, <3>1, AppendProperties
  <2> QED BY <1>0, <2>1, <2>2, <2>3, DrainSeals, SendsMore, SealsKept
<1>8. CASE NetClose
  <2>1. UNCHANGED <<conns, wire, sends>>
    BY <1>8 DEF NetClose, outside
  <2>2. PICK must \in BOOLEAN : CloseInline(net, must)
    BY <1>8 DEF NetClose
  <2> QED BY <1>0, <2>1, <2>2, InlineSeals, SendsSame, SealsKept
<1>9. CASE NetConnect
  <2>1. sends' = sends /\ (NewConnection("syn") \/ NewConnection("open"))
    BY <1>9 DEF NetConnect
  <2> QED BY <1>0, <2>1, NewSeals, SendsSame, SealsKept
<1>10. CASE NetReturn
  <2>1. UNCHANGED <<conns, wire, sends>>
    BY <1>10 DEF NetReturn, outside
  <2>2. CASE CloseInline(Front(net), FALSE)
    BY <1>0, <2>1, <2>2, InlineSeals, SendsSame, SealsKept
  <2>3. CASE UNCHANGED sealed
    BY <1>0, <2>1, <2>3, WireSame, SendsSame, SealsKept
  <2> QED BY <1>10, <2>2, <2>3 DEF NetReturn
<1>11. ASSUME NEW c \in 1 .. conns, PeerAnswers(c) \/ PeerCloses(c) PROVE Seals'
  <2>1. UNCHANGED <<conns, wire, sealed, sends>>
    BY <1>11 DEF PeerAnswers, PeerCloses, PeerTurns
  <2> QED BY <1>0, <2>1, WireSame, SendsSame, SealsKept
<1>12. CASE UNCHANGED vars
  <2>1. UNCHANGED <<conns, wire, sealed, sends>>
    BY <1>12 DEF vars
  <2> QED BY <1>0, <2>1, WireSame, SendsSame, SealsKept
<1> QED BY <1>1, <1>2, <1>3, <1>4, <1>5, <1>6, <1>7, <1>8, <1>9, <1>10, <1>11, <1>12
      DEF Next, RunItem

(* A Close that is neither forced nor overtaken by the other end loses     *)
(* nothing that was sent on the connection before it, if connect never     *)
(* succeeds at once (Close and CanClose in net_socket.cpp).                *)
THEOREM FlushedTheorem == ~AtOnce => (Spec => []Flushed)
<1> SUFFICES ASSUME ~AtOnce PROVE Spec => []Flushed
  OBVIOUS
<1>1. Init => Seals
  BY DEF Init, Seals
<1>2. IInv /\ LinkInv /\ Seals /\ [Next]_vars => Seals'
  BY SealsNext
<1>3. IInv /\ Seals => Flushed
  <2> SUFFICES ASSUME IInv, Seals, NEW c \in 1 .. conns, NEW n \in sealed[c],
                      sends[n].to = c
               PROVE  \E i \in DOMAIN wire[c] : wire[c][i] = n
    BY DEF Flushed
  <2>1. OnStream(wire[c], n)
    BY DEF Seals, Settled
  <2>2. wire[c] \in Seq(Nat)
    BY ElementOfSeq DEF IInv, FlowTypes
  <2> QED BY <2>1, <2>2 DEF OnStream
<1> QED BY <1>1, <1>2, <1>3, Invariant, LinkInvariant, PTL DEF Spec
-----------------------------------------------------------------------------
(* The types of what neither the stream nor the calls say.                 *)
Links == {"idle", "connecting", "connected"}
PeerStates == {"syn", "refused", "open", "closed"}
Frames(n) == [cb : {"connect", "receive", "disconnect"}, conn : 0 .. n]

Marks ==
  /\ link \in Links
  /\ toclose \in BOOLEAN /\ revent \in BOOLEAN /\ wevent \in BOOLEAN

StatusTypes ==
  /\ Marks
  /\ conns \in 0 .. MaxConns /\ transmit \in 0 .. conns
  /\ net \in Seq(Frames(conns))
  /\ Len(queue) <= MaxQueue
  /\ peer \in Seq(PeerStates) /\ Len(peer) = conns

(* What the network thread's handlers do, whose callbacks are frames.      *)
NetTypes ==
  /\ Marks' /\ transmit' \in 0 .. conns
  /\ net' \in Seq(Frames(conns))

LEMMA ElementsIn ==
  ASSUME NEW S, NEW T, NEW s \in Seq(S), \A i \in 1 .. Len(s) : s[i] \in T
  PROVE  s \in Seq(T)
<1>1. Len(s) \in Nat /\ s \in [1 .. Len(s) -> S]
  BY LenProperties
<1>2. s \in [1 .. Len(s) -> T]
  BY <1>1

<1> QED BY <1>1, <1>2, SeqDef

LEMMA FrontTypes ==
  ASSUME NEW S, NEW s \in Seq(S), s # <<>>
  PROVE  Front(s) \in Seq(S) /\ Last(s) \in S
<1>1. Len(s) \in Nat \ {0} /\ \A i \in 1 .. Len(s) : s[i] \in S
  BY EmptySeq, ElementOfSeq
<1>2. \A i \in 1 .. Len(s) - 1 : s[i] \in S
  BY <1>1
<1>3. SubSeq(s, 1, Len(s) - 1) \in Seq(S)
  BY <1>1, <1>2, SubSeqProperties
<1> QED BY <1>1, <1>3 DEF Front, Last

LEMMA FramesKept ==
  ASSUME NEW m \in Nat, NEW n \in Nat, m <= n, NEW s \in Seq(Frames(m))
  PROVE  s \in Seq(Frames(n))
<1>1. Frames(m) \subseteq Frames(n)
  BY DEF Frames
<1> QED BY <1>1, SeqMonotonic

LEMMA FramePushed ==
  ASSUME NEW m \in Nat, NEW n \in Nat, m <= n, NEW s \in Seq(Frames(m)),
         NEW cb \in {"connect", "receive", "disconnect"}, NEW c \in 0 .. n
  PROVE  Append(s, [cb |-> cb, conn |-> c]) \in Seq(Frames(n))
<1>1. [cb |-> cb, conn |-> c] \in Frames(n)
  BY DEF Frames
<1>2. s \in Seq(Frames(n))
  BY FramesKept
<1> QED BY <1>1, <1>2, AppendProperties

LEMMA CallbackTypes ==
  ASSUME IInv, StatusTypes, NEW frames \in Seq(Frames(conns)), NEW before,
         CloseCallback(frames, before)
  PROVE  NetTypes
<1>1. conns \in Nat /\ sock \in 0 .. conns
  BY DEF IInv, FlowTypes
<1>2. net' \in Seq(Frames(conns))
  BY <1>1, FramePushed DEF CloseCallback, ResetTo
<1>3. Marks'
  BY DEF CloseCallback, ResetTo, Marks, Links
<1>4. transmit' = 0 /\ 0 \in 0 .. conns
  BY <1>1 DEF CloseCallback, ResetTo
<1> QED BY <1>2, <1>3, <1>4 DEF NetTypes

LEMMA DrainTypes ==
  ASSUME IInv, StatusTypes, NEW b \in Seq(Nat), NEW w \in BOOLEAN,
         NEW frames \in Seq(Frames(conns)), Drain(b, w, frames)
  PROVE  NetTypes
<1>1. ASSUME UNCHANGED <<status, revent>>, wevent' \in BOOLEAN, net' = frames
      PROVE  NetTypes
  BY <1>1 DEF NetTypes, StatusTypes, Marks, status
<1>2. ASSUME CloseCallback(frames, {}) PROVE NetTypes
  BY <1>2, CallbackTypes
<1>3. CASE link # "connected" \/ sock = 0
  BY <1>1, <1>3 DEF Drain
<1>4. CASE link = "connected" /\ sock # 0
  <2>1. PICK k \in 0 .. Len(b) :
          \/ /\ wevent' = (w \/ k < Len(b)) /\ net' = frames
             /\ UNCHANGED <<status, revent>>
          \/ CloseCallback(frames, {})
    BY <1>4 DEF Drain
  <2> QED BY <1>1, <1>2, <2>1
<1> QED BY <1>3, <1>4

LEMMA InlineTypes ==
  ASSUME IInv, StatusTypes, NEW frames \in Seq(Frames(conns)),
         NEW must \in BOOLEAN, CloseInline(frames, must)
  PROVE  NetTypes
<1>1. CASE sock # 0 /\ (must \/ CanClose)
  BY <1>1, CallbackTypes DEF CloseInline
<1>2. CASE ~(sock # 0 /\ (must \/ CanClose))
  <2>1. /\ toclose' = (toclose \/ sock # 0) /\ net' = frames
        /\ UNCHANGED <<link, transmit, revent, wevent>>
    BY <1>2 DEF CloseInline
  <2> QED BY <2>1 DEF NetTypes, StatusTypes, Marks
<1> QED BY <1>1, <1>2

LEMMA ThreadTypes ==
  ASSUME IInv, StatusTypes, TransferAssumption, NEW t \in Threads, ThreadStep(t)
  PROVE  StatusTypes'
<1>0. /\ conns \in Nat /\ Len(queue) \in Nat /\ queue \in Seq(Items)
      /\ MaxQueue \in Nat /\ MaxConns \in Nat
  BY DEF IInv, FlowTypes, CallTypes, TransferAssumption
<1>1. CASE ConnectSocket(t)
  <2>1. ASSUME NEW state \in PeerStates, NewConnection(state), link' \in Links
        PROVE  StatusTypes'
    <3>1. conns' = conns + 1 /\ conns' \in 0 .. MaxConns /\ peer' = Append(peer, state)
      BY <1>0, <2>1 DEF NewConnection
    <3>2. peer' \in Seq(PeerStates) /\ Len(peer') = conns'
      BY <3>1, AppendProperties DEF StatusTypes
    <3>3. net \in Seq(Frames(conns'))
      BY <1>0, <3>1, FramesKept DEF StatusTypes
    <3>4. UNCHANGED <<toclose, transmit, revent, wevent, queue, net>>
      BY <1>1 DEF ConnectSocket
    <3> QED BY <1>0, <2>1, <3>1, <3>2, <3>3, <3>4 DEF StatusTypes, Marks
  <2>2. CASE UNCHANGED <<link, sock, conns, peer, wire, sealed>>
    BY <1>1, <2>2 DEF ConnectSocket, StatusTypes, Marks
  <2> QED BY <1>1, <2>1, <2>2 DEF ConnectSocket, PeerStates, Links, StatusTypes, Marks
<1>2. ASSUME Len(queue') <= MaxQueue, toclose' \in BOOLEAN,
             UNCHANGED <<link, transmit, revent, wevent, net, conns, peer>>
      PROVE  StatusTypes'
  BY <1>2 DEF StatusTypes, Marks
<1>3. ASSUME NEW x \in Items, Post(x) PROVE Len(queue') <= MaxQueue
  BY <1>0, <1>3, AppendProperties DEF Post
<1>4. CASE ConnectPost(t)
  <2>1. [do |-> pc[t].at, data |-> 0] \in Items
    BY <1>4 DEF ConnectPost, At, Items
  <2> QED BY <1>2, <1>3, <1>4, <2>1 DEF ConnectPost, status, outside, StatusTypes, Marks
<1>5. CASE SendPost(t)
  <2>1. [do |-> "send", data |-> Len(sends) + 1] \in Items
    BY DEF Items, IInv, CallTypes
  <2> QED BY <1>2, <1>3, <1>5, <2>1 DEF SendPost, status, StatusTypes, Marks
<1>6. CASE ClosePost(t)
  <2>1. PICK how \in DOMAIN Marked : Post([do |-> how, data |-> Len(sends)])
    BY <1>6 DEF ClosePost
  <2>2. [do |-> how, data |-> Len(sends)] \in Items
    BY DEF Marked, Items, IInv, CallTypes
  <2> QED BY <1>2, <1>3, <1>6, <2>1, <2>2 DEF ClosePost, status, outside, StatusTypes, Marks
<1>7. CASE ConnectCheck(t) \/ SendCheck(t) \/ CloseCheck(t) \/ SetToClose(t)
  BY <1>2, <1>7 DEF ConnectCheck, SendCheck, CloseCheck, CloseIf, SetToClose,
                    status, outside, StatusTypes, Marks
<1> QED BY <1>1, <1>4, <1>5, <1>6, <1>7 DEF ThreadStep

(* The network thread's steps without a new connection.                    *)
LEMMA HandlerTypes ==
  ASSUME IInv, StatusTypes, NetTypes, UNCHANGED <<conns, peer>>,
         \/ UNCHANGED queue
         \/ queue # <<>> /\ queue' = Tail(queue)
  PROVE  StatusTypes'
<1>1. queue \in Seq(Items) /\ Len(queue) \in Nat
  BY DEF IInv, CallTypes
<1>2. CASE queue # <<>> /\ queue' = Tail(queue)
  <2>1. Len(queue') = Len(queue) - 1
    BY <1>1, <1>2, HeadTailProperties
  <2> QED BY <1>1, <2>1, TransferAssumption DEF StatusTypes, NetTypes
<1>3. CASE UNCHANGED queue
  BY <1>3 DEF StatusTypes, NetTypes
<1> QED BY <1>2, <1>3

LEMMA RunTypes == IInv /\ StatusTypes /\ TransferAssumption /\ RunItem => StatusTypes'
<1> SUFFICES ASSUME IInv, StatusTypes, TransferAssumption, RunItem PROVE StatusTypes'
  OBVIOUS
<1>1. conns \in Nat /\ sock \in 0 .. conns /\ <<>> \in Seq(Frames(conns))
  BY EmptySeq DEF IInv, FlowTypes
<1>2. UNCHANGED <<conns, peer>> /\ queue # <<>> /\ queue' = Tail(queue)
  BY DEF RunItem, RunAwait, RunConnected, RunSend, RunClose, Runs, outside
<1>3. CASE RunAwait
  BY <1>2, <1>3, HandlerTypes DEF RunAwait, status, NetTypes, StatusTypes, Marks
<1>4. CASE RunConnected
  <2>1. net' \in Seq(Frames(conns))
    <3>1. net' = Append(<<>>, [cb |-> "connect", conn |-> sock])
      BY <1>4 DEF RunConnected, OnConnect
    <3>2. conns <= conns
      BY <1>1
    <3> QED BY <1>1, <3>1, <3>2, FramePushed
  <2>2. NetTypes
    BY <1>4, <2>1 DEF RunConnected, OnConnect, NetTypes, StatusTypes, Marks, Links
  <2> QED BY <1>2, <2>2, HandlerTypes
<1>5. CASE RunSend
  <2>1. Append(out, Head(queue).data) \in Seq(Nat)
    <3>1. Head(queue) \in Items /\ out \in Seq(Nat)
      BY <1>2, HeadTailProperties DEF IInv, CallTypes, FlowTypes
    <3>2. Head(queue).data \in Nat
      BY <3>1 DEF Items
    <3> QED BY <3>1, <3>2, AppendProperties
  <2>2. wevent \in BOOLEAN
    BY DEF StatusTypes, Marks
  <2>3. NetTypes
    BY <1>1, <1>5, <2>1, <2>2, DrainTypes DEF RunSend
  <2> QED BY <1>2, <2>3, HandlerTypes
<1>6. CASE RunClose
  <2>1. CASE UNCHANGED <<status, out, revent, wevent, net, sealed>>
    BY <1>2, <2>1, HandlerTypes DEF status, NetTypes, StatusTypes, Marks
  <2>2. ASSUME NEW before, CloseCallback(<<>>, before) PROVE StatusTypes'
    BY <1>1, <1>2, <2>2, CallbackTypes, HandlerTypes
  <2> QED BY <1>6, <2>1, <2>2 DEF RunClose
<1> QED BY <1>3, <1>4, <1>5, <1>6 DEF RunItem

LEMMA EventTypes ==
  ASSUME IInv, StatusTypes, TransferAssumption,
         WriteEvent \/ ReadData \/ ReadEnd \/ NetSend \/ NetClose \/ NetReturn
  PROVE  StatusTypes'
<1>1. /\ conns \in Nat /\ sock \in 0 .. conns /\ <<>> \in Seq(Frames(conns))
      /\ net \in Seq(Frames(conns)) /\ out \in Seq(Nat)
      /\ wevent \in BOOLEAN /\ FALSE \in BOOLEAN
  BY EmptySeq DEF IInv, FlowTypes, StatusTypes, Marks
<1>2. UNCHANGED <<conns, peer, queue>>
  BY DEF WriteEvent, ReadData, ReadEnd, Readable, NetSend, NetClose, NetReturn, outside
<1>3. SUFFICES NetTypes
  BY <1>2, HandlerTypes
<1>4. CASE WriteEvent
  <2>1. CASE OnConnect(<<>>, sock) /\ revent' = TRUE /\ wevent' = FALSE
             /\ UNCHANGED <<toclose, transmit>>
    <3>1. net' \in Seq(Frames(conns))
      BY <1>1, <2>1, FramePushed DEF OnConnect
    <3> QED BY <2>1, <3>1 DEF OnConnect, NetTypes, StatusTypes, Marks, Links
  <2>2. CASE CloseCallback(<<>>, {})
    BY <1>1, <2>2, CallbackTypes
  <2>3. CASE Drain(out, FALSE, <<>>)
    BY <1>1, <2>3, DrainTypes
  <2> QED BY <1>4, <2>1, <2>2, <2>3 DEF WriteEvent
<1>5. CASE ReadData
  <2>1. [cb |-> "receive", conn |-> sock] \in Frames(conns)
    BY <1>1 DEF Frames
  <2>2. net' \in Seq(Frames(conns))
    BY <1>5, <2>1 DEF ReadData
  <2> QED BY <1>5, <2>2 DEF ReadData, status, NetTypes, StatusTypes, Marks
<1>6. CASE ReadEnd
  BY <1>1, <1>6, CallbackTypes DEF ReadEnd
<1>7. CASE NetSend
  <2>1. Append(out, Len(sends) + 1) \in Seq(Nat)
    BY <1>1, AppendProperties DEF IInv, CallTypes
  <2> QED BY <1>1, <1>7, <2>1, DrainTypes DEF NetSend
<1>8. CASE NetClose
  BY <1>1, <1>8, InlineTypes DEF NetClose
<1>9. CASE NetReturn
  <2>1. Front(net) \in Seq(Frames(conns)) /\ Top \in Frames(conns)
    BY <1>1, <1>9, FrontTypes DEF NetReturn, Top
  <2>2. CASE /\ net' = Front(net) /\ transmit' \in {Top.conn, transmit}
             /\ UNCHANGED <<link, toclose, revent, wevent>>
    <3>1. Top.conn \in 0 .. conns
      BY <2>1 DEF Frames
    <3> QED BY <2>1, <2>2, <3>1 DEF NetTypes, StatusTypes, Marks
  <2>3. CASE CloseInline(Front(net), FALSE)
    BY <2>1, <2>3, InlineTypes
  <2> QED BY <1>9, <2>2, <2>3 DEF NetReturn
<1> QED BY <1>4, <1>5, <1>6, <1>7, <1>8, <1>9

LEMMA ConnectTypes ==
  ASSUME IInv, StatusTypes, TransferAssumption, NetConnect
  PROVE  StatusTypes'
<1>1. conns \in Nat /\ MaxConns \in Nat
  BY DEF IInv, FlowTypes, TransferAssumption
<1>2. PICK state \in PeerStates : NewConnection(state)
  BY DEF NetConnect, PeerStates
<1>3. conns' = conns + 1 /\ conns' \in 0 .. MaxConns /\ peer' = Append(peer, state)
  BY <1>1, <1>2 DEF NewConnection, StatusTypes
<1>4. peer' \in Seq(PeerStates) /\ Len(peer') = conns'
  BY <1>3, AppendProperties DEF StatusTypes
<1>5. net' \in Seq(Frames(conns'))
  <2>1. net \in Seq(Frames(conns')) /\ conns' \in 0 .. conns' /\ conns <= conns' /\ conns' \in Nat
    BY <1>1, <1>3, FramesKept DEF StatusTypes
  <2>2. CASE OnConnect(net, conns + 1)
    BY <1>1, <1>3, <2>1, <2>2, FramePushed DEF OnConnect, StatusTypes
  <2> QED BY <2>1, <2>2 DEF NetConnect
<1>6. Marks'
  BY DEF NetConnect, OnConnect, StatusTypes, Marks, Links
<1>7. transmit' \in 0 .. conns' /\ queue' = queue
  BY <1>1, <1>3 DEF NetConnect, StatusTypes
<1> QED BY <1>3, <1>4, <1>5, <1>6, <1>7 DEF StatusTypes

LEMMA TypesNext ==
  IInv /\ StatusTypes /\ TransferAssumption /\ [Next]_vars => StatusTypes'
<1> SUFFICES ASSUME IInv, StatusTypes, TransferAssumption, [Next]_vars
             PROVE  StatusTypes'
  OBVIOUS
<1>1. ASSUME NEW t \in Threads, ThreadStep(t) PROVE StatusTypes'
  BY <1>1, ThreadTypes
<1>2. ASSUME NEW c \in 1 .. conns, PeerAnswers(c) \/ PeerCloses(c) PROVE StatusTypes'
  <2>1. PICK state \in PeerStates : peer' = [peer EXCEPT ![c] = state]
    BY <1>2 DEF PeerAnswers, PeerCloses, PeerTurns, PeerStates
  <2>2. peer' \in Seq(PeerStates) /\ Len(peer') = conns
    BY <2>1, ExceptSeq DEF StatusTypes
  <2>3. UNCHANGED <<link, toclose, transmit, revent, wevent, net, conns, queue>>
    BY <1>2 DEF PeerAnswers, PeerCloses, PeerTurns, status
  <2> QED BY <2>2, <2>3 DEF StatusTypes, Marks
<1>3. CASE UNCHANGED vars
  BY <1>3 DEF vars, status, outside, StatusTypes, Marks
<1> QED BY <1>1, <1>2, <1>3, RunTypes, EventTypes, ConnectTypes DEF Next

(* What the types of the proofs make of the types of the model.            *)
LEMMA AllTypes == IInv /\ StatusTypes => TypeOK
<1> SUFFICES ASSUME IInv, StatusTypes PROVE TypeOK
  OBVIOUS
<1>1. conns \in Nat /\ sock \in 0 .. conns /\ Len(wire) = conns /\ Len(sealed) = conns
  BY DEF IInv, FlowTypes
<1>2. sends \in Seq([by : Threads \cup {Net}, to : 0 .. conns])
  <2>1. \A n \in 1 .. Len(sends) : sends[n] \in Sends /\ sends[n].to <= conns
    BY ElementOfSeq DEF IInv, CallTypes
  <2>2. ASSUME NEW x \in Sends, x.to <= conns
        PROVE  x \in [by : Threads \cup {Net}, to : 0 .. conns]
    BY <1>1, <2>2 DEF Sends, Senders
  <2>3. sends \in Seq(Sends)
    BY DEF IInv, CallTypes
  <2> QED BY <2>1, <2>2, <2>3, ElementsIn
<1>3. out \in Seq(DOMAIN sends)
  <2>1. Good(out, queue, sends) /\ out \in Seq(Nat)
    BY BaseType, GoodSuffix DEF IInv, Flow, FlowTypes, Sent
  <2>2. DOMAIN sends = 1 .. Len(sends)
    BY LenProperties DEF IInv, CallTypes
  <2> QED BY <2>1, <2>2, ElementsIn DEF Good, Known
<1>4. queue \in Seq([do : {"await", "connected", "send", "close", "must"},
                     data : 0 .. Len(sends)])
  <2>1. /\ queue \in Seq(Items) /\ Len(sends) \in Nat
        /\ \A i \in 1 .. Len(queue) : queue[i] \in Items /\ queue[i].data <= Len(sends)
    BY ElementOfSeq DEF IInv, CallTypes, Flow, QueueGood
  <2>2. ASSUME NEW x \in Items, x.data <= Len(sends)
        PROVE  x \in [do : {"await", "connected", "send", "close", "must"},
                      data : 0 .. Len(sends)]
    BY <2>1, <2>2 DEF Items
  <2> QED BY <2>1, <2>2, ElementsIn
<1>5. pc \in [Threads -> [at : Places, conn : 0 .. conns]]
  BY <1>1 DEF IInv, CallTypes
<1>6. net \in Seq([cb : {"connect", "receive", "disconnect"}, conn : 0 .. conns])
  BY DEF StatusTypes, Frames
<1> QED BY <1>1, <1>2, <1>3, <1>4, <1>5, <1>6 DEF TypeOK, StatusTypes, Marks, Links

(* A session's state has its types: the send buffer and the queue hold     *)
(* data that was sent, and neither a callback nor the mark of the          *)
(* handshake names a socket that never was (net_socket.cpp, net_client.cpp). *)
THEOREM TypeTheorem == Spec => []TypeOK
<1>1. Init => StatusTypes
  <2>1. /\ <<>> \in Seq(Frames(0)) /\ <<>> \in Seq(PeerStates)
        /\ Len(<<>>) = 0 /\ 0 \in 0 .. MaxConns /\ 0 \in 0 .. 0 /\ 0 <= MaxQueue
    BY TransferAssumption, EmptySeq
  <2> QED BY <2>1 DEF Init, StatusTypes, Marks, Links
<1>2. IInv /\ StatusTypes /\ [Next]_vars => StatusTypes'
  BY TypesNext, TransferAssumption
<1>3. IInv /\ StatusTypes => TypeOK
  BY AllTypes
<1> QED BY <1>1, <1>2, <1>3, Invariant, PTL DEF Spec
=============================================================================
