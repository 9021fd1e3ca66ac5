------------------------- MODULE NetEventQueueProofs -------------------------
(***************************************************************************)
(* Proofs about NetEventQueue for any number of threads, sockets and       *)
(* posts: no item is stranded, no wake-up is lost, a socket is registered  *)
(* once, every reference is accounted for, and the queue implements        *)
(* EventMailbox.                                                           *)
(***************************************************************************)
EXTENDS NetEventQueue, SequenceTheorems, FiniteSetTheorems, TLAPS

USE QueueAssumption DEF QueueAssumption

LEMMA TypesInit == Init => TypeOK
BY DEF Init, TypeOK, StateTypes, PrivateBuffers, ThreadPrivate, SocketPrivate,
       OnePlace, Serving, NetPCs, Actors, Event

LEMMA NextEventType ==
  ASSUME StateTypes, NEW a \in Actors, NEW s \in Sockets
  PROVE  NextEvent(a, s) \in Event
BY DEF StateTypes, NextEvent, Event

(* The types are kept by every action.                                     *)
LEMMA TypesStep == TypeOK /\ [Next]_vars => StateTypes'
<1> SUFFICES ASSUME TypeOK, [Next]_vars PROVE StateTypes'
  OBVIOUS
<1> USE DEF TypeOK, StateTypes
<1>1. ASSUME NEW a \in Actors, NEW s \in Sockets, SetEventDirect(a, s)
      PROVE StateTypes'
  <2>1. Append(done[s], NextEvent(a, s)) \in Seq(Event)
    BY NextEventType, AppendProperties
  <2>2. QED BY <1>1, <2>1 DEF SetEventDirect, Counted
<1>2. ASSUME NEW a \in Actors, NEW s \in Sockets, SetEventQueued(a, s)
      PROVE StateTypes'
  <2>1. Append(sockBuf[s], NextEvent(a, s)) \in Seq(Event)
    BY NextEventType, AppendProperties
  <2>2. refs' \in [Sockets -> Int]
    BY <1>2 DEF SetEventQueued, QueueItem
  <2>3. count' \in [Actors -> [Sockets -> Nat]]
    BY <1>2 DEF SetEventQueued, QueueItem, Counted
  <2>4. toRegister' \in [Actors -> Sockets \cup {None}]
    BY <1>2 DEF SetEventQueued, QueueItem
  <2>5. QED BY <1>2, <2>1, <2>2, <2>3, <2>4 DEF SetEventQueued, QueueItem
<1>3. ASSUME NEW a \in Actors, NEW s \in Sockets, NEW t \in NetThreads,
             AddMessageQueue(a, s, t)
      PROVE StateTypes'
  <2>1. Append(thrBuf[t], s) \in Seq(Sockets)
    BY AppendProperties
  <2>2. refs' \in [Sockets -> Int]
    BY <1>3 DEF AddMessageQueue, HandOver
  <2>3. toWake' \in [Actors -> NetThreads \cup {None}]
    BY <1>3 DEF AddMessageQueue, HandOver
  <2>5. /\ thrBuf' \in [NetThreads -> Seq(Sockets)]
        /\ toRegister' \in [Actors -> Sockets \cup {None}]
    BY <1>3, <2>1 DEF AddMessageQueue, HandOver
  <2>6. /\ UNCHANGED <<sockBuf, sockRun, thrRun, wakeBytes, netpc, count, done>>
    BY <1>3 DEF AddMessageQueue, HandOver
  <2>4. QED BY <2>2, <2>3, <2>5, <2>6
<1>4. ASSUME NEW a \in Actors, SendWake(a) PROVE StateTypes'
  BY <1>4 DEF SendWake
<1>5. ASSUME NEW t \in NetThreads, DrainPair(t) PROVE StateTypes'
  BY <1>5 DEF DrainPair, NetPCs
<1>6. ASSUME NEW t \in NetThreads, SwapThread(t) PROVE StateTypes'
  BY <1>6 DEF SwapThread, NetPCs
<1>7. ASSUME NEW t \in NetThreads, NEW s \in Sockets, SwapSocket(t, s)
      PROVE StateTypes'
  BY <1>7 DEF SwapSocket, TakeItems, NetPCs
<1>8. ASSUME NEW t \in NetThreads, NEW s \in Sockets, CallItem(t, s)
      PROVE StateTypes'
  <2>1. Head(sockRun[s]) \in Event /\ Tail(sockRun[s]) \in Seq(Event)
    <3>1. sockRun[s] \in Seq(Event) /\ sockRun[s] # <<>>
      BY <1>8 DEF CallItem
    <3> HIDE DEF TypeOK
    <3>2. QED BY <3>1, HeadTailProperties
  <2>2. Append(done[s], Head(sockRun[s])) \in Seq(Event)
    BY <2>1, AppendProperties
  <2>3. QED BY <1>8, <2>1, <2>2 DEF CallItem, NetPCs
<1>9. ASSUME NEW t \in NetThreads, ItemReturns(t) PROVE StateTypes'
  BY <1>9 DEF ItemReturns, NetPCs
<1>10. ASSUME NEW t \in NetThreads, NEW s \in Sockets, EndSocket(t, s)
       PROVE StateTypes'
  <2>1. Tail(thrRun[t]) \in Seq(Sockets)
    BY <1>10, HeadTailProperties
       DEF EndSocket, LeaveSocket, PrivateBuffers, ThreadPrivate, Serving
  <2>2. refs' \in [Sockets -> Int]
    BY <1>10 DEF EndSocket, LeaveSocket
  <2>3. QED BY <1>10, <2>1, <2>2 DEF EndSocket, LeaveSocket, NetPCs
<1>11. ASSUME NEW t \in NetThreads, BackToPoll(t) PROVE StateTypes'
  BY <1>11 DEF BackToPoll, ToPoll, NetPCs
<1>12. CASE UNCHANGED vars
  BY <1>12 DEF vars
<1>13. QED
  BY <1>1, <1>2, <1>3, <1>4, <1>5, <1>6, <1>7, <1>8, <1>9, <1>10, <1>11, <1>12
     DEF Next, Post, FinishPost, RunQueue, Actors

(* What Head and Tail do, by position.                                     *)
LEMMA TailByIndex ==
  ASSUME NEW S, NEW q \in Seq(S), q # <<>>
  PROVE  /\ Len(q) \in Nat \ {0}
         /\ Head(q) = q[1] /\ Head(q) \in S
         /\ Tail(q) \in Seq(S)
         /\ Len(Tail(q)) = Len(q) - 1
         /\ \A i \in 1 .. Len(Tail(q)) : Tail(q)[i] = q[i + 1]
BY HeadTailProperties, EmptySeq, LenProperties

(* Each action keeps what is private to the threads: the threads and the   *)
(* sockets it does not touch stay as they are.                             *)
LEMMA PrivateStep == TypeOK /\ [Next]_vars => PrivateBuffers'
<1> SUFFICES ASSUME TypeOK, [Next]_vars PROVE PrivateBuffers'
  OBVIOUS
<1>a. /\ netpc \in [NetThreads -> NetPCs]
      /\ thrBuf \in [NetThreads -> Seq(Sockets)]
      /\ thrRun \in [NetThreads -> Seq(Sockets)]
      /\ sockBuf \in [Sockets -> Seq(Event)]
      /\ sockRun \in [Sockets -> Seq(Event)]
      /\ toRegister \in [Actors -> Sockets \cup {None}]
      /\ toWake \in [Actors -> NetThreads \cup {None}]
      /\ ThreadOf \in [Sockets -> NetThreads]
      /\ None \notin Sockets \cup NetThreads
  BY DEF TypeOK, StateTypes
<1>b. /\ \A t \in NetThreads : ThreadPrivate(t)
      /\ \A s \in Sockets : SocketPrivate(s)
      /\ \A a \in Actors : OnePlace(a)
  BY DEF TypeOK, PrivateBuffers
<1> HIDE QueueAssumption
<1> USE DEF PrivateBuffers
<1> DEFINE Quiet ==
      /\ thrBuf' = thrBuf /\ thrRun' = thrRun /\ netpc' = netpc
      /\ sockRun' = sockRun
<1>c. ASSUME Quiet
      PROVE  /\ \A t \in NetThreads : ThreadPrivate(t)'
             /\ \A s \in Sockets : SocketPrivate(s)'
  BY <1>b, <1>c DEF ThreadPrivate, SocketPrivate, Serving
<1>d. ASSUME UNCHANGED <<toRegister, toWake>>
      PROVE  \A a \in Actors : OnePlace(a)'
  BY <1>b, <1>d DEF OnePlace
<1>1. ASSUME NEW a \in Actors, NEW s \in Sockets, SetEventDirect(a, s)
      PROVE PrivateBuffers'
  BY <1>1, <1>c, <1>d DEF SetEventDirect
<1>2. ASSUME NEW a \in Actors, NEW s \in Sockets, SetEventQueued(a, s)
      PROVE PrivateBuffers'
  <2>1. \A b \in Actors : OnePlace(b)'
    BY <1>2, <1>a, <1>b DEF SetEventQueued, QueueItem, Free, OnePlace
  <2>2. QED BY <1>2, <1>c, <2>1 DEF SetEventQueued, QueueItem
<1>3. ASSUME NEW a \in Actors, NEW s \in Sockets, NEW t \in NetThreads,
             AddMessageQueue(a, s, t)
      PROVE PrivateBuffers'
  <2>1. \A b \in Actors : OnePlace(b)'
    BY <1>3, <1>a, <1>b DEF AddMessageQueue, HandOver, OnePlace
  <2>2. \A r \in Sockets : SocketPrivate(r)'
    BY <1>3, <1>a, <1>b DEF AddMessageQueue, HandOver, SocketPrivate, Serving
  <2>3. /\ ThreadOf[s] = t
        /\ thrBuf' = [thrBuf EXCEPT ![t] = Append(thrBuf[t], s)]
        /\ thrRun' = thrRun /\ netpc' = netpc
    BY <1>3 DEF AddMessageQueue, HandOver
  <2>4. /\ Len(Append(thrBuf[t], s)) = Len(thrBuf[t]) + 1
        /\ Len(thrBuf[t]) \in Nat
        /\ \A j \in 1 .. Len(thrBuf[t]) :
             Append(thrBuf[t], s)[j] = thrBuf[t][j]
        /\ Append(thrBuf[t], s)[Len(thrBuf[t]) + 1] = s
    BY <1>a, AppendProperties, LenProperties
  <2>5. ThreadPrivate(t)'
    <3>1. thrBuf'[t] = Append(thrBuf[t], s)
      BY <1>a, <2>3
    <3>2. \A i \in 1 .. Len(thrBuf'[t]) : ThreadOf[thrBuf'[t][i]] = t
      <4>1. ThreadPrivate(t)
        BY <1>b
      <4> HIDE QueueAssumption DEF QueueAssumption
      <4> QED BY <2>3, <2>4, <3>1, <4>1 DEF ThreadPrivate
    <3>3. ThreadPrivate(t) /\ thrRun'[t] = thrRun[t] /\ netpc'[t] = netpc[t]
      BY <1>b, <2>3
    <3> QED BY <3>2, <3>3 DEF ThreadPrivate, Serving
  <2>6. ASSUME NEW u \in NetThreads, u # t PROVE ThreadPrivate(u)'
    BY <1>a, <1>b, <2>3, <2>6 DEF ThreadPrivate, Serving
  <2>7. QED BY <2>1, <2>2, <2>5, <2>6
<1>4. ASSUME NEW a \in Actors, SendWake(a) PROVE PrivateBuffers'
  <2>1. \A b \in Actors : OnePlace(b)'
    BY <1>4, <1>a, <1>b DEF SendWake, OnePlace
  <2>2. QED BY <1>4, <1>c, <2>1 DEF SendWake
<1>5. ASSUME NEW t \in NetThreads, DrainPair(t) PROVE PrivateBuffers'
  <2>1. \A u \in NetThreads : ThreadPrivate(u)'
    BY <1>5, <1>a, <1>b DEF DrainPair, ThreadPrivate, Serving
  <2>2. \A s \in Sockets : SocketPrivate(s)'
    BY <1>5, <1>a, <1>b DEF DrainPair, SocketPrivate, Serving
  <2>3. QED BY <1>5, <1>d, <2>1, <2>2 DEF DrainPair
<1>6. ASSUME NEW t \in NetThreads, SwapThread(t) PROVE PrivateBuffers'
  <2>1. /\ netpc[t] = "swap"
        /\ netpc' = [netpc EXCEPT ![t] = "serve"]
        /\ thrRun' = [thrRun EXCEPT ![t] = thrBuf[t]]
        /\ thrBuf' = [thrBuf EXCEPT ![t] = thrRun[t]]
        /\ sockRun' = sockRun
    BY <1>6 DEF SwapThread
  <2>2. ThreadPrivate(t)'
    BY <1>a, <1>b, <2>1 DEF ThreadPrivate, Serving
  <2>3. ASSUME NEW u \in NetThreads, u # t PROVE ThreadPrivate(u)'
    BY <1>a, <1>b, <2>1, <2>3 DEF ThreadPrivate, Serving
  <2>4. ASSUME NEW s \in Sockets PROVE SocketPrivate(s)'
    BY <1>a, <1>b, <2>1 DEF SocketPrivate, Serving
  <2>5. QED BY <1>6, <1>d, <2>2, <2>3, <2>4 DEF SwapThread
<1>7. ASSUME NEW t \in NetThreads, NEW s \in Sockets, SwapSocket(t, s)
      PROVE PrivateBuffers'
  <2>1. /\ netpc[t] = "serve" /\ thrRun[t] # <<>> /\ s = Head(thrRun[t])
        /\ netpc' = [netpc EXCEPT ![t] = "calls"]
        /\ thrRun' = thrRun /\ thrBuf' = thrBuf
        /\ sockRun' = [sockRun EXCEPT ![s] = sockBuf[s]]
    BY <1>7 DEF SwapSocket, TakeItems
  <2>2. ThreadOf[s] = t
    <3>1. Len(thrRun[t]) \in Nat \ {0} /\ s = thrRun[t][1]
      BY <1>a, <2>1, TailByIndex
    <3>2. QED BY <1>b, <3>1 DEF ThreadPrivate
  <2>3. ASSUME NEW u \in NetThreads PROVE ThreadPrivate(u)'
    BY <1>a, <1>b, <2>1 DEF ThreadPrivate, Serving
  <2>4. ASSUME NEW r \in Sockets PROVE SocketPrivate(r)'
    BY <1>a, <1>b, <2>1, <2>2 DEF SocketPrivate, Serving
  <2>5. QED BY <1>7, <1>d, <2>3, <2>4 DEF SwapSocket, TakeItems
<1>8. ASSUME NEW t \in NetThreads, NEW s \in Sockets, CallItem(t, s)
      PROVE PrivateBuffers'
  <2>1. \A u \in NetThreads : ThreadPrivate(u)'
    BY <1>8, <1>a, <1>b DEF CallItem, ThreadPrivate, Serving
  <2>2. \A r \in Sockets : SocketPrivate(r)'
    BY <1>8, <1>a, <1>b DEF CallItem, SocketPrivate, Serving
  <2>3. QED BY <1>8, <1>d, <2>1, <2>2 DEF CallItem
<1>9. ASSUME NEW t \in NetThreads, ItemReturns(t) PROVE PrivateBuffers'
  <2>1. \A u \in NetThreads : ThreadPrivate(u)'
    BY <1>9, <1>a, <1>b DEF ItemReturns, ThreadPrivate, Serving
  <2>2. \A r \in Sockets : SocketPrivate(r)'
    BY <1>9, <1>a, <1>b DEF ItemReturns, SocketPrivate, Serving
  <2>3. QED BY <1>9, <1>d, <2>1, <2>2 DEF ItemReturns
<1>10. ASSUME NEW t \in NetThreads, NEW s \in Sockets, EndSocket(t, s)
       PROVE PrivateBuffers'
  <2>1. /\ netpc[t] = "calls" /\ s = Head(thrRun[t]) /\ sockRun[s] = <<>>
        /\ netpc' = [netpc EXCEPT ![t] = "serve"]
        /\ thrRun' = [thrRun EXCEPT ![t] = Tail(thrRun[t])]
        /\ thrBuf' = thrBuf /\ sockRun' = sockRun
    BY <1>10 DEF EndSocket, LeaveSocket
  <2>2. thrRun[t] # <<>>
    BY <1>b, <2>1 DEF ThreadPrivate, Serving
  <2>3. /\ Len(thrRun[t]) \in Nat \ {0}
        /\ Len(Tail(thrRun[t])) = Len(thrRun[t]) - 1
        /\ \A i \in 1 .. Len(Tail(thrRun[t])) :
             Tail(thrRun[t])[i] = thrRun[t][i + 1]
    BY <1>a, <2>2, TailByIndex
  <2>4. ThreadPrivate(t)'
    <3>1. thrRun'[t] = Tail(thrRun[t]) /\ netpc'[t] = "serve"
      BY <1>a, <2>1
    <3>2. ASSUME NEW i \in 1 .. Len(thrRun'[t])
          PROVE  ThreadOf[thrRun'[t][i]] = t
      <4>1. i + 1 \in 1 .. Len(thrRun[t]) /\ thrRun'[t][i] = thrRun[t][i + 1]
        BY <2>3, <3>1, <3>2
      <4>2. QED BY <1>b, <4>1 DEF ThreadPrivate
    <3>3. QED BY <1>b, <2>1, <3>1, <3>2 DEF ThreadPrivate, Serving
  <2>5. ASSUME NEW u \in NetThreads, u # t PROVE ThreadPrivate(u)'
    BY <1>a, <1>b, <2>1, <2>5 DEF ThreadPrivate, Serving
  <2>6. ASSUME NEW r \in Sockets PROVE SocketPrivate(r)'
    <3>1. SUFFICES ASSUME sockRun[r] # <<>>
          PROVE  Serving(ThreadOf[r])' /\ Head(thrRun'[ThreadOf[r]]) = r
      BY <2>1 DEF SocketPrivate
    <3>2. Serving(ThreadOf[r]) /\ Head(thrRun[ThreadOf[r]]) = r
      BY <1>b, <3>1 DEF SocketPrivate
    <3>3. ThreadOf[r] # t
      BY <2>1, <3>1, <3>2
    <3>4. QED BY <1>a, <2>1, <3>2, <3>3 DEF Serving
  <2>7. QED BY <1>10, <1>d, <2>4, <2>5, <2>6 DEF EndSocket, LeaveSocket
<1>11. ASSUME NEW t \in NetThreads, BackToPoll(t) PROVE PrivateBuffers'
  <2>1. \A u \in NetThreads : ThreadPrivate(u)'
    BY <1>11, <1>a, <1>b DEF BackToPoll, ToPoll, ThreadPrivate, Serving
  <2>2. \A r \in Sockets : SocketPrivate(r)'
    BY <1>11, <1>a, <1>b DEF BackToPoll, ToPoll, SocketPrivate, Serving
  <2>3. QED BY <1>11, <1>d, <2>1, <2>2 DEF BackToPoll, ToPoll
<1>12. CASE UNCHANGED vars
  BY <1>12, <1>c, <1>d DEF vars
<1>13. QED
  BY <1>1, <1>2, <1>3, <1>4, <1>5, <1>6, <1>7, <1>8, <1>9, <1>10, <1>11, <1>12
     DEF Next, Post, FinishPost, RunQueue, Actors

(* The state of the two queues has its type, and the network threads keep  *)
(* to their own buffers (src/src/net/net_mgr.cpp, net_socket.cpp).         *)
THEOREM TypeCorrect == SafeSpec => []TypeOK
<1>1. TypeOK /\ [Next]_vars => TypeOK'
  BY TypesStep, PrivateStep DEF TypeOK
<1>2. QED BY TypesInit, <1>1, PTL DEF SafeSpec

-----------------------------------------------------------------------------
LEMMA WakeStep == TypeOK /\ NoLostWakeup /\ [Next]_vars => NoLostWakeup'
<1> SUFFICES ASSUME TypeOK, NoLostWakeup, [Next]_vars PROVE NoLostWakeup'
  OBVIOUS
<1>a. /\ netpc \in [NetThreads -> NetPCs]
      /\ toWake \in [Actors -> NetThreads \cup {None}]
      /\ wakeBytes \in [NetThreads -> Nat]
      /\ thrBuf \in [NetThreads -> Seq(Sockets)]
      /\ \A t \in NetThreads :
           netpc[t] \in {"poll", "swap"} => thrRun[t] = <<>>
      /\ \A a \in Actors : OnePlace(a)
  BY DEF TypeOK, StateTypes, PrivateBuffers, ThreadPrivate
<1> USE DEF NoLostWakeup
<1>1. ASSUME NEW a \in Actors, NEW s \in Sockets, SetEventDirect(a, s)
      PROVE NoLostWakeup'
  BY <1>1, <1>a DEF SetEventDirect
<1>2. ASSUME NEW a \in Actors, NEW s \in Sockets, SetEventQueued(a, s)
      PROVE NoLostWakeup'
  BY <1>2, <1>a DEF SetEventQueued, QueueItem
<1>3. ASSUME NEW a \in Actors, NEW s \in Sockets, NEW t \in NetThreads,
             AddMessageQueue(a, s, t)
      PROVE NoLostWakeup'
  <2>1. toWake[a] = None
    BY <1>3, <1>a DEF AddMessageQueue, HandOver, OnePlace
  <2>2. ASSUME NEW u \in NetThreads, NEW b \in Actors, toWake[b] = u
        PROVE toWake'[b] = u
    BY <1>3, <1>a, <2>1, <2>2 DEF AddMessageQueue, HandOver
  <2>3. thrBuf[t] = <<>> => toWake'[a] = t
    BY <1>3, <1>a DEF AddMessageQueue, HandOver
  <2>4. QED BY <1>3, <1>a, <2>2, <2>3 DEF AddMessageQueue, HandOver
<1>4. ASSUME NEW a \in Actors, SendWake(a) PROVE NoLostWakeup'
  BY <1>4, <1>a DEF SendWake
<1>5. ASSUME NEW t \in NetThreads, DrainPair(t) PROVE NoLostWakeup'
  BY <1>5, <1>a DEF DrainPair
<1>6. ASSUME NEW t \in NetThreads, SwapThread(t) PROVE NoLostWakeup'
  BY <1>6, <1>a DEF SwapThread
<1>7. ASSUME NEW t \in NetThreads, NEW s \in Sockets, SwapSocket(t, s)
      PROVE NoLostWakeup'
  BY <1>7, <1>a DEF SwapSocket, TakeItems
<1>8. ASSUME NEW t \in NetThreads, NEW s \in Sockets, CallItem(t, s)
      PROVE NoLostWakeup'
  BY <1>8, <1>a DEF CallItem
<1>9. ASSUME NEW t \in NetThreads, ItemReturns(t) PROVE NoLostWakeup'
  BY <1>9, <1>a DEF ItemReturns
<1>10. ASSUME NEW t \in NetThreads, NEW s \in Sockets, EndSocket(t, s)
       PROVE NoLostWakeup'
  BY <1>10, <1>a DEF EndSocket, LeaveSocket
<1>11. ASSUME NEW t \in NetThreads, BackToPoll(t) PROVE NoLostWakeup'
  BY <1>11, <1>a DEF BackToPoll, ToPoll
<1>12. CASE UNCHANGED vars
  BY <1>12 DEF vars
<1>13. QED
  BY <1>1, <1>2, <1>3, <1>4, <1>5, <1>6, <1>7, <1>8, <1>9, <1>10, <1>11, <1>12
     DEF Next, Post, FinishPost, RunQueue, Actors

(* However posts and the network thread interleave, a thread with          *)
(* registered sockets is awake or about to be woken                        *)
(* (CNetThread::AddMessageQueue, ReadSelfOrder, RunMessageQueue).          *)
THEOREM WakeupTheorem == SafeSpec => []NoLostWakeup
<1>1. Init => NoLostWakeup
  BY DEF Init, NoLostWakeup
<1>2. QED BY <1>1, WakeStep, TypeCorrect, PTL DEF SafeSpec

-----------------------------------------------------------------------------
(* The steps that leave every place where a socket can wait alone.         *)
LEMMA SamePlaces ==
  ASSUME TypeOK, RegisteredOnce, NoStrandedItem,
         \A s \in Sockets : Posting(s)' = Posting(s),
         \A s \in Sockets : Queued(s)' = Queued(s),
         \A s \in Sockets : Awaiting(s)' = Awaiting(s),
         \A s \in Sockets : (sockBuf'[s] = <<>>) <=> (sockBuf[s] = <<>>)
  PROVE  RegisteredOnce' /\ NoStrandedItem'
BY DEF RegisteredOnce, SocketOnce, NoStrandedItem, Registered

LEMMA RegisterStep ==
  TypeOK /\ RegisteredOnce /\ NoStrandedItem /\ [Next]_vars
    => RegisteredOnce' /\ NoStrandedItem'
<1> SUFFICES ASSUME TypeOK, RegisteredOnce, NoStrandedItem, [Next]_vars
             PROVE  RegisteredOnce' /\ NoStrandedItem'
  OBVIOUS
<1>a. /\ netpc \in [NetThreads -> NetPCs]
      /\ thrBuf \in [NetThreads -> Seq(Sockets)]
      /\ thrRun \in [NetThreads -> Seq(Sockets)]
      /\ sockBuf \in [Sockets -> Seq(Event)]
      /\ sockRun \in [Sockets -> Seq(Event)]
      /\ toRegister \in [Actors -> Sockets \cup {None}]
      /\ ThreadOf \in [Sockets -> NetThreads]
      /\ None \notin Sockets
  BY DEF TypeOK, StateTypes
<1>b. /\ \A t \in NetThreads : ThreadPrivate(t)
      /\ \A s \in Sockets : SocketPrivate(s)
  BY DEF TypeOK, PrivateBuffers
<1>c. /\ \A s \in Sockets : SocketOnce(s)
      /\ \A s \in Sockets : sockBuf[s] # <<>> <=> Registered(s)
  BY DEF RegisteredOnce, NoStrandedItem
<1> HIDE QueueAssumption
<1>d. ASSUME toRegister' = toRegister
      PROVE  \A s \in Sockets : Posting(s)' = Posting(s)
  BY <1>d DEF Posting
<1>e. ASSUME thrBuf' = thrBuf
      PROVE  \A s \in Sockets : Queued(s)' = Queued(s)
  BY <1>e DEF Queued, Entries
<1>f. ASSUME thrRun' = thrRun,
             \A u \in NetThreads : thrRun[u] = <<>> \/ Serving(u)' = Serving(u)
      PROVE  \A s \in Sockets : Awaiting(s)' = Awaiting(s)
  BY <1>a, <1>f DEF Awaiting, Entries
<1>1. ASSUME NEW a \in Actors, NEW s \in Sockets, SetEventDirect(a, s)
      PROVE RegisteredOnce' /\ NoStrandedItem'
  BY <1>1, <1>d, <1>e, <1>f, SamePlaces DEF SetEventDirect, Serving
<1>2. ASSUME NEW a \in Actors, NEW s \in Sockets, SetEventQueued(a, s)
      PROVE RegisteredOnce' /\ NoStrandedItem'
  <2>1. /\ toRegister[a] = None
        /\ toRegister' = IF sockBuf[s] = <<>>
                           THEN [toRegister EXCEPT ![a] = s] ELSE toRegister
        /\ sockBuf' = [sockBuf EXCEPT ![s] = Append(sockBuf[s], NextEvent(a, s))]
        /\ thrBuf' = thrBuf /\ thrRun' = thrRun /\ netpc' = netpc
    BY <1>2 DEF SetEventQueued, QueueItem, Free
  <2>2. sockBuf'[s] # <<>>
    BY <1>a, <2>1, NextEventType, AppendProperties DEF TypeOK
  <2>3. \A r \in Sockets : Queued(r)' = Queued(r) /\ Awaiting(r)' = Awaiting(r)
    BY <1>e, <1>f, <2>1 DEF Serving
  <2>4. CASE sockBuf[s] # <<>>
    BY <1>a, <1>d, <2>1, <2>2, <2>3, <2>4, SamePlaces
  <2>5. CASE sockBuf[s] = <<>>
    <3>1. ~Registered(s)
      BY <1>c, <2>5
    <3>2. Posting(s)' = {a}
      BY <1>a, <2>1, <2>5, <3>1 DEF Posting, Registered
    <3>3. ASSUME NEW r \in Sockets, r # s
          PROVE  Posting(r)' = Posting(r) /\ sockBuf'[r] = sockBuf[r]
      BY <1>a, <2>1, <2>5, <3>3 DEF Posting
    <3>4. SocketOnce(s)' /\ Registered(s)'
      BY <2>3, <3>1, <3>2 DEF SocketOnce, Registered
    <3>5. ASSUME NEW r \in Sockets, r # s
          PROVE  SocketOnce(r)' /\ (sockBuf'[r] # <<>> <=> Registered(r)')
      BY <1>c, <2>3, <3>3, <3>5 DEF SocketOnce, Registered
    <3>6. QED BY <2>2, <3>4, <3>5 DEF RegisteredOnce, NoStrandedItem
  <2>6. QED BY <2>4, <2>5
<1>3. ASSUME NEW a \in Actors, NEW s \in Sockets, NEW t \in NetThreads,
             AddMessageQueue(a, s, t)
      PROVE RegisteredOnce' /\ NoStrandedItem'
  <2>1. /\ toRegister[a] = s /\ t = ThreadOf[s]
        /\ toRegister' = [toRegister EXCEPT ![a] = None]
        /\ thrBuf' = [thrBuf EXCEPT ![t] = Append(thrBuf[t], s)]
        /\ sockBuf' = sockBuf /\ thrRun' = thrRun /\ netpc' = netpc
    BY <1>3 DEF AddMessageQueue, HandOver
  <2>2. \A r \in Sockets : Awaiting(r)' = Awaiting(r)
    BY <1>f, <2>1 DEF Serving
  <2>3. Posting(s) = {a} /\ Queued(s) = {} /\ Awaiting(s) = {}
    <3>1. a \in Posting(s)
      BY <2>1 DEF Posting
    <3>2. SocketOnce(s)
      BY <1>c
    <3>3. QED BY <3>1, <3>2 DEF SocketOnce
  <2>4. Posting(s)' = {}
    <3>1. ASSUME NEW b \in Actors, toRegister'[b] = s PROVE FALSE
      <4>1. b = a => toRegister'[b] = None
        BY <1>a, <2>1
      <4>2. b # a => b \in Posting(s)
        BY <1>a, <2>1, <3>1 DEF Posting
      <4>3. QED BY <1>a, <2>3, <3>1, <4>1, <4>2
    <3>2. QED BY <3>1 DEF Posting
  <2>5. /\ thrBuf'[t] = Append(thrBuf[t], s)
        /\ Len(Append(thrBuf[t], s)) = Len(thrBuf[t]) + 1
        /\ Len(thrBuf[t]) \in Nat
        /\ \A j \in 1 .. Len(thrBuf[t]) :
             Append(thrBuf[t], s)[j] = thrBuf[t][j]
        /\ Append(thrBuf[t], s)[Len(thrBuf[t]) + 1] = s
    BY <1>a, <2>1, AppendProperties, LenProperties
  <2>6. Queued(s)' = {Len(thrBuf[t]) + 1}
    BY <2>1, <2>3, <2>5 DEF Queued, Entries
  <2>7. ASSUME NEW r \in Sockets, r # s
        PROVE  Posting(r)' = Posting(r) /\ Queued(r)' = Queued(r)
    <3>1. Posting(r)' = Posting(r)
      BY <1>a, <2>1, <2>7 DEF Posting
    <3>2. CASE ThreadOf[r] = t
      <4>1. Queued(r) = {i \in 1 .. Len(thrBuf[t]) : thrBuf[t][i] = r}
        BY <3>2 DEF Queued, Entries
      <4>2. Queued(r)' =
              {i \in 1 .. Len(thrBuf[t]) + 1 : Append(thrBuf[t], s)[i] = r}
        BY <2>5, <3>2 DEF Queued, Entries
      <4>3. QED BY <2>5, <2>7, <3>1, <4>1, <4>2
    <3>3. CASE ThreadOf[r] # t
      BY <1>a, <2>1, <3>1, <3>3 DEF Queued, Entries
    <3>4. QED BY <3>1, <3>2, <3>3
  <2>8. SocketOnce(s)' /\ Registered(s)' /\ Registered(s)
    BY <2>2, <2>3, <2>4, <2>6 DEF SocketOnce, Registered
  <2>9. ASSUME NEW r \in Sockets, r # s
        PROVE  SocketOnce(r)' /\ (Registered(r)' <=> Registered(r))
    BY <1>c, <2>2, <2>7, <2>9 DEF SocketOnce, Registered
  <2>10. QED BY <1>c, <2>1, <2>8, <2>9 DEF RegisteredOnce, NoStrandedItem
<1>4. ASSUME NEW a \in Actors, SendWake(a)
      PROVE RegisteredOnce' /\ NoStrandedItem'
  BY <1>4, <1>d, <1>e, <1>f, SamePlaces DEF SendWake, Serving
<1>5. ASSUME NEW t \in NetThreads, DrainPair(t)
      PROVE RegisteredOnce' /\ NoStrandedItem'
  <2>1. \A u \in NetThreads : Serving(u)' = Serving(u)
    BY <1>5, <1>a DEF DrainPair, Serving
  <2>2. QED BY <1>5, <1>d, <1>e, <1>f, <2>1, SamePlaces DEF DrainPair
<1>6. ASSUME NEW t \in NetThreads, SwapThread(t)
      PROVE RegisteredOnce' /\ NoStrandedItem'
  <2>1. /\ netpc[t] = "swap" /\ netpc' = [netpc EXCEPT ![t] = "serve"]
        /\ thrRun' = [thrRun EXCEPT ![t] = thrBuf[t]]
        /\ thrBuf' = [thrBuf EXCEPT ![t] = thrRun[t]]
        /\ sockBuf' = sockBuf /\ toRegister' = toRegister
    BY <1>6 DEF SwapThread
  <2>2. thrRun[t] = <<>>
    BY <1>b, <2>1 DEF ThreadPrivate
  <2>3. ASSUME NEW s \in Sockets, ThreadOf[s] = t
        PROVE  /\ Queued(s)' = {} /\ Awaiting(s) = {}
               /\ Awaiting(s)' = Queued(s)
    BY <1>a, <2>1, <2>2, <2>3 DEF Queued, Awaiting, Entries, Serving
  <2>4. ASSUME NEW s \in Sockets, ThreadOf[s] # t
        PROVE  Queued(s)' = Queued(s) /\ Awaiting(s)' = Awaiting(s)
    BY <1>a, <2>1, <2>4 DEF Queued, Awaiting, Entries, Serving
  <2>5. ASSUME NEW s \in Sockets
        PROVE  SocketOnce(s)' /\ (Registered(s)' <=> Registered(s))
    BY <1>c, <1>d, <2>1, <2>3, <2>4 DEF SocketOnce, Registered
  <2>6. QED BY <1>c, <2>1, <2>5 DEF RegisteredOnce, NoStrandedItem
<1>7. ASSUME NEW t \in NetThreads, NEW s \in Sockets, SwapSocket(t, s)
      PROVE RegisteredOnce' /\ NoStrandedItem'
  <2>1. /\ netpc[t] = "serve" /\ thrRun[t] # <<>> /\ s = Head(thrRun[t])
        /\ netpc' = [netpc EXCEPT ![t] = "calls"]
        /\ sockBuf' = [sockBuf EXCEPT ![s] = sockRun[s]]
        /\ thrRun' = thrRun /\ thrBuf' = thrBuf /\ toRegister' = toRegister
    BY <1>7 DEF SwapSocket, TakeItems
  <2>2. Len(thrRun[t]) \in Nat \ {0} /\ s = thrRun[t][1]
    BY <1>a, <2>1, TailByIndex
  <2>3. ThreadOf[s] = t
    BY <1>b, <2>2 DEF ThreadPrivate
  <2>4. sockBuf'[s] = <<>>
    BY <1>a, <1>b, <2>1, <2>3 DEF SocketPrivate, Serving
  <2>5. 1 \in Awaiting(s)
    BY <2>1, <2>2, <2>3 DEF Awaiting, Entries, Serving
  <2>6. Awaiting(s) = {1} /\ Posting(s) = {} /\ Queued(s) = {}
    BY <1>c, <2>5 DEF SocketOnce
  <2>7. \A r \in Sockets : Posting(r)' = Posting(r) /\ Queued(r)' = Queued(r)
    BY <1>d, <1>e, <2>1
  <2>8. Awaiting(s)' = {}
    <3>1. Awaiting(s)' \subseteq Awaiting(s) /\ 1 \notin Awaiting(s)'
      BY <1>a, <2>1, <2>3 DEF Awaiting, Entries, Serving
    <3>2. QED BY <2>6, <3>1
  <2>9. ASSUME NEW r \in Sockets, r # s
        PROVE  Awaiting(r)' = Awaiting(r) /\ sockBuf'[r] = sockBuf[r]
    <3>1. CASE ThreadOf[r] = t
      <4>1. 1 \notin Entries(r, thrRun[t])
        BY <2>2, <2>9 DEF Entries
      <4>3. /\ Awaiting(r) \subseteq Entries(r, thrRun[t])
            /\ Awaiting(r)' \subseteq Entries(r, thrRun[t])
        BY <2>1, <3>1 DEF Awaiting, Entries
      <4>4. \A i \in Entries(r, thrRun[t]) : i \in Awaiting(r) /\ i \in Awaiting(r)'
        BY <2>1, <3>1, <4>1 DEF Awaiting, Entries
      <4>5. sockBuf'[r] = sockBuf[r]
        BY <1>a, <2>1, <2>9
      <4>2. QED BY <4>3, <4>4, <4>5, Zenon
    <3>2. CASE ThreadOf[r] # t
      BY <1>a, <2>1, <2>9, <3>2 DEF Awaiting, Serving
    <3>3. QED BY <3>1, <3>2
  <2>10. SocketOnce(s)' /\ ~Registered(s)'
    BY <2>6, <2>7, <2>8 DEF SocketOnce, Registered
  <2>11. ASSUME NEW r \in Sockets, r # s
         PROVE  SocketOnce(r)' /\ (Registered(r)' <=> Registered(r))
    BY <1>c, <2>7, <2>9, <2>11 DEF SocketOnce, Registered
  <2>12. QED BY <1>c, <2>4, <2>9, <2>10, <2>11
             DEF RegisteredOnce, NoStrandedItem
<1>8. ASSUME NEW t \in NetThreads, NEW s \in Sockets, CallItem(t, s)
      PROVE RegisteredOnce' /\ NoStrandedItem'
  <2>1. \A u \in NetThreads : Serving(u)' = Serving(u)
    BY <1>8, <1>a DEF CallItem, Serving
  <2>2. QED BY <1>8, <1>d, <1>e, <1>f, <2>1, SamePlaces DEF CallItem
<1>9. ASSUME NEW t \in NetThreads, ItemReturns(t)
      PROVE RegisteredOnce' /\ NoStrandedItem'
  <2>1. \A u \in NetThreads : Serving(u)' = Serving(u)
    BY <1>9, <1>a DEF ItemReturns, Serving
  <2>2. QED BY <1>9, <1>d, <1>e, <1>f, <2>1, SamePlaces DEF ItemReturns
<1>10. ASSUME NEW t \in NetThreads, NEW s \in Sockets, EndSocket(t, s)
       PROVE RegisteredOnce' /\ NoStrandedItem'
  <2>1. /\ netpc[t] = "calls"
        /\ netpc' = [netpc EXCEPT ![t] = "serve"]
        /\ thrRun' = [thrRun EXCEPT ![t] = Tail(thrRun[t])]
        /\ thrBuf' = thrBuf /\ sockBuf' = sockBuf
        /\ toRegister' = toRegister
    BY <1>10 DEF EndSocket, LeaveSocket
  <2>2. thrRun[t] # <<>>
    BY <1>b, <2>1 DEF ThreadPrivate, Serving
  <2>3. /\ Len(thrRun[t]) \in Nat \ {0}
        /\ Len(Tail(thrRun[t])) = Len(thrRun[t]) - 1
        /\ \A i \in 1 .. Len(Tail(thrRun[t])) :
             Tail(thrRun[t])[i] = thrRun[t][i + 1]
    BY <1>a, <2>2, TailByIndex
  <2>4. ASSUME NEW r \in Sockets, ThreadOf[r] = t
        PROVE  /\ \A i \in Awaiting(r)' : i \in Int /\ i + 1 \in Awaiting(r)
               /\ \A i \in Awaiting(r) : i \in Int /\ i - 1 \in Awaiting(r)'
    <3>1. thrRun'[t] = Tail(thrRun[t]) /\ ~Serving(t)' /\ Serving(t)
      BY <1>a, <2>1 DEF Serving
    <3>2. Awaiting(r) = {i \in 2 .. Len(thrRun[t]) : thrRun[t][i] = r}
      BY <2>3, <2>4, <3>1 DEF Awaiting, Entries
    <3>3. Awaiting(r)' =
            {i \in 1 .. Len(thrRun[t]) - 1 : thrRun[t][i + 1] = r}
      BY <2>3, <2>4, <3>1 DEF Awaiting, Entries
    <3>4. QED BY <2>3, <3>2, <3>3
  <2>5. ASSUME NEW r \in Sockets, ThreadOf[r] # t
        PROVE  Awaiting(r)' = Awaiting(r)
    BY <1>a, <2>1, <2>5 DEF Awaiting, Serving
  <2>6. \A r \in Sockets : Posting(r)' = Posting(r) /\ Queued(r)' = Queued(r)
    BY <1>d, <1>e, <2>1
  <2>7. ASSUME NEW r \in Sockets
        PROVE  SocketOnce(r)' /\ (Registered(r)' <=> Registered(r))
    <3>1. CASE ThreadOf[r] # t
      BY <1>c, <2>5, <2>6, <3>1 DEF SocketOnce, Registered
    <3>2. CASE ThreadOf[r] = t
      <4>1. Awaiting(r)' = {} <=> Awaiting(r) = {}
        BY <2>4, <3>2
      <4>2. \A i, j \in Awaiting(r)' : i = j
        <5>1. TAKE i, j \in Awaiting(r)'
        <5>2. i + 1 = j + 1 /\ i \in Int /\ j \in Int
          BY <1>c, <2>4, <3>2 DEF SocketOnce
        <5>3. QED BY <5>2
      <4>3. QED BY <1>c, <2>6, <4>1, <4>2 DEF SocketOnce, Registered
    <3>3. QED BY <3>1, <3>2
  <2>8. QED BY <1>c, <2>1, <2>7 DEF RegisteredOnce, NoStrandedItem
<1>11. ASSUME NEW t \in NetThreads, BackToPoll(t)
       PROVE RegisteredOnce' /\ NoStrandedItem'
  <2>1. \A u \in NetThreads : Serving(u)' = Serving(u)
    BY <1>11, <1>a DEF BackToPoll, ToPoll, Serving
  <2>2. QED BY <1>11, <1>d, <1>e, <1>f, <2>1, SamePlaces
            DEF BackToPoll, ToPoll
<1>12. CASE UNCHANGED vars
  BY <1>12, <1>d, <1>e, <1>f, SamePlaces DEF vars, Serving
<1>13. QED
  BY <1>1, <1>2, <1>3, <1>4, <1>5, <1>6, <1>7, <1>8, <1>9, <1>10, <1>11, <1>12
     DEF Next, Post, FinishPost, RunQueue, Actors

LEMMA RegisterInvariant == SafeSpec => [](RegisteredOnce /\ NoStrandedItem)
<1>1. Init => RegisteredOnce /\ NoStrandedItem
  BY DEF Init, RegisteredOnce, SocketOnce, NoStrandedItem, Registered,
         Posting, Queued, Awaiting, Entries
<1>2. QED BY <1>1, RegisterStep, TypeCorrect, PTL DEF SafeSpec

(* A socket waits for its network thread at one place at most              *)
(* (AddSocketCallFunc, AddMessageQueue, RunMessageQueue).                  *)
THEOREM OnceTheorem == SafeSpec => []RegisteredOnce
BY RegisterInvariant, PTL

(* A socket with queued items always waits for its network thread          *)
(* (AddSocketCallFunc against RunSocketCallFunc).                          *)
THEOREM StrandedTheorem == SafeSpec => []NoStrandedItem
BY RegisterInvariant, PTL

-----------------------------------------------------------------------------
(* A mailbox kept in two pieces.                                           *)
LEMMA AppendToSecondPiece ==
  ASSUME NEW S, NEW q \in Seq(S), NEW r \in Seq(S), NEW e \in S
  PROVE  q \o Append(r, e) = Append(q \o r, e)
<1>1. Append(r, e) = r \o <<e>> /\ Append(q \o r, e) = (q \o r) \o <<e>>
  BY AppendIsConcat, ConcatProperties
<1>2. <<e>> \in Seq(S)
  OBVIOUS
<1>3. QED BY <1>1, <1>2, ConcatAssociative

LEMMA TakeFromFirstPiece ==
  ASSUME NEW S, NEW q \in Seq(S), NEW r \in Seq(S), q # <<>>
  PROVE  /\ q \o r # <<>>
         /\ Head(q \o r) = Head(q)
         /\ Tail(q \o r) = Tail(q) \o r
<1>1. /\ q \o r \in Seq(S)
      /\ Len(q \o r) = Len(q) + Len(r)
      /\ \A i \in 1 .. Len(q) + Len(r) :
           (q \o r)[i] = IF i <= Len(q) THEN q[i] ELSE r[i - Len(q)]
  BY ConcatProperties
<1>2. Len(q) \in Nat \ {0} /\ Len(r) \in Nat
  BY EmptySeq, LenProperties
<1>3. q \o r # <<>>
  BY <1>1, <1>2, EmptySeq
<1>4. Head(q \o r) = Head(q)
  BY <1>1, <1>2, <1>3, TailByIndex
<1>5. /\ Tail(q) \in Seq(S) /\ Len(Tail(q)) = Len(q) - 1
      /\ \A i \in 1 .. Len(Tail(q)) : Tail(q)[i] = q[i + 1]
  BY TailByIndex
<1>6. /\ Tail(q \o r) \in Seq(S) /\ Len(Tail(q \o r)) = Len(q) + Len(r) - 1
      /\ \A i \in 1 .. Len(Tail(q \o r)) : Tail(q \o r)[i] = (q \o r)[i + 1]
  BY <1>1, <1>3, TailByIndex
<1>7. /\ Tail(q) \o r \in Seq(S)
      /\ Len(Tail(q) \o r) = Len(Tail(q)) + Len(r)
      /\ \A i \in 1 .. Len(Tail(q)) + Len(r) : (Tail(q) \o r)[i] =
           IF i <= Len(Tail(q)) THEN Tail(q)[i] ELSE r[i - Len(Tail(q))]
  BY <1>5, ConcatProperties
<1>8. ASSUME NEW i \in 1 .. Len(q) + Len(r) - 1
      PROVE  Tail(q \o r)[i] = (Tail(q) \o r)[i]
  BY <1>1, <1>2, <1>5, <1>6, <1>7
<1>9. Tail(q \o r) = Tail(q) \o r
  BY <1>2, <1>5, <1>6, <1>7, <1>8, SeqEqual
<1>10. QED BY <1>3, <1>4, <1>9

Pending == [s \in Sockets |-> sockRun[s] \o sockBuf[s]]

LEMMA MailStep == TypeOK /\ [Next]_vars => [Mail!Next]_(Mail!mailVars)
<1> SUFFICES ASSUME TypeOK, [Next]_vars
             PROVE  [Mail!Next]_(Mail!mailVars)
  OBVIOUS
<1>a. /\ sockBuf \in [Sockets -> Seq(Event)]
      /\ sockRun \in [Sockets -> Seq(Event)]
      /\ \A s \in Sockets : SocketPrivate(s)
      /\ \A t \in NetThreads, s \in Sockets :
           thrRun[t] # <<>> /\ s = Head(thrRun[t]) => ThreadOf[s] = t
  <2>1. ASSUME NEW t \in NetThreads, NEW s \in Sockets,
               thrRun[t] # <<>>, s = Head(thrRun[t])
        PROVE  ThreadOf[s] = t
    <3>1. thrRun[t] \in Seq(Sockets) /\ ThreadPrivate(t)
      BY DEF TypeOK, StateTypes, PrivateBuffers
    <3>2. Len(thrRun[t]) \in Nat \ {0} /\ s = thrRun[t][1]
      BY <2>1, <3>1, TailByIndex
    <3>3. QED BY <3>1, <3>2 DEF ThreadPrivate
  <2>2. QED BY <2>1 DEF TypeOK, StateTypes, PrivateBuffers
<1>b. ASSUME UNCHANGED <<sockBuf, sockRun, count, done>>
      PROVE  [Mail!Next]_(Mail!mailVars)
  BY <1>b DEF Mail!mailVars
<1>1. ASSUME NEW a \in Actors, NEW s \in Sockets, SetEventDirect(a, s)
      PROVE  Mail!Direct(a, s)
  BY <1>1 DEF SetEventDirect, Counted, NextEvent, Mail!Direct, Mail!Counted,
              Mail!NextEvent
<1>2. ASSUME NEW a \in Actors, NEW s \in Sockets, SetEventQueued(a, s)
      PROVE  Mail!Leave(a, s)
  <2>1. /\ sockBuf' = [sockBuf EXCEPT ![s] = Append(sockBuf[s], NextEvent(a, s))]
        /\ sockRun' = sockRun /\ done' = done
        /\ count[a][s] < MaxPosts /\ a # ThreadOf[s] /\ Counted(a, s)
    BY <1>2 DEF SetEventQueued, QueueItem
  <2>2. NextEvent(a, s) \in Event
    BY NextEventType DEF TypeOK
  <2>3. sockRun[s] \o Append(sockBuf[s], NextEvent(a, s))
          = Append(sockRun[s] \o sockBuf[s], NextEvent(a, s))
    BY <1>a, <2>2, AppendToSecondPiece
  <2>4. Pending' = [Pending EXCEPT ![s] = Append(Pending[s], NextEvent(a, s))]
    BY <1>a, <2>1, <2>3 DEF Pending
  <2>5. QED BY <2>1, <2>4 DEF Pending, Counted, NextEvent, Mail!Leave,
                              Mail!Counted, Mail!NextEvent
<1>3. ASSUME NEW t \in NetThreads, NEW s \in Sockets, SwapSocket(t, s)
      PROVE  UNCHANGED Mail!mailVars
  <2>1. /\ netpc[t] = "serve" /\ thrRun[t] # <<>> /\ s = Head(thrRun[t])
        /\ sockRun' = [sockRun EXCEPT ![s] = sockBuf[s]]
        /\ sockBuf' = [sockBuf EXCEPT ![s] = sockRun[s]]
        /\ count' = count /\ done' = done
    BY <1>3 DEF SwapSocket, TakeItems
  <2>2. sockRun[s] = <<>>
    BY <1>a, <2>1 DEF SocketPrivate, Serving
  <2>3. sockBuf[s] \o sockRun[s] = sockRun[s] \o sockBuf[s]
    <3>1. sockBuf[s] \in Seq(Event)
      BY <1>a
    <3>2. sockBuf[s] \o <<>> = sockBuf[s] /\ <<>> \o sockBuf[s] = sockBuf[s]
      BY <3>1, ConcatEmptySeq
    <3>3. QED BY <2>2, <3>2, Zenon
  <2>4. Pending' = Pending
    <3>1. ASSUME NEW r \in Sockets
          PROVE  sockRun'[r] \o sockBuf'[r] = sockRun[r] \o sockBuf[r]
      BY <1>a, <2>1, <2>3
    <3>2. QED BY <3>1 DEF Pending
  <2>5. QED BY <2>1, <2>4 DEF Pending, Mail!mailVars
<1>4. ASSUME NEW t \in NetThreads, NEW s \in Sockets, CallItem(t, s)
      PROVE  Mail!Take(s)
  <2>1. /\ sockRun[s] # <<>>
        /\ done' = [done EXCEPT ![s] = Append(done[s], Head(sockRun[s]))]
        /\ sockRun' = [sockRun EXCEPT ![s] = Tail(sockRun[s])]
        /\ sockBuf' = sockBuf /\ count' = count
    BY <1>4 DEF CallItem
  <2>2. /\ Pending[s] # <<>>
        /\ Head(Pending[s]) = Head(sockRun[s])
        /\ Tail(Pending[s]) = Tail(sockRun[s]) \o sockBuf[s]
    BY <1>a, <2>1, TakeFromFirstPiece DEF Pending
  <2>3. Pending' = [Pending EXCEPT ![s] = Tail(Pending[s])]
    BY <1>a, <2>1, <2>2 DEF Pending
  <2>4. QED BY <2>1, <2>2, <2>3 DEF Pending, Mail!Take
<1>5. ASSUME NEW a \in Actors, FinishPost(a)
      PROVE  UNCHANGED <<sockBuf, sockRun, count, done>>
  BY <1>5 DEF FinishPost, AddMessageQueue, HandOver, SendWake
<1>6. ASSUME NEW t \in NetThreads,
             \/ DrainPair(t) \/ SwapThread(t) \/ ItemReturns(t) \/ BackToPoll(t)
             \/ \E s \in Sockets : EndSocket(t, s)
      PROVE  UNCHANGED <<sockBuf, sockRun, count, done>>
  BY <1>6 DEF DrainPair, SwapThread, ItemReturns, BackToPoll, ToPoll,
              EndSocket, LeaveSocket
<1>7. CASE UNCHANGED vars
  BY <1>7, <1>b DEF vars
<1>8. CASE \E a \in Actors : Post(a) \/ FinishPost(a)
  BY <1>8, <1>b, <1>1, <1>2, <1>5 DEF Post, Mail!Next
<1>9. CASE \E t \in NetThreads : RunQueue(t)
  BY <1>9, <1>b, <1>3, <1>4, <1>6 DEF RunQueue, Mail!Next
<1>10. QED BY <1>7, <1>8, <1>9 DEF Next

(* The two-stage queue implements the mailbox: every step of a poster or   *)
(* of a network thread is one step of EventMailbox or invisible            *)
(* (CNetThread::SetEvent, RunMessageQueue, RunSocketCallFunc).             *)
THEOREM MailboxTheorem == SafeSpec => MailboxKept
<1>1. Init => Mail!Init
  BY ConcatEmptySeq DEF Init, Mail!Init
<1>2. QED
  BY <1>1, MailStep, TypeCorrect, PTL DEF SafeSpec, MailboxKept, Mail!SafeSpec

-----------------------------------------------------------------------------
(* The positions of a sequence that hold a member of X, and how many they  *)
(* are when the sequence grows at its end or shrinks at its head.          *)
Places(q, X) == {i \in 1 .. Len(q) : q[i] \in X}

LEMMA PlacesCount ==
  ASSUME NEW q, Len(q) \in Nat, NEW X
  PROVE  IsFiniteSet(Places(q, X)) /\ Cardinality(Places(q, X)) \in Nat
<1>2. Places(q, X) \in SUBSET (1 .. Len(q))
  BY DEF Places
<1>3. IsFiniteSet(1 .. Len(q))
  BY FS_Interval
<1>4. IsFiniteSet(Places(q, X))
  BY <1>2, <1>3, FS_Subset
<1> QED BY <1>4, FS_CardinalityType

LEMMA PlacesAppend ==
  ASSUME NEW S, NEW q \in Seq(S), NEW x \in S, NEW X
  PROVE  /\ x \in X => Cardinality(Places(Append(q, x), X))
                      = Cardinality(Places(q, X)) + 1
         /\ x \notin X => Cardinality(Places(Append(q, x), X))
                         = Cardinality(Places(q, X))
<1> DEFINE n == Len(q) + 1
           p == Append(q, x)
<1>1. /\ Len(q) \in Nat /\ Len(p) = n /\ p[n] = x
      /\ \A i \in 1 .. Len(q) : p[i] = q[i]
  BY LenProperties, AppendProperties
<1>2. IsFiniteSet(Places(q, X)) /\ n \notin Places(q, X)
  <2>1. n \notin Places(q, X)
    BY <1>1 DEF Places
  <2> QED BY <1>1, <2>1, PlacesCount
<1>3. CASE x \in X
  <2>1. Places(p, X) = Places(q, X) \cup {n}
    BY <1>1, <1>3 DEF Places
  <2>2. Cardinality(Places(q, X) \cup {n}) = Cardinality(Places(q, X)) + 1
    BY <1>2, FS_AddElement
  <2> QED BY <1>3, <2>1, <2>2
<1>4. CASE x \notin X
  <2>1. Places(p, X) = Places(q, X)
    BY <1>1, <1>4 DEF Places
  <2> QED BY <1>4, <2>1
<1> QED BY <1>3, <1>4

LEMMA PlacesTail ==
  ASSUME NEW S, NEW q \in Seq(S), q # <<>>, NEW X
  PROVE  /\ Head(q) \in X => Cardinality(Places(q, X))
                            = Cardinality(Places(Tail(q), X)) + 1
         /\ Head(q) \notin X => Cardinality(Places(q, X))
                               = Cardinality(Places(Tail(q), X))
<1> DEFINE p == Tail(q)
           A == Places(q, X) \ {1}
           B == Places(p, X)
           f == [i \in B |-> i + 1]
<1>1. /\ Len(q) \in Nat \ {0} /\ Head(q) = q[1] /\ p \in Seq(S)
      /\ Len(p) = Len(q) - 1 /\ \A i \in 1 .. Len(p) : p[i] = q[i + 1]
  BY TailByIndex
<1>2. f \in Bijection(B, A)
  <2>1. f \in [B -> A]
    BY <1>1 DEF Places
  <2>2. \A i, j \in B : f[i] = f[j] => i = j
    BY <1>1 DEF Places
  <2>3. \A j \in A : \E i \in B : f[i] = j
    <3>1. TAKE j \in A
    <3>2. j - 1 \in B /\ f[j - 1] = j
      BY <1>1 DEF Places
    <3> QED BY <3>2
  <2> QED BY <2>1, <2>2, <2>3 DEF Bijection, Injection, Surjection, IsInjective
<1>3. IsFiniteSet(B)
  <2>1. Len(p) \in Nat
    BY <1>1
  <2> QED BY <2>1, PlacesCount
<1>4. IsFiniteSet(A) /\ Cardinality(A) = Cardinality(B)
  <2>1. ExistsBijection(B, A)
    BY <1>2 DEF ExistsBijection
  <2> QED BY <1>3, <2>1, FS_Bijection
<1>5. CASE Head(q) \in X
  <2>1. Places(q, X) = A \cup {1} /\ 1 \notin A
    BY <1>1, <1>5 DEF Places
  <2>2. Cardinality(A \cup {1}) = Cardinality(A) + 1
    BY <1>4, <2>1, FS_AddElement
  <2> QED BY <1>4, <1>5, <2>1, <2>2
<1>6. CASE Head(q) \notin X
  <2>1. Places(q, X) = A
    BY <1>1, <1>6 DEF Places
  <2> QED BY <1>4, <1>6, <2>1
<1> QED BY <1>5, <1>6

(* What the ledger counts of a socket.                                     *)
Others(s) == {e \in Event : e.from # ThreadOf[s]}
Ran(s) == Cardinality(Places(done[s], Others(s)))
InBuf(s) == Cardinality(Places(thrBuf[ThreadOf[s]], {s}))
InRun(s) == Cardinality(Places(thrRun[ThreadOf[s]], {s}))
Sum(s) == 1 + Len(sockBuf[s]) + Len(sockRun[s]) + Ran(s) + InBuf(s) + InRun(s)

(* Items come from other threads than their socket's.                      *)
FromOthers ==
  \A s \in Sockets :
    /\ \A i \in 1 .. Len(sockBuf[s]) : sockBuf[s][i] \in Others(s)
    /\ \A i \in 1 .. Len(sockRun[s]) : sockRun[s][i] \in Others(s)

Balanced == FromOthers /\ \A s \in Sockets : refs[s] = Sum(s)

LEMMA SumIsLedger ==
  ASSUME TypeOK
  PROVE  RefLedger <=> \A s \in Sockets : refs[s] = Sum(s)
<1>1. ASSUME NEW s \in Sockets PROVE RunFromQueue(s) = Places(done[s], Others(s))
  <2>1. done[s] \in Seq(Event)
    BY DEF TypeOK, StateTypes
  <2>2. \A i \in 1 .. Len(done[s]) : done[s][i] \in Event
    BY <2>1, ElementOfSeq
  <2> QED BY <2>2 DEF RunFromQueue, Places, Others
<1>2. \A s, q : Entries(s, q) = Places(q, {s})
  BY DEF Entries, Places
<1> QED BY <1>1, <1>2 DEF RefLedger, Sum, Ran, InBuf, InRun

CountsAre ==
  \A s \in Sockets :
    /\ Len(sockBuf[s]) \in Nat /\ Len(sockRun[s]) \in Nat
    /\ Ran(s) \in Nat /\ InBuf(s) \in Nat /\ InRun(s) \in Nat

LEMMA CountTypes == TypeOK => CountsAre
<1> SUFFICES ASSUME TypeOK, NEW s \in Sockets
    PROVE  /\ Len(sockBuf[s]) \in Nat /\ Len(sockRun[s]) \in Nat
           /\ Ran(s) \in Nat /\ InBuf(s) \in Nat /\ InRun(s) \in Nat
  BY DEF CountsAre
<1>1. /\ sockBuf[s] \in Seq(Event) /\ sockRun[s] \in Seq(Event)
      /\ done[s] \in Seq(Event)
      /\ thrBuf[ThreadOf[s]] \in Seq(Sockets) /\ thrRun[ThreadOf[s]] \in Seq(Sockets)
  BY DEF TypeOK, StateTypes
<1>2. /\ Len(sockBuf[s]) \in Nat /\ Len(sockRun[s]) \in Nat /\ Len(done[s]) \in Nat
      /\ Len(thrBuf[ThreadOf[s]]) \in Nat /\ Len(thrRun[ThreadOf[s]]) \in Nat
  BY <1>1, LenProperties
<1> QED BY <1>2, PlacesCount DEF Ran, InBuf, InRun

LEMMA CountTypesAfter == TypeOK' => CountsAre'
BY CountTypes, PTL

(* How a step moves one socket's part of the ledger: an item or an entry    *)
(* comes with a reference, the swaps move what is counted, a called item   *)
(* stays counted, and an entry leaves with its reference.                  *)
Moved(r) ==
  LET sb == Len(sockBuf'[r]) = Len(sockBuf[r])
      sr == Len(sockRun'[r]) = Len(sockRun[r])
      rn == Ran(r)' = Ran(r)
      ib == InBuf(r)' = InBuf(r)
      ir == InRun(r)' = InRun(r)
      same == refs'[r] = refs[r]
      more == refs'[r] = refs[r] + 1
  IN \/ sb /\ sr /\ rn /\ ib /\ ir /\ same
     \/ Len(sockBuf'[r]) = Len(sockBuf[r]) + 1 /\ sr /\ rn /\ ib /\ ir /\ more
     \/ sb /\ sr /\ rn /\ InBuf(r)' = InBuf(r) + 1 /\ ir /\ more
     \/ sb /\ sr /\ rn /\ InBuf(r)' = InRun(r) /\ InRun(r)' = InBuf(r) /\ same
     \/ /\ Len(sockBuf'[r]) = Len(sockRun[r]) /\ Len(sockRun'[r]) = Len(sockBuf[r])
        /\ rn /\ ib /\ ir /\ same
     \/ /\ sb /\ Len(sockRun[r]) = Len(sockRun'[r]) + 1
        /\ Ran(r)' = Ran(r) + 1 /\ ib /\ ir /\ same
     \/ sb /\ sr /\ rn /\ ib /\ InRun(r) = InRun(r)' + 1 /\ refs'[r] = refs[r] - 1

LEMMA SocketBalanced ==
  ASSUME NEW r \in Sockets, CountsAre, CountsAre',
         refs[r] \in Int, refs[r] = Sum(r), Moved(r)
  PROVE  refs'[r] = Sum(r)'
<1> DEFINE a == Len(sockBuf[r])
           b == Len(sockRun[r])
           c == Ran(r)
           e == InBuf(r)
           f == InRun(r)
           a1 == Len(sockBuf'[r])
           b1 == Len(sockRun'[r])
           c1 == Ran(r)'
           e1 == InBuf(r)'
           f1 == InRun(r)'
           x == refs[r]
           x1 == refs'[r]
<1>1. a \in Nat /\ b \in Nat /\ c \in Nat /\ e \in Nat /\ f \in Nat
  BY DEF CountsAre
<1>2. a1 \in Nat /\ b1 \in Nat /\ c1 \in Nat /\ e1 \in Nat /\ f1 \in Nat
  BY DEF CountsAre
<1>3. x \in Int /\ x = 1 + a + b + c + e + f
  BY DEF Sum
<1>4. \/ a1 = a /\ b1 = b /\ c1 = c /\ e1 = e /\ f1 = f /\ x1 = x
      \/ a1 = a + 1 /\ b1 = b /\ c1 = c /\ e1 = e /\ f1 = f /\ x1 = x + 1
      \/ a1 = a /\ b1 = b /\ c1 = c /\ e1 = e + 1 /\ f1 = f /\ x1 = x + 1
      \/ a1 = a /\ b1 = b /\ c1 = c /\ e1 = f /\ f1 = e /\ x1 = x
      \/ a1 = b /\ b1 = a /\ c1 = c /\ e1 = e /\ f1 = f /\ x1 = x
      \/ a1 = a /\ b = b1 + 1 /\ c1 = c + 1 /\ e1 = e /\ f1 = f /\ x1 = x
      \/ a1 = a /\ b1 = b /\ c1 = c /\ e1 = e /\ f = f1 + 1 /\ x1 = x - 1
  BY Zenon DEF Moved
<1>5. x1 = 1 + a1 + b1 + c1 + e1 + f1
  <2> HIDE DEF a, b, c, e, f, a1, b1, c1, e1, f1, x, x1
  <2> QED BY <1>1, <1>2, <1>3, <1>4
<1> QED BY <1>5, Zenon DEF Sum

LEMMA LedgerStep == TypeOK /\ TypeOK' /\ Balanced /\ [Next]_vars => Balanced'
<1> SUFFICES ASSUME TypeOK, TypeOK', Balanced, [Next]_vars PROVE Balanced'
  OBVIOUS
<1>a. /\ sockBuf \in [Sockets -> Seq(Event)] /\ sockRun \in [Sockets -> Seq(Event)]
      /\ done \in [Sockets -> Seq(Event)] /\ refs \in [Sockets -> Int]
      /\ thrBuf \in [NetThreads -> Seq(Sockets)]
      /\ thrRun \in [NetThreads -> Seq(Sockets)]
      /\ StateTypes
  BY DEF TypeOK, StateTypes
<1>b. /\ \A t \in NetThreads : ThreadPrivate(t)
      /\ \A s \in Sockets : SocketPrivate(s)
  BY DEF TypeOK, PrivateBuffers
<1>c. CountsAre /\ CountsAre'
  BY CountTypes, CountTypesAfter
<1>d. FromOthers /\ \A s \in Sockets : refs[s] = Sum(s)
  BY DEF Balanced
<1>e. ThreadOf \in [Sockets -> NetThreads]
  OBVIOUS
<1> HIDE QueueAssumption DEF QueueAssumption
<1>1. ASSUME NEW a \in Actors, NEW s \in Sockets, SetEventDirect(a, s)
      PROVE Balanced'
  <2>1. /\ a = ThreadOf[s]
        /\ done' = [done EXCEPT ![s] = Append(done[s], NextEvent(a, s))]
        /\ UNCHANGED <<sockBuf, sockRun, thrBuf, thrRun, refs>>
    BY <1>1 DEF SetEventDirect
  <2>2. NextEvent(a, s) \in Event /\ NextEvent(a, s) \notin Others(s)
    BY <1>a, <2>1, NextEventType DEF NextEvent, Others
  <2>3. Cardinality(Places(Append(done[s], NextEvent(a, s)), Others(s))) = Ran(s)
    BY <1>a, <1>c, <2>2, PlacesAppend DEF Ran
  <2>4. \A r \in Sockets : Ran(r)' = Ran(r)
    BY <1>a, <2>1, <2>3 DEF Ran, Others
  <2> QED BY <1>d, <2>1, <2>4 DEF Balanced, FromOthers, Sum, InBuf, InRun, Others
<1>2. ASSUME NEW a \in Actors, NEW s \in Sockets, SetEventQueued(a, s)
      PROVE Balanced'
  <2> DEFINE e == NextEvent(a, s)
  <2>1. /\ a # ThreadOf[s] /\ refs' = [refs EXCEPT ![s] = @ + 1]
        /\ sockBuf' = [sockBuf EXCEPT ![s] = Append(sockBuf[s], e)]
        /\ UNCHANGED <<sockRun, thrBuf, thrRun, done>>
    BY <1>2 DEF SetEventQueued, QueueItem
  <2>2. e \in Others(s)
    BY <1>a, <2>1, NextEventType DEF NextEvent, Others
  <2>3. /\ Len(Append(sockBuf[s], e)) = Len(sockBuf[s]) + 1
        /\ \A i \in 1 .. Len(sockBuf[s]) : Append(sockBuf[s], e)[i] = sockBuf[s][i]
        /\ Append(sockBuf[s], e)[Len(sockBuf[s]) + 1] = e
    BY <1>a, <1>c, <2>2, AppendProperties DEF Others
  <2>4. /\ sockBuf'[s] = Append(sockBuf[s], e)
        /\ \A r \in Sockets \ {s} : sockBuf'[r] = sockBuf[r]
    BY <1>a, <2>1
  <2> HIDE DEF e
  <2>5. FromOthers'
    <3>1. \A i \in 1 .. Len(sockBuf'[s]) : sockBuf'[s][i] \in Others(s)
      BY <1>c, <1>d, <2>2, <2>3, <2>4 DEF FromOthers
    <3> QED BY <1>d, <2>1, <2>4, <3>1 DEF FromOthers, Others
  <2>6. \A r \in Sockets :
          Ran(r)' = Ran(r) /\ InBuf(r)' = InBuf(r) /\ InRun(r)' = InRun(r)
    BY <2>1 DEF Ran, InBuf, InRun, Others
  <2>7. ASSUME NEW r \in Sockets PROVE refs'[r] = Sum(r)'
    <3>1. Moved(r)
      <4>1. CASE r = s
        <5>1. refs'[s] = refs[s] + 1
          BY <1>a, <2>1
        <5>2. Len(sockBuf'[s]) = Len(sockBuf[s]) + 1
          BY <2>3, <2>4
        <5> QED BY <2>1, <2>6, <4>1, <5>1, <5>2, Zenon DEF Moved
      <4>2. CASE r # s
        <5>1. refs'[r] = refs[r]
          BY <1>a, <2>1, <4>2
        <5> QED BY <2>1, <2>4, <2>6, <4>2, <5>1, Zenon DEF Moved
      <4> QED BY <4>1, <4>2
    <3> QED BY <1>a, <1>c, <1>d, <3>1, SocketBalanced
  <2> QED BY <2>5, <2>7 DEF Balanced
<1>3. ASSUME NEW a \in Actors, NEW s \in Sockets, NEW t \in NetThreads,
             AddMessageQueue(a, s, t)
      PROVE Balanced'
  <2>1. /\ t = ThreadOf[s] /\ refs' = [refs EXCEPT ![s] = @ + 1]
        /\ thrBuf' = [thrBuf EXCEPT ![t] = Append(thrBuf[t], s)]
        /\ UNCHANGED <<sockBuf, sockRun, thrRun, done>>
    BY <1>3 DEF AddMessageQueue, HandOver
  <2>2. FromOthers'
    BY <1>d, <2>1 DEF FromOthers, Others
  <2>3. \A r \in Sockets : Ran(r)' = Ran(r) /\ InRun(r)' = InRun(r)
    BY <2>1 DEF Ran, InRun, Others
  <2>4. ASSUME NEW r \in Sockets
        PROVE  /\ r = s => InBuf(r)' = InBuf(r) + 1
               /\ r # s => InBuf(r)' = InBuf(r)
    <3>1. CASE ThreadOf[r] = t
      <4>1. thrBuf'[t] = Append(thrBuf[t], s) /\ thrBuf[t] \in Seq(Sockets)
        BY <1>a, <2>1
      <4>2. /\ s \in {r} => Cardinality(Places(Append(thrBuf[t], s), {r}))
                             = Cardinality(Places(thrBuf[t], {r})) + 1
            /\ s \notin {r} => Cardinality(Places(Append(thrBuf[t], s), {r}))
                                = Cardinality(Places(thrBuf[t], {r}))
        BY <4>1, PlacesAppend
      <4> QED BY <3>1, <4>1, <4>2 DEF InBuf
    <3>2. CASE ThreadOf[r] # t
      <4>1. thrBuf'[ThreadOf[r]] = thrBuf[ThreadOf[r]] /\ r # s
        BY <1>a, <1>e, <2>1, <3>2
      <4> QED BY <4>1 DEF InBuf
    <3> QED BY <3>1, <3>2
  <2>6. ASSUME NEW r \in Sockets PROVE refs'[r] = Sum(r)'
    <3>1. Moved(r)
      <4>1. CASE r = s
        <5>1. refs'[s] = refs[s] + 1
          BY <1>a, <2>1
        <5> QED BY <2>1, <2>3, <2>4, <4>1, <5>1, Zenon DEF Moved
      <4>2. CASE r # s
        <5>1. refs'[r] = refs[r]
          BY <1>a, <2>1, <4>2
        <5> QED BY <2>1, <2>3, <2>4, <4>2, <5>1, Zenon DEF Moved
      <4> QED BY <4>1, <4>2
    <3> QED BY <1>a, <1>c, <1>d, <3>1, SocketBalanced
  <2> QED BY <2>2, <2>6 DEF Balanced
<1>4. ASSUME UNCHANGED <<sockBuf, sockRun, thrBuf, thrRun, refs, done>> PROVE Balanced'
  BY <1>d, <1>4 DEF Balanced, FromOthers, Sum, Ran, InBuf, InRun, Others
<1>5. ASSUME NEW t \in NetThreads, SwapThread(t) PROVE Balanced'
  <2>1. /\ thrRun' = [thrRun EXCEPT ![t] = thrBuf[t]]
        /\ thrBuf' = [thrBuf EXCEPT ![t] = thrRun[t]]
        /\ UNCHANGED <<sockBuf, sockRun, refs, done>>
    BY <1>5 DEF SwapThread
  <2>2. ASSUME NEW r \in Sockets
        PROVE  \/ InBuf(r)' = InRun(r) /\ InRun(r)' = InBuf(r)
               \/ InBuf(r)' = InBuf(r) /\ InRun(r)' = InRun(r)
    BY <1>a, <1>e, <2>1 DEF InBuf, InRun
  <2>3. FromOthers' /\ \A r \in Sockets : Ran(r)' = Ran(r)
    BY <1>d, <2>1 DEF FromOthers, Ran, Others
  <2>4. ASSUME NEW r \in Sockets PROVE refs'[r] = Sum(r)'
    <3>1. Moved(r)
      BY <2>1, <2>2, <2>3, Zenon DEF Moved
    <3> QED BY <1>a, <1>c, <1>d, <3>1, SocketBalanced
  <2> QED BY <2>3, <2>4 DEF Balanced
<1>6. ASSUME NEW t \in NetThreads, NEW s \in Sockets, SwapSocket(t, s)
      PROVE Balanced'
  <2>1. /\ sockRun' = [sockRun EXCEPT ![s] = sockBuf[s]]
        /\ sockBuf' = [sockBuf EXCEPT ![s] = sockRun[s]]
        /\ UNCHANGED <<thrBuf, thrRun, refs, done>>
    BY <1>6 DEF SwapSocket, TakeItems
  <2>2. ASSUME NEW r \in Sockets
        PROVE  \/ sockBuf'[r] = sockRun[r] /\ sockRun'[r] = sockBuf[r]
               \/ sockBuf'[r] = sockBuf[r] /\ sockRun'[r] = sockRun[r]
    BY <1>a, <2>1
  <2>3. \A r \in Sockets :
          Ran(r)' = Ran(r) /\ InBuf(r)' = InBuf(r) /\ InRun(r)' = InRun(r)
    BY <2>1 DEF Ran, InBuf, InRun, Others
  <2>4. FromOthers'
    BY <1>d, <2>2 DEF FromOthers, Others
  <2>5. ASSUME NEW r \in Sockets PROVE refs'[r] = Sum(r)'
    <3>1. Moved(r)
      BY <2>1, <2>2, <2>3, Zenon DEF Moved
    <3> QED BY <1>a, <1>c, <1>d, <3>1, SocketBalanced
  <2> QED BY <2>4, <2>5 DEF Balanced
<1>7. ASSUME NEW t \in NetThreads, NEW s \in Sockets, CallItem(t, s)
      PROVE Balanced'
  <2>1. /\ sockRun[s] # <<>>
        /\ done' = [done EXCEPT ![s] = Append(done[s], Head(sockRun[s]))]
        /\ sockRun' = [sockRun EXCEPT ![s] = Tail(sockRun[s])]
        /\ UNCHANGED <<sockBuf, thrBuf, thrRun, refs>>
    BY <1>7 DEF CallItem
  <2>2. /\ Len(sockRun[s]) \in Nat \ {0} /\ Head(sockRun[s]) = sockRun[s][1]
        /\ Head(sockRun[s]) \in Event /\ Len(Tail(sockRun[s])) = Len(sockRun[s]) - 1
        /\ \A i \in 1 .. Len(Tail(sockRun[s])) : Tail(sockRun[s])[i] = sockRun[s][i + 1]
    BY <1>a, <2>1, TailByIndex
  <2>3. Head(sockRun[s]) \in Others(s)
    BY <1>d, <2>2 DEF FromOthers
  <2>4. Cardinality(Places(Append(done[s], Head(sockRun[s])), Others(s))) = Ran(s) + 1
    <3>1. done[s] \in Seq(Event)
      BY <1>a
    <3> QED BY <2>2, <2>3, <3>1, PlacesAppend DEF Ran
  <2>5. ASSUME NEW r \in Sockets
        PROVE  /\ r = s => Ran(r)' = Ran(r) + 1
               /\ r # s => Ran(r)' = Ran(r)
    <3>1. done'[s] = Append(done[s], Head(sockRun[s]))
      BY <1>a, <2>1
    <3>2. r # s => done'[r] = done[r]
      BY <1>a, <2>1
    <3>3. Others(r)' = Others(r)
      BY DEF Others
    <3> QED BY <2>4, <3>1, <3>2, <3>3 DEF Ran
  <2>6. /\ sockRun'[s] = Tail(sockRun[s])
        /\ \A r \in Sockets \ {s} : sockRun'[r] = sockRun[r]
    BY <1>a, <2>1
  <2>7. FromOthers'
    <3>1. \A i \in 1 .. Len(sockRun'[s]) : sockRun'[s][i] \in Others(s)
      BY <1>d, <2>2, <2>6 DEF FromOthers
    <3> QED BY <1>d, <2>1, <2>6, <3>1 DEF FromOthers, Others
  <2>8. \A r \in Sockets : InBuf(r)' = InBuf(r) /\ InRun(r)' = InRun(r)
    BY <2>1 DEF InBuf, InRun
  <2>9. ASSUME NEW r \in Sockets
        PROVE  /\ r = s => Len(sockRun[r]) = Len(sockRun'[r]) + 1
               /\ r # s => Len(sockRun'[r]) = Len(sockRun[r])
    <3>1. Len(sockRun[s]) = Len(Tail(sockRun[s])) + 1
      <4>1. \A k \in Nat \ {0} : \A l : l = k - 1 => k = l + 1
        OBVIOUS
      <4> QED BY <2>2, <4>1, Zenon
    <3> QED BY <2>6, <3>1, Zenon
  <2>10. ASSUME NEW r \in Sockets PROVE refs'[r] = Sum(r)'
    <3>1. Moved(r)
      BY <2>1, <2>5, <2>8, <2>9, Zenon DEF Moved
    <3> QED BY <1>a, <1>c, <1>d, <3>1, SocketBalanced
  <2> QED BY <2>7, <2>10 DEF Balanced
<1>8. ASSUME NEW t \in NetThreads, NEW s \in Sockets, EndSocket(t, s)
      PROVE Balanced'
  <2>1. /\ netpc[t] = "calls" /\ s = Head(thrRun[t])
        /\ refs' = [refs EXCEPT ![s] = @ - 1]
        /\ thrRun' = [thrRun EXCEPT ![t] = Tail(thrRun[t])]
        /\ UNCHANGED <<sockBuf, sockRun, thrBuf, done>>
    BY <1>8 DEF EndSocket, LeaveSocket
  <2>2. thrRun[t] # <<>> /\ ThreadOf[s] = t
    <3>1. thrRun[t] # <<>>
      BY <1>b, <2>1 DEF ThreadPrivate, Serving
    <3>2. Len(thrRun[t]) \in Nat \ {0} /\ s = thrRun[t][1]
      BY <1>a, <2>1, <3>1, TailByIndex
    <3> QED BY <1>b, <3>1, <3>2 DEF ThreadPrivate
  <2>3. FromOthers' /\ \A r \in Sockets : Ran(r)' = Ran(r) /\ InBuf(r)' = InBuf(r)
    BY <1>d, <2>1 DEF FromOthers, Ran, InBuf, Others
  <2>4. ASSUME NEW r \in Sockets
        PROVE  /\ r = s => InRun(r) = InRun(r)' + 1
               /\ r # s => InRun(r)' = InRun(r)
    <3>1. CASE ThreadOf[r] = t
      <4>1. thrRun'[t] = Tail(thrRun[t]) /\ thrRun[t] \in Seq(Sockets)
        BY <1>a, <2>1
      <4>2. /\ s \in {r} => Cardinality(Places(thrRun[t], {r}))
                             = Cardinality(Places(Tail(thrRun[t]), {r})) + 1
            /\ s \notin {r} => Cardinality(Places(thrRun[t], {r}))
                                = Cardinality(Places(Tail(thrRun[t]), {r}))
        BY <2>1, <2>2, <4>1, PlacesTail
      <4> QED BY <3>1, <4>1, <4>2 DEF InRun
    <3>2. CASE ThreadOf[r] # t
      <4>1. thrRun'[ThreadOf[r]] = thrRun[ThreadOf[r]] /\ r # s
        BY <1>a, <1>e, <2>1, <2>2, <3>2
      <4> QED BY <4>1 DEF InRun
    <3> QED BY <3>1, <3>2
  <2>6. ASSUME NEW r \in Sockets
        PROVE  /\ r = s => refs'[r] = refs[r] - 1
               /\ r # s => refs'[r] = refs[r]
    BY <1>a, <2>1
  <2>7. ASSUME NEW r \in Sockets PROVE refs'[r] = Sum(r)'
    <3>1. Moved(r)
      BY <2>1, <2>3, <2>4, <2>6, Zenon DEF Moved
    <3> QED BY <1>a, <1>c, <1>d, <3>1, SocketBalanced
  <2> QED BY <2>3, <2>7 DEF Balanced
<1>9. ASSUME NEW a \in Actors, SendWake(a) PROVE Balanced'
  BY <1>4, <1>9 DEF SendWake
<1>10. ASSUME NEW t \in NetThreads, DrainPair(t) \/ ItemReturns(t) \/ BackToPoll(t)
       PROVE Balanced'
  BY <1>4, <1>10 DEF DrainPair, ItemReturns, BackToPoll, ToPoll
<1>11. CASE UNCHANGED vars
  BY <1>4, <1>11 DEF vars
<1> QED
  BY <1>1, <1>2, <1>3, <1>5, <1>6, <1>7, <1>8, <1>9, <1>10, <1>11
     DEF Next, Post, FinishPost, RunQueue, Actors

(* Every reference of a session that the queue takes or gives back is      *)
(* accounted for: one for each entry in its thread's queue, one for each   *)
(* item ever queued (SetEvent, AddMessageQueue, RunMessageQueue).          *)
THEOREM LedgerTheorem == SafeSpec => []RefLedger
<1>1. Init => Balanced
  <2> SUFFICES ASSUME Init PROVE Balanced
    OBVIOUS
  <2>1. \A X : Places(<<>>, X) = {}
    BY DEF Places
  <2>2. FromOthers
    BY DEF Init, FromOthers
  <2>3. ASSUME NEW s \in Sockets PROVE refs[s] = Sum(s)
    <3>1. /\ refs[s] = 1 /\ sockBuf[s] = <<>> /\ sockRun[s] = <<>> /\ done[s] = <<>>
          /\ thrBuf[ThreadOf[s]] = <<>> /\ thrRun[ThreadOf[s]] = <<>>
      BY DEF Init
    <3>2. Len(<<>>) = 0
      OBVIOUS
    <3>3. Ran(s) = 0 /\ InBuf(s) = 0 /\ InRun(s) = 0
      BY <2>1, <3>1, FS_EmptySet DEF Ran, InBuf, InRun
    <3> QED BY <3>1, <3>2, <3>3 DEF Sum
  <2> QED BY <2>2, <2>3 DEF Balanced
<1>2. TypeOK /\ Balanced => RefLedger
  BY SumIsLedger DEF Balanced
<1> QED BY <1>1, <1>2, LedgerStep, TypeCorrect, PTL DEF SafeSpec
=============================================================================
