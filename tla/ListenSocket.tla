----------------------------- MODULE ListenSocket -----------------------------
(***************************************************************************)
(* CBasicNet_SocketListen, from Listen to Close and to listening again.    *)
(* Listen runs in the caller's thread and has its socket taken over by the *)
(* network thread; the timer thread, which also finishes a Close, listens  *)
(* again to the last address whenever the server does not listen.  A       *)
(* caller of Listen may wait for the network thread on a CEvent, which is  *)
(* here what it is on Linux.                                               *)
(*                                                                         *)
(* A read or a write of the status word is atomic.  The bounds are the     *)
(* numbers of Sockets, of calls and of queued calls.                       *)
(***************************************************************************)
EXTENDS Integers, Sequences

CONSTANTS
  Users,       (* threads that call Listen and Close                       *)
  Timer,       (* the thread of CBasicNetMgv::OnTimer                      *)
  Sockets,     (* descriptors                                              *)
  NoSocket,    (* INVALID_SOCKET                                           *)
  MaxListen,   (* bound: calls of Listen per user                          *)
  MaxClose,    (* bound: calls of Close per user                           *)
  MaxQueue     (* bound: calls queued for the network thread               *)

ASSUME ListenAssumption ==
  /\ Timer \notin Users /\ NoSocket \notin Sockets
  /\ MaxListen \in Nat /\ MaxClose \in Nat /\ MaxQueue \in Nat \ {0}

VARIABLES
  sockfd,      (* m_socketfd                                               *)
  link,        (* m_unSessionStatus & TIL_SS_LINK                          *)
  toClose,     (* m_unSessionStatus & TIL_SS_CLOSE                         *)
  address,     (* whether m_strListenAddr is set                           *)
  queue,       (* what the network thread has to run, oldest first         *)
  open,        (* the sockets that are open                                *)
  pc,          (* where a thread is in Listen or Close                     *)
  sock,        (* its local socketfd                                       *)
  waits,       (* its bWaitSuccess                                         *)
  asleep,      (* the threads in pthread_cond_wait                         *)
  listens, closes   (* calls made so far                                   *)

status == <<link, toClose>>
counts == <<listens, closes>>
listenVars ==
  <<sockfd, status, address, queue, open, pc, sock, waits, asleep, counts>>

Threads == Users \cup {Timer}
(* In queue: CloseListening; a socket stands for InitListenEvent.           *)
CloseJob == NoSocket

IsListen == sockfd # NoSocket

ListenInit ==
  /\ sockfd = NoSocket /\ link = "idle" /\ toClose = FALSE /\ address = FALSE
  /\ queue = <<>> /\ open = {} /\ asleep = {}
  /\ pc = [t \in Threads |-> "idle"]
  /\ sock = [t \in Threads |-> NoSocket]
  /\ waits = [t \in Threads |-> FALSE]
  /\ listens = [u \in Users |-> 0]
  /\ closes = [u \in Users |-> 0]

Goto(t, place) == pc' = [pc EXCEPT ![t] = place]
-----------------------------------------------------------------------------
(* CEvent on Linux: a signal wakes a thread that waits and is not kept.    *)
SetEvent ==
  IF asleep = {} THEN UNCHANGED asleep
                 ELSE \E t \in asleep : asleep' = asleep \ {t}

WaitEvent(t) == asleep' = asleep \cup {t}
-----------------------------------------------------------------------------
(* After an error, but for already listening, the timer calls Close.       *)
AfterFailure(t) == IF t = Timer THEN "close" ELSE "done"

(* Listen: refused when the server listens, closes or is about to listen.  *)
CheckIf(t, busy) ==
  /\ pc[t] = "check"
  /\ Goto(t, IF ~IsListen /\ toClose THEN AfterFailure(t)
             ELSE IF busy THEN "done" ELSE "open")
  /\ UNCHANGED <<sockfd, status, address, queue, open, sock, waits, asleep, counts>>

FaultCheckSocketOnly(t) == CheckIf(t, IsListen)

Check(t) == CheckIf(t, IsListen \/ link # "idle")

(* socket, bind and listen, which succeed ...                              *)
Open(t) ==
  /\ pc[t] = "open"
  /\ \E s \in Sockets \ open :
       /\ open' = open \cup {s}
       /\ sock' = [sock EXCEPT ![t] = s]
  /\ Goto(t, "mark")
  /\ UNCHANGED <<sockfd, status, address, queue, waits, asleep, counts>>

(* ... or not.                                                             *)
OpenFailsTo(t, newLink) ==
  /\ pc[t] = "open"
  /\ link' = newLink
  /\ Goto(t, AfterFailure(t))
  /\ UNCHANGED <<sockfd, toClose, address, queue, open, sock, waits, asleep, counts>>

FaultOpenFailsMarked(t) == OpenFailsTo(t, "listening")

OpenFails(t) == OpenFailsTo(t, link)

Mark(t) ==
  /\ pc[t] = "mark"
  /\ link' = "listening"
  /\ Goto(t, "post")
  /\ UNCHANGED <<sockfd, toClose, address, queue, open, sock, waits, asleep, counts>>

Post(t) ==
  /\ pc[t] = "post"
  /\ Len(queue) < MaxQueue
  /\ queue' = Append(queue, sock[t])
  /\ sock' = [sock EXCEPT ![t] = NoSocket]
  /\ Goto(t, IF waits[t] THEN "test" ELSE "done")
  /\ UNCHANGED <<sockfd, status, address, open, waits, asleep, counts>>

(* while(!IsListen()) m_eventListen.Lock();                                *)
Test(t) ==
  /\ pc[t] = "test" /\ t \notin asleep
  /\ Goto(t, IF IsListen THEN "done" ELSE "wait")
  /\ UNCHANGED <<sockfd, status, address, queue, open, sock, waits, asleep, counts>>

Wait(t) ==
  /\ pc[t] = "wait"
  /\ WaitEvent(t)
  /\ Goto(t, "test")
  /\ UNCHANGED <<sockfd, status, address, queue, open, sock, waits, counts>>

(* pthread_cond_wait may return without a signal.                          *)
WakeUp(t) ==
  /\ t \in asleep
  /\ asleep' = asleep \ {t}
  /\ UNCHANGED <<sockfd, status, address, queue, open, pc, sock, waits, counts>>

(* CBasicSessionNetServer::Listen notes the address, whatever came of it.  *)
Done(t) ==
  /\ pc[t] = "done"
  /\ address' = TRUE
  /\ Goto(t, "idle")
  /\ UNCHANGED <<sockfd, status, queue, open, sock, waits, asleep, counts>>
-----------------------------------------------------------------------------
(* Close, which does nothing without a socket.                             *)
CloseTest(t) ==
  /\ pc[t] = "close"
  /\ Goto(t, IF IsListen THEN "toclose" ELSE "idle")
  /\ UNCHANGED <<sockfd, status, address, queue, open, sock, waits, asleep, counts>>

CloseMark(t) ==
  /\ pc[t] = "toclose"
  /\ toClose' = TRUE
  /\ Goto(t, "postclose")
  /\ UNCHANGED <<sockfd, link, address, queue, open, sock, waits, asleep, counts>>

ClosePost(t) ==
  /\ pc[t] = "postclose"
  /\ Len(queue) < MaxQueue
  /\ queue' = Append(queue, CloseJob)
  /\ Goto(t, "idle")
  /\ UNCHANGED <<sockfd, status, address, open, sock, waits, asleep, counts>>
-----------------------------------------------------------------------------
(* The network thread.                                                     *)
InitListenEvent ==
  /\ queue # <<>> /\ Head(queue) # CloseJob
  /\ sockfd' = Head(queue)
  /\ queue' = Tail(queue)
  /\ SetEvent
  /\ UNCHANGED <<status, address, open, pc, sock, waits, counts>>

(* The socket is closed and the status word reset.                         *)
CloseListening ==
  /\ open' = open \ {sockfd}
  /\ sockfd' = NoSocket
  /\ IF IsListen THEN link' = "idle" /\ toClose' = FALSE
                 ELSE UNCHANGED status
  /\ UNCHANGED <<address, pc, sock, waits, asleep, counts>>

RunClose ==
  /\ queue # <<>> /\ Head(queue) = CloseJob
  /\ queue' = Tail(queue)
  /\ CloseListening

(* A connection comes in after Close: AcceptClient closes at once.         *)
AcceptClosing ==
  /\ IsListen /\ toClose
  /\ CloseListening
  /\ UNCHANGED queue
-----------------------------------------------------------------------------
UserListens(u) ==
  /\ pc[u] = "idle" /\ listens[u] < MaxListen
  /\ listens' = [listens EXCEPT ![u] = @ + 1]
  /\ \E w \in BOOLEAN : waits' = [waits EXCEPT ![u] = w]
  /\ Goto(u, "check")
  /\ UNCHANGED <<sockfd, status, address, queue, open, sock, asleep, closes>>

UserCloses(u) ==
  /\ pc[u] = "idle" /\ closes[u] < MaxClose
  /\ closes' = [closes EXCEPT ![u] = @ + 1]
  /\ Goto(u, "close")
  /\ UNCHANGED <<sockfd, status, address, queue, open, sock, waits, asleep, listens>>

(* The timer closes what is to be closed, and else listens when nothing    *)
(* does.                                                                   *)
OnTimer ==
  /\ pc[Timer] = "idle"
  /\ \/ toClose /\ Goto(Timer, "close")
     \/ ~toClose /\ address /\ ~IsListen /\ Goto(Timer, "check")
  /\ UNCHANGED <<sockfd, status, address, queue, open, sock, waits, asleep, counts>>

Network == InitListenEvent \/ RunClose

Goes(t) ==
  \/ Check(t) \/ Mark(t) \/ Post(t) \/ Test(t) \/ Wait(t) \/ Done(t)
  \/ CloseTest(t) \/ CloseMark(t) \/ ClosePost(t)

ListenNext ==
  \/ \E u \in Users : UserListens(u) \/ UserCloses(u)
  \/ \E t \in Threads : Goes(t) \/ Open(t) \/ OpenFails(t) \/ WakeUp(t)
  \/ OnTimer \/ Network \/ AcceptClosing

ListenSpec == ListenInit /\ [][ListenNext]_listenVars

(* Threads are scheduled; the port becomes free for one that keeps trying. *)
FairSpec ==
  /\ ListenSpec
  /\ WF_listenVars(Network) /\ WF_listenVars(OnTimer)
  /\ \A t \in Threads :
       /\ WF_listenVars(Goes(t))
       /\ WF_listenVars(Open(t) \/ OpenFails(t)) /\ SF_listenVars(Open(t))
-----------------------------------------------------------------------------
ListenTypeOK ==
  /\ sockfd \in Sockets \cup {NoSocket}
  /\ link \in {"idle", "listening"}
  /\ toClose \in BOOLEAN /\ address \in BOOLEAN
  /\ queue \in Seq(Sockets \cup {CloseJob}) /\ Len(queue) <= MaxQueue
  /\ open \subseteq Sockets
  /\ pc \in [Threads -> {"idle", "check", "open", "mark", "post", "test", "wait",
                         "done", "close", "toclose", "postclose"}]
  /\ sock \in [Threads -> Sockets \cup {NoSocket}]
  /\ waits \in [Threads -> BOOLEAN]
  /\ asleep \subseteq Threads
  /\ \A t \in Threads :
       /\ sock[t] # NoSocket <=> pc[t] \in {"mark", "post"}
       /\ t \in asleep => pc[t] = "test"
  /\ listens \in [Users -> 0..MaxListen] /\ closes \in [Users -> 0..MaxClose]

Queued == {queue[i] : i \in DOMAIN queue} \ {CloseJob}

(* No listening socket is left without an owner, which would keep its port *)
(* for ever: it is the server's, queued to become it, or about to be.      *)
NoSocketLost ==
  \A s \in open :
    \/ s = sockfd \/ s \in Queued
    \/ \E t \in Threads : sock[t] = s

(* A caller that waits for the server to listen does not wait for ever.    *)
WaitEnds ==
  \A u \in Users : pc[u] \in {"test", "wait"} ~> pc[u] = "idle"

(* The server listens in the end once Listen was called, even if binding   *)
(* fails at first, and again after a Close (OnTimer 562-574).              *)
ListensInTheEnd == address ~> IsListen

(* It does, unless a Close is noted: the timer binds again as long as it   *)
(* takes and no outcome of a bind, a hand-over or a Close leaves a status  *)
(* under which the timer would not try.                                    *)
ListensUnlessClosing == address ~> IsListen \/ toClose
=============================================================================
