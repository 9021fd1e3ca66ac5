--------------------------- MODULE TransferSession ----------------------------
(***************************************************************************)
(* A client session over its connections (CBasicNet_SocketTransfer and     *)
(* CBasicNet_SocketClient): Connect, Send and Close called by any thread,  *)
(* the queue through which they reach the session's network thread, the    *)
(* send buffer, the events of libevent, the callbacks of the application   *)
(* and the timer.  The queue is the mailbox NetEventQueue implements.      *)
(*                                                                         *)
(* Connections and pieces of sent data are numbered; connection 0 is       *)
(* INVALID_SOCKET.                                                         *)
(***************************************************************************)
EXTENDS Naturals, FiniteSets, Sequences, SequencesExt

CONSTANTS
  Users,       (* application threads                                      *)
  Timer,       (* the thread of CBasicNetMgv::OnTimer                      *)
  Net,         (* the session's network thread                             *)
  AtOnce,      (* whether connect may succeed before it returns            *)
  MaxConns,    (* bound: sockets connected                                 *)
  MaxSends,    (* bound: pieces of data                                    *)
  MaxQueue     (* bound: functions waiting in the queue                    *)

Threads == Users \cup {Timer}

ASSUME TransferAssumption ==
  /\ Timer \notin Users /\ Net \notin Threads
  /\ AtOnce \in BOOLEAN
  /\ MaxConns \in Nat /\ MaxSends \in Nat /\ MaxQueue \in Nat

VARIABLES
  link,        (* TIL_SS_LINK: "idle", "connecting" or "connected"         *)
  toclose,     (* TIL_SS_TOCLOSE                                           *)
  transmit,    (* TIL_SS_SHAKEHANDLE_TRANSMIT: 0, or the connection whose  *)
               (* callback set it                                          *)
  sock,        (* m_socketfd                                               *)
  out,         (* m_msgQueue                                               *)
  revent, wevent,  (* m_revent and m_wevent are added                      *)
  queue,       (* m_smBuf                                                  *)
  pc,          (* where a thread is in a call                              *)
  net,         (* the callbacks the network thread is in                   *)
  conns,       (* sockets connected so far                                 *)
  peer,        (* of a connection: "syn", "refused", "open", "closed"      *)
  wire,        (* what has been written to a connection                    *)
  sends,       (* of the n-th piece of data: its sender and the connection *)
               (* that was up when Send looked                             *)
  sealed       (* what was sent before the Close that ended a connection   *)

status == <<link, toclose, transmit, sock>>
outside == <<conns, peer, sends>>
vars == <<link, toclose, transmit, sock, out, revent, wevent, queue, pc, net,
          conns, peer, wire, sends, sealed>>

Idle == [at |-> "idle", conn |-> 0]

Init ==
  /\ link = "idle" /\ toclose = FALSE /\ transmit = 0 /\ sock = 0
  /\ out = <<>> /\ revent = FALSE /\ wevent = FALSE
  /\ queue = <<>> /\ pc = [t \in Threads |-> Idle] /\ net = <<>>
  /\ conns = 0 /\ peer = <<>> /\ wire = <<>> /\ sends = <<>> /\ sealed = <<>>

-----------------------------------------------------------------------------
(* Parts of the network thread's handlers; frames is the stack of          *)
(* callbacks they leave.                                                   *)

CanCloseIf(unsent) ==
  /\ link # "connecting"
  /\ out = unsent \/ link # "connected"

FaultClosesUnsent == CanCloseIf(out)

CanClose == CanCloseIf(<<>>)

(* CloseCallback on an open socket, the call of OnDisconnect included.     *)
ResetTo(l, frames, before) ==
  /\ link' = l /\ toclose' = FALSE /\ transmit' = 0 /\ sock' = 0
  /\ out' = <<>> /\ revent' = FALSE /\ wevent' = FALSE
  /\ net' = Append(frames, [cb |-> "disconnect", conn |-> sock])
  /\ sealed' = [sealed EXCEPT ![sock] = before]

FaultKeepsLink(frames, before) == ResetTo(link, frames, before)

CloseCallback(frames, before) == ResetTo("idle", frames, before)

(* What one round of send() makes of the buffer b.                         *)
Written(b, k) == [wire EXCEPT ![sock] = @ \o SubSeq(b, 1, k)]

FaultKeepsLast(b, k) == IF k = 0 THEN b ELSE SubSeq(b, k, Len(b))

Unsent(b, k) == SubSeq(b, k + 1, Len(b))

(* SendDataFromQueue with the buffer b; w is whether m_wevent is added.    *)
Drain(b, w, frames) ==
  \/ /\ link # "connected" \/ sock = 0
     /\ out' = b /\ wevent' = w /\ net' = frames
     /\ UNCHANGED <<status, revent, wire, sealed>>
  \/ /\ link = "connected" /\ sock # 0
     /\ \E k \in 0 .. Len(b) :
          /\ wire' = Written(b, k)
          /\ \/ /\ out' = Unsent(b, k)
                /\ wevent' = (w \/ k < Len(b))
                /\ net' = frames
                /\ UNCHANGED <<status, revent, sealed>>
             \/ k < Len(b) /\ CloseCallback(frames, {})

(* Close called on the network thread, with or without bMustClose.         *)
CloseInline(frames, must) ==
  IF sock # 0 /\ (must \/ CanClose)
  THEN CloseCallback(frames, {n \in DOMAIN sends : sends[n].by = Net /\ ~must})
  ELSE /\ toclose' = (toclose \/ sock # 0)
       /\ net' = frames
       /\ UNCHANGED <<link, transmit, sock, out, revent, wevent, sealed>>

(* OnConnect with success on connection c, the call of OnConnect included. *)
OnConnect(frames, c) ==
  /\ link' = "connected"
  /\ net' = Append(frames, [cb |-> "connect", conn |-> c])

NewConnection(state) ==
  /\ conns < MaxConns
  /\ conns' = conns + 1
  /\ peer' = Append(peer, state)
  /\ wire' = Append(wire, <<>>)
  /\ sealed' = Append(sealed, {})

-----------------------------------------------------------------------------
(* Calls of other threads.                                                 *)

At(t, where) == pc[t].at = where
Goto(t, where, c) == pc' = [pc EXCEPT ![t] = [at |-> where, conn |-> c]]
Marked == [close |-> "post close", must |-> "post must"]
Sendable == Len(sends) + Cardinality({t \in Threads : At(t, "send")}) < MaxSends
Post(item) == Len(queue) < MaxQueue /\ queue' = Append(queue, item)

(* Connect up to its tests of the status.                                  *)
ConnectCheck(t) ==
  /\ At(t, "idle") /\ t \in Users
  /\ ~toclose /\ link = "idle"
  /\ Goto(t, "connect", 0)
  /\ UNCHANGED <<status, out, revent, wevent, queue, net, outside, wire, sealed>>

(* connect(), then the assignments to the status and to m_socketfd.        *)
ConnectSocket(t) ==
  /\ At(t, "connect")
  /\ \/ /\ NewConnection("syn")
        /\ link' = "connecting" /\ sock' = conns'
        /\ Goto(t, "await", 0)
     \/ /\ AtOnce
        /\ NewConnection("open")
        /\ sock' = conns' /\ link' = link
        /\ Goto(t, "connected", 0)
     \/ /\ Goto(t, "idle", 0)
        /\ UNCHANGED <<link, sock, conns, peer, wire, sealed>>
  /\ UNCHANGED <<toclose, transmit, out, revent, wevent, queue, net, sends>>

ConnectPost(t) ==
  /\ At(t, "await") \/ At(t, "connected")
  /\ Post([do |-> pc[t].at, data |-> 0])
  /\ Goto(t, "idle", 0)
  /\ UNCHANGED <<status, out, revent, wevent, net, outside, wire, sealed>>

(* Send up to its tests; on the timer's thread OnIdle calls it.            *)
SendCheck(t) ==
  /\ At(t, "idle")
  /\ ~toclose /\ link = "connected"
  /\ t = Timer => transmit # 0
  /\ Sendable
  /\ Goto(t, "send", sock)
  /\ UNCHANGED <<status, out, revent, wevent, queue, net, outside, wire, sealed>>

SendPost(t) ==
  /\ At(t, "send")
  /\ sends' = Append(sends, [by |-> t, to |-> pc[t].conn])
  /\ Post([do |-> "send", data |-> Len(sends) + 1])
  /\ Goto(t, "idle", 0)
  /\ UNCHANGED <<status, out, revent, wevent, net, conns, peer, wire, sealed>>

(* Close up to its test of m_socketfd.  The timer calls it when a Close is *)
(* under way, and when a connection is not used or silent for too long.    *)
CloseIf(t, due) ==
  /\ At(t, "idle")
  /\ t = Timer => due
  /\ sock # 0
  /\ \E how \in DOMAIN Marked :
       (t = Timer => how = "close") /\ Goto(t, how, 0)
  /\ UNCHANGED <<status, out, revent, wevent, queue, net, outside, wire, sealed>>

FaultTimerForgets(t) == CloseIf(t, ~toclose /\ link = "connected")

CloseCheck(t) == CloseIf(t, toclose \/ link = "connected")

SetToClose(t) ==
  /\ pc[t].at \in DOMAIN Marked
  /\ toclose' = TRUE
  /\ Goto(t, Marked[pc[t].at], 0)
  /\ UNCHANGED <<link, transmit, sock, out, revent, wevent, queue, net, outside, wire, sealed>>

ClosePost(t) ==
  /\ \E how \in DOMAIN Marked :
       At(t, Marked[how]) /\ Post([do |-> how, data |-> Len(sends)])
  /\ Goto(t, "idle", 0)
  /\ UNCHANGED <<status, out, revent, wevent, net, outside, wire, sealed>>

-----------------------------------------------------------------------------
(* The network thread, outside of callbacks.                               *)

(* RunSocketCallFunc takes the next function.                              *)
Runs(do) ==
  /\ net = <<>> /\ queue # <<>> /\ Head(queue).do = do
  /\ queue' = Tail(queue)
  /\ UNCHANGED <<pc, outside>>

RunAwait ==
  /\ Runs("await")
  /\ wevent' = (wevent \/ sock # 0)
  /\ UNCHANGED <<status, out, revent, net, wire, sealed>>

RunConnected ==
  /\ Runs("connected")
  /\ revent' = (revent \/ sock # 0)
  /\ OnConnect(<<>>, sock)
  /\ UNCHANGED <<toclose, transmit, sock, out, wevent, wire, sealed>>

(* AddSendQueue.                                                           *)
RunSend ==
  /\ Runs("send")
  /\ Drain(Append(out, Head(queue).data), wevent, <<>>)

(* The function of Close; without bMustClose CanClose may hold it back.    *)
RunClose ==
  /\ \E must \in BOOLEAN :
       /\ Runs(IF must THEN "must" ELSE "close")
       /\ \/ /\ sock # 0 /\ (must \/ CanClose)
             /\ CloseCallback(<<>>, IF must THEN {} ELSE 1 .. Head(queue).data)
          \/ /\ sock = 0 \/ (~must /\ ~CanClose)
             /\ UNCHANGED <<status, out, revent, wevent, net, sealed>>
  /\ UNCHANGED wire

(* OnWriteEvent: the end of a connect, or room to write.  EV_WRITE is not  *)
(* persistent.                                                             *)
WriteEvent ==
  /\ net = <<>> /\ wevent /\ sock # 0
  /\ \/ /\ link = "connecting" /\ peer[sock] \in {"open", "closed"}
        /\ revent' = TRUE /\ wevent' = FALSE
        /\ OnConnect(<<>>, sock)
        /\ UNCHANGED <<toclose, transmit, sock, out, wire, sealed>>
     \/ /\ link = "connecting" /\ peer[sock] = "refused"
        /\ CloseCallback(<<>>, {})
        /\ UNCHANGED wire
     \/ /\ link # "connecting"
        /\ Drain(out, FALSE, <<>>)
  /\ UNCHANGED <<queue, pc, outside>>

(* OnReadEvent: data, or the end of the connection.                        *)
Readable(state) ==
  /\ net = <<>> /\ revent /\ sock # 0 /\ peer[sock] = state
  /\ UNCHANGED <<queue, pc, outside, wire>>

ReadData ==
  /\ Readable("open")
  /\ net' = <<[cb |-> "receive", conn |-> sock]>>
  /\ UNCHANGED <<status, out, revent, wevent, sealed>>

ReadEnd == Readable("closed") /\ CloseCallback(<<>>, {})

-----------------------------------------------------------------------------
(* The network thread in a callback of the application.                    *)

Top == Last(net)

NetSend ==
  /\ net # <<>> /\ ~toclose /\ link = "connected" /\ Sendable
  /\ sends' = Append(sends, [by |-> Net, to |-> sock])
  /\ Drain(Append(out, Len(sends) + 1), wevent, net)
  /\ UNCHANGED <<queue, pc, conns, peer>>

NetClose ==
  /\ net # <<>>
  /\ \E must \in BOOLEAN : CloseInline(net, must)
  /\ UNCHANGED <<queue, pc, outside, wire>>

NetConnect ==
  /\ net # <<>> /\ ~toclose /\ link = "idle"
  /\ \/ /\ NewConnection("syn")
        /\ link' = "connecting" /\ sock' = conns' /\ wevent' = TRUE
        /\ UNCHANGED <<revent, net>>
     \/ /\ AtOnce
        /\ NewConnection("open")
        /\ sock' = conns' /\ revent' = TRUE
        /\ OnConnect(net, conns + 1)
        /\ UNCHANGED wevent
  /\ UNCHANGED <<toclose, transmit, out, queue, pc, sends>>

(* The callback returns, and OnConnect and OnReceive look at its answer.   *)
NetReturn ==
  /\ net # <<>>
  /\ \/ /\ net' = Front(net)
        /\ \/ Top.cb \in {"connect", "receive"} /\ transmit' = Top.conn
           \/ transmit' = transmit
        /\ UNCHANGED <<link, toclose, sock, out, revent, wevent, sealed>>
     \/ /\ Top.cb = "connect"
        /\ CloseInline(Front(net), FALSE)
  /\ UNCHANGED <<queue, pc, outside, wire>>

-----------------------------------------------------------------------------
(* The other end.                                                          *)
PeerTurns(c, from, to) ==
  /\ peer[c] = from
  /\ peer' = [peer EXCEPT ![c] = to]
  /\ UNCHANGED <<status, out, revent, wevent, queue, pc, net, conns, wire, sends, sealed>>

PeerAnswers(c) == PeerTurns(c, "syn", "open") \/ PeerTurns(c, "syn", "refused")
PeerCloses(c) == PeerTurns(c, "open", "closed")

ThreadStep(t) ==
  \/ ConnectCheck(t) \/ ConnectSocket(t) \/ ConnectPost(t)
  \/ SendCheck(t) \/ SendPost(t)
  \/ CloseCheck(t) \/ SetToClose(t) \/ ClosePost(t)

RunItem == RunAwait \/ RunConnected \/ RunSend \/ RunClose

Next ==
  \/ \E t \in Threads : ThreadStep(t)
  \/ RunItem \/ WriteEvent \/ ReadData \/ ReadEnd
  \/ NetSend \/ NetClose \/ NetConnect \/ NetReturn
  \/ \E c \in 1 .. conns : PeerAnswers(c) \/ PeerCloses(c)

Spec == Init /\ [][Next]_vars

(* Calls that are begun are finished; the timer keeps coming; the event    *)
(* loop serves the queue and every event that stays or comes back; a       *)
(* connect is answered, and the other end keeps reading.                   *)
FairSpec ==
  /\ Spec
  /\ \A t \in Threads :
       WF_vars(ConnectSocket(t) \/ ConnectPost(t) \/ SendPost(t) \/ SetToClose(t) \/ ClosePost(t))
  /\ SF_vars(toclose /\ CloseCheck(Timer))
  /\ SF_vars(RunItem) /\ SF_vars(ReadEnd)
  /\ SF_vars(WriteEvent /\ (out # <<>> => out' # out))
  /\ WF_vars(NetReturn)
  /\ \A c \in 1 .. MaxConns : WF_vars(c <= conns /\ PeerAnswers(c))

-----------------------------------------------------------------------------
Places == {"idle", "connect", "await", "connected", "send", "close", "must",
           "post close", "post must"}

TypeOK ==
  /\ link \in {"idle", "connecting", "connected"}
  /\ toclose \in BOOLEAN /\ revent \in BOOLEAN /\ wevent \in BOOLEAN
  /\ conns \in 0 .. MaxConns /\ sock \in 0 .. conns /\ transmit \in 0 .. conns
  /\ sends \in Seq([by : Threads \cup {Net}, to : 0 .. conns])
  /\ out \in Seq(DOMAIN sends)
  /\ queue \in Seq([do : {"await", "connected", "send", "close", "must"}, data : 0 .. Len(sends)])
  /\ Len(queue) <= MaxQueue
  /\ pc \in [Threads -> [at : Places, conn : 0 .. conns]]
  /\ net \in Seq([cb : {"connect", "receive", "disconnect"}, conn : 0 .. conns])
  /\ Len(peer) = conns /\ Len(wire) = conns /\ Len(sealed) = conns

(* On a connection the data of one thread arrives once and in the order of *)
(* its calls of Send, though calls of the network thread overtake the      *)
(* queue (AddSendQueue, SendDataFromQueue).                                *)
InOrder ==
  \A c \in 1 .. conns : \A i, j \in DOMAIN wire[c] :
    i < j /\ sends[wire[c][i]].by = sends[wire[c][j]].by => wire[c][i] < wire[c][j]

(* A Close that is neither forced nor overtaken by the other end loses     *)
(* nothing that was sent on the connection before it: by any thread before *)
(* a Close of another thread was queued, by the network thread before its  *)
(* own Close (Close, CanClose).                                            *)
Flushed ==
  \A c \in 1 .. conns : \A n \in sealed[c] :
    sends[n].to = c => \E i \in DOMAIN wire[c] : wire[c][i] = n

(* What goes out on a connection was sent on that connection.              *)
FreshData ==
  \A c \in 1 .. conns : \A i \in DOMAIN wire[c] : sends[wire[c][i]].to = c

(* IsTransmit speaks of the connection that is up.                         *)
TransmitIsCurrent == link = "connected" => transmit \in {0, sock}

(* IsConnected says that there is a socket.                                *)
ConnectedHasSocket == link = "connected" => sock # 0

(* When no call is under way, a session without a socket may connect.      *)
Quiet == queue = <<>> /\ net = <<>> /\ \A t \in Threads : pc[t] = Idle
Reconnectable == Quiet /\ sock = 0 => ~toclose /\ link = "idle"

(* A Close that was held back is carried out in the end.                   *)
ClosedInTheEnd == toclose /\ sock # 0 ~> sock = 0
=============================================================================
