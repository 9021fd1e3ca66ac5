---------------------------- MODULE ServerSessions ----------------------------
(***************************************************************************)
(* The server's map of its sessions (CBasicSessionNetServer::              *)
(* m_mapClientSession), keyed by socket descriptor: the listening thread   *)
(* enters a session after it has started it, the session's own thread      *)
(* takes it out when it is disconnected, and the kernel gives a closed     *)
(* descriptor to a later connection.  A server of the template             *)
(* (CNetServerControl) refuses a session in its OnConnect when the map is   *)
(* larger than a limit.                                                    *)
(***************************************************************************)
EXTENDS Integers, FiniteSets

CONSTANTS
  Sessions,    (* a session serves one connection                          *)
  Inline,      (* the sessions served by the listening thread itself       *)
  Fds,
  Limit,       (* m_nSessionMaxCount; none when it is negative             *)
  Invalid,     (* INVALID_SOCKET                                           *)
  None         (* no session                                               *)

ASSUME ServerAssumption ==
  /\ Inline \subseteq Sessions /\ Invalid \notin Fds /\ None \notin Sessions
  /\ Limit \in Int

VARIABLES
  stage,       (* of a session: "none", "accepted" (OnConnect to come),    *)
               (* "connected", "closing" (OnDisconnect to come), "ended"   *)
  fd,          (* m_socketfd, and so GetSessionID                          *)
  refused,     (* the sessions whose OnConnect has gone wrong              *)
  map,         (* m_mapClientSession                                       *)
  entering     (* the session DoAcceptClient has still to enter            *)

vars == <<stage, fd, refused, map, entering>>

Init ==
  /\ stage = [s \in Sessions |-> "none"]
  /\ fd = [s \in Sessions |-> Invalid]
  /\ refused = {}
  /\ map = [k \in {} |-> None]
  /\ entering = None

With(k, s) == [j \in DOMAIN map \cup {k} |-> IF j = k THEN s ELSE map[j]]

Without(k) == [j \in DOMAIN map \ {k} |-> map[j]]

InUse == {fd[s] : s \in {x \in Sessions : stage[x] \in {"accepted", "connected"}}}

(* The thread of s can run s: the listening thread is busy with the        *)
(* session it accepts.                                                     *)
CanRun(s) == s \in Inline => entering \in {s, None}

(* AcceptClient, DoAcceptClient and Accept up to the SetLibEvent.          *)
Accept(s, f) ==
  /\ entering = None
  /\ \A x \in Inline : stage[x] # "closing"
  /\ stage[s] = "none"
  /\ f \in Fds \ InUse
  /\ fd' = [fd EXCEPT ![s] = f]
  /\ stage' = [stage EXCEPT ![s] = "accepted"]
  /\ entering' = s
  /\ UNCHANGED <<refused, map>>

(* The function Accept leaves in the event queue: OnConnect, which refuses *)
(* a session by an error, so that it is closed.                            *)
TooMany == Limit >= 0 /\ Cardinality(DOMAIN map) > Limit

StartIf(s, tooMany) ==
  /\ CanRun(s)
  /\ stage[s] = "accepted"
  /\ stage' = [stage EXCEPT ![s] = "connected"]
  /\ refused' = IF tooMany THEN refused \cup {s} ELSE refused
  /\ UNCHANGED <<fd, map, entering>>

FaultRefusesLate(s) ==
  StartIf(s, Limit >= 0 /\ Cardinality(DOMAIN map) > Limit + 1)

Start(s) == StartIf(s, TooMany)

(* CloseCallback: the descriptor goes back to the kernel and m_socketfd is *)
(* reset before OnDisconnect.                                              *)
CloseLeaving(s, left) ==
  /\ CanRun(s)
  /\ stage[s] = "connected"
  /\ stage' = [stage EXCEPT ![s] = "closing"]
  /\ fd' = [fd EXCEPT ![s] = left]
  /\ UNCHANGED <<refused, map, entering>>

FaultResetsLast(s) == CloseLeaving(s, fd[s])

CloseCallback(s) == CloseLeaving(s, Invalid)

(* OnClientDisconnectCallback.                                             *)
Disconnect(s) ==
  /\ stage[s] = "closing"
  /\ map' = Without(fd[s])
  /\ stage' = [stage EXCEPT ![s] = "ended"]
  /\ UNCHANGED <<fd, refused, entering>>

(* AcceptClient of the server.  What the listening thread runs inline is   *)
(* over by then.                                                           *)
EnterAs(s, k) ==
  /\ entering = s
  /\ s \in Inline => stage[s] \in {"connected", "ended"}
  /\ map' = With(k, s)
  /\ entering' = None
  /\ UNCHANGED <<stage, fd, refused>>

Enter(s) == EnterAs(s, fd[s])

Next == \E s \in Sessions :
  \/ \E f \in Fds : Accept(s, f)
  \/ Start(s) \/ CloseCallback(s) \/ Disconnect(s) \/ Enter(s)

Spec == Init /\ [][Next]_vars

-----------------------------------------------------------------------------
Online == {s \in Sessions : stage[s] = "connected"}

(* A connected session is found under its descriptor, whatever sessions    *)
(* had that descriptor before and however late their OnDisconnect comes    *)
(* (AcceptClient against OnClientDisconnectCallback, for                   *)
(* GetClientBySessionID, SendToAll and CloseAll).                          *)
ConnectedIsListed ==
  \A s \in Online \ {entering} : fd[s] \in DOMAIN map /\ map[fd[s]] = s

(* When nothing is under way, GetOnlineSessionCount is the number of users *)
(* online.                                                                 *)
Quiet ==
  entering = None /\ \A s \in Sessions : stage[s] \notin {"accepted", "closing"}

OnlineCount == Quiet => Cardinality(DOMAIN map) = Cardinality(Online)

(* The limit of the template holds up to one: a session may be tested      *)
(* before it is entered itself, but whatever runs while it is tested, the  *)
(* others are in the map by then (servertemplate.cpp:25-30).               *)
Admitted == Online \ refused

AdmittedWithinLimit == Limit >= 0 => Cardinality(Admitted) <= Limit + 1

(* Nor by one (the message of servertemplate.cpp:27 names the limit).      *)
NeverAboveLimit == Limit >= 0 => Cardinality(Admitted) <= Limit

(* A session is refused only when the limit is reached by others.          *)
RefusedWhenFull == [][\A s \in refused' \ refused :
                        Cardinality(Admitted) >= Limit]_vars

TypeOK ==
  /\ stage \in [Sessions -> {"none", "accepted", "connected", "closing", "ended"}]
  /\ fd \in [Sessions -> Fds \cup {Invalid}]
  /\ refused \subseteq Sessions
  /\ DOMAIN map \subseteq Fds \cup {Invalid}
  /\ \A k \in DOMAIN map : map[k] \in Sessions
  /\ entering \in Sessions \cup {None}
=============================================================================
