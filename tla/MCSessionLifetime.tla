-------------------------- MODULE MCSessionLifetime --------------------------
(* Small instances of SessionLifetime.                                     *)
EXTENDS SessionLifetime

CONSTANTS u1, s1, s2

NoUser == {}
OneUser == {u1}
OneSession == {s1}
TwoSessions == {s1, s2}
OwnedByNet == [s \in Sessions |-> Net]
OwnedByUser == [s \in Sessions |-> u1]
OwnedByBoth == [s \in Sessions |-> IF s = s1 THEN u1 ELSE Net]

Methods == {"Close", "SafeDelete", "Connect", "ConnectByName"}
(* A session used in callbacks of the network thread only.                 *)
NetCalls == {Net} \X Methods \X Sessions
(* A user thread creates, connects and deletes, the timer closes, and      *)
(* callbacks connect again and close.                                      *)
UserCalls == ({u1} \X Methods \X Sessions) \cup ({Timer} \X {"Close"} \X Sessions)
               \cup ({Net} \X {"Close", "Connect", "ConnectByName"} \X Sessions)
(* All of this, but no callback connects s1 by name: evdns may answer a    *)
(* lookup for s1 at once.                                                  *)
AllCalls == (UserCalls \cup NetCalls) \ {<<Net, "ConnectByName", s1>>}

NoSession == {}
=============================================================================
