--------------------------- MODULE MCServerSessions ---------------------------
(* Small instances of ServerSessions.                                      *)
EXTENDS ServerSessions

CONSTANTS s1, s2, s3, s4, f1, f2, f3

FourSessions == {s1, s2, s3, s4}
OneInline == {s1}
ThreeFds == {f1, f2, f3}
=============================================================================
