---------------------------- MODULE EventMailbox ----------------------------
(***************************************************************************)
(* What the cross-thread event queue of src/src/net promises to the code   *)
(* that calls CBasicNet_Socket::SetLibEvent.                               *)
(*                                                                         *)
(* Every socket belongs to one network thread.  A call made on that thread *)
(* runs the function at once.  A call made on any other thread leaves the  *)
(* function in the mailbox of the socket, and the network thread takes the *)
(* functions of a mailbox one by one, oldest first.  Nothing else happens: *)
(* no function is lost, run twice, or run before an older one of its       *)
(* poster.                                                                 *)
(***************************************************************************)
EXTENDS Naturals, Sequences

CONSTANTS
  Actors,     (* the threads that call SetLibEvent                         *)
  Sockets,    (* the sockets                                               *)
  ThreadOf,   (* the network thread of each socket                         *)
  MaxPosts    (* bound: calls of one thread for one socket                 *)

VARIABLES
  count,      (* count[a][s]: calls of thread a for socket s so far        *)
  pending,    (* pending[s]: the functions left in the mailbox of s        *)
  done        (* done[s]: the functions run for s, in the order they ran   *)

mailVars == <<count, pending, done>>

(* The n-th call of a thread for a socket.                                 *)
Event == [from : Actors, n : Nat]

Counted(a, s) == count' = [count EXCEPT ![a][s] = @ + 1]
NextEvent(a, s) == [from |-> a, n |-> count[a][s] + 1]

-----------------------------------------------------------------------------
Init ==
  /\ count = [a \in Actors |-> [s \in Sockets |-> 0]]
  /\ pending = [s \in Sockets |-> <<>>]
  /\ done = [s \in Sockets |-> <<>>]

(* A call on the thread of the socket.                                     *)
Direct(a, s) ==
  /\ count[a][s] < MaxPosts
  /\ a = ThreadOf[s]
  /\ Counted(a, s)
  /\ done' = [done EXCEPT ![s] = Append(@, NextEvent(a, s))]
  /\ UNCHANGED pending

(* A call on another thread.                                               *)
Leave(a, s) ==
  /\ count[a][s] < MaxPosts
  /\ a # ThreadOf[s]
  /\ Counted(a, s)
  /\ pending' = [pending EXCEPT ![s] = Append(@, NextEvent(a, s))]
  /\ UNCHANGED done

(* The network thread runs the oldest function of a mailbox.               *)
Take(s) ==
  /\ pending[s] # <<>>
  /\ done' = [done EXCEPT ![s] = Append(@, Head(pending[s]))]
  /\ pending' = [pending EXCEPT ![s] = Tail(@)]
  /\ UNCHANGED count

Next ==
  \/ \E a \in Actors, s \in Sockets : Direct(a, s) \/ Leave(a, s)
  \/ \E s \in Sockets : Take(s)

SafeSpec == Init /\ [][Next]_mailVars
Spec == SafeSpec /\ \A s \in Sockets : WF_mailVars(Take(s))

-----------------------------------------------------------------------------
MailTypeOK ==
  /\ count \in [Actors -> [Sockets -> Nat]]
  /\ pending \in [Sockets -> Seq(Event)]
  /\ done \in [Sockets -> Seq(Event)]
=============================================================================
