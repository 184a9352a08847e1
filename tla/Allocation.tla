----------------------------- MODULE Allocation -----------------------------
(***************************************************************************)
(* What Primaza promises of claims and services, without controllers,      *)
(* caches or versions: a service is given to a claim only while no other   *)
(* claim uses it, and a claim uses one service at a time.                  *)
(*                                                                         *)
(* The promise has one gap, and it is part of the specification: a service *)
(* may be freed while it is in use (Free), and is not protected from then  *)
(* on.                                                                     *)
(***************************************************************************)
CONSTANTS Claims, Services

VARIABLES
  claimed,  \* services that are marked as taken
  users,    \* [Services -> SUBSET Claims]: the claims that use a service
  stray     \* services that have been freed while in use

vars == <<claimed, users, stray>>

Init ==
  /\ claimed = {}
  /\ users = [s \in Services |-> {}]
  /\ stray = {}

(* c is given s. *)
Grant(c, s) ==
  /\ \A r \in Services : c \notin users[r]
  /\ s \in stray \/ users[s] = {}
  /\ claimed' = claimed \cup {s}
  /\ users' = [users EXCEPT ![s] = @ \cup {c}]
  /\ UNCHANGED stray

(* c no longer uses its service, which stays taken. *)
Drop(c) ==
  /\ users' = [s \in Services |-> users[s] \ {c}]
  /\ UNCHANGED <<claimed, stray>>

(* s is not taken any more, whoever uses it. *)
Free(s) ==
  /\ claimed' = claimed \ {s}
  /\ stray' = IF users[s] = {} THEN stray ELSE stray \cup {s}
  /\ UNCHANGED users

Next ==
  \/ \E c \in Claims : Drop(c) \/ \E s \in Services : Grant(c, s)
  \/ \E s \in claimed : Free(s)

Spec == Init /\ [][Next]_vars
-----------------------------------------------------------------------------
TypeOK ==
  /\ claimed \subseteq Services
  /\ users \in [Services -> SUBSET Claims]
  /\ stray \subseteq Services

(* Claims share a service only if it was freed while in use; a service in  *)
(* use is marked as taken, with the same proviso; and a claim uses one     *)
(* service at most, without any proviso.                                   *)
Allotted ==
  /\ \A s \in Services \ stray : \A c, d \in users[s] : c = d
  /\ \A s \in Services \ stray : users[s] # {} => s \in claimed
  /\ \A s, r \in Services : s # r => users[s] \cap users[r] = {}
=============================================================================
