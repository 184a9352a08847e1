-------------------------- MODULE ClaimAllocation --------------------------
(***************************************************************************)
(* The controllers' claim life cycle as an implementation of Allocation.   *)
(***************************************************************************)
EXTENDS ClaimLifecycle

(* A service is taken when its state says so, and used by the claims that  *)
(* hold it: Resolved with it, or about to be.                              *)
Claimed == {s \in Services : svc[s] = "Claimed"}
Users == [s \in Services |-> {c \in Claims : Holds(c, s)}]

Alloc == INSTANCE Allocation WITH claimed <- Claimed, users <- Users

(* Whatever the caches show, whichever calls fail and wherever the manager *)
(* is restarted, every step of the controllers and of users is one of the  *)
(* allocation: a service is given only to a claim without a service and    *)
(* only while no other claim uses it, unless it was freed while in use.    *)
ImplementsAllocation == Alloc!Spec
=============================================================================
