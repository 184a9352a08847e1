------------------------------ MODULE MCCatalog ------------------------------
(* Small instances of Catalog for TLC. *)
EXTENDS Catalog

CONSTANTS s1, s2, k1, k2


(* Both clusters are of one environment. *)
AllDev == [k \in Clusters |-> "dev"]

Unconstrained == [s \in Services |-> [r \in {0, 1} |-> << >>]]

(* An edit takes the services out of the dev environment. *)
LeavesDev ==
  [s \in Services |->
     [r \in {0, 1} |-> IF r = 0 THEN << >>
                       ELSE <<[name |-> "dev", negative |-> TRUE]>>]]
=============================================================================
