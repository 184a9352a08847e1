---------------------------- MODULE MCForwarding ----------------------------
(* Small instances of Forwarding for TLC. *)
EXTENDS Forwarding

CONSTANTS k1, k2, i1, i2, n1, n2

(* Items of the first ClusterEnvironment, or one of each; one name, or two. *)
FirstCluster == [i \in Items |-> k1]
OwnCluster == [i \in Items |-> IF i = i1 THEN k1 ELSE k2]
OneName == [i \in Items |-> n1]
OwnName == [i \in Items |-> IF i = i1 THEN n1 ELSE n2]

(* Push for claims, Pull for claims and services, and catalogs.            *)
AllFlows == {<<"push", "claim">>, <<"pull", "claim">>, <<"pull", "service">>,
             <<"push", "catalog">>}
Pushed == {<<"push", "claim">>}
Pulled == {<<"pull", "claim">>, <<"pull", "service">>}
Agents == {<<"push", "claim">>, <<"push", "catalog">>}
=============================================================================
