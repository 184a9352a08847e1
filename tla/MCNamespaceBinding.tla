------------------------- MODULE MCNamespaceBinding -------------------------
(* Small instances of NamespaceBinding for TLC. *)
EXTENDS NamespaceBinding

CONSTANTS k1, k2, n1, n2

(* n1 is an application namespace, n2 a service namespace. *)
Roles ==
  [n \in Namespaces |-> <<"primaza", IF n = n1 THEN "claimer" ELSE "reporter">>]

(* Both are application namespaces. *)
SameRoles == [n \in Namespaces |-> <<"primaza", "claimer">>]

(* ClusterEnvironments worker and worker-prod, namespaces prod-apps and    *)
(* apps: worker-prod-apps is the end of two RoleBindings' names.           *)
Names ==
  [o \in Clusters \cup Namespaces |->
     CASE o = k1 -> <<"worker">>          [] o = k2 -> <<"worker", "prod">>
       [] o = n1 -> <<"prod", "apps">>    [] o = n2 -> <<"apps">>]
=============================================================================
