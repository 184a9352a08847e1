---------------------------- MODULE MCClassPush ----------------------------
(* Small instances of ClassPush for TLC. *)
EXTENDS ClassPush

CONSTANTS c1, c2, k1, k2, n1, n2

TwoThenOne == [c \in Classes |-> IF c = c1 THEN 2 ELSE 1]
Two == [c \in Classes |-> 2]
OneKind == [c \in Classes |-> "db"]
AllDev == [k \in Clusters |-> "dev"]
TwoNamespaces == <<n1, n2>>
OneNamespace == <<n1>>

Only(environment) == <<[name |-> environment, negative |-> FALSE]>>
DevOrNil == [c \in Classes |-> IF c = c1 THEN {Only("dev")} ELSE {Nil}]
DevOrProd == [c \in Classes |-> {Only(IF c = c1 THEN "dev" ELSE "prod")}]
DevOnly == [c \in Classes |-> {Only("dev")}]
AnyOf == [c \in Classes |-> {Nil, Only("dev")}]
=============================================================================
