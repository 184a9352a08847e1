------------------------ MODULE MCServiceDiscovery ------------------------
(* Small instances of ServiceDiscovery for TLC. *)
EXTENDS ServiceDiscovery

CONSTANTS c1, c2, o1, o2, n1, n2

(* One class for all resources, or one for each; and names of their own.   *)
OneClass == [o \in Objects |-> c1]
OwnClass == [o \in Objects |-> IF o = o1 THEN c1 ELSE c2]
OwnName == [o \in Objects |-> IF o = o1 THEN n1 ELSE n2]
===========================================================================
