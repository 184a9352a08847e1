------------------------------ MODULE Matching ------------------------------
(***************************************************************************)
(* The pure matching functions of Primaza: which environments a list of    *)
(* constraints admits (pkg/envtag) and which RegisteredServices carry the  *)
(* ServiceClassIdentity a claim asks for (checkSCISubset).                 *)
(*                                                                         *)
(* A constraint is a record: the environment it names and whether it is    *)
(* written with the "!" prefix.  The loops of the Go code are recursive    *)
(* functions over the number of elements already visited.                  *)
(***************************************************************************)
EXTENDS Naturals, Sequences, FiniteSets

(* match: how one constraint judges an environment. *)
matchOne(environment, constraint) ==
  IF constraint.negative
    THEN IF environment = constraint.name THEN "forbidden" ELSE "matched"
    ELSE IF environment = constraint.name THEN "matched" ELSE "unmatched"

(* Variant: a prohibition is forgotten when a later constraint matches. *)
MatchLast(environment, constraints) ==
  LET v[i \in 0 .. Len(constraints)] ==
        IF i = 0 THEN "unmatched"
        ELSE LET r == matchOne(environment, constraints[i])
             IN  IF r = "unmatched" THEN v[i-1] ELSE r
  IN  Len(constraints) = 0 \/ v[Len(constraints)] = "matched"

(* Match: the loop keeps v, remembers any match, and leaves at the first   *)
(* constraint that forbids the environment.                                *)
Match(environment, constraints) ==
  LET v[i \in 0 .. Len(constraints)] ==
        IF i = 0 THEN "unmatched"
        ELSE IF v[i-1] = "forbidden" THEN "forbidden"
        ELSE LET r == matchOne(environment, constraints[i])
             IN  IF r = "unmatched" THEN v[i-1] ELSE r
  IN  Len(constraints) = 0 \/ v[Len(constraints)] = "matched"

(* Variant: an item of the service is not used up. *)
checkSCISubsetAsSets(serviceClaim, registeredService) ==
  \A i \in DOMAIN serviceClaim :
    \E j \in DOMAIN registeredService : registeredService[j] = serviceClaim[i]

(* checkSCISubset: the items of the RegisteredService are counted, then    *)
(* each item of the claim uses one up; the claim fails at the first item   *)
(* that is missing or used up.                                             *)
checkSCISubset(serviceClaim, registeredService) ==
  LET items == {registeredService[i] : i \in DOMAIN registeredService}
      count == [x \in items |->
                  Cardinality({i \in DOMAIN registeredService :
                                 registeredService[i] = x})]
      loop[i \in 0 .. Len(serviceClaim)] ==
        IF i = 0 THEN [ok |-> TRUE, set |-> count]
        ELSE LET prev  == loop[i-1]
                 value == serviceClaim[i]
             IN  IF ~prev.ok THEN prev
                 ELSE IF value \notin items THEN [prev EXCEPT !.ok = FALSE]
                 ELSE IF prev.set[value] < 1 THEN [prev EXCEPT !.ok = FALSE]
                 ELSE [prev EXCEPT !.set[value] = @ - 1]
  IN  loop[Len(serviceClaim)].ok
=============================================================================
