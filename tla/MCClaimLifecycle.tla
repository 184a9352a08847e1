-------------------------- MODULE MCClaimLifecycle --------------------------
(* Small instances of ClaimLifecycle for TLC. *)
EXTENDS ClaimAllocation

CONSTANTS c1, c2, s1, s2, noEnv

(* One kind of service: every claim may use every service. *)
OneKind(S) == [x \in S |-> <<"db">>]
Unconstrained == [s \in Services |-> << >>]
ClaimsOneKind == OneKind(Claims)
ServicesOneKind == OneKind(Services)

(* c1 targets the environment, c2 one cluster of it. *)
TagMixed == [c \in Claims |-> IF c = c1 THEN "dev" ELSE noEnv]
ClusterMixed == [c \in Claims |-> IF c = c1 THEN noEnv ELSE "dev"]

(* Services that only the dev environment may use. *)
OnlyDev == [s \in Services |-> <<[name |-> "dev", negative |-> FALSE]>>]
-----------------------------------------------------------------------------
(* The matching functions with which claims choose services and            *)
(* environments, against what they are meant to compute for all lists up   *)
(* to a length.                                                            *)
Environments == {"dev", "stage"}
Items == {"type", "provider"}
MaxConstraints == 3  \* longest list of constraints
MaxItems == 3        \* longest ServiceClassIdentity

Lists(S, max) == UNION {[1 .. n -> S] : n \in 0 .. max}

(* Where the worker chooses a service, envtag.Match, whose loop may return *)
(* early, depends on the set of the constraints alone: none forbids the    *)
(* environment, and some constraint admits it, by naming it or by          *)
(* forbidding another one.                                                 *)
MatchesAsSet ==
  w.pc = "choose" =>
  \A environment \in Environments :
    \A constraints \in Lists([name : Environments, negative : BOOLEAN], MaxConstraints) :
      LET all == {constraints[i] : i \in DOMAIN constraints}
      IN  Match(environment, constraints)
            <=> \/ all = {}
                \/ /\ \A k \in all : k.negative => k.name # environment
                   /\ \E k \in all : k.negative \/ k.name = environment

(* There too, checkSCISubset, which counts down a map in place, decides    *)
(* inclusion of multisets: the claim's items can be assigned to different  *)
(* items of the service.                                                   *)
SubsetIsMatching ==
  w.pc = "choose" =>
  \A asked, offered \in Lists(Items, MaxItems) :
    checkSCISubset(asked, offered)
      <=> \E f \in [DOMAIN asked -> DOMAIN offered] :
            /\ \A i, j \in DOMAIN asked : f[i] = f[j] => i = j
            /\ \A i \in DOMAIN asked : offered[f[i]] = asked[i]
=============================================================================
