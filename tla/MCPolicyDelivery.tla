-------------------------- MODULE MCPolicyDelivery --------------------------
(***************************************************************************)
(* Instances of PolicyDelivery: two revisions of different policies, one   *)
(* sync worker, a few administrative changes and mishaps.                  *)
(***************************************************************************)
EXTENDS PolicyDelivery, TLC

CONSTANTS r1, r2, a, b

MCPolicyOf == r1 :> "policy_a" @@ r2 :> "policy_b"
MCBlocked == r1 :> ("lesson" :> {a}) @@ r2 :> ("lesson" :> {b})
MCDefaultMode == r1 :> "lesson" @@ r2 :> "lesson"
MCApplication ==
  r1 :> [controlled |-> TRUE, store |-> FALSE, sharing |-> FALSE, files |-> {},
         uninstall |-> FALSE, approved |-> {}] @@
  r2 :> [controlled |-> FALSE, store |-> FALSE, sharing |-> FALSE, files |-> {},
         uninstall |-> FALSE, approved |-> {}]
MCLocation == [r \in Revisions |-> "unmanaged"]
MCTargets == r1 :> {b} @@ r2 :> {}
Scenario(observers) ==
  [workers |-> Workers, operations |-> AllOperations, observers |-> observers,
   revisions |-> Revisions, modes |-> Modes, android_11 |-> TRUE]

Observed == {Scenario({"screen_time"})}
Unobserved == {Scenario({})}
=============================================================================
