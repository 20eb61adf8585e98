-------------------------- MODULE MCPolicyActivator --------------------------
(***************************************************************************)
(* Instances of PolicyActivator: two revisions of one policy and one of    *)
(* another, so that an envelope is replaced by a revision of its own       *)
(* policy and superseded by a foreign one.  What one revision blocks the   *)
(* next governs by screen time or allows, and what one keeps installed or  *)
(* switches off another releases; the second package is the Play Store.    *)
(* One scenario has every operation, one the schedule worker at any time   *)
(* between the steps of activations, one two sync workers at once.         *)
(***************************************************************************)
EXTENDS PolicyActivator, TLC

CONSTANTS w1, w2, r1, r2, r3, a, b

MCPolicyOf == r1 :> "policy_a" @@ r2 :> "policy_a" @@ r3 :> "policy_b"
MCBlocked ==
  r1 :> ("lesson" :> {a} @@ "break" :> {}) @@
  r2 :> ("lesson" :> {b} @@ "break" :> {b}) @@
  r3 :> ("lesson" :> {a} @@ "break" :> {b})
MCDefaultMode == [r \in Revisions |-> "lesson"]
Applications(controlled, allowed, files, uninstall, approved) ==
  [controlled |-> controlled, store |-> allowed, sharing |-> allowed, files |-> files,
   uninstall |-> uninstall, approved |-> approved]
MCApplication ==
  r1 :> Applications(FALSE, FALSE, {}, FALSE, {}) @@
  r2 :> Applications(TRUE, TRUE, {b}, TRUE, {a}) @@
  r3 :> Applications(TRUE, FALSE, {}, FALSE, {a})
MCLocation == r1 :> "unmanaged" @@ r2 :> "on" @@ r3 :> "off"
MCTargets == r1 :> {b} @@ r2 :> {} @@ r3 :> {}

Scenario(workers, operations, observers, revisions, modes) ==
  [workers |-> workers, operations |-> operations, observers |-> observers,
   revisions |-> revisions, modes |-> modes, android_11 |-> TRUE]

MCScenarios ==
  { Scenario({w1}, AllOperations, {}, {r1, r2, r3}, {"lesson"}),
    Scenario({w1}, {"apply"}, {"schedule"}, {r1, r2}, {"lesson", "break"}),
    Scenario({w1, w2}, {"apply"}, {}, {r3}, {"lesson"}) }

KeptScenarios == { Scenario({w1}, {"apply"}, {}, {r1, r3}, {"lesson"}) }
=============================================================================
