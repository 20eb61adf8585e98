----------------------- MODULE MCCredentialLifecycle -----------------------
(***************************************************************************)
(* Instances of CredentialLifecycle.  The initial state picks a plan: the  *)
(* kinds of request, the devices, keys and tokens they name, and what may  *)
(* be wrong with an enrollment.  One plan has two devices and every        *)
(* failure, one three keys to rotate through, one two tokens.              *)
(***************************************************************************)
EXTENDS CredentialLifecycle

CONSTANTS d1, d2, k1, k2, k3, t1, t2, h1, h2, Plans

VARIABLE plan

Plan(kinds, devices, keys, tokens, flaws) ==
  [kinds |-> kinds, devices |-> devices, keys |-> keys, tokens |-> tokens, flaws |-> flaws]

All == {"enroll", "rotate", "revoke"}

MCPlans ==
  { Plan({"enroll", "revoke"}, {d1, d2}, {k1, k2}, {t1}, Flaws),
    Plan(All, {d1}, {k1, k2, k3}, {t1}, {"none"}),
    Plan({"enroll", "revoke"}, {d1}, {k1, k2}, {t1, t2}, {"none"}) }

LineagePlans == { Plan(All, {d1}, {k1, k2, k3}, {t1, t2}, {"none"}) }

Planned(r) ==
  /\ r.kind \in plan.kinds
  /\ r.kind = "enroll" => /\ r.device \in plan.devices /\ r.key \in plan.keys
                          /\ r.token \in plan.tokens /\ r.flaw \in plan.flaws
  /\ r.kind = "rotate" => r.current \in plan.keys /\ r.key \in plan.keys
  /\ r.kind = "revoke" => r.device \in plan.devices

MCRun(h) == Run(h) /\ UNCHANGED plan

MCNext ==
  \/ /\ \/ Administer /\ \A t \in Tokens \ plan.tokens : token'[t].status = "unissued"
        \/ \E h \in Threads : Receive(h) /\ Planned(request'[h])
        \/ \E h \in Threads : Abort(h)
     /\ UNCHANGED plan
  \/ \E h \in Threads : MCRun(h)

MCInit == Init /\ plan \in Plans

MCSpec ==
  /\ MCInit
  /\ [][MCNext]_<<vars, plan>>
  /\ \A h \in Threads : SF_<<vars, plan>>(MCRun(h))
=============================================================================
