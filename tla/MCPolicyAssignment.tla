------------------------- MODULE MCPolicyAssignment -------------------------
(***************************************************************************)
(* PolicyAssignment for TLC: two revisions, of two policies.               *)
(***************************************************************************)
EXTENDS PolicyAssignment, TLC

CONSTANTS d1, r1, r2, p1, p2, t1, t2, t3

MCPolicyOf == (r1 :> p1) @@ (r2 :> p2)
=============================================================================
