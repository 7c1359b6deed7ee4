----------------------------- MODULE MCOperator -----------------------------
(***************************************************************************)
(* A lead and a teammate, which may be removed, or made the lead; with and *)
(* without pods for the idle; and a team that the operator rejects.        *)
(***************************************************************************)
EXTENDS Operator

CONSTANTS lead, dev, x

Full == [valid |-> TRUE, agents |-> <<lead, dev>>, lead |-> lead, scaleToZero |-> "unset"]

MCTeamSpec ==
  {Full,
   [Full EXCEPT !.scaleToZero = "true"],
   [Full EXCEPT !.scaleToZero = "false"],
   [Full EXCEPT !.agents = <<lead>>],
   [Full EXCEPT !.lead = dev],
   [Full EXCEPT !.valid = FALSE]}
=============================================================================
