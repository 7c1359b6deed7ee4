------------------------------- MODULE MCPods -------------------------------
(***************************************************************************)
(* A teammate, a reviewer and a lead: a chain that ends with the lead.     *)
(***************************************************************************)
EXTENDS Pods

CONSTANTS lead, dev, rev

MCAgent     == {lead, dev, rev}
MCItem      == 1..3
MCItemOwner == <<dev, rev, lead>>
MCItemDeps  == <<{}, {1}, {1, 2}>>
=============================================================================
