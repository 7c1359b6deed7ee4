---------------------------- MODULE MCTaskStore ----------------------------
(***************************************************************************)
(* Two pods of one agent and one of another, over a swarm's unowned task,  *)
(* an owned one, and one that depends on the first.                        *)
(***************************************************************************)
EXTENDS TaskStore

CONSTANTS dev, rev, c1, c2, c3

MCTask     == 1..3
MCDeps     == <<{}, {}, {1}>>
MCOwner    == <<NoAgent, dev, NoAgent>>
MCReviewer == <<NoAgent, NoAgent, NoAgent>>
MCAgentOf  == [c \in Claimant |-> IF c = c3 THEN rev ELSE dev]

=============================================================================
