----------------------------- MODULE MCMailbox -----------------------------
(***************************************************************************)
(* Two workers with the limit of the spec, and a person whose `karo mail   *)
(* send' has a smaller one.                                                *)
(***************************************************************************)
EXTENDS Mailbox

CONSTANTS w1, w2, human

MCHardLimit == [c \in Client |-> IF c = human THEN 1 ELSE 2]
=============================================================================
