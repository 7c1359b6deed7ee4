----------------------------- MODULE ClaimStore -----------------------------
(***************************************************************************)
(* What stores/base.py promises of TaskStore.claim: a claim is one atomic  *)
(* step that takes a task which is claimable at that very moment.  Nothing *)
(* else makes a task assigned; any other write may leave any other state.  *)
(***************************************************************************)
EXTENDS Tasks

VARIABLE table   \* [Task -> TaskRecord]

Init == table \in [Task -> TaskRecord]

Claim(t, agent) ==
  /\ Claimable(table, t, agent)
  /\ table' = [table EXCEPT ![t] = Claimed(table[t], agent)]

Write(t) ==
  /\ table'[t].state # "assigned"
  /\ \A u \in Task \ {t} : table'[u] = table[u]

Age == table' = [t \in Task |-> Aged(table[t])]

Next ==
  \/ Age
  \/ \E t \in Task : Write(t) \/ \E agent \in Agent : Claim(t, agent)

Spec == Init /\ [][Next]_table
=============================================================================
