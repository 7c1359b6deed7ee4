----------------------------- MODULE MCPlanning -----------------------------
(***************************************************************************)
(* Teams small enough to explore, one or more per coordination pattern.    *)
(***************************************************************************)
EXTENDS Planning

CONSTANTS ann, bob, reviewer

MCAgent == {ann, bob, reviewer}

TeamOf(pattern, agents, lead, rev, stages) ==
  [pattern |-> pattern, agents |-> agents, lead |-> lead, reviewer |-> rev, stages |-> stages]

MCTeams ==
  {TeamOf("lead-and-teammates", <<ann, bob, reviewer>>, named[1], named[2], <<>>) :
      named \in {<<ann, bob>>, <<reviewer, NoAgent>>, <<NoAgent, NoAgent>>}}
  \cup {TeamOf("lead-and-teammates", agents, NoAgent, NoAgent, <<>>) :
      agents \in {<<ann>>, <<ann, bob>>, <<ann, reviewer>>}}
  \cup {TeamOf("pipeline", <<ann, bob>>, NoAgent, NoAgent, stages) :
      stages \in {<<>>, <<bob>>, <<ann, bob, ann>>}}
  \cup {TeamOf("swarm", <<ann, bob>>, lead, NoAgent, <<>>) : lead \in {bob, NoAgent}}
=============================================================================
