--------------------------- MODULE MCCoordinator ---------------------------
(***************************************************************************)
(* Teams small enough to explore, with the graphs Patterns plans for them. *)
(***************************************************************************)
EXTENDS CoordinatorSafety

CONSTANTS lead, dev, dev2, rev, w1, w2

MCAgent == {lead, dev, dev2, rev}

Plan == INSTANCE Patterns WITH ReviewerName <- rev

TeamOf(pattern, agents, leader) ==
  [pattern |-> pattern, agents |-> agents, lead |-> leader, reviewer |-> NoAgent, stages |-> <<>>]

\* An implementer, its reviewer and the lead's synthesis.
LeadPlan     == Plan!PlanTasks(TeamOf("lead-and-teammates", <<lead, dev, rev>>, lead))
LeadTask     == DOMAIN LeadPlan
LeadDeps     == [t \in LeadTask |-> LeadPlan[t].depends_on]
LeadOwner    == [t \in LeadTask |-> LeadPlan[t].owner]
LeadReviewer == [t \in LeadTask |-> LeadPlan[t].reviewer]

\* Two implementers with a reviewer, and the synthesis.
WidePlan     == Plan!PlanTasks(TeamOf("lead-and-teammates", <<lead, dev, dev2, rev>>, lead))
WideTask     == DOMAIN WidePlan
WideDeps     == [t \in WideTask |-> WidePlan[t].depends_on]
WideOwner    == [t \in WideTask |-> WidePlan[t].owner]
WideReviewer == [t \in WideTask |-> WidePlan[t].reviewer]

\* dev, then rev, then lead.
PipePlan     == Plan!PlanTasks(TeamOf("pipeline", <<dev, rev, lead>>, NoAgent))
PipeTask     == DOMAIN PipePlan
PipeDeps     == [t \in PipeTask |-> PipePlan[t].depends_on]
PipeOwner    == [t \in PipeTask |-> PipePlan[t].owner]
PipeReviewer == [t \in PipeTask |-> PipePlan[t].reviewer]

\* Two processes of a shell user, each driving the whole team; pods.
WholeTeam == [w \in {w1, w2} |-> <<lead, dev, dev2, rev>>]
Pods      == [w \in {w1, w2} |-> IF w = w1 THEN <<lead>> ELSE <<dev>>]

NoOverride  == [w \in Worker |-> "none"]
MixOverride == [w \in {w1, w2} |-> IF w = w1 THEN "autonomous" ELSE "none"]

UnitCost == [t \in Task |-> 1]

Nobody    == {}
Anyone    == {lead, dev, dev2, rev}
Developer == {dev}
Unbounded == NoLimit

Everywhere  == Preparing \cup Executing \cup {"claim"}
BeforeStart == Preparing \cup {"claim"}

=============================================================================
