------------------------------ MODULE Patterns ------------------------------
(***************************************************************************)
(* plan_tasks of karo_runtime/runtime/patterns.py: the task graph each     *)
(* coordination pattern makes of a team.  A graph is the sequence of its   *)
(* tasks in the order of their creation; a task names the tasks it depends *)
(* on by their positions.                                                  *)
(***************************************************************************)
EXTENDS Integers, Sequences

CONSTANTS
  Agent,         \* the names agents may have
  NoAgent,       \* None, where the name of an agent may stand
  ReviewerName   \* the name "reviewer"

ASSUME PatternsAssumption == NoAgent \notin Agent /\ ReviewerName \in Agent

Pattern == {"lead-and-teammates", "pipeline", "swarm"}

\* spec.agents and spec.coordination; no stages when there is no pipeline block.
Team ==
  [pattern  : Pattern,
   agents   : Seq(Agent) \ {<<>>},
   lead     : Agent \cup {NoAgent},
   reviewer : Agent \cup {NoAgent},
   stages   : Seq(Agent)]

PlannedTask(owner, reviewer, depends_on) ==
  [owner |-> owner, reviewer |-> reviewer, depends_on |-> depends_on]

Members(team) == {team.agents[i] : i \in DOMAIN team.agents}

StagesOf(team) == IF team.stages = <<>> THEN team.agents ELSE team.stages

PipelineTasks(team) ==
  [i \in DOMAIN StagesOf(team) |->
     PlannedTask(StagesOf(team)[i], NoAgent, IF i = 1 THEN {} ELSE {i - 1})]

SwarmTasks(team) == [i \in DOMAIN team.agents |-> PlannedTask(NoAgent, NoAgent, {})]

LeadOf(team) == IF team.lead = NoAgent THEN team.agents[1] ELSE team.lead

\* The declared reviewer, or else the agent that is called "reviewer".
ReviewerOf(team) ==
  LET eligible == Members(team) \ {LeadOf(team)} IN
  IF team.reviewer \in eligible THEN team.reviewer
  ELSE IF ReviewerName \in eligible THEN ReviewerName
  ELSE NoAgent

\* What is left of names; but[n] is what is left of the first n.
Without(names, excluded) ==
  LET but[n \in 0..Len(names)] ==
        IF n = 0 THEN <<>>
        ELSE IF names[n] \in excluded THEN but[n - 1]
        ELSE Append(but[n - 1], names[n])
  IN  but[Len(names)]

\* The others, in the order of spec.agents.
MembersBut(team, excluded) == Without(team.agents, excluded)

\* Everybody but lead and reviewer; everybody but the lead; everybody.
Implementers(team) ==
  LET candidates == <<MembersBut(team, {LeadOf(team), ReviewerOf(team)}),
                      MembersBut(team, {LeadOf(team)}),
                      team.agents>>
      first == CHOOSE i \in 1..3 :
                 candidates[i] # <<>> /\ \A j \in 1..(i - 1) : candidates[j] = <<>>
  IN  candidates[first]

SynthesisMissesOne(team) ==
  PlannedTask(LeadOf(team), NoAgent, 1..(Len(Implementers(team)) - 1))

Synthesis(team) == PlannedTask(LeadOf(team), NoAgent, 1..Len(Implementers(team)))

SynthesisFirst(team) ==
  LET mates == Implementers(team)
  IN  <<PlannedTask(LeadOf(team), NoAgent, 2..(Len(mates) + 1))>> \o
      [i \in DOMAIN mates |-> PlannedTask(mates[i], ReviewerOf(team), {})]

LeadTasks(team) ==
  LET mates == Implementers(team)
  IN  [i \in DOMAIN mates |-> PlannedTask(mates[i], ReviewerOf(team), {})]
        \o <<Synthesis(team)>>

PlanTasks(team) ==
  CASE team.pattern = "pipeline"           -> PipelineTasks(team)
    [] team.pattern = "swarm"              -> SwarmTasks(team)
    [] team.pattern = "lead-and-teammates" -> LeadTasks(team)

\* Coordinator.run: the lead, or else the first agent, plans for the cluster.
PlannerOf(team) == LeadOf(team)
=============================================================================
