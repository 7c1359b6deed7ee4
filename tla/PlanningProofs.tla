--------------------------- MODULE PlanningProofs ---------------------------
(***************************************************************************)
(* The task graph of a team, for any team of any pattern.  Its tasks are   *)
(* created in an order in which each comes after those it depends on, so a *)
(* planner that dies leaves no task that waits for a missing one; and the  *)
(* order of the work respects the graph, though people cancel in it, so    *)
(* that the last task has seen the others.                                 *)
(*                                                                         *)
(* The team comes from the spec pipeline, whose theorems are in the second *)
(* part: a team that validates for the cluster runs there, its agents act  *)
(* as they do on the desk, and its graph has work for its agents alone.    *)
(*                                                                         *)
(* Without and FoldLeft are recursive functions: that they yield what they *)
(* should needs induction, which FiniteNumbers offers.                     *)
(***************************************************************************)
EXTENDS Planning, SpecPipeline, FiniteNumbers, SequenceTheorems

\* What is left of a sequence is one of things of the same kind.
LEMMA WithoutType ==
  ASSUME NEW S, NEW s \in Seq(S), NEW excluded
  PROVE  Without(s, excluded) \in Seq(S)
<1> DEFINE but(f, n) == IF n = 0 THEN <<>>
                        ELSE IF s[n] \in excluded THEN f[n - 1] ELSE Append(f[n - 1], s[n])
           Upto(n, f) == f \in [0..n -> Seq(S)] /\ \A i \in 0..n : f[i] = but(f, i)
           K == {n \in Nat : n <= Len(s) => \E f : Upto(n, f)}
<1>0. Len(s) \in Nat /\ \A i \in 1..Len(s) : s[i] \in S
  OBVIOUS
<1>1. 0 \in K
  <2>1. Upto(0, [i \in 0..0 |-> <<>>])
    OBVIOUS
  <2> HIDE DEF Upto
  <2> QED
    BY <2>1
<1>2. ASSUME NEW n \in K PROVE n + 1 \in K
  <2> SUFFICES ASSUME n + 1 <= Len(s) PROVE \E f : Upto(n + 1, f)
    <3> HIDE DEF Upto
    <3> QED
      OBVIOUS
  <2>1. n \in Nat /\ n <= Len(s)
    BY <1>0
  <2>2. PICK f : Upto(n, f)
    <3> HIDE DEF Upto
    <3> QED
      BY <2>1
  <2> DEFINE last == IF s[n + 1] \in excluded THEN f[n] ELSE Append(f[n], s[n + 1])
             g == [i \in 0..(n + 1) |-> IF i = n + 1 THEN last ELSE f[i]]
  <2>3. s[n + 1] \in S /\ f[n] \in Seq(S)
    BY <1>0, <2>1, <2>2
  <2>4. last \in Seq(S)
    BY <2>3, AppendProperties
  <2>5. g \in [0..(n + 1) -> Seq(S)]
    <3> HIDE DEF last
    <3> QED
      BY <2>1, <2>2, <2>4
  <2>6. \A i \in 0..n : g[i] = but(g, i)
    <3>1. \A i \in 0..n : i \in 0..(n + 1) /\ i # n + 1 /\ (i # 0 => i - 1 \in 0..n)
      BY <2>1
    <3>2. \A i \in 0..n : g[i] = f[i]
      <4> HIDE DEF last
      <4> QED
        BY <3>1
    <3>3. \A i \in 0..n : f[i] = but(f, i)
      <4> HIDE DEF but
      <4> QED
        BY <2>2
    <3> HIDE DEF g
    <3> QED
      BY <3>1, <3>2, <3>3
  <2>7. g[n + 1] = but(g, n + 1)
    BY <2>1
  <2>8. Upto(n + 1, g)
    <3>1. \A i \in 0..(n + 1) : i \in 0..n \/ i = n + 1
      BY <2>1
    <3> HIDE DEF g, but
    <3> QED
      BY <2>5, <2>6, <2>7, <3>1
  <2> HIDE DEF Upto
  <2> QED
    BY <2>8
<1>3. PICK f : Upto(Len(s), f)
  <2> HIDE DEF Upto
  <2>1. K \subseteq Nat
    OBVIOUS
  <2>2. Len(s) \in K
    <3> HIDE DEF K
    <3> QED
      BY <1>0, <1>1, <1>2, <2>1, SetInduction
  <2> QED
    BY <1>0, <2>2
<1>4. f = [n \in 0..Len(s) |-> but(f, n)]
  BY <1>3
<1> DEFINE h == CHOOSE g : g = [n \in 0..Len(s) |-> but(g, n)]
<1>5. h = [n \in 0..Len(s) |-> but(h, n)]
  BY <1>4
<1>6. Without(s, excluded) = h[Len(s)]
  BY DEF Without
<1> DEFINE L == {n \in Nat : n <= Len(s) => h[n] \in Seq(S)}
<1> HIDE DEF h
<1>7. 0 \in L
  BY <1>0, <1>5
<1>8. ASSUME NEW n \in L PROVE n + 1 \in L
  <2> SUFFICES ASSUME n + 1 <= Len(s) PROVE h[n + 1] \in Seq(S)
    OBVIOUS
  <2>1. h[n] \in Seq(S) /\ s[n + 1] \in S
    BY <1>0
  <2>2. Append(h[n], s[n + 1]) \in Seq(S)
    BY <2>1, AppendProperties
  <2>3. n + 1 \in 0..Len(s)
    BY <1>0
  <2>4. h[n + 1] = but(h, n + 1)
    <3> HIDE DEF but
    <3> QED
      BY <1>5, <2>3
  <2> QED
    BY <2>1, <2>2, <2>4
<1>9. Len(s) \in L
  <2>1. L \subseteq Nat
    OBVIOUS
  <2> HIDE DEF L
  <2> QED
    BY <1>0, <1>7, <1>8, <2>1, SetInduction
<1> QED
  BY <1>0, <1>6, <1>9

-----------------------------------------------------------------------------
(***************************************************************************)
(* The graph of a team.                                                    *)
(***************************************************************************)
PlannedSet == [owner : Owner, reviewer : Owner, depends_on : SUBSET Nat]

\* At least one task, and each depends only on tasks before it.
IsGraph(g) ==
  /\ g \in Seq(PlannedSet) /\ Len(g) >= 1
  /\ \A i \in 1..Len(g) : g[i].depends_on \subseteq 1..(i - 1)

LEMMA SeqFacts ==
  ASSUME NEW S, NEW s \in Seq(S)
  PROVE  /\ Len(s) \in Nat /\ DOMAIN s = 1..Len(s)
         /\ \A i \in 1..Len(s) : s[i] \in S
         /\ s # <<>> => Len(s) >= 1 /\ s[1] \in S
<1>1. Len(s) \in Nat /\ DOMAIN s = 1..Len(s) /\ \A i \in 1..Len(s) : s[i] \in S
  OBVIOUS
<1>2. s # <<>> => Len(s) # 0
  BY EmptySeq
<1> QED
  BY <1>1, <1>2

LEMMA LeadType ==
  ASSUME NEW tm \in Team
  PROVE  LeadOf(tm) \in Agent /\ ReviewerOf(tm) \in Owner
<1>1. tm.agents \in Seq(Agent) /\ tm.agents # <<>> /\ tm.lead \in Owner /\ tm.reviewer \in Owner
  BY DEF Team, Owner
<1>2. tm.agents[1] \in Agent
  BY <1>1, SeqFacts
<1> QED
  BY <1>1, <1>2, PatternsAssumption DEF LeadOf, ReviewerOf, Owner

\* Whoever is left, somebody implements.
LEMMA ImplementersType ==
  ASSUME NEW tm, NEW S, tm.agents \in Seq(S), tm.agents # <<>>
  PROVE  Implementers(tm) \in Seq(S) /\ Len(Implementers(tm)) >= 1
<1>1. tm.agents \in Seq(S) /\ tm.agents # <<>>
  OBVIOUS
<1> DEFINE a == MembersBut(tm, {LeadOf(tm), ReviewerOf(tm)})
           b == MembersBut(tm, {LeadOf(tm)})
           c == <<a, b, tm.agents>>
           isFirst(i) == c[i] # <<>> /\ \A j \in 1..(i - 1) : c[j] = <<>>
           first == CHOOSE i \in 1..3 : isFirst(i)
<1>2. a \in Seq(S) /\ b \in Seq(S)
  BY <1>1, WithoutType DEF MembersBut
<1> HIDE DEF a, b
<1>3. c[1] = a /\ c[2] = b /\ c[3] = tm.agents
  OBVIOUS
<1> HIDE DEF c
<1>4. \E i \in 1..3 : isFirst(i)
  <2>1. CASE a # <<>>
    <3>1. isFirst(1)
      BY <1>3, <2>1
    <3> QED
      BY <3>1
  <2>2. CASE a = <<>> /\ b # <<>>
    <3>1. isFirst(2)
      BY <1>3, <2>2
    <3> QED
      BY <3>1
  <2>3. CASE a = <<>> /\ b = <<>>
    <3>1. isFirst(3)
      BY <1>1, <1>3, <2>3
    <3> QED
      BY <3>1
  <2> QED
    BY <2>1, <2>2, <2>3
<1>5. first \in 1..3 /\ c[first] # <<>>
  BY <1>4
<1>6. Implementers(tm) = c[first]
  BY DEF Implementers, c, a, b
<1> HIDE DEF first
<1>7. c[first] \in Seq(S)
  BY <1>1, <1>2, <1>3, <1>5
<1> QED
  BY <1>5, <1>6, <1>7, SeqFacts

\* The lead's task comes last and waits for all the others.
LEMMA LeadGraph ==
  ASSUME NEW tm \in Team
  PROVE  LET g == LeadTasks(tm) IN
         IsGraph(g) /\ g[Len(g)].depends_on = 1..(Len(g) - 1)
<1> DEFINE mates == Implementers(tm)
           m == Len(mates)
           work == [i \in DOMAIN mates |-> PlannedTask(mates[i], ReviewerOf(tm), {})]
           last == Synthesis(tm)
           g == LeadTasks(tm)
<1>1. mates \in Seq(Agent) /\ m \in Nat /\ m >= 1 /\ DOMAIN mates = 1..m
  <2>1. tm.agents \in Seq(Agent) /\ tm.agents # <<>>
    BY DEF Team
  <2> QED
    BY <2>1, ImplementersType, SeqFacts
<1>2. \A i \in 1..m : mates[i] \in Agent
  BY <1>1, SeqFacts
<1>3. LeadOf(tm) \in Owner /\ ReviewerOf(tm) \in Owner /\ NoAgent \in Owner
  BY LeadType DEF Owner
<1>4. work \in Seq(PlannedSet) /\ Len(work) = m /\ \A i \in 1..m : work[i].depends_on = {}
  BY <1>1, <1>2, <1>3 DEF PlannedTask, PlannedSet, Owner
<1>5. last \in PlannedSet /\ last.depends_on = 1..m
  BY <1>1, <1>3 DEF Synthesis, PlannedTask, PlannedSet
<1>6. g = work \o <<last>>
  BY DEF LeadTasks
<1> HIDE DEF work, last, mates, g
<1>7. /\ g \in Seq(PlannedSet) /\ Len(g) = m + 1 /\ g[m + 1] = last
      /\ \A i \in 1..m : g[i] = work[i]
  BY <1>1, <1>4, <1>5, <1>6
<1> HIDE DEF m
<1>8. \A i \in 1..Len(g) : g[i].depends_on \subseteq 1..(i - 1)
  <2>1. \A i \in 1..Len(g) : i \in 1..m \/ i = m + 1
    BY <1>1, <1>7
  <2> QED
    BY <1>1, <1>4, <1>5, <1>7, <2>1
<1> QED
  BY <1>1, <1>5, <1>7, <1>8 DEF IsGraph, g

\* Each stage of a pipeline waits for the one before it.
LEMMA PipelineGraph ==
  ASSUME NEW tm \in Team
  PROVE  LET g == PipelineTasks(tm) IN
         IsGraph(g) /\ \A i \in 1..Len(g) : i # 1 => g[i].depends_on = {i - 1}
<1> DEFINE stages == StagesOf(tm)
           g == PipelineTasks(tm)
<1>1. stages \in Seq(Agent) /\ stages # <<>>
  BY DEF StagesOf, Team
<1>2. /\ Len(stages) \in Nat /\ Len(stages) >= 1 /\ DOMAIN stages = 1..Len(stages)
      /\ \A i \in 1..Len(stages) : stages[i] \in Agent
  BY <1>1, SeqFacts
<1> DEFINE before(i) == IF i = 1 THEN {} ELSE {i - 1}
<1>3. g = [i \in 1..Len(stages) |-> PlannedTask(stages[i], NoAgent, before(i))]
  BY <1>2 DEF PipelineTasks
<1> HIDE DEF stages, g
<1>a. \A i \in 1..Len(stages) : before(i) \subseteq Nat /\ before(i) \subseteq 1..(i - 1)
  BY <1>2
<1>4. \A i \in 1..Len(stages) : g[i] \in PlannedSet /\ g[i].depends_on = before(i)
  <2> HIDE DEF before
  <2> QED
    BY <1>2, <1>3, <1>a DEF PlannedTask, PlannedSet, Owner
<1>5. g \in Seq(PlannedSet) /\ Len(g) = Len(stages)
  <2> HIDE DEF before
  <2> QED
    BY <1>2, <1>3, <1>4
<1>6. \A i \in 1..Len(g) : g[i].depends_on \subseteq 1..(i - 1)
  <2> HIDE DEF before
  <2> QED
    BY <1>2, <1>4, <1>5, <1>a
<1> QED
  BY <1>2, <1>4, <1>5, <1>6 DEF IsGraph, g

LEMMA SwarmGraph ==
  ASSUME NEW tm \in Team
  PROVE  IsGraph(SwarmTasks(tm))
<1> DEFINE g == SwarmTasks(tm)
           n == Len(tm.agents)
<1>1. n \in Nat /\ n >= 1 /\ DOMAIN tm.agents = 1..n
  <2>1. tm.agents \in Seq(Agent) /\ tm.agents # <<>>
    BY DEF Team
  <2> QED
    BY <2>1, SeqFacts
<1>2. g = [i \in 1..n |-> PlannedTask(NoAgent, NoAgent, {})]
  BY <1>1 DEF SwarmTasks
<1> HIDE DEF n, g
<1>3. \A i \in 1..n : g[i] \in PlannedSet /\ g[i].depends_on = {}
  BY <1>2 DEF PlannedTask, PlannedSet, Owner
<1>4. g \in Seq(PlannedSet) /\ Len(g) = n
  BY <1>1, <1>2, <1>3
<1> QED
  BY <1>1, <1>3, <1>4 DEF IsGraph, g

LEMMA PlanIsGraph ==
  ASSUME NEW tm \in Team
  PROVE  IsGraph(PlanTasks(tm))
<1>1. tm.pattern \in Pattern
  BY DEF Team
<1> QED
  BY <1>1, LeadGraph, PipelineGraph, SwarmGraph DEF Pattern, PlanTasks

-----------------------------------------------------------------------------
(***************************************************************************)
(* The inductive invariant.                                                *)
(***************************************************************************)
\* A run creates its graph from the first task to the last.
CreatingOK(r) ==
  /\ run[r].point = "new" => \A t \in DOMAIN tasks : t[1] # r
  /\ run[r].point = "create" =>
       /\ run[r].next \in 1..Len(GraphOf(r)) /\ run[r].scan = 1
       /\ \A t \in DOMAIN tasks : t[1] = r => t[2] < run[r].next
       /\ \A j \in 1..(run[r].next - 1) : <<r, j>> \in DOMAIN tasks

\* It claims for one of its agents, and what it has claimed could be claimed.
ClaimingOK(r) ==
  /\ run[r].scan \in 1..Len(AgentsOf(r))
  /\ run[r].point \in {"gate", "turn"} =>
       run[r].hand \in DOMAIN tasks /\ tasks[run[r].hand].depends_on \subseteq worked

\* A stored task is the one its graph has there, and comes after those before it.
StoredOK(t) ==
  /\ t[2] \in 1..Len(GraphOf(t[1]))
  /\ tasks[t].depends_on = {<<t[1], d>> : d \in GraphOf(t[1])[t[2]].depends_on}
  /\ \A j \in 1..t[2] : <<t[1], j>> \in DOMAIN tasks

\* What was done was done after what it depends on, and stays in the history.
WorkedOK ==
  /\ worked \subseteq DOMAIN tasks
  /\ \A t \in DOMAIN tasks : tasks[t].state = "done" => t \in worked
  /\ \A t \in worked : tasks[t].depends_on \subseteq worked

PlanInv ==
  /\ PlanningTypeOK
  /\ \A r \in Run : CreatingOK(r) /\ ClaimingOK(r)
  /\ \A t \in DOMAIN tasks : StoredOK(t)
  /\ WorkedOK

LEMMA MembersType ==
  ASSUME NEW tm \in Team
  PROVE  Members(tm) \subseteq Agent
<1>1. tm.agents \in Seq(Agent)
  BY DEF Team
<1> QED
  BY <1>1, SeqFacts DEF Members

LEMMA NewRunType ==
  /\ NewRun \in RunState /\ NewRun.point = "new" /\ NewRun.next = 1 /\ NewRun.scan = 1
  /\ NewRun.agent = NoAgent /\ NewRun.target = NoAgent
BY DEF NewRun, RunState, Point, Owner

LEMMA ModeType ==
  ASSUME PlanningTypeOK, NEW mode \in Mode
  PROVE  /\ mode \in RunState /\ mode.point = "new" /\ mode.next = 1 /\ mode.scan = 1
         /\ mode.agent \in Members(team) \cup {NoAgent}
         /\ mode.target \in Members(team) \cup {NoAgent}
         /\ IF lane = "cluster" THEN mode.agent \in Agent ELSE mode.agent = NoAgent
<1>1. Members(team) \subseteq Agent
  BY MembersType, PlanningAssumption DEF PlanningTypeOK
<1>2. CASE lane = "cluster"
  <2>1. PICK agent \in Members(team) : mode = [NewRun EXCEPT !.agent = agent]
    BY <1>2 DEF Mode
  <2>2. agent \in Owner
    BY <1>1 DEF Owner
  <2> QED
    BY <1>1, <1>2, <2>1, <2>2, NewRunType DEF RunState
<1>3. CASE lane # "cluster"
  <2>1. PICK choice \in (Members(team) \cup {NoAgent}) \X BOOLEAN :
          mode = [NewRun EXCEPT !.target = choice[1], !.dry = choice[2]]
    BY <1>3 DEF Mode
  <2>2. choice[1] \in Owner /\ choice[1] \in Members(team) \cup {NoAgent} /\ choice[2] \in BOOLEAN
    BY <1>1 DEF Owner
  <2> QED
    BY <1>3, <2>1, <2>2, NewRunType DEF RunState
<1> QED
  BY <1>2, <1>3

LEMMA GraphType ==
  ASSUME NEW tm \in Team, NEW target \in Owner
  PROVE  IsGraph(IF target # NoAgent THEN <<PlannedTask(target, NoAgent, {})>>
                 ELSE PlanTasks(tm))
<1>1. CASE target = NoAgent
  BY <1>1, PlanIsGraph
<1>2. CASE target # NoAgent
  <2> DEFINE task == PlannedTask(target, NoAgent, {})
  <2>1. task \in PlannedSet /\ task.depends_on = {}
    BY DEF PlannedTask, PlannedSet, Owner
  <2> HIDE DEF task
  <2>2. <<task>> \in Seq(PlannedSet) /\ Len(<<task>>) = 1 /\ <<task>>[1] = task
    BY <2>1
  <2> QED
    BY <1>2, <2>1, <2>2 DEF IsGraph, task
<1> QED
  BY <1>1, <1>2

LEMMA RunGraph ==
  ASSUME PlanningTypeOK, NEW r \in Run
  PROVE  IsGraph(GraphOf(r))
BY GraphType, PlanningAssumption DEF PlanningTypeOK, GraphOf, RunState

\* A task has the graph of its run, which only the run's beginning chooses.
LEMMA GraphStays ==
  ASSUME NEW r \in Run, team' = team, run'[r].target = run[r].target
  PROVE  GraphOf(r)' = GraphOf(r)
BY DEF GraphOf

LEMMA TaskIdFacts ==
  ASSUME NEW t \in TaskId
  PROVE  t[1] \in Run /\ t[2] \in Nat \ {0} /\ t = <<t[1], t[2]>>
BY DEF TaskId

LEMMA ScopeType ==
  ASSUME NEW tm \in Team, NEW agent \in Owner, NEW target \in Owner
  PROVE  LET scope == IF agent # NoAgent THEN <<agent>>
                      ELSE IF target # NoAgent THEN <<target>> ELSE tm.agents IN
         /\ Len(scope) \in Nat /\ Len(scope) >= 1 /\ DOMAIN scope = 1..Len(scope)
         /\ \A i \in 1..Len(scope) : scope[i] \in Agent
<1> DEFINE scope == IF agent # NoAgent THEN <<agent>>
                    ELSE IF target # NoAgent THEN <<target>> ELSE tm.agents
<1>1. tm.agents \in Seq(Agent) /\ tm.agents # <<>>
  BY DEF Team
<1>2. ASSUME NEW a \in Agent
      PROVE  <<a>> \in Seq(Agent) /\ <<a>> # <<>>
  OBVIOUS
<1>3. scope \in Seq(Agent) /\ scope # <<>>
  BY <1>1, <1>2 DEF Owner
<1> HIDE DEF scope
<1>4. /\ Len(scope) \in Nat /\ Len(scope) >= 1 /\ DOMAIN scope = 1..Len(scope)
      /\ \A i \in 1..Len(scope) : scope[i] \in Agent
  BY <1>3, SeqFacts
<1> QED
  BY <1>4 DEF scope

LEMMA AgentsType ==
  ASSUME PlanningTypeOK, NEW r \in Run
  PROVE  /\ Len(AgentsOf(r)) \in Nat /\ Len(AgentsOf(r)) >= 1
         /\ DOMAIN AgentsOf(r) = 1..Len(AgentsOf(r))
         /\ \A i \in 1..Len(AgentsOf(r)) : AgentsOf(r)[i] \in Agent
<1>1. run[r].agent \in Owner /\ run[r].target \in Owner /\ team \in Team
  BY PlanningAssumption DEF PlanningTypeOK, RunState
<1> QED
  BY <1>1, ScopeType DEF AgentsOf

\* The agents of a run are those of its beginning.
LEMMA AgentsStay ==
  ASSUME NEW r \in Run, team' = team, run'[r].agent = run[r].agent, run'[r].target = run[r].target
  PROVE  AgentsOf(r)' = AgentsOf(r)
BY DEF AgentsOf

LEMMA InitPlan ==
  ASSUME Init
  PROVE  PlanInv
<1>1. DOMAIN tasks = {}
  BY DEF Init
<1>2. PlanningTypeOK
  <2>1. 0 \in 0..MaxDeaths
    BY PlanningAssumption
  <2> QED
    BY <1>1, <2>1, NewRunType DEF Init, PlanningTypeOK
<1>3. \A r \in Run : run[r].point = "new" /\ run[r].scan = 1
  BY NewRunType DEF Init
<1>4. \A r \in Run : Len(AgentsOf(r)) \in Nat /\ Len(AgentsOf(r)) >= 1
  BY <1>2, AgentsType
<1> QED
  BY <1>1, <1>2, <1>3, <1>4 DEF Init, PlanInv, CreatingOK, ClaimingOK, WorkedOK

LEMMA StartPlan ==
  ASSUME PlanInv, NEW r \in Run, Start(r)
  PROVE  PlanInv'
<1> USE DEF PlanInv
<1>1. PICK mode \in Mode :
        run' = [run EXCEPT ![r] =
                  [mode EXCEPT !.point =
                     IF Plans(mode.agent) /\ NothingStored THEN "create" ELSE Planned(mode)]]
  BY DEF Start
<1>2. mode \in RunState /\ mode.next = 1 /\ mode.scan = 1
  BY ModeType
<1>3. UNCHANGED <<team, lane, tasks, worked, deaths>> /\ run[r].point = "new"
  BY DEF Start
<1>4. /\ run'[r] \in RunState /\ run'[r].next = 1 /\ run'[r].scan = 1
      /\ run'[r].point \in {"create", "claim", "planned"}
      /\ run'[r].point = "create" => NothingStored
      /\ \A q \in Run \ {r} : run'[q] = run[q]
      /\ run' \in [Run -> RunState]
  BY <1>1, <1>2 DEF PlanningTypeOK, Planned, RunState, Point
<1>5. PlanningTypeOK'
  BY <1>3, <1>4 DEF PlanningTypeOK, Record
<1>6. \A t \in DOMAIN tasks : t \in TaskId /\ t[1] \in Run /\ t[1] # r
  BY <1>3, TaskIdFacts DEF PlanningTypeOK, CreatingOK
<1>7. \A q \in Run \ {r} : GraphOf(q)' = GraphOf(q)
  BY <1>3, <1>4, GraphStays
<1>8. CreatingOK(r)'
  <2>1. Len(GraphOf(r)') \in Nat /\ Len(GraphOf(r)') >= 1
    <3>1. IsGraph(GraphOf(r)')
      BY <1>5, GraphType, PlanningAssumption DEF PlanningTypeOK, GraphOf, RunState
    <3> QED
      BY <3>1, SeqFacts DEF IsGraph
  <2> QED
    BY <1>3, <1>4, <2>1 DEF CreatingOK, NothingStored
<1>9. \A q \in Run : CreatingOK(q)'
  BY <1>3, <1>4, <1>7, <1>8 DEF CreatingOK
<1>12. ClaimingOK(r)'
  <2>1. Len(AgentsOf(r)') \in Nat /\ Len(AgentsOf(r)') >= 1
    <3>1. run'[r].agent \in Owner /\ run'[r].target \in Owner /\ team' \in Team
      BY <1>5, PlanningAssumption DEF PlanningTypeOK, RunState
    <3> QED
      BY <3>1, ScopeType DEF AgentsOf
  <2> QED
    BY <1>4, <2>1 DEF ClaimingOK
<1>13. \A q \in Run : ClaimingOK(q)'
  <2>1. \A q \in Run \ {r} : AgentsOf(q)' = AgentsOf(q)
    BY <1>3, <1>4, AgentsStay
  <2> QED
    BY <1>3, <1>4, <1>12, <2>1 DEF ClaimingOK
<1>10. \A t \in DOMAIN tasks' : StoredOK(t)'
  BY <1>3, <1>6, <1>7 DEF StoredOK
<1>11. WorkedOK'
  BY <1>3 DEF WorkedOK
<1> QED
  BY <1>5, <1>9, <1>10, <1>11, <1>13

LEMMA CreatePlan ==
  ASSUME PlanInv, NEW r \in Run, Create(r)
  PROVE  PlanInv'
<1> USE DEF PlanInv
<1> DEFINE g == GraphOf(r)
           i == run[r].next
           id == <<r, i>>
           record == [owner |-> g[i].owner, reviewer |-> g[i].reviewer,
                      depends_on |-> {<<r, d>> : d \in g[i].depends_on}, state |-> "pending"]
<1>1. /\ run[r].point = "create" /\ UNCHANGED <<team, lane, worked, deaths>>
      /\ tasks' = [t \in DOMAIN tasks \cup {id} |-> IF t = id THEN record ELSE tasks[t]]
      /\ run' = [run EXCEPT ![r].next = i + 1,
                            ![r].point = IF i = Len(g) THEN Planned(run[r]) ELSE @]
  BY DEF Create
<1>2. IsGraph(g)
  BY RunGraph
<1>3. /\ Len(g) \in Nat /\ i \in 1..Len(g) /\ g[i] \in PlannedSet
      /\ g[i].depends_on \subseteq 1..(i - 1)
  BY <1>1, <1>2, SeqFacts DEF CreatingOK, IsGraph
<1> HIDE DEF g
<1>4. id \in TaskId /\ id[1] = r /\ id[2] = i /\ id \notin DOMAIN tasks
  BY <1>1, <1>3 DEF CreatingOK, TaskId
<1>5. record \in Record
  <2>1. \A d \in g[i].depends_on : <<r, d>> \in TaskId
    BY <1>3 DEF TaskId
  <2>2. {<<r, d>> : d \in g[i].depends_on} \in SUBSET TaskId
    BY <2>1
  <2> QED
    BY <1>3, <2>2 DEF Record, PlannedSet
<1>6. /\ DOMAIN tasks' = DOMAIN tasks \cup {id} /\ tasks'[id] = record
      /\ \A t \in DOMAIN tasks : t # id /\ tasks'[t] = tasks[t]
  <2> HIDE DEF record, id
  <2> QED
    BY <1>1, <1>4
<1>7. /\ run' \in [Run -> RunState] /\ run'[r].target = run[r].target
      /\ run'[r].scan = run[r].scan /\ run'[r].agent = run[r].agent
      /\ run'[r].next = i + 1
      /\ run'[r].point = IF i = Len(g) THEN Planned(run[r]) ELSE "create"
      /\ \A q \in Run \ {r} : run'[q] = run[q]
  <2> DEFINE after == IF i = Len(g) THEN Planned(run[r]) ELSE "create"
             new == [run[r] EXCEPT !.next = i + 1, !.point = after]
  <2>1. run[r] \in RunState /\ run \in [Run -> RunState]
    BY DEF PlanningTypeOK
  <2>2. after \in {"create", "planned", "claim"} /\ i + 1 \in Nat
    BY <1>3 DEF Planned
  <2>3. run' = [run EXCEPT ![r] = new]
    BY <1>1, <2>1 DEF RunState
  <2> HIDE DEF after, i
  <2>4. new \in RunState /\ new.target = run[r].target /\ new.next = i + 1 /\ new.point = after
         /\ new.scan = run[r].scan /\ new.agent = run[r].agent
    BY <2>1, <2>2 DEF RunState, Point
  <2> HIDE DEF new
  <2> QED
    BY <2>1, <2>3, <2>4 DEF after
<1>8. \A q \in Run : GraphOf(q)' = GraphOf(q)
  <2>1. \A q \in Run : run'[q].target = run[q].target
    BY <1>7
  <2> QED
    BY <1>1, <2>1, GraphStays
<1>9. PlanningTypeOK'
  <2> HIDE DEF record, id
  <2> QED
    BY <1>1, <1>4, <1>5, <1>6, <1>7 DEF PlanningTypeOK, Record
<1>10. ASSUME NEW q \in Run PROVE CreatingOK(q)'
  <2>1. CASE q = r
    <3>1. ASSUME run'[r].point = "create" PROVE i + 1 \in 1..Len(g)
      BY <1>3, <1>7, <3>1 DEF Planned
    <3>2. run'[r].point # "new"
      BY <1>7 DEF Planned
    <3>3. \A t \in DOMAIN tasks' : t[1] = r => t[2] < i + 1
      <4>1. \A t \in DOMAIN tasks : t[1] = r => t[2] < i /\ t[2] \in Nat
        BY <1>1, TaskIdFacts DEF CreatingOK, PlanningTypeOK
      <4> QED
        BY <1>3, <1>4, <1>6, <4>1
    <3>4. \A j \in 1..i : <<r, j>> \in DOMAIN tasks'
      <4>1. \A j \in 1..(i - 1) : <<r, j>> \in DOMAIN tasks
        BY <1>1 DEF CreatingOK
      <4> QED
        BY <1>3, <1>6, <4>1
    <3> QED
      BY <1>1, <1>3, <1>7, <1>8, <2>1, <3>1, <3>2, <3>3, <3>4 DEF CreatingOK, g
  <2>2. CASE q # r
    BY <1>4, <1>6, <1>7, <1>8, <2>2 DEF CreatingOK
  <2> QED
    BY <2>1, <2>2
<1>11. ASSUME NEW t \in DOMAIN tasks' PROVE StoredOK(t)'
  <2>1. CASE t = id
    <3>1. \A j \in 1..i : <<r, j>> \in DOMAIN tasks'
      <4>1. \A j \in 1..(i - 1) : <<r, j>> \in DOMAIN tasks
        BY <1>1 DEF CreatingOK
      <4> QED
        BY <1>3, <1>6, <4>1
    <3> QED
      BY <1>3, <1>4, <1>6, <1>8, <2>1, <3>1 DEF StoredOK, g
  <2>2. CASE t # id
    <3>1. t \in DOMAIN tasks /\ t[1] \in Run
      BY <1>6, <2>2, TaskIdFacts DEF PlanningTypeOK
    <3> QED
      BY <1>6, <1>8, <3>1 DEF StoredOK
  <2> QED
    BY <2>1, <2>2
<1>12. WorkedOK'
  <2>1. tasks'[id].state = "pending"
    BY <1>6
  <2> HIDE DEF record, id
  <2> QED
    BY <1>1, <1>6, <2>1 DEF WorkedOK
<1>13. ASSUME NEW q \in Run PROVE ClaimingOK(q)'
  <2>1. AgentsOf(q)' = AgentsOf(q)
    BY <1>1, <1>7, AgentsStay
  <2>2. run'[q].point \in {"gate", "turn"} => run'[q] = run[q]
    BY <1>7 DEF Planned
  <2>3. run'[q].scan = run[q].scan
    BY <1>7
  <2> QED
    BY <1>1, <1>6, <2>1, <2>2, <2>3 DEF ClaimingOK
<1> HIDE DEF PlanInv
<1> QED
  BY <1>9, <1>10, <1>11, <1>12, <1>13 DEF PlanInv

\* Whatever happens to the runs and the states of the tasks, the graphs stay.
LEMMA GraphsStay ==
  ASSUME PlanInv, PlanningTypeOK',
         UNCHANGED team, DOMAIN tasks' = DOMAIN tasks,
         \A t \in DOMAIN tasks : tasks'[t].depends_on = tasks[t].depends_on,
         \A r \in Run : /\ run'[r].target = run[r].target /\ run'[r].next = run[r].next
                        /\ run'[r].point \in {"new", "create"} => run'[r] = run[r]
  PROVE  /\ \A r \in Run : CreatingOK(r)'
         /\ \A t \in DOMAIN tasks' : StoredOK(t)'
<1>1. \A r \in Run : GraphOf(r)' = GraphOf(r)
  BY GraphStays
<1>2. \A t \in DOMAIN tasks : t[1] \in Run
  BY TaskIdFacts DEF PlanInv, PlanningTypeOK
<1> QED
  BY <1>1, <1>2 DEF PlanInv, CreatingOK, StoredOK

\* A step that sets the state of one task, its own or one it is given.
LEMMA StateSet ==
  ASSUME PlanningTypeOK, NEW t \in DOMAIN tasks,
         NEW s \in {"pending", "assigned", "started", "paused", "done", "cancelled"},
         SetState(t, s)
  PROVE  /\ DOMAIN tasks' = DOMAIN tasks
         /\ tasks'[t] \in Record /\ tasks'[t].state = s /\ tasks'[t].owner = tasks[t].owner
         /\ tasks'[t].depends_on = tasks[t].depends_on
         /\ \A u \in DOMAIN tasks \ {t} : tasks'[u] = tasks[u]
BY DEF SetState, PlanningTypeOK, Record

\* A run that leaves its task, or its loop.
LEMMA RunLetsGo ==
  ASSUME PlanningTypeOK, NEW r \in Run, NEW p \in Point, LetGo(r, p)
  PROVE  /\ run' \in [Run -> RunState] /\ \A q \in Run \ {r} : run'[q] = run[q]
         /\ run'[r].point = p /\ run'[r].scan = 1
         /\ run'[r].agent = run[r].agent /\ run'[r].target = run[r].target
         /\ run'[r].next = run[r].next
<1> DEFINE new == [run[r] EXCEPT !.point = p, !.scan = 1, !.hand = NoTask]
<1>1. run[r] \in RunState /\ run \in [Run -> RunState]
  BY DEF PlanningTypeOK
<1>2. run' = [run EXCEPT ![r] = new]
  BY <1>1 DEF LetGo
<1>3. /\ new \in RunState /\ new.point = p /\ new.scan = 1
      /\ new.agent = run[r].agent /\ new.target = run[r].target /\ new.next = run[r].next
  BY <1>1 DEF RunState
<1> HIDE DEF new
<1> QED
  BY <1>1, <1>2, <1>3

\* The steps of the claim loop, and a death.
LoopStep(r) ==
  \/ Claim(r) \/ FindNothing(r) \/ Pause(r) \/ Halt(r)
  \/ Begin(r) \/ Finish(r) \/ Return(r) \/ Die(r)

\* What they do to the run that takes them ...
LoopRun(r) ==
  /\ Active(r) /\ run' \in [Run -> RunState]
  /\ \A q \in Run \ {r} : run'[q] = run[q]
  /\ run'[r].agent = run[r].agent /\ run'[r].target = run[r].target
  /\ run'[r].next = run[r].next
  /\ run'[r].point \notin {"new", "create"}
  /\ run'[r].scan \in 1..Len(AgentsOf(r))

\* ... and to the tasks: only the one in its hands changes, which can be claimed.
LoopTasks(r) ==
  \/ /\ UNCHANGED <<tasks, worked>>
     /\ run'[r].point \notin {"gate", "turn"}
  \/ /\ \E t \in DOMAIN tasks :
          /\ tasks[t].depends_on \subseteq worked
          /\ DOMAIN tasks' = DOMAIN tasks
          /\ tasks'[t] \in Record /\ tasks'[t].depends_on = tasks[t].depends_on
          /\ tasks'[t].state # "pending"
          /\ tasks'[t].owner = tasks[t].owner
             \/ \E i \in 1..Len(AgentsOf(r)) : tasks'[t].owner = AgentsOf(r)[i]
          /\ \A u \in DOMAIN tasks \ {t} : tasks'[u] = tasks[u]
          /\ worked' = worked \/ worked' = worked \cup {t}
          /\ tasks'[t].state = "done" => t \in worked'
          /\ run'[r].point \in {"gate", "turn"} => run'[r].hand = t

LEMMA LoopSummary ==
  ASSUME PlanInv, NEW r \in Run, LoopStep(r)
  PROVE  /\ UNCHANGED <<team, lane>> /\ deaths' \in 0..MaxDeaths
         /\ LoopRun(r) /\ LoopTasks(r)
<1> DEFINE goal == /\ UNCHANGED <<team, lane>> /\ deaths' \in 0..MaxDeaths
                   /\ LoopRun(r) /\ LoopTasks(r)
<1>0. /\ PlanningTypeOK /\ run[r] \in RunState /\ run \in [Run -> RunState]
      /\ deaths \in 0..MaxDeaths
  BY DEF PlanInv, PlanningTypeOK
<1>1. /\ Len(AgentsOf(r)) \in Nat /\ 1 \in 1..Len(AgentsOf(r))
      /\ \A i \in 1..Len(AgentsOf(r)) : AgentsOf(r)[i] \in Agent
      /\ run[r].scan \in 1..Len(AgentsOf(r))
  BY <1>0, AgentsType DEF PlanInv, ClaimingOK
<1>2. run[r].point \in {"gate", "turn"} =>
        run[r].hand \in DOMAIN tasks /\ tasks[run[r].hand].depends_on \subseteq worked
  BY DEF PlanInv, ClaimingOK
<1>3. ASSUME NEW p \in Point \ {"new", "create"}, LetGo(r, p), Active(r)
      PROVE  LoopRun(r) /\ run'[r].point = p
  BY <1>0, <1>1, <1>3, RunLetsGo DEF LoopRun
<1>4. CASE Claim(r)
  <2> DEFINE agent == AgentsOf(r)[run[r].scan]
  <2>1. PICK t \in DOMAIN tasks :
          /\ Eligible(t, agent)
          /\ tasks' = [tasks EXCEPT ![t].state = "assigned", ![t].owner = agent]
          /\ run' = [run EXCEPT ![r].point = "gate", ![r].hand = t]
    BY <1>4 DEF Claim
  <2>2. UNCHANGED <<team, lane, worked, deaths>> /\ run[r].point = "claim"
    BY <1>4 DEF Claim
  <2>3. t \in TaskId /\ tasks[t] \in Record /\ agent \in Owner
    BY <1>0, <1>1 DEF PlanningTypeOK, Owner
  <2>4. tasks[t].depends_on \subseteq worked
    BY <2>1 DEF Eligible, PlanInv, WorkedOK
  <2> DEFINE new == [run[r] EXCEPT !.point = "gate", !.hand = t]
  <2>5. /\ new \in RunState /\ new.point = "gate" /\ new.hand = t /\ new.scan = run[r].scan
        /\ new.agent = run[r].agent /\ new.target = run[r].target /\ new.next = run[r].next
    BY <1>0, <2>3 DEF RunState, Point
  <2>6. run' = [run EXCEPT ![r] = new]
    BY <1>0, <2>1
  <2> HIDE DEF new
  <2>7. run' \in [Run -> RunState] /\ run'[r] = new /\ \A q \in Run \ {r} : run'[q] = run[q]
    BY <1>0, <2>5, <2>6
  <2>8. LoopRun(r)
    BY <1>1, <2>2, <2>5, <2>7 DEF LoopRun, Active
  <2> HIDE DEF agent
  <2>9. /\ DOMAIN tasks' = DOMAIN tasks /\ tasks'[t] \in Record
        /\ tasks'[t].depends_on = tasks[t].depends_on
        /\ tasks'[t].state = "assigned" /\ tasks'[t].owner = agent
        /\ \A u \in DOMAIN tasks \ {t} : tasks'[u] = tasks[u]
    BY <2>1, <2>3 DEF Record
  <2>10. LoopTasks(r)
    BY <1>1, <2>2, <2>4, <2>5, <2>7, <2>9 DEF LoopTasks, agent
  <2> QED
    BY <1>0, <2>2, <2>8, <2>10
<1>5. CASE FindNothing(r)
  <2>1. UNCHANGED <<team, lane, tasks, worked, deaths>> /\ run[r].point = "claim" /\ Active(r)
    BY <1>5 DEF FindNothing, Active
  <2>2. CASE IsLast(r)
    <3>1. LetGo(r, "list")
      BY <1>5, <2>2 DEF FindNothing
    <3>2. LoopRun(r) /\ run'[r].point = "list"
      BY <1>3, <2>1, <3>1 DEF Point
    <3> QED
      BY <1>0, <2>1, <3>2 DEF LoopTasks
  <2>3. CASE ~IsLast(r)
    <3>1. run' = [run EXCEPT ![r].scan = run[r].scan + 1]
      BY <1>5, <2>3 DEF FindNothing
    <3>2. run[r].scan + 1 \in 1..Len(AgentsOf(r))
      BY <1>1, <2>3 DEF IsLast
    <3>3. /\ run' \in [Run -> RunState] /\ \A q \in Run \ {r} : run'[q] = run[q]
          /\ run'[r].agent = run[r].agent /\ run'[r].target = run[r].target
          /\ run'[r].next = run[r].next /\ run'[r].point = "claim"
          /\ run'[r].scan = run[r].scan + 1
      BY <1>0, <2>1, <3>1 DEF RunState
    <3> QED
      BY <1>0, <2>1, <3>2, <3>3 DEF LoopRun, LoopTasks
  <2> QED
    BY <2>2, <2>3
\* Setting the state of the task in hand.
<1>6. ASSUME NEW s \in {"started", "paused", "done"}, SetState(run[r].hand, s),
             run[r].point \in {"gate", "turn"},
             worked' = IF s = "done" THEN worked \cup {run[r].hand} ELSE worked,
             run'[r].point \in {"gate", "turn"} => run'[r].hand = run[r].hand
      PROVE  LoopTasks(r)
  <2> DEFINE t == run[r].hand
  <2>1. t \in DOMAIN tasks /\ tasks[t].depends_on \subseteq worked
    BY <1>2, <1>6
  <2> HIDE DEF t
  <2>2. SetState(t, s)
    BY <1>6 DEF t
  <2>3. /\ DOMAIN tasks' = DOMAIN tasks
        /\ tasks'[t] \in Record /\ tasks'[t].state = s /\ tasks'[t].owner = tasks[t].owner
        /\ tasks'[t].depends_on = tasks[t].depends_on
        /\ \A u \in DOMAIN tasks \ {t} : tasks'[u] = tasks[u]
    BY <1>0, <2>1, <2>2, StateSet
  <2>4. /\ worked' = worked \/ worked' = worked \cup {t}
        /\ s = "done" => t \in worked'
        /\ run'[r].point \in {"gate", "turn"} => run'[r].hand = t
    BY <1>6 DEF t
  <2> QED
    BY <1>6, <2>1, <2>3, <2>4 DEF LoopTasks
<1>7. CASE Pause(r)
  <2>1. /\ run[r].point \in {"gate", "turn"} /\ Active(r)
        /\ SetState(run[r].hand, "paused") /\ LetGo(r, "claim")
        /\ UNCHANGED <<team, lane, worked, deaths>>
    BY <1>7 DEF Pause, Active
  <2>2. LoopRun(r) /\ run'[r].point = "claim"
    BY <1>3, <2>1 DEF Point
  <2>3. LoopTasks(r)
    BY <1>6, <2>1, <2>2
  <2> QED
    BY <1>0, <2>1, <2>2, <2>3
<1>8. CASE Halt(r)
  <2>1. LetGo(r, "halted") /\ Active(r) /\ UNCHANGED <<team, lane, tasks, worked, deaths>>
    BY <1>8 DEF Halt, Active
  <2>2. LoopRun(r) /\ run'[r].point = "halted"
    BY <1>3, <2>1 DEF Point
  <2> QED
    BY <1>0, <2>1, <2>2 DEF LoopTasks
<1>9. CASE Begin(r)
  <2>1. /\ run[r].point = "gate" /\ Active(r)
        /\ SetState(run[r].hand, "started") /\ run' = [run EXCEPT ![r].point = "turn"]
        /\ UNCHANGED <<team, lane, worked, deaths>>
    BY <1>9 DEF Begin, Active
  <2>2. /\ run' \in [Run -> RunState] /\ \A q \in Run \ {r} : run'[q] = run[q]
        /\ run'[r].agent = run[r].agent /\ run'[r].target = run[r].target
        /\ run'[r].next = run[r].next /\ run'[r].point = "turn"
        /\ run'[r].scan = run[r].scan /\ run'[r].hand = run[r].hand
    BY <1>0, <2>1 DEF RunState, Point
  <2>3. LoopRun(r)
    BY <1>1, <2>1, <2>2 DEF LoopRun
  <2>4. LoopTasks(r)
    BY <1>6, <2>1, <2>2
  <2> QED
    BY <1>0, <2>1, <2>3, <2>4
<1>10. CASE Finish(r)
  <2>1. /\ run[r].point = "turn" /\ Active(r)
        /\ SetState(run[r].hand, "done") /\ LetGo(r, "claim")
        /\ UNCHANGED <<team, lane, deaths>> /\ worked' = worked \cup {run[r].hand}
    BY <1>10 DEF Finish, Active
  <2>2. LoopRun(r) /\ run'[r].point = "claim"
    BY <1>3, <2>1 DEF Point
  <2>3. LoopTasks(r)
    BY <1>6, <2>1, <2>2
  <2> QED
    BY <1>0, <2>1, <2>2, <2>3
<1>11. CASE Return(r)
  <2>1. PICK p \in {"completed", "incomplete"} : run' = [run EXCEPT ![r].point = p]
    BY <1>11 DEF Return
  <2>2. UNCHANGED <<team, lane, tasks, worked, deaths>> /\ Active(r)
    BY <1>11 DEF Return, Active
  <2>3. /\ run' \in [Run -> RunState] /\ \A q \in Run \ {r} : run'[q] = run[q]
        /\ run'[r].agent = run[r].agent /\ run'[r].target = run[r].target
        /\ run'[r].next = run[r].next /\ run'[r].point = p
        /\ run'[r].scan = run[r].scan
    BY <1>0, <2>1 DEF RunState, Point
  <2> QED
    BY <1>0, <1>1, <2>2, <2>3 DEF LoopRun, LoopTasks
<1>12. CASE Die(r)
  <2>1. /\ LetGo(r, "dead") /\ Active(r) /\ UNCHANGED <<team, lane, tasks, worked>>
        /\ deaths < MaxDeaths /\ deaths' = deaths + 1
    BY <1>12 DEF Die
  <2>2. LoopRun(r) /\ run'[r].point = "dead"
    BY <1>3, <2>1 DEF Point
  <2>3. deaths' \in 0..MaxDeaths
    BY <1>0, <2>1, PlanningAssumption
  <2> QED
    BY <2>1, <2>2, <2>3 DEF LoopTasks
<1> QED
  BY <1>4, <1>5, <1>7, <1>8, <1>9, <1>10, <1>11, <1>12 DEF LoopStep

LEMMA LoopPlan ==
  ASSUME PlanInv, NEW r \in Run, LoopStep(r)
  PROVE  PlanInv'
<1>1. UNCHANGED <<team, lane>> /\ deaths' \in 0..MaxDeaths /\ LoopRun(r) /\ LoopTasks(r)
  BY LoopSummary
<1>2. /\ DOMAIN tasks' = DOMAIN tasks
      /\ \A t \in DOMAIN tasks :
           tasks'[t] \in Record /\ tasks'[t].depends_on = tasks[t].depends_on
      /\ worked \subseteq worked' /\ worked' \subseteq DOMAIN tasks
      /\ \A t \in DOMAIN tasks : tasks'[t].state = "done" => t \in worked'
      /\ \A t \in worked' : tasks[t].depends_on \subseteq worked'
      /\ run'[r].point \in {"gate", "turn"} =>
           run'[r].hand \in DOMAIN tasks /\ tasks[run'[r].hand].depends_on \subseteq worked'
  <2>1. /\ worked \subseteq DOMAIN tasks
        /\ \A t \in DOMAIN tasks : tasks[t] \in Record /\ (tasks[t].state = "done" => t \in worked)
        /\ \A t \in worked : tasks[t].depends_on \subseteq worked
    BY DEF PlanInv, PlanningTypeOK, WorkedOK
  <2> QED
    BY <1>1, <2>1 DEF LoopTasks
<1>3. PlanningTypeOK'
  <2>1. DOMAIN tasks \subseteq TaskId
    BY DEF PlanInv, PlanningTypeOK
  <2> QED
    BY <1>1, <1>2, <2>1 DEF PlanInv, PlanningTypeOK, LoopRun
<1>4. /\ \A q \in Run : CreatingOK(q)'
      /\ \A t \in DOMAIN tasks' : StoredOK(t)'
  <2>1. \A q \in Run : /\ run'[q].target = run[q].target /\ run'[q].next = run[q].next
                       /\ run'[q].point \in {"new", "create"} => run'[q] = run[q]
    BY <1>1 DEF LoopRun
  <2> QED
    BY <1>1, <1>2, <1>3, <2>1, GraphsStay
<1>5. WorkedOK'
  BY <1>2 DEF WorkedOK
<1>6. ASSUME NEW q \in Run PROVE ClaimingOK(q)'
  <2>1. AgentsOf(q)' = AgentsOf(q)
    BY <1>1, AgentsStay DEF LoopRun
  <2>2. CASE q = r
    BY <1>1, <1>2, <2>1, <2>2 DEF LoopRun, ClaimingOK
  <2>3. CASE q # r
    BY <1>1, <1>2, <2>1, <2>3 DEF LoopRun, ClaimingOK, PlanInv
  <2> QED
    BY <2>2, <2>3
<1> QED
  BY <1>3, <1>4, <1>5, <1>6 DEF PlanInv

\* What the people at the command line do: one task's state, and nothing else.
LEMMA PeopleSummary ==
  ASSUME PlanInv, NEW t \in DOMAIN tasks, Cancel(t) \/ Release(t)
  PROVE  /\ UNCHANGED <<team, lane, run, worked, deaths>> /\ DOMAIN tasks' = DOMAIN tasks
         /\ tasks'[t] \in Record /\ tasks'[t].state \in {"cancelled", "pending"}
         /\ tasks'[t].state = "pending" => Release(t)
         /\ tasks'[t].owner = tasks[t].owner /\ tasks'[t].depends_on = tasks[t].depends_on
         /\ \A u \in DOMAIN tasks \ {t} : tasks'[u] = tasks[u]
<1>1. PICK s \in {"cancelled", "pending"} : SetState(t, s) /\ (s = "pending" => Release(t))
  BY DEF Cancel, Release
<1>2. UNCHANGED <<team, lane, run, worked, deaths>>
  BY DEF Cancel, Release
<1>3. /\ DOMAIN tasks' = DOMAIN tasks
      /\ tasks'[t] \in Record /\ tasks'[t].state = s /\ tasks'[t].owner = tasks[t].owner
      /\ tasks'[t].depends_on = tasks[t].depends_on
      /\ \A u \in DOMAIN tasks \ {t} : tasks'[u] = tasks[u]
  BY <1>1, StateSet DEF PlanInv
<1> QED
  BY <1>1, <1>2, <1>3

LEMMA PeoplePlan ==
  ASSUME PlanInv, NEW t \in DOMAIN tasks, Cancel(t) \/ Release(t)
  PROVE  PlanInv'
<1>1. /\ UNCHANGED <<team, lane, run, worked, deaths>> /\ DOMAIN tasks' = DOMAIN tasks
      /\ tasks'[t] \in Record /\ tasks'[t].state # "done"
      /\ tasks'[t].depends_on = tasks[t].depends_on
      /\ \A u \in DOMAIN tasks \ {t} : tasks'[u] = tasks[u]
  BY PeopleSummary
<1>2. PlanningTypeOK'
  BY <1>1 DEF PlanInv, PlanningTypeOK
<1>3. /\ \A q \in Run : CreatingOK(q)'
      /\ \A u \in DOMAIN tasks' : StoredOK(u)'
  <2>1. \A u \in DOMAIN tasks : tasks'[u].depends_on = tasks[u].depends_on
    BY <1>1
  <2> QED
    BY <1>1, <1>2, <2>1, GraphsStay
<1>4. WorkedOK'
  BY <1>1 DEF PlanInv, WorkedOK
<1>5. \A q \in Run : ClaimingOK(q)'
  <2>1. \A q \in Run : AgentsOf(q)' = AgentsOf(q)
    BY <1>1, AgentsStay
  <2> QED
    BY <1>1, <2>1 DEF PlanInv, ClaimingOK
<1> QED
  BY <1>2, <1>3, <1>4, <1>5 DEF PlanInv

\* Every step is a run's beginning, one of its creations, a step of its loop, or a
\* person's.
LEMMA Steps ==
  ASSUME Next
  PROVE  \/ \E r \in Run : Start(r) \/ Create(r) \/ LoopStep(r)
         \/ \E t \in DOMAIN tasks : Cancel(t) \/ Release(t)
BY DEF Next, RunStep, LoopStep

LEMMA PlanStep ==
  ASSUME PlanInv, [Next]_vars
  PROVE  PlanInv'
<1>1. CASE Next
  BY <1>1, Steps, StartPlan, CreatePlan, LoopPlan, PeoplePlan
<1>2. CASE UNCHANGED vars
  BY <1>2 DEF vars, PlanInv, PlanningTypeOK, CreatingOK, ClaimingOK, StoredOK, WorkedOK,
               GraphOf, AgentsOf
<1> QED
  BY <1>1, <1>2

LEMMA PlanIsInvariant == Spec => []PlanInv
<1>1. PlanInv /\ [Next]_vars => PlanInv'
  BY PlanStep
<1> QED
  BY <1>1, InitPlan, PTL DEF Spec

\* Whichever run creates the graph, and wherever it dies, no stored task waits
\* for one that is not stored: the tasks come in an order that puts each after
\* those it depends on.
THEOREM GraphsAreClosed == Spec => []PlanningInv
<1>1. ASSUME PlanInv PROVE PlanningInv
  <2> SUFFICES ASSUME NEW t \in DOMAIN tasks, NEW u \in tasks[t].depends_on
               PROVE  u \in DOMAIN tasks
    BY <1>1 DEF PlanInv, PlanningInv, DependenciesStored
  <2>1. t \in TaskId /\ StoredOK(t)
    BY <1>1 DEF PlanInv, PlanningTypeOK
  <2> DEFINE g == GraphOf(t[1])
  <2>2. IsGraph(g)
    BY <1>1, <2>1, TaskIdFacts, RunGraph DEF PlanInv
  <2> HIDE DEF g
  <2>3. PICK d \in g[t[2]].depends_on : u = <<t[1], d>>
    BY <2>1 DEF StoredOK, g
  <2>4. d \in 1..t[2]
    BY <2>1, <2>2, <2>3 DEF IsGraph, StoredOK, g
  <2> QED
    BY <2>1, <2>3, <2>4 DEF StoredOK
<1> QED
  BY <1>1, PlanIsInvariant, PTL

-----------------------------------------------------------------------------
(***************************************************************************)
(* The order of the work.                                                  *)
(***************************************************************************)
LEMMA WorkedDeps ==
  ASSUME PlanInv, NEW t \in worked
  PROVE  /\ t \in TaskId
         /\ t[2] \in 1..Len(GraphOf(t[1]))
         /\ \A d \in GraphOf(t[1])[t[2]].depends_on : <<t[1], d>> \in worked
<1>1. t \in DOMAIN tasks /\ tasks[t].depends_on \subseteq worked
  BY DEF PlanInv, WorkedOK
<1> QED
  BY <1>1 DEF PlanInv, PlanningTypeOK, StoredOK

LEMMA PipelineOrder ==
  ASSUME PlanInv, NEW t \in worked,
         GraphOf(t[1]) = PlanTasks(team), team.pattern = "pipeline",
         NEW i \in 1..t[2]
  PROVE  <<t[1], i>> \in worked
<1> DEFINE r == t[1]
           n == t[2]
           g == GraphOf(t[1])
           K == {k \in Nat : k < n => <<r, n - k>> \in worked}
<1>1. r \in Run /\ n \in Nat \ {0} /\ t = <<r, n>>
  BY WorkedDeps, TaskIdFacts
<1>2. \A j \in 1..Len(g) : j # 1 => g[j].depends_on = {j - 1}
  <2>1. team \in Team /\ g = PipelineTasks(team)
    BY PlanningAssumption DEF PlanInv, PlanningTypeOK, PlanTasks
  <2> QED
    BY <2>1, PipelineGraph
<1> HIDE DEF r, n, g
<1>3. 0 \in K
  BY <1>1
<1>4. ASSUME NEW k \in K PROVE k + 1 \in K
  <2> SUFFICES ASSUME k + 1 < n PROVE <<r, n - (k + 1)>> \in worked
    OBVIOUS
  <2> DEFINE u == <<r, n - k>>
  <2>1. u \in worked /\ u[1] = r /\ u[2] = n - k /\ n - k # 1 /\ n - (k + 1) = (n - k) - 1
    BY <1>1
  <2> HIDE DEF u
  <2>2. u[2] \in 1..Len(g) /\ \A d \in g[u[2]].depends_on : <<r, d>> \in worked
    BY <2>1, WorkedDeps DEF g, r
  <2> QED
    BY <1>2, <2>1, <2>2
<1>5. n - i \in K
  <2>1. K \subseteq Nat /\ n - i \in Nat
    BY <1>1 DEF n
  <2> HIDE DEF K
  <2> QED
    BY <1>3, <1>4, <2>1, SetInduction
<1> QED
  BY <1>1, <1>5 DEF r, n

\* The lead synthesises after every implementer has worked, and the last stage
\* of a pipeline runs after all the others, whatever deaths, new runs and
\* cancellations come between.
THEOREM LastTaskSeesAll == Spec => []LastSeesAll
<1>1. ASSUME PlanInv PROVE LastSeesAll
  <2> SUFFICES ASSUME NEW t \in worked, run[t[1]].target = NoAgent, team.pattern # "swarm",
                      t[2] = Len(PlanTasks(team)), NEW i \in 1..Len(PlanTasks(team))
               PROVE  <<t[1], i>> \in worked
    BY DEF LastSeesAll
  <2>1. t \in TaskId /\ t[2] \in Nat \ {0} /\ t = <<t[1], t[2]>>
    BY <1>1, WorkedDeps, TaskIdFacts
  <2>2. GraphOf(t[1]) = PlanTasks(team)
    BY DEF GraphOf
  <2>3. team \in Team
    BY <1>1, PlanningAssumption DEF PlanInv, PlanningTypeOK
  <2>4. CASE team.pattern = "pipeline"
    BY <1>1, <2>2, <2>4, PipelineOrder
  <2>5. CASE team.pattern = "lead-and-teammates"
    <3> DEFINE g == PlanTasks(team)
    <3>1. g[t[2]].depends_on = 1..(t[2] - 1)
      BY <2>3, <2>5, LeadGraph DEF PlanTasks
    <3>2. \A d \in 1..(t[2] - 1) : <<t[1], d>> \in worked
      BY <1>1, <2>2, <3>1, WorkedDeps
    <3>3. i \in 1..(t[2] - 1) \/ i = t[2]
      BY <2>1
    <3> QED
      BY <2>1, <3>2, <3>3
  <2> QED
    BY <2>3, <2>4, <2>5 DEF Team, Pattern
<1> QED
  BY <1>1, PlanIsInvariant, PTL

-----------------------------------------------------------------------------
(***************************************************************************)
(* One plan.                                                               *)
(***************************************************************************)
\* Only planners create tasks, and only where there are no others.
PlannerAlone ==
  /\ \A r \in Run :
       run[r].point = "create" => Plans(run[r].agent) /\ \A t \in DOMAIN tasks : t[1] = r
  /\ PlannedOnce

LEMMA AloneStep ==
  ASSUME PlanInv, PlannerAlone, PlannersApart, [Next]_vars
  PROVE  PlannerAlone'
<1>1. ASSUME NEW r \in Run, Start(r) PROVE PlannerAlone'
  <2>1. PICK mode \in Mode :
          run' = [run EXCEPT ![r] =
                    [mode EXCEPT !.point =
                       IF Plans(mode.agent) /\ NothingStored THEN "create" ELSE Planned(mode)]]
    BY <1>1 DEF Start
  <2>2. UNCHANGED <<team, lane, tasks>> /\ mode \in RunState
    BY <1>1, ModeType DEF Start, PlanInv
  <2>3. /\ run'[r].agent = mode.agent
        /\ run'[r].point = "create" => Plans(mode.agent) /\ NothingStored
        /\ \A q \in Run \ {r} : run'[q] = run[q]
    BY <2>1, <2>2 DEF PlanInv, PlanningTypeOK, Planned, RunState
  <2> QED
    BY <2>2, <2>3 DEF PlannerAlone, PlannedOnce, NothingStored, Plans
<1>2. ASSUME NEW r \in Run, Create(r) PROVE PlannerAlone'
  <2>1. /\ run[r].point = "create" /\ UNCHANGED <<team, lane>>
        /\ DOMAIN tasks' = DOMAIN tasks \cup {<<r, run[r].next>>}
    BY <1>2 DEF Create
  <2>2. \A q \in Run : /\ run'[q].agent = run[q].agent
                       /\ run'[q].point = "create" => run[q].point = "create"
    BY <1>2 DEF Create, PlanInv, PlanningTypeOK, RunState, Planned
  <2>3. \A q \in Run : run[q].point = "create" => q = r
    BY <2>1 DEF PlannerAlone, PlannersApart, Plans, Active
  <2>4. \A t \in DOMAIN tasks' : t[1] = r
    BY <2>1 DEF PlannerAlone
  <2> QED
    BY <2>1, <2>2, <2>3, <2>4 DEF PlannerAlone, PlannedOnce, Plans
<1>3. ASSUME NEW r \in Run, LoopStep(r) PROVE PlannerAlone'
  <2>1. UNCHANGED <<team, lane>> /\ LoopRun(r) /\ LoopTasks(r)
    BY <1>3, LoopSummary
  <2>2. DOMAIN tasks' = DOMAIN tasks
    BY <2>1 DEF LoopTasks
  <2> QED
    BY <2>1, <2>2 DEF LoopRun, PlannerAlone, PlannedOnce, Plans
<1>4. ASSUME NEW t \in DOMAIN tasks, Cancel(t) \/ Release(t) PROVE PlannerAlone'
  <2>1. UNCHANGED <<team, run>> /\ DOMAIN tasks' = DOMAIN tasks
    BY <1>4, PeopleSummary
  <2> QED
    BY <2>1 DEF PlannerAlone, PlannedOnce, Plans
<1>5. ASSUME UNCHANGED vars PROVE PlannerAlone'
  BY <1>5 DEF vars, PlannerAlone, PlannedOnce, Plans
<1> QED
  BY <1>1, <1>2, <1>3, <1>4, <1>5, Steps

\* As long as no two planners are at it at a time, all stored tasks come from one
\* plan: however often planners die half-way and come back, whatever a later run
\* wants and whomever it is addressed to.
THEOREM OnePlanOnly == Spec /\ []PlannersApart => []PlannedOnce
<1>1. Init => PlannerAlone
  BY NewRunType DEF Init, PlannerAlone, PlannedOnce
<1>2. PlanInv /\ PlannerAlone /\ PlannersApart /\ [Next]_vars => PlannerAlone'
  BY AloneStep
<1>3. PlannerAlone => PlannedOnce
  BY DEF PlannerAlone
<1> QED
  BY <1>1, <1>2, <1>3, PlanIsInvariant, PTL DEF Spec

-----------------------------------------------------------------------------
(***************************************************************************)
(* What an incomplete run leaves behind.                                   *)
(***************************************************************************)
\* What validate demands of a spec: lead and stages name agents of the team.
NamesAreMembers ==
  \A tm \in Teams :
    /\ tm.lead \in Members(tm) \cup {NoAgent}
    /\ \A i \in DOMAIN tm.stages : tm.stages[i] \in Members(tm)

Somebody(agent) == agent \in Members(team) \cup {NoAgent}

\* A team of any kind whose lead and stages are agents of it.
NamesItsMembers(tm) ==
  /\ tm.pattern \in Pattern /\ tm.agents \in Seq(Agent) /\ tm.agents # <<>>
  /\ tm.lead \in Members(tm) \cup {NoAgent}
  /\ tm.stages \in Seq(Agent) /\ \A j \in DOMAIN tm.stages : tm.stages[j] \in Members(tm)

\* Its graph has work for agents of the team alone, and none but those review.
LEMMA GraphMembers ==
  ASSUME NEW tm, NamesItsMembers(tm)
  PROVE  /\ DOMAIN PlanTasks(tm) = 1..Len(PlanTasks(tm))
         /\ \A i \in 1..Len(PlanTasks(tm)) :
              /\ PlanTasks(tm)[i].owner \in Members(tm) \cup {NoAgent}
              /\ PlanTasks(tm)[i].reviewer \in Members(tm) \cup {NoAgent}
<1>1. /\ tm.pattern \in Pattern /\ tm.agents \in Seq(Agent) /\ tm.agents # <<>>
      /\ tm.stages \in Seq(Agent) /\ tm.lead \in Members(tm) \cup {NoAgent}
  BY DEF NamesItsMembers
<1>2. /\ Len(tm.agents) \in Nat /\ Len(tm.agents) >= 1 /\ DOMAIN tm.agents = 1..Len(tm.agents)
      /\ \A j \in 1..Len(tm.agents) : tm.agents[j] \in Members(tm)
  BY <1>1, SeqFacts DEF Members
<1>3. tm.agents \in Seq(Members(tm))
  BY <1>1, <1>2
<1>4. CASE tm.pattern = "pipeline"
  <2>1. \A j \in DOMAIN StagesOf(tm) : StagesOf(tm)[j] \in Members(tm)
    BY <1>2 DEF StagesOf, NamesItsMembers
  <2>2. Len(PipelineTasks(tm)) = Len(StagesOf(tm)) /\ DOMAIN StagesOf(tm) = 1..Len(StagesOf(tm))
    BY <1>1, SeqFacts DEF PipelineTasks, StagesOf
  <2> QED
    BY <1>4, <2>1, <2>2 DEF PlanTasks, PipelineTasks, PlannedTask
<1>5. CASE tm.pattern = "swarm"
  <2>1. Len(SwarmTasks(tm)) = Len(tm.agents)
    BY <1>1, <1>2 DEF SwarmTasks
  <2> QED
    BY <1>2, <1>5, <2>1 DEF PlanTasks, SwarmTasks, PlannedTask
<1>6. CASE tm.pattern = "lead-and-teammates"
  <2> DEFINE mates == Implementers(tm)
             work == [j \in DOMAIN mates |-> PlannedTask(mates[j], ReviewerOf(tm), {})]
             last == Synthesis(tm)
  <2>1. /\ mates \in Seq(Members(tm)) /\ Len(mates) \in Nat /\ DOMAIN mates = 1..Len(mates)
        /\ \A j \in 1..Len(mates) : mates[j] \in Members(tm)
    <3>1. mates \in Seq(Members(tm))
      BY <1>1, <1>3, ImplementersType
    <3> HIDE DEF mates
    <3> QED
      BY <3>1, SeqFacts
  <2>2. last.owner \in Members(tm) /\ last.reviewer = NoAgent
    BY <1>1, <1>2 DEF Synthesis, PlannedTask, LeadOf
  <2>a. ReviewerOf(tm) \in Members(tm) \cup {NoAgent}
    BY DEF ReviewerOf
  <2> HIDE DEF mates
  <2> DEFINE S == {last} \cup {work[j] : j \in 1..Len(mates)}
  <2>3. /\ work \in Seq(S) /\ Len(work) = Len(mates)
        /\ \A j \in 1..Len(mates) :
             work[j].owner \in Members(tm) /\ work[j].reviewer = ReviewerOf(tm)
    <3>1. work = [j \in 1..Len(mates) |-> PlannedTask(mates[j], ReviewerOf(tm), {})]
      BY <2>1
    <3>2. \A j \in 1..Len(mates) :
            /\ work[j].owner \in Members(tm) /\ work[j].reviewer = ReviewerOf(tm)
            /\ work[j] \in S
      BY <2>1, <3>1 DEF PlannedTask
    <3>3. work = [j \in 1..Len(mates) |-> work[j]]
      BY <3>1
    <3> HIDE DEF work, S
    <3>4. work \in Seq(S) /\ Len(work) = Len(mates)
      BY <2>1, <3>2, <3>3
    <3> QED
      BY <3>2, <3>4
  <2>4. PlanTasks(tm) = work \o <<last>>
    BY <1>6 DEF PlanTasks, LeadTasks, mates
  <2>5. last \in S
    OBVIOUS
  <2> HIDE DEF work, last, S
  <2>6. /\ Len(work \o <<last>>) = Len(mates) + 1
        /\ \A j \in 1..Len(mates) : (work \o <<last>>)[j] = work[j]
        /\ (work \o <<last>>)[Len(mates) + 1] = last
        /\ DOMAIN (work \o <<last>>) = 1..(Len(mates) + 1)
    BY <2>1, <2>3, <2>5
  <2>7. \A i \in 1..Len(PlanTasks(tm)) : i \in 1..Len(mates) \/ i = Len(mates) + 1
    BY <2>1, <2>4, <2>6
  <2> QED
    BY <2>2, <2>a, <2>3, <2>4, <2>6, <2>7
<1> QED
  BY <1>1, <1>4, <1>5, <1>6 DEF Pattern

\* Tasks and runs belong to members, and a lane has runs of its own kind.
OwnersInv ==
  /\ \A t \in DOMAIN tasks : Somebody(tasks[t].owner)
  /\ \A r \in Run :
       /\ Somebody(run[r].agent) /\ Somebody(run[r].target)
       /\ run[r].point # "new" => (run[r].agent = NoAgent <=> lane = "local")

LEMMA AgentsAreMembers ==
  ASSUME PlanInv, OwnersInv, NEW r \in Run, NEW i \in 1..Len(AgentsOf(r))
  PROVE  Somebody(AgentsOf(r)[i])
<1>1. DOMAIN team.agents = 1..Len(team.agents)
  BY SeqFacts, PlanningAssumption DEF PlanInv, PlanningTypeOK, Team
<1>2. Somebody(run[r].agent) /\ Somebody(run[r].target)
  BY DEF OwnersInv
<1>3. CASE AgentsOf(r) = team.agents
  BY <1>1, <1>3 DEF Somebody, Members
<1>4. ASSUME NEW a, AgentsOf(r) = <<a>>, Somebody(a) PROVE Somebody(AgentsOf(r)[i])
  BY <1>4
<1> QED
  BY <1>2, <1>3, <1>4 DEF AgentsOf

LEMMA OwnersStep ==
  ASSUME NamesAreMembers, PlanInv, OwnersInv, [Next]_vars
  PROVE  OwnersInv'
<1>0. /\ run \in [Run -> RunState] /\ lane \in {"local", "cluster"} /\ team \in Teams
      /\ team \in Team /\ Members(team) \subseteq Agent /\ NoAgent \notin Agent
  BY PlanningAssumption, PatternsAssumption, MembersType DEF PlanInv, PlanningTypeOK
<1>1. ASSUME NEW r \in Run, Start(r) PROVE OwnersInv'
  <2>1. PICK mode \in Mode :
          run' = [run EXCEPT ![r] =
                    [mode EXCEPT !.point =
                       IF Plans(mode.agent) /\ NothingStored THEN "create" ELSE Planned(mode)]]
    BY <1>1 DEF Start
  <2>2. UNCHANGED <<team, lane, tasks>>
    BY <1>1 DEF Start
  <2>3. /\ mode \in RunState /\ Somebody(mode.agent) /\ Somebody(mode.target)
        /\ mode.agent = NoAgent <=> lane = "local"
    BY <1>0, ModeType DEF Somebody, PlanInv
  <2>4. /\ run'[r].agent = mode.agent /\ run'[r].target = mode.target
        /\ \A q \in Run \ {r} : run'[q] = run[q]
    BY <1>0, <2>1, <2>3 DEF RunState
  <2> QED
    BY <2>2, <2>3, <2>4 DEF OwnersInv, Somebody
<1>2. ASSUME NEW r \in Run, Create(r) PROVE OwnersInv'
  <2> DEFINE i == run[r].next
             g == GraphOf(r)
  <2>1. /\ UNCHANGED <<team, lane>> /\ run[r].point = "create"
        /\ DOMAIN tasks' = DOMAIN tasks \cup {<<r, i>>}
        /\ tasks'[<<r, i>>].owner = g[i].owner
        /\ \A t \in DOMAIN tasks : t # <<r, i>> => tasks'[t] = tasks[t]
        /\ \A q \in Run : run'[q].agent = run[q].agent /\ run'[q].target = run[q].target
        /\ \A q \in Run : run'[q].point = "new" <=> run[q].point = "new"
    BY <1>0, <1>2 DEF Create, RunState, Planned
  <2>2. i \in 1..Len(g)
    BY <2>1 DEF PlanInv, CreatingOK
  <2>3. Somebody(g[i].owner)
    <3>1. CASE run[r].target = NoAgent
      <4>1. NamesItsMembers(team)
        BY <1>0 DEF NamesAreMembers, NamesItsMembers, Team
      <4> QED
        BY <2>2, <3>1, <4>1, GraphMembers DEF GraphOf, Somebody
    <3>2. CASE run[r].target # NoAgent
      <4>1. i = 1 /\ g[i] = PlannedTask(run[r].target, NoAgent, {})
        BY <2>2, <3>2 DEF GraphOf
      <4> HIDE DEF g, i
      <4> QED
        BY <4>1 DEF PlannedTask, OwnersInv
    <3> QED
      BY <3>1, <3>2
  <2> HIDE DEF g, i
  <2> QED
    BY <2>1, <2>3 DEF OwnersInv, Somebody
<1>3. ASSUME NEW r \in Run, LoopStep(r) PROVE OwnersInv'
  <2>1. UNCHANGED <<team, lane>> /\ LoopRun(r) /\ LoopTasks(r)
    BY <1>3, LoopSummary
  <2>2. \A i \in 1..Len(AgentsOf(r)) : Somebody(AgentsOf(r)[i])
    BY AgentsAreMembers
  <2>3. \A t \in DOMAIN tasks' : Somebody(tasks'[t].owner)
    BY <2>1, <2>2 DEF LoopTasks, OwnersInv
  <2> QED
    BY <2>1, <2>3 DEF LoopRun, OwnersInv, Somebody, Active
<1>4. ASSUME NEW t \in DOMAIN tasks, Cancel(t) \/ Release(t) PROVE OwnersInv'
  <2>1. /\ UNCHANGED <<team, lane, run>> /\ DOMAIN tasks' = DOMAIN tasks
        /\ \A u \in DOMAIN tasks : tasks'[u].owner = tasks[u].owner
    BY <1>4, PeopleSummary
  <2> QED
    BY <2>1 DEF OwnersInv, Somebody
<1>5. ASSUME UNCHANGED vars PROVE OwnersInv'
  BY <1>5 DEF vars, OwnersInv, Somebody
<1> QED
  BY <1>1, <1>2, <1>3, <1>4, <1>5, Steps

\* If no pending task can be claimed for any agent of the team, each waits for a
\* stuck one: its graph leads down to one.
LEMMA PendingAreBlocked ==
  ASSUME PlanInv, OwnersInv,
         \A u \in DOMAIN tasks, i \in 1..Len(team.agents) :
           tasks[u].state = "pending" => ~Eligible(u, team.agents[i]),
         NEW t \in DOMAIN tasks, tasks[t].state = "pending"
  PROVE  Blocked(t)
<1> SUFFICES ASSUME NEW S \in SUBSET DOMAIN tasks, t \in S,
                    \A u \in S : tasks[u].depends_on \subseteq S,
                    \A u \in S : ~Stuck(u)
             PROVE  FALSE
  BY DEF Blocked
<1> DEFINE K == {n \in Nat : \A u \in S : u[2] <= n => tasks[u].state # "pending"}
<1>1. \A u \in DOMAIN tasks :
        /\ u \in TaskId /\ u[2] \in Nat \ {0}
        /\ Stuck(u) \/ tasks[u].state \in {"pending", "done"}
        /\ \A d \in tasks[u].depends_on : d[2] < u[2]
  <2> SUFFICES ASSUME NEW u \in DOMAIN tasks
               PROVE  /\ u \in TaskId /\ u[2] \in Nat \ {0}
                      /\ Stuck(u) \/ tasks[u].state \in {"pending", "done"}
                      /\ \A d \in tasks[u].depends_on : d[2] < u[2]
    OBVIOUS
  <2>1. u \in TaskId /\ u[1] \in Run /\ u[2] \in Nat \ {0} /\ tasks[u] \in Record
    BY TaskIdFacts DEF PlanInv, PlanningTypeOK
  <2> DEFINE g == GraphOf(u[1])
  <2>2. IsGraph(g)
    BY <2>1, RunGraph DEF PlanInv
  <2>3. u[2] \in 1..Len(g) /\ tasks[u].depends_on = {<<u[1], d>> : d \in g[u[2]].depends_on}
    BY DEF PlanInv, StoredOK
  <2> HIDE DEF g
  <2>4. \A d \in g[u[2]].depends_on : d < u[2]
    BY <2>1, <2>2, <2>3 DEF IsGraph
  <2>5. Stuck(u) \/ tasks[u].state \in {"pending", "done"}
    BY <2>1 DEF Record, Stuck
  <2> QED
    BY <2>1, <2>3, <2>4, <2>5
<1>2. \A u \in DOMAIN tasks : \E i \in 1..Len(team.agents) : tasks[u].owner \in {NoAgent, team.agents[i]}
  <2>1. team.agents \in Seq(Agent) /\ team.agents # <<>>
    BY PlanningAssumption DEF PlanInv, PlanningTypeOK, Team
  <2>2. DOMAIN team.agents = 1..Len(team.agents) /\ 1 \in 1..Len(team.agents)
    BY <2>1, SeqFacts
  <2> QED
    BY <2>2 DEF OwnersInv, Somebody, Members
<1>3. \A u \in DOMAIN tasks : tasks[u].state = "pending" =>
        \E d \in tasks[u].depends_on : d \notin DOMAIN tasks \/ tasks[d].state # "done"
  BY <1>2 DEF Eligible
<1>4. 0 \in K
  BY <1>1
<1>5. ASSUME NEW n \in K PROVE n + 1 \in K
  <2> SUFFICES ASSUME NEW u \in S, u[2] <= n + 1, tasks[u].state = "pending"
               PROVE  FALSE
    OBVIOUS
  <2>1. tasks[u].depends_on \subseteq S
    OBVIOUS
  <2>2. PICK d \in tasks[u].depends_on : d \notin DOMAIN tasks \/ tasks[d].state # "done"
    BY <1>3
  <2>3. d \in S /\ d \in DOMAIN tasks /\ tasks[d].state = "pending" /\ d[2] < u[2]
    BY <1>1, <2>1, <2>2
  <2>4. d[2] <= n
    BY <1>1, <2>3
  <2> QED
    BY <2>3, <2>4
<1>6. t[2] \in K
  <2>1. K \subseteq Nat /\ t[2] \in Nat
    BY <1>1
  <2> HIDE DEF K
  <2> QED
    BY <1>4, <1>5, <2>1, SetInduction
<1>7. t[2] <= t[2]
  BY <1>1
<1> QED
  BY <1>6, <1>7

\* While a run of the whole team goes through its agents, nothing is pending that
\* those it has asked for could be given.
SweptOK ==
  \A r \in Run :
    WholeTeam(r) /\ run[r].point = "claim" =>
      \A i \in 1..(run[r].scan - 1), t \in DOMAIN tasks :
        tasks[t].state = "pending" => ~Eligible(t, team.agents[i])

LEMMA SweptStep ==
  ASSUME PlanInv, OwnersInv, SweptOK, PlannersApart, [ReleasedInTime]_vars, [Next]_vars
  PROVE  SweptOK'
<1>0. run \in [Run -> RunState]
  BY DEF PlanInv, PlanningTypeOK
<1>1. \A q, r \in Run : Active(q) /\ WholeTeam(r) /\ run[r].point = "claim" => q = r
  BY DEF OwnersInv, PlannersApart, Plans, WholeTeam, Active
<1>2. ASSUME NEW r \in Run, Start(r) PROVE SweptOK'
  <2>1. PICK mode \in Mode :
          run' = [run EXCEPT ![r] =
                    [mode EXCEPT !.point =
                       IF Plans(mode.agent) /\ NothingStored THEN "create" ELSE Planned(mode)]]
    BY <1>2 DEF Start
  <2>2. UNCHANGED <<team, tasks>> /\ mode \in RunState /\ mode.scan = 1
    BY <1>2, ModeType DEF Start, PlanInv
  <2>3. run'[r].scan = 1 /\ \A q \in Run \ {r} : run'[q] = run[q]
    BY <1>0, <2>1, <2>2 DEF RunState
  <2> QED
    BY <2>2, <2>3 DEF SweptOK, WholeTeam, Eligible
<1>3. ASSUME NEW r \in Run, Create(r) PROVE SweptOK'
  <2>1. /\ run[r].point = "create" /\ UNCHANGED team
        /\ \A q \in Run \ {r} : run'[q] = run[q]
        /\ run'[r].agent = run[r].agent /\ run'[r].target = run[r].target
        /\ run'[r].scan = run[r].scan
    BY <1>0, <1>3 DEF Create, RunState
  <2>2. \A q \in Run \ {r} : ~(WholeTeam(q) /\ run[q].point = "claim")
    BY <1>1, <2>1 DEF Active
  <2>3. run[r].scan = 1
    BY <2>1 DEF PlanInv, CreatingOK
  <2> QED
    BY <2>1, <2>2, <2>3 DEF SweptOK, WholeTeam
<1>4. ASSUME NEW r \in Run, LoopStep(r) PROVE SweptOK'
  <2>1. UNCHANGED team /\ LoopRun(r) /\ LoopTasks(r)
    BY <1>4, LoopSummary
  <2>2. \A q \in Run \ {r} : ~(WholeTeam(q) /\ run'[q].point = "claim")
    BY <1>1, <2>1 DEF LoopRun, WholeTeam
  <2>3. ASSUME WholeTeam(r), run'[r].point = "claim", run'[r].scan # 1
        PROVE  /\ UNCHANGED tasks /\ run[r].point = "claim" /\ run'[r].scan = run[r].scan + 1
               /\ \A t \in DOMAIN tasks : tasks[t].state = "pending" =>
                    ~Eligible(t, team.agents[run[r].scan])
    <3>1. FindNothing(r) /\ ~IsLast(r)
      <4>1. \A p \in Point : LetGo(r, p) => run'[r].scan = 1
        BY RunLetsGo DEF PlanInv
      <4>2. ~Claim(r) /\ ~Begin(r) /\ ~Return(r)
        BY <1>0, <2>3 DEF Claim, Begin, Return, PlanInv, PlanningTypeOK, RunState
      <4> QED
        BY <1>4, <2>3, <4>1, <4>2 DEF LoopStep, Pause, Halt, Finish, Die, FindNothing, Point
    <3>2. run' = [run EXCEPT ![r].scan = run[r].scan + 1]
      BY <3>1 DEF FindNothing
    <3>3. run'[r].scan = run[r].scan + 1
      BY <1>0, <3>2 DEF RunState
    <3>4. AgentsOf(r) = team.agents
      BY <2>3 DEF WholeTeam, AgentsOf
    <3> QED
      BY <3>1, <3>3, <3>4 DEF FindNothing
  <2>4. ASSUME WholeTeam(r), run'[r].point = "claim"
        PROVE  \A i \in 1..(run'[r].scan - 1), t \in DOMAIN tasks' :
                 tasks'[t].state = "pending" => ~Eligible(t, team.agents[i])'
    <3>1. CASE run'[r].scan = 1
      BY <3>1
    <3>2. CASE run'[r].scan # 1
      <4>1. /\ UNCHANGED tasks /\ run[r].point = "claim" /\ run'[r].scan = run[r].scan + 1
            /\ \A t \in DOMAIN tasks : tasks[t].state = "pending" =>
                 ~Eligible(t, team.agents[run[r].scan])
        BY <2>3, <2>4, <3>2
      <4>2. run[r].scan \in Nat
        BY <1>0 DEF RunState
      <4>3. \A i \in 1..(run'[r].scan - 1) : i \in 1..(run[r].scan - 1) \/ i = run[r].scan
        BY <4>1, <4>2
      <4>4. \A i \in 1..(run'[r].scan - 1), t \in DOMAIN tasks :
              tasks[t].state = "pending" => ~Eligible(t, team.agents[i])
        BY <2>4, <4>1, <4>3 DEF SweptOK
      <4> QED
        BY <2>1, <4>1, <4>4 DEF Eligible
    <3> QED
      BY <3>1, <3>2
  <2> QED
    BY <2>1, <2>2, <2>4 DEF SweptOK, LoopRun, WholeTeam
<1>5. ASSUME NEW t \in DOMAIN tasks, Cancel(t) \/ Release(t) PROVE SweptOK'
  <2>1. /\ UNCHANGED <<team, run>> /\ DOMAIN tasks' = DOMAIN tasks
        /\ tasks'[t].state \in {"cancelled", "pending"}
        /\ tasks'[t].state = "pending" => Release(t)
        /\ \A u \in DOMAIN tasks \ {t} : tasks'[u] = tasks[u]
    BY <1>5, PeopleSummary
  <2>2. CASE tasks'[t].state = "cancelled"
    <3>1. \A u \in DOMAIN tasks :
            /\ tasks'[u].state = "pending" => tasks'[u] = tasks[u]
            /\ tasks'[u].state = "done" => tasks[u].state = "done"
      BY <2>1, <2>2
    <3>2. ASSUME NEW r \in Run, WholeTeam(r), run[r].point = "claim", NEW i \in 1..(run[r].scan - 1)
          PROVE  \A u \in DOMAIN tasks' :
                   tasks'[u].state = "pending" => ~Eligible(u, team.agents[i])'
      <4> DEFINE agent == team.agents[i]
      <4>1. \A u \in DOMAIN tasks : tasks[u].state = "pending" => ~Eligible(u, agent)
        BY <3>2 DEF SweptOK
      <4>2. agent' = agent
        BY <2>1
      <4> HIDE DEF agent
      <4>3. \A u \in DOMAIN tasks' : tasks'[u].state = "pending" => ~Eligible(u, agent)'
        BY <2>1, <3>1, <4>1, <4>2 DEF Eligible
      <4> QED
        BY <4>3 DEF agent
    <3> QED
      BY <2>1, <3>2 DEF SweptOK, WholeTeam
  <2>3. CASE tasks'[t].state = "pending"
    <3>1. tasks[t].state = "paused" /\ tasks' # tasks
      BY <2>1, <2>3 DEF Release
    <3>2. \A r \in Run : ~Sweeps(r)
      BY <2>3, <3>1 DEF ReleasedInTime, Releases, vars
    <3>3. \A r \in Run : run[r].scan \in Nat \ {0}
      <4>1. \A r \in Run : run[r].scan \in 1..Len(AgentsOf(r)) /\ Len(AgentsOf(r)) \in Nat
        BY AgentsType DEF PlanInv, ClaimingOK
      <4> QED
        BY <4>1
    <3> QED
      BY <2>1, <3>2, <3>3 DEF Sweeps, SweptOK, WholeTeam
  <2> QED
    BY <2>1, <2>2, <2>3
<1>6. ASSUME UNCHANGED vars PROVE SweptOK'
  BY <1>6 DEF vars, SweptOK, WholeTeam, Eligible
<1> QED
  BY <1>2, <1>3, <1>4, <1>5, <1>6, Steps

\* On specs that validate accepts, while people take turns, and release paused tasks
\* before a run or while it is at work: what a run of the whole team leaves pending
\* when it finds nothing more to claim waits for a task that was cancelled, is
\* paused, or was in the hands of a run that ended with it.
THEOREM OpenTasksAreBlocked ==
  NamesAreMembers =>
    (Spec /\ []PlannersApart /\ [][ReleasedInTime]_vars => IncompleteMeansBlocked)
<1> SUFFICES ASSUME NamesAreMembers
             PROVE  Spec /\ []PlannersApart /\ [][ReleasedInTime]_vars => IncompleteMeansBlocked
  OBVIOUS
<1> DEFINE I == OwnersInv /\ SweptOK
           A == \A r \in Run :
                  WholeTeam(r) /\ run[r].point = "claim" /\ run'[r].point = "list" =>
                    \A t \in DOMAIN tasks : tasks[t].state = "pending" => Blocked(t)
<1>1. Init => I
  <2>1. Init => OwnersInv
    BY NewRunType DEF Init, OwnersInv, Somebody
  <2>2. Init => SweptOK
    BY NewRunType DEF Init, SweptOK
  <2> QED
    BY <2>1, <2>2
<1>2. PlanInv /\ I /\ PlannersApart /\ [ReleasedInTime]_vars /\ [Next]_vars => I'
  BY OwnersStep, SweptStep
<1>3. PlanInv /\ I /\ [Next]_vars => [A]_vars
  <2> SUFFICES ASSUME PlanInv, OwnersInv, SweptOK, Next, NEW r \in Run,
                      WholeTeam(r), run[r].point = "claim", run'[r].point = "list",
                      NEW t \in DOMAIN tasks, tasks[t].state = "pending"
               PROVE  Blocked(t)
    OBVIOUS
  <2>0. run \in [Run -> RunState]
    BY DEF PlanInv, PlanningTypeOK
  <2>1. FindNothing(r) /\ IsLast(r)
    <3>1. PICK q \in Run : Start(q) \/ Create(q) \/ LoopStep(q)
      <4>1. ASSUME NEW u \in DOMAIN tasks, Cancel(u) \/ Release(u) PROVE run' = run
        BY <4>1, PeopleSummary
      <4> QED
        BY <4>1, Steps
    <3>2. q = r /\ LoopStep(r)
      <4>1. Start(q) \/ Create(q) => run'[r].point # "list"
        <5>1. Start(q) => \A p \in Run : p # q => run'[p] = run[p]
          BY <2>0 DEF Start
        <5>2. Start(q) => run[q].point = "new"
          BY DEF Start
        <5>3. Create(q) => run[q].point = "create" /\ \A p \in Run : p # q => run'[p] = run[p]
          BY <2>0 DEF Create
        <5> QED
          BY <5>1, <5>2, <5>3
      <4>2. LoopStep(q) => LoopRun(q)
        BY LoopSummary
      <4> QED
        BY <3>1, <4>1, <4>2 DEF LoopRun
    <3>3. \A p \in Point : LetGo(r, p) => run'[r].point = p
      BY RunLetsGo DEF PlanInv
    <3>4. ~Claim(r) /\ ~Begin(r) /\ ~Return(r) /\ ~Pause(r) /\ ~Halt(r) /\ ~Finish(r) /\ ~Die(r)
      <4>1. ~Claim(r)
        BY <2>0 DEF Claim, RunState
      <4>2. ~Begin(r) /\ ~Return(r)
        BY DEF Begin, Return
      <4> QED
        BY <3>3, <4>1, <4>2 DEF Pause, Halt, Finish, Die, Point
    <3>5. FindNothing(r)
      BY <3>2, <3>4 DEF LoopStep
    <3>6. IsLast(r)
      <4>1. ASSUME run' = [run EXCEPT ![r].scan = run[r].scan + 1] PROVE run'[r].point = "claim"
        BY <2>0, <4>1 DEF RunState
      <4> QED
        BY <3>5, <4>1 DEF FindNothing
    <3> QED
      BY <3>5, <3>6
  <2>2. AgentsOf(r) = team.agents
    BY DEF WholeTeam, AgentsOf
  <2>3. run[r].scan = Len(team.agents) /\ Len(team.agents) \in Nat
    BY <2>1, <2>2, AgentsType DEF IsLast, PlanInv
  <2>4. \A i \in 1..Len(team.agents) : i \in 1..(run[r].scan - 1) \/ i = run[r].scan
    BY <2>3
  <2>5. \A u \in DOMAIN tasks, i \in 1..Len(team.agents) :
          tasks[u].state = "pending" => ~Eligible(u, team.agents[i])
    BY <2>1, <2>2, <2>4 DEF FindNothing, SweptOK
  <2> QED
    BY <2>5, PendingAreBlocked
<1>4. IncompleteMeansBlocked <=> [][A]_vars
  BY DEF IncompleteMeansBlocked
<1> HIDE DEF I, A
<1> QED
  BY <1>1, <1>2, <1>3, <1>4, PlanIsInvariant, PTL DEF Spec

-----------------------------------------------------------------------------
(***************************************************************************)
(* What the stages of the spec pipeline make: documents, then a team, then *)
(* the manifest of a team.                                                 *)
(***************************************************************************)
\* deep_merge starts from a document without fields.
LEMMA EmptyDocType == EmptyDoc \in Doc
  BY DEF EmptyDoc, Doc, Fields

\* A merged document is a document.
LEMMA MergeType ==
  ASSUME NEW base \in Doc, NEW overlay \in Doc
  PROVE  Merge(base, overlay) \in Doc
  BY DEF Merge, Doc, Or, Fields

\* However many documents are included, what they merge to is one.  The fold is
\* a function of sets of indices, to which FoldExists and FoldKeeps apply.
LEMMA MergedType ==
  ASSUME NEW docs \in Seq(Doc)
  PROVE  FoldLeft(Merge, EmptyDoc, docs) \in Doc
<1> DEFINE T == DOMAIN docs
           step == [i \in T |-> [base \in Doc |-> Merge(base, docs[i])]]
           iter(g) == [S \in SUBSET T |->
                         IF S = {} THEN EmptyDoc ELSE Merge(g[S \ {Max(S)}], docs[Max(S)])]
           h == CHOOSE g : g = iter(g)
<1>1. T \in SUBSET Nat /\ IsFiniteSet(T) /\ \A i \in T : docs[i] \in Doc
  <2>1. Len(docs) \in Nat /\ T = 1..Len(docs) /\ \A i \in 1..Len(docs) : docs[i] \in Doc
    OBVIOUS
  <2> QED
    BY <2>1, FS_Interval
<1>2. step \in [T -> [Doc -> Doc]]
  BY <1>1, MergeType
<1>3. \A S \in SUBSET T : S # {} => Max(S) \in T /\ S \ {Max(S)} \in SUBSET T
  <2>1. \A S \in SUBSET T : S \in SUBSET Nat /\ IsFiniteSet(S)
    BY <1>1, FS_Subset
  <2> QED
    BY <2>1, Extremes
<1> HIDE DEF T
<1>4. PICK g \in [SUBSET T -> Doc] : IsFold(g, EmptyDoc, step, T)
  <2> HIDE DEF step
  <2> QED
    BY <1>1, <1>2, EmptyDocType, FoldExists
<1>5. g = iter(g)
  <2>1. \A S \in SUBSET T : S # {} => g[S] = Merge(g[S \ {Max(S)}], docs[Max(S)])
    BY <1>3, <1>4 DEF IsFold
  <2> QED
    BY <1>4, <2>1 DEF IsFold
<1>6. h = iter(h)
  BY <1>5
<1>7. FoldLeft(Merge, EmptyDoc, docs) = h[T]
  BY DEF FoldLeft, MapThenFoldSet, T
<1> HIDE DEF h
<1>8. \A S \in SUBSET T : h[S] \in Doc
  <2>1. h[{}] \in Doc
    BY <1>6, EmptyDocType
  <2>2. ASSUME NEW S \in SUBSET T, S # {}, h[S \ {Max(S)}] \in Doc PROVE h[S] \in Doc
    <3>1. h[S] = Merge(h[S \ {Max(S)}], docs[Max(S)])
      BY <1>6, <2>2
    <3>2. docs[Max(S)] \in Doc
      BY <1>1, <1>3, <2>2
    <3> QED
      BY <2>2, <3>1, <3>2, MergeType
  <2> QED
    BY <1>1, <2>1, <2>2, FoldKeeps
<1> QED
  BY <1>7, <1>8

\* What karo.yaml and the folders hold.
SourcesOK ==
  /\ files \in [FolderSet -> AgentDoc \cup {Missing}]
  /\ include \in Seq(Doc \cup {Missing}) /\ local \in Doc /\ doc \in Doc

\* The folders carry names of agents.
LEMMA FolderNames == FolderSet \subseteq Agent
  BY PipelineAssumption DEF FolderSet, ToSet

\* The names to compile are names.
LEMMA OrderedType ==
  ASSUME SourcesOK
  PROVE  Ordered \in Seq(Agent)
<1>1. CASE doc.agents \in {Unset, <<>>}
  BY <1>1, PipelineAssumption, WithoutType DEF Ordered
<1>2. CASE doc.agents \notin {Unset, <<>>}
  <2>1. doc.agents \in Seq(Entry)
    BY <1>2 DEF SourcesOK, Doc
  <2>2. /\ Len(doc.agents) \in Nat /\ DOMAIN doc.agents = 1..Len(doc.agents)
        /\ \A i \in 1..Len(doc.agents) : doc.agents[i] \in Entry
    BY <2>1, SeqFacts
  <2>3. \A i \in 1..Len(doc.agents) : doc.agents[i].name \in Agent
    BY <2>2 DEF Entry
  <2> QED
    BY <1>2, <2>2, <2>3 DEF Ordered
<1> QED
  BY <1>1, <1>2

\* A name that passes the check of compile_folder has a file or an inline agent,
\* and what is taken for it is the document of an agent with a name.
LEMMA SourceType ==
  ASSUME SourcesOK, NEW name \in Agent, HasFile(name) \/ InlineOf(name) # {}
  PROVE  SourceOf(name) \in AgentDoc /\ SourceOf(name).name \in Agent
<1>1. CASE HasFile(name)
  <2>1. files[name] \in AgentDoc
    BY <1>1 DEF HasFile, SourcesOK
  <2> QED
    BY <1>1, <2>1 DEF SourceOf, AgentDoc, Or
<1>2. CASE ~HasFile(name)
  <2> DEFINE I == InlineOf(name)
             last == CHOOSE i \in I : \A j \in I : j <= i
  <2>1. doc.agents # Unset /\ doc.agents \in Seq(Entry)
    BY <1>2 DEF InlineOf, SourcesOK, Doc
  <2>0. /\ Len(doc.agents) \in Nat /\ DOMAIN doc.agents = 1..Len(doc.agents)
        /\ \A i \in 1..Len(doc.agents) : doc.agents[i] \in Entry
    BY <2>1, SeqFacts
  <2>2. I # {} /\ I \in SUBSET Nat /\ IsFiniteSet(I)
    <3>1. I \subseteq 1..Len(doc.agents) /\ Len(doc.agents) \in Nat
      BY <2>1, <2>0 DEF InlineOf
    <3>2. 1..Len(doc.agents) \subseteq Nat /\ IsFiniteSet(1..Len(doc.agents))
      BY <2>0, FS_Interval
    <3>3. I # {}
      BY <1>2
    <3> HIDE DEF I
    <3> QED
      BY <3>1, <3>2, <3>3, FS_Subset
  <2>3. last \in I
    <3> HIDE DEF I
    <3> QED
      BY <2>2, Extremes
  <2> HIDE DEF last
  <2>4. doc.agents[last].inline \in AgentDoc
    <3>1. last \in DOMAIN doc.agents /\ doc.agents[last].inline # Unset
      BY <2>1, <2>3 DEF InlineOf
    <3> QED
      BY <2>0, <3>1 DEF Entry
  <2>5. SourceOf(name) = [doc.agents[last].inline EXCEPT !.name = name]
    BY <1>2 DEF SourceOf, last
  <2> QED
    BY <2>4, <2>5 DEF AgentDoc
<1> QED
  BY <1>1, <1>2

\* The defaults complete an interaction.
LEMMA InteractionType ==
  ASSUME NEW settings,
         settings.autonomy \in Autonomy \cup {Unset}, settings.guards \in Guards \cup {Unset}
  PROVE  InteractionOf(settings) \in Interaction
  BY DEF InteractionOf, Interaction, Or, Autonomy, Guards

\* What is compiled is a team.
LEMMA TeamOfType ==
  ASSUME SourcesOK, NEW names \in Seq(Agent),
         \A i \in DOMAIN names : HasFile(names[i]) \/ InlineOf(names[i]) # {}
  PROVE  IsTeam(TeamOf(names))
<1> DEFINE source(i) == SourceOf(names[i])
<1>1. Len(names) \in Nat /\ DOMAIN names = 1..Len(names)
  OBVIOUS
<1>2. \A i \in 1..Len(names) :
        source(i) \in AgentDoc /\ source(i).name \in Agent /\ ConfigOf(source(i)) \in Config
  <2> SUFFICES ASSUME NEW i \in 1..Len(names)
               PROVE  source(i) \in AgentDoc /\ source(i).name \in Agent
                      /\ ConfigOf(source(i)) \in Config
    OBVIOUS
  <2>1. source(i) \in AgentDoc /\ source(i).name \in Agent
    BY <1>1, SourceType
  <2> HIDE DEF source
  <2>2. source(i).interaction # Unset => InteractionOf(source(i).interaction) \in Interaction
    BY <2>1, InteractionType DEF AgentDoc, InteractionDoc
  <2> QED
    BY <2>1, <2>2 DEF ConfigOf, Config, AgentDoc
<1> DEFINE agents == [i \in DOMAIN names |-> source(i).name]
           config == [i \in DOMAIN names |-> ConfigOf(source(i))]
<1>3. /\ agents \in Seq(Agent) /\ config \in Seq(Config)
      /\ Len(agents) = Len(names) /\ Len(config) = Len(names)
  <2> HIDE DEF source
  <2> QED
    BY <1>1, <1>2
<1>4. InteractionOf(doc) \in Interaction
  BY InteractionType DEF SourcesOK, Doc
<1>5. /\ Or(doc.pattern, "lead-and-teammates") \in Pattern
      /\ Or(doc.lead, NoAgent) \in Agent \cup {NoAgent}
      /\ Or(doc.reviewer, NoAgent) \in Agent \cup {NoAgent}
      /\ Or(doc.stages, <<>>) \in Seq(Agent)
      /\ Or(doc.harness, "sdk") \in Harness /\ Or(doc.permissionMode, "prompt") \in PermissionMode
  BY DEF SourcesOK, Doc, Or, Pattern, Harness, PermissionMode
<1>6. TeamOf(names) =
        [pattern |-> Or(doc.pattern, "lead-and-teammates"), lead |-> Or(doc.lead, NoAgent),
         reviewer |-> Or(doc.reviewer, NoAgent), stages |-> Or(doc.stages, <<>>),
         agents |-> agents, config |-> config,
         harness |-> Or(doc.harness, "sdk"), permissionMode |-> Or(doc.permissionMode, "prompt"),
         interaction |-> InteractionOf(doc)]
  BY DEF TeamOf
<1> HIDE DEF agents, config
<1> QED
  BY <1>3, <1>4, <1>5, <1>6 DEF IsTeam, CompiledTeam

\* What export makes of a team: the same team, each agent with what it had or
\* inherited, and a guard in place of a question.
LEMMA ManifestFacts ==
  ASSUME NEW t, IsTeam(t)
  PROVE  LET m == ManifestOf(t) IN
         /\ IsTeam(m)
         /\ m.pattern = t.pattern /\ m.lead = t.lead /\ m.reviewer = t.reviewer
         /\ m.stages = t.stages /\ m.agents = t.agents /\ m.harness = t.harness
         /\ m.permissionMode = t.permissionMode /\ m.interaction = t.interaction
         /\ \A i \in 1..Len(t.agents) :
              LET c == t.config[i]
                  own == Or(c.interaction, t.interaction)
              IN  /\ c \in Config /\ own \in Interaction
                  /\ m.config[i].harness = Or(c.harness, t.harness)
                  /\ m.config[i].permissionMode = "plan"
                  /\ m.config[i].interaction =
                       IF Or(c.permissionMode, t.permissionMode) = "prompt"
                       THEN [own EXCEPT !.guards = @ \cup {"pauseBefore"}] ELSE own
<1> DEFINE full(c) == [harness |-> Or(c.harness, t.harness),
                       permissionMode |-> Or(c.permissionMode, t.permissionMode),
                       interaction |-> Or(c.interaction, t.interaction)]
           M == Materialize(t)
           m == ManifestOf(t)
<1>1. /\ t \in CompiledTeam /\ Len(t.config) = Len(t.agents) /\ Len(t.config) \in Nat
      /\ DOMAIN t.config = 1..Len(t.agents)
      /\ \A i \in 1..Len(t.agents) : t.config[i] \in Config
      /\ t.harness \in Harness /\ t.permissionMode \in PermissionMode /\ t.interaction \in Interaction
  BY DEF IsTeam, CompiledTeam
<1>2. ASSUME NEW c \in Config
      PROVE  /\ full(c) \in [harness : Harness, permissionMode : PermissionMode, interaction : Interaction]
             /\ Coerced(full(c)) \in Config
             /\ Coerced(full(c)).harness = Or(c.harness, t.harness)
             /\ Coerced(full(c)).permissionMode = "plan"
             /\ Coerced(full(c)).interaction =
                  IF Or(c.permissionMode, t.permissionMode) = "prompt"
                  THEN [Or(c.interaction, t.interaction) EXCEPT !.guards = @ \cup {"pauseBefore"}]
                  ELSE Or(c.interaction, t.interaction)
  <2>1. full(c) \in [harness : Harness, permissionMode : PermissionMode, interaction : Interaction]
    BY <1>1 DEF Config, Or
  <2>2. \A own \in Interaction : [own EXCEPT !.guards = @ \cup {"pauseBefore"}] \in Interaction
    BY DEF Interaction, Guards
  <2>3. full(c).interaction \in Interaction /\ full(c).permissionMode \in {"prompt", "plan"}
        /\ full(c).harness \in Harness
    BY <2>1 DEF PermissionMode
  <2>4. CASE full(c).permissionMode = "prompt"
    BY <2>1, <2>2, <2>3, <2>4 DEF Coerced, Config, PermissionMode
  <2>5. CASE full(c).permissionMode # "prompt"
    BY <2>1, <2>2, <2>3, <2>5 DEF Coerced, Config, PermissionMode
  <2> QED
    BY <2>1, <2>4, <2>5
<1>3. M = [t EXCEPT !.config = [i \in 1..Len(t.agents) |-> full(t.config[i])]]
  BY <1>1 DEF Materialize
<1> HIDE DEF full
<1>4. M.config = [i \in 1..Len(t.agents) |-> full(t.config[i])] /\ M = [t EXCEPT !.config = M.config]
  BY <1>1, <1>3 DEF CompiledTeam
<1>5. m = [t EXCEPT !.config = [i \in 1..Len(t.agents) |-> Coerced(full(t.config[i]))]]
  <2>1. m = [M EXCEPT !.config = [i \in DOMAIN M.config |-> Coerced(M.config[i])]]
    BY DEF ManifestOf
  <2> HIDE DEF M, m
  <2> QED
    BY <1>1, <1>4, <2>1 DEF CompiledTeam
<1> HIDE DEF M, m
<1>6. m.config = [i \in 1..Len(t.agents) |-> Coerced(full(t.config[i]))]
  BY <1>1, <1>5 DEF CompiledTeam
<1>7. /\ m.pattern = t.pattern /\ m.lead = t.lead /\ m.reviewer = t.reviewer
      /\ m.stages = t.stages /\ m.agents = t.agents /\ m.harness = t.harness
      /\ m.permissionMode = t.permissionMode /\ m.interaction = t.interaction
  BY <1>1, <1>5 DEF CompiledTeam
<1>8. m.config \in Seq(Config) /\ Len(m.config) = Len(t.agents)
  <2>1. \A i \in 1..Len(t.agents) : Coerced(full(t.config[i])) \in Config
    BY <1>1, <1>2
  <2> QED
    BY <1>1, <1>6, <2>1
<1>9. IsTeam(m)
  <2>1. m \in CompiledTeam
    BY <1>1, <1>5, <1>6, <1>8 DEF CompiledTeam
  <2> QED
    BY <1>7, <1>8, <2>1 DEF IsTeam
<1>10. ASSUME NEW i \in 1..Len(t.agents)
       PROVE  LET c == t.config[i]
                  own == Or(c.interaction, t.interaction)
              IN  /\ c \in Config /\ own \in Interaction
                  /\ m.config[i].harness = Or(c.harness, t.harness)
                  /\ m.config[i].permissionMode = "plan"
                  /\ m.config[i].interaction =
                       IF Or(c.permissionMode, t.permissionMode) = "prompt"
                       THEN [own EXCEPT !.guards = @ \cup {"pauseBefore"}] ELSE own
  <2>1. t.config[i] \in Config /\ m.config[i] = Coerced(full(t.config[i]))
    BY <1>1, <1>6
  <2>2. Or(t.config[i].interaction, t.interaction) \in Interaction
    BY <1>1, <2>1 DEF Config, Or
  <2> QED
    BY <1>2, <2>1, <2>2
<1> QED
  BY <1>7, <1>9, <1>10 DEF m

\* What validates for the cluster is exported and accepted there.
LEMMA CleanIsAcceptable ==
  ASSUME NEW t, IsTeam(t), IsClean(t, "cluster")
  PROVE  IsClean(t, "local") /\ CanRunOnCluster(t) /\ OperatorAccepts(ManifestOf(t))
<1> DEFINE m == ManifestOf(t)
<1>1. /\ t.agents # <<>> /\ CoordinationIsSound(t) /\ CanRunOnCluster(t) /\ IsClean(t, "local")
  BY DEF IsClean
<1>2. /\ IsTeam(t) /\ IsTeam(m)
      /\ m.pattern = t.pattern /\ m.lead = t.lead /\ m.stages = t.stages /\ m.agents = t.agents
      /\ \A i \in 1..Len(t.agents) : m.config[i].harness = Or(t.config[i].harness, t.harness)
                                     /\ m.config[i].permissionMode = "plan"
  BY ManifestFacts
<1> HIDE DEF m
<1>3. DOMAIN t.config = 1..Len(t.agents) /\ DOMAIN m.config = 1..Len(t.agents)
  BY <1>2 DEF IsTeam, CompiledTeam
<1>4. Members(t) \subseteq Agent /\ NoAgent \notin Agent
  BY <1>2, PatternsAssumption DEF IsTeam, CompiledTeam, Members
<1>5. CanRunOnCluster(m)
  <2>1. \A i \in 1..Len(t.agents) : m.config[i].harness = "sdk"
    BY <1>1, <1>2, <1>3 DEF CanRunOnCluster
  <2> QED
    BY <1>3, <2>1, PipelineAssumption DEF CanRunOnCluster, Or, Harness
<1>6. NobodyAsksInVain(m)
  BY <1>2, <1>3, PipelineAssumption DEF NobodyAsksInVain, Or, PermissionMode
<1>7. /\ t.pattern = "lead-and-teammates" => t.lead # NoAgent
      /\ t.pattern = "pipeline" => t.stages # <<>>
  BY <1>1, <1>4 DEF CoordinationIsSound
<1> QED
  BY <1>1, <1>2, <1>5, <1>6, <1>7 DEF OperatorAccepts, m

-----------------------------------------------------------------------------
(***************************************************************************)
(* The pipeline's inductive invariant: what is there at each stage, and    *)
(* that the manifest is that of the compiled team.  CleanIsAccepted alone  *)
(* is not inductive: that the operator accepts what was exported follows   *)
(* only from how it was exported.                                          *)
(***************************************************************************)
\* The road of a team, stage by stage.
StageOK ==
  /\ stage \in {"source", "loaded"} => compiled = Unset /\ manifest = Unset
  /\ stage \in {"compiled", "local"} => IsTeam(compiled) /\ manifest = Unset
  /\ stage \in {"exported", "running", "rejected"} =>
       IsTeam(compiled) /\ manifest = ManifestOf(compiled)
  /\ stage = "error" =>
       /\ manifest = Unset
       /\ compiled # Unset => IsTeam(compiled) /\ ~IsClean(compiled, "cluster")
  /\ stage = "rejected" => ~IsClean(compiled, "cluster")
  /\ stage = "running" => OperatorAccepts(manifest)

PipelineIInv == stage \in Stage /\ SourcesOK /\ StageOK

\* It implies the invariant of the run.
LEMMA PipelineIInvImplies ==
  ASSUME PipelineIInv
  PROVE  PipelineInv
<1>1. compiled # Unset => IsTeam(compiled)
  BY DEF PipelineIInv, StageOK, Stage
<1>2. manifest # Unset => IsTeam(manifest) /\ stage \in {"exported", "running", "rejected"}
  BY ManifestFacts DEF PipelineIInv, StageOK, Stage
<1>3. CleanIsAccepted
  BY <1>2 DEF CleanIsAccepted, PipelineIInv, StageOK
<1> QED
  BY <1>1, <1>2, <1>3 DEF PipelineInv, PipelineTypeOK, PipelineIInv, SourcesOK

\* It holds in a fresh project folder.
LEMMA PipelineStart ==
  ASSUME PipelineInit
  PROVE  PipelineIInv
<1>1. files \in [FolderSet -> AgentDoc \cup {Missing}]
  <2>1. PICK f \in [FolderSet -> UNION {AgentFiles[n] : n \in FolderSet}] :
          files = f /\ \A n \in FolderSet : f[n] \in AgentFiles[n]
    BY DEF PipelineInit
  <2>2. \A n \in FolderSet : AgentFiles[n] \subseteq AgentDoc \cup {Missing}
    BY PipelineAssumption DEF FolderSet, ToSet
  <2> QED
    BY <2>1, <2>2
<1>2. include \in Seq(Doc \cup {Missing}) /\ local \in Doc /\ doc \in Doc
  BY PipelineAssumption, EmptyDocType DEF PipelineInit
<1> QED
  BY <1>1, <1>2 DEF PipelineInit, PipelineIInv, SourcesOK, StageOK, Stage

\* Each stage keeps it.
LEMMA PipelineStep ==
  ASSUME PipelineIInv, [PipelineNext]_pipelineVars
  PROVE  PipelineIInv'
<1> USE DEF PipelineIInv
<1>1. CASE Load
  <2>1. UNCHANGED <<files, include, local, compiled, manifest>> /\ stage = "source"
    BY <1>1 DEF Load
  <2>2. CASE Missing \in ToSet(include)
    BY <1>1, <2>1, <2>2 DEF Load, SourcesOK, StageOK, Stage
  <2>3. CASE Missing \notin ToSet(include)
    <3>1. include \in Seq(Doc)
      <4>1. /\ Len(include) \in Nat /\ DOMAIN include = 1..Len(include)
            /\ include = [i \in 1..Len(include) |-> include[i]]
            /\ \A i \in 1..Len(include) : include[i] \in Doc \cup {Missing}
        BY DEF SourcesOK
      <4>2. \A i \in 1..Len(include) : include[i] \in Doc
        BY <2>3, <4>1 DEF ToSet
      <4> QED
        BY <4>1, <4>2
    <3>2. doc' \in Doc /\ stage' = "loaded"
      BY <1>1, <2>3, <3>1, MergedType, MergeType DEF Load, SourcesOK
    <3> QED
      BY <2>1, <3>2 DEF SourcesOK, StageOK, Stage
  <2> QED
    BY <2>2, <2>3
<1>2. CASE Compile
  <2>1. UNCHANGED <<files, include, local, doc, manifest>> /\ stage = "loaded"
    BY <1>2 DEF Compile
  <2>2. CASE \E i \in DOMAIN Ordered : ~HasFile(Ordered[i]) /\ InlineOf(Ordered[i]) = {}
    BY <1>2, <2>1, <2>2 DEF Compile, SourcesOK, StageOK, Stage
  <2>3. CASE ~\E i \in DOMAIN Ordered : ~HasFile(Ordered[i]) /\ InlineOf(Ordered[i]) = {}
    <3>1. IsTeam(compiled') /\ stage' = "compiled"
      BY <1>2, <2>3, OrderedType, TeamOfType DEF Compile
    <3> QED
      BY <2>1, <3>1 DEF SourcesOK, StageOK, Stage
  <2> QED
    BY <2>2, <2>3
<1>3. CASE RunLocally
  BY <1>3, CleanIsAcceptable DEF RunLocally, SourcesOK, StageOK, Stage
<1>4. ASSUME NEW allow \in BOOLEAN, Export(allow) PROVE PipelineIInv'
  <2>1. UNCHANGED <<files, include, local, doc, compiled>> /\ stage = "compiled"
    BY <1>4 DEF Export
  <2>2. CASE CanRunOnCluster(compiled) \/ allow
    BY <1>4, <2>1, <2>2 DEF Export, SourcesOK, StageOK, Stage
  <2>3. CASE ~(CanRunOnCluster(compiled) \/ allow)
    BY <1>4, <2>1, <2>3, CleanIsAcceptable DEF Export, SourcesOK, StageOK, Stage
  <2> QED
    BY <2>2, <2>3
<1>5. CASE Apply
  <2>1. UNCHANGED <<files, include, local, doc, compiled, manifest>> /\ stage = "exported"
    BY <1>5 DEF Apply
  <2>2. CASE OperatorAccepts(manifest)
    BY <1>5, <2>1, <2>2 DEF Apply, SourcesOK, StageOK, Stage
  <2>3. CASE ~OperatorAccepts(manifest)
    BY <1>5, <2>1, <2>3, CleanIsAcceptable DEF Apply, SourcesOK, StageOK, Stage
  <2> QED
    BY <2>2, <2>3
<1>6. CASE UNCHANGED pipelineVars
  BY <1>6 DEF pipelineVars, SourcesOK, StageOK
<1> QED
  BY <1>1, <1>2, <1>3, <1>4, <1>5, <1>6 DEF PipelineNext

\* It holds always.
LEMMA PipelineIsInvariant == PipelineSpec => []PipelineIInv
  BY PipelineStart, PipelineStep, PTL DEF PipelineSpec

\* A team that `karo validate --target cluster' finds clean is exported and
\* accepted by the operator, whatever folder, includes and defaults it came from;
\* and every stage has documents and teams of the types it expects.
THEOREM CleanTeamsRun == PipelineSpec => []PipelineInv
  BY PipelineIsInvariant, PipelineIInvImplies, PTL

-----------------------------------------------------------------------------
\* The agent a Coordinator finds by a name is in the team: of several, the last.
LEMMA IndexType ==
  ASSUME NEW t, IsTeam(t), NEW name \in Members(t)
  PROVE  IndexOfAgent(t, name) \in 1..Len(t.agents)
<1> DEFINE I == {i \in 1..Len(t.agents) : t.agents[i] = name}
           isLast(i) == t.agents[i] = name /\ \A j \in (i + 1)..Len(t.agents) : t.agents[j] # name
<1>1. Len(t.agents) \in Nat /\ DOMAIN t.agents = 1..Len(t.agents)
  BY DEF IsTeam, CompiledTeam
<1>2. I \in SUBSET Nat /\ IsFiniteSet(I) /\ I # {}
  <2>1. I # {}
    BY <1>1 DEF Members
  <2>2. I \subseteq 1..Len(t.agents) /\ 1..Len(t.agents) \subseteq Nat
    OBVIOUS
  <2> HIDE DEF I
  <2>3. IsFiniteSet(1..Len(t.agents))
    BY <1>1, FS_Interval
  <2>4. IsFiniteSet(I)
    BY <2>2, <2>3, FS_Subset
  <2> QED
    BY <2>1, <2>2, <2>4
<1>3. PICK i \in I : \A j \in I : j <= i
  <2> HIDE DEF I
  <2> QED
    BY <1>2, Extremes
<1>4. i \in 1..Len(t.agents) /\ isLast(i)
  <2>1. \A j \in (i + 1)..Len(t.agents) : j \in 1..Len(t.agents) /\ ~(j <= i)
    BY <1>1
  <2> QED
    BY <1>3, <2>1
<1>5. \E k \in DOMAIN t.agents : isLast(k)
  BY <1>1, <1>4
<1> HIDE DEF isLast
<1>6. IndexOfAgent(t, name) = CHOOSE k \in DOMAIN t.agents : isLast(k)
  BY DEF IndexOfAgent, isLast
<1> QED
  BY <1>1, <1>5, <1>6

\* An agent on the desk and in its pod.
LEMMA BehaviourThere ==
  ASSUME NEW t, IsTeam(t), NEW name \in Members(t)
  PROVE  LET c == t.config[IndexOfAgent(t, name)]
             own == Or(c.interaction, t.interaction)
             here == Behaviour(t, name)
             there == Behaviour(ManifestOf(t), name)
             asks == here.permissionMode = "prompt"
         IN  /\ own \in Interaction
             /\ here.harness = Or(c.harness, t.harness) /\ there.harness = here.harness
             /\ here.permissionMode = Or(c.permissionMode, t.permissionMode)
             /\ there.permissionMode = "plan"
             /\ here.permissionMode \in PermissionMode
             /\ here.autonomy = own.autonomy /\ there.autonomy = own.autonomy
             /\ here.guards = GuardsOf(t, c.interaction)
             /\ asks => there.guards = own.guards \cup {"pauseBefore"}
             /\ ~asks => there.guards = here.guards
<1> DEFINE m == ManifestOf(t)
           k == IndexOfAgent(t, name)
           c == t.config[k]
           own == Or(c.interaction, t.interaction)
<1>1. k \in 1..Len(t.agents) /\ IndexOfAgent(m, name) = k
  <2>1. m.agents = t.agents
    BY ManifestFacts
  <2> HIDE DEF m
  <2> QED
    BY <2>1, IndexType DEF IndexOfAgent
<1>2. /\ m.harness = t.harness /\ m.permissionMode = t.permissionMode
      /\ m.interaction = t.interaction
      /\ c \in Config /\ own \in Interaction
      /\ m.config[k].harness = Or(c.harness, t.harness)
      /\ m.config[k].permissionMode = "plan"
      /\ m.config[k].interaction =
           IF Or(c.permissionMode, t.permissionMode) = "prompt"
           THEN [own EXCEPT !.guards = @ \cup {"pauseBefore"}] ELSE own
  <2> HIDE DEF k
  <2> QED
    BY <1>1, ManifestFacts
<1>3. t.harness \in Harness /\ t.permissionMode \in PermissionMode /\ t.interaction \in Interaction
  BY DEF IsTeam, CompiledTeam
<1> HIDE DEF m, k
<1>4. /\ Or(c.harness, t.harness) \in Harness
      /\ Or(c.permissionMode, t.permissionMode) \in PermissionMode
  BY <1>2, <1>3 DEF Or, Config
<1>5. /\ Behaviour(t, name).harness = Or(c.harness, t.harness)
      /\ Behaviour(t, name).permissionMode = Or(c.permissionMode, t.permissionMode)
      /\ Behaviour(t, name).autonomy = own.autonomy
      /\ Behaviour(t, name).guards = GuardsOf(t, c.interaction)
  BY DEF Behaviour, k
<1>6. /\ Behaviour(m, name).harness = Or(m.config[k].harness, t.harness)
      /\ Behaviour(m, name).permissionMode = Or("plan", t.permissionMode)
      /\ Behaviour(m, name).autonomy = Or(m.config[k].interaction, t.interaction).autonomy
      /\ Behaviour(m, name).guards = GuardsOf(m, m.config[k].interaction)
  BY <1>1, <1>2 DEF Behaviour
<1> DEFINE guarded == [own EXCEPT !.guards = @ \cup {"pauseBefore"}]
<1>7. /\ guarded \in Interaction /\ guarded.autonomy = own.autonomy
      /\ guarded.guards = own.guards \cup {"pauseBefore"}
  BY <1>2 DEF Interaction, Guards
<1>8. /\ Behaviour(m, name).harness = Or(c.harness, t.harness)
      /\ Behaviour(m, name).permissionMode = "plan"
  BY <1>2, <1>4, <1>6, PipelineAssumption DEF Or, PermissionMode
<1>9. Or(c.permissionMode, t.permissionMode) = "prompt" => m.config[k].interaction = guarded
  BY <1>2
<1> HIDE DEF guarded, own
<1>10. CASE Or(c.permissionMode, t.permissionMode) = "prompt"
  <2>1. m.config[k].interaction = guarded /\ guarded # Unset
    BY <1>7, <1>9, <1>10, PipelineAssumption
  <2>2. /\ Behaviour(m, name).autonomy = own.autonomy
        /\ Behaviour(m, name).guards = own.guards \cup {"pauseBefore"}
    BY <1>6, <1>7, <2>1 DEF Or, GuardsOf
  <2> QED
    BY <1>2, <1>4, <1>5, <1>8, <1>10, <2>2 DEF m, k, own
<1>11. CASE Or(c.permissionMode, t.permissionMode) # "prompt"
  <2>1. m.config[k].interaction = own /\ own # Unset
    BY <1>2, <1>11, PipelineAssumption
  <2>2. Behaviour(m, name).autonomy = own.autonomy
    BY <1>6, <2>1 DEF Or
  <2>3. Behaviour(m, name).guards = GuardsOf(t, c.interaction)
    BY <1>2, <1>6, <2>1 DEF GuardsOf, Or, own
  <2> QED
    BY <1>2, <1>4, <1>5, <1>8, <1>11, <2>2, <2>3 DEF m, k, own
<1> QED
  BY <1>10, <1>11

\* An agent keeps in its pod the harness, the autonomy and the guards it has on
\* the desk; only one that asks and has an interaction of its own with no guard
\* loses those of the team, when export adds a guard to the empty list.
THEOREM PodsActAlike == PipelineSpec => []ExportKeepsBehaviour
<1>1. ASSUME PipelineIInv PROVE ExportKeepsBehaviour
  <2> SUFFICES ASSUME stage = "running", NEW name \in Members(compiled)
               PROVE  LET here == Behaviour(compiled, name)
                          there == Behaviour(manifest, name)
                      IN  /\ there.harness = here.harness /\ there.autonomy = here.autonomy
                          /\ here.guards \subseteq there.guards \/ Shadows(name)
                          /\ here.permissionMode # "prompt" => there = here
    BY DEF ExportKeepsBehaviour
  <2> DEFINE here == Behaviour(compiled, name)
             there == Behaviour(manifest, name)
             c == compiled.config[IndexOfAgent(compiled, name)]
             own == Or(c.interaction, compiled.interaction)
  <2>1. IsTeam(compiled) /\ manifest = ManifestOf(compiled)
    BY <1>1 DEF PipelineIInv, StageOK
  <2>2. /\ there.harness = here.harness
        /\ there.permissionMode = "plan" /\ here.permissionMode \in PermissionMode
        /\ there.autonomy = here.autonomy
        /\ here.guards = GuardsOf(compiled, c.interaction)
        /\ here.permissionMode = "prompt" => there.guards = own.guards \cup {"pauseBefore"}
        /\ here.permissionMode # "prompt" => there.guards = here.guards
    BY <2>1, BehaviourThere
  <2>3. CASE here.permissionMode = "prompt"
    <3>1. CASE c.interaction = Unset
      <4>1. own = compiled.interaction /\ here.guards = compiled.interaction.guards
        BY <2>2, <3>1 DEF Or, GuardsOf
      <4> QED
        BY <2>2, <2>3, <4>1
    <3>2. CASE c.interaction # Unset /\ c.interaction.guards # {}
      <4>1. own = c.interaction /\ here.guards = c.interaction.guards
        BY <2>2, <3>2 DEF Or, GuardsOf
      <4> QED
        BY <2>2, <2>3, <4>1
    <3>3. CASE c.interaction # Unset /\ c.interaction.guards = {}
      BY <2>2, <2>3, <3>3 DEF Shadows
    <3> QED
      BY <3>1, <3>2, <3>3
  <2>4. CASE here.permissionMode # "prompt"
    <3>1. here.permissionMode = "plan"
      BY <2>2, <2>4 DEF PermissionMode
    <3>2. there = here
      <4> DEFINE fields == {"harness", "permissionMode", "autonomy", "guards"}
      <4>1. /\ here = [harness |-> here.harness, permissionMode |-> here.permissionMode,
                       autonomy |-> here.autonomy, guards |-> here.guards]
            /\ there = [harness |-> there.harness, permissionMode |-> there.permissionMode,
                        autonomy |-> there.autonomy, guards |-> there.guards]
        BY DEF Behaviour
      <4> HIDE DEF here, there
      <4> QED
        BY <2>2, <2>4, <3>1, <4>1
    <3> QED
      BY <2>2, <2>4, <3>2
  <2> QED
    BY <2>3, <2>4
<1> QED
  BY <1>1, PipelineIsInvariant, PTL

\* Nobody waits in a pod for an answer on a terminal; who would have asked, in a
\* team that validates, is supervised there and stops for a human before its task.
THEOREM AskersWaitForHumans == PipelineSpec => []AskersStop
<1>1. ASSUME PipelineIInv PROVE AskersStop
  <2> SUFFICES ASSUME stage = "running", NEW name \in Members(compiled)
               PROVE  /\ Behaviour(manifest, name).permissionMode # "prompt"
                      /\ Behaviour(compiled, name).permissionMode = "prompt"
                         /\ IsClean(compiled, "cluster") =>
                           /\ "pauseBefore" \in Behaviour(manifest, name).guards
                           /\ Behaviour(manifest, name).autonomy = "supervised"
    BY DEF AskersStop
  <2> DEFINE here == Behaviour(compiled, name)
             there == Behaviour(manifest, name)
             k == IndexOfAgent(compiled, name)
             c == compiled.config[k]
             own == Or(c.interaction, compiled.interaction)
  <2>1. IsTeam(compiled) /\ manifest = ManifestOf(compiled)
    BY <1>1 DEF PipelineIInv, StageOK
  <2>2. /\ own \in Interaction
        /\ here.permissionMode = Or(c.permissionMode, compiled.permissionMode)
        /\ there.permissionMode = "plan" /\ there.autonomy = own.autonomy
        /\ here.permissionMode = "prompt" => there.guards = own.guards \cup {"pauseBefore"}
    BY <2>1, BehaviourThere
  <2>3. ASSUME here.permissionMode = "prompt", IsClean(compiled, "cluster")
        PROVE  there.autonomy = "supervised"
    <3>1. k \in DOMAIN compiled.config
      <4>1. k \in 1..Len(compiled.agents)
        BY <2>1, IndexType
      <4>2. compiled.config \in Seq(Config) /\ Len(compiled.config) = Len(compiled.agents)
        BY <2>1 DEF IsTeam, CompiledTeam
      <4> HIDE DEF k
      <4> QED
        BY <4>1, <4>2
    <3>2. own.autonomy # "autonomous"
      <4> HIDE DEF k, here
      <4> QED
        BY <2>2, <2>3, <3>1 DEF IsClean, NobodyAsksInVain
    <3> QED
      BY <2>2, <3>2 DEF Interaction, Autonomy
  <2> QED
    BY <2>2, <2>3
<1> QED
  BY <1>1, PipelineIsInvariant, PTL

\* The agent that plans, and whoever owns or reviews a task of the plan, is an
\* agent of the team, for every team of every pattern that validates and runs.
THEOREM PlansNeedNoStranger == PipelineSpec => []PlannedWorkHasPods
<1>1. ASSUME PipelineIInv PROVE PlannedWorkHasPods
  <2> SUFFICES ASSUME stage = "running", IsClean(compiled, "cluster")
               PROVE  /\ PlannerOf(manifest) \in Members(manifest)
                      /\ \A i \in DOMAIN PlanTasks(manifest) :
                           {PlanTasks(manifest)[i].owner, PlanTasks(manifest)[i].reviewer}
                             \subseteq Members(manifest) \cup {NoAgent}
    BY DEF PlannedWorkHasPods
  <2>1. IsTeam(compiled) /\ manifest = ManifestOf(compiled)
    BY <1>1 DEF PipelineIInv, StageOK
  <2>2. /\ manifest.agents = compiled.agents /\ manifest.pattern = compiled.pattern
        /\ manifest.lead = compiled.lead /\ manifest.stages = compiled.stages
    BY <2>1, ManifestFacts
  <2>3. /\ compiled.agents # <<>>
        /\ compiled.lead \in Members(compiled) \cup {NoAgent}
        /\ \A j \in DOMAIN compiled.stages : compiled.stages[j] \in Members(compiled)
    <3>1. compiled.agents # <<>> /\ CoordinationIsSound(compiled)
      BY DEF IsClean
    <3>2. compiled.stages = <<>> \/ ToSet(compiled.stages) \subseteq Members(compiled)
      BY <3>1 DEF CoordinationIsSound
    <3> QED
      BY <3>1, <3>2 DEF CoordinationIsSound, ToSet
  <2>4. Members(manifest) = Members(compiled)
    BY <2>2 DEF Members
  <2>5. NamesItsMembers(manifest)
    BY <2>1, <2>2, <2>3, <2>4 DEF NamesItsMembers, IsTeam, CompiledTeam
  <2>6. PlannerOf(manifest) \in Members(manifest)
    <3>1. manifest.agents \in Seq(Agent) /\ manifest.agents # <<>>
      BY <2>5 DEF NamesItsMembers
    <3>2. 1 \in DOMAIN manifest.agents
      BY <3>1
    <3> QED
      BY <2>5, <3>2 DEF PlannerOf, LeadOf, Members, NamesItsMembers
  <2> QED
    BY <2>5, <2>6, GraphMembers
<1> QED
  BY <1>1, PipelineIsInvariant, PTL
=============================================================================
