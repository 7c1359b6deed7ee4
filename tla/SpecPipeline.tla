---------------------------- MODULE SpecPipeline ----------------------------
(***************************************************************************)
(* A team's way from a project folder to its pods: include and deep_merge  *)
(* of spec/loader.py, compile_folder, the models' defaults, the validator, *)
(* materialized_spec and export_manifest, the operator's admission, and    *)
(* what the Coordinator of a pod makes of the manifest.                    *)
(*                                                                         *)
(* A document is a record in which an absent field is Unset.  A compiled   *)
(* team is a team of the module Patterns with the settings that decide how *)
(* its agents act; config is parallel to agents.  The lists of guards are  *)
(* sets, and a value the models reject is not in a document.  The names of *)
(* the specification say Pipeline, for the module of the proofs extends    *)
(* Planning too.                                                           *)
(***************************************************************************)
EXTENDS Patterns, SequencesExt

CONSTANTS
  Unset,
  Missing,      \* an included file or a folder's AGENT.md that is not there
  Folders,      \* the names under agents/, sorted
  AgentFiles,   \* [Folders -> the AGENT.md they may hold, or Missing]
  Includes,     \* what include: may list: sequences of documents or Missing
  Locals        \* the documents karo.yaml may hold besides

Harness == {"sdk", "claude-code"}
PermissionMode == {"prompt", "plan"}
Autonomy == {"supervised", "autonomous"}
Guards == SUBSET {"pauseBefore", "taskComplete"}

Interaction == [autonomy : Autonomy, guards : Guards]

InteractionDoc == [autonomy : Autonomy \cup {Unset}, guards : Guards \cup {Unset}]

AgentDoc ==
  [name : Agent \cup {Unset}, harness : Harness \cup {Unset},
   permissionMode : PermissionMode \cup {Unset}, interaction : InteractionDoc \cup {Unset}]

Config ==
  [harness : Harness \cup {Unset}, permissionMode : PermissionMode \cup {Unset},
   interaction : Interaction \cup {Unset}]

\* An entry of agents: a reference to a folder, or an inline agent.
Entry == [name : Agent, inline : AgentDoc \cup {Unset}]

Fields == {"harness", "permissionMode", "autonomy", "guards", "pattern", "lead", "reviewer",
           "stages", "agents"}

Doc ==
  [harness : {Unset} \cup Harness, permissionMode : {Unset} \cup PermissionMode,
   autonomy : {Unset} \cup Autonomy, guards : {Unset} \cup Guards,
   pattern : {Unset} \cup Pattern, lead : {Unset} \cup Agent, reviewer : {Unset} \cup Agent,
   stages : {Unset} \cup Seq(Agent), agents : {Unset} \cup Seq(Entry)]

\* What a compiled team has of each, the coordination as in the module Patterns.
CompiledTeam ==
  [pattern : Pattern, lead : Agent \cup {NoAgent}, reviewer : Agent \cup {NoAgent},
   stages : Seq(Agent), agents : Seq(Agent), config : Seq(Config),
   harness : Harness, permissionMode : PermissionMode, interaction : Interaction]

ASSUME PipelineAssumption ==
  /\ Folders \in Seq(Agent)
  /\ \A i \in DOMAIN Folders : AgentFiles[Folders[i]] \subseteq AgentDoc \cup {Missing}
  /\ Includes \subseteq Seq(Doc \cup {Missing})
  /\ Locals \subseteq Doc
  /\ Unset \notin Harness /\ Unset \notin PermissionMode
  /\ Unset \notin Autonomy /\ Unset \notin Interaction

VARIABLES
  stage,      \* how far the team has come
  files,      \* [Folders -> AgentDoc or Missing]
  include,    \* the included documents
  local,      \* karo.yaml without its include
  doc,        \* the merged document
  compiled,   \* the compiled team
  manifest    \* the spec of the exported manifest

pipelineVars == <<stage, files, include, local, doc, compiled, manifest>>

Stage == {"source", "loaded", "compiled", "local", "exported", "running", "error", "rejected"}

EmptyDoc == [field \in Fields |-> Unset]

FolderSet == ToSet(Folders)

PipelineInit ==
  /\ stage = "source"
  /\ files \in {f \in [FolderSet -> UNION {AgentFiles[n] : n \in FolderSet}] :
                  \A n \in FolderSet : f[n] \in AgentFiles[n]}
  /\ include \in Includes /\ local \in Locals
  /\ doc = EmptyDoc
  /\ compiled = Unset /\ manifest = Unset

-----------------------------------------------------------------------------
\* value, or the default.
Or(value, default) == IF value = Unset THEN default ELSE value

\* deep_merge: mappings are merged, scalars and lists replaced.
Merge(base, overlay) == [field \in Fields |-> Or(overlay[field], base[field])]

Load ==
  /\ stage = "source"
  /\ IF Missing \in ToSet(include)
     THEN stage' = "error" /\ UNCHANGED doc
     ELSE /\ doc' = Merge(FoldLeft(Merge, EmptyDoc, include), local)
          /\ stage' = "loaded"
  /\ UNCHANGED <<files, include, local, compiled, manifest>>

\* The agents to compile: those that are listed, or else all there are.
Ordered ==
  IF doc.agents \in {Unset, <<>>}
  THEN Without(Folders, {name \in FolderSet : files[name] = Missing})
  ELSE [i \in DOMAIN doc.agents |-> doc.agents[i].name]

HasFile(name) == name \in FolderSet /\ files[name] # Missing

InlineOf(name) ==
  IF doc.agents = Unset THEN {}
  ELSE {i \in DOMAIN doc.agents : doc.agents[i].name = name /\ doc.agents[i].inline # Unset}

\* A folder's AGENT.md goes before an inline agent of that name.
SourceOf(name) ==
  IF HasFile(name) THEN [files[name] EXCEPT !.name = Or(@, name)]
  ELSE [doc.agents[CHOOSE i \in InlineOf(name) : \A j \in InlineOf(name) : j <= i].inline
          EXCEPT !.name = name]

\* The defaults of the models.
InteractionOf(settings) ==
  [autonomy |-> Or(settings.autonomy, "supervised"), guards |-> Or(settings.guards, {})]

ConfigOf(source) ==
  [harness |-> source.harness, permissionMode |-> source.permissionMode,
   interaction |-> IF source.interaction = Unset THEN Unset ELSE InteractionOf(source.interaction)]

TeamOf(names) ==
  [pattern |-> Or(doc.pattern, "lead-and-teammates"), lead |-> Or(doc.lead, NoAgent),
   reviewer |-> Or(doc.reviewer, NoAgent), stages |-> Or(doc.stages, <<>>),
   agents |-> [i \in DOMAIN names |-> SourceOf(names[i]).name],
   config |-> [i \in DOMAIN names |-> ConfigOf(SourceOf(names[i]))],
   harness |-> Or(doc.harness, "sdk"), permissionMode |-> Or(doc.permissionMode, "prompt"),
   interaction |-> InteractionOf(doc)]

Compile ==
  /\ stage = "loaded"
  /\ IF \E i \in DOMAIN Ordered : ~HasFile(Ordered[i]) /\ InlineOf(Ordered[i]) = {}
     THEN stage' = "error" /\ UNCHANGED compiled
     ELSE compiled' = TeamOf(Ordered) /\ stage' = "compiled"
  /\ UNCHANGED <<files, include, local, doc, manifest>>

IsTeam(t) == t \in CompiledTeam /\ Len(t.config) = Len(t.agents)

PipelineTypeOK ==
  /\ stage \in Stage
  /\ doc \in Doc
  /\ compiled # Unset => IsTeam(compiled)
  /\ manifest # Unset => IsTeam(manifest)

-----------------------------------------------------------------------------
\* What a Coordinator sees of an agent.  Of two agents of one name it has the
\* later; an agent's guards replace the team's.
IndexOfAgent(t, name) ==
  CHOOSE i \in DOMAIN t.agents :
    t.agents[i] = name /\ \A j \in (i + 1)..Len(t.agents) : t.agents[j] # name

GuardsOf(t, own) == IF own # Unset /\ own.guards # {} THEN own.guards ELSE t.interaction.guards

Behaviour(t, name) ==
  LET own == t.config[IndexOfAgent(t, name)]
  IN  [harness |-> Or(own.harness, t.harness),
       permissionMode |-> Or(own.permissionMode, t.permissionMode),
       autonomy |-> Or(own.interaction, t.interaction).autonomy,
       guards |-> GuardsOf(t, own.interaction)]

-----------------------------------------------------------------------------
LeadIsGiven(t) ==
  /\ t.pattern = "lead-and-teammates" <=> t.lead # NoAgent
  /\ t.pattern = "pipeline" <=> t.stages # <<>>

CoordinationIsSound(t) ==
  /\ t.reviewer \in Members(t) \cup {NoAgent}
  /\ IF t.pattern = "lead-and-teammates" THEN t.lead \in Members(t) ELSE t.lead = NoAgent
  /\ IF t.pattern = "pipeline"
     THEN t.stages # <<>> /\ ToSet(t.stages) \subseteq Members(t) /\ IsInjective(t.stages)
     ELSE t.stages = <<>>

\* No agent is autonomous and yet has to ask before it uses a tool.
NobodyAsksInVain(t) ==
  \A i \in DOMAIN t.config :
    ~(/\ Or(t.config[i].permissionMode, t.permissionMode) = "prompt"
      /\ Or(t.config[i].interaction, t.interaction).autonomy = "autonomous")

HarnessIsNamed(t) == \A i \in DOMAIN t.config : t.config[i].harness \in {Unset, "sdk"}

CanRunOnCluster(t) == \A i \in DOMAIN t.config : Or(t.config[i].harness, t.harness) = "sdk"

\* The validator finds no error.
IsClean(t, target) ==
  /\ t.agents # <<>> /\ IsInjective(t.agents)
  /\ CoordinationIsSound(t)
  /\ NobodyAsksInVain(t)
  /\ target = "cluster" => CanRunOnCluster(t)

\* karo run.
RunLocally ==
  /\ stage = "compiled"
  /\ stage' = IF IsClean(compiled, "local") THEN "local" ELSE "error"
  /\ UNCHANGED <<files, include, local, doc, compiled, manifest>>

-----------------------------------------------------------------------------
MaterializeTeam(t) ==
  [t EXCEPT !.config = [i \in DOMAIN @ |->
     [harness |-> t.harness, permissionMode |-> t.permissionMode, interaction |-> t.interaction]]]

\* materialized_spec: every agent gets what it left to the team, in full.
Materialize(t) ==
  [t EXCEPT !.config = [i \in DOMAIN @ |->
     [harness |-> Or(@[i].harness, t.harness),
      permissionMode |-> Or(@[i].permissionMode, t.permissionMode),
      interaction |-> Or(@[i].interaction, t.interaction)]]]

CoercedMode(config) ==
  IF config.permissionMode = "prompt" THEN [config EXCEPT !.permissionMode = "plan"] ELSE config

\* An agent that asks gets a guard instead: a pod has nobody to ask.
Coerced(config) ==
  IF config.permissionMode = "prompt"
  THEN [config EXCEPT !.permissionMode = "plan",
                      !.interaction.guards = @ \cup {"pauseBefore"}]
  ELSE config

ManifestOf(t) == [Materialize(t) EXCEPT !.config = [i \in DOMAIN @ |-> Coerced(@[i])]]

\* export_manifest does not validate; it may be told to let local harnesses pass.
Export(allowLocalHarness) ==
  /\ stage = "compiled"
  /\ IF CanRunOnCluster(compiled) \/ allowLocalHarness
     THEN /\ manifest' = ManifestOf(compiled)
          /\ stage' = "exported"
     ELSE stage' = "error" /\ UNCHANGED manifest
  /\ UNCHANGED <<files, include, local, doc, compiled>>

\* The rules of the CRD and validateTeam.
OperatorAccepts(t) ==
  /\ t.agents # <<>>
  /\ t.pattern = "lead-and-teammates" => t.lead # NoAgent
  /\ t.pattern = "pipeline" => t.stages # <<>>
  /\ CanRunOnCluster(t)
  /\ NobodyAsksInVain(t)

\* The pods read the manifest as a flat document.
Apply ==
  /\ stage = "exported"
  /\ stage' = IF OperatorAccepts(manifest) THEN "running" ELSE "rejected"
  /\ UNCHANGED <<files, include, local, doc, compiled, manifest>>

PipelineNext ==
  \/ Load \/ Compile \/ RunLocally
  \/ \E allowLocalHarness \in BOOLEAN : Export(allowLocalHarness)
  \/ Apply

PipelineSpec == PipelineInit /\ [][PipelineNext]_pipelineVars

-----------------------------------------------------------------------------
\* `karo validate --target cluster' and the operator agree on what can run: a
\* team that validates is exported and accepted.
CleanIsAccepted ==
  compiled # Unset /\ IsClean(compiled, "cluster") /\ (manifest # Unset \/ stage = "error") =>
    stage \in {"exported", "running"}

\* The type invariant with it.
PipelineInv == PipelineTypeOK /\ CleanIsAccepted

\* An agent has its own interaction, with no guard in it, and asks.
Shadows(name) ==
  LET own == compiled.config[IndexOfAgent(compiled, name)] IN
  /\ Behaviour(compiled, name).permissionMode = "prompt"
  /\ own.interaction # Unset /\ own.interaction.guards = {}

\* An agent acts in its pod as it does on the desk of who wrote it: same harness,
\* same autonomy, all of its guards, whether it had them or inherited them.  Not
\* so the guards of the agents that Shadows names: the guard export adds to their
\* own empty list replaces the team's.
ExportKeepsBehaviour ==
  stage = "running" =>
    \A name \in Members(compiled) :
      LET here == Behaviour(compiled, name)
          there == Behaviour(manifest, name)
      IN  /\ there.harness = here.harness /\ there.autonomy = here.autonomy
          /\ here.guards \subseteq there.guards \/ Shadows(name)
          /\ here.permissionMode # "prompt" => there = here

\* In a pod nobody waits for an answer on a terminal that is not there; who would
\* have asked, in a team that validates, stops for a human before its task.
AskersStop ==
  stage = "running" =>
    \A name \in Members(compiled) :
      /\ Behaviour(manifest, name).permissionMode # "prompt"
      /\ Behaviour(compiled, name).permissionMode = "prompt" /\ IsClean(compiled, "cluster") =>
           /\ "pauseBefore" \in Behaviour(manifest, name).guards
           /\ Behaviour(manifest, name).autonomy = "supervised"

\* The team that validates and runs can do what it plans: the agent that plans
\* and the owner and the reviewer of every task are agents of the team, so they
\* have pods.
PlannedWorkHasPods ==
  stage = "running" /\ IsClean(compiled, "cluster") =>
    /\ PlannerOf(manifest) \in Members(manifest)
    /\ \A i \in DOMAIN PlanTasks(manifest) :
         {PlanTasks(manifest)[i].owner, PlanTasks(manifest)[i].reviewer}
           \subseteq Members(manifest) \cup {NoAgent}
=============================================================================
