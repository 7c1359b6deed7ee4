--------------------------- MODULE MCSpecPipeline ---------------------------
(***************************************************************************)
(* Two folders, an inline agent and a name nobody has; a document per      *)
(* pattern and per mistake in it.                                          *)
(***************************************************************************)
EXTENDS SpecPipeline

CONSTANTS a, b, reviewer, stranger

MCAgent   == {a, b, reviewer, stranger}
MCFolders == <<a, b>>

Interactions ==
  {Unset, [autonomy |-> Unset, guards |-> {"taskComplete"}],
   [autonomy |-> "autonomous", guards |-> Unset], [autonomy |-> "supervised", guards |-> {}],
   [autonomy |-> Unset, guards |-> {"pauseBefore"}]}

Plain == [name |-> Unset, harness |-> Unset, permissionMode |-> Unset, interaction |-> Unset]

AgentsLike(names, harnesses) ==
  [name : names, harness : harnesses, permissionMode : PermissionMode \cup {Unset},
   interaction : Interactions]

MCAgentFiles ==
  [n \in {a, b} |->
     IF n = a THEN AgentsLike({Unset, b}, {Unset, "sdk"}) ELSE {Plain, Missing}]

With(field, value) == [EmptyDoc EXCEPT ![field] = value]

MCIncludes ==
  {<<>>, <<Missing>>, <<With("lead", a)>>,
   <<With("autonomy", "autonomous"), [With("guards", {"taskComplete"}) EXCEPT !.lead = b]>>}

Inline == [name |-> reviewer, inline |-> [Plain EXCEPT !.permissionMode = "plan"]]

Lists ==
  {Unset, <<[name |-> b, inline |-> Unset], [name |-> a, inline |-> Unset], Inline>>,
   <<Inline, [name |-> stranger, inline |-> Unset]>>}

Coordinations ==
  {EmptyDoc, With("lead", stranger), With("reviewer", reviewer), With("pattern", "swarm"),
   [With("pattern", "pipeline") EXCEPT !.stages = <<b, a>>],
   [With("pattern", "pipeline") EXCEPT !.stages = <<a, stranger>>],
   [With("pattern", "pipeline") EXCEPT !.stages = <<a, a>>]}

MCLocals ==
  {[c EXCEPT !.agents = list, !.harness = h, !.permissionMode = p, !.autonomy = auto] :
     c \in Coordinations, list \in Lists, h \in {Unset, "claude-code"},
     p \in {Unset, "plan"}, auto \in {Unset, "autonomous", "supervised"}}
=============================================================================
