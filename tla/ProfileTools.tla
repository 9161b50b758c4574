---------------------------- MODULE ProfileTools ----------------------------
(***************************************************************************)
(* agent.py, tool_schema.py: which of the server's tools a profile sees,   *)
(* the copy of the list that its agent keeps, and, in adaptive mode, the   *)
(* tools of which a request has loaded the schemas.                        *)
(*                                                                         *)
(* Tools are numbered in the order of their names.  Settings are [mode,    *)
(* control, shared, own]: the kinds of tools that the shared settings and  *)
(* the profile enable.  Requests of a profile use its agent side by side;  *)
(* while one waits for the server, others change the kept list, settings   *)
(* are saved, and a reload changes which tools there are and what they do. *)
(***************************************************************************)
EXTENDS Integers, FiniteSets, SequencesExt, TLC

CONSTANTS
  Absent,        \* what is not there or not given
  ToolNames,     \* every tool that some version of the server's tools has
  Base,          \* LIGHT_CONTEXT_TOOL_NAMES
  OptionalKinds, \* what settings enable: "external", built-in packages, families
  KindOf,        \* the kind of a tool: one of those, or "core"
  Versions,      \* versions of the server's tools, from reload to reload
  ListedIn,      \* the tools of a version
  ReadingIn,     \* those of them that only read
  AllSettings, FirstSettings, FirstVersion,
  Askers,        \* requests of the profile
  MaxToolChanges \* bound: saves of settings and reloads

ASSUME ProfileToolsAssumption ==
  /\ Base \subseteq ToolNames
  /\ "core" \notin OptionalKinds
  /\ KindOf \in [ToolNames -> OptionalKinds \cup {"core"}]
  /\ ListedIn \in [Versions -> SUBSET ToolNames] /\ ReadingIn \in [Versions -> SUBSET ToolNames]
  /\ AllSettings \subseteq [mode : {"standard", "light"}, control : BOOLEAN,
                       shared : SUBSET OptionalKinds, own : SUBSET OptionalKinds]
  /\ FirstSettings \in AllSettings /\ FirstVersion \in Versions
  /\ MaxToolChanges \in Nat

VARIABLES
  inForce,  \* the settings
  serving,  \* the version of the server's tools
  toolCache,   \* _cached_profile_mcp_tools with its key and age, or Absent
  awaited,  \* what each request waits for
  lastList,    \* history: the list that the last step gave, and what is allowed
  lastRun,     \* history: the tool that the last step ran, and whether it may be used
  toolChanges  \* how many changes there were

profileToolVars == <<inForce, serving, toolCache, awaited, lastList, lastRun, toolChanges>>

-----------------------------------------------------------------------------
\* A tool that is gone is not recognised as an external one.
KindNow(version, tool) ==
  IF KindOf[tool] = "external" /\ tool \notin ListedIn[version] THEN "core" ELSE KindOf[tool]

\* _is_tool_configured_for_profile
Configured(settings, version, tool) ==
  KindNow(version, tool) \in {"core"} \cup (settings.shared \cap settings.own)

\* The server's _is_tool_enabled: external tools are there as long as they are loaded.
Served(settings, version) ==
  {t \in ListedIn[version] : KindOf[t] \in {"core", "external"} \cup settings.shared}

\* _filter_mcp_tools_for_profile, of a list that says which of its tools only read
Filtered(settings, version, list) ==
  {t \in list.tools : /\ Configured(settings, version, t)
                      /\ settings.control \/ t \in list.reading
                      /\ settings.mode = "light" => t \in Base}

ListNow(settings, version) ==
  [tools |-> Served(settings, version), reading |-> ReadingIn[version]]

\* Mutant: the key does not say whether the profile may control anything.
KeyWithoutControl(settings, version) ==
  [mode |-> settings.mode, version |-> version, enabled |-> settings.shared \cap settings.own]

\* _build_mcp_tool_cache_key
Key(settings, version) ==
  [mode |-> settings.mode, control |-> settings.control, version |-> version,
   enabled |-> settings.shared \cap settings.own]

-----------------------------------------------------------------------------
(* `right` is history: nothing has changed since the request began to wait.     *)

Resting == [at |-> "rest"]

ProfileToolsInit ==
  /\ inForce = FirstSettings /\ serving = FirstVersion
  /\ toolCache = Absent
  /\ awaited = [a \in Askers |-> Resting]
  /\ lastList = Absent /\ lastRun = Absent
  /\ toolChanges = 0

Quiet == lastList' = Absent /\ lastRun' = Absent

Changed ==
  /\ toolChanges < MaxToolChanges
  /\ toolChanges' = toolChanges + 1
  /\ awaited' = [a \in Askers |->
       IF awaited[a].at = "rest" THEN Resting ELSE [awaited[a] EXCEPT !.right = FALSE]]
  /\ Quiet /\ UNCHANGED toolCache

ChooseSettings == \E s \in AllSettings \ {inForce} : inForce' = s /\ Changed /\ UNCHANGED serving
ReloadTools == \E v \in Versions \ {serving} : serving' = v /\ Changed /\ UNCHANGED inForce

\* MCP_TOOL_CACHE_TTL_SECONDS pass.
ListAges ==
  /\ toolCache # Absent /\ ~toolCache.old
  /\ toolCache' = [toolCache EXCEPT !.old = TRUE]
  /\ Quiet /\ UNCHANGED <<inForce, serving, awaited, toolChanges>>

Tell(list, right) ==
  /\ lastList' = [list |-> list, right |-> right,
              allowed |-> Filtered(inForce, serving, ListNow(inForce, serving))]
  /\ lastRun' = Absent

KeptFor(key) == toolCache # Absent /\ toolCache.key = key

\* _get_profile_mcp_tools, as far as the request to the server
AskForTools(a) ==
  LET key == Key(inForce, serving)
  IN  /\ awaited[a].at = "rest"
      /\ IF KeptFor(key) /\ ~toolCache.old
         THEN Tell(toolCache.list, toolCache.right) /\ UNCHANGED awaited
         ELSE /\ awaited' = [awaited EXCEPT ![a] = [at |-> "fetch", key |-> key, right |-> TRUE]]
              /\ Quiet
      /\ UNCHANGED <<inForce, serving, toolCache, toolChanges>>

\* tools/list on the server: the answer is on its way.
ServerLists(a) ==
  /\ awaited[a].at = "fetch"
  /\ awaited' = [awaited EXCEPT ![a] =
       [at |-> "answer", key |-> @.key, right |-> @.right, list |-> ListNow(inForce, serving)]]
  /\ Quiet
  /\ UNCHANGED <<inForce, serving, toolCache, toolChanges>>

\* The answer is filtered by the settings of now and kept under the key of before.
TakeList(a) ==
  LET list == Filtered(inForce, serving, awaited[a].list)
  IN  /\ awaited[a].at = "answer"
      /\ toolCache' = [list |-> list, key |-> awaited[a].key, old |-> FALSE, right |-> awaited[a].right]
      /\ Tell(list, awaited[a].right)
      /\ awaited' = [awaited EXCEPT ![a] = Resting]
      /\ UNCHANGED <<inForce, serving, toolChanges>>

\* No answer comes: what is kept under the key of before will do, however old.
FetchFails(a) ==
  /\ awaited[a].at \in {"fetch", "answer"}
  /\ IF KeptFor(awaited[a].key)
     THEN Tell(toolCache.list, toolCache.right /\ awaited[a].right)
     ELSE Tell(Absent, FALSE)
  /\ awaited' = [awaited EXCEPT ![a] = Resting]
  /\ UNCHANGED <<inForce, serving, toolCache, toolChanges>>

\* _call_mcp_tool, for any tool that a model names: a call that is refused changes
\* nothing.  What a tool that is gone does is as the agent remembers it.
CallTool(a) ==
  /\ awaited[a].at = "rest"
  /\ \E t \in ToolNames, remembered \in BOOLEAN :
       /\ Configured(inForce, serving, t)
       /\ inForce.control \/ (IF t \in ListedIn[serving] THEN t \in ReadingIn[serving] ELSE remembered)
       /\ awaited' = [awaited EXCEPT ![a] = [at |-> "call", tool |-> t, right |-> TRUE]]
  /\ Quiet
  /\ UNCHANGED <<inForce, serving, toolCache, toolChanges>>

MayUse(settings, version, tool) ==
  /\ tool \in ListedIn[version]
  /\ KindOf[tool] = "core" \/ KindOf[tool] \in settings.shared \cap settings.own
  /\ settings.control \/ tool \in ReadingIn[version]

\* handle_tool_call, unless the call is lost: a tool that is not served does not run.
CallEnds(a) ==
  /\ awaited[a].at = "call"
  /\ \/ /\ awaited[a].tool \in Served(inForce, serving)
        /\ lastRun' = [tool |-> awaited[a].tool, right |-> awaited[a].right,
                   allowed |-> MayUse(inForce, serving, awaited[a].tool)]
        /\ lastList' = Absent
     \/ Quiet
  /\ awaited' = [awaited EXCEPT ![a] = Resting]
  /\ UNCHANGED <<inForce, serving, toolCache, toolChanges>>

ProfileToolsNext ==
  \/ ChooseSettings \/ ReloadTools \/ ListAges
  \/ \E a \in Askers : \/ AskForTools(a) \/ ServerLists(a) \/ TakeList(a) \/ FetchFails(a)
                       \/ CallTool(a) \/ CallEnds(a)

ProfileToolsSpec == ProfileToolsInit /\ [][ProfileToolsNext]_profileToolVars

-----------------------------------------------------------------------------
(* Properties *)

\* A list is what the settings allow when it is given, whether it was just
\* fetched, kept from another request, over any number of changes and reloads
\* since then, or given because the server does not answer: unless something
\* changed while it was fetched, or while a request waited in vain for a newer one.
SeesWhatIsAllowed ==
  lastList # Absent /\ lastList.right => lastList.list = lastList.allowed

\* A tool that runs is one that the settings allow and, without control, one that
\* only reads, whatever list it was taken from, unless something changed between
\* the agent's check and the server.
RunsWhatIsAllowed ==
  lastRun # Absent /\ lastRun.right => lastRun.allowed

\* A profile sees and uses the tools that its settings allow.
ToolsAllowed == SeesWhatIsAllowed /\ RunsWhatIsAllowed

-----------------------------------------------------------------------------
(* Adaptive mode.  A text or a query is related to each tool: it may name it,   *)
(* match it strongly or weakly, not match it, or say not to use it.             *)

MostPreloads == 2  \* ADAPTIVE_PRELOAD_SCHEMA_LIMIT, and the most that a query loads
MostNamed == 2     \* Bound: at most 8 tools are loaded by name.

Rank == "named" :> 3 @@ "strong" :> 2 @@ "weak" :> 1 @@ "no" :> 0 @@ "not" :> 0

First(seq, n) == SubSeq(seq, 1, IF Len(seq) < n THEN Len(seq) ELSE n)

\* The best first, and by name among equals.
Best(tools, match, least, n) ==
  First(SetToSortSeq({t \in tools : Rank[match[t]] >= least},
                     LAMBDA a, b : \/ Rank[match[a]] > Rank[match[b]]
                                   \/ Rank[match[a]] = Rank[match[b]] /\ a < b), n)

\* rank_adaptive_tool_preloads
Preloads(visible, match) == ToSet(Best(visible \ Base, match, Rank["strong"], MostPreloads))

\* _select_retained_adaptive_tool_names: `used` are the tools of the turn before.
RetainedTools(visible, match, used, topic, preloads) ==
  LET fits(t) == t \in visible \ (Base \cup preloads) /\ match[t] # "not"
      recent == SelectSeq(Reverse(used), fits)
      distinct == SelectSeq([i \in DOMAIN recent |-> i],
                            LAMBDA i : \A j \in 1 .. i - 1 : recent[j] # recent[i])
      chosen == {recent[i] : i \in ToSet(First(distinct, MostPreloads - Cardinality(preloads)))}
  IN  IF topic \/ \E t \in chosen : Rank[match[t]] > 0 THEN chosen ELSE {}

\* _prepare_adaptive_tools_for_request
Prepared(visible, match, used, topic) ==
  LET preloads == Preloads(visible, match)
  IN  preloads \cup RetainedTools(visible, match, used, topic, preloads)

\* match_adaptive_tool_definitions
Matching(tools, names, match, n) ==
  CASE names # <<>> ->
         LET found == SelectSeq(names, LAMBDA t : t \in tools) IN First(found, n)
    [] names = <<>> /\ match = Absent -> First(SetToSortSeq(tools \ Base, <), n)
    [] OTHER -> Best(tools, match, 1, n)

\* The names are distinct, as _normalize_requested_tool_names makes them.
Limit(asked) ==
  LET most == IF asked.names # <<>> \/ asked.match = Absent THEN MostNamed ELSE MostPreloads
  IN  IF asked.limit = Absent \/ asked.limit > most THEN most ELSE asked.limit

Candidates(visible, loaded, asked) ==
  IF asked.names = <<>> /\ asked.match # Absent THEN visible \ (Base \cup loaded) ELSE visible

\* _handle_adaptive_meta_tool, load_tool_schemas
Load(visible, loaded, asked) ==
  LET found == Matching(Candidates(visible, loaded, asked), asked.names, asked.match, Limit(asked))
  IN  [found |-> found, loaded |-> loaded \cup ToSet(found),
       missing |-> SelectSeq(asked.names, LAMBDA t : t \notin ToSet(found))]

\* build_adaptive_llm_tools: the tools of the next question to the model.
Offered(visible, loaded) == visible \cap (Base \cup loaded)
=============================================================================
