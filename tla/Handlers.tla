------------------------------- MODULE Handlers ------------------------------
(* The MCP tools and the engines they call, each written as the sequence   *)
(* of its steps in the order the code takes them.  What a step does to a   *)
(* call is said once, in module Calls; here is only which steps there are. *)
(* A step is [do, of]: what is done and to which input.                    *)
(*   need, valid     a required input is missing, a value is not accepted  *)
(*   expand, within, follow   ~ expanded, path inside the allowed roots,   *)
(*                   symbolic links refused when there are such roots      *)
(*   open            something that may fail is opened or asked for        *)
(*   limit           the deadline starts, see Calls                        *)
(*   walk, loop, last, fetch, soft, fast   work, see Calls                 *)
(*   mark...         how the engine decides that it was cut short          *)
(*   page            one page of the rows is cut out with a cursor         *)
EXTENDS Sequences

Do(a) == <<[do |-> a, of |-> "all"]>>
With(a, x) == <<[do |-> a, of |-> x]>>
Need(x) == With("need", x)
Valid(x) == With("valid", x)
Within(x) == With("within", x)
Open(x) == With("open", x)
Limit(x) == With("limit", x)

(* After the walk the rows that came back are sorted or counted.           *)
Walk == Do("walk")

-----------------------------------------------------------------------------
(* Engines.  Most look at the walk's error; the ones that work on after    *)
(* the walk also look at the context when they end.                        *)
GraphEngine == Walk \o Do("markBoth")
StatsEngine == Walk \o Do("markWalk")
ChurnEngine == Walk \o Do("markWalk")
ImportsEngine == Walk \o Do("markWalk")
ExportsEngine == Walk \o Do("markWalk")
ComplexityEngine == Walk \o Do("markBoth")
MatchesEngine == Walk \o Do("loop") \o Do("markBoth")
EqualEngine == Walk \o Do("loop") \o Do("markBoth")
NearEngine == Walk \o Do("loop") \o Do("loop") \o Do("markBoth")
FunctionsEngine == Walk \o Do("loop") \o Do("loop") \o Do("markBoth")
DiffEngine == Walk \o Do("loop") \o Walk \o Do("loop") \o Do("markWalk")
ApiEngine == GraphEngine \o GraphEngine \o Do("forget")
ReferencesEngine == GraphEngine \o Do("lastGone")
CoverageEngine == Open("profile") \o Do("loop")
ArchiveEngine == Open("archive") \o Do("cached") \o Do("loop") \o Do("markBoth")
ResolveEngine == Do("soft")
ReviewEngine ==
  Do("git") \o ComplexityEngine \o Do("whileLive") \o GraphEngine \o Do("markReview")
ProjectsEngine == Do("loop") \o Do("markBoth")
LinesEngine == Open("file") \o Do("fetch")
MemberEngine == Open("archive") \o Open("entry") \o Do("fetch")

-----------------------------------------------------------------------------
(* What comes before the engine in every tool that walks a tree.           *)
Roots == Do("expand") \o Do("follow") \o Within("dir") \o Within("dirs")
GraphOptions == Roots \o Limit("call")
HashSets == Open("allowlist") \o Open("denylist")
HashPaths == Within("allowlist") \o Within("denylist")
TwoTrees ==
  Do("expand") \o Need("tree_a") \o Need("tree_b") \o Do("follow") \o Within("tree_a")
  \o Within("tree_b")
OneFile == Need("path") \o Do("expand") \o Within("path")
Page == Do("page")
Reply == Do("answer")

SearchTool ==
  Valid("fields") \o Roots \o HashPaths \o Limit("call") \o HashSets \o Walk
  \o Do("markOuter") \o Open("bm25") \o Page \o Reply
SemanticTool ==
  Need("query") \o Need("model") \o Roots \o Limit("call") \o Do("fetch") \o Do("fast") \o Walk
  \o Do("markOuter") \o Open("bm25") \o Page \o Reply
StatsTool == Roots \o Limit("call") \o StatsEngine \o Page \o Reply
FindMatchesTool ==
  Need("pattern") \o Roots \o Limit("call") \o MatchesEngine \o Page \o Reply
DuplicatesTool == Roots \o Limit("call") \o EqualEngine \o Reply
NearDuplicatesTool == Roots \o Limit("call") \o NearEngine \o Page \o Reply
DuplicateFunctionsTool == Roots \o Limit("call") \o FunctionsEngine \o Reply
DiffTool == TwoTrees \o Valid("op") \o Limit("call") \o DiffEngine \o Reply
ApiDiffTool == TwoTrees \o Limit("call") \o ApiEngine \o Reply
ChurnOwnersTool == Roots \o Limit("call") \o ChurnEngine \o Reply
QueryPresetTool ==
  Valid("name") \o Valid("timeout") \o Limit("call") \o Walk \o Do("markWalk") \o Reply

ImportedByTool == Need("module") \o GraphOptions \o GraphEngine \o Valid("mode") \o Reply
FindDefinitionTool ==
  Need("symbol") \o Valid("kind") \o GraphOptions \o GraphEngine \o Reply
CodeGraphTool == GraphOptions \o GraphEngine \o Reply
WhoCallsTool == Need("symbol") \o GraphOptions \o GraphEngine \o ResolveEngine \o Reply
DeadCodeTool == GraphOptions \o GraphEngine \o ResolveEngine \o Reply
ImpactTool == Need("symbol") \o GraphOptions \o GraphEngine \o ResolveEngine \o Reply
CallPathTool == Need("from") \o Need("to") \o GraphOptions \o GraphEngine \o Reply
TestGapsTool == GraphOptions \o GraphEngine \o Reply
CallsTool == Need("symbol") \o GraphOptions \o GraphEngine \o Reply
TraceTool == Need("symbol") \o GraphOptions \o GraphEngine \o Reply
ReferencesTool ==
  Need("symbol") \o Valid("kind") \o GraphOptions \o ReferencesEngine \o Reply
ComplexityTool == GraphOptions \o ComplexityEngine \o Reply
CouplingTool == GraphOptions \o ImportsEngine \o Reply
CircularTool == GraphOptions \o ImportsEngine \o Reply
UnusedExportsTool == GraphOptions \o ExportsEngine \o Reply
ReviewTool == GraphOptions \o ReviewEngine \o Reply
CoverageGapsTool ==
  Need("profile") \o Do("expand") \o Within("profile") \o Within("dir") \o Limit("call")
  \o CoverageEngine \o Reply

ListArchiveTool ==
  Do("expand") \o Need("path") \o Within("path") \o Limit("call") \o ArchiveEngine \o Reply
ReadInArchiveTool ==
  Do("expand") \o Need("archive_path") \o Need("entry_path") \o Within("archive_path")
  \o Limit("call") \o MemberEngine \o Reply
ReadLinesTool == OneFile \o Limit("server") \o LinesEngine \o Reply
ReadAttributesTool ==
  Need("path") \o Valid("fields") \o Do("expand") \o Within("path") \o HashPaths
  \o Limit("server") \o HashSets \o Do("fetch") \o Reply
FindProjectsTool ==
  Need("dir") \o Do("expand") \o Within("dir") \o Limit("call") \o ProjectsEngine \o Reply
DetectProjectTool ==
  Need("dir") \o Do("expand") \o Within("dir") \o Limit("server") \o Reply
ResolveProjectTool == OneFile \o Limit("server") \o Reply
WatchSearchTool ==
  Do("expand") \o Within("dir") \o Within("dirs") \o Limit("own") \o Do("watch") \o Reply
ListModelsTool == Do("fetch") \o Reply
PullModelTool == Need("name") \o Do("fetch") \o Reply
ListAttributesTool == Valid("section") \o Reply
MonitorInfoTool == Open("dashboard") \o Reply
IndexStatsTool == Reply
ListPresetsTool == Reply
ValidateExprTool == Reply

Tools ==
  [search |-> SearchTool, search_semantic |-> SemanticTool, stats |-> StatsTool,
   find_matches |-> FindMatchesTool, find_duplicates |-> DuplicatesTool,
   find_near_duplicates |-> NearDuplicatesTool,
   find_duplicate_functions |-> DuplicateFunctionsTool, diff_trees |-> DiffTool,
   api_diff |-> ApiDiffTool, churn_owners |-> ChurnOwnersTool, query_preset |-> QueryPresetTool,
   imported_by |-> ImportedByTool, find_definition |-> FindDefinitionTool,
   code_graph |-> CodeGraphTool, who_calls |-> WhoCallsTool, dead_code |-> DeadCodeTool,
   impact |-> ImpactTool, call_path |-> CallPathTool, test_gaps |-> TestGapsTool,
   calls |-> CallsTool, trace |-> TraceTool, references |-> ReferencesTool,
   complexity |-> ComplexityTool, coupling |-> CouplingTool, circular |-> CircularTool,
   unused_exports |-> UnusedExportsTool, review |-> ReviewTool, coverage_gaps |-> CoverageGapsTool,
   list_archive_contents |-> ListArchiveTool, read_file_in_archive |-> ReadInArchiveTool,
   read_lines |-> ReadLinesTool, read_attributes |-> ReadAttributesTool,
   find_projects |-> FindProjectsTool, detect_project |-> DetectProjectTool,
   resolve_project |-> ResolveProjectTool, watch_search |-> WatchSearchTool,
   list_embedding_models |-> ListModelsTool, pull_embedding_model |-> PullModelTool,
   list_attributes |-> ListAttributesTool, monitor_info |-> MonitorInfoTool,
   index_stats |-> IndexStatsTool, list_presets |-> ListPresetsTool,
   validate_expr |-> ValidateExprTool]
=============================================================================
