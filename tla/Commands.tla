------------------------------- MODULE Commands ------------------------------
(* The commands of the program, in the same form as the tools of Handlers: *)
(* each prints what it has, then decides on an exit code.                  *)
(*   exitContext  130 if the signal context was cancelled, 124 if a limit  *)
(*                was given and it is what ended the call                  *)
(*   exitReason   124 or 130 as the engine's reason says                   *)
(*   exitTimeout  124 whatever ended the call                              *)
(*   exitWalk     130 or 124 as the walk's error says                      *)
(*   verdict      exit code 1 when the answer itself is negative           *)
EXTENDS Handlers

Index == Open("index")
Shared == Limit("flag") \o Index
ExitContext == Do("exitContext") \o Do("exit")
ExitReason == Do("exitReason") \o Do("exit")
ExitTimeout == Do("exitTimeout") \o Do("exit")
Exit == Do("exit")

-----------------------------------------------------------------------------
SearchCmd ==
  Valid("format") \o Index \o Limit("flag") \o HashSets
  \o Need("model") \o Do("fetch") \o Need("hybrid") \o Walk \o Do("markWalk") \o ExitContext
StatsCmd == Shared \o StatsEngine \o ExitContext
DuplicatesCmd == Shared \o EqualEngine \o ExitContext
NearDuplicatesCmd == Shared \o NearEngine \o ExitContext
FindMatchesCmd ==
  Shared \o MatchesEngine \o Do("exitContext") \o Do("verdict") \o Exit
DiffCmd == Shared \o DiffEngine \o ExitContext
ArchiveContentsCmd == Shared \o ArchiveEngine \o ExitContext
ComplexityCmd == Shared \o ComplexityEngine \o ExitContext
DuplicateFunctionsCmd == Shared \o FunctionsEngine \o ExitReason
ReviewCmd == Shared \o ReviewEngine \o Do("exitReason") \o Do("verdict") \o Exit
FindProjectsCmd == Limit("flag") \o ProjectsEngine \o ExitReason
PresetCmd == Valid("preset") \o Index \o Walk \o Do("markWalk") \o Do("exitWalk") \o Exit
ChurnOwnersCmd == Shared \o ChurnEngine \o ExitTimeout
ReferencesCmd == Shared \o ReferencesEngine \o ExitTimeout
CouplingCmd == Shared \o ImportsEngine \o ExitTimeout
CircularCmd == Shared \o ImportsEngine \o ExitTimeout
UnusedExportsCmd == Shared \o ExportsEngine \o ExitTimeout
ApiDiffCmd == Shared \o ApiEngine \o Exit
CoverageGapsCmd == CoverageEngine \o Exit

(* The graph commands share how the graph is built and how they end.       *)
GraphBuild == Shared \o GraphEngine
GraphExit == ExitContext
ImportedByCmd == GraphBuild \o Valid("mode") \o GraphExit
FindDefinitionCmd == GraphBuild \o GraphExit
CodeGraphCmd == GraphBuild \o GraphExit
WhoCallsCmd == GraphBuild \o ResolveEngine \o GraphExit
TestGapsCmd == GraphBuild \o GraphExit
DeadCodeCmd == GraphBuild \o ResolveEngine \o GraphExit
CallPathCmd == GraphBuild \o GraphExit
ImpactCmd == GraphBuild \o ResolveEngine \o GraphExit
CallsCmd == GraphBuild \o GraphExit
TraceCmd == GraphBuild \o GraphExit

-----------------------------------------------------------------------------
ArchiveReadCmd == Limit("flag") \o MemberEngine \o Exit
LinesCmd == Open("file") \o Do("fetch") \o Exit
AttrsCmd == Open("file") \o Index \o HashSets \o Do("fetch") \o Valid("format") \o Exit
EmbedListCmd == Do("fetch") \o Exit
EmbedPullCmd == Do("fetch") \o Exit
EmbedWarmCmd ==
  Index \o Limit("own") \o Do("fetch") \o Walk \o Do("whole") \o Exit
WatchCmd == Valid("root") \o Valid("format") \o Index \o Do("watch") \o Exit
HashSetBuildCmd == Open("input") \o Open("output") \o Exit
HashSetInfoCmd == Open("set") \o Exit
ValidateCmd == Do("verdict") \o Exit
WhichProjectCmd == Do("verdict") \o Exit
DetectCmd == Exit
ConfigPathsCmd == Exit
MonitorsCmd == Exit
IndexStatsCmd == Index \o Exit

Programs ==
  [search_cmd |-> SearchCmd, stats_cmd |-> StatsCmd, duplicates_cmd |-> DuplicatesCmd,
   near_duplicates_cmd |-> NearDuplicatesCmd, find_matches_cmd |-> FindMatchesCmd,
   diff_cmd |-> DiffCmd, archive_contents_cmd |-> ArchiveContentsCmd,
   complexity_cmd |-> ComplexityCmd, duplicate_functions_cmd |-> DuplicateFunctionsCmd,
   review_cmd |-> ReviewCmd, find_projects_cmd |-> FindProjectsCmd, preset_cmd |-> PresetCmd,
   churn_owners_cmd |-> ChurnOwnersCmd, references_cmd |-> ReferencesCmd,
   coupling_cmd |-> CouplingCmd, circular_cmd |-> CircularCmd,
   unused_exports_cmd |-> UnusedExportsCmd, api_diff_cmd |-> ApiDiffCmd,
   coverage_gaps_cmd |-> CoverageGapsCmd, imported_by_cmd |-> ImportedByCmd,
   find_definition_cmd |-> FindDefinitionCmd, code_graph_cmd |-> CodeGraphCmd,
   who_calls_cmd |-> WhoCallsCmd, test_gaps_cmd |-> TestGapsCmd, dead_code_cmd |-> DeadCodeCmd,
   call_path_cmd |-> CallPathCmd, impact_cmd |-> ImpactCmd, calls_cmd |-> CallsCmd,
   trace_cmd |-> TraceCmd, archive_read_cmd |-> ArchiveReadCmd, lines_cmd |-> LinesCmd,
   attrs_cmd |-> AttrsCmd, embed_list_cmd |-> EmbedListCmd, embed_pull_cmd |-> EmbedPullCmd,
   embed_warm_cmd |-> EmbedWarmCmd, watch_cmd |-> WatchCmd, hashset_build_cmd |-> HashSetBuildCmd,
   hashset_info_cmd |-> HashSetInfoCmd, validate_cmd |-> ValidateCmd,
   which_project_cmd |-> WhichProjectCmd, detect_cmd |-> DetectCmd,
   config_paths_cmd |-> ConfigPathsCmd, monitors_cmd |-> MonitorsCmd,
   index_stats_cmd |-> IndexStatsCmd]
=============================================================================
