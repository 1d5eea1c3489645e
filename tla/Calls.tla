--------------------------------- MODULE Calls -------------------------------
(* One call of a tool or of a command, from its arguments to its answer.   *)
(* The steps of its program are taken in order; meanwhile its deadline may *)
(* pass, and the client may go away or the user press Ctrl-C, between any  *)
(* two units of work.  Of the arguments and the surroundings one thing may *)
(* be wrong.  What the answer says about being cut short is compared with  *)
(* what was really left undone.                                            *)
EXTENDS Commands, Integers, FiniteSets

CONSTANT Units           \* how many files, or rows, one stage of work has at most

ASSUME UnitsAssumption == Units \in Nat

VARIABLES
  prog,                  \* the tool or command called
  given,                 \* [wrong, timeout]: what is wrong with it, the limit it gets
  rest,                  \* the steps still to take
  todo,                  \* the units left in the stage that runs, or NoStage
  armed,                 \* does a deadline apply
  ctxErr,                \* what ended the context first: no, timeout, gone
  gone,                  \* has the caller's own context ended
  werr,                  \* the error the walks came back with: no, timeout, gone
  skipped,               \* units of work that were left undone
  touched,               \* has a unit of work been done
  mark,                  \* no, or the reason given for being cut short
  answer                 \* none yet, or: rows, error, and the exit codes

callVars ==
  <<prog, given, rest, todo, armed, ctxErr, gone, werr, skipped, touched, mark, answer>>
NoStage == -1
CallNames == DOMAIN Tools \cup DOMAIN Programs
ProgramOf(p) == IF p \in DOMAIN Tools THEN Tools[p] ELSE Programs[p]

(* Everything a program looks at can be what is wrong, or the walk itself, *)
(* or a negative verdict.                                                  *)
Looks == {"need", "valid", "within", "open", "expand", "follow", "page", "fetch", "walk", "verdict"}
ThingOf(s) == IF s.of = "all" THEN s.do ELSE s.of
Things(p) ==
  {"nothing"} \cup {ThingOf(ProgramOf(p)[i]) : i \in {j \in DOMAIN ProgramOf(p) :
                                                         ProgramOf(p)[j].do \in Looks}}

CallStart(p, g) ==
  /\ prog = p
  /\ given = g
  /\ rest = ProgramOf(p)
  /\ todo = NoStage
  /\ armed = FALSE
  /\ ctxErr = "no"
  /\ gone = FALSE
  /\ werr = "no"
  /\ skipped = 0
  /\ touched = FALSE
  /\ mark = "no"
  /\ answer = "none"

CallInit ==
  \E p \in CallNames, t \in {"none", "server", "call"} :
    \E w \in Things(p) : CallStart(p, [wrong |-> w, timeout |-> t])

-----------------------------------------------------------------------------
At(a) == answer = "none" /\ rest # <<>> /\ Head(rest).do = a
Pass == rest' = Tail(rest)
stageVars == <<todo, werr, skipped, touched>>
envVars == <<prog, given, ctxErr, gone>>

Finish(how) == answer' = how /\ rest' = <<>>
Wrong == given.wrong = ThingOf(Head(rest))
Reason(e) == IF e = "timeout" THEN "timeout" ELSE "client_cancel"

(* A guard of a handler: what is wrong is answered with an error at once.  *)
Guards == {"need", "valid", "expand", "follow", "within", "open", "page"}
Guard ==
  /\ \E a \in Guards : At(a)
  /\ IF Wrong THEN Finish("error") ELSE Pass /\ UNCHANGED answer
  /\ UNCHANGED <<envVars, stageVars, armed, mark>>

(* resolveTimeout: the call's own limit wins over the server's, and a      *)
(* limit of zero or less means none; a few tools take no limit of their    *)
(* own, and watching and warming always have one.                          *)
Applies(how) ==
  CASE how = "own" -> TRUE
    [] how = "server" -> given.timeout = "server"
    [] how = "flag" -> given.timeout = "call"
    [] OTHER -> given.timeout # "none"
ResolveTimeout ==
  /\ At("limit")
  /\ armed' = Applies(Head(rest).of)
  /\ Pass
  /\ UNCHANGED <<envVars, stageVars, mark, answer>>

Timeout ==
  /\ answer = "none" /\ armed /\ ctxErr = "no"
  /\ ctxErr' = "timeout"
  /\ UNCHANGED <<prog, given, rest, stageVars, armed, gone, mark, answer>>

ClientGone ==
  /\ answer = "none" /\ ~gone
  /\ gone' = TRUE
  /\ ctxErr' = IF ctxErr = "no" THEN "gone" ELSE ctxErr
  /\ UNCHANGED <<prog, given, rest, stageVars, armed, mark, answer>>

-----------------------------------------------------------------------------
(* Work.  A stage takes its units one by one and looks at the context      *)
(* before each.                                                            *)
Stages == {"walk", "loop", "lastGone", "soft", "fetch", "git", "fast"}
BeginStage ==
  /\ \E a \in Stages : At(a)
  /\ todo = NoStage
  /\ \E n \in (IF Head(rest).do \in {"fetch", "git"} THEN {1} ELSE 0 .. Units) : todo' = n
  /\ UNCHANGED <<envVars, rest, werr, skipped, touched, armed, mark, answer>>

Unit ==
  /\ todo > 0 /\ ctxErr = "no"
  /\ todo' = todo - 1
  /\ touched' = TRUE
  /\ UNCHANGED <<envVars, rest, werr, skipped, armed, mark, answer>>

Over == todo # NoStage /\ (todo = 0 \/ ctxErr # "no")
Leave(n) == todo' = NoStage /\ skipped' = skipped + n

(* WalkStream returns its own error, or else the context's, even when the  *)
(* context ended only after the last file.                                 *)
WalkEnds ==
  /\ At("walk") /\ Over
  /\ Leave(todo)
  /\ werr' = IF werr = "no" THEN ctxErr ELSE werr
  /\ IF given.wrong = "walk" THEN Finish("error") ELSE Pass /\ UNCHANGED answer
  /\ UNCHANGED <<envVars, touched, armed, mark>>

(* A loop just stops; the one over the callers of References says so.      *)
LoopEnds ==
  /\ (At("loop") \/ At("lastGone")) /\ Over
  /\ Leave(todo)
  /\ mark' = IF At("lastGone") /\ todo > 0 THEN "client_cancel" ELSE mark
  /\ Pass
  /\ UNCHANGED <<envVars, werr, touched, armed, answer>>

(* Type resolution that does not come to its end leaves the names' answer, *)
(* and says so: nothing of what is claimed was left undone.                *)
SoftEnds ==
  /\ At("soft") /\ Over
  /\ Leave(0)
  /\ Pass
  /\ UNCHANGED <<envVars, werr, touched, armed, mark, answer>>

(* One thing to fetch: it is there, or the call fails.                     *)
FetchEnds ==
  /\ At("fetch") /\ Over
  /\ Leave(todo)
  /\ IF todo > 0 \/ given.wrong = "fetch" THEN Finish("error") ELSE Pass /\ UNCHANGED answer
  /\ UNCHANGED <<envVars, werr, touched, armed, mark>>

After(a) == LET here == {i \in DOMAIN rest : rest[i].do = a}
            IN SubSeq(rest, (CHOOSE i \in here : \A j \in here : i <= j) + 1, Len(rest))

(* The set of changed files: a context that ends here gives an empty,      *)
(* marked answer; nothing changed ends the review as well.                 *)
GitEnds ==
  /\ At("git") /\ Over
  /\ Leave(todo)
  /\ IF todo > 0
     THEN mark' = IF ctxErr = "timeout" THEN "timeout" ELSE "interrupted"
     ELSE UNCHANGED mark
  /\ \/ todo > 0 /\ rest' = After("markReview")
     \/ todo = 0 /\ rest' \in {Tail(rest), After("markReview")}
  /\ UNCHANGED <<envVars, werr, touched, armed, answer>>

(* Dead code is left out of a review whose context has ended.              *)
WhileLive ==
  /\ At("whileLive")
  /\ IF ctxErr = "no" THEN rest' \in {Tail(rest), After("markBoth")} /\ UNCHANGED skipped
     ELSE rest' = After("markBoth") /\ skipped' = skipped + 1
  /\ UNCHANGED <<envVars, todo, werr, touched, armed, mark, answer>>

(* Warm vectors answer without a walk; when the context ends among the     *)
(* candidates the call falls back to the walk.  Cached members answer      *)
(* without opening the archive.                                            *)
FastEnds ==
  /\ At("fast") /\ Over
  /\ Leave(0)
  /\ rest' = IF todo = 0 THEN After("markOuter") ELSE Tail(rest)
  /\ UNCHANGED <<envVars, werr, touched, armed, mark, answer>>

NotFast ==
  /\ At("fast") /\ todo = NoStage
  /\ Pass
  /\ UNCHANGED <<envVars, stageVars, armed, mark, answer>>

Cached ==
  /\ At("cached")
  /\ rest' \in {Tail(rest), After("markBoth")}
  /\ UNCHANGED <<envVars, stageVars, armed, mark, answer>>

(* Watching goes on until the context ends, or enough events have come.    *)
WatchOn ==
  /\ At("watch")
  /\ ctxErr # "no" \/ prog = "watch_search"
  /\ Pass
  /\ UNCHANGED <<envVars, stageVars, armed, mark, answer>>

-----------------------------------------------------------------------------
(* How an engine or a handler tells that it was cut short.                 *)
MarkWalk(e) == IF e = "no" THEN mark ELSE Reason(e)
MarkBoth_WalkOnly(e, c) == IF e # "no" THEN Reason(e) ELSE mark
MarkBoth(e, c) == IF e # "no" THEN Reason(e) ELSE IF c # "no" THEN Reason(c) ELSE mark
MarkOuter(e) ==
  IF e = "no" THEN mark ELSE IF e = "timeout" /\ ~gone THEN "timeout" ELSE "client_cancel"
MarkReview(c) ==
  IF c = "no" THEN mark ELSE IF c = "timeout" THEN "timeout" ELSE "interrupted"

Mark ==
  /\ \/ At("markWalk") /\ mark' = MarkWalk(werr)
     \/ At("markBoth") /\ mark' = MarkBoth(werr, ctxErr)
     \/ At("markOuter") /\ mark' = MarkOuter(werr)
     \/ At("markReview") /\ mark' = MarkReview(ctxErr)
     \/ At("forget") /\ mark' = "no"
  /\ Pass
  /\ UNCHANGED <<envVars, stageVars, armed, answer>>

(* The answers: rows with or without a mark, and the exit codes.           *)
Answers ==
  /\ At("answer") \/ At("exit")
  /\ Finish("rows")
  /\ UNCHANGED <<envVars, stageVars, armed, mark>>

Whole ==
  /\ At("whole")
  /\ IF werr # "no" THEN Finish("error") ELSE Pass /\ UNCHANGED answer
  /\ UNCHANGED <<envVars, stageVars, armed, mark>>

ExitByContext ==
  IF gone THEN "130" ELSE IF armed /\ ctxErr = "timeout" THEN "124" ELSE "none"
ExitByReason == IF mark = "timeout" THEN "124" ELSE "130"
ExitByWalk == IF werr = "gone" THEN "130" ELSE "124"

Exits == {"exitContext", "exitReason", "exitTimeout", "exitWalk"}
ExitCode ==
  /\ \E a \in Exits :
       /\ At(a)
       /\ LET code == CASE a = "exitContext" -> ExitByContext
                        [] a = "exitReason" -> ExitByReason
                        [] a = "exitWalk" -> ExitByWalk
                        [] OTHER -> "124"
          IN IF mark = "no" \/ code = "none" THEN Pass /\ UNCHANGED answer ELSE Finish(code)
  /\ UNCHANGED <<envVars, stageVars, armed, mark>>

Verdict ==
  /\ At("verdict")
  /\ IF Wrong THEN Finish("1") ELSE Pass /\ UNCHANGED answer
  /\ UNCHANGED <<envVars, stageVars, armed, mark>>

CallNext ==
  \/ Guard \/ ResolveTimeout \/ Timeout \/ ClientGone
  \/ BeginStage \/ Unit \/ WalkEnds \/ LoopEnds \/ SoftEnds \/ FetchEnds \/ GitEnds \/ WhileLive
  \/ FastEnds \/ NotFast \/ Cached \/ WatchOn \/ Mark \/ Whole \/ ExitCode \/ Verdict \/ Answers

CallSpec == CallInit /\ [][CallNext]_callVars

-----------------------------------------------------------------------------
(* The programs whose answer does not say that it was cut short: the       *)
(* coverage report and the interface comparison have no place to say it;   *)
(* a tree comparison tells of its walks, and not of its last hashes.       *)
Silent == {"coverage_gaps", "coverage_gaps_cmd", "api_diff", "api_diff_cmd"}
LateLoop == {"diff_trees", "diff_cmd"}
Unmarked == Silent \cup LateLoop
(* The walk over the callers of References gives one reason for any end.   *)
OneReason == {"references", "references_cmd"}
(* These commands say "timed out" also when they were interrupted.         *)
OneExitCode == {p \in DOMAIN Programs : \E i \in DOMAIN ProgramOf(p) :
                  ProgramOf(p)[i].do = "exitTimeout"}

(* What is looked at only after the work: the cursor, ranking, the mode of *)
(* the importers' question, hybrid ranking, and the template of attrs.     *)
LateChecks == {"nothing", "walk", "fetch", "page", "bm25", "mode", "hybrid", "format"}

(* The order of steps that all programs keep, whatever they are about.  A  *)
(* step that can leave work undone is followed, with nothing but work in   *)
(* between, by one that tells it; one that can mark, by a choice of the    *)
(* exit code before any row is called complete; ...                        *)
Marks == {"markWalk", "markBoth", "markOuter", "markReview", "lastGone", "git"}
LooksAtContext == {"markBoth", "markReview"}
LooksAtWalk == LooksAtContext \cup {"markWalk", "markOuter", "whole"}
Completes == {"answer", "exit", "verdict"}
NextOf(r, i, these, between) ==
  \E m \in i + 1 .. Len(r) : /\ r[m].do \in these
                            /\ \A j \in i + 1 .. m - 1 : r[j].do \in between
Work == {"walk", "loop"}
CutTold(p, r, i) ==
  /\ p \notin Silent /\ r[i].do = "walk" => NextOf(r, i, LooksAtWalk, Work)
  /\ p \notin Unmarked /\ r[i].do = "loop" => NextOf(r, i, LooksAtContext, Work)
  /\ p \notin Unmarked /\ r[i].do = "whileLive" =>
       \E m \in i + 1 .. Len(r) - 1 : /\ r[m].do = "markBoth" /\ r[m + 1].do \in LooksAtContext
                                    /\ \A j \in i + 1 .. m - 1 : r[j].do # "markBoth"

(* ... what is checked after work began is one of the late checks; a limit *)
(* is set once; a step that jumps has somewhere to go; and the exit code is*)
(* chosen by what the program's marks can say.                             *)
Later(r, i) == {r[j] : j \in i + 1 .. Len(r)}
LaterDoes(r, i, a) == \E s \in Later(r, i) : s.do = a
StepsOrdered(p, r, i) ==
  /\ p \in DOMAIN Programs /\ r[i].do \in Marks =>
       NextOf(r, i, Exits \cup {"forget"}, STRING \ Completes)
  /\ r[i].do \in Stages => \A s \in Later(r, i) : s.do \in Guards => ThingOf(s) \in LateChecks
  /\ r[i].do = "limit" => ~LaterDoes(r, i, "limit")
  /\ r[i].do = "fast" => LaterDoes(r, i, "markOuter")
  /\ r[i].do \in {"cached", "whileLive"} => LaterDoes(r, i, "markBoth")
  /\ r[i].do = "git" => LaterDoes(r, i, "markReview")
  /\ r[i].do = "forget" => p \in Silent
  /\ r[i].do = "lastGone" => p \in OneReason
  /\ r[i].do = "exitReason" => p \notin OneReason
  /\ r[i].do = "exitTimeout" => p \in OneExitCode
  /\ r[i].do \in LooksAtContext \cup {"lastGone", "git"} => ~LaterDoes(r, i, "exitWalk")
Steps == [do : STRING, of : STRING]
WellOrdered(p, r) == \A i \in DOMAIN r : CutTold(p, r, i) /\ StepsOrdered(p, r, i)

(* Every tool and every command keeps it: a fact about finitely many fixed *)
(* sequences, which TLC establishes by evaluating it.                      *)
ASSUME ProgramsWellOrdered ==
  \A p \in CallNames : ProgramOf(p) \in Seq(Steps) /\ WellOrdered(p, ProgramOf(p))

(* An answer is honest about how it was cut short.  One without a mark has *)
(* all there is (walker.go, the cancellation blocks of the engines, the    *)
(* handlers' outputs, the commands' exit codes); a mark means that the     *)
(* context did end, and for the reason given; no command prints rows as    *)
(* complete, with exit code 0, that are marked inside; 124 and 130 tell a  *)
(* limit from an interruption; and a call refused for its arguments has    *)
(* not touched a file.  Nothing is claimed where the code departs from the *)
(* documentation: of the programs named above, in what is said of them.    *)
Excused(p, e) == p \in Silent \/ (p \in LateLoop /\ e = "no")

CallsHonest ==
  /\ answer \in {"rows", "1"} /\ mark = "no" /\ ~Excused(prog, werr) => skipped = 0
  /\ mark # "no" => ctxErr # "no"
  /\ skipped > 0 => ctxErr # "no"
  /\ answer # "none" /\ mark = "timeout" => ctxErr = "timeout"
  /\ answer # "none" /\ mark \in {"client_cancel", "interrupted"} => gone \/ prog \in OneReason
  /\ prog \in DOMAIN Programs /\ answer \in {"rows", "1"} => mark = "no"
  /\ answer = "124" => ctxErr = "timeout" \/ prog \in OneExitCode
  /\ answer = "130" => gone
  /\ answer = "error" /\ given.wrong \notin LateChecks /\ ctxErr = "no" => ~touched

(* README.md:588: "Every walking tool (...) honours the same partial-result*)
(* contract: on timeout the call returns `cancelled=true` with the results *)
(* gathered so far".  Of the tools it names, diff_trees breaks it: the     *)
(* limit may pass while the second tree is hashed (diff.go:223), and no    *)
(* walk is left that would notice.                                         *)
WalkingTools ==
  {"search", "stats", "find_duplicates", "find_near_duplicates", "find_duplicate_functions",
   "find_matches", "imported_by", "find_definition", "code_graph", "who_calls", "calls", "impact",
   "call_path", "dead_code", "test_gaps", "complexity", "find_projects", "diff_trees"}
WalkingToolsMarked ==
  prog \in WalkingTools /\ answer = "rows" /\ skipped > 0 /\ ctxErr = "timeout" => mark # "no"
=============================================================================
