---------------------------- MODULE FindMatches -----------------------------
(***************************************************************************)
(* grep over search results (internal/search/findmatches.go): a walk       *)
(* collects candidate files, then a pool of workers scans them line by     *)
(* line and adds what it finds under one mutex.  The context may end at    *)
(* any moment, which the feeder, a worker between two files and the        *)
(* scanner between two lines notice by themselves.                         *)
(*                                                                         *)
(* A line is "hit" (it matches pattern and role), "plain", or "long" (it   *)
(* exceeds the scanner's cap, which ends the scan of its file).  A file    *)
(* that cannot be opened, or has no text, has no lines.  Of the lines      *)
(* before and after a match only their number is kept.                     *)
(***************************************************************************)
EXTENDS Integers, Sequences, FiniteSets, FiniteSetsExt

CONSTANTS
  Texts,     \* lines of each candidate
  Scanners,  \* workers
  CtxBefore, \* ContextBefore
  CtxAfter,  \* ContextAfter
  PerFile    \* MaxMatchesPerFile, 0 for no limit

Docs == DOMAIN Texts
Found == [doc : Docs, line : Nat \ {0}, before : 0 .. CtxBefore, after : 0 .. CtxAfter]

ASSUME FindMatchesAssumption ==
  /\ IsFiniteSet(Docs) /\ {"idle", "left"} \cap Docs = {} /\ Scanners # {}
  /\ \A d \in Docs : Texts[d] \in Seq({"hit", "plain", "long"})
  /\ CtxBefore \in Nat /\ CtxAfter \in Nat /\ PerFile \in Nat

VARIABLES
  grepCtx,   \* "live" or "done"
  stage,     \* "walking", "feeding", "closed", "returned"
  feed,      \* candidates not yet queued
  queue,     \* jobs
  job,       \* each worker: "idle", "left", or the file it scans
  at,        \* lines it has read of it
  hits,      \* matches it has found there
  cut,       \* it has met a line over the cap
  matches,   \* allMatches
  scanned,   \* filesScanned
  withHits,  \* filesWithMatches
  overlong,  \* truncatedFiles
  cancelled  \* out.Cancelled

grepVars == <<grepCtx, stage, feed, queue, job, at, hits, cut, matches, scanned,
              withHits, overlong, cancelled>>
scanVars == <<at, hits, cut>>
totalVars == <<matches, scanned, withHits, overlong>>

GrepInit ==
  /\ grepCtx = "live" /\ stage = "walking"
  /\ feed = {} /\ queue = <<>>
  /\ job = [w \in Scanners |-> "idle"] /\ at = [w \in Scanners |-> 0]
  /\ hits = [w \in Scanners |-> {}] /\ cut = [w \in Scanners |-> FALSE]
  /\ matches = {} /\ scanned = 0 /\ withHits = 0 /\ overlong = {}
  /\ cancelled = FALSE

GrepCancel ==
  /\ grepCtx = "live" /\ stage # "returned" /\ grepCtx' = "done"
  /\ UNCHANGED <<stage, feed, queue, job, scanVars, totalVars, cancelled>>

-----------------------------------------------------------------------------
(* Walk gives everything, or some of it when the context is done.          *)
WalkDone ==
  /\ stage = "walking" /\ stage' = "feeding"
  /\ feed' \in IF grepCtx = "live" THEN {Docs} ELSE SUBSET Docs
  /\ UNCHANGED <<grepCtx, queue, job, scanVars, totalVars, cancelled>>

(* The feeder's select: with room and a done context Go picks either.      *)
Feed(d) ==
  /\ stage = "feeding" /\ d \in feed /\ Len(queue) < 2 * Cardinality(Scanners)
  /\ queue' = Append(queue, d) /\ feed' = feed \ {d}
  /\ UNCHANGED <<grepCtx, stage, job, scanVars, totalVars, cancelled>>

CloseFeed ==
  /\ stage = "feeding" /\ (feed = {} \/ grepCtx = "done")
  /\ stage' = "closed"
  /\ UNCHANGED <<grepCtx, feed, queue, job, scanVars, totalVars, cancelled>>

(* A worker that sees the done context drops the file it has just taken.   *)
TakeDoc(w) ==
  /\ job[w] = "idle" /\ queue # <<>>
  /\ queue' = Tail(queue)
  /\ job' = [job EXCEPT ![w] = IF grepCtx = "done" THEN "left" ELSE Head(queue)]
  /\ at' = [at EXCEPT ![w] = 0]
  /\ hits' = [hits EXCEPT ![w] = {}] /\ cut' = [cut EXCEPT ![w] = FALSE]
  /\ UNCHANGED <<grepCtx, stage, feed, totalVars, cancelled>>

LeavePool(w) ==
  /\ job[w] = "idle" /\ queue = <<>> /\ stage = "closed"
  /\ job' = [job EXCEPT ![w] = "left"]
  /\ UNCHANGED <<grepCtx, stage, feed, queue, scanVars, totalVars, cancelled>>

-----------------------------------------------------------------------------
(* scanReaderForMatches, one line at a time.                               *)
Reading(w) == job[w] \notin {"idle", "left"}
Line(w) == Texts[job[w]][at[w] + 1]
AtEnd(w) == at[w] = Len(Texts[job[w]])

AtCap(w) == PerFile > 0 /\ Cardinality(hits[w]) >= PerFile
Pending(S) == {m \in S : m.after < CtxAfter}

(* Past the cap the scan goes on until the last After window is full.      *)
Enough_AtCap(w) == AtCap(w)
Enough(w) == AtCap(w) /\ at[w] > Max({m.line : m \in hits[w]}) /\ Pending(hits[w]) = {}

Widened(w) == {[m EXCEPT !.after = IF @ < CtxAfter THEN @ + 1 ELSE @] : m \in hits[w]}
NewMatch(w) ==
  IF Line(w) = "hit" /\ ~AtCap(w)
    THEN {[doc |-> job[w], line |-> at[w] + 1, before |-> Min({at[w], CtxBefore}), after |-> 0]}
    ELSE {}

ReadLine(w) ==
  /\ Reading(w) /\ ~AtEnd(w) /\ ~cut[w] /\ ~Enough(w)
  /\ grepCtx = "live" \/ (at[w] > 0 /\ Line(w) = "long")
  /\ IF Line(w) = "long"
       THEN cut' = [cut EXCEPT ![w] = TRUE] /\ UNCHANGED <<at, hits>>
       ELSE /\ hits' = [hits EXCEPT ![w] = Widened(w) \cup NewMatch(w)]
            /\ at' = [at EXCEPT ![w] = @ + 1]
            /\ UNCHANGED cut
  /\ UNCHANGED <<grepCtx, stage, feed, queue, job, totalVars, cancelled>>

(* The context is asked before the first line and after each good one.     *)
Interrupted(w) == grepCtx = "done" /\ ~AtEnd(w) /\ (at[w] = 0 \/ Line(w) # "long")

(* The critical section.  What a cut-short scan has found counts.          *)
Deliver(w) ==
  /\ Reading(w) /\ (AtEnd(w) \/ cut[w] \/ Enough(w) \/ Interrupted(w))
  /\ scanned' = scanned + 1
  /\ matches' = matches \cup hits[w]
  /\ withHits' = IF hits[w] # {} THEN withHits + 1 ELSE withHits
  /\ overlong' = IF cut[w] THEN overlong \cup {job[w]} ELSE overlong
  /\ job' = [job EXCEPT ![w] = "idle"]
  /\ UNCHANGED <<grepCtx, stage, feed, queue, scanVars, cancelled>>

(* wg.Wait(), and the live check of the context.                           *)
GrepReturn ==
  /\ stage = "closed" /\ \A w \in Scanners : job[w] = "left"
  /\ stage' = "returned" /\ cancelled' = (grepCtx = "done")
  /\ UNCHANGED <<grepCtx, feed, queue, job, scanVars, totalVars>>

MatchStep(w) == TakeDoc(w) \/ LeavePool(w) \/ ReadLine(w) \/ Deliver(w)
FeedStep == WalkDone \/ CloseFeed \/ GrepReturn \/ \E d \in Docs : Feed(d)

GrepNext == GrepCancel \/ FeedStep \/ \E w \in Scanners : MatchStep(w)

GrepSpec == GrepInit /\ [][GrepNext]_grepVars

-----------------------------------------------------------------------------
GrepTypeOK ==
  /\ grepCtx \in {"live", "done"} /\ stage \in {"walking", "feeding", "closed", "returned"}
  /\ feed \subseteq Docs /\ queue \in Seq(Docs) /\ job \in [Scanners -> Docs \cup {"idle", "left"}]
  /\ at \in [Scanners -> Nat] /\ hits \in [Scanners -> SUBSET Found] /\ matches \subseteq Found
  /\ cut \in [Scanners -> BOOLEAN] /\ cancelled \in BOOLEAN
  /\ overlong \subseteq Docs /\ scanned \in Nat /\ withHits \in 0 .. scanned

(* The definition the scan is held to: of the lines before the first one   *)
(* over the cap, the first matching ones with their windows.               *)
Readable(d) ==
  LET long == {i \in DOMAIN Texts[d] : Texts[d][i] = "long"}
  IN  IF long = {} THEN Len(Texts[d]) ELSE Min(long) - 1

HitLines(d) == {i \in 1 .. Readable(d) : Texts[d][i] = "hit"}
Reported(d) == {i \in HitLines(d) :
                  PerFile = 0 \/ Cardinality({j \in HitLines(d) : j < i}) < PerFile}
Expected(d) ==
  {[doc |-> d, line |-> i, before |-> Min({i - 1, CtxBefore}),
    after |-> Min({Readable(d) - i, CtxAfter})] : i \in Reported(d)}

(* An answer that is not marked cancelled is whole, whatever order the     *)
(* workers finished in: of the lines before one over the cap, each file's  *)
(* matches with full windows, counters that agree, and no matching line    *)
(* beyond it left out unless its file is named as truncated or has its     *)
(* fill.  A cancelled one has true matches only.  What lies at or past a   *)
(* line over the cap is not claimed, nor which matches a cancelled scan    *)
(* keeps: the code's comments say two things of each.                      *)
SameLine(m, n) == m.doc = n.doc /\ m.line = n.line /\ m.before = n.before

InView(m) == LET d == m.doc IN m.line + CtxAfter <= Readable(d) \/ Readable(d) = Len(Texts[d])
Agrees(m, e) == SameLine(m, e) /\ (InView(e) => m.after <= e.after)
InFull(m, e) == Agrees(m, e) /\ m.after >= e.after

MatchesExact ==
  /\ \A m \in matches : m.line <= Readable(m.doc) => \E e \in Expected(m.doc) : Agrees(m, e)
  /\ stage = "returned" /\ ~cancelled =>
       /\ \A d \in Docs : \A e \in Expected(d) : \E m \in matches : InFull(m, e)
       /\ scanned = Cardinality(Docs)
       /\ withHits = Cardinality({d \in Docs : \E m \in matches : m.doc = d})
       /\ \A d \in Docs : \A i \in DOMAIN Texts[d] :
            i > Readable(d) /\ Texts[d][i] = "hit"
              => \/ \E m \in matches : m.doc = d /\ m.line = i
                 \/ d \in overlong
                 \/ Cardinality(Reported(d)) = PerFile

(* The search returns, cancelled or not.                                   *)
GrepReturns == <>(stage = "returned")
=============================================================================
