# file-search-on in TLA+

TLA+ models, TLC instances and TLAPS proofs for file-search-on, a Go command
line tool and MCP server that walks directories, recognises content types,
extracts attributes and bodies, and selects files by CEL expressions. Paths
below are relative to the repository's `src/`.

1. [The system](#1-the-system): inventory of components, states, hazards
2. [The modules](#2-the-modules): what models what, and how
3. [The runs](#3-the-runs): questions, bounds, mutants, violations
4. [The proofs](#4-the-proofs): theorems, inductive invariants, assumptions
5. [What is left out](#5-what-is-left-out): abstractions, unmodelled parts
6. [Plan](#6-plan)

Run everything from this directory: `tlc -workers 2 -config X.cfg MC_M` for the
runs (the table of section 3 has the module of each cfg),
`tlapm M_proofs.tla` for the proofs. `PROJECT.json` maps every definition to the
lines it models.

## 1. The system

One process is either a CLI command or an MCP server (stdio or HTTP) with
concurrent tool calls, an optional dashboard, an optional background index
maintainer and optional warmers. They share one `index.Index`, which lives in a
bbolt file (one process at a time holds its lock) or in memory. The playground is
a terminal program on the same walk.

```
  CLI command ─┐  (Commands)              ┌─ dashboard (monitor): evict, clear, warm,
  MCP tools ───┼─> Walk / WalkStream ──┐  │    live feed, peer registry
  warmers ─────┘        │ workers      │  │
  playground ──┘        v              v  v
                 BuildAttributesWith ─> index.Index ── attrs_v1 writer ─┐
                   (stat, lookup,         │  ^ decode slots             ├─ bbolt file,
                    parse, enrich)        └────────── bodies_v1 writer ─┘  shared path
                     │  ^                     ^
     expression, row ┘  │                     │
  Watch / WatchIndex ───┴ (fsnotify, debounce)┘ Delete, Peek
  search_semantic ── walk to embed, then semanticIndex (vectors in memory)
  results ──> sort, page, grep, groups, graph, diff, organize
```

| component | state | operations | what is hard | what makes it correct |
|---|---|---|---|---|
| body cache (`internal/index/bbolt.go`) | `bodies_v1`, `body_access_v1`, meta key `bodies_total_size`, its atomic mirror, a bounded channel, one writer with a batch | PutBody, LookupBody (which sends a Touch), Delete, Clear, flush with eviction, Close, Open | requests overtake each other; counter moved inside a transaction that may fail; Delete and Clear leave the meta key alone; crash and reopen under another cap | a body appears only where it was put; every body can be evicted; the counter covers the bytes; the cap holds after a batch; Close returns |
| attribute cache (`bbolt.go`, `memory.go`, the caching half of `celexpr/evaluator.go`) | `attrs_v1` or two maps, a lossy channel, a writer with a batch | Lookup, Put, Peek, Delete, Clear, restart | stat, lookup, parse and Put are separate steps of many goroutines over a changing tree | what a hit serves, unless empty, is never older than what stat saw |
| index maintainer (`search/watch_index.go`) | debounced events | re-parse on write, Delete on remove | runs against builders and against the channel it cannot see into | hits stay honest whatever it does |
| entry enrichment (`celexpr/body.go`, `search/duplicates.go`, `near_duplicates.go`, `archive_walk.go`) | one entry's fields: parse, sha256/md5, vectors, fingerprint, archive members | each looks up, adds fields, puts the whole entry back | read-modify-write without a lock: clobbering, merging fields of different versions, an entry that has only the added field | no field older than its entry; a build adds fields only; no entry without its parse (not so: `EntryPoison`) |
| file record (`celexpr/activation.go`, `evaluator.go`, `search/match.go`) | one `Attributes` value and its Extra map, which the index may keep | lookup or parse, enrichment, expression, row | on a hit the kept map is written into, in memory while others read it | values are of this version, extracted or asked for (but for what a kept map has: `RecordedOnce`); the row shows what the expression saw |
| index opening (`bbolt.go`, `cmd/file-search-on/index_path.go`) | file lock, schema id | open, wait, fall back to memory, remove a stale file | two processes remove and rebuild one file | one process per file, of its own schema; no file in use loses its name but by a rebuild |
| codec (`index/codec.go`) | four decode slots | decode with size cap and timeout | a timed-out decode keeps its slot, and sends late | one answer per lookup; slots of decodes that return come back |
| concurrent walk (`search/walker.go`; readers in `mcpserver`, `cmd`) | job and result channels, walk errors, context | producer per root, workers, reader | cancellation at any moment, channel closing, a reader that gives up | each match once; nil means complete; the call returns |
| selection, ordering, ranking (`walker.go`, `exclude.go`, `sort.go`, `bm25_rank.go`, `snippet.go`) | the producer's open directories, queued paths, rows | visit, follow a link, exclude, prune, score, sort, limit | the tree changes between listing and opening; links; overlapping roots; ties | every root's files once; the first rows of the order asked for, those without the key last (not so: `MissingFirst`) |
| pagination (`search/cursor.go`) | none: the cursor is the state | page | results come and go between pages | no file skipped or repeated that stayed |
| find_matches (`search/findmatches.go`) | worker pool, line windows | grep | cancellation between files and lines, caps, lines that are too long | an unmarked answer is whole, its counters agree |
| watch loop (`search/watch.go`, `mcpserver/watch_tool.go`) | timer map, WaitGroup, context, collected matches | schedule, fire, callback, leave, wait | a fired timer that waits for the mutex while it is replaced; exit while callbacks run | nothing missed; latest op wins; no callback after return; limit kept |
| watch registration (`watch.go` `addDirsRecursive`) | watched directories, descriptor budget | at the start and on CREATE | directories made before their parent's watch or after its listing | every directory in a watched one is watched or known |
| warm vector index (`mcpserver/semantic_index.go`, `search_semantic_tool.go`, `vecindex`) | vectors per model, coverage fingerprint per (root, model) | walk with embedding, Warm, Search, freshness gate | check-then-act over a directory, a cache and other calls' loads | models do not mix; trusted coverage is whole; hits are fresh (they may not be: `SemanticStale`) |
| MCP lifecycle, warmers, dashboard controller (`mcp_cmd.go`, `warm.go`, `monitor/controller.go`, `server.go`) | goroutines, deferred joins, the controller's mutex and channels | start, late start of the dashboard, warm requests, shutdown | warmers are not joined before the index closes; streams stay open | no maintenance on a closed index; one warm at a time; the server exits |
| event bus, collector (`monitor/stream.go`, `collector.go`) | bounded outboxes, counters, ring | Publish, Subscribe, Unsubscribe, Begin/End/Record | drop-oldest against a reader and a closing watcher | no send after close, order kept, newest kept, gauge exact |
| peer registry (`monitor/registry.go`) | one file per pid | Register, Deregister, Peers | half-written files, dead processes, pids used again | a live peer is listed; a dead one is pruned |
| symbols, code graph, unused exports (`content/source_symbols_go.go`, `search/codegraph.go`, `unused_exports.go`) | maps built in one pass over files in any order | build; callers, chains, impact, dead code, test gaps, candidates | order of arrival, name clashes, cycles | shortest chains; reports that agree with each other and with the sources |
| tree diff, groups (`search/diff.go`, `duplicates.go`, `near_duplicates.go`, `duplicate_functions.go`) | hash loops, union-find | set operations, grouping | files change and the context ends in the middle | exactly the differences and groups there are |
| organize (`organize_cmd.go`) | the disk | link or copy per result, three conflict rules | collisions, links to originals, failures in the middle | nothing that was there changes; what is reported is there |
| MCP tools and CLI commands (`internal/mcpserver`, `cmd/file-search-on`) | per call: context, error, reason | checks, deadline, engine, answer or exit code | a deadline or Ctrl-C between any two steps | an answer says how it was cut short (not all do: `UnmarkedDiff`) |
| playground (`internal/playground`) | one value, two kinds of commands under way | keys, sizes, ends of walks and searches | commands end in any order, the filter may not compile | matches, selection and focus fit what is on the screen |
| readers of film and sound (`content/video_*.go`, `audio_mp4.go`, `videotype.go`) | a stack of loops over boxes | enter, skip, read | several tracks, wrong sizes, cut files | proper files are told as they are; every parse ends |
| other parsers and detection (`internal/content`), OCR, CEL functions, statistics, rendering, transports, helpers | none shared | pure or I/O | | not modelled |

`PROJECT.json` lists the forty hazards that weigh most, each at its line, with the
properties that cover it or a note saying why none does. Beside them: the hash
of a reference image, or the error of a missing one, is kept for the life of the
process (`celexpr/image_similarity.go:57`).

## 2. The modules

| module | role |
|---|---|
| `LossyCache` | abstract: what either half of the index promises |
| `SearchResult` | abstract: what a search promises its caller |
| `BodyCache` | body half of the bbolt index; implements `LossyCache` |
| `AttrCache` | attribute half, either backend, with builders, maintainer and file tree; implements `LossyCache` |
| `EntryMerge` | the fields of one entry and everything that rewrites it |
| `Attributes` | one file's record from index to row, with the maps calls share |
| `IndexOpen` | several processes opening one index path |
| `DecodeSlots` | the decode semaphore |
| `WalkStream` | the concurrent walk and its reader; implements `SearchResult` |
| `Selection` | which files a walk visits, what rows it makes, how they are ordered |
| `Paging` | keyset pagination over a changing tree |
| `FindMatches` | the parallel grep |
| `WatchLoop` | watch loop, timers, callbacks, watch_search collector |
| `WatchTree` | which directories a watch watches |
| `SemanticIndex` | search_semantic calls over directory, attribute cache and vectors |
| `Server` | start, service and shutdown of an MCP server with its dashboard and warmers |
| `EventBus` | the dashboard's live feed |
| `PeerRegistry` | the directory of running dashboards |
| `SourceSymbols`, `CodeGraph`, `UnusedExports` | what is kept of a Go file, and two passes over all of them |
| `TreeDiff`, `Groups` | comparing trees, grouping files |
| `Organize` | links and copies made of results |
| `Handlers`, `Commands`, `Calls` | every tool and every command as a sequence of steps, and what a step does |
| `Playground` | the terminal program |
| `MediaTracks` | the readers of film and sound containers, and what a proper file is |
| `MediaBoxes` | trees of boxes, the cells they are written as, and what they tell by looking up |
| `DataLemmas` | proved facts about induction, sums over sets, orders and their listings, sequences used as queues |
| `M_proofs` | theorems about M, `AttrCache_proofs` also about `Selection`, `EntryMerge_proofs` about `Attributes` and `MediaTracks` (what a parse gives an entry), `SemanticIndex_proofs` about `Calls`, `WalkStream_proofs` about `CodeGraph`, the call graph of what a walk found; `Components_proofs` about the parts of a server (`IndexOpen`, `PeerRegistry`, `EventBus`, `Server`, `DecodeSlots`, `WatchTree`, `FindMatches`) and the queries (`Organize`, `TreeDiff`, `Playground`, `Paging`, `Groups`, `UnusedExports`) |
| `MC_EntryMerge`, `MC_SemanticIndex` | constants of these modules for TLC |
| `MC_Caches` | the two halves of the index, each by itself |
| `MC_Streams` | walk, watch and Close: what has to come to an end |
| `MC_ServerParts`, `MC_QueryParts` | the parts of a server, the queries, each by itself |

`AttrCache` composes four parts of the code that meet in one entry: the builder,
the backend, the maintainer and the tree. `SemanticIndex` composes a tool with
the attribute cache under it, `WalkStream` the walk with its callers, `WatchLoop`
the loop with the tool that consumes it, `Server` a command with its dashboard,
watcher and warmers, `Calls` every tool and command with its context. The
refinements tie the two caches and the walk to what the rest of the program
relies on.

**How data is abstracted.** A file's content, and its (size, mtime), is a version
number that only grows; an attribute, body or vector is the version it was made
from. This is the assumption of the code's own validation: an edit that keeps
both size and mtime cannot be told apart by the program or by the model. Names
and paths are numbers or model values in the order the code sorts them in.

**Mutated forms.** `Def_Bug` next to `Def` is `Def` with a plausible bug. No
module uses it; `PROJECT.json` says which property fails when it takes `Def`'s
place.

### BodyCache

`db` is the committed file, `tx` the open write transaction's working copy
(bbolt has one writer, so `tx = db` outside a flush), `total` is
`bodiesTotalSize`, `bputs` and `gathered` the channel and the writer's batch.
Callers: `PutBody` and `LookupBody` take their timestamp, then `SendRequest`
sends or drops it; `DeleteBody` and `ClearBuckets` are transactions of their own,
`ClearCounter` is Clear's `Store(0)`, which comes after its commit
(`bbolt.go:622`). The writer: `ReceiveBody` and `Tick` start a flush, `Apply`
takes one request of `toApply`, `Mirror` writes the meta key, `CheckCap`, `Evict`
and `EvictDone` are the eviction loop over the access bucket, `Commit` or `Abort`
ends it: an abort restores the file and not the counter. `Close`,
`WriterReturns`, `BodyCrash` and `Open` are the process's life; `SendPanics` is a
caller that sends on the channel Close has closed. `trust` is a history variable,
read by properties only: what is known of the counter's accuracy.

### AttrCache

A builder goes through `Stat`, `Lookup` (hit when the entry's `at` is the
version stat saw, but any lookup may miss: decode error, timeout, overload),
`Parse`, `Put` and `Return`. `Parse` reads the file as it is now, which may be
newer. When it fails, the error of some types ends the build; other parsers have
no error to give (`videotype.go:48`, `audiotype.go:54`, a file whose type is not
detected, `detector.go:151`), and then an empty entry goes the way of any other.
`Put` to bbolt is a non-blocking send; to memory a map write. `Receive` and
`Flush` are the writer; a flush may fail as a whole. `WatchRemove` and
`WatchWrite`/`WatchStat` are WatchIndex's two branches: on a write it peeks, and
builds if the entry is there. `Delete` and `Clear` are the dashboard's. A
`Crash` empties everything that is not in bbolt, and everything in memory.

### EntryMerge

The same entry in more detail: `of` gives for each field the version it was
computed from, 0 when it is missing, -1 when the parse gave nothing. `Stat` to
`Vectors` are BuildAttributesWith's stat, hit or miss (`Store` puts what was
parsed, an empty parse too), and the enrichments, each of which
stamps its fields on the entry the build holds and puts that entry again.
`FindHash`/`StoreHash` and `FindPrint`/`StorePrint` are the passes of
find_duplicates and find_near_duplicates over a finished walk, with the walk's
(size, mtime); `FindMembers`, `Iterate` and `StoreMembers` are
WalkArchiveEntries, whose store looks the entry up once more. What these take
over from the entry found differs (`TakenOver`, `OrBlank`): only the parse and
the sha256, or everything. The bbolt channel and batch are one queue, which the
writer empties one entry at a time or drops.

### Attributes

Where `EntryMerge` asks which fields an entry has, this module asks what a
caller gets to see. A value is where it came from: a version of the file and of
its surroundings (project, extended attributes, certificate, sibling file).
`heap` holds the Extra maps as objects: the in-memory index hands out the map
it keeps, bbolt decodes a new one for every lookup and encodes it at every put.
`BuildAttributes` is the stat, `LookupHit` and `LookupMiss` the two ways on,
`DropBuild` a failure, `EnrichNext` takes one enrichment of the order the code
takes them in (`Order`), `Evaluate` looks up every name an expression may use
(typed field first, then the map, then a zero of the type: `ResolveName`) and
`ShowRow` makes the row. `RacingMap` is Go's stop of a process whose goroutines
writes to one map; `WriteFile` and `TurnAround` change the file and what is
around it. Of each family of attributes a few names stand for all. `RowsHonest`
leaves out, on a hit, the names of `Unsaid`, which an earlier call may have put
into the kept map; that they would be computed anew is `RecomputedEachWalk`,
stated from the comments (`evaluator.go:394`, `:841`), and it does not hold.

### IndexOpen and DecodeSlots

A file is a number in the order of creation; `path` is the one the directory
entry names, which is not what the processes that have it open see. `OpenPath`
opens or creates, `TakeLock` and `LockTimeout` end the wait, `Adopt` is a file of
one's own schema or a blank one, `Reject` any other; `Rebuild` is `os.Remove`,
which takes whatever the path names by then, and goes back to the beginning.
`NoIndex` is the backend without a file; `OpenFails` and `Leave` may come at any
point. `removers` remembers, for the properties, who has rebuilt.

In `DecodeSlots` a slot stands for the goroutine that holds it; `Acquire` and
`Refused` are the semaphore, `Decode` or `StuckReturns` the end of gob, `Take`
and `TimeUp` the two branches of the caller's select, `Release` the slot's
return. `owner` and `ready` are the channel between the two.

### WalkStream

`phase`, `root` and `todo` are the producer: `Start` (or `SetupFails`), `Queue`,
`Abandon` at a cancelled context, `NextRoot`, and `Return` after the workers are
joined, with the final sweep of the context. A worker's `Take`, `Process`,
`Send` and `Leave` keep the two choices Go leaves open: `select` takes any ready
branch, and a worker may see the context before or after it takes a file. The
reader ranges over the result channel, or `Quit`s as the CLI's stream printers
do when a template or an encoder fails, and then `Finish` waits for the walk.

### Selection

The disk is a map from paths (sequences of names) to directories, files, links
and special files. `specs` are the roots still to be walked, each with its
exclusion rules; `frames` the directories being walked with the entries read
from them, innermost first; `queued` the jobs. `OpenRoot` is walkRoot's start,
`VisitEntry` one entry: pruned, excluded, skipped for its type, entered, or
queued, and with followed links a directory below one. `ProcessJob` is a worker's,
and any of the first so many jobs may be the next to finish. `ScoreRows` is
FinalizeBM25 and the fusion of two rankings (`ApplyRRF`), `SortAndLimit` the
stable sort. `ChangeDisk` is another program's change between any two of these
steps. The property compares what came out with `Ways`, a definition of what
there is to select that walks nothing. Of the order it leaves open where files
without the key go among those with it; `MissingLast` is what the documentation
has.

### Paging, FindMatches

`Paging` holds the client's token and the pages it has got; `GetPage` walks the
tree as it is now, sorts, searches for the first item after the token (the
binary search of `sort.Search` included) and cuts a page out; `Update` changes
the tree between pages. `generic` is PaginateGeneric's comparison.

In `FindMatches` `Feed` and `CloseFeed` are the feeder, `TakeDoc`, `ReadLine`,
`Deliver` and `LeavePool` a worker, `GrepReturn` the join. A line is a hit,
plain, or too long for the scanner. `GrepCancel` may come between any two lines.
`MatchesExact` speaks of the lines before one that is too long (`Readable`): a
comment has the scan go on beyond it (`findmatches.go:100`), the scanner does not.
Nor does it say which matches of the file being read a cancelled scan keeps: one
comment drops them (`findmatches.go:130`), another keeps them (`:443`).

### WatchLoop, WatchTree

A debounce timer is a number; its callback has a goroutine of its own, so a
timer may have fired and not yet hold the mutex (`fired`) while `Schedule`
replaces it. `Callback` is its critical section, which acts only if the map
still holds this timer (`Current`), `CallbackOver` its end. `LeaveLoop` is the
exit defer, which stops the timers and gives back their `wg.Done` (`Dones`);
`LoopReturns` waits for the rest. `Stat`, `Evaluate` and `OnMatch` are the handler
of Watch and the collector of watch_search, `CancelWatch` the end of the context.

`WatchTree` is the other half of a watch: `RegisterRoot` and `ReceiveCreate`
start a walk (`toVisit`), whose `VisitDir`, `AddWatch` and `ListDir` are
separate steps, since filepath.WalkDir calls its visitor before it lists the
directory, while `Appear` and `Vanish` change the tree and, under a watched
directory, leave CREATE events. The budget is charged as the code charges it.

### SemanticIndex

A call goes through `Begin` (covered or not: coverage recorded for the model
equals the directory's fingerprint now), `Visit`/`Embed` per file for the walk,
`EndWalk`, `List` and `Load` for Warm, `Record` for the coverage, `Search`, and
`Gate` and `Build` for each hit. The directory's fingerprint is its mtime, a
counter that `Create` and `Remove` bump and `Edit` does not. `OtherTool` is any
other tool that caches a file without vectors. `gapless` is a history variable:
models whose coverage was recorded when no file was missing.

### Server, EventBus, PeerRegistry

`Server`: `main` is the command, through `StartMonitor`, `LaunchAll`, the
transport's `Return` and the deferred calls in their order: `StopWatch`,
`JoinWatch`, `CancelMonitor`, `ReadDone` and `Wait` for the dashboard,
`CloseIndex`, `Exit`. `Ensure`/`Started` are Controller.EnsureStarted, which a
tool call may run late (`MonitorInfo`) and which waits with its mutex held;
`Register`, `Shutdown` and `ServeReturns` the dashboard's goroutine, with the
five seconds after which open streams no longer hold it up. `BeginPut`, `Put`,
`Done` are every goroutine that writes to the index, and a Put on a closed bbolt
index ends the process. `CheckWarm` to `StoreIdle` are a warm request and its
goroutine.

`EventBus`: `Begin`, `End`, `Record` and the fan-out of `Publish`, which offers
(`Offer`), and on a full outbox drops the oldest (`Drop`) and tries again
(`Retry`), subscriber by subscriber under the two mutexes, while the reader of an
outbox (`Receive`) takes part in neither. `Unsubscribe` is the watcher that
closes the channel of a browser that has gone.

`PeerRegistry`: `CreateEntry` and `WriteEntry` are the two halves of
os.WriteFile, `Glob`, `ReadEntry` and `Prune` those of Peers, `Kill` and
`Launch` a process's end and the next one with its pid. `raced` remembers the two
ways in which a scan may remove a live process's file.

### SourceSymbols, CodeGraph, UnusedExports

A Go file is its declarations; `SourceSymbols` has what the extractor keeps:
names without packages, one owner per method name, call edges, references and
the signals that say a name must stay exported. `AddFile` and `NoteFile` take
one file into the graph and into the second pass, in any order; the questions
(callers, call path, impact, dead code, test gaps, duplicate definitions,
importers) are operators on the result. A reference to a type is any field of
that type: of a struct, a parameter, a result, a method's receiver. A tool's walk
that was cut short is a smaller `results`.

### TreeDiff, Groups, Organize

`TreeDiff` walks and hashes tree A, then B, under one context
(`DiffCancel` at any moment), and `Answer`s one of five set operations.
`Groups` has the two ways of grouping: size buckets and a hash loop over files
that change meanwhile (`EditFile`), and the comparison of all pairs with
union-find (`Union`, with the path compression of `Compress`), then caps. What a
chain of similar files with unlike ends becomes is left open by the property:
union-find makes one group of it, the comments have all pairs similar
(`near_duplicates.go:24`, `:63`).
`Organize` takes the results in any order: `SkipExisting`, `Plan` (a dry run),
`CopyTo`, `Link`, each with the target its conflict rule gives (`FinalTarget`),
and `DiskFails` before or in the middle of it.

### Handlers, Commands, Calls

`Handlers` writes each of the 43 tools and each engine as a sequence of steps in
the code's order: which argument is checked, when the deadline starts, what
kind of work follows, how the engine decides that it was cut short. `Commands`
does the same for the 44 commands and their exit codes. `Calls` says once what a
step does: `Guard`, `ResolveTimeout`, the units of a stage of work and the ways it
ends at a done context (`WalkEnds`, `LoopEnds`, `SoftEnds`, `FetchEnds`, ...),
`Mark`, `ExitCode`, `Verdict`, `Answers`; `Timeout` and `ClientGone` come between
any two of them. Of the arguments and surroundings one thing may be wrong.
`WalkingToolsMarked` is `README.md:588`, which holds of its list of tools but for
diff_trees.

### Playground

`screen` is the program's value as a record and its methods functions on it;
`running` are the commands that have not ended: the walk of the start and a
search. Every message is an action: `LoadEnds`, `SearchEnds`, `SearchFails`,
`Resize`, and the keys. `Becomes` draws after each message, and drawing a match
whose row is gone ends the program (`window = "crashed"`).

### MediaTracks

A container is a tree of boxes laid out as a sequence of cells, a header with a
stated size followed by its content. A reader is a stack of loops, each over the
places the sizes say: `EnterBox`, `SkipBox`, `ReadField` (by the table `FieldReads`
of which loop reads which box, how much of it, and what it does when that is
not there), the sample entries (`ReadFilmSample`, `ReadSoundSample`,
`ReadStream`), `LeaveLoop` (where a track is told, `TrackTold`),
`HeaderMissing`. The reader of films clamps a box to the loop around it and
always moves forward; that of sound files does neither, so a box of size 0 keeps
it where it is (`parse = "stuck"`) until its context ends. `AsMeant` says by
positions, of the cells there are and those that were to be there, what a proper
file is: its boxes lie within one another, with the bodies the readers need, and
nothing that describes a track is missing; the last box at the top may have no
size, and the file may end early beyond its description. `MediaBoxes` makes such
cells of a tree (`Cells`) and has the answer by look-ups in that tree, without
reading anything (`Told`): of several tracks of sound the first, a rotation that
is a picture track's, as the comments have it (`video_mp4.go:20`, `:145`). Where the
readers do otherwise, those fields of such a file are `Unsettled` and not compared.

## 3. The runs

| run | module | asks | distinct states |
|---|---|---|---|
| `Caches` | `MC_Caches` | body cache and attribute cache: safety, refinement of `LossyCache` by each | 1.4 M |
| `Streams` | `MC_Streams` | walk, watch and Close: safety, refinement of `SearchResult`, liveness | 0.2 M |
| `EntryMerge` | `MC_EntryMerge` | merging of one entry's fields | 2.5 M |
| `SemanticIndex` | `MC_SemanticIndex` | safety over concurrent calls | 0.8 M |
| `ServerParts` | `MC_ServerParts` | safety and liveness of seven concurrent parts of a server | 0.11 M |
| `QueryParts` | `MC_QueryParts` | the queries, each against its definition | 1.2 M |
| `WalkStreamQuit` | `MC_Streams` | violation: does a search whose printer gave up return | |
| `SemanticStale` | `MC_SemanticIndex` | violation: is a hit's vector current | |
| `EntryPoison` | `MC_EntryMerge` | violation: has every entry its parse | |
| `RecordedOnce` | `MC_QueryParts` | violation: are certificate and project computed anew | |
| `UnmarkedDiff` | `MC_QueryParts` | violation: is every walking tool's partial answer marked | |
| `MissingFirst` | `MC_QueryParts` | violation: do files without the sort key come last | |

`MC_Caches`, `MC_Streams`, `MC_ServerParts` and `MC_QueryParts` choose in the
initial state which part a behaviour runs, with the others at rest: the parts
share no variable, so their product would show nothing that they do not show one
by one.

**What they show.**

- `Caches`, bodies: `BatchExact`, of two parts: `CapKept` (no body without an access
  entry, or the cap could not be enforced; the cap enforced once a batch is done;
  the counter against the bytes stored, over failing transactions, Deletes, Clears
  and restarts) and `BatchApplied` (a batch keeps the last body put under a path,
  or evicted it); and the refinement, `BodiesLossy`.
- `Caches`, attributes: `IndexHonest`: what a hit serves, unless it is empty, is as
  new as what stat saw (`ServedFresh`) because every entry is (`EntriesHonest`):
  results are right by validation alone, whatever the maintainer, the writer and
  other builders do. Of an empty entry nothing is claimed: it says that a parse
  of the version stat saw, or of a newer one, failed, and stays until the file
  changes. `IsLossyCache` is the refinement, for both backends.
- `Streams`, the walk: `WalkOrderly` (no send on a closed channel; none evaluated
  or reported twice; nothing lost; nil means complete, also when a deadline passes
  at the very end) and `IsSearch`.
- `Streams`, the watch: `WatchExact`, which is `CountsExact` (a WaitGroup below zero
  panics; no callback after the return; the limit) and `NothingMissed`, and
  `StepsRight` (results no longer change once returned; the latest op wins).
- `Streams`: `StreamsSettle`, of three parts: a caller of a walk that reads to the
  end or cancels gets its call back (`WalkReturns`); a cancelled watch returns
  (`CancelledReturns`), and a file saved under a watch that goes on is reported
  (`SaveReported`); Close returns, with calls in flight, a full channel and a last
  flush that may fail (`CloseTerminates`).
- `EntryMerge`: `MergeHonest` carries honest entries over to those whose fields
  several tools fill in, and `BuildsOnlyAdd` says that an enrichment does not
  clobber what the build already has (the bug of issue 306).
- `SemanticIndex`: `WarmExact`, which is `ModelsApart` (vectors of one model never
  rank another's query) and `CoverageWhole` (a call on the fast path finds every
  file present when it decided to take it).
- `ServerParts`: `IndexSafe` (a process serves only from a file of its own
  schema that it alone has open; a file in use loses its name only to a rebuild
  that raced another or came from another binary), `PeersListed` (a live
  dashboard stays discoverable, but for the two races named in `raced`),
  `LiveFeed` (no send after close, order, the newest event kept, the gauge),
  `OneAnswer` (a late decode answers nobody else's lookup), `ServerSafe` (no
  maintenance on a closed index, the dashboard drained and deregistered first,
  one warm at a time), `TreeWatched` (no directory slips between a registration
  and a listing; the budget), `MatchesExact` (an unmarked grep is whole up to a
  line that is too long, whose file it names, and its counters agree; a cancelled
  one has true matches). `PartsSettle` is the
  liveness of each: opening ends, dead peers are pruned, calls return although
  no browser reads, lookups return although decodes do not, the server exits,
  the watcher catches up, the grep returns.
- `QueryParts`: each is an algorithm, under what may come in between, against a
  definition that does not run it.
  - `PagesExact`: pages return every file that stayed as it was, once and in
    order.
  - `DiffExact`: the five set operations on two trees; `GroupsExact`: groups of
    equal files that did not change are whole; groups of similar ones stay within
    what chains of similar pairs join, and where all of these are similar to one
    another, such a part is one group, of which a cap keeps the closest.
  - `OrganizeSafe`: organize without `overwrite` changes nothing that was there,
    however results collide and the disk fails, unless a copy has run out of
    numbers; what it reports is there.
  - `PlaygroundExact`: on the playground's screen matches, selection, focus and
    running searches fit together; only with a filter that does not compile may
    a row to be drawn be missing.
  - `VerdictsAgree`: candidates for unexporting are what the sources say, in any
    order of arrival; nothing is both dead and a candidate, nor dead with callers.
  - `RowsHonest`: what an expression sees and a row shows is of this version of
    the file, and what was asked for of its surroundings is as they were during
    the call; it was extracted or asked for, and the row shows what the
    expression saw. On a hit nothing is said of the names an earlier call may
    have left in the kept map (`Unsaid`).
  - `CallsExact`: impact and call path are the shortest chains there are, the
    path the first of them by name.
  - `SelectionExact`: a walk selects what there is to select for every root,
    once each, under one change of the disk, hangs only on a link to a special
    file or a place that changed, and the answer is the first rows of the order
    asked for, but that the place of files without the key is not claimed.
  - `CallsHonest`: an answer without a mark is whole; a mark, and exit code 124
    or 130, says what ended the call; a call refused for its arguments has
        touched no file. Where the code departs from the documentation nothing is
    claimed, and the sets that say where are named: `Silent` (coverage_gaps,
    api_diff: cannot say they were cut short), `LateLoop` (diff_trees, cut short
    while it hashes), `OneReason` (References: one reason whatever the cause),
    `OneExitCode` (124 also for an interrupt), `LateChecks` (arguments looked at
    after the work).
  - `ReadOrderly`: the parse of a proper file neither fails nor stays where it
    is, and each of its loops takes for a box only what is one, a child of the
    box the loop is in. Whatever the sizes in any other file say, only the reader
    of sound files stays, at a box of size 0, and a film's loops stay within one
    another.
    - `MediaExact`: a proper film or sound file is told as its boxes say, in every
    field that is settled: with two tracks of sound the codec and the channels
    are not (but in Matroska), nor is the rotation of a film one of whose other
    tracks is turned.

**The violations** are disagreements between the code and its own words.

- `EntryPoison`: an entry without parse must not enter the cache
  (`evaluator.go:661`), but listing an archive before it is indexed puts one, and
  the next search finds no content type and no attributes until the file changes.
- `WalkStreamQuit`: a printer that gives up leaves the workers on a full channel
  and the command hanging, without a deadline to end it.
- `SemanticStale`: the freshness gate looks at the cached entry, not at where the
    loaded vector came from; an edited file re-cached by another tool passes it.
- `RecordedOnce`: a certificate's verdict and the project are never cached, the
  comments say; on a hit they are written into the map the index keeps, and a
  later build that has not asked for them is shown them as they were.
- `UnmarkedDiff`: every walking tool answers a timeout with `cancelled=true`
  (`README.md:588`, which names diff_trees); the loop that hashes the second tree
  stops at the limit, no walk is left that would notice, and the unhashed files
  are reported as missing.
- `MissingFirst`: files without the attribute group at the end
  (`examples/top-k.md:43`, the help of `--sort`); a descending sort turns the
  whole comparison round, they come first, and a limit then cuts off the others.

**Bounds.** Every bound is a constant named in the module's CONSTANTS with
`bound:` beside it, or a set in the MC module. They are small because each
property needs few actors to fail, as the mutants show.

- Caches, bodies: two keys, one caller and versions of sizes 1 and 2 under caps 0
  (off), 1 (less than the larger body) and 3 (one body too few); one Delete, one
  Clear, one failing transaction, two opens, so that a counter left stale by each
  is met by a restart under another cap. Batches of two over a channel of one
  fill both.
- Caches, attributes: one path, since entries of different paths meet only in a
  batch (which keeps them apart by key); two builders and two versions, so that
  an old parse can overtake a newer one and a file be edited between any two
  steps of a build; batches of two over a channel of one, one restart.
- EntryMerge: two tools, three calls or empty parses among them, two versions and
  a queue of one: one tool can run twice while the other is inside its
  read-modify-write, and the queue overflows.
- Streams, Close: two callers, so that a second can refill the channel while Close
  drains it, and one failing transaction.
- Streams, the walk: two roots, five files where the job channel of two workers
  holds four, three matches where the result channel holds one: each channel
  blocks.
- Streams, the watch: two files, three changes (so up to three timers: one armed,
  one fired and waiting for the mutex, one in its callback), a limit of two.
- SemanticIndex: two calls, two models, one file with two chunks that shrinks to
  one (so that a stale second chunk could survive), two fingerprints.
- ServerParts: three processes, two of one binary and one of another, over a
  path that is free or holds any of five kinds of file (two rebuild while a third
  works); two pids with one scan each; two calls and two browsers with an outbox
  of one and a feed of two, three events, so that both overflow; two decode
  slots and two readers with two lookups each; a server with and without
  dashboard, warmers, watcher and bbolt, two warm requests; a tree of two nested
  directories, an ignored one, a file below and a second root that is a file,
  two changes and a budget of three; three documents with more hits than the cap,
  a line too long, and none.
- QueryParts: three files and two updates for pages; every subset of eight
  calls among four names (with a self-call, cycles, and two chains of one length),
  and three-file trees over what packages, tests and languages make different;
  two paths and two contents per side of a diff; four files of four states, one
  edit, for groups; two originals and three further places for organize, under
  three templates that collide; two units of work per stage for calls; two builds
  and one change for a record, all 21 kinds of type without requests and two with
  them; three disks (plain, linked, odd) under eight walks with six changes, at
  most one of which happens; three files, four filters and one query for the
  playground, heights 1 and 2; two tracks of seven kinds for a film, in both
  orders of boxes, and one wrong size, or a cut at any place, for each of a few
  files.

Symmetry is used for keys, callers, builders, tools, models, and never in a run
with a liveness property. `CHECK_DEADLOCK FALSE` stands where the bounds, or the
end of the call the module models, stop the system.

**Fairness.** Each is weak fairness of code that Go runs whenever it can run.

- BodyCache: the writer goroutine only. Nothing makes a caller send.
  (`StreamsFairness` asks for each of the three fairness conditions while its part
  runs.)
- WalkStream: producer, each worker, and the reader's receive and finish. Quitting
  is a choice of the reader's no fairness forces; cancelling is the
  environment's.
- WatchLoop: the loop, and each timer with its callback, since time passes.
  Changes to the tree and cancellation are not fair.
- ServerParts: each process that opens the index (its lock wait has a timeout),
  registrations and scans under way, tool calls, the fan-out and the watcher of
  each subscription, a lookup's two ends and the decodes that are not stuck, the
  command, the dashboard, the holder of its mutex, the index watcher, the watch
  loop, the grep and its workers. Nothing makes a browser read or leave, a stuck
  decode return, a process live on, a warm end, or a signal come.

## 4. The proofs

Every theorem holds for all values of the constants that satisfy the module's
ASSUME, which TLC evaluates in the runs: non-empty or positive capacities,
natural bounds and sizes, and a `None` that is none of the values it stands in
for. The keys of a cache, a tree's nodes, the files and names of a query are
finitely many, any number of them. Some assumptions are lines of the code: a grep
has a worker at least (`findmatches.go:189`), a list of the playground a line
(`listHeight` in `view.go`), equal hashes mean equal texts, whatever is on a disk
is in a directory. One is about the models themselves, `ProgramsWellOrdered` of
`Calls`: see there.

| module | theorems | along |
|---|---|---|
| `BodyCache_proofs` | `TypeCorrect`, `TypesHold`, `EvictionHolds`, `ImplementsLossyCache`, `CapIsKept`, `BatchIsApplied`, `BatchIsExact` | `TypeInv`, then `FlushInv`, then `CapInv` and `BatchInv` |
| `AttrCache_proofs` | `TypeCorrect`, `HonestEntries`, `FreshnessHolds`, `IndexIsHonest`, `ImplementsLossyCache`; of `Selection`: `SelectionIsExact` | `EntriesHonest`; `SelectionInv` |
| `EntryMerge_proofs` | `TypeCorrect`, `FieldsStayHonest`, `ServesExactly`, `MergeIsHonest`, `BuildsAddOnly`; of `Attributes`: `RowsTold`; of `MediaTracks`: `ParseIsOrderly` | `MergeInv`; `RecInv`; `LoopsInv`, `ProperInv` |
| `WalkStream_proofs` | `TypeCorrect`, `TypesHold`, `NoSendOnClosed`, `OnePlaceHolds`, `NothingIsLost`, `NilIsComplete`, `WalkIsOrderly`, `ImplementsSearch`; of `CodeGraph`: `GraphChains` | `TypeInv`, `PlaceInv`, `FlowInv`; `GraphTyped` |
| `WatchLoop_proofs` | `TypeCorrect`, `WgIsExact`, `NoLateCallback`, `LimitHolds`, `CountsAreExact`, `ResultsStay`, `LatestOpWins`, `StepsAreRight`, `NothingIsMissed`, `WatchIsExact` | `TypeInv`, `MapInv`, `QueueInv` |
| `SemanticIndex_proofs` | `TypeCorrect`, `ModelsStayApart`, `TrustIsWhole`, `WarmIsExact`; of `Calls`: `CallsTell` | `LoadedApart`, `WholeInv`; `CallInv` |
| `Components_proofs`, a server's parts | `OpenSafe`, `RegistrySafe`, `FeedSafe`, `ServerStaysSafe`, `OneAnswerEach`, `TreeStaysWatched`, `GrepExact` | `OpenInv`, `RegInv`, `BusInv`, `SrvInv`, `SlotInv`, `TreeInv`, `GrepInv` |
| `Components_proofs`, the queries | `PagesComplete`, `DiffTold`, `OrganizeKeepsFiles`, `GroupsTold`, `VerdictsTold`, `PlaygroundTold` | `PageInv`, `DiffInv`, `OrganizeInv`, `GroupInv`, `ReportInv`, `PlayInv` |

`DataLemmas` has what these share: induction over natural numbers and finite
sets (stated of a set of values, since a property cannot be a parameter here),
sums over finite sets, the least element of a set of numbers, orders and the
listings of a set by one, ranges of sequences, sequences as queues.
The types of each part of a server are proved by the theorem about that part
(`OpenTypeOK`, `RegTypeOK`, `BusTypeOK`, `SrvTypeOK`, `SlotTypeOK`, `TreeTypeOK`,
`GrepTypeOK`).

- **BodyCache.** Evictability is inductive once it is said of the file and of
  the open transaction at once. The refinement needs to know what a flush has
  done so far: `FlushInv` says that the transaction differs from the file only
  by bodies of requests still in the batch, which are therefore still offered,
  and that the requests to do are among the batch's. `CapKept` speaks of the
  file at rest; `CapInv` says of each of the three copies of the counter (the
  running one, the one in the file, the one the open transaction has mirrored)
  how far it can be trusted against the bodies it counts, and that a Clear whose
  `Store(0)` is still to come and that no put has raced has left nothing to
  count. The sum of the bytes moves with one body at a time (`BytesExcept`).
  `BatchInv` says that what is left of a batch is its end, so that what comes
  later in it for the same key is still to be applied.
- **AttrCache.** `ServedFresh` is not inductive: a hit is only as good as the
  entry. `EntriesHonest` says of every entry, stored, queued, batched or held,
  that it is empty or was stat'ed no later than parsed, and that a file on disk is
  the last version written; with validation by equal `at`, freshness follows. The
  theorems allow every parse to fail, and say of what an empty entry serves only
  that it is one.
- **EntryMerge.** `MergeInv` adds to that, field by field, what a tool knows in
  the middle of its work: what it holds is filed under the version its own stat
  saw, a build past its parse holds an entry, and a listing has read the archive
  no earlier than it was stat'ed. `BuildsAddOnly` follows because the only step
  that moves a build between parse and end and changes the queue is `Enrich`.
- **Attributes.** For any number of calls at once on one file. `RecInv` says
  which map a build writes to: `InPlace`, the one the index keeps if it is a hit
  in memory, otherwise one of its own that no other build has; `StoredOK` and
  `HeapOK`, that no map has anything older than the entry it is kept under, and
  that a decoded one has nothing beyond what the writers of entries leave there.
  `Own` and `Decoded` bound what is in a build's own map by what it asked for,
  `Updated` says of every enrichment already taken that its names are as they
  were during the call, and `Sees` that between expression and row nothing was
  replaced in a map of one's own. `LeftBehind` are the names that an entry put
  back may have beyond what was extracted.
- **Selection.** For any names, trees, roots, followed links, rules, workers and
  values, and one change of the disk at any moment of the walk. The reference
is the ways there are to files (`Ways`), the invariant says
  what has become of each way: `WalkComplete` says that every way of a root that
  has been begun, before the change and after it, has its row or its job, or
  leads through an entry that a frame still has ahead (`Covered`); `WalkSound`
  that as long as nothing has changed, what is ahead, queued or reported is on a
  way. That nothing is reported twice is not inductive in terms of rows and jobs:
  the entries ahead must part the tree (`Apart`: none is, or is above, another),
  and no row or job may lie at or below one of them (`AheadOnce`). Following a
  path name by name, links included, is an induction on its length. The order of
  the answer rests on lemmas about insertion into a sorted sequence: equal rows
  keep the order they arrived in, and so every row of the answer has the place
  that counting the rows before it gives.
- **WalkStream.** `PlaceInv` strengthens `OnePlace` by files of later roots being
  nowhere yet. `FlowInv` strengthens `NilMeansComplete` by where a file can be in
  each phase, and by the reasons for which the producer and the workers stop: a
  done context, which the sweep at the end reports.
- **WatchLoop.** `TypeInv` holds that stages and map agree enough for the counter
  to be the number of unfinished timers. `MapInv` says that the timer in the map
  carries the latest op of its path; `QueueInv` that the last event of a present
  file, queued or received, is a write.
- **SemanticIndex.** `WholeInv` adds to `CoverageWhole` that no recorded coverage
  is ahead of the directory's stamp, so that a later change of the directory
  cannot make an old coverage match again.
- **Calls.** For any number of units of work, with the deadline or the client's
  leaving between any two. What is still to be done of a call is an end of its
  program (`EndOf`), and what the program owes is said of that end: work whose
  cut is not yet marked is followed by a look at the error that will tell
  (`TellingOwed`), a mark on the screen by the choice of an exit code
  (`ExitOwed`), a reason by the context's own (`ReasonKnown`), work by none but
  the checks named as late (`LateAfterWork`). Each step keeps these if the order
  of the program's steps is right (`WellOrdered`), a property of sequences that
  its ends inherit. That each of the tools' and commands' programs has it is
  `ProgramsWellOrdered`, a fact about finitely many fixed sequences, which TLC
  establishes by evaluating it: the theorem is about what happens during a call,
  the evaluation about how the programs are written.
- **IndexOpen.** For any number of processes and binaries. `Locking` says that
  open files and locks belong together; `OwnContent` that a process works with a
  file of its schema. That a file in use is not unlinked but by a race is not
  inductive: `NameLost` says of every open file, in use or not, who can have
  taken its name, and `StaleFound` of a process about to rebuild that the foreign
  file it found is still under the path unless somebody else has rebuilt, so that
  its removal takes nobody's file.
- **PeerRegistry.** For any number of dashboards and scans. `DoomedRaced` says
  that a scan about to remove a live process's file is a race already noted,
  `TornStays` that a file gone before it is written is one, `SteadyUp` that what
  a scan counts on is registered all along.
- **EventBus.** For any number of calls, browsers and events, and any sizes.
  `SentInOrder` and `Reached` say that an outbox is an increasing sequence above the
  last event sent and up to the last one fanned out, `Exclusive` that one call at
  most is between Record and the end of its fan-out, `FeedCap` bounds the feed.
  The queue lemmas carry order and newest event over Append and Tail.
- **Server.** For any users of the index, tool calls, browsers and warm requests.
  The index closes at one step of a chain of joins, so the invariant says of each
  stage what has ended by then: `ClosedLate`, `WatcherOut` and `DashboardOut`.
  `OnePost` follows a warm request from its check on, because the overview's state
  is set before the request's own goroutine runs and reset after it.
- **DecodeSlots.** For any lookups and slots. `OwedOne` says who owes a waiting
  lookup its answer, one slot or its channel, and that nobody owes any other;
  `IdleUnowned` that a slot that does not decode works for nobody, so that taking
  it cannot steal an answer.
- **WatchTree.** For any tree, exclusions and budget. `NothingSlips` says where a
  directory under a watched one may be: watched, in an event not received yet,
  or in a walk that will come to it. What it needs is `Whole` (what exists has
  its ancestors, so that a removal takes whole subtrees), that only what exists
  is watched, `ThenListed` (a directory about to be added is the first of the
  walk, paid for, and is listed next, so what appears in between is either in
  the listing or in an event), and `Overdrawn`, since the budget is charged once
  too often by the directory that finds it empty.
- **FindMatches.** For any documents, lines too long among them, windows, cap and
  workers. `ScanInv` says of each worker that what it holds is exactly what the
  lines read so far give, with the context lines after a match cut where it has
  got to. While nobody cancels, `OnePlace` has each file with the feeder, in the
  channel, with one worker or done, and `AddedUp` says that the totals are those
  of the files done.
- **Paging.** For any files, values, page sizes and changes between pages.
  `UpToToken` says that a file that stays has been returned exactly if it is not
  beyond the cursor; `OnceInOrder` keeps order across pages. Both rest on the
  comparators being one strict total order (`Before`, `AfterCursor`), in either
  direction and for missing values, and on the binary search finding its first
  element beyond the cursor.
- **TreeDiff.** `HashesTrue` and `OnTheWay`: what has a content is hashed by the
  time its tree is left, unless the context has ended. The five answers follow
  by counting contents and names.
- **Organize.** For any originals, places and order, with a disk that may fail.
  `NothingTouched` is not inductive alone: that a place is free when it is
  looked at is not enough for what was reported as created to stay.
  `Accounted` and `CreatedThere` say whose each new place is. Running out of
  numbers for a copy is for good, which is why it can be an exception.
- **Groups.** For any files, edits and order of arrival. Equal files: each is
  hashed once, with the text it held then (`HashesGiven`). Similar files: the
  parents form a `Forest` on which `find` ends at the root and compresses
  without changing any root, and a union joins two trees; `RowsMerged` says that
  what was compared and is similar shares a root, `ChainsOnly` that nothing
  shares one that no chain of similar pairs joins.
- **CodeGraph.** For any names, trees, limits and order of arrival; the assumption
  is that a file's calls are between names. A chain of calls is a sequence
  (`Chain`), and being `Within` so many calls is an induction from either end.
  The rounds of the blast radius have visited who is at most that far away, at
  its distance, and what is left of the frontier is one call further (`Hopped`).
  The search for a path is followed by what it has met, in the order in which it
  met it (`Tree`: each by the call that led to it, nearest first, those of one
  caller by name), of which a first part has been looked at, as far as the limit
  allows (`Going`, `Met`). That the parents lead back over a shortest chain is one
  consequence (`NearMet`, `BackTold`). That it is the first by name is the other
  (`FirstMet`): a chain that came before it would, from the first name in which
  it differs on, have met every name earlier, and so the last one, although the
  search stopped in the middle of a caller when it met that.
- **UnusedExports.** For any trees, languages and order of arrival.
  `ReportInv` says that every map is what the files taken in so far give
  (`IndexGiven`, `SignalsGiven`), and of a definition that the first file to come
  gave its entry, marked ambiguous exactly if another package defines the name
  too (`DefsGiven`). The verdicts are then set equations.
- **Playground.** For any rows, filters, queries, heights and order of messages.
  `MatchesOf`, `SelectionOf`, `KeysOf` and `ScoresOf` are what its value satisfies
  between messages, and every method is shown to keep each; `CommandsOf` says
  which commands are under way, without which a late end could not be told from
  an expected one.
- **MediaTracks.** For any files: any names, sizes and nesting, cut anywhere.
  `LoopsInv` is about all of them: where a film's track says its media are, they
  end within the loop that will read them (`TrackRead`), so that loops stay
  `Nested`. `ProperInv` is about proper files: a loop has whole boxes before it
  and behind it (`InFits`, `Snug`, `PastBoxes`), so that the next place it comes
  to is a child of the box it is over, and the reads that could fail find their
  bodies. Whoever adds a reader has to say of each new loop what it is over
  (`LoopNames`). `WholeFilesAreProper` of `MC_QueryParts` shows that the files of
  the run that are not damaged, and some that are cut, are proper ones.
  `ContainersAssumption` says that sizes are not negative.

`BatchIsExact`, `IndexIsHonest`, `MergeIsHonest`, `WatchIsExact` and
`WarmIsExact` put together the theorems about their parts.

**Model-checked only.** Liveness (`StreamsSettle`, `PartsSettle`), because
fairness and ENABLED are beyond the prover. Of the safety properties,
`MediaExact`: `Told` and `Cells` are recursive over a tree of any depth, and that
the cells tell what the tree does would be an induction over such trees. What is
proved is how far the readers get and what they take for a box; which of the
boxes of one kind wins, and the values, are checked on the trees of the run. The
six violations are counterexamples and need no proof.

## 5. What is left out

**In the modelled parts.**

- Two writes to a file that leave (size, mtime) alike: a version stands for both.
- Query parameters, CEL and similarity values: a file matches or does not
  (WalkStream), every version matches (WatchLoop), all hits are ranked
  (SemanticIndex), an expression sees every name (Attributes).
- The directory of SemanticIndex is flat and its walk lists it in one step. A
  file that cannot be embedded leaves a gap in the coverage; `CoverageWhole` is
  claimed of coverage recorded without gaps.
- BodyCache: a batch's access times may go back by a tick when two goroutines'
  Touches overtake each other; this changes only which body is evicted first, and
  nothing is claimed of the order. A body flushed between Clear's commit and its
  `Store(0)` is stored and not counted, so the bucket may exceed the cap by it
  until the next restart: `trust` becomes "none" there, and `CapKept` claims
  nothing of the disk.
- AttrCache: a restart keeps the backend.
- EntryMerge: bbolt only (the maps that the in-memory backend shares are in
  Attributes); pHash follows the pattern of the vectors; the disguise backfill,
  OCR, C2PA, body and project context are not fields. The body a fingerprint is
  computed from was read at an unknown moment since the stat, so its version is
  any of those written since.
- EventBus: heartbeats and percentiles. Server: the transports; the client's side
  of a warm request. WatchTree: kqueue's watches of single files beyond their
  cost. FindMatches: regular expressions, comment roles, extraction.
- Paging: a token's JSON; values that do not survive it (an infinite rank, a path
  that is not UTF-8).
- SourceSymbols: the other languages' regular expressions and the complexity
  figures. Groups: how a fingerprint is computed. Organize: rendering a template.
- Calls: what the rows hold, and printing. One thing at a time is wrong.
- Selection: glob and gitignore patterns are names or paths to leave out; at most
  one change of the disk.
- Playground: layout, colours, paging of the attribute panel.
- MediaTracks: the bytes of a field, tags, the QuickTime and WebM variants beyond
  their boxes; negative sizes (a 64-bit size above 2^63); FLAC, MP3, Ogg, WAV.

**Seen while modelling.** Places where the code does something other than its
comments, tests or documents say, or than one would expect. Six are the
violations of section 3; `PROJECT.json` lists these and nine more, with the lines
that disagree, under "findings". The models have all of them as behaviours. A
property of a passing run takes no side where the code and its own words
disagree: it claims what both say, and its comment names the rest.

*Index.*
- Delete promises that the dashboard's figure does not drift permanently
  (`bbolt.go:577`); it does not mirror the counter, and after a restart the deleted
  body is counted for good.
- WatchIndex collects entries of deleted files (`watch_index.go:65`), but the Put
  of a build under way lands after its Delete, and the entry stays.
- A parse that gives nothing is not to be cached (`evaluator.go:757`). That is so
  where it ends in an error; of an undetected type, and of films and sound that
  cannot be opened or parsed, or whose parse is cancelled, an empty entry is
  stored under the file's (size, mtime) and served until it changes.
- On a hit, body, C2PA verdict and project context are written into the cached
  entry's map (`evaluator.go:485`; `RecordedOnce`), although these are per-walk data
  that are not to be cached; in memory concurrent builds of one path write to one
  map. A later call that does ask for the body, of a file it can no longer read,
  is shown the earlier call's.
- The member list an archive caches has only the names that passed the first
  call's glob (`archive_walk.go:216`). OCR attributes never reach `attrs_v1`,
  contrary to the comment at `celexpr/body.go:682`. 42 names of expressions have
  no field in a row (`match.go:5`).
- Two processes that rebuild one stale index unlink each other's live file; a
  default index path that cannot be resolved is reported as lock contention.
- Partial chunk vectors of a cancelled embedding are cached; populateSimilarity
  goes past the body cache against its comment.

*Server and dashboard.*
- Warm goroutines are not joined before the index closes, and a Put then panics.
  handleStream is said to end on shutdown, but http.Server.Shutdown does not
  cancel request contexts: every open stream costs its five seconds.
- Peers removes a half-written registration, or the file of a new process that
  reuses a dead one's pid. An EnsureStarted that fails leaves a listener at the
  collector.

*Walks and watches.*
- A directory made during a watch is the root of its own registration and is
  watched although excluded; the root's .gitignore is not consulted for it. The
  budget is not given back on removal. A root removed and made again is not
  watched.
- A link to a pipe passes the special-file check and blocks its worker
  (`walker.go` specialFileMode looks at the entry only). With followed links,
  links below a followed link stay leaves. Overlapping roots return a file twice,
  and the fusion of rankings, which takes paths to be unique, adds both up. A root
  that is missing gives an empty success. Directory-only patterns of .gitignore
  do not prune the directory itself.
- Values missing under a sort key sort last ascending and first descending
  (`MissingFirst`); `sort.go:48` says they compare as zero. Snippets and greps stop
  at a line that is too long, where their comments say it is truncated and the
  scan goes on (`snippet.go:17`, `findmatches.go:100`). A cancelled grep delivers
  the matches of the file it was reading, which `findmatches.go:130` has dropped and
  `findmatches.go:443` kept.

*Answers.*
- diff_trees cut short while hashing its second tree is not marked
  (`diff.go:220`; `UnmarkedDiff`), nor are coverage_gaps and api_diff, which then
  reports removed symbols; README.md:588 says that every walking tool returns
  cancelled=true. References gives "client_cancel" for a timeout, against
  examples/timeouts.md:97; a cancelled review may pass; churn-owners, references,
  coupling, circular and unused-exports exit with 124 when interrupted, where
  examples/timeouts.md:39 has 130.
- The code graph keeps one owner per method name and file; unused exports
  records the kind and path of whichever definition arrived first; test gaps
  count a name as often as it is defined. Groups of near duplicates are chains;
  `near_duplicates.go:24` and `:63` have every pair of a group similar.
- organize is to leave originals alone (`organize_cmd.go:18`), but `overwrite`
  removes what is in the way, and a copy that has run out of numbers truncates
  what it finds, through a link even the original; a dry run does not see
  collisions among its own targets.

*Playground and parsers.*
- A filter that does not compile keeps the matches while a finished search
  replaces the rows by fewer: the next draw indexes past the end
  (`playground/model.go:390`, `view.go:152`). The plain snapshot of the start may
  replace the rows of a search.
- The first audio track is to win (`video_mp4.go:20`), the last one does, and one
  answer mixes fields of several tracks; the rotation, to be the picture track's
  (`video_mp4.go:145`), is taken from any track.
  `audio_mp4.go:50` has no guard against a box of size 0.  A Matroska file of known
  size that is cut short loses everything.

**Parts without a module**, with the reason, are in `PROJECT.json`: statistics and
reports (pure functions of a finished list), transports and instrumentation (the
SDK's, and a wrapper), the other parsers and detection (pure functions of bytes;
a parse is one step in the models), OCR (an external helper whose text goes
through the body cache), CEL functions, rendering and profiling, import
resolution, hashing and the path guard.

## 6. Plan

Done, in order of importance: the two caches with their builders, the walk, the
watch, the vector index, the entry's fields; the concurrent parts of a server;
selection and the queries over results; every tool and command; the record; the
playground; containers of film and sound. Worth adding, the most important first:

1. `Told` by positions, in the manner of `AsMeant`, so that `MediaExact` can be
   proved as well.
2. `EntryMerge`: the glob a member list was made with, and OCR as a field.
3. `SemanticIndex`: excludes of a call against coverage of another, and a
   property of what a call finds when vectors are still in the channel.
4. An abstract watch (each saved file reported once it rests) that `WatchLoop`
   composed with `WatchTree` implements.
5. Tags and the remaining sound formats in the manner of `MediaTracks`; the other
   languages' symbols.
