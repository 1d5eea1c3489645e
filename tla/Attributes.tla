------------------------------ MODULE Attributes -----------------------------
(* The record of one file: looked up or parsed, enriched step by step with *)
(* what the call asks for, seen by an expression, and shown as a row.      *)
(*                                                                         *)
(* A value is where it came from: the version of the file and the          *)
(* surroundings (project, extended attributes, certificate, sibling) it    *)
(* was read in.  Of each family of attributes a few names stand for all.   *)
(* Extra maps are objects: the in-memory index hands out the map it keeps, *)
(* the bbolt one decodes a map of its own for every lookup and encodes it  *)
(* at every put.  Which fields of an entry are filled is module            *)
(* EntryMerge's subject; here a put just happens or does not.              *)
EXTENDS Integers, FiniteSets

CONSTANTS
  Builds,        \* builds of the record, numbered from 1
  Requests,      \* for each type and build, what may be asked for
  MaxChanges,    \* bound: writes to the file, changes of its surroundings
  NoStored       \* "no entry in the index"

ASSUME AttributesAssumption ==
  /\ IsFiniteSet(Builds) /\ Builds = 1 .. Cardinality(Builds)
  /\ NoStored \notin [ver : Nat, map : Nat]

VARIABLES
  backend,       \* memory or bbolt
  kind,          \* content type
  link,          \* is the path a symbolic link: no, file, broken
  fileVer,       \* version of the file
  around,        \* surroundings: none, old, new
  changes,       \* how often either has changed
  heap,          \* the Extra maps: 0 is what an earlier run has stored
  stored,        \* [ver, map]: the entry of the index
  build,         \* the builds
  dead           \* has the runtime stopped the process over a racing map

attrVars == <<backend, kind, link, fileVer, around, changes, heap, stored, build, dead>>

Zero == [ver |-> 0, around |-> "none"]
Now == [ver |-> fileVer, around |-> around]
Empty == [n \in {} |-> Zero]
Laid(new, old) ==
  [n \in DOMAIN new \cup DOMAIN old |-> IF n \in DOMAIN new THEN new[n] ELSE old[n]]
AllNow(names) == [n \in names |-> Now]

-----------------------------------------------------------------------------
(* What a type's name says: one flag for the very type, others for the     *)
(* families it belongs to.                                                 *)
ExactFlags(k) ==
  CASE k = "text" -> {"is_text"}
    [] k = "markdown" -> {"is_markdown"}
    [] k = "repo/license" -> {"is_license", "is_text"}
    [] k = "manifest/node" -> {"is_node_manifest", "is_json"}
    [] k = "system/plist" -> {"is_plist", "is_macos_metadata"}
    [] k = "disk-image/iso9660" -> {"is_iso"}
    [] k = "bytecode/jvm" -> {"is_class"}
    [] k = "science/pds3" -> {"is_pds3", "is_pds"}
    [] k = "database/sqlite" -> {"is_sqlite"}
    [] k = "database/sqlite-wal" -> {"is_sqlite_wal"}
    [] k = "font/ttf" -> {"is_ttf"}
    [] k = "image/raw-cr2" -> {"is_cr2"}
    [] k = "model3d/stl" -> {"is_stl"}
    [] OTHER -> {}
FamilyFlags(k) ==
  CASE k \in {"image/heic", "image/jpeg"} -> {"is_image"}
    [] k = "image/raw-cr2" -> {"is_image", "is_raw_photo"}
    [] k = "audio/mpeg" -> {"is_audio"}
    [] k = "archive/zip" -> {"is_archive"}
    [] k = "binary/macho" -> {"is_binary"}
    [] k = "source/go" -> {"is_source"}
    [] k = "repo/license" -> {"is_repo_meta"}
    [] k = "manifest/node" -> {"is_manifest"}
    [] k = "system/plist" -> {"is_system_metadata"}
    [] k = "disk-image/iso9660" -> {"is_disk_image"}
    [] k = "install/deb" -> {"is_install_package"}
    [] k = "bytecode/jvm" -> {"is_bytecode"}
    [] k = "science/pds3" -> {"is_science_data"}
    [] k = "database/sqlite" -> {"is_database"}
    [] k = "browser/bookmarks-safari" -> {"is_bookmark_file"}
    [] k = "chat/slack-export" -> {"is_chat_export"}
    [] k = "font/ttf" -> {"is_font"}
    [] k = "model3d/stl" -> {"is_3d_model"}
    [] OTHER -> {}
FlagsOf(k) == ExactFlags(k) \cup FamilyFlags(k)

(* The attributes a row has of each family.                                *)
CommonAttrs == {"title", "project_type", "is_static_site"}
ImageAttrs == {"img_width", "is_c2pa"}
MediaAttrs == {"duration"}
ArchiveBinaryAttrs == {"entry_count", "bitness"}
EmailSourceAttrs == {"functions"}
FrontmatterAttrs == {"tags"}
DiskImageAttrs == {"virtual_size"}
InstallPackageAttrs == {"package_name"}
MiscAttrs == {"license_id", "target_path"}
CodesignAttrs == {"codesign_team_id"}
PlistAttrs == {"plist_kind"}
BytecodeAttrs == {"class_name"}
ScienceAttrs == {"pds_version"}
DatabaseAttrs == {"sqlite_page_size", "sqlite_wal_page_size"}
BookmarkAttrs == {"bookmark_count", "browser_vendor"}
ChatAttrs == {"chat_channel"}
FontAttrs == {"font_family"}
XattrAttrs == {"xattr_keys"}
MeshAttrs == {"phash", "vertex_count"}

FamilyAttrs_NoMedia ==
  UNION {CommonAttrs, ImageAttrs, ArchiveBinaryAttrs, EmailSourceAttrs, FrontmatterAttrs,
         DiskImageAttrs, InstallPackageAttrs, MiscAttrs, CodesignAttrs, PlistAttrs,
         BytecodeAttrs, ScienceAttrs, DatabaseAttrs, BookmarkAttrs, ChatAttrs, FontAttrs,
         XattrAttrs, MeshAttrs}
FamilyAttrs ==
  UNION {CommonAttrs, ImageAttrs, MediaAttrs, ArchiveBinaryAttrs, EmailSourceAttrs,
         FrontmatterAttrs, DiskImageAttrs, InstallPackageAttrs, MiscAttrs, CodesignAttrs,
         PlistAttrs, BytecodeAttrs, ScienceAttrs, DatabaseAttrs, BookmarkAttrs, ChatAttrs,
         FontAttrs, XattrAttrs, MeshAttrs}

(* What the parser of a type finds in a file.                              *)
Parsed(k) ==
  CASE k = "text" -> {"title"}
    [] k = "markdown" -> {"title", "tags"}
    [] k \in {"image/heic", "image/jpeg"} -> {"img_width", "is_c2pa"}
    [] k = "image/raw-cr2" -> {"img_width", "raw_kind"}
    [] k = "audio/mpeg" -> {"duration", "title"}
    [] k = "archive/zip" -> {"entry_count"}
    [] k = "binary/macho" -> {"bitness", "codesign_team_id"}
    [] k = "source/go" -> {"functions"}
    [] k = "repo/license" -> {"license_id"}
    [] k = "system/plist" -> {"plist_kind"}
    [] k = "disk-image/iso9660" -> {"virtual_size"}
    [] k = "install/deb" -> {"package_name"}
    [] k = "bytecode/jvm" -> {"class_name"}
    [] k = "science/pds3" -> {"pds_version"}
    [] k = "database/sqlite" -> {"sqlite_page_size"}
    [] k = "database/sqlite-wal" -> {"sqlite_wal_page_size"}
    [] k = "browser/bookmarks-safari" -> {"bookmark_count"}
    [] k = "chat/slack-export" -> {"chat_channel"}
    [] k = "font/ttf" -> {"font_family"}
    [] k = "model3d/stl" -> {"vertex_count"}
    [] OTHER -> {}

(* What is found at the path rather than in the file; it is cached with    *)
(* the rest all the same.                                                  *)
Beside(k) ==
  CASE k = "image/heic" -> {"is_live_photo"}
    [] k = "browser/bookmarks-safari" -> {"browser_vendor"}
    [] OTHER -> {}
PathBased(k) == IF k = "image/heic" /\ around = "none" THEN {} ELSE Beside(k)
Extracted(k) == Parsed(k) \cup Beside(k)

-----------------------------------------------------------------------------
(* The names an expression may use, and where their values are: in the     *)
(* fields of the record first, then in its map, then a zero of their type. *)
IdentityNames == {"content_type"}
FlagNames ==
  {"is_text", "is_markdown", "is_license", "is_node_manifest", "is_json", "is_plist",
   "is_macos_metadata", "is_iso", "is_class", "is_pds3", "is_pds", "is_sqlite",
   "is_sqlite_wal", "is_ttf", "is_cr2", "is_stl", "is_image", "is_raw_photo", "is_audio",
   "is_archive", "is_binary", "is_source", "is_repo_meta", "is_manifest",
   "is_system_metadata", "is_disk_image", "is_install_package", "is_bytecode",
   "is_science_data", "is_database", "is_bookmark_file", "is_chat_export", "is_font",
   "is_3d_model", "is_quarantined"}
ProbedNames ==
  {"is_symlink", "md5", "created_at", "is_disguised", "is_known_good", "similarity", "bm25",
   "is_git_tracked"}
TypedNames == IdentityNames \cup FlagNames \cup ProbedNames

DocumentKeys ==
  CommonAttrs \cup ImageAttrs \cup MediaAttrs \cup ArchiveBinaryAttrs \cup CodesignAttrs
  \cup EmailSourceAttrs \cup FrontmatterAttrs \cup {"body", "c2pa_valid"}
FormatKeys ==
  DiskImageAttrs \cup InstallPackageAttrs \cup MiscAttrs \cup BytecodeAttrs \cup ScienceAttrs
  \cup DatabaseAttrs \cup PlistAttrs \cup XattrAttrs \cup BookmarkAttrs \cup ChatAttrs
OptInKeys == FontAttrs \cup MeshAttrs \cup {"raw_kind", "is_live_photo", "ocr_confidence"}
Declared == TypedNames \cup DocumentKeys \cup FormatKeys \cup OptInKeys

ResolveName_ExtraFirst(typed, extra, n) ==
  IF n \in DOMAIN extra THEN extra[n] ELSE IF n \in DOMAIN typed THEN typed[n] ELSE Zero
ResolveName(typed, extra, n) ==
  IF n \in TypedNames
  THEN IF n \in DOMAIN typed THEN typed[n] ELSE Zero
  ELSE IF n \in DOMAIN extra THEN extra[n] ELSE Zero

(* Not every flag, and not every value, has a field in a row.              *)
FlagFields == FlagNames \ {"is_sqlite_wal", "is_raw_photo", "is_cr2", "is_3d_model", "is_stl"}
ProbedFields == ProbedNames
RowNames == IdentityNames \cup FlagFields \cup ProbedFields \cup FamilyAttrs

(* MatchFrom: fields of the record, and of its map what the families have. *)
MatchFrom(typed, extra) ==
  [n \in (DOMAIN typed \cap (IdentityNames \cup FlagFields \cup ProbedFields))
         \cup (DOMAIN extra \cap FamilyAttrs)
     |-> IF n \in TypedNames THEN typed[n] ELSE extra[n]]

AlwaysOn == {"content_type"}
ProjectMatch(row, fields) ==
  IF fields = {} THEN row ELSE [n \in DOMAIN row \cap (fields \cup AlwaysOn) |-> row[n]]

-----------------------------------------------------------------------------
(* Enrichments, in the order both paths take them; those of the last group *)
(* are made for every record.                                              *)
Order ==
  [body |-> 1, ocr |-> 2, verify |-> 3, project |-> 4, hashes |-> 5, phash |-> 6, known |-> 7,
   similar |-> 8, keyword |-> 9, disguise |-> 10, xattrs |-> 11, git |-> 12, probes |-> 13]
Always == {"probes"}
LinkOnly == {"git", "probes"}
Images == {"image/heic", "image/jpeg", "image/raw-cr2"}
TextKinds == {"text", "markdown", "source/go"}

StepsAsked(asked) == DOMAIN Order \cap (asked \cup Always)
LinkSteps(asked) == StepsAsked(asked \cap LinkOnly)
NextStep(todo) == CHOOSE s \in todo : \A t \in todo : Order[s] <= Order[t]

(* What a step writes into the map; nothing is taken out of it, also when  *)
(* there is nothing to write.                                              *)
ProjectContext ==
  CASE around = "none" -> {}
    [] around = "old" -> {"project_type", "is_static_site"}
    [] OTHER -> {"project_type"}
ExtraOf(s) ==
  CASE s = "body" /\ kind \in TextKinds -> {"body"}
    [] s = "ocr" /\ kind \in Images -> {"body", "ocr_confidence"}
    [] s = "verify" /\ kind \in Images /\ around # "none" -> {"c2pa_valid"}
    [] s = "project" -> ProjectContext
    [] s = "phash" /\ kind \in Images -> {"phash"}
    [] s = "xattrs" /\ around # "none" -> {"xattr_keys", "is_quarantined"}
    [] s = "probes" /\ link # "no" -> {"target_path"}
    [] OTHER -> {}

(* A text that cannot be read, a picture without a fingerprint; and of a   *)
(* picture's text, once it is in the body cache, only the text.            *)
Outcomes(s) ==
  {ExtraOf(s)} \cup (IF s \in {"body", "ocr", "phash"} THEN {{}} ELSE {})
               \cup (IF s = "ocr" /\ kind \in Images THEN {{"body"}} ELSE {})

(* And into the fields of the record, which is new for every build.        *)
TypedOf(s, typed) ==
  CASE s = "hashes" -> {"md5"}
    [] s = "known" /\ "md5" \in DOMAIN typed -> {"is_known_good"}
    [] s = "similar" /\ kind \in TextKinds -> {"similarity"}
    [] s = "keyword" /\ kind \in TextKinds -> {"bm25"}
    [] s = "disguise" -> {"is_disguised"}
    [] s = "xattrs" /\ around # "none" -> {"is_quarantined"}
    [] s = "git" -> {"is_git_tracked"}
    [] s = "probes" -> {"created_at"} \cup (IF link # "no" THEN {"is_symlink"} ELSE {})
    [] OTHER -> {}

(* Steps that keep what they computed in the entry.                        *)
Stores(s) ==
  \/ s = "hashes"
  \/ s = "disguise"
  \/ s = "phash" /\ kind \in Images
  \/ s = "similar" /\ kind \in TextKinds

-----------------------------------------------------------------------------
Request(do) == [do |-> do, fields |-> {}]
NotBegun ==
  [state |-> "idle", ask |-> Request({}), at |-> 0, hit |-> FALSE, keyed |-> FALSE, map |-> 0,
   keeps |-> 0, todo |-> {}, typed |-> Empty, saw |-> Empty, row |-> Empty, since |-> {}]
Cloned(b) == b + Cardinality(Builds)

AttributesStart(m, k, l, a, there) ==
  /\ backend = m /\ kind = k /\ link = l
  /\ fileVer = 1 /\ around = a /\ changes = 0
  /\ heap = [i \in 0 .. 2 * Cardinality(Builds) |->
               IF there /\ i = 0 THEN [n \in Parsed(k) |-> [ver |-> 1, around |-> a]] ELSE Empty]
  /\ stored = IF there THEN [ver |-> 1, map |-> 0] ELSE NoStored
  /\ build = [b \in Builds |-> NotBegun]
  /\ dead = FALSE

TypedAtOnce == IdentityNames \cup FlagsOf(kind)
BuildIs(b, r) == build' = [build EXCEPT ![b] = r]
worldVars == <<backend, kind, link, fileVer, around, changes>>

(* The path is looked at: its links, times, size and time of change.  A    *)
(* link that leads nowhere becomes a record with little in it.             *)
BuildAttributes(b, ask) ==
  LET begun == [NotBegun EXCEPT !.ask = ask, !.at = fileVer, !.since = {around}, !.map = b]
  IN  /\ build[b].state = "idle" /\ \A c \in Builds : c < b => build[c].state # "idle"
      /\ IF link = "broken"
         THEN BuildIs(b, [begun EXCEPT !.state = "enriching", !.todo = LinkSteps(ask.do)])
         ELSE BuildIs(b, [begun EXCEPT !.state = "statted", !.keyed = "bare" \notin ask.do])
      /\ UNCHANGED <<worldVars, heap, stored, dead>>

(* A hit: the record's map is the one the index keeps, or its decoding.    *)
EntryFound(b) == stored # NoStored /\ build[b].keyed /\ stored.ver = build[b].at
LookupHit(b) ==
  LET own == IF backend = "memory" THEN stored.map ELSE b
  IN  /\ build[b].state = "statted" /\ EntryFound(b)
      /\ heap' = IF backend = "memory" THEN heap ELSE [heap EXCEPT ![b] = heap[0]]
      /\ BuildIs(b, [build[b] EXCEPT !.state = "enriching", !.hit = TRUE, !.map = own,
                                    !.keeps = own, !.typed = AllNow(TypedAtOnce),
                                    !.todo = StepsAsked(build[b].ask.do)])
      /\ UNCHANGED <<worldVars, stored, dead>>

(* Put keeps the entry itself, or its encoding; bbolt's may be lost.       *)
PutEntry(ver, map, maps) ==
  IF backend = "memory"
  THEN stored' = [ver |-> ver, map |-> map] /\ heap' = maps
  ELSE \/ stored' = [ver |-> ver, map |-> 0] /\ heap' = [maps EXCEPT ![0] = maps[map]]
       \/ stored' = stored /\ heap' = maps

(* A miss: the type is detected, here by the file's name, and its parser   *)
(* run.  A type the call does not want parsed and a file whose parser      *)
(* returns an error are not stored; of the others a copy is, before        *)
(* anything is added to the record, and also where the parser could read   *)
(* nothing and returned none.                                              *)
KeptMap_Same(b) == b
KeptMap(b) == Cloned(b)
LookupMiss(b) ==
  LET r == build[b]
      missed == [r EXCEPT !.state = "enriching", !.typed = AllNow(TypedAtOnce),
                          !.todo = StepsAsked(r.ask.do)]
      parses == {AllNow(Parsed(kind) \cup PathBased(kind)), AllNow(PathBased(kind))}
  IN  /\ r.state = "statted" /\ (backend = "memory" => ~EntryFound(b))
      /\ \/ /\ r.ask.do \cap {"bare", "lean"} # {}
            /\ BuildIs(b, [missed EXCEPT !.keyed = FALSE]) /\ UNCHANGED <<stored, heap>>
         \/ /\ r.ask.do \cap {"bare", "lean"} = {}
            /\ BuildIs(b, [missed EXCEPT !.keyed = FALSE])
            /\ heap' = [heap EXCEPT ![b] = AllNow(PathBased(kind))]
            /\ UNCHANGED stored
         \/ /\ r.ask.do \cap {"bare", "lean"} = {}
            /\ BuildIs(b, [missed EXCEPT !.keeps = KeptMap(b)])
            /\ \E parsed \in parses :
                 PutEntry(r.at, KeptMap(b),
                          [heap EXCEPT ![b] = parsed, ![Cloned(b)] = parsed])
      /\ UNCHANGED <<worldVars, dead>>

(* No record: the path cannot be looked at, or the call ends before or in  *)
(* the parse.                                                              *)
DropBuild(b) ==
  /\ build[b].state = "statted"
  /\ BuildIs(b, [build[b] EXCEPT !.state = "dropped"])
  /\ UNCHANGED <<worldVars, heap, stored, dead>>

(* One enrichment: into the map, into the record, and, when it is computed *)
(* anew on a keyed path, back into the index with the entry.               *)
Written(b, names) == [heap EXCEPT ![build[b].map] = Laid(AllNow(names), @)]
MayStore(b, s) == Stores(s) /\ build[b].keyed /\ (s = "disguise" => build[b].hit)
EnrichNext(b) ==
  LET r == build[b]
      s == NextStep(r.todo)
  IN  /\ r.state = "enriching" /\ r.todo # {}
      /\ BuildIs(b, [r EXCEPT !.todo = r.todo \ {s},
                             !.typed = Laid(AllNow(TypedOf(s, r.typed)), @)])
      /\ \E names \in Outcomes(s) :
           \/ heap' = Written(b, names) /\ UNCHANGED stored
           \/ MayStore(b, s) /\ PutEntry(r.at, r.keeps, Written(b, names))
      /\ UNCHANGED <<worldVars, dead>>

(* The expression is evaluated, later the row is made.                     *)
Evaluate(b) ==
  LET r == build[b]
      value(n) == ResolveName(r.typed, heap[r.map], n)
  IN  /\ r.state = "enriching" /\ r.todo = {}
      /\ BuildIs(b, [r EXCEPT !.state = "seen",
                             !.saw = [n \in {n \in Declared : value(n) # Zero} |-> value(n)]])
      /\ UNCHANGED <<worldVars, heap, stored, dead>>
ShowRow(b) ==
  LET r == build[b]
  IN  /\ r.state = "seen"
      /\ BuildIs(b, [r EXCEPT !.state = "shown",
                             !.row = ProjectMatch(MatchFrom(r.typed, heap[r.map]), r.ask.fields)])
      /\ UNCHANGED <<worldVars, heap, stored, dead>>

(* Two builds in one map: the runtime may notice and stop the program.     *)
Sharing(b, c) ==
  /\ b # c /\ build[b].map = build[c].map
  /\ {build[b].state, build[c].state} \subseteq {"enriching", "seen"}
RacingMap ==
  /\ \E b, c \in Builds : Sharing(b, c)
  /\ dead' = TRUE
  /\ UNCHANGED <<worldVars, heap, stored, build>>

(* The file is written, its surroundings change.                           *)
NoteTurn(a) == [b \in Builds |-> [build[b] EXCEPT !.since = IF build[b].state = "idle" THEN @ ELSE @ \cup {a}]]
WriteFile ==
  /\ changes < MaxChanges
  /\ changes' = changes + 1
  /\ fileVer' = fileVer + 1
  /\ UNCHANGED <<backend, kind, link, around, heap, stored, build, dead>>
TurnAround ==
  /\ changes < MaxChanges
  /\ changes' = changes + 1
  /\ around' \in {"none", "old", "new"} \ {around}
  /\ build' = NoteTurn(around')
  /\ UNCHANGED <<backend, kind, link, fileVer, heap, stored, dead>>

AttributesInit ==
  \E m \in {"memory", "bbolt"}, k \in DOMAIN Requests, l \in {"no", "file", "broken"},
     a \in {"none", "old", "new"}, there \in BOOLEAN : AttributesStart(m, k, l, a, there)

AttributesNext ==
  /\ ~dead
  /\ \/ \E b \in Builds : \/ \E ask \in Requests[kind][b] : BuildAttributes(b, ask)
                          \/ LookupHit(b) \/ LookupMiss(b) \/ DropBuild(b) \/ EnrichNext(b)
                          \/ Evaluate(b) \/ ShowRow(b)
     \/ RacingMap \/ WriteFile \/ TurnAround

RecordSpec == AttributesInit /\ [][AttributesNext]_attrVars

-----------------------------------------------------------------------------
(* What a call asks for, by name.                                          *)
AskedKeys(do) ==
  {"target_path"}
  \cup (IF "body" \in do THEN {"body"} ELSE {})
  \cup (IF "ocr" \in do THEN {"body", "ocr_confidence"} ELSE {})
  \cup (IF "verify" \in do THEN {"c2pa_valid"} ELSE {})
  \cup (IF "project" \in do THEN {"project_type", "is_static_site"} ELSE {})
  \cup (IF "phash" \in do THEN {"phash"} ELSE {})
  \cup (IF "xattrs" \in do THEN {"xattr_keys", "is_quarantined"} ELSE {})
AskedProbes(do) ==
  {"is_symlink", "created_at"}
  \cup (IF "hashes" \in do THEN {"md5"} ELSE {})
  \cup (IF "known" \in do THEN {"is_known_good"} ELSE {})
  \cup (IF "similar" \in do THEN {"similarity"} ELSE {})
  \cup (IF "keyword" \in do THEN {"bm25"} ELSE {})
  \cup (IF "disguise" \in do THEN {"is_disguised"} ELSE {})
  \cup (IF "git" \in do THEN {"is_git_tracked"} ELSE {})

HasSeen(b) == build[b].state \in {"seen", "shown"}
Private(b) == ~build[b].hit \/ backend = "bbolt"

(* Names of which RowsHonest says nothing on a hit: those an earlier call  *)
(* may have put into the map that the index keeps.  In memory that is all  *)
(* of them, in bbolt what is written before the last step that puts the    *)
(* entry back.  The code's comments promise more, RecomputedEachWalk.      *)
LeftBehind ==
  {"body", "ocr_confidence", "c2pa_valid", "project_type", "is_static_site", "phash"}
Unsaid(b) ==
  CASE ~build[b].hit -> {}
    [] build[b].hit /\ backend = "memory" -> DocumentKeys \cup FormatKeys \cup OptInKeys
    [] OTHER -> LeftBehind

(* What depends on the file alone: a text that could be read by an earlier *)
(* call only is still this version's.                                      *)
FromContent == {"body", "ocr_confidence", "phash"}

OfThisVersion(b) == \A n \in DOMAIN build[b].saw : build[b].saw[n].ver >= build[b].at
OnlyAsked(b) ==
  /\ DOMAIN build[b].saw \cap ProbedNames \subseteq AskedProbes(build[b].ask.do)
  /\ "is_quarantined" \in DOMAIN build[b].saw => "xattrs" \in build[b].ask.do
  /\ DOMAIN build[b].saw \ TypedNames
       \subseteq Extracted(kind) \cup AskedKeys(build[b].ask.do) \cup Unsaid(b)
RowAgrees(b) ==
  LET wanted == IF build[b].ask.fields = {} THEN RowNames ELSE build[b].ask.fields \cup AlwaysOn
      shown == DOMAIN build[b].saw \cap RowNames \cap wanted
  IN  build[b].state = "shown" =>
        /\ shown \subseteq DOMAIN build[b].row
        /\ Private(b) => build[b].row = [n \in shown |-> build[b].saw[n]]
AskedFresh(b) ==
  \A n \in DOMAIN build[b].saw \cap (AskedKeys(build[b].ask.do) \ FromContent) :
    \/ build[b].saw[n].around \in build[b].since
    \/ build[b].hit /\ ("none" \in build[b].since \/ n = "is_static_site")

(* The record of a file (evaluator.go:459-866, memory.go:67, match_from.go):*)
(* what an expression sees and a row shows is of this very version of the  *)
(* file or newer; it was extracted from it or asked for by this call, or   *)
(* is one of the names of which nothing is said; what was asked for of its *)
(* surroundings and is there is as it was during the call (nothing is said *)
(* of a hit's when there is nothing to overwrite an earlier call's with);  *)
(* and, where the map is the record's own, the row shows just what the     *)
(* expression saw.                                                         *)
RowsHonest ==
  \A b \in Builds : HasSeen(b) =>
    OfThisVersion(b) /\ OnlyAsked(b) /\ RowAgrees(b) /\ AskedFresh(b)

(* The verdict on a certificate "is never cached ... it is recomputed on   *)
(* every walk, like project context" (BuildOptions.VerifyC2PA), and so is  *)
(* the project (applyProjectContext): a record shows none that this very   *)
(* build has not asked for and computed.                                   *)
PerWalk == {"c2pa_valid", "project_type", "is_static_site"}
RecomputedEachWalk ==
  \A b \in Builds : HasSeen(b) =>
    \A n \in DOMAIN build[b].saw \cap PerWalk :
      n \in AskedKeys(build[b].ask.do) /\ build[b].saw[n].around \in build[b].since
=============================================================================
