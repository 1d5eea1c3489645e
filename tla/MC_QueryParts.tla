--------------------------- MODULE MC_QueryParts ----------------------------
(* The queries that work on what a walk has found: each behaviour runs one *)
(* of them, with the others at rest in their first state.                  *)
EXTENDS Paging, UnusedExports, TreeDiff, Groups, Organize, Calls, Attributes, Selection,
        Playground, MediaBoxes, TLC

VARIABLE part

Number(n) == [kind |-> "int", n |-> n]
TwoInts == {Number(1), Number(2), [kind |-> "nil", n |-> 0]}

-----------------------------------------------------------------------------
(* Trees of Go files.  Functions 1 (main), 2, 4 and 5 (a test), type 3.    *)
Call(n, args) == [callee |-> n, args |-> args]
Decl(what, n) == [what |-> what, name |-> n, recv |-> NoName, params |-> {}, uses |-> {},
                  methods |-> {}, calls |-> {}]
Func(n, ps, cs) == [Decl("func", n) EXCEPT !.params = ps, !.calls = cs]
Method(n, r) == [Decl("func", n) EXCEPT !.recv = r]
Type(n, ms) == [Decl("type", n) EXCEPT !.methods = ms]
Var(cs) == [Decl("var", NoName) EXCEPT !.calls = cs]
GoFile(p, t, x, ds) ==
  [lang |-> "go", pkg |-> p, test |-> t, external |-> x, imports |-> {}, decls |-> ds]

(* One file whose functions call each other in every way these edges allow:*)
(* a self-call, cycles, two chains of one length.                          *)
Edges == {<<1, 2>>, <<1, 3>>, <<2, 3>>, <<3, 2>>, <<2, 4>>, <<3, 4>>, <<4, 1>>, <<3, 3>>}
CallTree(E) ==
  1 :> GoFile("a", FALSE, FALSE,
              [n \in 1 .. 4 |-> Func(n, {}, {Call(e[2], {}) : e \in {e \in E : e[1] = n}})])

(* Three files: a package, a second file of it or of another one or of     *)
(* none, and a test that is internal, external or in another language.     *)
First == {<<Func(2, {3}, {}), Type(3, {})>>,
          <<Func(2, {3}, {}), Type(3, {}), Var({Call(1, {2})})>>,
          <<Type(3, {}), Method(4, 3), Func(2, {}, {Call(4, {})})>>,
          <<Type(3, {4}), Method(4, 3), Method(4, 2), Func(2, {3}, {Call(4, {})})>>}
Second == {<<>>, <<Func(1, {}, {Call(2, {})})>>, <<Type(2, {}), Func(1, {2}, {})>>,
           <<Func(1, {3}, {Call(3, {})}), Method(5, 1)>>}
Third == {<<Func(5, {}, {Call(2, {})})>>, <<Func(5, {}, {Call(4, {5})}), Func(2, {}, {})>>,
          <<Func(3, {}, {})>>}
SymbolTree(x, y, z, p, ext, lang) ==
  1 :> GoFile("a", FALSE, FALSE, x) @@ 2 :> GoFile(p, FALSE, FALSE, y)
  @@ 3 :> [GoFile("a", TRUE, ext, z) EXCEPT !.lang = lang]

SomeTrees ==
  {CallTree(E) : E \in SUBSET Edges}
  \cup {SymbolTree(x, y, z, p, ext, lang) :
          x \in First, y \in Second, z \in Third, p \in {"a", "b", "none"}, ext \in BOOLEAN,
          lang \in {"go", "other"}}

-----------------------------------------------------------------------------
(* Files with no text, two of one size, and two that only a third makes    *)
(* similar; the last one is always there.                                  *)
Holds(size, text, bits) == [size |-> size, text |-> text, bits |-> bits]
FourStates == {Holds(0, "none", {}), Holds(2, "t1", {1}), Holds(2, "t2", {1, 2}),
               Holds(3, "t3", {1, 2, 3, 4})}
SomeDisks == {d \in [1 .. 4 -> FourStates] : d[4].text = "t2"}

(* Both originals at one place, at one of them, or one at the other's.     *)
SomeTemplates == {[o \in Originals |-> "t"], [o \in Originals |-> "o1"],
                  [o \in Originals |-> IF o = "o1" THEN "o2" ELSE "t"]}
SomeVariants == [p \in Places |-> CASE p = "t" -> <<"t1">> [] p = "o1" -> <<"u1">> [] OTHER -> <<>>]

(* Records: of a text and of a picture, two calls that ask for different   *)
(* things; of every other type, two that ask for nothing.                  *)
ParsedKinds ==
  {"markdown", "repo/license", "manifest/node", "system/plist", "disk-image/iso9660",
   "bytecode/jvm", "science/pds3", "database/sqlite", "database/sqlite-wal", "font/ttf",
   "image/raw-cr2", "model3d/stl", "image/jpeg", "audio/mpeg", "archive/zip", "binary/macho",
   "source/go", "install/deb", "browser/bookmarks-safari", "chat/slack-export", "none"}
SomeRequests ==
  [k \in ParsedKinds \cup {"text", "image/heic"} |->
     CASE k = "text" -> <<{Request({"project", "hashes", "known"}),
                           Request({"body", "similar", "xattrs"})},
                          {Request({"lean"}), Request({"bare", "keyword", "git"}),
                           [do |-> {"project", "xattrs"}, fields |-> {"project_type"}]}>>
       [] k = "image/heic" -> <<{Request({"ocr", "disguise"}), Request({"verify", "phash"})},
                                {Request({}), Request({"verify"})}>>
       [] OTHER -> <<{Request({})}, {Request({})}>>]
RecordInit ==
  \/ \E m \in {"memory", "bbolt"}, k \in DOMAIN SomeRequests, there \in BOOLEAN :
       /\ k \in ParsedKinds => m = "memory" /\ ~there
       /\ k = "image/heic" => m = "memory" /\ there
       /\ AttributesStart(m, k, "no", "old", there)
  \/ \E l \in {"file", "broken"} : AttributesStart("memory", "image/heic", l, "old", TRUE)

-----------------------------------------------------------------------------
(* Disks, with a root "r", another place "o", and what may happen to them. *)
FileAt(p, f) == p :> [Spot("file") EXCEPT !.file = f]
DirAt(p, ignore) == p :> [Spot("dir") EXCEPT !.ignore = ignore]
LinkAt(p, q) == p :> [Spot("link") EXCEPT !.to = q]
InRoot(n) == <<"r", n>>
InA(n) == <<"r", "a", n>>
InOther(n) == <<"o", n>>
PlainDisk ==
  DirAt(<<"r">>, {<<"a", "f">>}) @@ FileAt(InRoot("f"), "f1") @@ DirAt(InRoot("a"), {})
  @@ FileAt(InA("f"), "f2") @@ FileAt(InA("g"), "f3") @@ DirAt(InRoot("v"), {})
  @@ FileAt(<<"r", "v", "f">>, "f4") @@ InRoot("p") :> Spot("special")
LinkedDisk ==
  DirAt(<<"r">>, {<<"l", "f">>}) @@ DirAt(InRoot("a"), {}) @@ FileAt(InA("f"), "f2")
  @@ LinkAt(InA("l"), <<"r">>) @@ LinkAt(InRoot("l"), <<"o">>) @@ InRoot("p") :> Spot("special")
  @@ DirAt(<<"o">>, {}) @@ FileAt(InOther("f"), "f4") @@ FileAt(InOther("g"), "f3")
  @@ LinkAt(InOther("l"), InRoot("a"))
OddDisk ==
  DirAt(<<"r">>, {}) @@ LinkAt(InRoot("l"), InRoot("p")) @@ InRoot("p") :> Spot("special")
  @@ LinkAt(InRoot("f"), InRoot("f")) @@ DirAt(InRoot(".git"), {}) @@ FileAt(<<"r", ".git", "f">>, "f1")
  @@ LinkAt(InRoot("a"), InRoot("g")) @@ FileAt(InRoot("g"), "f2") @@ FileAt(InRoot("m"), "f4")
SomeDiskChanges ==
  {[at |-> c[1], into |-> c[2]] :
     c \in {<<InRoot("a"), NoSpot>>, <<InRoot("f"), Spot("special")>>, <<<<"r">>, NoSpot>>,
            <<InRoot("a"), [Spot("link") EXCEPT !.to = <<"o">>]>>,
            <<InRoot("l"), [Spot("link") EXCEPT !.to = InRoot("a")]>>,
            <<InA("h"), [Spot("file") EXCEPT !.file = "f1"]>>}}

SomeDiskTrees == {PlainDisk, LinkedDisk, OddDisk}

WalkOf(roots, follow) ==
  [roots |-> roots, follow |-> follow, globs |-> {}, gitDir |-> FALSE, respect |-> FALSE,
   prune |-> FALSE]
SomeWalks ==
  {WalkOf(<<<<"r">>>>, FALSE), WalkOf(<<<<"r">>>>, TRUE),
   [WalkOf(<<<<"r">>>>, FALSE) EXCEPT !.respect = TRUE],
   [WalkOf(<<<<"r">>>>, TRUE) EXCEPT !.respect = TRUE, !.gitDir = TRUE],
   [WalkOf(<<<<"r">>>>, FALSE) EXCEPT !.prune = TRUE, !.globs = {"g"}],
   WalkOf(<<<<"r">>, InRoot("a")>>, FALSE), WalkOf(<<<<"x">>, InRoot(".git")>>, FALSE),
   WalkOf(<<InRoot("l")>>, TRUE)}
FileValues(k, w, l, f, ls) ==
  [key |-> k, keyword |-> w, likeness |-> l, formula |-> f, lines |-> ls]
SomeValues ==
  [f1 |-> FileValues(2, 1, 0, 1, <<"a", "b", "c">>), f2 |-> FileValues(1, 3, 2, 1, <<"a", "long", "c">>),
   f3 |-> FileValues(MissingKey, 2, 1, 2, <<>>), f4 |-> FileValues(2, 1, 3, 0, <<"long">>)]
Asking(h, o, l) == [how |-> h, order |-> o, limit |-> l]
SomeArrangements ==
  {Asking("arrival", "", 2), Asking("key", "", 0), Asking("key", "desc", 2), Asking("keyword", "", 2),
   Asking("hybrid", "asc", 0), Asking("formula", "", 0)}
SomeNames == <<".git", "a", "f", "g", "h", "l", "m", "o", "p", "r", "v", "x">>

-----------------------------------------------------------------------------
(* The playground: a filter that holds of two of three files, one that asks*)
(* for likeness, and one that does not compile.                            *)
SomeSnapshots == {<<1, 2, 3>>, <<2>>}
SomeMatching == "some" :> {2, 3}
SomeClose == "q1" :> {2}

-----------------------------------------------------------------------------
(* Films and sound files of two tracks, their boxes in order or reversed.  *)
Node(n, v, ks) == [name |-> n, val |-> v, kids |-> ks]
Turned(ks, back) == IF back THEN Reverse(ks) ELSE ks
Movie(tracks, back) ==
  Turned(<<Node("moov", <<>>, Turned(<<Node("mvhd", <<7>>, <<>>)>> \o tracks, back)),
           Node("mdat", <<0>>, <<>>)>>, back)
FilmTrack(turn, k, lang, delta, entry, back) ==
  Node("trak", <<>>, Turned(
    <<Node("tkhd", <<turn>>, <<>>),
      Node("mdia", <<>>, Turned(
        <<Node("hdlr", <<k>>, <<>>), Node("mdhd", <<2, lang>>, <<>>),
          Node("minf", <<>>, <<Node("stbl", <<>>, Turned(
            <<Node("stsd", <<0>>, <<entry>>), Node("stts", <<delta>>, <<>>)>>, back))>>)>>,
        back))>>, back))
Avc == Node("avc1", <<10>>, <<Node("btrt", <<5>>, <<>>), Node("colr", <<"hdr">>, <<>>)>>)
FilmTracks(b) ==
  {FilmTrack(90, "vide", "", 1, Avc, b), FilmTrack(0, "vide", "", 0, Node("hvc1", <<20>>, <<>>), b),
   FilmTrack(0, "soun", "", 3, Node("mp4a", <<2>>, <<>>), b),
   FilmTrack(180, "soun", "", 3, Node("ac-3", <<6>>, <<>>), b),
   FilmTrack(0, "text", "en", 0, Node("tx3g", <<0>>, <<>>), b),
   FilmTrack(0, "tmcd", "en", 0, Node("tmcd", <<0>>, <<>>), b),
   Node("trak", <<>>, <<Node("tkhd", <<90>>, <<>>)>>)}
SoundTracks ==
  {Node("trak", <<>>, <<Node("mdia", <<>>, <<Node("minf", <<>>, <<Node("stbl", <<>>,
     <<Node("stsd", <<0>>, e)>>)>>)>>)>>) :
     e \in {<<Node("mp4a", <<2>>, <<Node("esds", <<5>>, <<>>)>>)>>,
            <<Node("tx3g", <<0>>, <<>>), Node("mp4a", <<1>>, <<>>)>>}}

Entry(k, ks, b) == Node("TrackEntry", <<>>, Turned(<<Node("TrackType", <<k>>, <<>>)>> \o ks, b))
Codec(n) == Node("CodecID", <<n>>, <<>>)
Heard(n) == Node("Audio", <<>>, <<Node("Channels", <<n>>, <<>>)>>)
Picture(b) ==
  Entry("video", <<Codec("h264"), Node("DefaultDuration", <<4>>, <<>>), Node("Bitrate", <<5>>, <<>>),
                   Node("Video", <<>>, Turned(<<Node("PixelWidth", <<10>>, <<>>),
                     Node("Colour", <<>>, <<Node("Transfer", <<"hdr">>, <<>>)>>)>>, b))>>, b)
SegmentTracks(b) ==
  {Picture(b), Entry("audio", <<Codec("aac"), Heard(2)>>, b), Entry("audio", <<Codec("opus"), Heard(6)>>, b),
   Entry("audio", <<Heard(1)>>, b), Entry("subtitle", <<Node("Language", <<"en">>, <<>>)>>, b),
   Entry("subtitle", <<>>, b)}
Segment(tracks, b) ==
  Turned(<<Node("Info", <<>>, <<Node("Duration", <<7>>, <<>>)>>), Node("Tracks", <<>>, tracks)>>, b)
  \o <<Node("Cluster", <<0>>, <<>>), Node("Cluster", <<0>>, <<>>)>>
Stream(k, codec, format) ==
  Node("strl", <<>>, <<Node("strh", <<k, codec>>, <<>>), Node("strf", <<format>>, <<>>)>>)
Streams == {Stream("vids", "xvid", 0), Stream("auds", "", 2), Stream("auds", "mp3", 0), Stream("auds", "aac", 6)}
Avi(tracks, b) ==
  Turned(<<Node("hdrl", <<>>, <<Node("avih", <<10, 7, 5>>, <<>>)>> \o tracks), Node("movi", <<0>>, <<>>)>>, b)

Readers == {"mp4", "m4a", "mkv", "avi"}
Two(S) == S \X S
TreesOf(r) ==
  CASE r = "mp4" -> UNION {{Movie(t, b) : t \in Two(FilmTracks(b))} : b \in BOOLEAN}
    [] r = "m4a" -> {Movie(t, b) : t \in Two(SoundTracks), b \in BOOLEAN}
    [] r = "mkv" -> UNION {{Segment(t, b) : t \in Two(SegmentTracks(b))} : b \in BOOLEAN}
    [] OTHER -> {Avi(t, b) : t \in Two(Streams), b \in BOOLEAN}
ToDamage(r) ==
  CASE r = "mp4" -> {Movie(<<FilmTrack(90, "vide", "", 1, Avc, b),
                             FilmTrack(0, "soun", "", 3, Node("mp4a", <<2>>, <<>>), b)>>, b) : b \in BOOLEAN}
    [] r = "m4a" -> {Movie(<<t>>, FALSE) : t \in SoundTracks}
    [] r = "mkv" -> {Segment(<<Picture(b), Entry("audio", <<Codec("aac")>>, b)>>, b) : b \in BOOLEAN}
    [] OTHER -> {Avi(<<Stream("vids", "xvid", 0), Stream("auds", "mp3", 2)>>, FALSE)}
MediaFile(r, boxes, cells, end) ==
  [reader |-> r, tree |-> boxes, whole |-> Cells(boxes), cells |-> cells, end |-> end]
(* One size wrong - none, too small, too large - or the file cut short.    *)
Damaged(r, boxes) ==
  LET whole == Cells(boxes)
      n == Len(whole)
  IN  (UNION {{MediaFile(r, boxes, [whole EXCEPT ![i].size = z], n) : z \in {0, 1, whole[i].size + 1}} :
               i \in {i \in 1 .. n : whole[i] # Body}})
      \cup {MediaFile(r, boxes, SubSeq(whole, 1, l), e) : l \in 1 .. n - 1, e \in IF r = "mkv" THEN {n} ELSE {}}
      \cup {MediaFile(r, boxes, SubSeq(whole, 1, l), l) : l \in 1 .. n - 1}
SomeContainers ==
  UNION {{MediaFile(r, t, Cells(t), Len(Cells(t))) : t \in TreesOf(r)}
         \cup UNION {Damaged(r, t) : t \in ToDamage(r)} : r \in Readers}
(* What is proved of proper files is about these.                          *)
ASSUME WholeFilesAreProper ==
  /\ \A c \in SomeContainers : c.cells = c.whole => AsMeant(c)
  /\ \E c \in SomeContainers : Len(c.cells) < Len(c.whole) /\ AsMeant(c)

-----------------------------------------------------------------------------
NoTrees == [s \in Sides |-> [q \in Rels |-> NoFile]]
LastTemplate == [o \in Originals |-> "t"]
OneDisk == [q \in GroupFiles |-> Holds(2, "t2", {1, 2})]

Init ==
  /\ part \in {"page", "graph", "diff", "group", "organize", "call", "record", "select", "play", "media"}
  /\ IF part = "page" THEN PageInit ELSE PageStart([q \in FilePaths |-> Absent], "asc", FALSE)
  /\ IF part = "graph" THEN GraphInit ELSE GraphStart(CallTree({}), {1})
  /\ ExportInit
  /\ IF part = "diff" THEN DiffInit ELSE DiffStart(NoTrees)
  /\ IF part = "group" THEN GroupInit ELSE GroupStart(OneDisk)
  /\ IF part = "organize" THEN OrganizeInit
     ELSE OrganizeStart([q \in Places |-> Nothing], "skip", FALSE, FALSE, LastTemplate)
  /\ IF part = "call" THEN CallInit
     ELSE CallStart("index_stats", [wrong |-> "nothing", timeout |-> "none"])
  /\ IF part = "record" THEN RecordInit ELSE AttributesStart("memory", "none", "no", "none", FALSE)
  /\ IF part = "select" THEN SelectionInit ELSE SelectionStart(<<>>, WalkOf(<<>>, FALSE))
  /\ IF part = "play" THEN PlayInit ELSE PlayStart(FALSE, "", "", 1)
  /\ IF part = "media" THEN MediaInit ELSE MediaStart(MediaFile("avi", <<>>, <<>>, 0))

Next ==
  /\ IF part = "page" THEN PageNext ELSE UNCHANGED pageVars
  /\ IF part = "graph" /\ unbuilt # {} THEN BuildNext ELSE UNCHANGED graphVars
  /\ IF part = "graph" /\ unbuilt = {} THEN ExportNext ELSE UNCHANGED exportVars
  /\ IF part = "diff" THEN DiffNext ELSE UNCHANGED diffVars
  /\ IF part = "group" THEN GroupNext ELSE UNCHANGED groupVars
  /\ IF part = "organize" THEN OrganizeNext ELSE UNCHANGED organizeVars
  /\ IF part = "call" THEN CallNext ELSE UNCHANGED callVars
  /\ IF part = "record" THEN AttributesNext ELSE UNCHANGED attrVars
  /\ IF part = "select" THEN SelectionNext ELSE UNCHANGED selectionVars
  /\ IF part = "play" THEN PlayNext ELSE UNCHANGED playVars
  /\ IF part = "media" THEN MediaNext ELSE UNCHANGED mediaVars
  /\ UNCHANGED part

Spec ==
  Init /\ [][Next]_<<pageVars, graphVars, exportVars, diffVars, groupVars, organizeVars, callVars,
                     attrVars, selectionVars, playVars, mediaVars, part>>

(* Three of the parts alone.                                               *)
RecordsOnly == part = "record" /\ Spec
CallsOnly == part = "call" /\ Spec
SelectOnly == part = "select" /\ Spec
=============================================================================
