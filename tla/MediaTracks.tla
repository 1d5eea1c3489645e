----------------------------- MODULE MediaTracks ------------------------------
(* What is read from the containers of films and sound: MP4 (with one      *)
(* reader for films and one for sound), Matroska and AVI.                  *)
(*                                                                         *)
(* A container is a tree of boxes laid out one after the other.  A box     *)
(* begins with its name and size; a reader is a stack of loops, each of    *)
(* which goes from one box to the next at the places these sizes say.  A   *)
(* file is here the sequence of its cells: a box's header is one, what it  *)
(* holds apart from its children is another.  Sizes are not negative.      *)
EXTENDS Integers, Sequences

CONSTANTS Containers   \* the files there are

VARIABLES
  container,     \* the file: its reader, cells, where its boxes are said to end, and what is meant
  loops,         \* loops of the reader, innermost first: [over, start, pos, end]
  gathered,      \* what it will answer
  track,         \* what it knows of the track it is in
  parse          \* reading, read, failed, cancelled, or stuck

mediaVars == <<container, loops, gathered, track, parse>>

IsContainer(c) ==
  /\ c.reader \in {"mp4", "m4a", "mkv", "avi"} /\ c.end \in Nat
  /\ Len(c.cells) \in Nat /\ DOMAIN c.cells = 1 .. Len(c.cells)
  /\ \A i \in DOMAIN c.cells : c.cells[i].size \in Nat
  /\ Len(c.whole) \in Nat /\ DOMAIN c.whole = 1 .. Len(c.whole)
  /\ \A i \in DOMAIN c.whole : DOMAIN c.whole[i] = {"name", "size", "val"}
ASSUME ContainersAssumption == \A c \in Containers : IsContainer(c)

Unknown ==
  [dur |-> 0, width |-> 0, video |-> "", audio |-> "", channels |-> 0, fps |-> 0, rotation |-> 0,
   bits |-> 0, colour |-> "", langs |-> <<>>]
NoTrack ==
  [kind |-> "", codec |-> "", width |-> 0, channels |-> 0, fps |-> 0, bits |-> 0, rotation |-> 0,
   scale |-> 0, lang |-> "", media |-> <<>>, minf |-> <<>>]

-----------------------------------------------------------------------------
(* Which children a loop enters, by what loop; and which ones it reads,    *)
(* into which fields: by the box's own length or up to the parent's end if *)
(* it gives none ("rest"), a fixed number of bytes, a value of exactly the *)
(* box ("exact"), or all of the box ("text"); and what it does when that   *)
(* cannot be read.                                                         *)
FilmEnters ==
  {<<"film", "moov", "moov">>, <<"moov", "trak", "findMedia">>, <<"minf", "stbl", "stbl">>,
   <<"stbl", "stsd", "stsd">>}
SoundEnters ==
  {<<"sound", "moov", "soundMoov">>, <<"soundMoov", "trak", "toMdia">>, <<"toMdia", "mdia", "toMinf">>,
   <<"toMinf", "minf", "toStbl">>, <<"toStbl", "stbl", "toStsd">>, <<"toStsd", "stsd", "soundStsd">>}
SegmentEnters ==
  {<<"Segment", "Info", "Info">>, <<"Segment", "Tracks", "Tracks">>,
   <<"Tracks", "TrackEntry", "TrackEntry">>, <<"TrackEntry", "Video", "Video">>,
   <<"TrackEntry", "Audio", "Audio">>, <<"Video", "Colour", "Colour">>}
AviEnters == {<<"RIFF", "hdrl", "hdrl">>, <<"hdrl", "strl", "strl">>}
Enters == FilmEnters \cup SoundEnters \cup SegmentEnters \cup AviEnters
Entered == {<<e[1], e[2]>> : e \in Enters}
Descending == {"toMdia", "toMinf", "toStbl", "toStsd"}

Field(over, box, of, names, length, unread) ==
  [at |-> <<over, box>>, of |-> of, names |-> names, length |-> length, unread |-> unread]
MovieField(over) == Field(over, "mvhd", "file", <<"dur">>, "rest", "fail")
TurnField == Field("tkhd", "tkhd", "track", <<"rotation">>, "own", "clear")
MediaFields ==
  {Field("mdia", "hdlr", "track", <<"kind">>, "fixed", "fail"),
   Field("mdia", "mdhd", "track", <<"scale", "lang">>, "own", "clear")}
EntryFields ==
  {Field("entry", "btrt", "file", <<"bits">>, "fixed", "keep"),
   Field("entry", "colr", "file", <<"colour">>, "fixed", "keep")}
SoundField == Field("soundEntry", "esds", "file", <<"bits">>, "own", "keep")
LengthField == Field("Info", "Duration", "file", <<"dur">>, "exact", "keep")
TrackFields ==
  {Field("TrackEntry", "TrackType", "track", <<"kind">>, "exact", "keep"),
   Field("TrackEntry", "CodecID", "track", <<"codec">>, "text", "keep"),
   Field("TrackEntry", "DefaultDuration", "track", <<"fps">>, "exact", "keep"),
   Field("TrackEntry", "Bitrate", "track", <<"bits">>, "exact", "keep"),
   Field("TrackEntry", "Language", "track", <<"lang">>, "text", "keep"),
   Field("Video", "PixelWidth", "track", <<"width">>, "exact", "keep"),
   Field("Colour", "Transfer", "file", <<"colour">>, "exact", "keep"),
   Field("Audio", "Channels", "track", <<"channels">>, "exact", "keep")}
AviField == Field("hdrl", "avih", "file", <<"width", "dur", "bits">>, "own", "keep")
FieldReads ==
  MediaFields \cup EntryFields \cup TrackFields
  \cup {MovieField("moov"), MovieField("soundMoov"), TurnField, SoundField, LengthField, AviField}
FieldBoxes == {d.at : d \in FieldReads}
Others ==
  {<<"findMedia", "mdia">>, <<"mdia", "minf">>, <<"stbl", "stts">>} \cup ({"strl"} \X {"strh", "strf"})

-----------------------------------------------------------------------------
(* Where the next box begins.  Without a size a box ends with its parent;  *)
(* the loops over a film's boxes do not leave the parent, and those over a *)
(* sound file's take every size as it is.                                  *)
Ebml == {"Segment", "Info", "Tracks", "TrackEntry", "Video", "Audio", "Colour"}
Riff == {"RIFF", "hdrl", "strl"}
Unclamped == {"soundMoov", "soundStsd", "soundEntry"}
Clamped_Never(f, size) == f.pos + size
Clamped(f, size) == IF size = 0 \/ f.pos + size > f.end THEN f.end ELSE f.pos + size
NextBox(f, size) ==
  CASE size = 0 /\ f.over \in Ebml -> f.end
    [] size = 0 /\ f.over \in Riff -> f.pos + 1
    [] (size > 0 /\ f.over \in Ebml \cup Riff) \/ f.over \in Unclamped -> f.pos + size
    [] OTHER -> Clamped(f, size)

LoopOver(over, from, to) == [over |-> over, start |-> from, pos |-> from, end |-> to]
FirstLoop(reader) ==
  CASE reader = "mp4" -> "film" [] reader = "m4a" -> "sound" [] reader = "mkv" -> "Segment"
    [] OTHER -> "RIFF"

MediaStart(c) ==
  /\ container = c
  /\ loops = <<LoopOver(FirstLoop(c.reader), 0, c.end)>>
  /\ gathered = Unknown /\ track = NoTrack /\ parse = "reading"

Length == Len(container.cells)
Loop == Head(loops)
Box == container.cells[Loop.pos + 1]
Here == <<Loop.over, Box.name>>
Following == NextBox(Loop, Box.size)
HasBody == Loop.pos + 2 <= Length

AtBox == parse = "reading" /\ loops # <<>> /\ Loop.pos < Loop.end /\ Loop.pos < Length

(* The loop goes on to the next box; one that is sent back to where it is  *)
(* reads the same box for ever.                                            *)
Onward(inner) ==
  /\ loops' = inner \o <<[Loop EXCEPT !.pos = Following]>> \o Tail(loops)
  /\ parse' = IF Following <= Loop.pos THEN "stuck" ELSE "reading"
Fails == parse' = "failed" /\ UNCHANGED <<loops, gathered, track>>

SkipBox ==
  /\ AtBox
  /\ Here \notin Entered \cup FieldBoxes \cup Others
  /\ Loop.over \notin {"stsd", "soundStsd"}
  /\ Onward(<<>>) /\ UNCHANGED <<container, gathered, track>>

(* A table of samples has a body before them.  A descending loop enters the*)
(* first box of its name, and that is all.                                 *)
EnterBox ==
  LET table == Box.name = "stsd"
      inner(over) == LoopOver(over, Loop.pos + (IF table THEN 2 ELSE 1), Following)
  IN  /\ AtBox
      /\ \E e \in Enters :
           /\ Here = <<e[1], e[2]>>
           /\ \/ table /\ ~HasBody /\ Fails
              \/ /\ ~table \/ HasBody
                 /\ IF Loop.over \in Descending
                    THEN /\ loops' = <<inner(e[3]), [Loop EXCEPT !.pos = Loop.end]>> \o Tail(loops)
                         /\ UNCHANGED parse
                    ELSE Onward(<<inner(e[3])>>)
                 /\ track' = IF e[3] \in {"findMedia", "TrackEntry", "strl"} THEN NoTrack ELSE track
                 /\ UNCHANGED gathered
      /\ UNCHANGED container

-----------------------------------------------------------------------------
(* Reading a box's own data.                                               *)
OwnLength == Box.size >= 2 /\ Loop.pos + Box.size <= Length
CanRead(length) ==
  CASE length = "own" -> OwnLength
    [] length = "rest" -> OwnLength \/ (Box.size = 0 /\ Loop.end \in Loop.pos + 2 .. Length)
    [] length = "fixed" -> HasBody
    [] length = "exact" -> Following = Loop.pos + 2 /\ HasBody
    [] OTHER -> Following <= Length

(* A record with the fields read, or with them cleared.                    *)
WithFields(rec, d, can) ==
  LET at(n) == {i \in DOMAIN d.names : d.names[i] = n}
      read(i) == IF d.length = "text" /\ Following # Loop.pos + 2 THEN "garbled" ELSE Box.val[i]
  IN  [n \in DOMAIN rec |->
         CASE at(n) = {} -> rec[n] [] at(n) # {} /\ can -> read(CHOOSE i \in at(n) : TRUE)
           [] OTHER -> NoTrack[n]]
ReadField ==
  /\ AtBox
  /\ \E d \in FieldReads :
       LET can == CanRead(d.length)
       IN  /\ d.at = Here
           /\ \/ ~can /\ d.unread = "fail" /\ Fails
              \/ ~can /\ d.unread = "keep" /\ Onward(<<>>) /\ UNCHANGED <<gathered, track>>
              \/ /\ can \/ d.unread = "clear"
                 /\ Onward(<<>>)
                 /\ gathered' = IF d.of = "file" THEN WithFields(gathered, d, can) ELSE gathered
                 /\ track' = IF d.of = "track" THEN WithFields(track, d, can) ELSE track
  /\ UNCHANGED container

(* Where a track's media and the tables in it are.                         *)
NoteRange ==
  LET range == <<Loop.pos + 1, Following>>
  IN  /\ AtBox /\ Here \in {<<"findMedia", "mdia">>, <<"mdia", "minf">>}
      /\ track' = IF Box.name = "mdia" THEN [track EXCEPT !.media = range]
                                       ELSE [track EXCEPT !.minf = range]
      /\ Onward(<<>>) /\ UNCHANGED <<container, gathered>>

(* The frame rate is a film track's time scale by its first frame's length.*)
FrameRate(scale, delta) == 100 * scale + delta
ReadTimes ==
  LET told == /\ track.kind = "vide" /\ track.scale > 0
              /\ Following \in Loop.pos + 2 .. Length /\ Box.val[1] > 0
  IN  /\ AtBox /\ Here = <<"stbl", "stts">>
      /\ gathered' = IF told THEN [gathered EXCEPT !.fps = FrameRate(track.scale, Box.val[1])]
                     ELSE gathered
      /\ Onward(<<>>) /\ UNCHANGED <<container, track>>

(* The first entry of a table counts: in a film that of a picture or sound *)
(* track, in a sound file the first one of sound.                          *)
IntoEntry(over) ==
  /\ HasBody
  /\ loops' = <<LoopOver(over, Loop.pos + 2, Following)>> \o Tail(loops)
  /\ UNCHANGED <<track, parse>>
ReadFilmSample ==
  /\ AtBox /\ Loop.over = "stsd"
  /\ \/ track.kind \notin {"vide", "soun"} /\ Onward(<<>>) /\ UNCHANGED <<gathered, track>>
     \/ track.kind = "vide" /\ ~HasBody /\ Fails
     \/ /\ track.kind = "vide" /\ IntoEntry("entry")
        /\ gathered' = [gathered EXCEPT !.video = Box.name, !.width = Box.val[1]]
     \/ /\ track.kind = "soun" /\ loops' = Tail(loops)
        /\ gathered' = [gathered EXCEPT !.audio = Box.name,
                                        !.channels = IF HasBody THEN Box.val[1] ELSE @]
        /\ UNCHANGED <<track, parse>>
  /\ UNCHANGED container
ReadSoundSample ==
  /\ AtBox /\ Loop.over = "soundStsd"
  /\ \/ Box.name # "mp4a" /\ Onward(<<>>) /\ UNCHANGED <<gathered, track>>
     \/ Box.name = "mp4a" /\ ~HasBody /\ Fails
     \/ /\ Box.name = "mp4a" /\ IntoEntry("soundEntry")
        /\ gathered' = [gathered EXCEPT !.channels = Box.val[1]]
  /\ UNCHANGED container

(* The header and the format of an AVI stream.                             *)
ReadStream ==
  LET header == Box.name = "strh"
      kind == IF OwnLength THEN Box.val[1] ELSE ""
  IN  /\ AtBox /\ Here \in {<<"strl", "strh">>, <<"strl", "strf">>}
      /\ track' = IF header THEN [track EXCEPT !.kind = kind] ELSE track
      /\ gathered' =
           CASE header /\ kind = "vids" -> [gathered EXCEPT !.video = Box.val[2]]
             [] header /\ kind = "auds" /\ Box.val[2] # "" -> [gathered EXCEPT !.audio = Box.val[2]]
             [] ~header /\ OwnLength /\ track.kind = "auds" /\ gathered.channels = 0 ->
                  [gathered EXCEPT !.channels = Box.val[1]]
             [] OTHER -> gathered
      /\ Onward(<<>>) /\ UNCHANGED container

-----------------------------------------------------------------------------
(* The next header would be beyond the end of the file: an error, or for   *)
(* some loops just the end.                                                *)
HeaderMissing ==
  /\ parse = "reading" /\ loops # <<>> /\ Loop.pos < Loop.end /\ Loop.pos >= Length
  /\ IF Loop.over \in Riff \cup {"tkhd", "entry", "soundEntry"}
     THEN /\ loops' = <<[Loop EXCEPT !.pos = Loop.end]>> \o Tail(loops)
          /\ track' = IF Loop.over = "tkhd" THEN [track EXCEPT !.rotation = 0] ELSE track
          /\ UNCHANGED <<gathered, parse>>
     ELSE Fails
  /\ UNCHANGED container

(* What a Matroska track adds when it ends: of sound, the first one counts.*)
TrackTold_Last(info, t) ==
  CASE t.kind = "video" ->
         [info EXCEPT !.video = t.codec, !.width = IF t.width > 0 THEN t.width ELSE @,
                      !.fps = IF t.fps > 0 THEN t.fps ELSE @, !.bits = IF @ = 0 THEN t.bits ELSE @]
    [] t.kind = "audio" ->
         [info EXCEPT !.audio = t.codec, !.channels = IF t.channels > 0 THEN t.channels ELSE @]
    [] t.kind = "subtitle" -> [info EXCEPT !.langs = Append(@, t.lang)]
    [] OTHER -> info
TrackTold(info, t) ==
  CASE t.kind = "video" ->
         [info EXCEPT !.video = t.codec, !.width = IF t.width > 0 THEN t.width ELSE @,
                      !.fps = IF t.fps > 0 THEN t.fps ELSE @, !.bits = IF @ = 0 THEN t.bits ELSE @]
    [] t.kind = "audio" /\ info.audio = "" ->
         [info EXCEPT !.audio = t.codec, !.channels = IF t.channels > 0 THEN t.channels ELSE @]
    [] t.kind = "subtitle" -> [info EXCEPT !.langs = Append(@, t.lang)]
    [] OTHER -> info

(* A loop comes to its end.  A film's track is read in four of them: to    *)
(* find its media, its rotation, what it is, and its samples.              *)
LeaveLoop ==
  LET over == Loop.over
      inner ==
        CASE over = "findMedia" /\ track.media # <<>> -> <<LoopOver("tkhd", Loop.start, Loop.end)>>
          [] over = "tkhd" -> <<LoopOver("mdia", track.media[1], track.media[2])>>
          [] over = "mdia" /\ track.kind \notin {"text", ""} /\ track.minf # <<>> ->
               <<LoopOver("minf", track.minf[1], track.minf[2])>>
          [] OTHER -> <<>>
  IN  /\ parse = "reading" /\ loops # <<>> /\ Loop.pos >= Loop.end
      /\ loops' = inner \o Tail(loops)
      /\ gathered' =
           CASE over = "tkhd" -> [gathered EXCEPT !.rotation = IF @ = 0 THEN track.rotation ELSE @]
             [] over = "mdia" /\ track.kind = "text" ->
                  [gathered EXCEPT !.langs = Append(@, track.lang)]
             [] over = "TrackEntry" -> TrackTold(gathered, track)
             [] OTHER -> gathered
      /\ UNCHANGED <<container, track, parse>>

ParseEnds ==
  /\ parse = "reading" /\ loops = <<>> /\ parse' = "read"
  /\ UNCHANGED <<container, loops, gathered, track>>
(* Every loop looks at the context before each box.                        *)
CancelParse ==
  /\ parse \in {"reading", "stuck"} /\ loops # <<>> /\ parse' = "cancelled"
  /\ UNCHANGED <<container, loops, gathered, track>>

MediaNext ==
  \/ SkipBox \/ EnterBox \/ ReadField \/ NoteRange \/ ReadTimes \/ ReadFilmSample \/ ReadSoundSample
  \/ ReadStream \/ HeaderMissing \/ LeaveLoop \/ ParseEnds \/ CancelParse

MediaInit == \E c \in Containers : MediaStart(c)
MediaSpec == MediaInit /\ [][MediaNext]_mediaVars

(* An error or a cancelled parse leaves no attributes, and is not told.    *)
MediaAttributes == IF parse = "read" THEN gathered ELSE Unknown

-----------------------------------------------------------------------------
(* A file is what it is meant to be: boxes that hold others or follow them,*)
(* with a body where the readers cannot do without one, as far as it goes. *)
(* The last box at the top may have no size, and the file may end beyond   *)
(* what describes the tracks, unless its boxes are said to end elsewhere.  *)
Until(w, i) == i + w[i].size - 1
Around(w, i, j) == i < j /\ j <= Until(w, i)
Child(w, i, j) == Around(w, i, j) /\ \A k \in i + 1 .. j - 1 : ~Around(w, k, j)
Sample(w, i, j) == w[i].name = "stsd" /\ j > i + 1 /\ Child(w, i, j)
Bodied(w, i) == w[i].size > 1 /\ w[i + 1].size = 1
WellLaid(w) ==
  /\ \A i \in DOMAIN w : w[i].size \in Nat \ {0} /\ Until(w, i) <= Len(w)
  /\ \A i, j \in DOMAIN w : Around(w, i, j) => Until(w, j) <= Until(w, i)
  /\ \A i \in DOMAIN w : w[i].name \in {"mvhd", "hdlr", "stsd"} => Bodied(w, i)
  /\ \A i, j \in DOMAIN w : Sample(w, i, j) => Bodied(w, j)
Describes == {"moov", "Info", "Tracks", "hdrl"}
AsMeant(c) ==
  LET w == c.whole
      open(i) == /\ c.reader # "avi" /\ w[i].name \in {"moov", "mdat", "Cluster"} /\ Until(w, i) = Len(w)
                 /\ \A j \in 1 .. i - 1 : ~Around(w, j, i)
                 /\ c.cells[i] = [w[i] EXCEPT !.size = 0]
  IN  /\ WellLaid(w)
      /\ Len(c.cells) <= Len(w) /\ \A i \in DOMAIN c.cells : c.cells[i] = w[i] \/ open(i)
      /\ \A i \in DOMAIN w : w[i].name \in Describes => Until(w, i) <= Len(c.cells)
      /\ c.end = Len(c.cells)

(* A loop is over the boxes in box i; the next one it comes to is one of   *)
(* these, and not what a box among them holds.                             *)
LoopNames ==
  {<<e[3], e[2]>> : e \in Enters} \cup {<<"tkhd", "trak">>, <<"mdia", "mdia">>, <<"minf", "minf">>}
LoopIn(w, l, i) ==
  /\ l.end = Until(w, i)
  /\ IF l.over \in {"entry", "soundEntry"} THEN \E s \in DOMAIN w : Sample(w, s, i)
                                           ELSE <<l.over, w[i].name>> \in LoopNames
  /\ IF l.over \in {"entry", "soundEntry", "stsd", "soundStsd"} THEN l.start = i + 1 /\ Bodied(w, i)
                                                                ELSE l.start = i
NextIn(c, l) ==
  \E i \in DOMAIN c.whole :
    /\ LoopIn(c.whole, l, i)
    /\ l.pos < l.end => Child(c.whole, i, l.pos + 1) /\ c.cells[l.pos + 1] = c.whole[l.pos + 1]
NextAtTop(c, l) == l.pos < l.end => \A i \in 1 .. l.pos : ~Around(c.whole, i, l.pos + 1)

(* The parse of a proper file does not fail, stays nowhere, and takes for a*)
(* box only what is one, of the box its loop is in.  That of any other file*)
(* stays at most in a sound file, at a box that has no size; and no loop of*)
(* a film's boxes leaves the one around it.                                *)
ReadOrderly ==
  /\ AsMeant(container) =>
       /\ parse \notin {"failed", "stuck"}
       /\ \A k \in 1 .. Len(loops) : IF k = Len(loops) THEN NextAtTop(container, loops[k])
                                                       ELSE NextIn(container, loops[k])
  /\ parse = "stuck" => /\ container.reader = "m4a"
                        /\ \E i \in 1 .. Length : container.cells[i].size = 0
  /\ container.reader = "mp4" => \A i \in 2 .. Len(loops) : loops[i - 1].end <= loops[i].end
=============================================================================
