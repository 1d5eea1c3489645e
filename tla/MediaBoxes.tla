------------------------------ MODULE MediaBoxes ------------------------------
(* What a film or sound file means to say: a tree of boxes, the cells it   *)
(* is written as, and what it tells by looking up, without any reading.    *)
EXTENDS MediaTracks, SequencesExt

-----------------------------------------------------------------------------
(* The cells of a tree of boxes.                                           *)
Body == [name |-> "body", size |-> 1, val |-> <<>>]
RECURSIVE Cells(_)
Cells(boxes) ==
  IF boxes = <<>> THEN <<>>
  ELSE LET b == Head(boxes)
           inside == (IF b.val = <<>> THEN <<>> ELSE <<Body>>) \o Cells(b.kids)
           header == [name |-> b.name, size |-> 1 + Len(inside), val |-> b.val]
       IN  <<header>> \o inside \o Cells(Tail(boxes))

(* What a tree of boxes tells, by looking up.                              *)
Named(boxes, n) == SelectSeq(boxes, LAMBDA b : b.name = n)
Below(boxes, n) == FlattenSeq([i \in 1 .. Len(Named(boxes, n)) |-> Named(boxes, n)[i].kids])
ValueIn(boxes, n, i, default) ==
  IF Named(boxes, n) = <<>> THEN default ELSE Last(Named(boxes, n)).val[i]
LastOr(s, default) == IF s = <<>> THEN default ELSE Last(s)
HeadOr(s, default) == IF s = <<>> THEN default ELSE Head(s)
NoBox == [name |-> "", val |-> <<0, "">>, kids |-> <<>>]

(* The first track of sound tells of the sound, the last one of pictures   *)
(* of these, field by field; it is turned as the first of pictures that is.*)
FilmTold(boxes) ==
  LET top == Below(boxes, "moov")
      tracks == SelectSeq(Named(top, "trak"), LAMBDA t : Named(t.kids, "mdia") # <<>>)
      media(t) == Below(t.kids, "mdia")
      table(t) == Below(Below(media(t), "minf"), "stbl")
      of(k) == SelectSeq(tracks, LAMBDA t : ValueIn(media(t), "hdlr", 1, "") = k)
      entries(k) == [i \in 1 .. Len(of(k)) |-> HeadOr(Below(table(of(k)[i]), "stsd"), NoBox)]
      inside(k) == FlattenSeq([i \in 1 .. Len(entries(k)) |-> entries(k)[i].kids])
      scale(t) == ValueIn(media(t), "mdhd", 1, 0)
      frame(t) == ValueIn(table(t), "stts", 1, 0)
      timed == SelectSeq(of("vide"), LAMBDA t : scale(t) > 0 /\ frame(t) > 0)
      turned == SelectSeq(of("vide"), LAMBDA t : ValueIn(t.kids, "tkhd", 1, 0) # 0)
  IN  [Unknown EXCEPT
         !.dur = ValueIn(top, "mvhd", 1, 0),
         !.video = LastOr(entries("vide"), NoBox).name,
         !.width = LastOr(entries("vide"), NoBox).val[1],
         !.audio = HeadOr(entries("soun"), NoBox).name,
         !.channels = HeadOr(entries("soun"), NoBox).val[1],
         !.bits = ValueIn(inside("vide"), "btrt", 1, 0),
         !.colour = ValueIn(inside("vide"), "colr", 1, ""),
         !.fps = IF timed = <<>> THEN 0 ELSE FrameRate(scale(Last(timed)), frame(Last(timed))),
         !.rotation = IF turned = <<>> THEN 0 ELSE ValueIn(Head(turned).kids, "tkhd", 1, 0),
         !.langs = [i \in 1 .. Len(of("text")) |-> ValueIn(media(of("text")[i]), "mdhd", 2, "")]]

(* Of a sound file the last track that holds sound tells.                  *)
SoundTold(boxes) ==
  LET top == Below(boxes, "moov")
      table(t) == Named(Below(Below(Below(Below(t.kids, "mdia"), "minf"), "stbl"), "stsd"), "mp4a")
      heard == SelectSeq(Named(top, "trak"), LAMBDA t : table(t) # <<>>)
      entries == [i \in 1 .. Len(heard) |-> Head(table(heard[i]))]
  IN  [Unknown EXCEPT !.dur = ValueIn(top, "mvhd", 1, 0), !.channels = LastOr(entries, NoBox).val[1],
                      !.bits = ValueIn(Below(entries, "mp4a"), "esds", 1, 0)]

SegmentTold(boxes) ==
  LET tracks == Named(Below(boxes, "Tracks"), "TrackEntry")
      kind(t) == ValueIn(t.kids, "TrackType", 1, "")
      codec(t) == ValueIn(t.kids, "CodecID", 1, "")
      of(k) == SelectSeq(tracks, LAMBDA t : kind(t) = k)
      film == LastOr(of("video"), NoBox)
      sound == HeadOr(of("audio"), NoBox)
      rated == SelectSeq(of("video"), LAMBDA t : ValueIn(t.kids, "Bitrate", 1, 0) > 0)
      coloured == SelectSeq(tracks, LAMBDA t : Named(Below(t.kids, "Video"), "Colour") # <<>>)
  IN  [Unknown EXCEPT
         !.dur = ValueIn(Below(boxes, "Info"), "Duration", 1, 0),
         !.video = codec(film), !.width = ValueIn(Below(film.kids, "Video"), "PixelWidth", 1, 0),
         !.fps = ValueIn(film.kids, "DefaultDuration", 1, 0),
         !.bits = ValueIn(HeadOr(rated, NoBox).kids, "Bitrate", 1, 0),
         !.audio = codec(sound),
         !.channels = ValueIn(Below(sound.kids, "Audio"), "Channels", 1, 0),
         !.colour = ValueIn(Below(Below(LastOr(coloured, NoBox).kids, "Video"), "Colour"),
                            "Transfer", 1, ""),
         !.langs = [i \in 1 .. Len(of("subtitle")) |->
                      ValueIn(of("subtitle")[i].kids, "Language", 1, "")]]

StreamsTold(boxes) ==
  LET top == Below(boxes, "hdrl")
      of(k) == SelectSeq(Named(top, "strl"), LAMBDA s : ValueIn(s.kids, "strh", 1, "") = k)
      sound == HeadOr(of("auds"), NoBox)
  IN  [Unknown EXCEPT
         !.width = ValueIn(top, "avih", 1, 0), !.dur = ValueIn(top, "avih", 2, 0),
         !.bits = ValueIn(top, "avih", 3, 0),
         !.video = ValueIn(LastOr(of("vids"), NoBox).kids, "strh", 2, ""),
         !.audio = ValueIn(sound.kids, "strh", 2, ""),
         !.channels = ValueIn(sound.kids, "strf", 1, 0)]

Told(c) ==
  CASE c.reader = "mp4" -> FilmTold(c.tree) [] c.reader = "m4a" -> SoundTold(c.tree)
    [] c.reader = "mkv" -> SegmentTold(c.tree) [] OTHER -> StreamsTold(c.tree)

(* What the readers' comments say of several tracks of sound, that the     *)
(* first one counts, only Matroska's does, if that track names its codec;  *)
(* and a film may be turned as a track that is no picture's, which another *)
(* comment denies.  These fields are not settled.                          *)
SoundIn(c) ==
  SelectSeq(c.whole, LAMBDA b : b.name \in {"hdlr", "TrackType", "strh"} /\ b.val[1] \in {"soun", "audio", "auds"})
FirstNamed(c) ==
  LET sound(t) == ValueIn(t.kids, "TrackType", 1, "") = "audio"
      sounds == SelectSeq(Named(Below(c.tree, "Tracks"), "TrackEntry"), sound)
  IN  ValueIn(HeadOr(sounds, NoBox).kids, "CodecID", 1, "") # ""
OddlyTurned(c) ==
  \E t \in Range(Named(Below(c.tree, "moov"), "trak")) :
    /\ Named(t.kids, "mdia") # <<>> /\ ValueIn(Below(t.kids, "mdia"), "hdlr", 1, "") # "vide"
    /\ ValueIn(t.kids, "tkhd", 1, 0) # 0
Unsettled(c) ==
  (IF Len(SoundIn(c)) > 1 /\ ~(c.reader = "mkv" /\ FirstNamed(c)) THEN {"audio", "channels"} ELSE {})
  \cup (IF OddlyTurned(c) THEN {"rotation"} ELSE {})

(* A parse that is left alone tells of a proper file what its boxes say, in*)
(* whatever order they are, as far as the comments and the code agree.     *)
MediaExact ==
  parse = "read" /\ AsMeant(container) =>
    \A f \in DOMAIN Unknown \ Unsettled(container) : MediaAttributes[f] = Told(container)[f]
=============================================================================
