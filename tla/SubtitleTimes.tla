---------------------------- MODULE SubtitleTimes ----------------------------
(* The times of subtitles: src/subtitle.rs and its use by src/session.rs. The    *)
(* segments of a subtitle stream are parsed file by file and merged, repaired     *)
(* when their times start anew, moved to the start of the range, and written; a   *)
(* live recording appends what every refresh brings. Times are half seconds.      *)
(* A track has kind ("vtt", "ttml" or "wvtt"), timed (how its files give time:    *)
(* "absolute", "relative" to the segment, "mapped" with an X-TIMESTAMP-MAP that    *)
(* grows with the segments), parts (segments with index, start, duration and cues  *)
(* on the media's time line, a text being its lines; of a live one, what each          *)
(* refresh brings) and the publish times of a live manifest.                       *)
EXTENDS SegmentRange, FiniteSetsExt

CONSTANTS SubtitleTracks, \* tracks that are checked
          Ranges,         \* custom ranges
          AudioStarts     \* probe_live_audio_start_ms: None without --live-fix-vtt-by-audio

VARIABLES track, range, audioStart,
          stage,    \* "reading", "ended"
          refresh,  \* the refresh that is read, 1 of a track that is not live
          files,    \* its segments left to read
          merged,   \* the subtitle so far: there, cues, mpegts
          written   \* the cues of the output file with their numbers

vars == <<track, range, audioStart, stage, refresh, files, merged, written>>

None == -1
Nothing == [there |-> FALSE, cues |-> <<>>, mpegts |-> 0]
Live == track.live
Trunc(a, b) == IF a >= 0 THEN a \div b ELSE -((-a) \div b)
Moved(cue, by) == [cue EXCEPT !.start = @ + by, !.end = @ + by]
MovedAll(cues, by) == [k \in DOMAIN cues |-> Moved(cues[k], by)]

---------------------------------------------------------------------------
(* One file                                                                *)

\* What a file of a segment gives time in, and the MPEG-TS time of a map (in half
\* seconds; 90000 of its units are a second).
Shown(g) == IF track.timed = "absolute" THEN g.cues ELSE MovedAll(g.cues, -g.start)
MapOf(g) == IF track.timed = "mapped" THEN 20 + g.start ELSE 0

\* TTML: a paragraph for every line of a cue, and a long one in two halves. What goes on
\* is joined again, what is there is left out, and lines of the same time are one cue.
Paragraphs(cue) ==
  LET half == (cue.start + cue.end) \div 2
  IN IF Len(cue.text) > 1 THEN [k \in DOMAIN cue.text |-> [cue EXCEPT !.text = <<cue.text[k]>>]]
     ELSE IF cue.end - cue.start > 3 THEN <<[cue EXCEPT !.end = half], [cue EXCEPT !.start = half]>>
     ELSE <<cue>>
JoinParagraph(q, p) ==
  IF q # <<>> /\ Last(q).end = p.start /\ Last(q).text = p.text
  THEN Append(Front(q), [Last(q) EXCEPT !.end = p.end])
  ELSE IF Contains(q, p) THEN q ELSE Append(q, p)
GroupLine(q, p) ==
  LET same == {k \in DOMAIN q : q[k].start = p.start /\ q[k].end = p.end}
  IN IF same = {} THEN Append(q, p) ELSE [q EXCEPT ![Min(same)].text = @ \o p.text]
FromParagraphs(q) == FoldLeft(GroupLine, <<>>, FoldLeft(JoinParagraph, <<>>, q))

\* WVTT: samples one after another from the fragment's time on, some of them empty.
Samples(g) == FoldLeft(LAMBDA a, c :
  [at |-> c.end,
   all |-> a.all \o (IF c.start > a.at THEN <<[lasts |-> c.start - a.at, text |-> <<>>]>> ELSE <<>>)
           \o <<[lasts |-> c.end - c.start, text |-> c.text]>>],
  [at |-> g.start, all |-> <<>>], g.cues).all
FromSamples(base, samples) == FoldLeft(LAMBDA a, x :
  [at |-> a.at + x.lasts,
   cues |-> IF x.text = <<>> THEN a.cues
            ELSE Append(a.cues, [start |-> a.at, end |-> a.at + x.lasts, text |-> x.text])],
  [at |-> base, cues |-> <<>>], samples).cues

InFile(g) ==
  CASE track.kind = "vtt" -> Shown(g)
    [] track.kind = "ttml" -> FromParagraphs(FlattenSeq([k \in DOMAIN g.cues |-> Paragraphs(Shown(g)[k])]))
    [] track.kind = "wvtt" -> FromSamples(g.start, Samples(g))

\* apply_base_timestamp moves the cues up to the first that lies before it.
Based(cues, base) ==
  LET early == {k \in DOMAIN cues : cues[k].start < base}
      upTo == IF early = {} THEN Len(cues) ELSE Min(early) - 1
  IN [k \in DOMAIN cues |-> IF k <= upTo THEN Moved(cues[k], -base) ELSE cues[k]]
\* subtitle_base_timestamp_ms
Playlist == IF Live THEN track.parts[refresh] ELSE Flat(Clipped(track.parts, range))
SkippedTime == IF Live THEN 0 ELSE Skipped(track.parts, range)
Base == IF audioStart # None /\ track.kind = "vtt" THEN audioStart
        ELSE IF Live /\ track.kind = "ttml" /\ track.published # <<>>
        THEN track.published[refresh] - Total(Playlist) ELSE SkippedTime
\* manual_subtitle_mpegts_timestamp: whole seconds before the segment, among those that
\* are there, and what the range skipped.
Manual(g) == 2 * ((Before(Playlist, g.index) + SkippedTime) \div 2)
\* WVTT has no times to repair; TTML and WebVTT get a timestamp when they have none.
Parsed(g) ==
  [there |-> TRUE,
   cues |-> IF Live /\ Base # 0 /\ track.kind # "wvtt" THEN Based(InFile(g), Base) ELSE InFile(g),
   mpegts |-> IF track.kind = "wvtt" THEN 0 ELSE IF MapOf(g) = 0 THEN Manual(g) ELSE MapOf(g)]

---------------------------------------------------------------------------
(* Merging                                                                 *)

\* fix_timestamp: times that start anew are moved by the whole seconds between the two
\* MPEG-TS times.
StartsAnewIfEmpty(old, new) == old.cues = <<>>
StartsAnew(old, new) ==
  IF old.cues = <<>> \/ new.cues = <<>> THEN old.cues = <<>>
  ELSE Head(new.cues).start < Last(old.cues).end /\ Head(new.cues).end # Last(old.cues).end
Fixed(old, new) ==
  LET offset == 2 * Trunc(new.mpegts - old.mpegts, 2)
  IN IF new.mpegts # 0 /\ StartsAnew(old, new) /\ new.cues # <<>> /\ Head(new.cues).start < offset
     THEN MovedAll(new.cues, offset) ELSE new.cues
\* add_cues_from_one: a cue that is there already is left out, one that goes on with the
\* same text makes the last one longer. (One unit of the code is a millisecond.)
Add(cues, cue) ==
  IF Contains(cues, cue) THEN cues
  ELSE IF cues # <<>> /\ cue.start <= Last(cues).end /\ cue.text = Last(cues).text
  THEN Append(Front(cues), [Last(cues) EXCEPT !.end = cue.end])
  ELSE Append(cues, cue)
\* WVTT joins only what touches.
Touch(cues, cue) ==
  IF cues # <<>> /\ cue.start = Last(cues).end /\ cue.text = Last(cues).text
  THEN Append(Front(cues), [Last(cues) EXCEPT !.end = cue.end])
  ELSE Append(cues, cue)
Merge(old, new) ==
  IF track.kind = "wvtt" THEN [old EXCEPT !.there = TRUE, !.cues = FoldLeft(Touch, @, new.cues)]
  ELSE IF ~old.there THEN new
  ELSE [old EXCEPT !.cues = FoldLeft(Add, @, Fixed(old, new))]

\* left_shift_ms
MaxOf(a, b) == IF a > b THEN a ELSE b
ShiftedLeft(cues, by) == [k \in DOMAIN cues |->
  [cues[k] EXCEPT !.start = MaxOf(@ - by, 0), !.end = MaxOf(@ - by, 0)]]

---------------------------------------------------------------------------

Init == /\ track \in SubtitleTracks /\ range \in Ranges /\ audioStart \in AudioStarts
        /\ track.live => range.by = "none"
        /\ ~track.live => audioStart = None
        /\ stage = "reading" /\ refresh = 1 /\ merged = Nothing /\ written = <<>>
        /\ files = Playlist

ReadFile ==
  /\ stage = "reading" /\ files # <<>>
  /\ merged' = Merge(merged, Parsed(Head(files)))
  /\ files' = Tail(files)
  /\ UNCHANGED <<track, range, audioStart, stage, refresh, written>>

\* to_srt numbers the cues and writes a cue without a text when there is none.
Placeholder == [start |-> 0, end |-> 2, text |-> <<>>]
Numbered(cues, from) ==
  LET q == IF cues = <<>> THEN <<Placeholder>> ELSE cues
  IN [k \in DOMAIN q |-> [number |-> from + k, cue |-> q[k]]]

\* write_subtitle_output_if_needed
WriteOnce ==
  /\ stage = "reading" /\ ~Live /\ files = <<>>
  /\ written' = Numbered(ShiftedLeft(merged.cues, Base), 0)
  /\ stage' = "ended" /\ UNCHANGED <<track, range, audioStart, refresh, files, merged>>

\* append_live_subtitle_refresh: what the file holds is counted again for the numbers
\* of the new cues.
Appended(cues) == written \o Numbered(cues, Len(written))
AppendRefresh ==
  /\ stage = "reading" /\ Live /\ files = <<>>
  /\ written' = Appended(merged.cues) /\ merged' = Nothing
  /\ IF refresh < Len(track.parts)
     THEN stage' = stage /\ refresh' = refresh + 1 /\ files' = track.parts[refresh + 1]
     ELSE stage' = "ended" /\ UNCHANGED <<refresh, files>>
  /\ UNCHANGED <<track, range, audioStart>>

Next == ReadFile \/ WriteOnce \/ AppendRefresh
Spec == Init /\ [][Next]_vars

---------------------------------------------------------------------------
(* Properties                                                              *)

\* What the repair can tell: times start anew in every segment, which shows when the
\* first cue of a segment begins before the last one ended and does not end with it; or
\* they are absolute, and a segment begins with no cue of an earlier one but the last: a
\* repeated cue that goes over the boundary together with one that ends sooner looks like
\* times that start anew to the code, which then moves the segment's cues.
Recognisable ==
  \/ /\ track.timed = "absolute"
     /\ track.kind = "wvtt" \/ \A g, h \in ToSet(Flat(track.parts)) :
          g.start < h.start /\ g.cues # <<>> /\ h.cues # <<>> =>
            Last(g.cues).end <= Head(h.cues).start \/ Head(h.cues).end = Last(g.cues).end
  \/ /\ track.timed # "absolute" /\ range.by = "none" /\ track.kind # "wvtt"
     /\ \A g, h \in ToSet(Flat(track.parts)) : g.start < h.start /\ g.cues # <<>> /\ h.cues # <<>> =>
          /\ Head(h.cues).start - h.start < Last(g.cues).end - g.start
          /\ Head(h.cues).end - h.start # Last(g.cues).end - g.start
\* A part that is skipped as a whole is not counted (SegmentRange.Skipped).
FirstPartKept == Clipped(track.parts, range) # <<>> /\ Head(Clipped(track.parts, range)) # <<>>

\* Every cue of the range stands in the file less than a second from its place after
\* the start of the range (at it, what began before), with its text, once, and nothing
\* else does: whatever is cut at segment boundaries, repeated by them, or rounded, as
\* long as the times of the segments are Recognisable.
MediaCues == UNION {ToSet(g.cues) : g \in ToSet(Playlist)}
Near(a, b) == a - b < 2 /\ b - a < 2
CuesKeepTime ==
  stage = "ended" /\ ~Live /\ Recognisable /\ FirstPartKept =>
    LET place(time) == MaxOf(time - SkippedTime, 0)
        shown == {written[k].cue : k \in {j \in DOMAIN written : written[j].cue.text # <<>>}}
    IN /\ \A j, k \in DOMAIN written : written[j].cue = written[k].cue => j = k
       /\ \A c \in MediaCues : \E s \in shown :
            s.text = c.text /\ s.start - 2 < place(c.start) /\ place(c.end) < s.end + 2
       /\ \A s \in shown : /\ \E c \in MediaCues : s.text = c.text /\ Near(s.start, place(c.start))
                           /\ \E c \in MediaCues : s.text = c.text /\ Near(s.end, place(c.end))

\* The cues of the file are numbered from one on, however many refreshes wrote it.
CuesNumbered == \A k \in DOMAIN written : written[k].number = k
=============================================================================
