---------------------------- MODULE MediaInputs ----------------------------
(* The documents, streams, requests and subtitles that MCMedia checks the parsers, *)
(* the selection and the subtitles with: few, and each there for a case of the     *)
(* code, which its comment names.                                                  *)
EXTENDS Integers, SequencesExt

Unset == -1

---------------------------------------------------------------------------
(* MPEG-DASH                                                               *)

Rep(id, type) ==
  [id |-> id, type |-> type, size |-> IF type = "video" THEN "hd" ELSE "", bandwidth |-> 1,
   mime |-> "mp4", role |-> "", base |-> "", list |-> 0, template |-> "", media |-> "number",
   lines |-> <<>>, scale |-> 1, start |-> 1, length |-> 2, offset |-> 0, init |-> TRUE,
   protected |-> FALSE]
Line(t, d, r) == [t |-> t, d |-> d, r |-> r]
Timed(id, type, lines) ==
  [Rep(id, type) EXCEPT !.template = "timeline", !.media = "time", !.lines = lines]
Counted(id, type) == [Rep(id, type) EXCEPT !.template = "length", !.scale = 2, !.length = 3]
NoInit(r) == [r EXCEPT !.init = FALSE]
Per(id, duration, base, reps) == [id |-> id, duration |-> duration, base |-> base, reps |-> reps]
Mpd(periods) ==
  [name |-> "", dynamic |-> FALSE, shift |-> 6, available |-> 10, periods |-> periods]
LiveMpd(reps) == [Mpd(<<Per("p", Unset, "b", reps)>>) EXCEPT !.dynamic = TRUE, !.name = "live"]
Repeating == <<Line(Unset, 2, 1), Line(Unset, 3, 0)>>
Filling == <<Line(5, 2, -1)>>

\* Three periods of a timeline and a counted template, one of them with a role.
ThreePeriods == Mpd(<<
  Per("p1", 7, "a", <<Timed("v", "video", Repeating), Counted("s", "audio")>>),
  Per("p2", 4, "b", <<Timed("v", "video", Filling), [Counted("s", "audio") EXCEPT !.role = "subtitle"]>>),
  Per("p3", 4, "c", <<Timed("v", "video", <<Line(Unset, 1, -1), Line(9, 2, 0)>>), Counted("s", "audio")>>)>>)
\* A period that repeats a file, and a longer list in the second one.
RepeatedFile == Mpd(<<
  Per("p1", 7, "a", <<[Rep("v", "video") EXCEPT !.base = "self"],
                      [Rep("l", "audio") EXCEPT !.list = 2, !.bandwidth = 3]>>),
  Per("p2", 4, "a", <<[Rep("v", "video") EXCEPT !.base = "init", !.protected = TRUE],
                      [Rep("l", "audio") EXCEPT !.list = 3]>>)>>)
NoDuration == Mpd(<<Per("p1", Unset, "a", <<[Rep("v", "video") EXCEPT !.base = "self"],
                                           Timed("l", "audio", Filling), Counted("n", "audio")>>)>>)
ZeroLength == Mpd(<<Per("p1", 3, "a", <<[Counted("v", "video") EXCEPT !.length = 0]>>)>>)
NoTemplate == Mpd(<<Per("p1", 3, "a", <<[Rep("v", "video") EXCEPT !.template = "nothing"]>>)>>)
\* A live document: one template lies in the future, two streams have no init.
LiveStreams == LiveMpd(<<
  Counted("v", "video"), [Counted("w", "audio") EXCEPT !.offset = 3000000],
  NoInit(Timed("t", "sub", Repeating)), [NoInit(Timed("z", "sub", Repeating)) EXCEPT !.role = "subtitle"]>>)
\* A length below zero, which is read as no segments.
Negative == Mpd(<<Per("p1", 3, "a", <<[Counted("v", "video") EXCEPT !.length = -3]>>)>>)
\* A live document of two periods with the same streams.
TwoLive(first, second) == [LiveMpd(<<>>) EXCEPT !.periods =
  <<Per("p", Unset, "b", <<first>>), Per("q", Unset, "c", <<second>>)>>]
NeverAvailable == [LiveMpd(<<Counted("v", "video")>>) EXCEPT !.available = Unset]
DashMpds == {ThreePeriods, RepeatedFile, NoDuration, ZeroLength, Negative, NoTemplate, LiveStreams,
             NeverAvailable, TwoLive(Timed("v", "video", Filling), Timed("v", "video", Repeating))}
\* What a refresh may bring: other order and templates, fewer streams, another period
\* with the same stream and one that is another's by its type, or an error.
DashLater == {
  NeverAvailable,
  TwoLive(Timed("v", "video", Repeating), Timed("v", "video", <<Line(9, 2, 1)>>)),
  TwoLive([Timed("v", "video", Filling) EXCEPT !.size = "sd"], Timed("v", "video", Repeating)),
  LiveMpd(<<NoInit(Timed("z", "sub", <<Line(7, 2, 2)>>)), NoInit(Timed("t", "sub", <<Line(5, 2, 2)>>)),
            Counted("w", "audio"), Timed("v", "video", Filling)>>),
  LiveMpd(<<Counted("w", "audio")>>)}

---------------------------------------------------------------------------
(* Smooth Streaming                                                        *)

Chunk(t, d, r) == [t |-> t, d |-> d, r |-> r]
Level(code, rate) ==
  [code |-> code, id |-> code, rate |-> rate, url |-> "", private |-> {"SPS", "PPS", "VPS"},
   size |-> IF code \in {"H264", "HVC1", "HEV1"} THEN "hd" ELSE ""]
Index(type, name, chunks, levels) ==
  [type |-> type, name |-> name, url |-> "time", chunks |-> chunks, levels |-> levels]
Doc(indexes) ==
  [duration |-> 8, live |-> FALSE, exact |-> FALSE, protection |-> "", indexes |-> indexes]
Video == Index("video", "v", <<Chunk(Unset, 2, 3), Chunk(6, 2, 0)>>,
               <<Level("H264", 3), Level("HVC1", 5), Level("VC-1", 1)>>)
Audio == Index("audio", "", <<Chunk(0, 8, 0)>>, <<Level("AACL", 1), Level("EC-3", 2)>>)
Text == Index("text", "t", <<Chunk(0, 3, -1)>>, <<Level("TTML", 1)>>)
Plain == [Doc(<<Video, Audio>>) EXCEPT !.exact = TRUE]
LiveDoc == [Doc(<<Video, Audio, Text>>) EXCEPT !.live = TRUE, !.protection = "playready"]
\* What ends the reading or leaves a level out: no duration, a protection without key id,
\* an unknown type, missing parameter sets, a wrong code, an index without address.
SmoothDocs == {
  Plain, LiveDoc, [Plain EXCEPT !.protection = "widevine"],
  Doc(<<Text, Index("text", "w", <<Chunk(3, 0, -1)>>, <<>>)>>),
  Doc(<<Index("image", "i", <<>>, <<Level("H264", 1)>>)>>),
  Doc(<<Index("video", "v", <<>>, <<[Level("HEV1", 2) EXCEPT !.private = {"SPS", "PPS"}]>>)>>),
  Doc(<<Index("text", "v", <<>>, <<Level("H264", 2)>>)>>),
  Doc(<<[Index("audio", "v", <<>>, <<[Level("AACH", 2) EXCEPT !.url = "rate"], Level("AACL", 2)>>)
          EXCEPT !.url = ""]>>)}
LiveLater == [LiveDoc EXCEPT !.indexes = <<
  [Audio EXCEPT !.levels = Reverse(@), !.chunks = <<Chunk(8, 4, 2)>>],
  [Video EXCEPT !.levels = Reverse(@), !.chunks = <<Chunk(8, 2, 0)>>],
  [Text EXCEPT !.name = "other", !.chunks = <<Chunk(8, 3, 0)>>]>>]
SmoothLater == {LiveLater, [LiveLater EXCEPT !.protection = "widevine"]}

---------------------------------------------------------------------------
(* Selection                                                               *)

Seg(index, duration, url) == [index |-> index, duration |-> duration, url |-> url]
TwoParts == <<<<Seg(0, 2, "a"), Seg(1, 2, "b")>>, <<Seg(2, 3, "ad"), Seg(3, 2, "c")>>>>
Str(id, type, group, lang, rate) ==
  [id |-> id, type |-> type, group |-> group, lang |-> lang, rate |-> rate, channels |-> 0,
   range |-> "", audio |-> "", subtitle |-> "", parts |-> <<>>, later |-> TwoParts,
   skipped |-> 0, live |-> FALSE, ext |-> "mp4", method |-> "none"]
\* Streams of a master playlist, their playlists not loaded; two that only differ in id.
Master == <<
  Str("s1", "sub", "subs", "en", Unset), Str("s2", "sub", "subs", "en", Unset),
  Str("a1", "audio", "aud", "en", 1000), Str("a2", "audio", "aud2", "en", 2000),
  Str("a3", "audio", "aud", "fr", Unset),
  [Str("v1", "basic", "", "", 3000) EXCEPT !.audio = "aud", !.subtitle = "subs"],
  [Str("v2", "basic", "", "", 5000) EXCEPT !.audio = "aud2"], Str("cc", "cc", "cc", "en", Unset)>>
Loaded(q) == [k \in DOMAIN q |->
  [q[k] EXCEPT !.parts = IF k % 2 = 0 THEN TwoParts ELSE <<FlattenSeq(TwoParts)>>]]
\* Streams of a manifest that says their type, and the one stream of a media playlist.
Typed == Loaded(<<
  Str("w1", "video", "v", "", 3000), [Str("w2", "video", "v", "", 3500) EXCEPT !.range = "PQ"],
  [Str("b1", "audio", "x", "en", 1000) EXCEPT !.channels = 2, !.method = "cenc"],
  [Str("b2", "audio", "y", "en", 1000) EXCEPT !.channels = 6, !.method = "other"],
  Str("t1", "sub", "z", "en", Unset)>>)
Single == Loaded(<<[Str("l1", "basic", "", "", 1) EXCEPT !.live = TRUE, !.ext = "ts"]>>)
OfferLists == {Master, Typed, Single}

Filter == [field |-> "", value |-> "", least |-> Unset, most |-> Unset, counts |-> Unset,
           choice |-> [which |-> "best", number |-> 1]]
All == [Filter EXCEPT !.choice.which = "all"]
NoFilters == [type \in {"video", "audio", "sub"} |-> <<>>]
Everything == [by |-> "none", from |-> 0, to |-> 0]
ByTime == [by |-> "time", from |-> 2, to |-> 5]
ByIndex == [by |-> "index", from |-> 1, to |-> 2]
Ask(selector) ==
  [keep |-> NoFilters, drop |-> NoFilters, selector |-> selector, ids |-> {},
   range |-> Everything, ads |-> {}, asVod |-> FALSE, mp4forge |-> {}]
\* Every way to select, with filters of every kind, ranges, ads, and the requests that
\* mp4forge cannot serve.
Asks == {
  Ask("auto"),
  [Ask("auto") EXCEPT !.range = ByTime, !.ads = {"ad"}, !.drop["video"] = <<[All EXCEPT !.most = 3200]>>],
  [Ask("subtitles") EXCEPT !.mp4forge = {"mux"}],
  [Ask("auto") EXCEPT !.mp4forge = {"mux", "fallback", "format"}],
  [Ask("subtitles") EXCEPT !.mp4forge = {"mux", "skip"},
     !.drop["sub"] = <<[Filter EXCEPT !.field = "lang", !.value = "en", !.choice.which = "other"]>>],
  [Ask("ids") EXCEPT !.ids = {"a1", "aud", "w1", "b1", "l1"}, !.asVod = TRUE, !.range = ByTime,
     !.mp4forge = {"decrypt"}],
  [Ask("ids") EXCEPT !.ids = {"b1", "b2"}, !.mp4forge = {"decrypt", "mux", "fallback"}],
  [Ask("interactive") EXCEPT !.range = ByIndex],
  [Ask("interactive") EXCEPT !.keep["video"] = <<[All EXCEPT !.least = 2000, !.counts = 2]>>,
     !.keep["audio"] = <<[Filter EXCEPT !.counts = 3, !.choice = [which |-> "worst", number |-> 2]]>>],
  [Ask("interactive") EXCEPT !.keep["video"] = <<All, Filter>>]}

---------------------------------------------------------------------------
(* Subtitles                                                               *)

Cue(start, end, text) == [start |-> start, end |-> end, text |-> <<text>>]
Cued(index, start, duration, cues) ==
  [index |-> index, start |-> start, duration |-> duration, cues |-> cues]
\* A cue goes over a boundary, one is repeated by two segments, one segment is silent.
Crossing == <<
  <<Cued(0, 0, 4, <<Cue(0, 2, "a"), Cue(2, 4, "b")>>), Cued(1, 4, 5, <<Cue(4, 6, "b"), Cue(7, 9, "c")>>)>>,
  <<Cued(2, 9, 3, <<Cue(7, 9, "c"), Cue(9, 11, "d")>>), Cued(3, 12, 4, <<>>),
    Cued(4, 16, 4, <<[Cue(16, 20, "e") EXCEPT !.text = <<"e", "f">>]>>)>>>>
\* Two cues that lie over each other go over a boundary; they end together, or not,
\* where the repair takes the repeated one for times that start anew.
Overlapping(end) == <<<<
  Cued(0, 0, 4, <<Cue(0, 2, "z"), Cue(2, 6, "a"), Cue(3, end, "b")>>),
  Cued(1, 4, 4, <<Cue(2, 6, "a"), Cue(3, end, "b"), Cue(7, 8, "c")>>), Cued(2, 8, 4, <<Cue(8, 10, "d")>>)>>>>
\* Fragments of WVTT are cut at the boundaries.
CutUp == [Crossing EXCEPT ![2][1].cues = <<Cue(9, 10, "c"), Cue(10, 11, "d")>>]
\* Times that start anew in every segment, and a track that begins with a silent one.
Anew == <<<<Cued(0, 0, 5, <<Cue(0, 4, "a")>>), Cued(1, 5, 5, <<Cue(5, 8, "b")>>),
            Cued(2, 10, 5, <<Cue(12, 15, "c")>>)>>>>
Silent == <<<<Cued(0, 0, 4, <<>>), Cued(1, 4, 4, <<Cue(5, 8, "a")>>)>>>>
Track(kind, timed, segs) ==
  [kind |-> kind, timed |-> timed, parts |-> segs, live |-> FALSE, published |-> <<>>]
Shared == {Track("vtt", "absolute", Crossing), Track("ttml", "absolute", Crossing),
           Track("wvtt", "absolute", CutUp)}
TimedTracks ==
  Shared \cup {[t EXCEPT !.live = TRUE, !.published = <<9, 20>>] : t \in Shared}
  \cup {Track("vtt", timed, segs) : timed \in {"absolute", "relative", "mapped"}, segs \in {Anew, Silent}}
  \cup {Track("ttml", "relative", Anew)}
  \cup {Track("vtt", "absolute", Overlapping(end)) : end \in {4, 6}}
TimedRanges == {Everything} \cup {[by |-> "time", from |-> 4, to |-> 9]}
  \cup {[by |-> "index", from |-> n, to |-> m] : n \in 0..2, m \in {1, 4}}
TimedStarts == {Unset, 4}
=============================================================================
