---------------------------- MODULE DashManifest ----------------------------
(* The DASH parser of src/dash.rs: the streams of an MPD, its representations   *)
(* taken one after another, periods joined, and refreshed from a newer MPD.     *)
(* Times are whole ticks; an address is what the templates put together.        *)
EXTENDS Integers, SequencesExt, FiniteSetsExt

CONSTANTS Mpds,   \* documents that are checked
          Newer,  \* documents the server of a live one may have later
          Now     \* unix_now_seconds

VARIABLES mpd,     \* the document read last: dynamic, shift, available, periods
          doing,   \* "reading", "ended", "refreshed" or "error"
          at,      \* representations taken
          streams  \* the streams so far

vars == <<mpd, doing, at, streams>>

None == -1
\* Every representation with its period: periods have id, duration, base and reps;
\* representations id, type (what the codecs and the adaptation set say, or else its
\* first representation), size, bandwidth, mime, role, base, list, template, media,
\* lines (S elements with t, d, r), scale, start, length, offset, init, protected.
Represented(m) == FlattenSeq([p \in DOMAIN m.periods |->
  [k \in DOMAIN m.periods[p].reps |-> [period |-> m.periods[p], rep |-> m.periods[p].reps[k]]]])

Ceil(a, b) == (a + b - 1) \div b
\* "as i64" cuts off towards zero.
Trunc(a, b) == IF a >= 0 THEN a \div b ELSE -((-a) \div b)

Segment(index, duration, url, name) ==
  [index |-> index, duration |-> duration, url |-> url, name |-> name, key |-> FALSE]
\* replace_template: what of a media template's variables tells addresses apart.
Address(p, r, number, time) ==
  <<p.base, r.id, IF r.media = "number" THEN number ELSE IF r.media = "time" THEN time ELSE None>>

---------------------------------------------------------------------------
(* fill_segments                                                           *)

\* parse_segment_base: without a sourceURL the whole file is one segment.
Whole(p) == <<Segment(0, IF p.duration = None THEN 0 ELSE p.duration,
                      <<p.base, "", None>>, None)>>
FromBase(p, r) == IF r.base = "self" THEN Whole(p) ELSE <<>>
FromList(p, r) == [k \in 1..r.list |-> Segment(k - 1, r.length, <<p.base, r.id, k>>, None)]

\* expand_timeline. A negative repeat fills the period's length from where it is,
\* whatever came before and comes after.
Repeats(p, r, s) == IF s.r >= 0 THEN s.r
                    ELSE IF p.duration = None THEN 0 ELSE Ceil(p.duration * r.scale, s.d) - 1
Times(k) == IF k > 0 THEN k + 1 ELSE 1
Expanded(p, r) ==
  FoldLeft(LAMBDA a, s :
    LET from == IF s.t = None THEN a.time ELSE s.t
        count == Times(Repeats(p, r, s))
    IN [time |-> from + count * s.d, number |-> a.number + count,
        segments |-> a.segments \o
          [k \in 1..count |->
             LET time == from + (k - 1) * s.d
                 number == a.number + k - 1
             IN Segment(Len(a.segments) + k - 1, s.d, Address(p, r, number, time),
                        IF r.media = "time" THEN time ELSE None)]],
    [time |-> 0, number |-> r.start, segments |-> <<>>], r.lines).segments

\* A template with a duration: the whole period, or the window that a live MPD
\* keeps available, by the clock.
Total(p, r) == IF p.duration = None THEN 0 ELSE Ceil(p.duration * r.scale, r.length)
Elapsed(r) == Now - mpd.available - (r.offset \div 1000) \div 1000
First(p, r) == IF mpd.dynamic /\ Total(p, r) = 0
               THEN r.start + Trunc((Elapsed(r) - mpd.shift) * r.scale, r.length) ELSE r.start
Count(p, r) == IF mpd.dynamic /\ Total(p, r) = 0 THEN Trunc(mpd.shift * r.scale, r.length)
               ELSE Total(p, r)
Numbered(p, r) ==
  [k \in 1..Count(p, r) |->
     LET number == First(p, r) + k - 1
     IN Segment(IF mpd.dynamic THEN number ELSE k - 1, r.length,
                Address(p, r, number, None), IF r.media = "number" THEN number ELSE None)]

\* A negative duration is no error: there are no segments then.
TemplateFails(p, r) ==
  \/ r.template = "nothing"
  \/ r.template = "length" /\ r.length = 0
  \/ /\ r.template = "length" /\ r.length > 0
     /\ mpd.dynamic /\ Total(p, r) = 0 /\ mpd.available = None
FromTemplate(p, r) == CASE r.template = "timeline" -> Expanded(p, r)
                        [] r.template = "length" /\ r.length > 0 -> Numbered(p, r)
                        [] OTHER -> <<>>
Filled(p, r) ==
  LET all == FromBase(p, r) \o FromList(p, r) \o FromTemplate(p, r)
  IN IF all = <<>> THEN Whole(p) ELSE all

---------------------------------------------------------------------------
(* parse_representation, apply_content_protection                          *)

\* media_type, role_type: a subtitle role decides, then the codec, then the type.
MediaType(r) == IF r.role \in {"subtitle", "forced-subtitle"} THEN "sub" ELSE r.type
InitOf(p, r) == IF r.template \in {"timeline", "length"} /\ r.init THEN <<p.base, r.id, None>>
                ELSE IF r.base = "init" \/ (r.list > 0 /\ r.init) THEN <<p.base, r.id, 0>> ELSE <<>>
Protected(q, r) == [k \in DOMAIN q |-> [q[k] EXCEPT !.key = r.protected]]
StreamOf(p, r) ==
  [period |-> p.id, group |-> r.id, size |-> r.size, type |-> MediaType(r), ext |-> r.mime,
   bandwidth |-> r.bandwidth, audio |-> "", subtitle |-> "", init |-> InitOf(p, r),
   parts |-> <<Protected(Filled(p, r), r)>>]

\* merge_or_push_stream: the first stream of another period with the same group,
\* size and type takes the parts in; a period that ends with the same file only
\* makes its last segment longer.
Joins(s, new) == /\ s.period # new.period /\ s.group = new.group
                 /\ s.size = new.size /\ s.type = new.type
LastOf(s) == LET part == Last(s.parts) IN part[Len(part)]
Length(q) == FoldLeft(LAMBDA sum, g : sum + g.duration, 0, q)
Longer(s, more) ==
  [s EXCEPT !.parts = Append(Front(@), LET part == Last(@) IN
     Append(Front(part), [Last(part) EXCEPT !.duration = @ + more]))]
JoinedFromZero(s, new) ==
  IF LastOf(s).url = LastOf(new).url THEN Longer(s, Length(new.parts[1]))
  ELSE [s EXCEPT !.parts = @ \o new.parts]
Joined(s, new) ==
  IF LastOf(s).url = LastOf(new).url THEN Longer(s, Length(new.parts[1]))
  ELSE [s EXCEPT !.parts = @ \o
          [j \in DOMAIN new.parts |-> [k \in DOMAIN new.parts[j] |->
             [new.parts[j][k] EXCEPT !.index = @ + LastOf(s).index + 1]]]]
With(new) ==
  LET same == {k \in DOMAIN streams : Joins(streams[k], new)}
  IN IF mpd.dynamic \/ same = {} THEN Append(streams, new)
     ELSE [streams EXCEPT ![Min(same)] = Joined(@, new)]

---------------------------------------------------------------------------

Init == mpd \in Mpds /\ doing = "reading" /\ at = 0 /\ streams = <<>>

Represent ==
  /\ doing = "reading" /\ at < Len(Represented(mpd)) /\ at' = at + 1
  /\ LET x == Represented(mpd)[at + 1]
     IN IF TemplateFails(x.period, x.rep) THEN doing' = "error" /\ streams' = streams
        ELSE doing' = doing /\ streams' = With(StreamOf(x.period, x.rep))
  /\ UNCHANGED mpd

\* apply_dash_default_external_tracks: max_by_key takes the last of the best.
Best(type) == LET S == {k \in DOMAIN streams : streams[k].type = type}
              IN IF S = {} THEN ""
                 ELSE streams[Max({k \in S : \A j \in S :
                                     streams[j].bandwidth <= streams[k].bandwidth})].group
SegmentCount(s) == Len(FlattenSeq(s.parts))
\* normalize_dash_extensions
Ext(s) == IF s.type = "sub" THEN IF s.ext = "mp4" THEN "m4s" ELSE s.ext
          ELSE IF s.ext = "" \/ SegmentCount(s) > 1 THEN "m4s" ELSE s.ext
Finish ==
  /\ doing = "reading" /\ at = Len(Represented(mpd)) /\ doing' = "ended"
  /\ streams' = [k \in DOMAIN streams |-> [streams[k] EXCEPT
       !.audio = IF streams[k].size = "" THEN "" ELSE Best("audio"),
       !.subtitle = IF streams[k].size = "" THEN "" ELSE Best("sub"),
       !.ext = Ext(streams[k])]]
  /\ UNCHANGED <<mpd, at>>

\* refresh_streams: by group, size and type, else by the address of the init
\* segment, which "no init segment" equals too; only the parts are replaced.
SameStream(s, t) == s.group = t.group /\ s.size = t.size /\ s.type = t.type
RefreshedByInit(s, fresh) ==
  LET alike == {k \in DOMAIN fresh : fresh[k].init = s.init}
  IN IF alike = {} THEN s ELSE [s EXCEPT !.parts = fresh[Min(alike)].parts]
Refreshed(s, fresh) ==
  LET same == {k \in DOMAIN fresh : SameStream(fresh[k], s)}
      alike == {k \in DOMAIN fresh : fresh[k].init = s.init}
      best == IF same # {} THEN same ELSE alike
  IN IF best = {} THEN s ELSE [s EXCEPT !.parts = fresh[Min(best)].parts]
\* The document mpd read at once: a live one, whose representations are not joined.
Fails == \E x \in ToSet(Represented(mpd)) : TemplateFails(x.period, x.rep)
Read == [k \in DOMAIN Represented(mpd) |->
           StreamOf(Represented(mpd)[k].period, Represented(mpd)[k].rep)]
Refresh ==
  /\ doing = "ended" /\ mpd.dynamic /\ mpd' \in Newer
  /\ IF Fails' THEN doing' = "error" /\ streams' = streams
     ELSE /\ doing' = "refreshed"
          /\ streams' = [k \in DOMAIN streams |-> Refreshed(streams[k], Read')]
  /\ UNCHANGED at

Next == Represent \/ Finish \/ Refresh
Spec == Init /\ [][Next]_vars

---------------------------------------------------------------------------
(* Properties                                                              *)

Segments(s) == FlattenSeq(s.parts)
OfStream(s) == {x \in ToSet(SubSeq(Represented(mpd), 1, at)) :
                  /\ x.rep.id = s.group /\ x.rep.size = s.size /\ MediaType(x.rep) = s.type
                  /\ ~mpd.dynamic \/ x.period.id = s.period}

\* The index names the file of a segment: within a stream, its periods and its
\* joined parts, no two are the same, and they follow the presentation. Nothing
\* gets lost when periods are joined: a stream is as long as the segments of all
\* its periods together, although a period that repeats a file adds no segment.
PeriodsAreJoined ==
  doing \in {"reading", "ended"} => \A n \in DOMAIN streams :
    LET s == streams[n] q == Segments(s)
    IN /\ \A k \in 1..(Len(q) - 1) : q[k].index < q[k + 1].index
       /\ Length(q) = FoldSet(LAMBDA x, sum : sum + Length(Filled(x.period, x.rep)), 0, OfStream(s))

\* A refresh gives a stream the segments of a representation with its id, size and
\* type, when the newer document has one. Of which period it does not say: the code
\* looks for the stream without its period, and so gives the streams of a live
\* document's later periods what the first of them has.
RefreshIsOwn ==
  doing = "refreshed" => \A n \in DOMAIN streams :
    LET own == {x \in ToSet(Represented(mpd)) :
                  /\ x.rep.id = streams[n].group /\ x.rep.size = streams[n].size
                  /\ MediaType(x.rep) = streams[n].type}
    IN own # {} => \E x \in own :
         Segments(streams[n]) = Protected(Filled(x.period, x.rep), x.rep)
=============================================================================
