--------------------------- MODULE SmoothManifest ---------------------------
(* The Smooth Streaming parser of src/mss.rs: the quality levels of a manifest  *)
(* one after another, their chunks, the generated init segments, protection,    *)
(* the refresh of a live one, and the init segment that a download generates    *)
(* again for the track of the first fragment. Times are ticks of the time scale. *)
EXTENDS Integers, SequencesExt, FiniteSetsExt

CONSTANTS Manifests, \* documents that are checked
          Updates,   \* documents the server of a live one may have later
          Tracks     \* track ids a fragment may have, 0 for none that is found

VARIABLES document, \* the document read last: duration, live, protection, indexes
          state,    \* "reading", "ended", "regenerated", "refreshed" or "error"
          taken,    \* quality levels looked at
          kept,     \* the streams so far
          clock     \* current_unix_seconds, which an init segment contains

vars == <<document, state, taken, kept, clock>>

Undefined == -1
\* Every quality level with its index: indexes have type, name, chunks (c elements with
\* t, d, r), url and levels; levels have code, id, rate, size, url and private data.
Levels(m) == FlattenSeq([i \in DOMAIN m.indexes |->
  [q \in DOMAIN m.indexes[i].levels |->
     [index |-> m.indexes[i], level |-> m.indexes[i].levels[q]]]])

---------------------------------------------------------------------------
(* MssInitGenerator                                                        *)

Aac == {"AACL", "AACH"}
Avc == {"H264", "AVC1", "DAVC"}
Hevc == {"HVC1", "HEV1", "DVHE", "DVH1"}
CanHandle(code) == code \in Aac \cup {"EC-3", "TTML"} \cup Avc \cup Hevc

\* from_mss_data: Widevine is refused, PlayReady needs a key id; a protected document's
\* text streams are refused with it although their segments are not protected.
ProtectionFails(m) == m.protection \in {"widevine", "playready without KID"}
\* The sample entry: what the stream type and the code are good for, and the parameter
\* sets that the private data must have. AAC makes its own when there are none.
EntryFails(x) ==
  CASE x.index.type = "audio" -> x.level.code \notin Aac \cup {"EC-3"}
    [] x.index.type = "video" -> \/ x.level.code \notin Avc \cup Hevc
                                 \/ ~({"SPS", "PPS"} \subseteq x.level.private)
                                 \/ x.level.code \in Hevc /\ "VPS" \notin x.level.private
    [] x.index.type = "text" -> x.level.code # "TTML"
    [] OTHER -> TRUE
\* gen_moov: what tells two init segments apart.
Generated(m, x, track, time) ==
  [type |-> x.index.type, name |-> x.index.name, code |-> x.level.code, size |-> x.level.size,
   rate |-> IF x.index.type = "audio" THEN x.level.rate ELSE 0, duration |-> m.duration,
   entry |-> IF m.protection = "" \/ x.index.type = "text" THEN "clear" ELSE "encrypted",
   track |-> track, created |-> time]
\* first_tfhd_track_id, or 2.
TrackOf(track) == IF track = 0 THEN 2 ELSE track

---------------------------------------------------------------------------
(* expand_chunks                                                           *)

Ceil(a, b) == (a + b - 1) \div b
MaxOf(a, b) == IF a > b THEN a ELSE b
\* r counts the chunks, the first included; a negative one stands for as many as the
\* whole document could have.
ChunkCount(m, c) ==
  CASE c.r >= 0 -> MaxOf(1, c.r) [] c.d = 0 -> 1 [] OTHER -> MaxOf(1, Ceil(m.duration, c.d))
\* push_chunk_segment: the level's own address pattern, else the index's.
Chunk(x, number, time, d) ==
  LET pattern == IF x.level.url = "" THEN x.index.url ELSE x.level.url
  IN [index |-> number, duration |-> d, time |-> time, key |-> "",
      url |-> IF pattern = "time" THEN <<x.level.rate, time>> ELSE <<x.level.rate, Undefined>>,
      name |-> IF pattern = "time" THEN time ELSE Undefined]
Chunks(m, x) ==
  FoldLeft(LAMBDA a, c :
    LET from == IF c.t = Undefined THEN a.time ELSE c.t
        count == ChunkCount(m, c)
    IN [time |-> from + count * c.d,
        segments |-> a.segments \o [k \in 1..count |->
          Chunk(x, Len(a.segments) + k - 1, from + (k - 1) * c.d, c.d)]],
    [time |-> 0, segments |-> <<>>], x.index.chunks).segments

---------------------------------------------------------------------------
(* parse_stream_index, one quality level                                   *)

MediaType(index) == IF index.type = "text" THEN "sub"
                    ELSE IF index.type = "audio" THEN "audio" ELSE "basic"
\* apply_protection spares text.
Secured(m, x, q) == IF m.protection = "" \/ x.index.type = "text" THEN q
                    ELSE [k \in DOMAIN q |-> [q[k] EXCEPT !.key = "cenc"]]
StreamOf(m, x, time) ==
  [type |-> MediaType(x.index), rate |-> x.level.rate, size |-> x.level.size,
   code |-> x.level.code, group |-> IF x.index.name = "" THEN x.level.id ELSE x.index.name,
   audio |-> "", subtitle |-> "", from |-> x, init |-> Generated(m, x, 2, time),
   segments |-> Secured(m, x, Chunks(m, x))]

Init == document \in Manifests /\ state = "reading" /\ taken = 0 /\ kept = <<>> /\ clock = 0

LevelFails(m, x) ==
  /\ CanHandle(x.level.code)
  /\ \/ x.level.url = "" /\ x.index.url = ""
     \/ ProtectionFails(m) \/ EntryFails(x)
\* A code that is not known is only warned about; any other failure ends it.
TakeLevel ==
  /\ state = "reading" /\ taken < Len(Levels(document)) /\ taken' = taken + 1
  /\ LET x == Levels(document)[taken + 1]
     IN /\ state' = IF LevelFails(document, x) THEN "error" ELSE "reading"
        /\ kept' = IF LevelFails(document, x) \/ ~CanHandle(x.level.code) THEN kept
                   ELSE Append(kept, StreamOf(document, x, clock))
  /\ UNCHANGED <<document, clock>>

\* apply_default_external_tracks: the first of a type.
FirstOf(type) == LET S == {k \in DOMAIN kept : kept[k].type = type}
                 IN IF S = {} THEN "" ELSE kept[Min(S)].group
EndLevels ==
  /\ state = "reading" /\ taken = Len(Levels(document)) /\ state' = "ended"
  /\ kept' = [k \in DOMAIN kept |-> IF kept[k].size = "" THEN kept[k]
       ELSE [kept[k] EXCEPT !.audio = FirstOf("audio"), !.subtitle = FirstOf("sub")]]
  /\ UNCHANGED <<document, taken, clock>>

\* generate_with_first_segment
Regenerate ==
  /\ state = "ended" /\ \E k \in DOMAIN kept, track \in Tracks :
       kept' = [kept EXCEPT ![k].init = Generated(document, kept[k].from, TrackOf(track), clock)]
  /\ state' = "regenerated" /\ UNCHANGED <<document, taken, clock>>

\* refresh_streams: by stream_identity, else by the text of the init segment, which two
\* documents share only when both were read within one second.
Identity(s) == <<s.type, s.group, s.size, s.rate, s.code>>
RefreshedByInit(s, fresh) ==
  LET alike == {k \in DOMAIN fresh : fresh[k].init = s.init}
  IN IF alike = {} THEN s ELSE [s EXCEPT !.segments = fresh[Min(alike)].segments]
Refreshed(s, fresh) ==
  LET same == {k \in DOMAIN fresh : Identity(fresh[k]) = Identity(s)}
      alike == {k \in DOMAIN fresh : fresh[k].init = s.init}
      best == IF same # {} THEN same ELSE alike
  IN IF best = {} THEN s ELSE [s EXCEPT !.segments = fresh[Min(best)].segments]
ReadOf(m, time) ==
  LET known == SelectSeq(Levels(m), LAMBDA x : CanHandle(x.level.code))
  IN [k \in DOMAIN known |-> StreamOf(m, known[k], time)]
Update ==
  /\ state = "ended" /\ document.live /\ clock' \in {clock, clock + 1}
  /\ \E m \in Updates :
       LET failed == \E x \in ToSet(Levels(m)) : LevelFails(m, x)
       IN /\ document' = m /\ state' = IF failed THEN "error" ELSE "refreshed"
          /\ kept' = IF failed THEN kept
                     ELSE [k \in DOMAIN kept |-> Refreshed(kept[k], ReadOf(m, clock'))]
  /\ UNCHANGED taken

Next == TakeLevel \/ EndLevels \/ Regenerate \/ Update
Spec == Init /\ [][Next]_vars

---------------------------------------------------------------------------
(* Properties                                                              *)

\* The chunks of a stream lie one after another: each begins where the one before it
\* ends or where the manifest says, and a manifest whose chunks fill its duration
\* (exact) is cut without gaps, overlaps, or a chunk taken twice.
ChunksFollow ==
  \A n \in DOMAIN kept :
    LET q == kept[n].segments
        stated == {kept[n].from.index.chunks[k].t : k \in DOMAIN kept[n].from.index.chunks}
        follows(k) == q[k + 1].time = q[k].time + q[k].duration
    IN /\ \A k \in 1..(Len(q) - 1) :
            /\ q[k + 1].index = q[k].index + 1
            /\ follows(k) \/ (~document.exact /\ q[k + 1].time \in stated)
       /\ document.exact /\ q # <<>> => Last(q).time + Last(q).duration = document.duration

\* A refresh gives a stream the chunks of its own quality level, as long as the newer
\* document has one: not those of another rate, and not the old ones.
UpdateIsOwn ==
  state = "refreshed" => \A n \in DOMAIN kept, x \in ToSet(Levels(document)) :
    Identity(StreamOf(document, x, clock)) = Identity(kept[n]) =>
      kept[n].segments = Secured(document, x, Chunks(document, x))
=============================================================================
