---------------------------- MODULE HlsPlaylist ----------------------------
(* The HLS parser of src/hls.rs: parse_media_playlist and parse_master read a   *)
(* playlist line by line. The lines are chosen step by step, so that all         *)
(* playlists of up to Lines lines are read.                                      *)
EXTENDS Integers, SequencesExt, FiniteSetsExt

CONSTANTS Lines,       \* bound: lines of a playlist that matter
          FirstNumber  \* the value of EXT-X-MEDIA-SEQUENCE

VARIABLES
  phase,    \* "media" or "master" while it reads, then "done" or "error"
  line,     \* lines read
  local,    \* the local variables of parse_media_playlist
  parts,    \* media_parts
  segments, \* current_segments
  init,     \* Playlist.media_init: its number, 0 for none
  live,     \* Playlist.is_live, once the text ended
  variants, \* the streams of a master playlist, and the pending variant
  odd       \* history: EXTINF read since the last address, numbering or parts broken

vars == <<phase, line, local, parts, segments, init, live, variants, odd>>

None == -1
NoKey == [method |-> "none", iv |-> None]
NewSegment == [number |-> 0, index |-> 0, key |-> NoKey, start |-> None, length |-> None]
NewLocal(allow) ==
  [allowMaps |-> allow, pending |-> NewSegment, expect |-> FALSE, endlist |-> FALSE, index |-> 0,
   key |-> NoKey, last |-> NoKey, next |-> None, adGone |-> FALSE, inAd |-> FALSE]

Init ==
  /\ phase \in {"media", "master"} /\ line = 0
  /\ local \in {NewLocal(allow) : allow \in BOOLEAN} /\ parts = <<>> /\ segments = <<>> /\ init = 0
  /\ live = FALSE
  /\ variants = [pending |-> FALSE, streams |-> <<>>]
  /\ odd = [timed |-> FALSE, numbering |-> FALSE, lost |-> FALSE]

Read(mode) == phase = mode /\ line < Lines /\ line' = line + 1
Kept == FlattenSeq(parts) \o segments

\* In an Uplynk ad every tag is passed over but byte ranges, playlist types and
\* the end of the ad: EXT-X-ENDLIST too.
Tag == Read("media") /\ ~local.inAd
Sets(l) == /\ local' = l
           /\ UNCHANGED <<phase, parts, segments, init, live, variants, odd>>
Skip == /\ Read("media") /\ local.inAd
        /\ UNCHANGED <<phase, local, parts, segments, init, live, variants, odd>>
Error == /\ phase' = "error"
         /\ UNCHANGED <<local, parts, segments, init, live, variants, odd>>

---------------------------------------------------------------------------
(* The tags of a media playlist.                                           *)

\* parse_byte_range: without a start it continues the last range.
ByteRange ==
  /\ Read("media")
  /\ \E length \in {1, 2}, start \in {None, 0} :
       LET from == IF start = None THEN local.next ELSE start
       IN IF from = None THEN Error
          ELSE Sets([local EXCEPT !.pending.length = length, !.pending.start = from,
                                  !.expect = TRUE])
PlaylistType == Read("media") /\ \E vod \in BOOLEAN : Sets([local EXCEPT !.endlist = vod])
Uplynk == Read("media") /\ \E ad \in BOOLEAN : Sets([local EXCEPT !.inAd = ad])

MediaSequence ==
  /\ Tag /\ local' = [local EXCEPT !.index = FirstNumber]
  /\ odd' = [odd EXCEPT !.numbering = @ \/ line > 0]
  /\ UNCHANGED <<phase, parts, segments, init, live, variants>>

\* The key processor is asked only when the line differs from the last one.
Key ==
  /\ Tag
  /\ \E key \in {NoKey, [method |-> "aes", iv |-> None], [method |-> "unknown", iv |-> 7]} :
       Sets([local EXCEPT !.key = IF key = local.last THEN @ ELSE key, !.last = key])

\* apply_encryption: the IV of a segment without one is its number.
Encrypted(segment, key, index) ==
  IF key.method = "none" THEN segment
  ELSE [segment EXCEPT !.key = IF key.iv = None THEN [key EXCEPT !.iv = index] ELSE key]
ExtInf ==
  /\ Tag
  /\ local' = [local EXCEPT
       !.pending = Encrypted([@ EXCEPT !.index = local.index], local.key, local.index),
       !.expect = TRUE, !.index = @ + 1]
  /\ odd' = [odd EXCEPT !.timed = TRUE, !.numbering = @ \/ odd.timed]
  /\ UNCHANGED <<phase, parts, segments, init, live, variants>>

\* A segment between ads: is_provider_ad_segment takes it out and its number back.
Ad ==
  /\ Tag /\ local.expect
  /\ local' = [local EXCEPT !.index = @ - 1, !.adGone = TRUE, !.pending = NewSegment,
                            !.expect = FALSE]
  /\ odd' = [odd EXCEPT !.timed = FALSE, !.numbering = @ \/ ~odd.timed]
  /\ UNCHANGED <<phase, parts, segments, init, live, variants>>
Uri ==
  /\ Tag /\ local.expect
  /\ segments' = Append(segments, [local.pending EXCEPT !.number = line + 1])
  /\ local' = [local EXCEPT
       !.next = IF local.pending.length = None THEN @
                ELSE local.pending.start + local.pending.length,
       !.pending = NewSegment, !.expect = FALSE]
  /\ odd' = [odd EXCEPT !.timed = FALSE, !.numbering = @ \/ ~odd.timed]
  /\ UNCHANGED <<phase, parts, init, live, variants>>

\* After an ad the last part is taken up again, whatever was read since.
Resumes == local.adGone /\ parts # <<>>
DiscontinuityDropping ==
  /\ Tag
  /\ IF Resumes
     THEN /\ parts' = Front(parts) /\ segments' = Last(parts)
          /\ local' = [local EXCEPT !.adGone = FALSE]
          /\ odd' = [odd EXCEPT !.lost = @ \/ segments # <<>>]
     ELSE /\ parts' = parts
          /\ segments' = <<>>
          /\ local' = IF segments = <<>> THEN local ELSE [local EXCEPT !.next = None]
          /\ odd' = odd
  /\ UNCHANGED <<phase, init, live, variants>>
Discontinuity ==
  /\ Tag
  /\ IF Resumes
     THEN /\ parts' = Front(parts) /\ segments' = Last(parts)
          /\ local' = [local EXCEPT !.adGone = FALSE]
          /\ odd' = [odd EXCEPT !.lost = @ \/ segments # <<>>]
     ELSE /\ parts' = IF segments = <<>> THEN parts ELSE Append(parts, segments)
          /\ segments' = <<>>
          /\ local' = IF segments = <<>> THEN local ELSE [local EXCEPT !.next = None]
          /\ odd' = odd
  /\ UNCHANGED <<phase, init, live, variants>>

EndList ==
  /\ Tag /\ local' = [local EXCEPT !.endlist = TRUE]
  /\ parts' = IF segments = <<>> THEN parts ELSE Append(parts, segments)
  /\ segments' = <<>>
  /\ UNCHANGED <<phase, init, live, variants, odd>>

\* parse_map takes the first EXT-X-MAP, or the one after an ad. Another one begins
\* a new part and, unless AllowHlsMultiExtMap, ends the playlist.
FirstMap == /\ Tag /\ (init = 0 \/ local.adGone) /\ init' = line + 1
            /\ UNCHANGED <<phase, local, parts, segments, live, variants, odd>>
LaterMap ==
  /\ Tag /\ init # 0 /\ ~local.adGone
  /\ parts' = IF segments = <<>> THEN parts ELSE Append(parts, segments)
  /\ segments' = <<>>
  /\ IF local.allowMaps
     THEN phase' = phase
          /\ local' = IF segments = <<>> THEN local ELSE [local EXCEPT !.next = None]
     ELSE phase' = "done" /\ local' = [local EXCEPT !.endlist = TRUE]
  /\ UNCHANGED <<init, live, variants, odd>>

\* The end of the text. A playlist of type VOD without EXT-X-ENDLIST loses what
\* follows its last discontinuity.
End ==
  /\ phase = "media" /\ phase' = "done" /\ segments' = <<>>
  /\ parts' = IF local.endlist THEN parts ELSE Append(parts, segments)
  /\ odd' = [odd EXCEPT !.lost = @ \/ (local.endlist /\ segments # <<>>)]
  /\ live' = ~local.endlist
  /\ UNCHANGED <<line, local, init, variants>>

---------------------------------------------------------------------------
(* parse_master                                                            *)

Urls == {"u1", "u2"}
MasterSets(v) == /\ variants' = v
                 /\ UNCHANGED <<phase, local, parts, segments, init, live, odd>>
StreamInf == Read("master") /\ MasterSets([variants EXCEPT !.pending = TRUE])
\* parse_media_rendition: one without URI is left out.
Rendition == Read("master") /\ \E u \in Urls :
  MasterSets([variants EXCEPT !.streams = Append(@, [url |-> u, number |-> line + 1])])
VariantUri == Read("master") /\ variants.pending /\ \E u \in Urls :
  MasterSets([pending |-> FALSE,
              streams |-> Append(variants.streams, [url |-> u, number |-> line + 1])])
\* deduplicate_master_streams: the first stream of every address.
Distinct(q) == FoldLeft(LAMBDA done, s :
  IF \E k \in DOMAIN done : done[k].url = s.url THEN done ELSE Append(done, s), <<>>, q)
EndMaster == /\ phase = "master" /\ phase' = "done"
             /\ variants' = [variants EXCEPT !.streams = Distinct(@)]
             /\ UNCHANGED <<line, local, parts, segments, init, live, odd>>

Next == \/ Skip \/ ByteRange \/ PlaylistType \/ Uplynk \/ MediaSequence \/ Key \/ ExtInf
        \/ Ad \/ Uri \/ Discontinuity \/ EndList \/ FirstMap \/ LaterMap \/ End
        \/ StreamInf \/ Rendition \/ VariantUri \/ EndMaster
Spec == Init /\ [][Next]_vars

---------------------------------------------------------------------------
(* Properties                                                              *)

\* No segment is lost, repeated or moved: each address read after EXTINF or a
\* byte range, and not an ad's, stays in the parts in the order of the playlist.
\* The exceptions are recorded where they happen: a discontinuity after an ad
\* drops what was read since the part it takes up again, and VOD playlists
\* without an end lose their last part.
SegmentsStay ==
  [][phase = "media" /\ ~odd'.lost =>
       /\ IsPrefix(Kept, FlattenSeq(parts') \o segments')
       /\ \A j, k \in DOMAIN Kept : j < k => Kept[j].number < Kept[k].number]_vars

\* Segments are numbered without gaps and repetitions, so that each has a file
\* and an IV of its own: also across parts, ranges, maps and removed ads. Only
\* a playlist that repeats its numbering or lists addresses without EXTINF
\* breaks it.
NumbersFollow ==
  ~odd.numbering /\ ~odd.lost =>
    \A k \in 1..(Len(Kept) - 1) : Kept[k + 1].index = Kept[k].index + 1
=============================================================================
