------------------------------ MODULE MCMedia ------------------------------
(* Model checking of the modules that turn documents into segments and text: the   *)
(* three manifest parsers, the selection and the subtitles. They share no state: a  *)
(* behaviour is one of one of them, and part says of which.                         *)
EXTENDS MediaInputs

VARIABLES part,
  phase, line, local, parts, segments, init, live, variants, odd,
  mpd, doing, at, streams,
  document, state, taken, kept, clock,
  offer, request, step, left, chosen,
  track, range, audioStart, stage, refresh, files, merged, written

Hls == INSTANCE HlsPlaylist WITH Lines <- 6, FirstNumber <- 5
Dash == INSTANCE DashManifest WITH Mpds <- DashMpds, Newer <- DashLater, Now <- 40
Smooth == INSTANCE SmoothManifest WITH Manifests <- SmoothDocs, Updates <- SmoothLater, Tracks <- {0, 1}
Select == INSTANCE StreamSelection WITH Offers <- OfferLists, Requests <- Asks
Times == INSTANCE SubtitleTimes
  WITH SubtitleTracks <- TimedTracks, Ranges <- TimedRanges, AudioStarts <- TimedStarts

hlsVars == <<phase, line, local, parts, segments, init, live, variants, odd>>
dashVars == <<mpd, doing, at, streams>>
smoothVars == <<document, state, taken, kept, clock>>
selectVars == <<offer, request, step, left, chosen>>
timesVars == <<track, range, audioStart, stage, refresh, files, merged, written>>
vars == <<part, hlsVars, dashVars, smoothVars, selectVars, timesVars>>

---------------------------------------------------------------------------

NoHls == /\ phase = "" /\ line = 0 /\ local = 0 /\ parts = <<>> /\ segments = <<>> /\ init = 0
         /\ live = FALSE /\ variants = 0 /\ odd = 0
NoDash == mpd = 0 /\ doing = "" /\ at = 0 /\ streams = <<>>
NoSmooth == document = 0 /\ state = "" /\ taken = 0 /\ kept = <<>> /\ clock = 0
NoSelect == offer = 0 /\ request = 0 /\ step = "" /\ left = <<>> /\ chosen = <<>>
NoTimes == /\ track = 0 /\ range = 0 /\ audioStart = 0 /\ stage = "" /\ refresh = 0
           /\ files = <<>> /\ merged = 0 /\ written = <<>>

Init == \/ part = "hls" /\ Hls!Init /\ NoDash /\ NoSmooth /\ NoSelect /\ NoTimes
        \/ part = "dash" /\ NoHls /\ Dash!Init /\ NoSmooth /\ NoSelect /\ NoTimes
        \/ part = "smooth" /\ NoHls /\ NoDash /\ Smooth!Init /\ NoSelect /\ NoTimes
        \/ part = "select" /\ NoHls /\ NoDash /\ NoSmooth /\ Select!Init /\ NoTimes
        \/ part = "times" /\ NoHls /\ NoDash /\ NoSmooth /\ NoSelect /\ Times!Init

Next == \/ /\ part = "hls" /\ Hls!Next
           /\ UNCHANGED <<part, dashVars, smoothVars, selectVars, timesVars>>
        \/ /\ part = "dash" /\ Dash!Next
           /\ UNCHANGED <<part, hlsVars, smoothVars, selectVars, timesVars>>
        \/ /\ part = "smooth" /\ Smooth!Next
           /\ UNCHANGED <<part, hlsVars, dashVars, selectVars, timesVars>>
        \/ /\ part = "select" /\ Select!Next
           /\ UNCHANGED <<part, hlsVars, dashVars, smoothVars, timesVars>>
        \/ /\ part = "times" /\ Times!Next
           /\ UNCHANGED <<part, hlsVars, dashVars, smoothVars, selectVars>>
Spec == Init /\ [][Next]_vars

---------------------------------------------------------------------------
(* Properties                                                              *)

\* A playlist's segments stay in its parts in their order while lines are read.
SegmentsStay == Hls!SegmentsStay

\* The segments of a stream follow one another, in number or in time, and none is taken
\* twice or left out: of a playlist (with its ads, ranges and maps), of a presentation
\* whose periods are joined, and of a Smooth manifest whose chunks repeat.
SegmentsFollow == /\ part = "hls" => Hls!NumbersFollow
                  /\ part = "dash" => Dash!PeriodsAreJoined
                  /\ part = "smooth" => Smooth!ChunksFollow

\* A refresh of a live manifest gives every stream the segments of that very stream.
RefreshIsOwn == /\ part = "dash" => Dash!RefreshIsOwn
                /\ part = "smooth" => Smooth!UpdateIsOwn

\* No stream is selected twice, and the best ones are when nobody says which.
SelectionIsRight == part = "select" => Select!SelectedOnce /\ Select!AutoTakesBest

\* All selected streams keep the same window of time, without the ads.
WindowKept == part = "select" => Select!WindowKept

\* Cues keep their time and their text, once, and are numbered without gaps.
CuesKeepTime == part = "times" => Times!CuesKeepTime /\ Times!CuesNumbered
=============================================================================
