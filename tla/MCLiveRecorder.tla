---------------------------- MODULE MCLiveRecorder --------------------------
(* Small instances of LiveRecorder for TLC. *)
EXTENDS LiveRecorder

Hls == [hls |-> TRUE, dated |-> FALSE, position |-> FALSE, init |-> FALSE,
        merge |-> TRUE, keep |-> TRUE, check |-> TRUE]
DatedHls == [Hls EXCEPT !.dated = TRUE, !.keep = FALSE]
LooseHls == [Hls EXCEPT !.check = FALSE]
Dash == [Hls EXCEPT !.hls = FALSE, !.init = TRUE, !.merge = FALSE]

\* Sources whose indexes are the segments' numbers, with the options that decide what
\* is kept where.
NumberedSources == {Hls, DatedHls, LooseHls, Dash}

\* The theorem about RecordedRun speaks of these sources.
ASSUME SourcesAreComparable == Comparable
=============================================================================
