---------------------------- MODULE LiveRecorder ----------------------------
(***************************************************************************)
(* The recording of live streams: execute_request and                      *)
(* download_live_refreshes of src/session.rs with the planners of          *)
(* src/live.rs.  A server publishes segments and withdraws old ones; the   *)
(* recorder takes a window of each stream, downloads what it has not seen, *)
(* appends it to the stream's output, waits and asks again, until every    *)
(* stream has the recording limit.                                         *)
(*                                                                         *)
(* Segments are numbered from 1 in the order they are published.  A        *)
(* segment's file is named by the index the playlist gives it, which may   *)
(* or may not be its number.  One download of a batch is one step: what it *)
(* delivers is what StreamFetch promises.                                  *)
(***************************************************************************)
EXTENDS Integers, Sequences, SequencesExt, FiniteSetsExt

CONSTANTS
    StreamCount,    \* the number of selected streams
    Setups,         \* the kinds of source and the options to record with
    Window,         \* how many segments a playlist of the server lists
    MaxSeq,         \* bound: the last segment that is published
    JoinSeq,        \* bound: the last one published before the recording begins
    Skew,           \* bound: how far the server's streams run apart
    HalfSeconds,    \* the length of a segment in half seconds
    TakeCount,      \* DownloadOptions.live_take_count
    Limit,          \* DownloadOptions.live_record_limit in seconds
    RetryAttempts   \* LIVE_REFRESH_RETRY_ATTEMPTS

\* A source without a limit is recorded until it is cancelled and is not modelled.
ASSUME LiveAssumption ==
    /\ StreamCount \in Nat \ {0} /\ Window \in Nat \ {0} /\ Limit \in Nat \ {0}
    /\ HalfSeconds \in Nat /\ TakeCount \in Int

Streams == 1 .. StreamCount

VARIABLES
    setup,      \* the element of Setups this recording uses
    window,     \* server: the segments the playlist of each stream lists
    phase,      \* where the recording is
    first,      \* the first window is not written yet
    attempt,    \* failed refreshes since the last one that succeeded
    cancelled,  \* the request's cancellation token
    st,         \* LiveStreamState of each stream
    batch,      \* the new segments of each stream, being downloaded
    got,        \* the files the download of each batch delivered
    temp,       \* files in each stream's temporary directory: index -> segment
    output      \* segments in each stream's output file

vars == <<setup, window, phase, first, attempt, cancelled, st, batch, got, temp, output>>

\* A source is an HLS one or not; its segments may carry dates; its indexes may be
\* positions in the playlist; it may have an init segment.  The options are
\* live_real_time_merge, live_keep_segments and check_segments_count.
Setup == [hls : BOOLEAN, dated : BOOLEAN, position : BOOLEAN, init : BOOLEAN,
          merge : BOOLEAN, keep : BOOLEAN, check : BOOLEAN]

Phases == {"load", "fetch", "write", "wait", "done", "failed"}
Stopped == phase \in {"done", "failed"}

None == -1          \* the empty last_file_name
InitSegment == 0    \* the init segment among the segments of a file
NoFiles == [i \in {} |-> 0]

(***************************************************************************)
(* What a playlist says of its segments.                                   *)
(***************************************************************************)
Segment == [idx : Nat, seq : 1 .. MaxSeq]

Playlist(s) ==
    LET lo == window[s][1]
    IN  [k \in 1 .. window[s][2] - lo + 1 |->
            [idx |-> IF setup.position THEN k - 1 ELSE lo + k - 1, seq |-> lo + k - 1]]

\* parse_manifest_timestamp_seconds cuts the date off to a second; 0 is no date.
Date(g) == IF setup.dated THEN (g.seq * HalfSeconds) \div 2 + 1 ELSE 0

\* live_segment_name: what identifies a segment from one refresh to the next.
Name(g) == IF ~setup.hls THEN g.seq ELSE IF setup.dated THEN Date(g) ELSE g.idx

\* The sum of a batch's durations, cut off to seconds.
Seconds(segs) == (Len(segs) * HalfSeconds) \div 2

(***************************************************************************)
(* filter_new_live_segments: the state of a stream after a refresh and the *)
(* segments it has not seen.                                               *)
(***************************************************************************)
NewState == [lastName |-> None, lastDate |-> 0, maxIndex |-> 0, refreshed |-> 0,
             refreshedSegs |-> 0, recorded |-> 0, recordedSegs |-> 0, limit |-> FALSE]

IsLast(x, g) ==
    IF setup.dated /\ x.lastDate # 0 THEN Date(g) = x.lastDate ELSE Name(g) = x.lastName

\* Mutant: when the last segment is gone, the whole playlist is taken.
UnseenOrAll(x, segs) ==
    LET hits == {k \in DOMAIN segs : IsLast(x, segs[k])}
    IN  IF hits = {} THEN segs ELSE SubSeq(segs, Min(hits) + 1, Len(segs))

Unseen(x, segs) ==
    LET hits == {k \in DOMAIN segs : IsLast(x, segs[k])}
    IN  IF hits # {} THEN SubSeq(segs, Min(hits) + 1, Len(segs))
        ELSE IF x.lastName = None /\ x.lastDate = 0 THEN segs ELSE <<>>

Renumbered(x, segs) ==
    LET least == IF segs = <<>> THEN x.maxIndex ELSE Min({segs[k].idx : k \in DOMAIN segs})
        offset == IF least < x.maxIndex THEN x.maxIndex - least + 1 ELSE 0
    IN  [k \in DOMAIN segs |-> [segs[k] EXCEPT !.idx = segs[k].idx + offset]]

NewSegments(x, segs) == Renumbered(x, Unseen(x, segs))

AfterRefresh(x, new) ==
    LET secs == x.refreshed + Seconds(new)
        counted == [x EXCEPT !.refreshed = secs,
                             !.refreshedSegs = x.refreshedSegs + Len(new),
                             !.limit = x.limit \/ secs >= Limit]
        last == new[Len(new)]
    IN  IF new = <<>> THEN counted
        ELSE [counted EXCEPT !.maxIndex = Max({new[k].idx : k \in DOMAIN new}),
                             !.lastName = Name(last), !.lastDate = Date(last)]

\* record_live_downloaded_indexed: the counters count the batch, delivered or not.
Counted(x, segs) == [x EXCEPT !.recorded = x.recorded + Seconds(segs),
                              !.recordedSegs = x.recordedSegs + Len(segs)]

(***************************************************************************)
(* sync_live_startup_windows: the streams start at the same date or index, *)
(* then the first segments are cut off.                                    *)
(***************************************************************************)
Key(g) == IF setup.dated THEN Date(g) ELSE g.idx

SyncStart == Max({Key(Playlist(s)[1]) : s \in Streams})

\* The keys of a playlist ascend: what is retained is its end.
Synced(s) ==
    LET late == {k \in DOMAIN Playlist(s) : Key(Playlist(s)[k]) >= SyncStart}
    IN  IF late = {} THEN <<>> ELSE SubSeq(Playlist(s), Min(late), Len(Playlist(s)))

SkipCount ==
    LET counts == {Len(Synced(s)) : s \in Streams}
        skip == Min(counts) - TakeCount + 1
    IN  IF (\A n \in counts : n <= TakeCount) \/ skip < 0 THEN 0 ELSE skip

StartWindow(s) == SubSeq(Synced(s), SkipCount + 1, Len(Synced(s)))
-----------------------------------------------------------------------------
Init ==
    /\ setup \in Setups
    /\ window \in [Streams -> {<<1, n>> : n \in 1 .. Window}]
    /\ \A s, t \in Streams : window[s][2] - window[t][2] <= Skew
    /\ phase = "load" /\ first = TRUE /\ attempt = 0 /\ cancelled = FALSE
    /\ st = [s \in Streams |-> NewState]
    /\ batch = [s \in Streams |-> <<>>] /\ got = [s \in Streams |-> <<>>]
    /\ temp = [s \in Streams |-> NoFiles] /\ output = [s \in Streams |-> <<>>]

\* The server publishes a segment and withdraws the oldest from a full playlist.
Publish(s) ==
    LET lo == window[s][1]
        hi == window[s][2] + 1
    IN  /\ hi <= IF phase = "load" THEN JoinSeq ELSE MaxSeq
        /\ \A t \in Streams : hi - window[t][2] <= Skew
        /\ window' = [window EXCEPT ![s] = <<IF hi - lo = Window THEN lo + 1 ELSE lo, hi>>]
        /\ UNCHANGED <<setup, phase, first, attempt, cancelled, st, batch, got, temp, output>>

Cancel ==
    /\ ~cancelled /\ ~Stopped
    /\ cancelled' = TRUE
    /\ UNCHANGED <<setup, window, phase, first, attempt, st, batch, got, temp, output>>

\* Mutant: a stream that has the limit is refreshed with the others.
TakeInAll(list) ==
    LET new == [s \in Streams |-> NewSegments(st[s], list[s])]
    IN  /\ st' = [s \in Streams |-> AfterRefresh(st[s], new[s])]
        /\ batch' = new

\* The streams' states take in what is new; a stream that has the limit is left out.
TakeIn(list) ==
    LET new == [s \in Streams |-> IF st[s].limit THEN <<>> ELSE NewSegments(st[s], list[s])]
    IN  /\ st' = [s \in Streams |-> IF st[s].limit THEN st[s] ELSE AfterRefresh(st[s], new[s])]
        /\ batch' = new

\* The first window is seeded and downloaded.
Load ==
    /\ phase = "load"
    /\ TakeIn([s \in Streams |-> StartWindow(s)])
    /\ phase' = "fetch"
    /\ UNCHANGED <<setup, window, first, attempt, cancelled, got, temp, output>>

\* A file that is there is not downloaded again.
FilesAfter(s, part) ==
    LET named == [i \in {batch[s][k].idx : k \in part} |->
                    batch[s][CHOOSE k \in part : batch[s][k].idx = i].seq]
    IN  [i \in DOMAIN temp[s] \cup DOMAIN named |->
            IF i \in DOMAIN temp[s] THEN temp[s][i] ELSE named[i]]

Contents(s, part) ==
    LET files == FilesAfter(s, Range(part))
    IN  (IF setup.init THEN <<InitSegment>> ELSE <<>>)
          \o [n \in DOMAIN part |-> files[batch[s][part[n]].idx]]

\* What a download can deliver of a batch: segments of it, in their order.
Parts == {part \in UNION {[1 .. n -> 1 .. Window] : n \in 0 .. Window} :
             \A m, n \in DOMAIN part : m < n => part[m] < part[n]}

\* The files of part get their final names.
Arrive(part) ==
    /\ \A s \in Streams : Range(part[s]) \subseteq DOMAIN batch[s]
    /\ temp' = [s \in Streams |-> FilesAfter(s, Range(part[s]))]

Deliver ==
    /\ phase = "fetch" /\ phase' = "write"
    /\ \E part \in [Streams -> Parts] :
        /\ Arrive(part)
        /\ setup.check => \A s \in Streams : Range(part[s]) = DOMAIN batch[s]
        /\ got' = [s \in Streams |-> IF batch[s] = <<>> THEN <<>> ELSE Contents(s, part[s])]
    /\ UNCHANGED <<setup, window, first, attempt, cancelled, st, batch, output>>

\* The files that had their final names when a download failed keep them.
FetchFails ==
    /\ phase = "fetch" /\ phase' = "failed"
    /\ \E part \in [Streams -> Parts] : Arrive(part)
    /\ UNCHANGED <<setup, window, first, attempt, cancelled, st, batch, got, output>>

\* Mutant: the recording ends when the limit is exceeded.
EndingPast(x) == \A s \in Streams : x[s].refreshed > Limit

\* After the downloads are counted: the recording ends, or waits for the next refresh.
Ending(x) == \A s \in Streams : x[s].limit

\* Mutant: live_keep_segments is not looked at.
CleanedAlways(s) == (setup.merge \/ ~first) /\ batch[s] # <<>>

\* With live_real_time_merge the batches are appended; without, their files are kept.
\* del_after_done is on: directories are removed when live_keep_segments is off, at
\* the end and, after a refresh or with the merge, for each batch.
Cleaned(s) == ~setup.keep /\ (setup.merge \/ ~first) /\ batch[s] # <<>>

Write ==
    /\ phase = "write"
    /\ first => ~cancelled
    /\ output' = [s \in Streams |-> IF setup.merge THEN output[s] \o got[s] ELSE output[s]]
    /\ st' = [s \in Streams |-> Counted(st[s], batch[s])]
    /\ phase' = IF Ending(st) THEN "done" ELSE "wait"
    /\ temp' = [s \in Streams |->
                 IF Cleaned(s) \/ (Ending(st) /\ ~setup.keep) THEN NoFiles ELSE temp[s]]
    /\ batch' = [s \in Streams |-> <<>>] /\ got' = [s \in Streams |-> <<>>]
    /\ first' = FALSE
    /\ UNCHANGED <<setup, window, attempt, cancelled>>

\* Appending stops at a file of stream t; the streams before t are complete.
WriteFails ==
    /\ phase = "write" /\ setup.merge
    /\ \E t \in Streams, n \in 0 .. Window + 1 :
        /\ n <= Len(got[t])
        /\ output' = [s \in Streams |-> IF s < t THEN output[s] \o got[s]
                                     ELSE IF s = t THEN output[s] \o SubSeq(got[s], 1, n)
                                     ELSE output[s]]
        /\ temp' = [s \in Streams |-> IF s < t /\ Cleaned(s) THEN NoFiles ELSE temp[s]]
    /\ phase' = "failed"
    /\ UNCHANGED <<setup, window, first, attempt, cancelled, st, batch, got>>

\* The playlists are loaded again.  When nothing is new the recorder waits again: the
\* limit is not reached by a refresh that brings nothing.
Refresh ==
    /\ phase = "wait" /\ ~cancelled
    /\ attempt' = 0
    /\ TakeIn([s \in Streams |-> Playlist(s)])
    /\ phase' = IF \A s \in Streams : batch'[s] = <<>> THEN "wait" ELSE "fetch"
    /\ UNCHANGED <<setup, window, first, cancelled, got, temp, output>>

RefreshFails ==
    /\ phase = "wait" /\ ~cancelled
    /\ attempt' = attempt + 1
    /\ phase' = IF attempt' = RetryAttempts THEN "failed" ELSE "wait"
    /\ UNCHANGED <<setup, window, first, cancelled, st, batch, got, temp, output>>

\* The token is looked at before the first merge, while waiting and before a refresh.
NoticeCancel ==
    /\ cancelled
    /\ phase = "wait" \/ (phase = "write" /\ first)
    /\ phase' = "failed"
    /\ UNCHANGED <<setup, window, first, attempt, cancelled, st, batch, got, temp, output>>

Record == Load \/ Deliver \/ FetchFails \/ Write \/ WriteFails \/ Refresh
            \/ RefreshFails \/ NoticeCancel

Next == Record \/ Cancel \/ \E s \in Streams : Publish(s)

Spec == Init /\ [][Next]_vars

\* The session's task runs, and the broadcast goes on.
FairSpec == Spec /\ WF_vars(Record) /\ \A s \in Streams : WF_vars(Publish(s))
-----------------------------------------------------------------------------
State == [lastName : Nat \cup {None}, lastDate : Nat, maxIndex : Nat, refreshed : Nat,
          refreshedSegs : Nat, recorded : Nat, recordedSegs : Nat, limit : BOOLEAN]

\* Type correctness; a failed recording is the only one that used up its attempts.
TypeOK ==
    /\ setup \in Setups /\ phase \in Phases /\ cancelled \in BOOLEAN
    /\ window \in [Streams -> (1 .. MaxSeq) \X (1 .. MaxSeq)]
    /\ attempt \in 0 .. RetryAttempts /\ (attempt = RetryAttempts => phase = "failed")
    /\ st \in [Streams -> State]
    /\ batch \in [Streams -> Seq(Segment)] /\ got \in [Streams -> Seq(0 .. MaxSeq)]
    /\ output \in [Streams -> Seq(0 .. MaxSeq)]
    /\ \A s \in Streams : DOMAIN temp[s] \subseteq Nat

\* What there is of a stream, by place: the segments of its output or, without the
\* real-time merge, its files by their names.
Kept(s) == IF setup.merge
           THEN [n \in {m \in DOMAIN output[s] : output[s][m] # InitSegment} |-> output[s][n]]
           ELSE temp[s]

\* The same without the files of a batch in which the recording failed: its download may
\* have stored any of them.
Unfinished(s) == IF phase = "failed" THEN {batch[s][k].idx : k \in DOMAIN batch[s]} ELSE {}
Finished(s) == IF setup.merge THEN Kept(s)
               ELSE [i \in DOMAIN temp[s] \ Unfinished(s) |-> temp[s][i]]

IsRun(f) == \A i, j \in DOMAIN f : f[i] .. f[j] \subseteq Range(f)
IsAscending(f) == \A i, j \in DOMAIN f : i < j => f[i] < f[j]

\* The segment q, in a playlist whose indexes are the segments' numbers.
Numbered(q) == [idx |-> q, seq |-> q]

OwnRun(s) ==
    /\ IsAscending(Kept(s))
    /\ setup.check => IsRun(Finished(s))
    /\ setup.check /\ phase \in {"wait", "done"} =>
        LET all == Range(Finished(s))
        IN  IF all = {} THEN st[s].lastName = None
            ELSE \E q \in all : (\A r \in all : r <= q) /\ IsLast(st[s], Numbered(q))

\* Streams whose playlists run together start with the same segment, whatever each
\* playlist listed when the recording began.
StartTogether ==
    setup.check => \A s, t \in Streams :
        LET all == Range(Finished(s))
            others == Range(Finished(t))
        IN  all # {} /\ others # {} => Min(all) = Min(others)

\* The recording of a stream has its segments in order and none twice, wherever it ends.
\* When the count of every download is checked, what the finished downloads recorded has no
\* gap between the first and the last, the last is the one the next refresh looks for,
\* and the streams begin together.  (The files a failed download leaves behind may have
\* gaps: the recording ends with them.)
\* filter_new_live_segments, the names of the files in the temporary directory,
\* append_files and sync_live_startup_windows have to agree for that.
RecordedRun ==
    /\ StartTogether
    /\ \A s \in Streams : OwnRun(s)

\* What that needs: indexes are the segments' numbers and dates tell the segments apart,
\* there is an output or the files are kept, and the streams' first windows overlap, so
\* that each of them gets a segment.
Comparable ==
    /\ \A u \in Setups : ~u.position /\ (u.merge \/ u.keep) /\ (u.dated => HalfSeconds >= 2)
    /\ Skew \in 0 .. Window - 1 /\ TakeCount >= 2

\* The limit is overrun by less than one playlist: a stream that has it is not
\* refreshed again while the others go on.
OverrunIsBounded ==
    \A s \in Streams : st[s].limit => st[s].refreshed < Limit + Seconds([k \in 1 .. Window |-> 0])

\* While the recorder waits, and when it ends, the counters shown to the user have
\* caught up: what was found was recorded.
CountersAgree ==
    phase \in {"wait", "done"} => \A s \in Streams :
        /\ st[s].recorded = st[s].refreshed
        /\ st[s].recordedSegs = st[s].refreshedSegs

\* Both: the limit is noticed in time, by counters that agree.
LimitIsCounted == OverrunIsBounded /\ CountersAgree

\* A segment that was recorded stays: in the output, or as a file.
Held(s) == {q \in 1 .. MaxSeq : \/ \E n \in DOMAIN output[s] : output[s][n] = q
                               \/ \E i \in DOMAIN temp[s] : temp[s][i] = q}
NothingTakenBack == [][\A s \in Streams : Held(s) \subseteq Held(s)']_vars

\* A recording with a limit ends, unless the segment it took last has been withdrawn
\* from a playlist before the next refresh.
Missed(s) ==
    /\ st[s].lastName # None /\ ~st[s].limit
    /\ \A k \in DOMAIN Playlist(s) : ~IsLast(st[s], Playlist(s)[k])
RecordingEnds == <>(Stopped \/ \E s \in Streams : Missed(s))
=============================================================================
