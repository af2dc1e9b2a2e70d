----------------------------- MODULE LargeFile -----------------------------
(***************************************************************************)
(* One large file, of src/download.rs: a stream with a single segment is    *)
(* probed with HEAD requests and cut into byte ranges, which workers then   *)
(* fetch in parallel.  The workers of a stream share one SpeedState behind  *)
(* a mutex: the window of bytes of the current second, for the speed limit, *)
(* and the count of seconds without a byte, for the low-speed stop.  Each   *)
(* critical section is a step of its own, since workers interleave between  *)
(* them.                                                                    *)
(*                                                                          *)
(* Abstracted: finding, storing and decrypting of the parts is in           *)
(* SegmentDownload; there is no init segment; redirects; the bytes shown as *)
(* progress.  A server that does not serve ranges sends the whole file.  A  *)
(* body may end early: only a response with a Content-Length tells.         *)
(***************************************************************************)
EXTENDS Integers

CONSTANTS
    MaxSize,        \* bound: the size of a file
    Sizes,          \* the sizes of files
    SplitSize,      \* LARGE_SPLIT_SIZE: 10 MiB in the code
    Sources,        \* HTTP segments: "plain", with a "range", of a "live" stream
    Accepts,        \* Accept-Ranges of the server: "absent", "none", "bytes"
    Replies,        \* to a HEAD request: "refused", "lengthless", "length"
    ThreadCount,    \* DownloadOptions.thread_count
    Retries,        \* DownloadOptions.download_retry_count
    CheckCount,     \* DownloadOptions.check_segments_count
    MaxChunk,       \* the largest chunk a response yields
    SpeedLimit,     \* DownloadOptions.max_speed
    StopAt          \* silent seconds before the low-speed stop: 20 in the code

ASSUME LargeAssumption ==
    /\ MaxSize \in Nat \ {0} /\ Sizes \subseteq 1..MaxSize /\ SplitSize \in Nat \ {0}
    /\ Sources \subseteq {"plain", "range", "live"}
    /\ Accepts \subseteq {"absent", "none", "bytes"}
    /\ Replies \subseteq {"refused", "lengthless", "length"}
    /\ ThreadCount \in Nat \ {0} /\ Retries \in Nat /\ CheckCount \in BOOLEAN
    /\ MaxChunk \in Nat \ {0} /\ SpeedLimit \in Nat /\ StopAt \in Nat \ {0}

VARIABLES
    file,           \* the file: its size, the segment and the server that has it
    part,           \* the worker of each part
    window,         \* SpeedState.downloaded_window
    low,            \* SpeedState.low_speed_count
    due,            \* a second has passed since last_reset
    quiet,          \* history: seconds since the last byte, up to StopAt
    result          \* what the download came to

vars == <<file, part, window, low, due, quiet, result>>

-----------------------------------------------------------------------------
(* The split.                                                              *)

\* A second request is made only when the first one tells no length.
\* Whether its responses to the requests for parts have a Content-Length is another
\* matter: lengths.
Files == {f \in [size : Sizes, source : Sources, accept : Accepts, lengths : BOOLEAN,
                 first : Replies, second : Replies \cup {"not sent"}] :
            f.second = "not sent" <=> f.first # "lengthless"}

\* probe_split_file_size.  Only whether the header is there is looked at; the
\* second request is the one that sends the headers of the user.
KnownSize(f) ==
    /\ f.first # "refused" /\ f.accept # "absent"
    /\ f.first = "length" \/ f.second = "length"

\* A segment that has a range, or belongs to a live stream, is not probed.
IsSplit(f) == f.source = "plain" /\ KnownSize(f)

Count(size) == (size + SplitSize - 1) \div SplitSize

\* Mutant: a clip begins with the last byte of the one before.
OverlappingStart(i) == (i - 1) * SplitSize

\* A clip is SplitSize + 1 bytes long, though only SplitSize are counted.
ClipStart(i) == (i - 1) * (SplitSize + 1)

\* The last clip ends at the size, one behind the last byte.
Clip(size, i) ==
    [start |-> ClipStart(i),
     length |-> (IF i = Count(size) THEN size ELSE ClipStart(i) + SplitSize) - ClipStart(i) + 1]

StopRange(clip) == clip.start + clip.length - 1

Parts == IF IsSplit(file) THEN 1..Count(file.size) ELSE {1}

\* range_header refuses to ask for what ends before it starts.
IsRange(clip) == clip.start >= 0 /\ StopRange(clip) >= clip.start

RangesServed == file.accept = "bytes"

\* The bytes a server sends for a part: of a range what the file has of it.
First(i) == IF IsSplit(file) /\ RangesServed THEN ClipStart(i) ELSE 0

Promised(i) ==
    IF ~(IsSplit(file) /\ RangesServed) THEN file.size
    ELSE LET last == IF StopRange(Clip(file.size, i)) < file.size
                     THEN StopRange(Clip(file.size, i)) ELSE file.size - 1
         IN  last - First(i) + 1

\* A range that begins behind the end is not satisfiable.
Answered(i) ==
    /\ IsSplit(file) => IsRange(Clip(file.size, i))
    /\ Promised(i) > 0

-----------------------------------------------------------------------------
(* The speed state.                                                        *)

\* Mutant: bytes do not end the silence.
NeverReset == IF due THEN low + 1 ELSE low

\* Mutant: a second without a byte is not counted.
NeverCounted == IF due THEN 0 ELSE low

\* record_progress_tick, which every critical section but the adding begins with.
LowAfter == IF ~due THEN low ELSE IF window = 0 THEN low + 1 ELSE 0
WindowAfter == IF due THEN 0 ELSE window

ShouldStop == LowAfter >= StopAt

Tick == window' = WindowAfter /\ low' = LowAfter /\ due' = FALSE
KeepSpeed == UNCHANGED <<window, low, due>>

-----------------------------------------------------------------------------
(* The workers.                                                            *)

Phases == {"asking", "reading", "limiting", "checking", "reporting",
           "broken", "slow", "done", "short", "missing"}

Unstarted == [phase |-> "asking", got |-> 0, left |-> Retries]

\* The first part is probed alone, the others are fetched by ThreadCount.
BatchOf(i) == IF i = 1 THEN 0 ELSE 1 + (i - 2) \div ThreadCount

Settled(i) == part[i].phase \in {"done", "short", "missing"}

\* The first part is asked for before the others, and nothing goes on without it.
FirstLost == part[1].phase \in {"short", "missing"}

Working(i, phase) ==
    /\ result = "running"
    /\ part[i].phase = phase
    /\ \A j \in Parts : BatchOf(j) < BatchOf(i) => Settled(j)
    /\ ~FirstLost

To(i, phase) == part' = [part EXCEPT ![i].phase = phase]

Init ==
    /\ file \in Files
    /\ part = [i \in Parts |-> Unstarted]
    /\ window = 0 /\ low = 0 /\ due = FALSE
    /\ quiet = 0
    /\ result = "running"

\* The response begins; the file of the attempt is created anew.
Ask(i) ==
    /\ Working(i, "asking") /\ Answered(i)
    /\ part' = [part EXCEPT ![i].phase = "reading", ![i].got = 0]
    /\ KeepSpeed /\ UNCHANGED <<file, quiet, result>>

\* An error status, no connection, the total timeout, a range that is none.
AskFails(i) ==
    /\ Working(i, "asking")
    /\ To(i, "broken")
    /\ KeepSpeed /\ UNCHANGED <<file, quiet, result>>

\* A chunk is written and added to the window.
Receive(i) ==
    /\ Working(i, "reading")
    /\ \E n \in 1..MaxChunk :
         /\ part[i].got + n <= Promised(i)
         /\ part' = [part EXCEPT ![i].phase = "limiting", ![i].got = @ + n]
         /\ window' = window + n
    /\ quiet' = 0
    /\ UNCHANGED <<file, low, due, result>>

\* Mutant: the limit is not looked at.
PassAlways(i) ==
    /\ Working(i, "limiting")
    /\ To(i, "checking") /\ Tick
    /\ UNCHANGED <<file, quiet, result>>

\* enforce_speed_limit waits until the window is within the limit.
PassLimit(i) ==
    /\ Working(i, "limiting")
    /\ WindowAfter <= SpeedLimit
    /\ To(i, "checking") /\ Tick
    /\ UNCHANGED <<file, quiet, result>>

\* should_cancel_for_low_speed: who finds the count reached takes it back and
\* gives his attempt up; the others begin to count anew.
StopOrGoOn(i, next) ==
    /\ window' = WindowAfter /\ due' = FALSE
    /\ IF ShouldStop THEN low' = 0 /\ To(i, "slow")
                     ELSE low' = LowAfter /\ To(i, next)
    /\ UNCHANGED <<file, quiet, result>>

CheckSlow(i) == Working(i, "checking") /\ StopOrGoOn(i, "reporting")

\* No chunk for a second.
ReadTimeout(i) == Working(i, "reading") /\ StopOrGoOn(i, "reading")

\* push_segment_progress
Report(i) ==
    /\ Working(i, "reporting")
    /\ To(i, "reading") /\ Tick
    /\ UNCHANGED <<file, quiet, result>>

ReadFails(i) ==
    /\ Working(i, "reading")
    /\ To(i, "broken")
    /\ KeepSpeed /\ UNCHANGED <<file, quiet, result>>

\* The body ends, with all that was promised or before: SegmentDownloadResult::success
\* compares lengths only when the response announced one.
EndBody(i) ==
    /\ Working(i, "reading")
    /\ To(i, IF file.lengths /\ part[i].got # Promised(i) THEN "short" ELSE "done")
    /\ KeepSpeed /\ UNCHANGED <<file, quiet, result>>

\* Mutant: one retry too many.
RetryOnceMore(i) ==
    /\ Working(i, "broken") \/ Working(i, "slow")
    /\ \/ part[i].left >= 0 /\ part' = [part EXCEPT ![i].phase = "asking", ![i].left = @ - 1]
       \/ part[i].left < 0 /\ To(i, "missing")
    /\ KeepSpeed /\ UNCHANGED <<file, quiet, result>>

\* An attempt is repeated while retries are left.
Retry(i) ==
    /\ Working(i, "broken") \/ Working(i, "slow")
    /\ \/ part[i].left > 0 /\ part' = [part EXCEPT ![i].phase = "asking", ![i].left = @ - 1]
       \/ part[i].left = 0 /\ To(i, "missing")
    /\ KeepSpeed /\ UNCHANGED <<file, quiet, result>>

-----------------------------------------------------------------------------
Missing == {i \in Parts : part[i].phase = "missing"}
Short == {i \in Parts : part[i].phase = "short"}

\* ensure_content_lengths lets no short part pass, whatever is checked.
Finish ==
    /\ result = "running"
    /\ FirstLost \/ \A i \in Parts : Settled(i)
    /\ result' = IF FirstLost \/ Short # {} \/ (CheckCount /\ Missing # {})
                 THEN "failed" ELSE "ok"
    /\ UNCHANGED <<file, part, window, low, due, quiet>>

\* A second passes, wherever the workers are.
Second ==
    /\ result = "running" /\ ~due
    /\ due' = TRUE
    /\ quiet' = IF quiet < StopAt THEN quiet + 1 ELSE quiet
    /\ UNCHANGED <<file, part, window, low, result>>

\* What comes of a worker when the server sends nothing more.
Proceed(i) == \/ AskFails(i) \/ PassLimit(i) \/ CheckSlow(i) \/ ReadTimeout(i)
              \/ Report(i) \/ EndBody(i) \/ Retry(i)

Next ==
    \/ \E i \in Parts : Ask(i) \/ Receive(i) \/ ReadFails(i) \/ Proceed(i)
    \/ Second
    \/ Finish

Spec == Init /\ [][Next]_vars

\* Workers go on and time passes; no server has to answer.
FairSpec ==
    /\ Spec
    /\ \A i \in 1..Count(MaxSize) : WF_vars(i \in Parts /\ Proceed(i))
    /\ WF_vars(Second) /\ WF_vars(Finish)

-----------------------------------------------------------------------------
(* Properties.                                                             *)

\* The file, the workers and the speed state are what they should be.
TypeOK ==
    /\ file \in Files
    /\ part \in [Parts -> [phase : Phases, got : 0..MaxSize, left : 0..Retries]]
    /\ window \in Nat /\ low \in Nat /\ due \in BOOLEAN /\ quiet \in 0..StopAt
    /\ result \in {"running", "failed", "ok"}

Held(i) == IF part[i].phase = "done" THEN First(i)..First(i) + part[i].got - 1 ELSE {}

PartsJoin ==
    /\ \A i, j \in Parts : i < j => \A b \in Held(i), c \in Held(j) : b < c
    /\ UNION {Held(i) : i \in Parts} \subseteq 0..file.size - 1
    /\ CheckCount /\ file.lengths => UNION {Held(i) : i \in Parts} = 0..file.size - 1

\* Of a server that serves ranges, the parts that are handed over (download.rs
\* 1096-1102) are bytes of the file in order, none of them twice, although each clip
\* is one byte longer than what the split counts (1674-1676) and attempts begin anew.
\* With the count checked they are all of the file, if its responses announce their
\* lengths; of a server whose responses do not, a part that ended early is accepted
\* (116-125), so that bytes may be missing, though none is out of its place.
FileIsAsAnnounced == result = "ok" /\ (IsSplit(file) => RangesServed) => PartsJoin

\* Whatever workers do between each other's critical sections, in one second
\* they take no more than the limit and one chunk each (enforce_speed_limit).
WindowBounded == window <= SpeedLimit + MaxChunk * ThreadCount

\* The count reaches the threshold, and the attempt of the worker who sees that
\* is stopped (download.rs 1978, 1997), only when no worker of the stream has
\* received a byte for StopAt seconds.  When the limiter or a report takes it
\* there, the next worker that looks is stopped, even if he just got a chunk.
StopMeansSilence ==
    [][low < StopAt
         /\ (low' >= StopAt \/ \E i \in Parts : part'[i].phase = "slow" /\ part[i].phase # "slow")
       => quiet >= StopAt]_vars

\* The download of a large file ends when its server falls silent in every body: the
\* low-speed stop (download.rs 1981) gives attempts up, one by one, until no retry is
\* left.
LoadEnds == result = "running" ~> result # "running"
=============================================================================
