------------------------------ MODULE LivePipe ------------------------------
(* Live recording into a running muxer: LivePipeMuxSession of src/session.rs.  *)
(* A thread per pipe writes the downloaded files into a named pipe, ffmpeg     *)
(* reads the pipes, the session waits until a batch is written, deletes its    *)
(* files and asks the server for the next one.                                 *)
EXTENDS Integers, FiniteSets, SequencesExt

CONSTANTS Recordings, \* streams and batches that are checked
          Capacity,   \* files that fit into a pipe
          Probe,      \* files ffmpeg reads of an input before it opens the next
          Slack       \* files ffmpeg reads of an input ahead of another one

ASSUME PipeAssumption ==
  /\ Capacity \in Nat \ {0} /\ Probe \in Nat /\ Slack \in Nat \ {0}
  /\ \A r \in Recordings :
       /\ r.kinds \in Seq({"av", "sub"}) /\ Len(r.upto) > 0
       /\ r.upto \in Seq([1..Len(r.kinds) -> Nat])
       /\ \A b \in 2..Len(r.upto) : \A s \in 1..Len(r.kinds) : r.upto[b - 1][s] <= r.upto[b][s]

VARIABLES
  rec,       \* the member of Recordings: kinds, delete, and how many files of each
             \* stream have been downloaded up to each batch
  pc,        \* where the session is
  round,     \* batches downloaded so far
  cancelled, \* CancellationToken
  disk,      \* downloaded files that exist, as <<stream, number>>
  sub,       \* files of subtitle streams that were written to their outputs
  senders,   \* the session still holds the senders of the writers' channels
  queue,     \* queue[k]: files of the job of writer k that it has not written
  owed,      \* writers that have not acknowledged their job
  writer,    \* state of each writer thread
  fifo,      \* what is in each pipe
  named,     \* the FIFOs' names exist
  mux,       \* state of the ffmpeg process
  opened,    \* inputs that ffmpeg has opened: it opens them one after another
  got        \* got[k]: what ffmpeg read of input k

vars == <<rec, pc, round, cancelled, disk, sub, senders, queue, owed, writer, fifo,
          named, mux, opened, got>>
session == <<rec, round, cancelled, disk, sub>>
pipes == <<senders, queue, owed, writer, fifo, named, mux, opened, got>>

---------------------------------------------------------------------------
(* Streams, batches and pipes.                                             *)

Streams == 1..Len(rec.kinds)
IsSub(s) == rec.kinds[s] = "sub"
Media == {s \in Streams : ~IsSub(s)}
Pipes == 1..Cardinality(Media)

\* live_pipe_indexes: subtitles have no pipe.
PipeIndex(s) == Cardinality({t \in Media : t <= s})
StreamOf(k) == CHOOSE s \in Media : PipeIndex(s) = k

\* Streams that delivered something in batch r, in their order. The first batch
\* has all of them, a refresh only those with new segments.
Before(s, r) == IF r = 1 THEN 0 ELSE rec.upto[r - 1][s]
InBatch(r) == {s \in Streams : r = 1 \/ rec.upto[r][s] > Before(s, r)}
FilesOf(s, r) == [j \in 1..(rec.upto[r][s] - Before(s, r)) |-> <<s, Before(s, r) + j>>]
FirstFiles(s, n) == [j \in 1..n |-> <<s, j>>]
Wanted(k) == FirstFiles(StreamOf(k), rec.upto[round][StreamOf(k)])

PipeByPosition(s, r) == Cardinality({t \in InBatch(r) \cap Media : t <= s})
PipeOf(s, r) == PipeIndex(s)
Job(k) == LET S == {s \in InBatch(round) \cap Media : PipeOf(s, round) = k}
          IN IF S = {} THEN <<>> ELSE FilesOf(CHOOSE s \in S : TRUE, round)

Final == {"finished", "failed", "cancelled"}
Live(k) == writer[k] = "open"
Eof(k) == fifo[k] = <<>> /\ writer[k] = "ended"

---------------------------------------------------------------------------

Init ==
  /\ rec \in Recordings
  /\ pc = "starting" /\ round = 1 /\ cancelled = FALSE /\ sub = {}
  /\ disk = UNION {ToSet(FilesOf(s, 1)) : s \in Streams}
  /\ senders = FALSE /\ owed = {} /\ named = FALSE /\ mux = "none" /\ opened = 0
  /\ queue = [k \in Pipes |-> <<>>] /\ fifo = [k \in Pipes |-> <<>>]
  /\ got = [k \in Pipes |-> <<>>] /\ writer = [k \in Pipes |-> "none"]

Cancel == /\ pc \notin Final /\ ~cancelled /\ cancelled' = TRUE
          /\ UNCHANGED <<rec, pc, round, disk, sub, pipes>>

\* LivePipeMuxSession::start: create_live_pipe_endpoints, spawn_live_pipe_writer;
\* a second later ffmpeg.
NoMedia == pc = "starting" /\ Media = {} /\ pc' = "failed" /\ UNCHANGED <<session, pipes>>
CreatePipes ==
  /\ pc = "starting" /\ Media # {} /\ pc' = "spawning"
  /\ named' = TRUE /\ senders' = TRUE /\ writer' = [k \in Pipes |-> "opening"]
  /\ UNCHANGED <<session, queue, owed, fifo, mux, opened, got>>
SpawnMux ==
  /\ pc = "spawning" /\ pc' = "feeding" /\ mux' = "running"
  /\ UNCHANGED <<session, senders, queue, owed, writer, fifo, named, opened, got>>

\* stream_downloads_to_live_pipe, stream_indexed_downloads_to_live_pipe up to
\* the sends. Subtitles are written at once.
SubFiles == UNION {ToSet(FilesOf(s, round)) : s \in {t \in InBatch(round) : IsSub(t)}}
FeedAndDelete ==
  /\ pc = "feeding" /\ pc' = "acknowledging"
  /\ queue' = [k \in Pipes |-> Job(k)] /\ owed' = {k \in Pipes : Job(k) # <<>>}
  /\ sub' = sub \cup SubFiles /\ disk' = {}
  /\ UNCHANGED <<rec, round, cancelled, senders, writer, fifo, named, mux, opened, got>>
Feed ==
  /\ pc = "feeding" /\ \A k \in Pipes : writer[k] # "ended"
  /\ pc' = "acknowledging"
  /\ queue' = [k \in Pipes |-> Job(k)] /\ owed' = {k \in Pipes : Job(k) # <<>>}
  /\ sub' = sub \cup SubFiles
  /\ disk' = IF rec.delete THEN disk \ SubFiles ELSE disk
  /\ UNCHANGED <<rec, round, cancelled, senders, writer, fifo, named, mux, opened, got>>

\* write_stream_files_parallel blocks in recv, whatever the token says; then the
\* temporary directories of the batch are deleted.
Acknowledged ==
  /\ pc = "acknowledging" /\ owed = {}
  /\ disk' = IF rec.delete THEN {} ELSE disk
  /\ pc' = IF round = Len(rec.upto) THEN "finishing" ELSE "waiting"
  /\ UNCHANGED <<rec, round, cancelled, sub, pipes>>

\* wait_for_live_refresh and the check before each refresh look at the token.
\* The session struct is dropped on the way out: its senders go, ffmpeg stays.
Dropped(end) == /\ pc' = end /\ senders' = FALSE
                /\ UNCHANGED <<session, queue, owed, writer, fifo, named, mux, opened, got>>
NoticeCancel == pc = "waiting" /\ cancelled /\ Dropped("cancelled")
NextBatch ==
  /\ pc = "waiting" /\ ~cancelled /\ round < Len(rec.upto)
  /\ pc' = "feeding" /\ round' = round + 1
  /\ disk' = disk \cup UNION {ToSet(FilesOf(s, round + 1)) : s \in Streams}
  /\ UNCHANGED <<rec, cancelled, sub, pipes>>
\* A refresh, a download, a decryption or a subtitle fails, ffmpeg is not started.
Fails == /\ pc \in {"spawning", "feeding", "waiting"} /\ Dropped("failed")

\* finish: the senders go, the writers are joined, the child is awaited.
FinishHolding == pc = "finishing" /\ pc' = "joining" /\ UNCHANGED <<session, pipes>>
Finish == /\ pc = "finishing" /\ pc' = "joining" /\ senders' = FALSE
          /\ UNCHANGED <<session, queue, owed, writer, fifo, named, mux, opened, got>>
Joined == /\ pc = "joining" /\ \A k \in Pipes : writer[k] = "ended"
          /\ pc' = "child" /\ UNCHANGED <<session, pipes>>
\* wait_live_pipe_child_with_cancellation, cleanup_live_fifos
ChildCancelled ==
  /\ pc = "child" /\ cancelled /\ pc' = "cancelled"
  /\ mux' = "killed"
  /\ UNCHANGED <<session, senders, queue, owed, writer, fifo, named, opened, got>>
ChildExited ==
  /\ pc = "child" /\ ~cancelled /\ mux \in {"exited", "dead"}
  /\ named' = FALSE /\ pc' = IF mux = "exited" THEN "finished" ELSE "failed"
  /\ UNCHANGED <<session, senders, queue, owed, writer, fifo, mux, opened, got>>

---------------------------------------------------------------------------
(* run_live_pipe_writer. The FIFO is opened to read and write: the open never  *)
(* blocks, and a write fails with no reader either. It blocks when it is full. *)

OpenPipe(k) ==
  /\ writer[k] = "opening" /\ writer' = [writer EXCEPT ![k] = "open"]
  /\ UNCHANGED <<session, pc, senders, queue, owed, fifo, named, mux, opened, got>>
WriteFile(k) ==
  /\ Live(k) /\ queue[k] # <<>> /\ Head(queue[k]) \in disk
  /\ Len(fifo[k]) < Capacity
  /\ fifo' = [fifo EXCEPT ![k] = Append(@, Head(queue[k]))]
  /\ queue' = [queue EXCEPT ![k] = Tail(@)]
  /\ UNCHANGED <<session, pc, senders, owed, writer, named, mux, opened, got>>
Acknowledge(k) ==
  /\ Live(k) /\ queue[k] = <<>> /\ k \in owed /\ owed' = owed \ {k}
  /\ UNCHANGED <<session, pc, senders, queue, writer, fifo, named, mux, opened, got>>
\* The receiver ends. A pipe that ffmpeg has not opened loses what is in it.
EndWriter(k) ==
  /\ Live(k) /\ ~senders /\ queue[k] = <<>> /\ k \notin owed
  /\ writer' = [writer EXCEPT ![k] = "ended"]
  /\ fifo' = IF k <= opened /\ mux = "running" THEN fifo ELSE [fifo EXCEPT ![k] = <<>>]
  /\ UNCHANGED <<session, pc, senders, queue, owed, named, mux, opened, got>>

---------------------------------------------------------------------------
(* ffmpeg, as plan_live_pipe_mux starts it.                                *)

ProbedEnough(k) == Len(got[k]) >= Probe \/ Eof(k)
OpenInput ==
  /\ mux = "running" /\ opened < Cardinality(Pipes) /\ Live(opened + 1)
  /\ \A k \in 1..opened : ProbedEnough(k)
  /\ opened' = opened + 1
  /\ UNCHANGED <<session, pc, senders, queue, owed, writer, fifo, named, mux, got>>
\* The input being probed, then the ones that are not ahead of another.
Reads(k) ==
  IF opened < Cardinality(Pipes) THEN k = opened /\ Len(got[k]) < Probe
  ELSE \A j \in Pipes : Eof(j) \/ Len(got[k]) < Len(got[j]) + Slack
ReadInput(k) ==
  /\ mux = "running" /\ k <= opened /\ Reads(k) /\ fifo[k] # <<>>
  /\ got' = [got EXCEPT ![k] = Append(@, Head(fifo[k]))]
  /\ fifo' = [fifo EXCEPT ![k] = Tail(@)]
  /\ UNCHANGED <<session, pc, senders, queue, owed, writer, named, mux, opened>>
\* -shortest: ffmpeg may end with the first input, and does with the last one.
ExitMux ==
  /\ mux = "running" /\ opened = Cardinality(Pipes)
  /\ \E k \in Pipes : Eof(k)
  /\ mux' = "exited"
  /\ UNCHANGED <<session, pc, senders, queue, owed, writer, fifo, named, opened, got>>
MuxDies ==
  /\ mux = "running" /\ mux' = "dead"
  /\ UNCHANGED <<session, pc, senders, queue, owed, writer, fifo, named, opened, got>>

Session == \/ NoMedia \/ CreatePipes \/ SpawnMux \/ Feed \/ Acknowledged \/ NoticeCancel
           \/ NextBatch \/ Finish \/ Joined \/ ChildCancelled \/ ChildExited
Write(k) == OpenPipe(k) \/ WriteFile(k) \/ Acknowledge(k) \/ EndWriter(k)
Next == \/ Cancel \/ Session \/ Fails
        \/ \E k \in Pipes : Write(k) \/ ReadInput(k)
        \/ OpenInput \/ ExitMux \/ MuxDies
MuxWorks == OpenInput \/ ExitMux \/ \E k \in Pipes : ReadInput(k)

\* Tasks and threads are scheduled, and a muxer that lives reads what it can.
Spec == /\ Init /\ [][Next]_vars
        /\ WF_vars(Session) /\ WF_vars(MuxWorks)
        /\ WF_vars(\E k \in Pipes : Write(k))

---------------------------------------------------------------------------
(* Properties                                                              *)

FileType == Streams \X Nat
TypeOK ==
  /\ rec \in Recordings /\ round \in 1..Len(rec.upto)
  /\ disk \subseteq FileType /\ sub \subseteq FileType /\ owed \subseteq Pipes
  /\ opened \in 0..Cardinality(Pipes)
  /\ \A k \in Pipes : /\ Len(fifo[k]) <= Capacity
                      /\ queue[k] \in Seq(FileType) /\ got[k] \in Seq(FileType)
                      /\ writer[k] \in {"none", "opening", "open", "ended"}
  /\ mux \in {"none", "running", "exited", "dead", "killed"}

\* Every pipe carries the files of its own stream, each once and in order,
\* through all refreshes: what ffmpeg read, what is in the pipe and what the
\* writer still has is all that was downloaded of the stream, up to the batch
\* that is being handed over.
FedInOrder ==
  \A k \in Pipes :
    LET way == got[k] \o fifo[k] \o queue[k]
    IN /\ IsPrefix(way, Wanted(k))
       /\ pc \in {"acknowledging", "waiting", "finishing"} => way = Wanted(k)

\* A file is deleted only after its writer has read it.
FilesOutliveJobs == \A k \in Pipes : ToSet(queue[k]) \subseteq disk

\* A recording that is announced was muxed to the end: every input was opened,
\* one was read to its end, and ffmpeg has exited. No FIFO stays behind.
FinishedIsMuxed ==
  pc = "finished" =>
    /\ mux = "exited" /\ opened = Cardinality(Pipes) /\ ~named
    /\ \E k \in Pipes : got[k] = Wanted(k)

\* What was recorded is muxed, all of it when the session says so.
StreamsAreMuxed == FedInOrder /\ FinishedIsMuxed

\* The session ends, unless ffmpeg died (a writer then blocks for ever), the
\* batches differ in length by more than ffmpeg reads ahead and the pipe holds
\* (it waits for the other input, the session for the acknowledgement), or
\* the recording ended before ffmpeg had opened all inputs.
Balanced == \A r \in 1..Len(rec.upto) : \A s, t \in Media :
              rec.upto[r][s] <= rec.upto[r][t] + Slack + Capacity
Probed == \A s \in Media : s # StreamOf(Cardinality(Pipes)) =>
            rec.upto[Len(rec.upto)][s] >= Probe
=============================================================================
