# Verification of haki-dl

haki-dl downloads HLS, DASH and Smooth Streaming media: it loads a manifest,
selects streams, downloads and decrypts their segments, merges and muxes them. It
runs one session from the command line, or many under a JSON-RPC server. This
directory holds TLA+ models of its concurrent and failure-prone parts, the TLC
runs that check them, and proofs checked by TLAPS. Paths are those of the
repository, without the leading `src/`.

    tlasany M.tla                               parse a module
    tlc -workers 2 -config X.cfg MCModule.tla   run a configuration
    tlapm XProofs.tla                           check the proofs of a module

`PROJECT.json` has the machine-readable form of what follows: components, runs,
the source lines of every definition, the mutant that shows each property can
fail, hazards, findings and theorems.

## 1. Inventory

| component | state | operations | hard behaviour | what makes it correct |
|---|---|---|---|---|
| RPC download manager (`src/rpc.rs`) | downloads by gid, queue positions, tokens, run generations | add, pause, unpause, remove, forget, restart (changeOption), changeUri, positions, bulk calls; spawn, events and results of runs | threads of many requests and of finishing runs; effects after the unlock; results of runs that were given up | at most the allowed number is active; a free slot is noticed; a given-up run is cancelled and no other; the end of a download is told as it was |
| RPC transport (`src/rpc.rs`) | connections, the broadcast channel | POST, GET and websocket requests, batches, multicalls, authorisation, notifications, shutdown | slow clients, overruns, notifications that race answers | answered in turn and by permission; only what was overwritten is missed |
| Cancellation token (`src/cancellation.rs`) | a flag | cancel, check | looked at in some loops only | who gives a run up cancels it; a cancelled session ends |
| Session pipeline (`src/session.rs`) | request, selected streams, results, events | load, select, download, decrypt, merge, mux, clean up | partial failure after every step; crashes; later sessions on the same directories | no content is lost; what is announced exists and is whole |
| Segment downloader (`src/download.rs`) | temporary directory, workers of a stream, their shared speed state, results | split a large file, attempt, retry, limit the speed, stop a slow attempt, finalize, check lengths, collect, sort | workers overtake each other; files of earlier sessions are skipped | files whole, in merge order, all of them |
| Real-time decryption (`src/session.rs` 5253-5775) | a segment's file, its copy, the file moved aside | run the tool, restore, replace | crash between removal and rename; tools that write half a file | no torn file is taken for a segment |
| Live recorder (`src/live.rs`, `src/session.rs` 2117-2610) | per stream: last name, date, index, counters, limit | trim to a common start, refresh, filter, download, append | the playlist moves meanwhile; several streams; failures half way | gapless, in order, no duplicates; ends at the limit |
| Live pipe mux (`src/session.rs` 4241-4735) | ffmpeg, named pipes, writers | start, feed, finish | pipes fill up; ffmpeg waits for one input, writers for another; ffmpeg dies | each pipe carries its stream in order; files outlive their jobs |
| Direct recording of a TS stream (`src/session.rs` 2612-2960) | output file, counters | request, read, write, stop | an older file under the same name; a timeout; a limit | the file begins with this recording |
| Merge and mux (`src/mux.rs`, `src/session.rs`) | output files | binary merge, ffmpeg merge, partial combine, mux, clean up | inputs deleted before the result exists; name collisions | an input is deleted only when its content is elsewhere |
| Decryption (`src/decrypt.rs`) | a file | AES, ChaCha in place | repeated on the same files | each byte decrypted once |
| Parsers (`hls.rs`, `dash.rs`, `mss.rs`) | local variables, streams so far | text to playlists, joining of periods, refresh | discontinuities, ads, repeats, periods, refreshed documents | segments follow one another; a refresh keeps streams apart |
| Selection (`selection.rs`, `manifest.rs`) | - | filters, prompts, ids, automatic choice, ranges | ranges per stream, ads, missing playlists | what was asked for, once, over one window of time |
| Subtitles (`subtitle.rs`) | cues | parse, shift, repair, merge, append, number | times that start anew, fragments, live refreshes | cues keep their time and text |
| Processors, source loader, HTTP client | - | rewriting, I/O | - | - |
| Console, logging, command line, configuration, utilities, facade | - | output and parsing | - | - |

How they interact. A request reaches a method of the manager through the transport.
The method runs under the `states` mutex; afterwards it cancels tokens, sends
notifications and starts waiting downloads, which takes the mutex again and spawns
tasks. A task runs a session with a clone of the request and a token; the session
reports through a progress callback (`record_event`) and, at its end,
`finish_download`. A session parses its source, selects streams, and calls the
downloader once for them, or once per batch of a live recording; the downloader calls
the decryption hook for each finished segment. Downloader and hook leave their results
as files, which the merge, the live pipe and later sessions on the same directory read.

## 2. Modules

### RpcQueue - the download manager

One method is one action that performs the whole critical section; what the code
does after the unlock is put into `todo[t]` of the thread that runs it (cancel these
tokens, notify, look for waiting downloads, spawn these starts) and taken from there
in later steps. So every interleaving of calls, finishing runs and the effects they
still owe is explored. `states` is the map of `RpcDownloadState`; `runs[<<g, n>>]` is
the task of the n-th run of download g (`run_generation`), with the token and the job
(input, options, selector: one version number) it was started with; `sent` records
notifications. A session is a run that works, may emit a Finished event, looks at its
token and reports its end.

Abstracted: taking a gid and taking a queue position are one step; ties of positions
are broken by gid (`created_at_ms`); pruning may forget any terminal download
(`updated_at_ms` is left out); poisoned locks and progress counters are left out; a
rejected `changeOption` keeps the options it had set before the invalid one, as the
code does, and marks the download `partial` until its next start.

A session that was paused goes on until it looks at its token while its slot is
already free, so more sessions may work at once than downloads are active.
`ActiveWithinLimit` is about what the code counts, the statuses.

### RpcTransport - how clients reach it

A connection is a task with a socket: an HTTP request that is parsed, permitted,
processed and answered, or a websocket whose task either serves a frame whole or reads
a notification. `bus` is everything ever sent on the broadcast channel; a receiver is a
position in it, and falls `Lagged` when `Capacity` newer ones exist. The manager is
reduced to downloads that requests pause and one run that reports progress, each a
step under the lock and a step that notifies, so that notifications are sent out of
order as in the code. `item` and `call` are the loops of `handle_jsonrpc_batch` and
`system_multicall`: each step processes one call with the credentials it has, and
`changed` remembers which calls paused their download. Each pause names a download of its
own that is not paused yet: the errors of the calls themselves are in `RpcQueue`.

Abstracted: header syntax, JSON text, percent and base64 decoding, CORS and JSONP;
results other than success or error; a client's reading is a window of messages in
flight.

### StreamFetch, SegmentDownload - the downloader

`StreamFetch` is the abstract specification: a download either fails or delivers
items in order, all of them when `check_segments_count` is set. `SegmentDownload` is
the code: batches of workers (init segment, probed first segment, chunks of
`thread_count`), each with its attempts and retries, the renaming of finished
bodies, the real-time decryption hook with three kinds of engine, the rewriting of
the Smooth Streaming init segment, the judgement of collected errors, and sessions
that crash anywhere and are followed by others on the same directory. `dir[i][p]`
says what each path of item i holds. `KeepsPromise` states that `SegmentDownload`
implements `StreamFetch`, with the delivered items as refinement mapping.

Abstracted: the `.tmp` file of an attempt (the next attempt truncates it); a
speed limit, a low-speed stop, a timeout and an error status are all "the attempt
fails"; a tool leaves unencrypted files as they are; the engine is the same in every
session on a directory; sessions follow each other. A body is whole, shorter than its
response announced (`short`, which `SegmentDownloadResult::success` refuses), or cut off
with no length announced (`cut`, which it accepts). `MCSegmentDownload` chooses one of the
three kinds of engine for a directory.

### LargeFile - one file in parts, and the speed the workers share

A stream of one segment is probed with HEAD requests and cut into clips
(`split_large_single_file_by_size`), the first of which is fetched alone and the others
by workers. `part[i]` is the worker of a clip with the bytes of its attempt and the
retries left. `window` and `low` are `SpeedState`; adding a chunk, passing the speed
limit, looking for the low-speed stop and reporting progress each take its mutex, and
each is a step, so that workers come between them. A `Second` may pass at any moment and
makes the next tick `due`; `quiet`, a history variable, counts the seconds since any
worker received a byte. The server is external: it may refuse, serve ranges or not, send
chunks of any size, fall silent or break off; of a range it sends what the file has of it,
or less: only a response that announces its length (`lengths`) lets the code tell.

Abstracted: finding, storing and decrypting of the parts (they are in `SegmentDownload`);
an init segment; redirects; the bytes shown as progress. `Retry` repeats whatever failed.

### VodSession - one session from start to clean-up

`execute_request` for media that is not live: delayed start, loading with its retries,
refusals, planning and reserving of output names, what the downloader delivers,
in-place AES decryption, combining in groups of `GroupSize` when there are more than
`MergeLimit` inputs, binary and ffmpeg merge, external decryption before or after the
merge, three muxers with imports and `.MUX` names, sweeping of mux inputs and clearing
of the task's temporary directory. `disk` maps paths to contents; a content is the set of the tracks a
file has (none, when it was cut off), and a track is a sequence of pieces, each an item of a
stream in a state (encrypted, decrypted, decrypted twice): so "lost", "reordered" and
"decrypted twice" are visible. A path is its dotted parts and an extension, because
`set_extension` cuts at dots. Output names are reserved stream by stream, as `FreePath`
finds them free; the names of combined groups and of ffmpeg merges are found when they are
needed. A session may
fail at every tool and file operation, crash between any two steps, and is followed by
another one that finds what it left. What is written over in place may be torn:
`DecryptTears` leaves a part of an AES segment, of which there is no other copy, and
`WriteTears` a part of an output. `setup` is one combination of media and options.

Abstracted: the download is one step that delivers what `StreamFetch` promises; the
arguments of tools; media information, apart from the kind it finds; progress.

### LiveRecorder - live recording

A server publishes segments and slides the playlists; the recorder loads, trims the
streams to a common start (`sync_live_startup_windows`), filters what it has not seen
(`filter_new_live_segments`), downloads and appends, waits and refreshes. `st[s]` is
`LiveStreamState`; a segment's file is named by its index, and `temp[s]` maps indexes
to the segment a file holds, because a file that exists is not downloaded again. A
`Setup` is a kind of source (HLS or not, dated or not, indexes that are numbers or
positions, init segment) with the options that decide what is kept. One download of a
batch is one step that delivers what `StreamFetch` promises; one that fails may leave any
of the batch's files under their final names.

Abstracted: all segments last equally long; the wait is a step that may take any
time, so a refresh may come too late; URLs that differ only in their query
(`all_same_path`), ad filters, subtitles and external decryption of
appended files are left out; `del_after_done` has its default, and `skip_merge` is
off.

### LivePipe, HttpLive - outputs of a live recording

`LivePipe` is `LivePipeMuxSession` with its environment: the session hands each batch to
one writer thread per pipe, waits for all acknowledgements, deletes the files and asks
for the next batch; a writer copies files into a pipe of limited capacity; ffmpeg opens
its inputs one after another, probes each, then reads them interleaved. The batches of
a recording are given (`Recordings`), with refreshes that bring something for some
streams only. A file is the unit that fits or does not fit into a pipe. ffmpeg is
external: modelled from how `plan_live_pipe_mux` starts it, as a reader that does not
run ahead of its other inputs by more than `Slack`.

`HttpLive` is the recording of a TS stream: each chunk is written at the file's offset,
the limit and the token are looked at between chunks, the client's timeout ends the
response, progress is emitted once a second.

### HlsPlaylist, DashManifest, SmoothManifest - parsers

`HlsPlaylist` has one action per tag and chooses the next line freely: all playlists of
up to `Lines` lines. Its variables are the local variables of `parse_media_playlist`;
`odd` is a history variable with what the properties except. `DashManifest` and
`SmoothManifest` take one representation, or quality level, per step out of a document
(`MediaInputs`), with the expansion of lists, templates and timelines as operators, and
join periods and refresh from a newer document, which may be one that cannot be read, as
the code does. Abstracted: text and XML syntax, URL resolution beyond which parts an address
is put together from, box layouts; of a playlist, its extension and whether it has an
unknown encryption.

### SegmentRange, StreamSelection, SubtitleTimes - between document and output

`SegmentRange` is the custom range and the removal of ads. `StreamSelection` is the way
from parsed streams to those that are downloaded: drop filters, keep filters, ids,
prompt or automatic choice, loading of playlists, range, ads, and the refusals after
it; one pattern stands for all of a filter, and its greatest number of segments, duration
and role are left out. `SubtitleTimes` reads the files of a subtitle stream one by one, merges, repairs,
shifts and numbers cues, and appends for a live recording; times are half seconds.

`MCMedia` runs these five side by side: a behaviour is one of one of them, and `part`
says of which. `MediaInputs` holds the inputs, with the case each is there for.

## 3. Runs

All bounds are constants named as bounds in the modules.

| run | question | bounds |
|---|---|---|
| rpc_results | are ends announced as they were, through restarts and stale runs? | queue off, 2 downloads, 2 runs each, 1 active, 1 retained, notifications recorded |
| rpc_race | with two clients, is the right run cancelled, the limit kept, and no free slot missed? | 2 clients (symmetric), 2 downloads, 2 runs, 1 job change; changes rejected half way among them |
| rpc_bulk | do bulk calls and reordering keep the order of the others, and is a waiting download started? | 3 downloads, positions up to 3, added paused, 1 run each, fair |
| rpc_orphan | `ForgottenIsFinished`: violation, section 6 | as rpc_results with the queue on |
| rpc_transport | are requests answered in turn and by permission, and what does a slow client miss? | 1 websocket with 2 frames, 1 HTTP request, channel of 2, 1 progress event, 2 server configurations, fair |
| fetch_segments | do racing workers deliver in order and completely, files that are there and as long as announced, does a crash during real-time decryption leave a torn file, and does a download end? | Smooth Streaming: 3 segments and an init segment that is rewritten, 2 threads, 1 retry, short and cut bodies, each kind of engine, 2 sessions on the directory, count check; fair |
| large_file | are the parts of one file the file, as far as its server announces lengths, and do the shared limit and low-speed stop do what they say? | a file of 1, 4 or 9 bytes, clips of 3 + 1, 2 threads, 1 retry, chunks up to 4, limit 1, stop after 2 silent seconds; fair |
| vod_session | does a session keep what it downloaded and the files it found, is what it announces whole, and do its streams have outputs of their own? | 2 sessions on the same directories, up to 3 segments, groups of 2 from 3 inputs on, all setups of `MCVodSession`, fair |
| vod_collision | `OutputsDiffer`: violation, section 6 | two streams that ffmpeg merges under one name |
| live_record | is the recording of two streams gapless, aligned, counted and finite? | 2 streams, window 3, limit 3 s, skew 1, up to segment 6; 4 setups, fair |
| live_output | do pipes carry their streams, and does a TS file begin with its recording? | up to 3 streams and 3 batches, pipes of 2 files, slack 1; 2 recordings of up to 3 chunks, fair |
| media | do segments (`SegmentsFollow`, `RefreshIsOwn`, `WindowKept`, `SegmentsStay`), streams (`SelectionIsRight`) and cues (`CuesKeepTime`) survive parsing, refreshing, selecting and shifting? | all playlists of 6 lines; the documents, requests and tracks of `MediaInputs` |

Why these are enough. In the manager every property speaks of one download and its
runs, or of the count of active ones: two downloads compete for one slot, two runs
make a stale one, and a third download is needed only for orders. With the queue off
and one retained result, pruning and a start without a queue happen as well. In the
transport a socket must be served while another connection's pause and the run's
progress fill the channel: three notifications overrun a channel of two. In the
downloader two workers overtake each other in every way, a probed segment and a chunk follow the init segment, and
a second session meets whatever a first one left; `TornNever` holds for any number. Of a large
file, size 1 is one clip, size 4 = S + 1 has a second clip that begins just behind
the file's last byte, and 9 has three, two of which are fetched at once. In a
session the steps of different streams follow each other, so two streams suffice for
names and muxing, three segments for a group that is full and one that is not, and two
sessions for leftovers. For a recording the window must slide past the first batch and
the limit be reached in a later batch, and a stream must be able to get ahead of
another by one segment. A pipe must be filled by one batch and emptied during another;
a TS recording must be longer and shorter than an older one. Six lines hold a
playlist with a discontinuity or an ad between two segments; the other inputs were
chosen case by case, and a case that is missing there is not checked.

Fairness. Threads of the manager and spawned tasks are scheduled (tokio, weak
fairness each); sessions end, by assumption for downloads that are not live. In the
transport the tasks of connections are scheduled and clients that stay connected read;
nobody has to send anything. In the downloader servers owe nothing: an attempt is given
up at the latest at the total timeout of the request (`src/http.rs` 298-299), so
`AttemptFails` is weakly fair, as are the looks at the directory and the steps of the
hook; decryption tools are assumed to terminate. In `LargeFile` seconds
pass and workers go on by themselves (`Proceed`), while no server has to answer or to send
a byte: `LoadEnds` rests on the low-speed stop once a body has begun, and on the total
timeout before. In `VodSession` only the session's own steps are fair, and the decryption that runs in the process (mp4forge): an external
tool may run for ever, and `CancelNoticed` says that a cancelled session ends all the
same. A probe may run for ever too, and it is awaited without the token: where a session
may wait for one (`Probing`) it has no fairness, and the property excepts it. In the recorder the session's task runs and the broadcast goes
on (`Publish` is weakly fair); `RecordingEnds` excepts the case that the last recorded
segment has left a playlist before the refresh (section 6). In `LivePipe` session,
writer threads and a muxer that lives are scheduled; `PipeEnds` names the three cases in
which the code hangs (section 6). Calls of clients, crashes, failures and cancellation
are never fair. `CHECK_DEADLOCK FALSE` is set because a bounded behaviour does end: all
bounds are used up, or the session is over.

## 4. Proofs

Proved for every value of the constants that the named assumptions allow:

| theorem | says | along |
|---|---|---|
| `RpcQueueProofs!TypeCorrect` | `Spec => []TypeOK` | per action; lemmas for what each method leaves in `todo` |
| `RpcQueueProofs!LimitKept` | `Spec => []ActiveWithinLimit` | only `start_waiting_downloads` and a direct start make downloads active; each counts and starts under one lock; cardinality lemmas |
| `RpcQueueProofs!TokensLive` | `Spec => []UnfinishedTokenIsLive` | `TokenInv`, below |
| `RpcRunProofs!GivenUpIsCancelled` | `Spec => []GivenUpRunIsCancelled` | `RunInv`, below |
| `RpcRunProofs!CompleteIsKept` | `Spec => CompleteIsNotRemoved` | the same `RunInv`, with `TokenInv` |
| `RpcQueueProofs!OrderKept` | `Spec => OthersKeepOrder` | per method: what it does to positions, and that the order is one of pairs (position, gid) |
| `RpcRunProofs!ActiveHasRun` | `Spec => []ActiveIsRun` | `NewsInv`, below |
| `RpcRunProofs!WaitingHasNotice` | `Spec => []WaitingIsNoticed` | the same `NewsInv` |
| `RpcRunProofs!EndHasNews` | `Spec => []EndIsAnnounced`, if the notifications of ends are recorded | the same `NewsInv` |
| `SegmentDownloadProofs!TornNever` | `Spec => []NeverTorn` | `DirInv`, below |
| `SegmentDownloadProofs!PromiseIsKept` | `Spec => KeepsPromise`: `SegmentDownload` implements `StreamFetch` | `OrderInv`, below |
| `SegmentDownloadProofs!FilesHandedOver` | `Spec => []FilesAreThere` | `DirInv`, `OrderInv` and `RewrittenInv` |
| `SegmentDownloadProofs!FirstFilesAnnounced` | `Spec => []FilesAreAsAnnounced`, which has `FilesAreThere` in it | these and `FirstInv`, below |
| `LiveRecorderProofs!CountersCorrect` | `Spec => []CountersAgree` | `Inv`, below |
| `LiveRecorderProofs!OverrunBounded` | `Spec => []OverrunIsBounded` | the same `Inv` |
| `LiveRecorderProofs!LimitCounted` | `Spec => []LimitIsCounted` | both together, as the run checks them |
| `LiveRecorderProofs!NothingIsTakenBack` | `Spec => NothingTakenBack`, if batches are merged or kept | `FilesInv`, below |
| `LiveRecorderProofs!RecordingIsRun` | `Spec => []RecordedRun`, if sources are `Comparable` | `RunInv`, below |
| `VodSessionProofs!DecryptsOnce` | `Spec => []DecryptedOnce` | `FirstInv` of that module, below |
| `VodSessionProofs!OlderFilesKept` | `Spec => ForeignKept`, if names are plain | `PathInv`, below |
| `VodSessionProofs!NothingIsLost` | `Spec /\ []OutputsApart => []ContentKept`, if names are plain | `HoldInv`, below |
| `VodSessionProofs!OutputsAreWhole` | `Spec /\ []OutputsApart => []FinishedIsWhole`, if names are plain | the same `HoldInv` |
| `LiveOutputProofs!FilesOutlive` | `Spec => []FilesOutliveJobs` | `Inv`, below |
| `LiveOutputProofs!AllIsMuxed` | `Spec => []StreamsAreMuxed` | `MuxInv`, below |
| `LiveOutputProofs!FileBeginsWithRecording` | `Http!Spec => []RecordingIsAhead` | `FileInv`, below |
| `RpcTransportProofs!AnswersInTurn` | `Spec => []AnsweredInTurn` | `Inv` of that module, below |
| `RpcTransportProofs!OnlyOverrunIsMissed` | `Spec => MissedByOverrunOnly` | the same `Inv`; per action |
| `LargeFileProofs!TypeCorrect` | `Spec => []TypeOK` | per action; no clip promises more bytes than the file has |
| `LargeFileProofs!PartsAreAsAnnounced` | `Spec => []FileIsAsAnnounced` | `BodyInv` and the arithmetic of the split, below |
| `LargeFileProofs!LimitHolds` | `Spec => []WindowBounded` | `LimitInv`, below |
| `LargeFileProofs!StopsInSilence` | `Spec => StopMeansSilence` | `SpeedInv`, below |

`UnfinishedTokenIsLive` is not inductive: a thread may owe the cancellation of a
token that a download holds by then. `TokenInv` adds that every condemned token,
cancelled or owed, is an earlier one of its download (or the download ended), and
that a gid which is still to be inserted is fresh and owned by one thread.

`RunInv` ties each run, spawned or owed by a thread, to its download: its generation was
reached by the download (`BegunInv`); a run that works, or will, is the current one of its
download or its token is condemned, and the current one of a download that is active, or
completed by its last event, holds the download's token, which nobody condemns
(`HeldInv`); an owed start is the only one of its run, which does not exist yet
(`SpawnInv`); and what a thread has left to do comes from one method, so that no step
drops a cancellation it still owes (`WorkInv`). `ThreadsAssumption` says that a client is
no run. A run that its download gave up is therefore condemned, and a cancelled run that
ends finds its download completed only as an earlier generation.

`NewsInv` is about what must not be forgotten between an unlock and the effects owed
after it. `Going` are the starts some thread owes and those the runs at work came from.
`ActiveInv`: an active download has one of them, with its generation and token, and with
its URI and options unless the download is `partial`: a change of options was rejected half
way since its last start (the code keeps what it had set; section 6). `NoticeInv`: beside a free slot a
waiting download has a thread that will look for it and cannot fail before it does, or a
start or a run that is not stale and whose end will look. `EndInv`: a download that ended
was announced, or a thread owes the notification, or an event ended it and its current run has
yet to report; for that, `OrderInv` says in which order a thread has its effects left.

`OthersKeepOrder` is an action property that needs types only, but the code reorders by
renumbering: `move_download_position` is shown to put one download elsewhere in a list whose
other members keep their distance, and the renumbering of the whole queue
to keep the order of any two, also where positions were equal before.

`NeverTorn` is not inductive: whether a step may remove the encrypted file depends on
what the worker knows of the copy. `DirInv` says, for each phase of a worker, what its
source and its copy may hold, and that a torn copy lies only beside its source. The
init segment of a Smooth Streaming stream, which is rewritten in place in each
session, is left out, in the property too.

`KeepsPromise` rests on `OrderInv`: items before the batch have ended, those of the strict
first batches successfully, those after it have not begun; `arrived` holds the finished items of the batch, each
once; and `files` is the ascending list of the finished items of earlier batches. Closing a
batch sorts `arrived` behind it. The batches are the first items and chunks of `ThreadCount`:
that they follow each other without a gap is arithmetic of `\div`. `FilesAreThere` adds to
`DirInv` that the init segment of a Smooth Streaming stream lies under its path once
the first segment's worker has rewritten it (`RewrittenInv`); `FilesAreAsAnnounced`, that
in a first session only the worker that is about to report a mismatch of lengths leaves a body
that is shorter than announced (`FirstInv`).

`CountersAgree` holds only at rest. `Inv` adds what holds during a batch: what was
recorded and the batch in hand make what was found; a stream below the limit has not
found that much, and one at the limit was below it one playlist ago. For that, no list
that is filtered is longer than the playlist window, which is proved through the
trimming of the first windows (least elements of sets of naturals come from the
library's well-foundedness theorems).

`NothingTakenBack` is an action property. A step takes files away in two ways: the clean-up
after a batch, when segments are merged and not kept, and an end. `FilesInv` says that with
these options no file is left between batches, and that while a batch is written every
file is in what was delivered of it; so what a step deletes it has just appended.
With merging and keeping both off the code deletes what it did not append (section 6);
the hypothesis of the theorem leaves those options out, and the run has none of them.

`RecordedRun` speaks only of what is written; `RunInv` follows it from the server to the
file. `ServerInv`: a playlist that does not begin with the first segment is full, so
streams that run less than a window apart have a segment in common, and trimming leaves
all of them beginnings with one number. `BatchInv`: a stream's state names the last
segment it took, and the batch in hand is the run that ends with it; what is unseen in a
playlist is therefore its end after that segment, or nothing, and no index is moved.
`NamesInv` and `OrderInv`: a file holds the segment it is named after; an output ascends
and ends before the batch. `SinceInv`: all streams have everything from one segment up to
there, or up to where a write stopped. Each hypothesis in `Comparable` is needed, TLC
finds `RecordedRun` violated without it: indexes that are positions repeat a file name
(section 6); of segments with one date the last is taken again (section 6); when batches
are neither merged nor kept they are deleted; and with `live_take_count` below 2, or
streams that run apart by a window or more, the first window of a stream is empty, and its
recording begins with whatever the next refresh lists. The run's sources are `Comparable`,
which TLC evaluates (`SourcesAreComparable`).

`DecryptedOnce` needs to know, of each stream of a first session, which files have yet
to be decrypted (`ToCome`: all before `finalize_downloads`; then those of later
streams, and of the stream in work those behind `pos`): in a complete stream they are as
the server sent them (`FirstInv` in `VodSessionProofs`). The rest is that an ascending
list with as many members as there are items has item k in place k, with the init segment
in front, proved from least counterexamples. Merges, mux, clean-up and every way to end
decrypt nothing and leave files to come alone (`Goes`).

`ForeignKept` is an action property: a step changes only paths that are the session's own.
`PathInv` says why they are. Outputs were given out when no file had their name, differ from
each other and from every older file (`OutInv`), and the set of files stays finite, so
that a free name exists (`DiskInv`); whatever a tool or a rename writes, and whatever is
swept, is such an output, an imported file (which the property leaves out), or has a part in its
name that no older file has: `.MUX`, `_dec` or a group's directory (`TargetInv`). The
hypothesis `PlainNames` says that no save name, language or older file uses these parts; the code does not
look (section 6: a leftover `.MUX` is written over).

`ContentKept` and `FinishedIsWhole` follow from `HoldInv`, which says for each phase
where every item of every stream is: in its temporary file before its turn (`FilesOk`,
`AllInTemp`); in the temporary directory, combined groups or output, whichever step of the
closing of its stream comes next (`CurOk`: a deletion comes after the write that repeats
what it deletes, also `partial_combine_files` and the rename of a decrypted file); in its
output once the stream is closed (`ClosedOk`); in the target of a muxer before the
inputs are swept (`MuxOk`), and in what the session announces when the
temporary directory is cleared (`ClearOk`, `EndOk`). `BitsInv` types pieces, `ImportInv` says
that imported files are in a file of the session before they are swept. The
hypothesis `OutputsApart` is about behaviours: no tool writes to the path of another
stream. The code does not ensure it, as `vod_collision` shows; on the setups
of `vod_session`, which have no such names, the run checks it.

`FilesOutliveJobs` needs two facts about other moments: a job with files left is still
owed an acknowledgement (so none is left when the directories of a batch are deleted),
and all files of a batch exist until it is handed over. That the files deleted while it
is handed over, those of subtitles, belong to no pipe follows from a file naming its
stream. The batches of a recording and ffmpeg's reading are arbitrary.

`StreamsAreMuxed` counts files instead of comparing lists: `WayInv` says that what is on its
way through pipe k (read by ffmpeg, in the FIFO, in the writer's queue) is the first n
files of the pipe's stream, and which n that is in each phase of the session. A pipe's stream is
found by counting media streams (`PipesMatch`: a bijection), so what a batch with
fewer streams brings goes on where the one before ended (`JobFollows`). `EndInv` is about
the end: no writer ends while the session holds the senders, and after that only a pipe
that ffmpeg had not opened, or will not read again, loses what is in it; so a muxer that
exits has read one input to its end.

`RecordingIsAhead` needs that every chunk in the file is numbered by a recording begun
so far, however that one ended: then a new recording, which starts at offset 0 of a
file that is not truncated, finds only chunks of others there.

`AnsweredInTurn` speaks of answers that were sent; its invariant says how far the one in
work is. `Served`: before call `k` of item `i`, the reply holds what is due to the earlier
objects of the batch and, if `k` is a call inside a multicall, the part of its answer for the
earlier entries; and the calls of the frame that paused the download are the permitted ones
before this place. Frames answered earlier keep what they caused because a step adds effects
of the frame in work alone (`FramesDone`, `InTurn`). The n-th item's place in a reply is the
number of objects up to it, whence the lemmas on counting. `Heard` and `BusInv`: a task does
not owe a notification beyond its frame, and no notification names a frame not yet taken.
`ValuesAssumption` says that batches and multicalls are lists, `ConnsAssumption` that the
run is no connection.

In `LargeFile`, `BodyInv` says that no part has more bytes than it was promised, and that
one that is done has all of them if lengths are announced; the rest of `FileIsAsAnnounced`
is arithmetic: clip i ends before clip i + 1 begins, with no byte between them, and a last
clip with at least one byte reaches the end of the file.
`LimitInv` bounds the window by the limit and one chunk for each worker that has added
bytes and not passed the limiter since; `InTurn` puts these in one batch, of at most
`ThreadCount`. `SpeedInv`: while the count is below the threshold and the
window is empty, as many seconds were silent as the count says, and one more when a tick
is due.

Only model-checked: everything temporal (`WaitingIsStarted`, `ClientsCatchUp`,
`SessionEnds`, `LoadEnds`, `RecordingEnds`, `CancelNoticed`, `PipeEnds`), because liveness
and `ENABLED` are out of the prover's reach; and the properties of the run media, which
speak of what folds and recursive functions compute for every input (induction over data).

## 5. Not modelled

- Processors (`processor.rs`), the source loader and HTTP client, console, progress and
  logging, command line and configuration, utilities and the library facade: I/O,
  parsing of options and output, without state whose order matters. What the models use
  of them (total timeouts, retries of the source) is in the models.
- In the manager: the merging of options per download and `with_queue_config`.
- In the downloader: media probing, redirects; sessions that share a directory at the same
  time.
- In the session: printing of streams, media information, the choice of default external
  tracks; tools that go on running after their worker was aborted (no `kill_on_drop`).
- In the recorder: `compute_live_wait_seconds`, ad filters, durations below a second.
- In the parsers: session keys and key documents, XML and tag syntax, box layouts; in
  the subtitles: markup and image subtitles.
- Ciphers, byte layouts and command lines of tools: they have no state of their own.

## 6. Divergences met while modelling

Checked (a run that expects a violation):

- `rpc_orphan`: `record_event` compares no generation (`rpc.rs:1251`), so the last
  event of a replaced run completes the restarted download, which can then be
  forgotten while its session works.
- `vod_collision`: the path of an ffmpeg merge is chosen against the disk alone, after the
  others were reserved (`session.rs:3698`, against `selection.rs:474`): the merge of
  one stream can write to the path of one that is merged later, which then overwrites
  it. Both are announced as one file, and one stream is lost.

Seen in the models; where a property would fail because of one, its definition or its
comment names the exception.

Manager and transport:

- A change of options that is rejected half way keeps what it had set, and an active run
  goes on without it until the next start (`rpc.rs:1045`): `ActiveIsRun` excepts it.
- A download paused and resumed before its cancelled run ends is marked removed by that
  run (`rpc.rs:1299`): the generation is the same until the next start.
- Entries of a multicall do not inherit HTTP basic authorisation (`rpc.rs:2694`); batch
  items that are no objects get no answer (`rpc.rs:2314`); an overrun is skipped without
  telling the client (`rpc.rs:2119`); a progress notification taken under the lock may be
  sent after a later lifecycle one (`rpc.rs:1266`); websockets are not waited for at
  shutdown, and with TLS no connection is.

Downloader and decryption:

- A body that ended early is renamed to the segment's final name before its length is
  compared; the next session takes it without a comparison (`download.rs:318`).
- A Smooth Streaming init segment that was decrypted in real time is written again in
  its encrypted form after the first segment (`download.rs:957`).
- AES decryption in place is repeated by the next session on the same directory, and
  `decrypt_stream_files` pairs files and segments by position, so a missing segment
  shifts keys (`DecryptedOnce` is about a first, complete session).
- When the limiter or a progress report takes the low-speed count to its threshold, the
  next worker that looks gives its attempt up, even if it has just received a chunk
  (`download.rs:1997`): `StopMeansSilence` is about how the count got there.
- Each clip of a large file is a byte longer than the split counts (`download.rs:1674`), so
  clips drift; of a file that is less than n bytes (n clips before the last) larger than n
  splits the last clip begins behind its end, is refused by `range_header` and fails the
  download; with exactly n bytes the server refuses it.
- A server that answers `Accept-Ranges: none` is taken for one that serves ranges
  (`download.rs:2210`): it sends the whole file for every part, and what is handed over
  repeats it. `FileIsAsAnnounced` excepts it.
- A response without a Content-Length is never too short (`download.rs:116-125`): a body
  that ends early, of a segment or of a part of a large file, is handed over in the session
  that fetched it. `FilesAreAsAnnounced` and `FileIsAsAnnounced` speak of announced lengths.
- When waiting for mp4decrypt fails or its stderr cannot be read, the file it was given
  stays where it was moved (`session.rs:5553`, `5602`), out of reach of later sessions.
- A missing key or a failed external decryption after the merge ends in success with
  an encrypted output; a leftover `_dec` makes ffmpeg's decryption fail silently.

Session:

- `set_extension` cuts names with dots; the mux output of mp4forge and a leftover `.MUX`
  are written over; mp4forge's output may have the name of subtitles that stay out of the mux.
- Imported files are deleted with the mux inputs (`session.rs:4804`, `5220`); the PNGs of
  image subtitles are deleted by the clean-up that follows their retention
  (`session.rs:2579`, `6086`).
- Merge, mux and clean-up look at the token only while they wait for a tool. The probes of
  media (`session.rs:1984-2039`, `media_info.rs:36`) and of key ids (`session.rs:5462`) are
  awaited without it and without a timeout: a probe that does not end keeps a cancelled
  session (`CancelNoticed` excepts it).
- AES segments are decrypted in place with `tokio::fs::write`, which truncates first
  (`decrypt.rs:163`): a crash there leaves a part of the only copy, which a later session
  decrypts again or merges. `ContentKept` counts such a file as kept after an interruption
  only.

Live recording:

- With indexes that are positions (DASH SegmentTimeline), the single new segment of a
  refresh gets the file name of the last one, whose file is appended again in its
  place (`live.rs:243`).
- Once the last recorded segment has left the playlist, `filter_new_live_segments`
  finds nothing new ever again (`live.rs:235`): the recording neither goes on nor ends.
- The refresh loop never looks at `is_live`: after the end of a broadcast a recording
  without a limit, or below it, runs until it is cancelled (`session.rs:2146`).
- Dates are cut off to seconds and the first segment with the last one's date is looked
  for (`live.rs:211`): of two segments of one second the later is recorded again.
- Durations are cut off to seconds per refresh (`live.rs:263`): with one segment of less
  than a second per refresh the limit is never reached.
- `live_take_count` segments are one less in fact (`live.rs:472`), and with a count of 1
  the stream with the shortest playlist begins with none.
- The files of a failed batch that had their final names stay (`download.rs:1096`): with the
  merge off and files kept, what a failed recording leaves may have a gap at its end.
- Each refreshed batch of a stream with an init segment appends the init segment again.
- Without `live_real_time_merge` and without `live_keep_segments` the batches are
  deleted although nothing was merged (`session.rs:2512`).
- Pipe: the wait for acknowledgements cannot be cancelled; a writer keeps its FIFO open
  for reading too, so it blocks for ever when ffmpeg has died; batches that differ more
  between streams than pipes and ffmpeg hold make both wait for ever; a writer that ends
  before ffmpeg opened its pipe loses what is in it; FIFOs and ffmpeg stay behind on
  errors and cancellation.
- TS recording: the file is opened without truncation, so the tail of an older, longer
  recording stays behind the new one; a recording longer than the client's timeout of
  100 s fails.

Parsers, selection, subtitles:

- HLS: a VOD playlist without ENDLIST loses its last part (`hls.rs:425`); a
  discontinuity after a removed ad takes the previous part back and drops what was read
  since (`hls.rs:348`); an ENDLIST inside an ad is ignored; a removed ad shifts the
  default IV of later segments (`hls.rs:409`); a second EXT-X-MAP ends the playlist.
- DASH: a negative repeat fills the whole period whatever the position; the init segment
  of a joined period is dropped; on refresh, streams without an init segment match each
  other (`dash.rs:165`, `mss.rs:134`). A live document's streams are kept per period
  (`dash.rs:578`) but refreshed without it (`dash.rs:636`): those of later periods get the
  segments of the first period, and `RefreshIsOwn` does not say which.
- Smooth: a chunk without `d` lasts 0; a negative `r` counts the whole document; one
  unsupported stream fails the manifest while an unknown FourCC only warns; the generated
  init segment contains the second of its creation, so a refresh by init never matches.
- Selection: streams that differ only in their URL are taken for the same by their
  labels; filters by segment count do not apply before playlists are loaded; closed
  captions cannot be selected.
- `skipped_duration` leaves parts wholly before the range out (`selection.rs:279`), so
  subtitles are not shifted by them; with relative times they are shifted twice
  (`session.rs:4138`, `subtitle.rs:119`).
- The repair of times that start anew misses those that begin after the last cue's end,
  and takes a repeated cue for one when it goes over the boundary together with a later cue
  that ends sooner: the segment is moved although its times are absolute
  (`subtitle.rs:210`). `Recognisable` excepts both.
  the first file of a live batch gets no offset; an empty batch appends a made-up cue
  (`subtitle.rs:164`).

## 7. Plan

Done: all modules of section 2, with the proofs of section 4. Left, in this order:

1. Manager: merging of options, `with_queue_config`, an abstract download queue that
   `RpcQueue` implements; sessions that overlap on one directory.
2. `LiveRecorder` and `LivePipe` as one specification: the batches of the one are the
   jobs of the other, and a pipe that blocks delays the refresh.
