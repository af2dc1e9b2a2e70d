-------------------------- MODULE SegmentDownload --------------------------
(***************************************************************************)
(* The segment downloader of src/download.rs for one stream, with the      *)
(* real-time decryption that src/session.rs hooks into it, over sessions   *)
(* that follow each other on the same temporary directory.                 *)
(*                                                                         *)
(* The init segment is item 0, the media segments are 1..SegmentCount. The *)
(* first items are downloaded one at a time and any error ends the         *)
(* session; the later ones come in batches, their errors are collected and *)
(* judged at the end.  Every item has its own worker, one await at a time. *)
(*                                                                         *)
(* Abstracted: a file is what it holds; the `.tmp` file an attempt writes  *)
(* is truncated by the next attempt and read by nobody, so only the rename *)
(* that finishes it appears; progress events, the speed limit and the      *)
(* probing of media information are left out.  An attempt that is stopped  *)
(* for low speed, times out or gets an error status simply fails.          *)
(***************************************************************************)
EXTENDS Integers, Sequences, Functions

CONSTANTS
    SegmentCount,   \* the number of media segments
    HasInit,        \* whether the playlist has an init segment
    ForceProbe,     \* force_first_media_probe (Smooth Streaming)
    ThreadCount,    \* DownloadOptions.thread_count: 1 sequential, -1 all at once
    CheckCount,     \* DownloadOptions.check_segments_count
    Retries,        \* DownloadOptions.download_retry_count
    Engine,         \* what decrypts in real time; "none" when nothing does
    Replies,        \* what a server sends: "whole" bodies, "short" and "cut" ones
    MaxSessions     \* bound: sessions over one temporary directory

ASSUME StreamAssumption ==
    /\ SegmentCount \in Nat
    /\ HasInit \in BOOLEAN /\ ForceProbe \in BOOLEAN /\ CheckCount \in BOOLEAN
    /\ ThreadCount \in Nat \ {0} \/ ThreadCount = -1
    /\ Retries \in Nat
    /\ Engine \in {"none", "mp4decrypt", "mp4forge", "other"}
    /\ Replies \subseteq {"whole", "short", "cut"}
    /\ MaxSessions \in Nat

VARIABLES
    dir,        \* the temporary directory: what each path of an item holds
    work,       \* the worker of each item
    batch,      \* the batch that is being downloaded
    arrived,    \* the items of the batch that succeeded, in the order they did
    files,      \* StreamDownloadResult.files: item and path
    result,     \* what the session came to
    session     \* number of the session

vars == <<dir, work, batch, arrived, files, result, session>>

-----------------------------------------------------------------------------
Items == (IF HasInit THEN {0} ELSE {}) \cup 1..SegmentCount

\* The final path, the path of its decrypted copy, and the copy's copy.
Paths == {"main", "dec", "decdec"}
DecPath(p) == IF p = "main" THEN "dec" ELSE "decdec"

\* A torn file is one that a tool has begun to write.  A body that ended early
\* leaves a short file, when its response announced a length, or a cut one.
Contents == {"none", "torn", "short", "cut", "fetched", "clear"}

\* What is stored of a body, and whether SegmentDownloadResult::success holds:
\* without a Content-Length there is nothing to compare.
Stored(reply) == IF reply = "whole" THEN "fetched" ELSE reply
Succeeds(reply) == reply # "short"

\* What a tool makes of a file.  It copies what is not encrypted.
Decryption(content) == IF content = "fetched" THEN "clear" ELSE content

Phases == {"waiting", "fetching", "probed", "rewriting", "hook", "decrypting",
           "placing", "removing", "renaming", "done", "mismatch", "missing"}

Worker == [phase : Phases, left : 0..Retries, path : Paths, aside : Contents]
Unstarted == [phase |-> "waiting", left |-> Retries, path |-> "main", aside |-> "none"]

-----------------------------------------------------------------------------
(* The batches: the strict ones, then the chunks of the other segments.    *)

ProbesFirst == SegmentCount > 0 /\ (~HasInit \/ ForceProbe)

Strict == (IF HasInit THEN <<{0}>> ELSE <<>>) \o (IF ProbesFirst THEN <<{1}>> ELSE <<>>)

FirstLater == IF ProbesFirst THEN 2 ELSE 1

ChunkSize == IF ThreadCount = -1
             THEN IF SegmentCount < FirstLater THEN 1 ELSE SegmentCount - FirstLater + 1
             ELSE ThreadCount

BatchOf(n) ==
    IF n <= Len(Strict) THEN Strict[n]
    ELSE {i \in FirstLater..SegmentCount : (i - FirstLater) \div ChunkSize = n - Len(Strict) - 1}

IsStrict == batch <= Len(Strict)

Sequential == ThreadCount = 1

\* The first segment of a Smooth Streaming stream makes a new init segment.
MakesInit(i) == HasInit /\ ForceProbe /\ i = 1

\* What follows a successful download.
AfterDownload(i) == IF MakesInit(i) THEN "probed" ELSE "hook"

-----------------------------------------------------------------------------
Init ==
    /\ dir = [i \in Items |-> [p \in Paths |-> "none"]]
    /\ work = [i \in Items |-> Unstarted]
    /\ batch = 1
    /\ arrived = <<>> /\ files = <<>>
    /\ result = "idle"
    /\ session = 0

\* A session finds what the ones before it left in the directory.
StartSession ==
    /\ result # "running"
    /\ session < MaxSessions
    /\ session' = session + 1
    /\ result' = "running"
    /\ work' = [i \in Items |-> Unstarted]
    /\ batch' = 1
    /\ arrived' = <<>> /\ files' = <<>>
    /\ UNCHANGED dir

Working(i, phase) ==
    /\ result = "running"
    /\ i \in BatchOf(batch)
    /\ work[i].phase = phase

\* The session returns an error; the workers are dropped where they are.
Stop == result' = "failed" /\ UNCHANGED <<batch, arrived, files, session>>

Continue == UNCHANGED <<batch, arrived, files, result, session>>

\* An item that is done is a result of its batch.
Done(i) ==
    /\ work' = [work EXCEPT ![i].phase = "done", ![i].aside = "none"]
    /\ arrived' = Append(arrived, i)
    /\ UNCHANGED <<batch, files, result, session>>

-----------------------------------------------------------------------------
(* One segment.                                                            *)

\* A final file, or else a decrypted copy of it, is accepted as it is.
Look(i) ==
    /\ Working(i, "waiting")
    /\ LET found == {p \in {"main", "dec"} : dir[i][p] # "none"}
           picked == IF "main" \in found THEN "main" ELSE "dec"
       IN  work' = [work EXCEPT ![i] =
                      IF found = {} THEN [@ EXCEPT !.phase = "fetching"]
                      ELSE [@ EXCEPT !.phase = AfterDownload(i), !.path = picked]]
    /\ Continue
    /\ UNCHANGED dir

\* Mutant: the length is not compared.
StoreAnything(i) ==
    /\ Working(i, "fetching")
    /\ \E reply \in Replies :
         dir' = [dir EXCEPT ![i]["main"] = Stored(reply)]
    /\ work' = [work EXCEPT ![i].phase = AfterDownload(i)]
    /\ Continue

\* The body is in the `.tmp` file and the file gets its final name, whatever
\* its length; the length is only compared with the response's afterwards.  The
\* count of retries is not used any more and starts anew.
StoreReply(i) ==
    /\ Working(i, "fetching")
    /\ \E reply \in Replies :
         /\ dir' = [dir EXCEPT ![i]["main"] = Stored(reply)]
         /\ work' = [work EXCEPT ![i].phase =
                       IF Succeeds(reply) THEN AfterDownload(i) ELSE "mismatch",
                     ![i].left = Retries]
    /\ Continue

\* Mutant: retries are not used up.
RetryForever(i) ==
    /\ Working(i, "fetching")
    /\ work[i].left > 0
    /\ UNCHANGED vars

\* An attempt fails: it is repeated while retries are left.
AttemptFails(i) ==
    /\ Working(i, "fetching")
    /\ \/ work[i].left > 0 /\ work' = [work EXCEPT ![i].left = @ - 1]
       \/ work[i].left = 0 /\ work' = [work EXCEPT ![i].phase = "missing", ![i].left = Retries]
    /\ Continue
    /\ UNCHANGED dir

\* The final rename fails: this is not repeated.
StoreFails(i) ==
    /\ Working(i, "fetching")
    /\ work' = [work EXCEPT ![i].phase = "missing", ![i].left = Retries]
    /\ Continue
    /\ UNCHANGED dir

\* rewrite_mss_init_from_first_segment: the init segment that was downloaded
\* (and decrypted) first is written again, in place.
RewriteInit(i) ==
    /\ Working(i, "probed")
    /\ dir' = [dir EXCEPT ![0][files[1].path] = "torn"]
    /\ work' = [work EXCEPT ![i].phase = "rewriting"]
    /\ Continue

InitRewritten(i) ==
    /\ Working(i, "rewriting")
    /\ dir' = [dir EXCEPT ![0][files[1].path] = "fetched"]
    /\ work' = [work EXCEPT ![i].phase = "hook"]
    /\ Continue

RewriteFails(i) ==
    /\ Working(i, "probed") \/ Working(i, "rewriting")
    /\ Stop
    /\ UNCHANGED <<dir, work>>

-----------------------------------------------------------------------------
(* The hook of a completed segment: run_external_decrypt_in_place.         *)

\* Nothing to decrypt with, no key, or a tool that cannot be started: the
\* hook succeeds and the file stays as it is.
LeaveAsIs(i) ==
    /\ Working(i, "hook")
    /\ Done(i)
    /\ UNCHANGED dir

\* An error of the hook ends the session when items come one at a time; a
\* concurrent worker returns it and is counted as missing.
HookFails(i) ==
    /\ IF IsStrict \/ Sequential
       THEN Stop /\ UNCHANGED work
       ELSE /\ work' = [work EXCEPT ![i].phase = "missing"]
            /\ Continue

\* mp4decrypt works on files of its own, which nobody finds after a crash;
\* the other tools write the decrypted copy next to the source.
StartTool(i) ==
    /\ Working(i, "hook")
    /\ Engine # "none" /\ (i = 0 => Engine # "other")
    /\ LET p == work[i].path
       IN  IF Engine = "mp4decrypt"
           THEN /\ work' = [work EXCEPT ![i].phase = "decrypting", ![i].aside = dir[i][p]]
                /\ dir' = [dir EXCEPT ![i][p] = "none"]
           ELSE /\ work' = [work EXCEPT ![i].phase = "decrypting"]
                /\ dir' = [dir EXCEPT ![i][DecPath(p)] = "torn"]
    /\ Continue

\* restore_mp4decrypt_temp, and the first half of finalize_mp4decrypt_temp.
Restored(i) == IF Engine = "mp4decrypt"
               THEN [dir EXCEPT ![i][work[i].path] = work[i].aside] ELSE dir

ToolEnds(i) ==
    /\ Working(i, "decrypting")
    /\ LET p == work[i].path
       IN  IF Engine = "mp4decrypt"
           THEN /\ dir' = Restored(i)
                /\ work' = [work EXCEPT ![i].phase = "placing"]
           ELSE /\ dir' = [dir EXCEPT ![i][DecPath(p)] = Decryption(dir[i][p])]
                /\ work' = [work EXCEPT ![i].phase = "removing"]
    /\ Continue

PlaceCopy(i) ==
    /\ Working(i, "placing")
    /\ dir' = [dir EXCEPT ![i][DecPath(work[i].path)] = Decryption(work[i].aside)]
    /\ work' = [work EXCEPT ![i].phase = "removing"]
    /\ Continue

\* Mutant: the tool's exit status is not looked at.
ToolStatusIgnored(i) ==
    /\ Working(i, "decrypting")
    /\ dir' = Restored(i)
    /\ work' = [work EXCEPT ![i].phase = "removing"]
    /\ Continue

\* A tool that fails is logged and the encrypted file is kept; the error of
\* the in-process engine, or of waiting for a tool, is returned.  The error of
\* its command line or of its stderr is returned before anything is restored.
ToolFails(i) ==
    /\ Working(i, "decrypting")
    /\ \/ Engine # "mp4forge" /\ dir' = Restored(i) /\ Done(i)
       \/ dir' \in {Restored(i), dir} /\ HookFails(i)

\* The session's cancellation token stops the tool that is waited for.
ToolCancelled(i) ==
    /\ Working(i, "decrypting")
    /\ Engine \in {"mp4decrypt", "other"}
    /\ dir' = Restored(i)
    /\ Stop
    /\ UNCHANGED work

RemoveSource(i) ==
    /\ Working(i, "removing")
    /\ dir' = [dir EXCEPT ![i][work[i].path] = "none"]
    /\ work' = [work EXCEPT ![i].phase = "renaming"]
    /\ Continue

RenameCopy(i) ==
    /\ Working(i, "renaming")
    /\ LET p == work[i].path
       IN  dir' = [dir EXCEPT ![i][p] = dir[i][DecPath(p)], ![i][DecPath(p)] = "none"]
    /\ Done(i)

\* A file operation of the hook fails.
FileError(i) ==
    /\ \E phase \in {"hook", "placing", "removing", "renaming"} : Working(i, phase)
    /\ Engine # "none"
    /\ HookFails(i)
    /\ UNCHANGED dir

-----------------------------------------------------------------------------
(* The batches and the end.                                                *)

Settled == \A i \in BatchOf(batch) : work[i].phase \in {"done", "mismatch", "missing"}

\* Mutant: the results stay in the order in which the workers ended.
Unsorted(order, s) == \A n \in DOMAIN s : order[n] = n

\* chunk_results.sort_by_key: the order of the results that goes by their index.
Sorts(order, s) == \A m, n \in DOMAIN s : m < n => s[order[m]] <= s[order[n]]

CloseBatch ==
    /\ result = "running"
    /\ BatchOf(batch) # {} /\ Settled
    /\ IF IsStrict /\ arrived = <<>>
       THEN Stop
       ELSE /\ \E order \in Bijection(DOMAIN arrived, DOMAIN arrived) :
                 /\ Sorts(order, arrived)
                 /\ files' = files \o [n \in DOMAIN arrived |->
                                         [item |-> arrived[order[n]],
                                          path |-> work[arrived[order[n]]].path]]
            /\ arrived' = <<>>
            /\ batch' = batch + 1
            /\ UNCHANGED <<result, session>>
    /\ UNCHANGED <<dir, work>>

With(phase) == {i \in Items : work[i].phase = phase}

\* The segment count and the lengths are checked when all is downloaded.
Finish ==
    /\ result = "running"
    /\ BatchOf(batch) = {}
    /\ result' = IF (CheckCount /\ With("missing") # {}) \/ With("mismatch") # {}
                 THEN "failed" ELSE "ok"
    /\ UNCHANGED <<dir, work, batch, arrived, files, session>>

\* The process stops, or another stream's error aborts this one.
Crash ==
    /\ result = "running"
    /\ Stop
    /\ UNCHANGED <<dir, work>>

-----------------------------------------------------------------------------
Hook(i) ==
    \/ LeaveAsIs(i) \/ StartTool(i) \/ ToolEnds(i) \/ PlaceCopy(i)
    \/ ToolFails(i) \/ ToolCancelled(i) \/ RemoveSource(i) \/ RenameCopy(i)
    \/ FileError(i)

Rewrite(i) == RewriteInit(i) \/ InitRewritten(i) \/ RewriteFails(i)

Next ==
    \/ StartSession
    \/ \E i \in Items :
          \/ Look(i) \/ StoreReply(i) \/ AttemptFails(i) \/ StoreFails(i)
          \/ Rewrite(i) \/ Hook(i)
    \/ CloseBatch \/ Finish \/ Crash

Spec == Init /\ [][Next]_vars

\* Servers owe nothing, but every attempt is given up at the latest when the
\* request timeout expires; tools are assumed to terminate.
Fairness ==
    /\ \A i \in Items : WF_vars(Look(i)) /\ WF_vars(AttemptFails(i))
                        /\ WF_vars(Rewrite(i)) /\ WF_vars(Hook(i))
    /\ WF_vars(CloseBatch) /\ WF_vars(Finish)

FairSpec == Spec /\ Fairness

-----------------------------------------------------------------------------
(* Properties.                                                             *)

TypeOK ==
    /\ dir \in [Items -> [Paths -> Contents]]
    /\ work \in [Items -> Worker]
    /\ batch \in Nat \ {0}
    /\ arrived \in Seq(Items)
    /\ files \in Seq([item : Items, path : Paths])
    /\ result \in {"idle", "running", "ok", "failed"}
    /\ session \in 0..MaxSessions

\* The downloader keeps the promise a session relies on: a download that
\* succeeds hands over its files in merge order ("Downloaded files in merge
\* order.", download.rs:134), however the workers of a chunk overtake each
\* other, and all of them when the segment count is checked.
Promise == INSTANCE StreamFetch WITH
    delivered <- [n \in DOMAIN (IF result = "ok" THEN files ELSE <<>>) |-> files[n].item]

KeepsPromise == Promise!Spec

\* What the next session would take for a downloaded segment.
Found(i) == IF dir[i]["main"] # "none" THEN dir[i]["main"] ELSE dir[i]["dec"]

\* The external tools and the in-process engine write a segment's decrypted
\* copy where a session looks for it when the segment itself is not there.
\* Wherever a session stops, also between the removal of the encrypted file
\* and the renaming of the decrypted one, no later session takes a file that
\* a tool had only begun to write for a segment.  (Smooth Streaming rewrites
\* its init segment in place, in every session: it is left out.)
NeverTorn == \A i \in Items : ~(HasInit /\ ForceProbe /\ i = 0) => Found(i) # "torn"

\* The files a successful session hands over exist, and none of them is torn:
\* each worker leaves its segment under the path it reported.
FilesAreThere ==
    result = "ok" =>
        \A n \in DOMAIN files : dir[files[n].item][files[n].path] \notin {"none", "torn"}

\* These files are there and, in a first session, none is shorter than its
\* response announced.  (Such a file keeps its final name, although its session
\* fails, and a later session over the same directory accepts it.  A body that
\* ends early with no length announced is taken for the segment at once.)
FilesAreAsAnnounced ==
    /\ FilesAreThere
    /\ result = "ok" /\ session = 1 =>
         \A n \in DOMAIN files :
             dir[files[n].item][files[n].path] \in {"fetched", "clear", "cut"}

\* A session that was started ends, even if no server ever answers.
SessionEnds == result = "running" ~> result # "running"
=============================================================================
