----------------------------- MODULE VodSession -----------------------------
(* One session of src/session.rs (execute_request) over media that is not live: *)
(* start, source, selection, download, decryption, merge, mux, clean up. The    *)
(* files a session leaves are what later sessions of the same name begin with.  *)
EXTENDS Integers, FiniteSets, SequencesExt

CONSTANTS Words,         \* parts and extensions of file names
          Setups,        \* media and options that are checked
          Sessions,      \* bound: sessions on the same directories
          SourceRetries, \* SOURCE_RETRY_ATTEMPTS
          MergeLimit,    \* 1800: more inputs are combined in groups
          GroupSize      \* 100: inputs of one group

ASSUME SessionAssumption ==
  /\ Sessions \in Nat /\ SourceRetries \in Nat
  /\ MergeLimit \in Nat \ {0} /\ GroupSize \in Nat \ {0}
\* A path: the parts of a file name between its dots, and the extension.
Path == [name : Seq(Words), ext : Words]
\* What the session itself adds to names.
ASSUME WordsAssumption ==
  {"copy", "_dec", "haki-dl-dec", "MUX", "mp4", "m4a", "srt", "vtt"} \subseteq Words
\* Streams are a list; the segments of one are numbered from 1. Names have parts.
ASSUME SetupsAssumption == \A x \in Setups :
  /\ x.streams \in Seq(Range(x.streams))
  /\ \A s \in 1..Len(x.streams) :
       /\ x.streams[s].n \in Nat /\ x.streams[s].init \in BOOLEAN
       /\ {x.streams[s].lang, x.streams[s].label} \subseteq Words \cup {""}
       /\ x.streams[s].ext \in Words
  /\ x.save \in Seq(Words) \ {<<>>} /\ x.muxExt \in Words
  /\ x.old \cup x.imports \subseteq Path /\ IsFiniteSet(x.old \cup x.imports)

VARIABLES
  setup,     \* the member of Setups
  pc,        \* where the session is
  session,   \* sessions begun
  tries,     \* failed loads of the source
  cancelled, \* CancellationToken
  disk,      \* contents of the existing files of the save directory, by path
  temp,      \* temp[s][i]: the file of item i in the temporary directory of s
  parts,     \* parts[s]: what is in the files T0000.ts, T0001.ts ..., or the PNGs there
  opts,      \* options the session itself changes: binary_merge, mux_after_done
  files,     \* files[s]: StreamDownloadResult.files, as items
  out,       \* out[s]: StreamDownloadResult.output_path
  merged,    \* merged_outputs: stream and path
  cur,       \* the stream in work
  pos,       \* files of it that are decrypted, or combined in groups
  target,    \* the file a tool writes
  told       \* paths announced as OutputArtifact

vars == <<setup, pc, session, tries, cancelled, disk, temp, parts, opts, files,
          out, merged, cur, pos, target, told>>

data == <<disk, temp, parts>>
plans == <<opts, files, out>>
works == <<merged, cur, pos, target, told>>

---------------------------------------------------------------------------
(* The content of a file is the set of its tracks, a track the sequence of the  *)
(* pieces in it; a file that a tool did not finish is taken to have none.       *)
Torn == {}

(* Media. A stream has kind, init, n, cipher ("none", "aes", "cenc"), ext,  *)
(* lang, label (what distinguishes it in collisions), dolby, becomes (the    *)
(* kind that probing finds), large (was split) and image (image subtitle).   *)

Streams == 1..Len(setup.streams)
Stream(s) == setup.streams[s]
Items(s) == (IF Stream(s).init THEN 0 ELSE 1)..Stream(s).n
Offset(s) == IF Stream(s).init THEN 1 ELSE 0
Kind(s) == IF pc \in {"starting", "waiting", "loading", "pausing", "loaded",
                      "selected", "downloading"}
           THEN Stream(s).kind ELSE Stream(s).becomes

Put(f, k, v) == [x \in DOMAIN f \cup {k} |-> IF x = k THEN v ELSE f[x]]
Deleted(f, K) == Restrict(f, DOMAIN f \ K)
Move(f, from, to) == Put(Deleted(f, {from}), to, f[from])

\* The state in which an item leaves the server or the real-time decryption.
RealTime(s) == setup.realtime /\ ~Stream(s).large
Arrives(s) == IF \/ Stream(s).cipher = "none"
                 \/ Stream(s).cipher = "cenc" /\ RealTime(s) /\ setup.key
              THEN "clear" ELSE "cipher"

---------------------------------------------------------------------------
(* The paths of outputs.                                                   *)

\* A stream that probing finds to be subtitles changes its extension.
Ext(s) == IF Kind(s) = "sub" /\ Stream(s).ext = "ts" THEN "vtt" ELSE Stream(s).ext
SaveExt(s) == CASE Kind(s) = "sub" -> IF setup.fix THEN "srt" ELSE Ext(s)
                [] Kind(s) = "audio" /\ Ext(s) = "mp4" -> "m4a"
                [] OTHER -> Ext(s)
Planned(s) == [name |-> setup.save \o (IF Stream(s).lang = "" THEN <<>>
                                       ELSE <<Stream(s).lang>>),
               ext |-> SaveExt(s)]
Extended(p, part) == [p EXCEPT !.name = Append(@, part)]
DecPath(p) == Extended(p, "_dec")
AsidePath(p) == [name |-> <<"haki-dl-dec">>, ext |-> p.ext]

\* As many ".copy" as it takes.
WithCopies(p, taken) ==
  LET copy(k) == [p EXCEPT !.name = @ \o [j \in 1..k |-> "copy"]]
  IN copy(CHOOSE k \in 0..Cardinality(taken) :
            copy(k) \notin taken /\ \A j \in 0..(k - 1) : copy(j) \in taken)

\* handle_file_collision_with_reserved
FreeOfPlans(p, s, reserved) == WithCopies(p, reserved)
FreePath(p, s, reserved) ==
  LET taken == reserved \cup DOMAIN disk
      labelled == Extended(p, Stream(s).label)
  IN CASE p \notin taken -> p
       [] p \in taken /\ Stream(s).label # "" /\ labelled \notin taken -> labelled
       [] OTHER -> WithCopies(p, taken)

---------------------------------------------------------------------------
(* What the phases need to know.                                           *)

NeedsTool(s) == Stream(s).cipher = "cenc"
Binary(s) == \/ opts.binary
             \/ Kind(s) = "sub"
             \/ Stream(s).init \/ NeedsTool(s)
             \/ Stream(s).dolby
Subtitled(s) == setup.fix /\ Kind(s) = "sub"
\* merge_input_files: real-time tools other than these two put the init
\* segment into every decrypted segment.
DropsInit(s) == /\ RealTime(s) /\ NeedsTool(s) /\ Stream(s).init
                /\ setup.engine \notin {"mp4decrypt", "mp4forge"}
Inputs(s) == IF DropsInit(s) /\ files[s] # <<>> THEN Tail(files[s]) ELSE files[s]
Piece(s, i) == [stream |-> s, item |-> i, state |-> temp[s][i]]
Pieces(s, q) == [k \in 1..Len(q) |-> Piece(s, q[k])]
Grouped(s) == ~Binary(s) /\ Len(Inputs(s)) >= MergeLimit
MergeInput(s) == IF Grouped(s) THEN parts[s] ELSE Pieces(s, Inputs(s))
Chunk(s) == SubSeq(Inputs(s), pos + 1, IF pos + GroupSize < Len(Inputs(s))
                                       THEN pos + GroupSize ELSE Len(Inputs(s)))

\* ffmpeg_merge_output_path: the extension of the container, and a collision
\* check of its own that knows nothing of the other streams' plans.
MergePath(s) == [out[s] EXCEPT !.ext = IF Kind(s) = "audio" THEN "m4a" ELSE "mp4"]
MergeTarget(s) == FreePath(MergePath(s), s, {})

\* output_files_with_imports: generated outputs, then imports (index 999).
MuxInputs == {m \in ToSet(merged) : ~(setup.skipSub /\ Kind(m.stream) = "sub")}
Imports == setup.imports
MuxPaths == {m.path : m \in MuxInputs} \cup Imports
MuxContent == UNION {disk[p] : p \in MuxPaths \cap DOMAIN disk}
\* mux_output_base is "<save name>.MUX"; mp4forge replaces "MUX" by its extension.
MuxTarget(muxer) == IF muxer = "mp4forge" THEN [name |-> setup.save, ext |-> "mp4"]
                    ELSE [name |-> Append(setup.save, "MUX"), ext |-> setup.muxExt]
\* finalize_mux_output_path: set_extension cuts a name that has dots.
FinalPath(p) == IF Last(p.name) # "MUX" THEN p
                ELSE [p EXCEPT !.name = IF Len(@) > 2 THEN Front(Front(@)) ELSE Front(@)]
Muxes(outputs) == opts.mux # "none" /\ outputs # <<>>
\* mp4forge_support_for_stream, for media whose codecs are named and supported.
Forgeable(s) == Stream(s).kind # "sub" /\ Stream(s).cipher # "cenc"

Final == {"finished", "failed", "cancelled", "refused"}
Running == pc \notin Final \cup {"idle"}
\* The files that no session of this program made.
Foreign == setup.old \cup Imports
UserFile == {<<[stream |-> 0, item |-> 0, state |-> "user"]>>}

---------------------------------------------------------------------------

Init ==
  /\ setup \in Setups
  /\ pc = "idle" /\ session = 0 /\ tries = 0 /\ cancelled = FALSE
  /\ disk = [p \in Foreign |-> UserFile]
  /\ temp = [s \in Streams |-> [i \in Items(s) |-> "none"]]
  /\ parts = [s \in Streams |-> <<>>]
  /\ opts = [binary |-> FALSE, mux |-> "none"]
  /\ files = [s \in Streams |-> <<>>] /\ out = <<>>
  /\ merged = <<>> /\ cur = 0 /\ pos = 0 /\ target = <<>> /\ told = {}

\* validate_source_option_shape
ShapeRefused == \/ Imports # {} /\ setup.mux = "none"
                \/ Imports \ DOMAIN disk # {}
                \/ setup.fallback \notin {"none", "ffmpeg"}
                \/ setup.fallback # "none" /\ setup.mux # "mp4forge"
\* validate_runtime_tools: ffmpeg always, the others for what is asked.
Found(tool) == tool \in setup.tools
ToolsMissing == \/ ~Found("ffmpeg")
                \/ setup.mux = "mkvmerge" /\ ~Found("mkvmerge")
                \/ setup.key /\ ~Found(setup.engine)

\* normalize_session_options: muxing needs binary merge.
Normalized == [binary |-> setup.binary \/ setup.mux # "none", mux |-> setup.mux]

Begin ==
  /\ pc \in Final \cup {"idle"} /\ session < Sessions
  /\ session' = session + 1 /\ tries' = 0 /\ cancelled' = FALSE
  /\ opts' = Normalized
  /\ files' = [s \in Streams |-> <<>>] /\ out' = <<>>
  /\ merged' = <<>> /\ cur' = 0 /\ pos' = 0 /\ target' = <<>> /\ told' = {}
  /\ pc' = IF ShapeRefused \/ ToolsMissing THEN "refused"
           ELSE IF setup.delayed THEN "waiting" ELSE "loading"
  /\ UNCHANGED <<setup, data>>

Goto(next) == pc' = next /\ UNCHANGED <<setup, session, tries, cancelled, data, plans, works>>

Cancel == /\ Running /\ ~cancelled /\ cancelled' = TRUE
          /\ UNCHANGED <<setup, pc, session, tries, data, plans, works>>

\* wait_for_task_start looks at the token every second.
Wait == pc = "waiting" /\ ~cancelled /\ Goto("loading")

\* The places where a session looks at its token without a tool running.
\* Merge, mux and clean up look only while they wait for a tool.
Checks == {"waiting", "pausing", "loaded", "selected", "probed"}
NoticeCancel == pc \in Checks /\ cancelled /\ Goto("cancelled")

\* load_source_with_retry
LoadSource == pc = "loading" /\ Goto("loaded")
LoadFails ==
  /\ pc = "loading"
  /\ \/ Goto("failed")
     \/ /\ tries' = tries + 1 /\ pc' = "pausing"
        /\ UNCHANGED <<setup, session, cancelled, data, plans, works>>
Pause == pc = "pausing" /\ ~cancelled
         /\ Goto(IF tries >= SourceRetries THEN "failed" ELSE "loading")

\* validate_mp4forge_decrypt_before_download, validate_explicit_mp4forge_...
RefusedBeforeDownload ==
  \/ setup.key /\ setup.engine = "mp4forge"
     /\ \E s \in Streams : NeedsTool(s) /\ (Stream(s).kind = "sub" \/ Stream(s).ext # "mp4")
  \/ /\ setup.mux = "mp4forge"
     /\ \/ setup.muxExt # "mp4"
        \/ setup.fallback = "none"
           /\ \E s \in Streams : ~Forgeable(s) /\ ~(setup.skipSub /\ Stream(s).kind = "sub")

Select == /\ pc = "loaded" /\ ~cancelled
          /\ Goto(IF setup.streams = <<>> \/ RefusedBeforeDownload THEN "refused"
                  ELSE "selected")

SkipDownload == pc = "selected" /\ ~cancelled /\ setup.skipDownload /\ Goto("finished")
GoDownload == pc = "selected" /\ ~cancelled /\ ~setup.skipDownload /\ Goto("downloading")

\* StreamFetch: files in merge order, all of them with check_segments_count, and the
\* first item always. A file that exists is taken as it is.
Fetched(got) == [s \in Streams |-> [i \in Items(s) |->
                   IF i \in Range(got[s]) /\ temp[s][i] = "none" THEN Arrives(s) ELSE temp[s][i]]]
InOrder(s) == {q \in UNION {[1..k -> Items(s)] : k \in 0..Cardinality(Items(s))} :
                 \A j, k \in DOMAIN q : j < k => q[j] < q[k]}
Gots == {got \in [Streams -> UNION {InOrder(s) : s \in Streams}] :
           \A s \in Streams : /\ got[s] \in InOrder(s)
                              /\ Items(s) # {} => got[s] # <<>> /\ got[s][1] = 1 - Offset(s)
                              /\ {i \in Items(s) : temp[s][i] # "none"} \subseteq Range(got[s])}
Download ==
  /\ pc = "downloading"
  /\ \E got \in Gots :
       /\ \A s \in Streams : setup.checkCount => Range(got[s]) = Items(s)
       /\ \A s \in Streams : Cardinality(Items(s) \ Range(got[s])) <= setup.missing
       /\ temp' = Fetched(got)
       /\ files' = got
  /\ pc' = "probing"
  /\ UNCHANGED <<setup, session, tries, cancelled, disk, parts, opts, out, works>>
DownloadFails ==
  /\ pc = "downloading"
  /\ \E s \in Streams : temp' = [temp EXCEPT ![s] = [i \in Items(s) |->
                                   IF @[i] = "none" THEN Arrives(s) ELSE @[i]]]
  /\ pc' = "failed"
  /\ UNCHANGED <<setup, session, tries, cancelled, disk, parts, plans, works>>

\* apply_media_info_decisions: kinds, Dolby Vision, output paths.
AnyDolby == \E s \in Streams : Stream(s).dolby
Probe ==
  /\ pc = "probing" /\ pc' = "reserving"
  /\ opts' = [binary |-> opts.binary \/ AnyDolby,
              mux |-> IF AnyDolby THEN "none" ELSE opts.mux]
  /\ UNCHANGED <<setup, session, tries, cancelled, data, files, out, works>>
\* reserve_unique_output_paths, in the order of the streams.
Reserve ==
  /\ pc = "reserving"
  /\ LET s == Len(out) + 1
     IN /\ out' = Append(out, FreePath(FreePath(Planned(s), s, {}), s, ToSet(out)))
        /\ pc' = IF s = Len(setup.streams) THEN "probed" ELSE "reserving"
  /\ UNCHANGED <<setup, session, tries, cancelled, data, opts, files, works>>

\* finalize_downloads, stream after stream.
Finalize == /\ pc = "probed" /\ ~cancelled
            /\ pc' = "decrypting" /\ cur' = 1 /\ pos' = 0
            /\ UNCHANGED <<setup, session, tries, cancelled, data, plans, merged, target, told>>

AfterDecrypt ==
  CASE setup.skipMerge -> "skipping"
    [] ~setup.skipMerge /\ Subtitled(cur) -> "subtitling"
    [] ~setup.skipMerge /\ ~Subtitled(cur) /\ Grouped(cur) -> "grouping"
    [] OTHER -> "merging"

\* decrypt_stream_files: the k-th file after the init segment is decrypted with
\* the key and IV of the k-th segment of the playlist, whichever it holds.
FilesFromFirst(s) == IF Stream(s).cipher # "aes" THEN <<>> ELSE files[s]
FilesToDecrypt(s) ==
  IF Stream(s).cipher # "aes" THEN <<>>
  ELSE SubSeq(files[s], Offset(s) + 1, Len(files[s]))
Decrypted(state, i, segment) ==
  CASE state = "torn" -> "torn"
    [] state = "cipher" /\ i = segment -> "clear"
    [] OTHER -> "bad"

DecryptSegment ==
  /\ pc = "decrypting" /\ pos < Len(FilesToDecrypt(cur))
  /\ LET i == FilesToDecrypt(cur)[pos + 1] IN
       temp' = [temp EXCEPT ![cur][i] = Decrypted(@, i, pos + 1)]
  /\ pos' = pos + 1
  /\ UNCHANGED <<setup, pc, session, tries, cancelled, disk, parts, plans,
                 merged, cur, target, told>>
\* decrypt_hls_segment_file writes over the only copy (tokio::fs::write truncates it
\* first): a crash or an error there leaves a part of the file, and later sessions
\* take it as they find it.
DecryptTears ==
  /\ pc = "decrypting" /\ pos < Len(FilesToDecrypt(cur))
  /\ LET i == FilesToDecrypt(cur)[pos + 1] IN temp' = [temp EXCEPT ![cur][i] = "torn"]
  /\ pc' = "failed"
  /\ UNCHANGED <<setup, session, tries, cancelled, disk, parts, plans, works>>
DecryptionDone ==
  /\ pc = "decrypting" /\ pos = Len(FilesToDecrypt(cur))
  /\ pc' = AfterDecrypt /\ pos' = 0
  /\ UNCHANGED <<setup, session, tries, cancelled, data, plans, merged, cur, target, told>>

NextStream(outputs) ==
              IF cur < Len(setup.streams)
              THEN pc' = "decrypting" /\ cur' = cur + 1 /\ pos' = 0
              ELSE pc' = (IF Muxes(outputs) THEN "muxing" ELSE "clearing")
                   /\ cur' = cur /\ pos' = 0

SkipMerge == /\ pc = "skipping" /\ NextStream(merged)
             /\ UNCHANGED <<setup, session, tries, cancelled, data, plans, merged, target, told>>

\* write_subtitle_output_if_needed. Image subtitles become PNGs, the segment
\* files are deleted, then the output that refers to the PNGs is written.
SavePngs ==
  /\ pc = "subtitling" /\ Stream(cur).image /\ pc' = "imaging"
  /\ parts' = [parts EXCEPT ![cur] = Pieces(cur, files[cur])]
  /\ UNCHANGED <<setup, session, tries, cancelled, disk, temp, plans, works>>
DropImageSegments ==
  /\ pc = "imaging" /\ pc' = "writing"
  /\ temp' = [temp EXCEPT ![cur] = [i \in Items(cur) |-> "none"]]
  /\ UNCHANGED <<setup, session, tries, cancelled, disk, parts, plans, works>>
References(q) == [k \in 1..Len(q) |-> [q[k] EXCEPT !.state = "reference"]]
WriteSubtitle ==
  /\ \/ pc = "subtitling" /\ ~Stream(cur).image
     \/ pc = "writing"
  /\ disk' = Put(disk, out[cur], {IF pc = "writing" THEN References(parts[cur])
                                  ELSE Pieces(cur, files[cur])})
  /\ target' = out[cur] /\ pc' = "closing"
  /\ UNCHANGED <<setup, session, tries, cancelled, temp, parts, plans,
                 merged, cur, pos, told>>

\* partial_combine_files, then combine_files or the ffmpeg merge.
CombineFirstGroup ==
  /\ pc = "grouping" /\ pos < Len(Inputs(cur))
  /\ parts' = [parts EXCEPT ![cur] = Pieces(cur, Chunk(cur))]
  /\ pc' = "dropping"
  /\ UNCHANGED <<setup, session, tries, cancelled, disk, temp, plans, works>>
CombineGroup ==
  /\ pc = "grouping" /\ pos < Len(Inputs(cur))
  /\ parts' = [parts EXCEPT ![cur] = SubSeq(@, 1, pos) \o Pieces(cur, Chunk(cur))]
  /\ pc' = "dropping"
  /\ UNCHANGED <<setup, session, tries, cancelled, disk, temp, plans, works>>
DropGrouped ==
  /\ pc = "dropping" /\ pc' = "grouping"
  /\ temp' = [temp EXCEPT ![cur] = [i \in Items(cur) |->
                IF i \in ToSet(Chunk(cur)) THEN "none" ELSE @[i]]]
  /\ pos' = pos + GroupSize
  /\ UNCHANGED <<setup, session, tries, cancelled, disk, parts, plans,
                 merged, cur, target, told>>
GroupsDone == pc = "grouping" /\ pos >= Len(Inputs(cur)) /\ Goto("merging")

BinaryMerge ==
  /\ pc = "merging" /\ Binary(cur)
  /\ disk' = IF Inputs(cur) = <<>> THEN disk ELSE Put(disk, out[cur], {MergeInput(cur)})
  /\ target' = out[cur] /\ pc' = "deciphering"
  /\ UNCHANGED <<setup, session, tries, cancelled, temp, parts, plans,
                 merged, cur, pos, told>>

\* The output is written in place (tokio::fs::write, combine_files): a session that ends
\* there leaves a part of it.
WriteTears ==
  /\ \/ pc = "subtitling" /\ ~Stream(cur).image
     \/ pc = "writing"
     \/ pc = "merging" /\ Binary(cur) /\ Inputs(cur) # <<>>
  /\ pc' = "failed" /\ disk' = Put(disk, out[cur], Torn)
  /\ UNCHANGED <<setup, session, tries, cancelled, temp, parts, plans, works>>

\* run_mux_command_plan: ffmpeg writes (-y) over what it finds.
StartMerge ==
  /\ pc = "merging" /\ ~Binary(cur) /\ Inputs(cur) # <<>>
  /\ target' = MergeTarget(cur) /\ pc' = "ffmpeg merging"
  /\ UNCHANGED <<setup, session, tries, cancelled, data, plans, merged, cur, pos, told>>
NothingToMerge == /\ pc = "merging" /\ ~Binary(cur) /\ Inputs(cur) = <<>> /\ Goto("failed")
MergeEnds ==
  /\ pc = "ffmpeg merging"
  /\ disk' = Put(disk, target, {MergeInput(cur)}) /\ pc' = "deciphering"
  /\ UNCHANGED <<setup, session, tries, cancelled, temp, parts, plans, works>>
\* wait_child_with_cancellation kills the tool: what it wrote is not whole.
MergeCancelled ==
  /\ pc = "ffmpeg merging" /\ cancelled
  /\ pc' = "cancelled" /\ disk' = Put(disk, target, Torn)
  /\ UNCHANGED <<setup, session, tries, cancelled, temp, parts, plans, works>>
ToolCancelled ==
  /\ pc \in {"ffmpeg merging", "tool muxing"} /\ cancelled
  /\ pc' = "cancelled" /\ disk' = Put(disk, target, Torn)
  /\ UNCHANGED <<setup, session, tries, cancelled, temp, parts, plans, works>>
ToolFails ==
  /\ pc \in {"ffmpeg merging", "tool muxing"}
  /\ pc' = "failed" /\ \E made \in {disk, Put(disk, target, Torn)} : disk' = made
  /\ UNCHANGED <<setup, session, tries, cancelled, temp, parts, plans, works>>

---------------------------------------------------------------------------
(* external_decrypt_if_needed, run_external_decrypt_in_place               *)

Clear(content) ==
  {[k \in 1..Len(q) |-> IF q[k].stream = cur /\ q[k].state = "cipher"
                        THEN [q[k] EXCEPT !.state = "clear"] ELSE q[k]] : q \in content}

\* Nothing to do, or no key: a warning, and the file stays as it is.
LeaveEncrypted ==
  /\ pc = "deciphering" /\ (~NeedsTool(cur) \/ RealTime(cur) \/ ~setup.key)
  /\ Goto("closing")
\* prepare_mp4decrypt_temp_paths: the source is moved aside for mp4decrypt.
StartDecrypt ==
  /\ pc = "deciphering" /\ NeedsTool(cur) /\ ~RealTime(cur) /\ setup.key
  /\ target \in DOMAIN disk
  /\ disk' = IF setup.engine = "mp4decrypt" THEN Move(disk, target, AsidePath(target)) ELSE disk
  /\ pc' = "decrypt tool"
  /\ UNCHANGED <<setup, session, tries, cancelled, temp, parts, plans, works>>
Restored == IF setup.engine = "mp4decrypt" THEN Move(disk, AsidePath(target), target) ELSE disk
DecryptEnds ==
  /\ pc = "decrypt tool"
  /\ setup.engine = "ffmpeg" => DecPath(target) \notin DOMAIN disk
  /\ disk' = Put(Restored, DecPath(target), Clear(Restored[target]))
  /\ pc' = "removing"
  /\ UNCHANGED <<setup, session, tries, cancelled, temp, parts, plans, works>>
\* A tool that fails or is killed may leave a part of its output; that of mp4decrypt
\* is removed, and ffmpeg does not write over a file.
Aborted(made) ==
  \/ made = Restored
  \/ /\ setup.engine # "mp4decrypt"
     /\ setup.engine = "ffmpeg" => DecPath(target) \notin DOMAIN disk
     /\ made = Put(disk, DecPath(target), Torn)
\* A tool that fails is logged; the session goes on with the encrypted file.
\* mp4forge works in the process and its error ends the session.
DecryptFails ==
  /\ pc = "decrypt tool"
  /\ Aborted(disk') /\ pc' = IF setup.engine = "mp4forge" THEN "failed" ELSE "closing"
  /\ UNCHANGED <<setup, session, tries, cancelled, temp, parts, plans, works>>
DecryptCancelled ==
  /\ pc = "decrypt tool" /\ cancelled /\ setup.engine # "mp4forge"
  /\ Aborted(disk') /\ pc' = "cancelled"
  /\ UNCHANGED <<setup, session, tries, cancelled, temp, parts, plans, works>>
RemoveSource ==
  /\ pc = "removing" /\ pc' = "renaming" /\ disk' = Deleted(disk, {target})
  /\ UNCHANGED <<setup, session, tries, cancelled, temp, parts, plans, works>>
RenameDecrypted ==
  /\ pc = "renaming" /\ pc' = "closing" /\ disk' = Move(disk, DecPath(target), target)
  /\ UNCHANGED <<setup, session, tries, cancelled, temp, parts, plans, works>>

\* The output is announced; the temporary directory of the stream goes, unless
\* it holds the PNGs of an image subtitle.
CloseStream ==
  /\ pc = "closing"
  /\ merged' = Append(merged, [stream |-> cur, path |-> target])
  /\ told' = told \cup {target}
  /\ IF setup.delete /\ ~(Subtitled(cur) /\ Stream(cur).image)
     THEN temp' = [temp EXCEPT ![cur] = [i \in Items(cur) |-> "none"]]
          /\ parts' = [parts EXCEPT ![cur] = <<>>]
     ELSE UNCHANGED <<temp, parts>>
  /\ NextStream(merged')
  /\ UNCHANGED <<setup, session, tries, cancelled, disk, plans, target>>

---------------------------------------------------------------------------
(* run_mux_after_done                                                      *)

\* validate_mp4forge_mux_after_done, after everything was downloaded.
MuxRefused == \/ MuxPaths = {}
              \/ /\ opts.mux = "mp4forge" /\ setup.fallback = "none"
                 /\ \E m \in MuxInputs : Kind(m.stream) = "sub"
StartMux ==
  /\ pc = "muxing"
  /\ target' = MuxTarget(opts.mux)
  /\ pc' = IF MuxRefused THEN "refused"
           ELSE IF opts.mux = "mp4forge" THEN "forging" ELSE "tool muxing"
  /\ UNCHANGED <<setup, session, tries, cancelled, data, plans, merged, cur, pos, told>>
Forge ==
  /\ pc = "forging" /\ pc' = "sweeping" /\ disk' = Put(disk, target, MuxContent)
  /\ UNCHANGED <<setup, session, tries, cancelled, temp, parts, plans, works>>
ForgeFails ==
  /\ pc = "forging"
  /\ target' = MuxTarget("ffmpeg")
  /\ pc' = IF setup.fallback = "none" THEN "failed" ELSE "tool muxing"
  /\ UNCHANGED <<setup, session, tries, cancelled, data, plans, merged, cur, pos, told>>
MuxEnds ==
  /\ pc = "tool muxing" /\ pc' = "sweeping" /\ disk' = Put(disk, target, MuxContent)
  /\ UNCHANGED <<setup, session, tries, cancelled, temp, parts, plans, works>>
\* cleanup_mux_inputs: every input, the imported ones too, but not the output.
Sweep ==
  /\ pc = "sweeping" /\ pc' = "naming"
  /\ disk' = IF setup.keep THEN disk ELSE Deleted(disk, MuxPaths \ {target})
  /\ UNCHANGED <<setup, session, tries, cancelled, temp, parts, plans, works>>
AnnounceMux ==
  /\ pc = "naming" /\ pc' = "clearing"
  /\ disk' = IF FinalPath(target) \in DOMAIN disk THEN disk
             ELSE Move(disk, target, FinalPath(target))
  /\ told' = told \cup {target}
  /\ UNCHANGED <<setup, session, tries, cancelled, temp, parts, plans,
                 merged, cur, pos, target>>
NameOutput ==
  /\ pc = "naming" /\ pc' = "clearing"
  /\ LET final == FinalPath(target)
         there == IF final \in DOMAIN disk THEN target ELSE final
     IN /\ disk' = IF there = target THEN disk ELSE Move(disk, target, there)
        /\ target' = there /\ told' = told \cup {there}
  /\ UNCHANGED <<setup, session, tries, cancelled, temp, parts, plans, merged, cur, pos>>

\* should_cleanup_task_temp_root, cleanup_task_temp_root: all of it.
ClearTemp ==
  /\ pc = "clearing" /\ pc' = "finished"
  /\ IF setup.delete /\ ~setup.skipMerge
     THEN temp' = [s \in Streams |-> [i \in Items(s) |-> "none"]]
          /\ parts' = [s \in Streams |-> <<>>]
     ELSE UNCHANGED <<temp, parts>>
  /\ UNCHANGED <<setup, session, tries, cancelled, disk, plans, works>>

\* An I/O error ends a session anywhere, a crash the program: nothing is put back.
Crash == Running /\ Goto("failed")

ToolEnds == MergeEnds \/ ToolFails \/ DecryptEnds \/ DecryptFails \/ MuxEnds
Steps ==
  \/ Wait \/ NoticeCancel \/ LoadSource \/ LoadFails \/ Pause \/ Select
  \/ SkipDownload \/ GoDownload \/ Download \/ DownloadFails \/ Probe \/ Reserve \/ Finalize
  \/ DecryptSegment \/ DecryptionDone \/ SkipMerge
  \/ SavePngs \/ DropImageSegments \/ WriteSubtitle
  \/ CombineGroup \/ DropGrouped \/ GroupsDone \/ BinaryMerge \/ StartMerge
  \/ NothingToMerge \/ ToolCancelled
  \/ LeaveEncrypted \/ StartDecrypt \/ DecryptCancelled \/ RemoveSource \/ RenameDecrypted
  \/ CloseStream \/ StartMux \/ Forge \/ ForgeFails \/ Sweep \/ NameOutput \/ ClearTemp
Next == Begin \/ Cancel \/ Steps \/ ToolEnds \/ DecryptTears \/ WriteTears \/ Crash

\* Where a session may wait for the output of a probe (ffmpeg for the first files and
\* after the download, Shaka for a key ID), which nothing cancels or times out.
Probing == \/ pc \in {"downloading", "probing"}
           \/ pc = "deciphering" /\ NeedsTool(cur) /\ setup.engine = "shaka"

\* The session's task is scheduled; a tool or a probe may run for ever, but one that
\* runs in the process (mp4forge) ends.
Spec == Init /\ [][Next]_vars /\ WF_vars(~Probing /\ Steps)
        /\ WF_vars(setup.engine = "mp4forge" /\ (DecryptEnds \/ DecryptFails))

---------------------------------------------------------------------------
(* Properties                                                              *)

PieceType == [stream : 0..Len(setup.streams), item : Nat,
              state : {"cipher", "clear", "bad", "torn", "reference", "user"}]

TypeOK ==
  /\ setup \in Setups /\ session \in 0..Sessions /\ cancelled \in BOOLEAN
  /\ tries \in 0..SourceRetries
  /\ DOMAIN disk \subseteq Path /\ \A p \in DOMAIN disk : disk[p] \subseteq Seq(PieceType)
  /\ \A s \in Streams : /\ temp[s] \in [Items(s) -> {"none", "cipher", "clear", "bad", "torn"}]
                        /\ parts[s] \in Seq(PieceType)
                        /\ files[s] \in Seq(Items(s))
  /\ out \in Seq(Path) /\ cur \in 0..Len(setup.streams) /\ pos \in Nat
  /\ told \subseteq Path

\* What the proofs suppose, because the code does not see to it. No name has a part
\* that the session uses for files it works on.
Working == {"MUX", "_dec", "haki-dl-dec"}
PlainName(name) == Range(name) \cap Working = {}
PlainNames == \A x \in Setups :
  /\ PlainName(x.save) /\ \A p \in x.old \cup x.imports : PlainName(p.name)
  /\ \A s \in 1..Len(x.streams) : {x.streams[s].lang, x.streams[s].label} \cap Working = {}
\* And no tool writes to the path of another stream: the ffmpeg merge looks for a path
\* that no file has, not for one that no other stream is to have (see OutputsDiffer),
\* and mp4forge's output may have the name of subtitles that are left out of the mux.
OutputsApart ==
  /\ pc = "ffmpeg merging" => \A s \in Streams \ {cur} : target # out[s]
  /\ pc = "forging" => \A m \in ToSet(merged) \ MuxInputs : target # m.path

\* handle_file_collision "returns a collision-free output path": the streams of a
\* session have outputs of their own.
OutputsDiffer ==
  \A j, k \in DOMAIN merged : j # k => merged[j].path # merged[k].path

\* A session was interrupted before, or just now.
Interrupted == session > 1 \/ pc = "failed"

\* Is the item there, and not only referred to?
Holds(track, s, i) == \E k \in DOMAIN track :
  track[k].stream = s /\ track[k].item = i /\ track[k].state \notin {"none", "reference"}
Held(s, i) == \/ /\ s \in Streams
                 /\ temp[s][i] # "none" \/ Holds(parts[s], s, i)
              \/ \E p \in DOMAIN disk : \E q \in disk[p] : Holds(q, s, i)

\* Whatever was downloaded is kept: at every moment of the session that got it,
\* and after its failure, each item of finalize_downloads is in its temporary
\* file, in a group or in an output; what a mux input held, imported files
\* included, is in the file or in the mux output. Each deletion comes after the
\* write that makes it harmless. There are two exceptions. The PNGs of image subtitles
\* go, since cleanup_task_temp_root deletes the directory that was retained for them.
\* And an AES segment that is rewritten in place when a session is interrupted may be
\* kept as a torn file only (decrypt.rs:163); but no file is torn in a first session
\* that has not failed.
ContentKept ==
  /\ \A s \in Streams : \A k \in DOMAIN files[s] :
       \/ Held(s, files[s][k])
       \/ DropsInit(s) /\ files[s][k] = 0
       \/ Stream(s).image /\ pc = "finished"
  /\ Imports # {} => Held(0, 0)
  /\ Interrupted \/ \A s \in Streams : \A i \in Items(s) : temp[s][i] # "torn"

\* What the output of a stream is made of, and that a track is made of it.
Wanted(s) == IF Subtitled(s) THEN files[s] ELSE Inputs(s)
IsTrack(q, s) == /\ Len(q) = Len(Wanted(s))
                 /\ \A k \in 1..Len(q) : q[k].stream = s /\ q[k].item = Wanted(s)[k]
\* A finished session announced (OutputArtifact) a file for every stream that
\* still exists and holds all files of the stream, in order: merging, muxing,
\* sweeping of mux inputs and renaming lose or reorder nothing.
FinishedIsWhole ==
  pc = "finished" /\ ~setup.skipDownload /\ ~setup.skipMerge =>
    \A s \in Streams : Wanted(s) # <<>> =>
      \E p \in told \cap DOMAIN disk : \E q \in disk[p] : IsTrack(q, s)

\* In the first session on a directory no item of a stream that was downloaded
\* completely is decrypted twice, or with the key of another segment.
DecryptedOnce ==
  session = 1 => \A s \in Streams :
    Len(files[s]) = Cardinality(Items(s)) => \A i \in Items(s) : temp[s][i] # "bad"

\* Files that were there before are not changed by merges, decryption or
\* collisions of names; only a mux writes over what has the name of its output.
ForeignKept ==
  [][\A p \in setup.old \ Imports :
       \/ p = target /\ pc \in {"forging", "tool muxing"}
       \/ p \notin DOMAIN disk
       \/ p \in DOMAIN disk' /\ disk'[p] = disk[p]]_disk

\* A cancelled session ends, although a tool it waits for may run for ever; only a probe
\* that does not end can hold it (media_info.rs:36-44, session.rs:5829-5846).
CancelNoticed == cancelled ~> pc \in Final \/ Probing
=============================================================================
