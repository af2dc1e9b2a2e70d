------------------------------ MODULE HttpLive ------------------------------
(* The recording of an HTTP transport stream straight into its output file:    *)
(* execute_http_live_ts and record_http_live_ts_to_file of src/session.rs.     *)
(* A chunk stands for any number of bytes, a second for the time that matters. *)
EXTENDS Integers, SequencesExt

CONSTANTS Recordings, \* bound: recordings into the same file
          Chunks,     \* bound: chunks the server sends in one of them
          Timeout,    \* the client's timeout for the whole response: 100 s
          Limits      \* values of live_record_limit in seconds; 0 is none

VARIABLES
  step,      \* where the recording is
  recording, \* recordings begun
  limit,     \* live_record_limit of the recording
  stopped,   \* CancellationToken
  file,      \* the output file: chunks as <<recording, number>>
  offset,    \* chunks this recording has written
  clock,     \* seconds since the recording was started
  state,     \* HttpLiveTsState: size, duration, stop
  service,   \* the chunk whose data completed the service information, or 0
  shown,     \* last_progress and last_progress_bytes
  reports,   \* AggregateProgress: bytes and bytes per second
  announced  \* recordings with an OutputArtifact

vars == <<step, recording, limit, stopped, file, offset, clock, state, service, shown,
          reports, announced>>
report == <<shown, reports>>

Ended == {"idle", "skipped", "finished", "failed", "cancelled"}
NewState == [size |-> 0, duration |-> 0, stop |-> FALSE]

Init ==
  /\ step = "idle" /\ recording = 0 /\ limit = 0 /\ stopped = FALSE /\ file = <<>> /\ offset = 0
  /\ clock = 0 /\ state = NewState /\ service = 0 /\ announced = {}
  /\ shown = [at |-> 0, bytes |-> 0] /\ reports = <<>>

\* execute_http_live_ts up to the request; skip_download ends it there.
Begin ==
  /\ step \in Ended /\ recording < Recordings
  /\ recording' = recording + 1 /\ stopped' = FALSE
  /\ \/ step' = "requesting" /\ limit' \in Limits
     \/ step' = "skipped" /\ limit' = 0
  /\ offset' = 0 /\ clock' = 0 /\ state' = NewState /\ service' = 0
  /\ shown' = [at |-> 0, bytes |-> 0] /\ reports' = <<>>
  /\ UNCHANGED <<file, announced>>

Cancel == /\ step \notin Ended /\ ~stopped /\ stopped' = TRUE
          /\ UNCHANGED <<step, recording, limit, file, offset, clock, state, service, report, announced>>
Tick == /\ step = "reading" /\ clock < Timeout /\ clock' = clock + 1
        /\ UNCHANGED <<step, recording, limit, stopped, file, offset, state, service, report, announced>>

Goto(next) == /\ step' = next
              /\ UNCHANGED <<recording, limit, stopped, file, offset, clock, state, service,
                             report, announced>>

\* The token is looked at before the request and before each chunk.
NoticeCancel == step \in {"requesting", "checking"} /\ stopped /\ Goto("cancelled")
\* The answer: a status outside 2xx fails; the file is opened without truncation.
Respond == step = "requesting" /\ ~stopped /\ Goto("checking")
Refused == step = "requesting" /\ ~stopped /\ Goto("failed")
Continue == step = "checking" /\ ~stopped /\ Goto("reading")

\* Chunk k goes where the file's offset is, over what an older recording left.
WrittenAfter(f, c) == Append(f, c)
Written(f, c) == IF offset < Len(f) THEN [f EXCEPT ![offset + 1] = c] ELSE Append(f, c)

\* update_http_live_ts_state
Updated(s) ==
  [size |-> s.size + 1, duration |-> clock, stop |-> s.stop \/ (limit # 0 /\ clock >= limit)]

\* emit_http_live_progress, once a second and at the end.
Speed(s, force) ==
  LET secs == IF clock - shown.at > 1 THEN clock - shown.at ELSE 1
  IN IF force /\ shown.bytes = 0 /\ s.duration = 0 THEN 0
     ELSE (s.size - shown.bytes) \div secs
Size(s, force) == IF force /\ shown.bytes = 0 /\ s.duration = 0 THEN 0 ELSE s.size
Emit(s, force) ==
  IF ~force /\ clock - shown.at < 1 THEN UNCHANGED report
  ELSE /\ reports' = Append(reports, [bytes |-> Size(s, force), speed |-> Speed(s, force),
                                      secs |-> clock - shown.at])
       /\ shown' = [at |-> clock, bytes |-> s.size]

\* parse_http_live_ts_service_info: sought in the first 188 * 5000 bytes until a
\* program and a name are found.
ServiceAfter(k) == IF service = 0 THEN {0, k} ELSE {service}
Receive ==
  /\ step = "reading" /\ clock < Timeout /\ offset < Chunks
  /\ file' = Written(file, <<recording, offset + 1>>)
  /\ offset' = offset + 1
  /\ service' \in ServiceAfter(offset + 1)
  /\ state' = Updated(state)
  /\ Emit(state', FALSE)
  /\ step' = IF state'.stop THEN "closing" ELSE "checking"
  /\ UNCHANGED <<recording, limit, stopped, clock, announced>>
ServerEnds == step = "reading" /\ clock < Timeout /\ Goto("closing")
\* A read fails: the connection breaks, or the timeout of the client is over,
\* however long the recording was to last.
ReadFails == step = "reading" /\ Goto("failed")

Close ==
  /\ step = "closing" /\ step' = "finished"
  /\ Emit(state, TRUE) /\ announced' = announced \cup {recording}
  /\ UNCHANGED <<recording, limit, stopped, file, offset, clock, state, service>>

Steps == NoticeCancel \/ Respond \/ Continue \/ Receive \/ Close
Next == Begin \/ Cancel \/ Steps \/ Refused \/ ServerEnds \/ ReadFails \/ Tick
Spec == Init /\ [][Next]_vars

---------------------------------------------------------------------------
(* Properties                                                              *)

\* The file begins with what this recording received, in order and without a
\* gap; after it comes what an older and longer recording had there, and the
\* counters are about the former only.
RecordingIsAhead ==
  step \notin Ended \/ step = "finished" =>
    /\ offset <= Len(file)
    /\ \A k \in 1..Len(file) : k <= offset <=> file[k][1] = recording
    /\ \A k \in 1..offset : file[k][2] = k
    /\ state.size = offset
=============================================================================
