---------------------------- MODULE MCLiveOutput ----------------------------
(* Small instances of the two live outputs that bypass the merge: a muxer fed   *)
(* through pipes, and a transport stream recorded over HTTP.                    *)
EXTENDS LivePipe

\* Subtitles first and a refresh with one stream only; subtitles between; no
\* media; a batch that ffmpeg cannot interleave.
PipeRecordings ==
  {[kinds |-> <<"sub", "av", "av">>, delete |-> TRUE,
    upto |-> << <<1, 2, 2>>, <<2, 2, 3>>, <<2, 4, 4>> >>],
   [kinds |-> <<"av", "sub", "av">>, delete |-> FALSE,
    upto |-> << <<2, 1, 1>>, <<3, 1, 2>> >>],
   [kinds |-> <<"sub">>, delete |-> TRUE, upto |-> << <<1>> >>],
   [kinds |-> <<"av", "av">>, delete |-> TRUE, upto |-> << <<1, 1>>, <<6, 2>> >>]}

CONSTANTS HttpRecordings, Chunks, Timeout, Limits
VARIABLES part, step, recording, limit, stopped, file, offset, clock, state, service,
          shown, reports, announced

httpVars == <<step, recording, limit, stopped, file, offset, clock, state, service, shown,
              reports, announced>>
Http == INSTANCE HttpLive WITH Recordings <- HttpRecordings

\* Either the one or the other takes steps.
PartInit == part \in {"pipe", "http"} /\ Init /\ Http!Init
            /\ (part = "http" => rec.kinds = <<"sub">>)
PartNext ==
  \/ part = "pipe" /\ Next /\ UNCHANGED part /\ UNCHANGED httpVars
  \/ part = "http" /\ Http!Next /\ UNCHANGED part /\ UNCHANGED vars
PartSpec == /\ PartInit /\ [][PartNext]_<<part, vars, httpVars>>
            /\ WF_vars(part = "pipe" /\ Session /\ UNCHANGED <<part, httpVars>>)
            /\ WF_vars(part = "pipe" /\ MuxWorks /\ UNCHANGED <<part, httpVars>>)
            /\ WF_vars(part = "pipe" /\ (\E k \in Pipes : Write(k))
                       /\ UNCHANGED <<part, httpVars>>)

RecordingIsAhead == Http!RecordingIsAhead
PipeEnds == (part = "pipe" /\ Balanced /\ Probed) ~>
              (pc \in Final \/ mux = "dead" \/ \E k \in Pipes : Eof(k) /\ k > opened)
=============================================================================
