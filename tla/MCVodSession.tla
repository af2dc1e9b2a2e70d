--------------------------- MODULE MCVodSession ---------------------------
(* Small instances of VodSession for TLC. *)
EXTENDS VodSession

\* A clear transport stream of one segment; the others are variations.
Ts == [kind |-> "none", init |-> FALSE, n |-> 1, cipher |-> "none", ext |-> "ts",
       lang |-> "", label |-> "", dolby |-> FALSE, becomes |-> "none",
       large |-> FALSE, image |-> FALSE]
AesTs == [Ts EXCEPT !.n = 3, !.cipher = "aes"]
AesMp4 == [Ts EXCEPT !.kind = "video", !.becomes = "video", !.init = TRUE, !.n = 2,
                     !.cipher = "aes", !.ext = "mp4"]
Video == [Ts EXCEPT !.kind = "video", !.becomes = "video", !.init = TRUE, !.ext = "mp4"]
Audio == [Video EXCEPT !.kind = "audio", !.becomes = "audio", !.lang = "en"]
Cenc(stream) == [stream EXCEPT !.cipher = "cenc"]
Subs == [Ts EXCEPT !.kind = "sub", !.becomes = "sub", !.ext = "vtt", !.lang = "en"]
Images == [Subs EXCEPT !.image = TRUE, !.ext = "mp4"]
Hidden == [Ts EXCEPT !.becomes = "sub"]

VodWords == {"Movie", "x", "en", "hd", "import", "copy", "_dec", "haki-dl-dec", "MUX",
             "mp4", "m4a", "mkv", "ts", "srt", "vtt"}
File(name, ext) == [name |-> name, ext |-> ext]
Plain == [streams |-> <<Ts>>, save |-> <<"Movie">>, old |-> {}, imports |-> {},
          tools |-> {"ffmpeg", "mkvmerge", "mp4decrypt", "shaka", "mp4forge"},
          key |-> FALSE, engine |-> "mp4decrypt", realtime |-> FALSE,
          binary |-> FALSE, mux |-> "none", muxExt |-> "mp4", fallback |-> "none",
          skipSub |-> FALSE, keep |-> FALSE, fix |-> TRUE, delete |-> TRUE,
          skipMerge |-> FALSE, skipDownload |-> FALSE, checkCount |-> TRUE,
          missing |-> 0, delayed |-> FALSE]

\* HLS: AES segments, merged by ffmpeg in groups, some missing; a delayed start.
HlsSetups ==
  { [Plain EXCEPT !.streams = <<AesTs>>, !.delayed = TRUE, !.old = {File(<<"Movie">>, "ts")}],
    [Plain EXCEPT !.streams = <<AesTs>>, !.checkCount = FALSE, !.missing = 3],
    [Plain EXCEPT !.streams = <<AesMp4, Subs>>, !.delete = FALSE,
                  !.old = {File(<<"Movie">>, "mp4"), File(<<"Movie", "en">>, "srt")}],
    [Plain EXCEPT !.streams = <<Ts, Images>>],
    [Plain EXCEPT !.streams = <<Ts, Subs>>, !.skipMerge = TRUE],
    [Plain EXCEPT !.streams = <<[Ts EXCEPT !.n = 0]>>],
    [Plain EXCEPT !.streams = <<Video, Ts>>],
    [Plain EXCEPT !.skipDownload = TRUE, !.streams = <<Ts>>] }
\* DASH: encrypted with every engine, in real time or after the merge.
DashSetups ==
  {[Plain EXCEPT !.streams = <<Cenc(Video)>>, !.key = k, !.engine = e, !.realtime = r] :
     k \in BOOLEAN, e \in {"mp4decrypt", "shaka", "ffmpeg", "mp4forge"}, r \in BOOLEAN}
  \cup { [Plain EXCEPT !.streams = <<[Cenc(Video) EXCEPT !.large = TRUE]>>, !.key = TRUE,
                       !.realtime = TRUE, !.engine = "shaka", !.tools = {"ffmpeg", "shaka"}] }
\* Muxing: three muxers, imports, names with dots, late refusals.
MuxSetups ==
  {[Plain EXCEPT !.streams = <<[Video EXCEPT !.label = "hd"], Audio>>, !.mux = m, !.keep = k,
                 !.muxExt = IF m = "mkvmerge" THEN "mkv" ELSE "mp4",
                 !.save = <<"Movie">> \o x, !.old = {File(<<"Movie">>, "mp4")},
                 !.imports = i] :
     m \in {"ffmpeg", "mkvmerge", "mp4forge"}, k \in BOOLEAN,
     x \in {<<>>, <<"x">>}, i \in {{}, {File(<<"import">>, "srt")}}}
  \cup { [Plain EXCEPT !.streams = <<Video, Subs>>, !.mux = "mp4forge", !.fallback = "ffmpeg"],
         [Plain EXCEPT !.streams = <<Video, Subs>>, !.mux = "mp4forge", !.skipSub = TRUE],
         [Plain EXCEPT !.streams = <<Hidden>>, !.mux = "mp4forge"],
         [Plain EXCEPT !.streams = <<Subs>>, !.mux = "mp4forge", !.skipSub = TRUE],
         [Plain EXCEPT !.streams = <<Cenc(Video)>>, !.mux = "mp4forge"],
         [Plain EXCEPT !.streams = <<Video>>, !.imports = {File(<<"import">>, "srt")}],
         [Plain EXCEPT !.streams = <<[Video EXCEPT !.dolby = TRUE]>>, !.mux = "ffmpeg"] }

\* What the theorems suppose of names holds here.
ASSUME SetupsArePlain == PlainNames

\* The transport stream is merged first, to the path that the other stream has planned.
CollidingSetups == {[Plain EXCEPT !.streams = <<Ts, Video>>]}

VodSetups == HlsSetups \cup DashSetups \cup MuxSetups
=============================================================================
