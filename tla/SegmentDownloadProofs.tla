----------------------- MODULE SegmentDownloadProofs -----------------------
(***************************************************************************)
(* Proofs about the downloader of one stream, for any number of segments,  *)
(* workers, retries and sessions:                                          *)
(*  - no session takes a file that a tool had only begun to write for a    *)
(*    segment, wherever the sessions before it stopped (TornNever);        *)
(*  - what is delivered is in merge order and, if counted, complete: the   *)
(*    downloader implements StreamFetch (PromiseIsKept);                   *)
(*  - the files handed over are there (FilesHandedOver) and, in a first    *)
(*    session, as long as announced (FirstFilesAnnounced).                 *)
(*                                                                         *)
(* NeverTorn is not inductive: a torn decrypted copy is harmless only as   *)
(* long as the encrypted file is there, which depends on how far the       *)
(* worker of the segment has come.  Copies is what holds between sessions, *)
(* Progress what holds of each phase of a worker while a session runs.     *)
(* The other three rest on OrderInv, which ties the batch and the results  *)
(* so far to the items that are fetched in that order.                     *)
(***************************************************************************)
EXTENDS SegmentDownload, TLAPS

\* All items but the init segment that a Smooth Streaming session rewrites when
\* it has its first segment.
Kept == {i \in Items : ~(HasInit /\ ForceProbe /\ SegmentCount > 0 /\ i = 0)}

\* What a segment of which a worker makes use does not hold.
Bad(i) == IF i \in Kept THEN {"none", "torn"} ELSE {"none"}

\* Sessions whose workers have been at work since they began.
Live == {"running", "ok"}

DirOK == dir \in [Items -> [Paths -> Contents]]

WorkOK == work \in [Items -> Worker]

\* What a torn copy presupposes.  mp4decrypt leaves none.
Copies(i) ==
    /\ dir[i]["main"] # "torn"
    /\ dir[i]["dec"] = "torn" => dir[i]["main"] # "none"
    /\ Engine = "mp4decrypt" => dir[i]["dec"] # "torn" /\ dir[i]["decdec"] # "torn"

Unfetched == {"waiting", "fetching"}
Ready == {"probed", "rewriting", "hook"}

\* What a worker relies on in each of its phases.
Progress(i) ==
    LET w == work[i]
        source == dir[i][w.path]
        copy == dir[i][DecPath(w.path)]
    IN  /\ w.phase \in {"probed", "rewriting"} => MakesInit(i)
        /\ w.phase \in Unfetched => w.path = "main"
        /\ w.path \in {"main", "dec"}
        /\ w.phase \in Ready \cup {"removing", "done"} => source \notin Bad(i)
        /\ w.phase = "decrypting" /\ Engine # "mp4decrypt" => source \notin Bad(i)
        /\ w.phase = "decrypting" /\ Engine = "mp4decrypt" => w.aside \notin Bad(i)
        /\ w.phase = "placing" => w.aside \notin Bad(i) /\ source \notin Bad(i)
        /\ w.phase \in {"removing", "renaming"} => copy \notin Bad(i)

DirInv ==
    /\ DirOK
    /\ WorkOK
    /\ \A i \in Kept : Copies(i)
    /\ result \in Live => \A i \in Items : Progress(i)

-----------------------------------------------------------------------------
(* The initial state, and the end of a session.                            *)

LEMMA UnstartedIsWorker == Unstarted \in Worker
BY StreamAssumption DEF Unstarted, Worker, Phases, Paths, Contents

LEMMA InitDirInv == Init => DirInv
<1> SUFFICES ASSUME Init PROVE DirInv
  OBVIOUS
<1>1. DirOK /\ WorkOK
  BY UnstartedIsWorker DEF Init, DirOK, WorkOK, Contents
<1>2. \A i \in Kept : Copies(i)
  BY DEF Init, Kept, Copies, Paths
<1> QED
  BY <1>1, <1>2 DEF Init, DirInv, Live

\* A session that stops leaves the directory to the next one.
LEMMA StopKeepsDirInv ==
    ASSUME DirInv, DirOK', WorkOK', \A i \in Kept : Copies(i)', result' \notin Live
    PROVE  DirInv'
BY DEF DirInv

-----------------------------------------------------------------------------
(* A step of one worker.                                                   *)

\* Nothing but the item i, its files and its worker, changes.
OnlyItem(i) ==
    \A j \in Items \ {i} : dir'[j] = dir[j] /\ work'[j] = work[j]

LEMMA OneItem ==
    ASSUME DirInv, NEW i \in Items, OnlyItem(i), DirOK', WorkOK',
           result' \in Live => result \in Live,
           i \in Kept => Copies(i)', result' \in Live => Progress(i)'
    PROVE  DirInv'
<1>1. \A j \in Kept : Copies(j)'
  BY DEF DirInv, OnlyItem, Kept, Copies
<1>2. ASSUME result' \in Live, NEW j \in Items PROVE Progress(j)'
  BY <1>2 DEF DirInv, OnlyItem, Progress
<1> QED
  BY <1>1, <1>2 DEF DirInv

LEMMA LookKeepsDirInv ==
    ASSUME DirInv, NEW i \in Items, Look(i)
    PROVE  DirInv'
<1> DEFINE found == {p \in {"main", "dec"} : dir[i][p] # "none"}
           picked == IF "main" \in found THEN "main" ELSE "dec"
<1>1. /\ DirOK /\ WorkOK /\ dir' = dir /\ result' = result /\ result = "running"
      /\ work' = [work EXCEPT ![i] =
                    IF found = {} THEN [@ EXCEPT !.phase = "fetching"]
                    ELSE [@ EXCEPT !.phase = AfterDownload(i), !.path = picked]]
      /\ work[i].phase = "waiting"
  BY DEF Look, DirInv, Continue, Working
<1>2. DirOK' /\ WorkOK' /\ OnlyItem(i)
  <2>1. picked \in Paths /\ AfterDownload(i) \in Phases /\ "fetching" \in Phases
    BY DEF Paths, AfterDownload, Phases
  <2>2. [work[i] EXCEPT !.phase = "fetching"] \in Worker
    BY <1>1, <2>1 DEF WorkOK, Worker
  <2>3. [work[i] EXCEPT !.phase = AfterDownload(i), !.path = picked] \in Worker
    BY <1>1, <2>1 DEF WorkOK, Worker
  <2> HIDE DEF found, picked
  <2> QED
    BY <1>1, <2>2, <2>3 DEF DirOK, WorkOK, OnlyItem
<1>3. (i \in Kept => Copies(i)') /\ Progress(i)'
  <2>1. (i \in Kept => Copies(i)) /\ Progress(i)
    BY <1>1 DEF DirInv, Live
  <2>2. CASE found = {}
    BY <1>1, <2>1, <2>2 DEF WorkOK, Worker, Copies, Progress, Bad, Unfetched, Ready
  <2>3. CASE found # {}
    <3>1. /\ work'[i].phase = AfterDownload(i) /\ work'[i].path = picked
          /\ picked \in {"main", "dec"}
      BY <1>1, <2>3 DEF WorkOK, Worker
    <3>2. dir[i][picked] # "none" /\ (i \in Kept => dir[i][picked] # "torn")
      BY <2>1, <2>3 DEF Copies
    <3>3. dir[i][picked] \notin Bad(i)
      BY <3>2 DEF Bad
    <3>4. dir' = dir /\ work'[i].phase \in {"probed", "hook"}
          /\ (work'[i].phase = "probed" => MakesInit(i))
      BY <1>1, <3>1 DEF AfterDownload
    <3> HIDE DEF found, picked
    <3> QED
      BY <2>1, <3>1, <3>3, <3>4 DEF Copies, Progress, Unfetched, Ready
  <2> QED
    BY <2>2, <2>3
<1> QED
  BY <1>1, <1>2, <1>3, OneItem

\* A worker that has done with its attempts.
LEMMA AttemptsOver ==
    ASSUME WorkOK, NEW i \in Items, NEW phase \in Phases
    PROVE  LET w == [work[i] EXCEPT !.phase = phase, !.left = Retries]
           IN  w \in Worker /\ w.path = work[i].path /\ w.phase = phase
<1>1. Retries \in 0 .. Retries
  BY StreamAssumption
<1>2. work[i] \in Worker
  BY DEF WorkOK
<1> QED
  BY <1>1, <1>2 DEF Worker

LEMMA StoreReplyKeepsDirInv ==
    ASSUME DirInv, NEW i \in Items, StoreReply(i)
    PROVE  DirInv'
<1>1. PICK reply \in Replies :
        /\ dir' = [dir EXCEPT ![i]["main"] = Stored(reply)]
        /\ work' = [work EXCEPT ![i].phase =
                      IF Succeeds(reply) THEN AfterDownload(i) ELSE "mismatch",
                    ![i].left = Retries]
        /\ Stored(reply) \in {"fetched", "short", "cut"}
  BY StreamAssumption DEF StoreReply, Stored
<1>2. /\ DirOK /\ WorkOK /\ result' = result /\ result = "running"
      /\ work[i].phase = "fetching"
  BY DEF StoreReply, DirInv, Continue, Working
<1>3. DirOK' /\ WorkOK' /\ OnlyItem(i)
  <2>1. PICK phase \in Phases : work' = [work EXCEPT ![i].phase = phase, ![i].left = Retries]
    BY <1>1 DEF AfterDownload, Phases
  <2>2. WorkOK' /\ OnlyItem(i)
    <3> DEFINE w == [work[i] EXCEPT !.phase = phase, !.left = Retries]
    <3>1. w \in Worker /\ work' = [work EXCEPT ![i] = w]
      BY <1>2, <2>1, AttemptsOver
    <3> HIDE DEF w
    <3> QED
      BY <1>1, <1>2, <3>1 DEF WorkOK, DirOK, OnlyItem
  <2>3. DirOK'
    BY <1>1, <1>2 DEF DirOK, Paths, Contents
  <2> QED
    BY <2>2, <2>3
<1>4. (i \in Kept => Copies(i)') /\ Progress(i)'
  <2>1. (i \in Kept => Copies(i)) /\ Progress(i)
    BY <1>2 DEF DirInv, Live
  <2>2. /\ dir'[i]["main"] \in {"fetched", "short", "cut"}
        /\ dir'[i]["dec"] = dir[i]["dec"] /\ dir'[i]["decdec"] = dir[i]["decdec"]
    BY <1>1, <1>2 DEF DirOK, Paths
  <2>3. /\ work'[i].phase \in {"probed", "hook", "mismatch"}
        /\ work'[i].phase = "probed" => MakesInit(i)
        /\ work'[i].path = work[i].path
    BY <1>1, <1>2 DEF WorkOK, Worker, AfterDownload
  <2>4. work[i].path = "main"
    BY <1>2, <2>1 DEF Progress, Bad, Unfetched
  <2> QED
    BY <2>1, <2>2, <2>3, <2>4 DEF Copies, Progress, Bad, Unfetched, Ready
<1> QED
  BY <1>2, <1>3, <1>4, OneItem

\* A step that only moves the worker to a phase about which nothing is known.
LEMMA GivingUpKeepsDirInv ==
    ASSUME DirInv, NEW i \in Items, AttemptFails(i) \/ StoreFails(i)
    PROVE  DirInv'
<1>1. /\ DirOK /\ WorkOK /\ dir' = dir /\ result' = result /\ result = "running"
      /\ work[i].phase = "fetching"
  BY DEF AttemptFails, StoreFails, DirInv, Continue, Working
<1>2. PICK w \in Worker :
        /\ work' = [work EXCEPT ![i] = w]
        /\ w.path = work[i].path /\ w.phase \in {"fetching", "missing"}
  <2>1. CASE work' = [work EXCEPT ![i].phase = "missing", ![i].left = Retries]
    <3> DEFINE w == [work[i] EXCEPT !.phase = "missing", !.left = Retries]
    <3>1. w \in Worker /\ w.path = work[i].path /\ w.phase = "missing"
      BY <1>1, AttemptsOver DEF Phases
    <3>2. work' = [work EXCEPT ![i] = w]
      BY <2>1
    <3> QED
      BY <3>1, <3>2
  <2>2. CASE work[i].left > 0 /\ work' = [work EXCEPT ![i].left = @ - 1]
    <3> DEFINE w == [work[i] EXCEPT !.left = @ - 1]
    <3>1. w \in Worker /\ w.path = work[i].path /\ w.phase = "fetching"
      BY <1>1, <2>2, StreamAssumption DEF WorkOK, Worker
    <3>2. work' = [work EXCEPT ![i] = w]
      BY <2>2
    <3> QED
      BY <3>1, <3>2
  <2> QED
    BY <2>1, <2>2 DEF AttemptFails, StoreFails
<1>3. DirOK' /\ WorkOK' /\ OnlyItem(i)
  BY <1>1, <1>2 DEF DirOK, WorkOK, OnlyItem
<1>4. (i \in Kept => Copies(i)') /\ Progress(i)'
  BY <1>1, <1>2 DEF DirInv, Live, WorkOK, Copies, Progress, Bad, Unfetched, Ready
<1> QED
  BY <1>1, <1>3, <1>4, OneItem

\* Rewriting the init segment touches nothing else, and leaves it in place.
LEMMA RewriteKeepsDirInv ==
    ASSUME DirInv, NEW i \in Items, RewriteInit(i) \/ InitRewritten(i)
    PROVE  DirInv'
<1>1. PICK content \in {"torn", "fetched"}, phase \in {"rewriting", "hook"} :
        /\ dir' = [dir EXCEPT ![0][files[1].path] = content]
        /\ work' = [work EXCEPT ![i].phase = phase]
  BY DEF RewriteInit, InitRewritten
<1>2. /\ DirOK /\ WorkOK /\ result' = result /\ result = "running"
      /\ work[i].phase \in {"probed", "rewriting"}
      /\ \A j \in Items : Progress(j)
  BY DEF RewriteInit, InitRewritten, DirInv, Live, Continue, Working
<1>3. /\ WorkOK' /\ \A j \in Items \ {i} : work'[j] = work[j]
      /\ work'[i].phase \in {"rewriting", "hook"} /\ work'[i].path = work[i].path
  BY <1>1, <1>2 DEF WorkOK, Worker, Phases
<1>4. DirOK'
  BY <1>1, <1>2 DEF DirOK, Contents
<1>5. /\ \A j \in Items \ {0} : dir'[j] = dir[j]
      /\ 0 \in Items => \A q \in Paths : dir'[0][q] = dir[0][q] \/ dir'[0][q] # "none"
  BY <1>1, <1>2 DEF DirOK
<1>6. MakesInit(i) /\ i # 0 /\ Kept = Items \ {0}
  BY <1>2, StreamAssumption DEF Progress, MakesInit, Kept, Items
<1>7. \A j \in Kept : Copies(j)'
  BY <1>5, <1>6 DEF DirInv, Copies
<1>8. ASSUME NEW j \in Items PROVE Progress(j)'
  <2>1. CASE j = i
    BY <1>2, <1>3, <1>5, <1>6, <2>1 DEF Progress, Ready, Unfetched
  <2>2. CASE j # i /\ j # 0
    BY <1>2, <1>3, <1>5, <2>2 DEF Progress
  <2>3. CASE j = 0
    <3>1. work'[j] = work[j] /\ work[j].path \in Paths /\ DecPath(work[j].path) \in Paths
      BY <1>2, <1>3, <1>6, <2>3 DEF WorkOK, Worker, DecPath, Paths
    <3>2. Bad(j) = {"none"}
      BY <1>6, <2>3 DEF Bad
    <3>3. \A q \in Paths : dir[j][q] \notin Bad(j) => dir'[j][q] \notin Bad(j)
      BY <1>5, <2>3, <3>2
    <3> QED
      BY <1>2, <3>1, <3>3 DEF Progress
  <2> QED
    BY <2>1, <2>2, <2>3
<1> QED
  BY <1>2, <1>3, <1>4, <1>7, <1>8 DEF DirInv

-----------------------------------------------------------------------------
(* The steps of the hook.                                                  *)

LEMMA HookTypes ==
    ASSUME DirInv, NEW i \in Items, NEW phase \in Phases, NEW aside \in Contents,
           work' = [work EXCEPT ![i].phase = phase, ![i].aside = aside]
    PROVE  /\ WorkOK' /\ \A j \in Items \ {i} : work'[j] = work[j]
           /\ work'[i].phase = phase /\ work'[i].aside = aside
           /\ work'[i].path = work[i].path
<1>1. WorkOK
  BY DEF DirInv, Live
<1>2. [work[i] EXCEPT !.phase = phase, !.aside = aside] \in Worker
  BY <1>1 DEF WorkOK, Worker
<1> QED
  BY <1>1, <1>2 DEF WorkOK, Worker

LEMMA PhaseTypes ==
    ASSUME DirInv, NEW i \in Items, NEW phase \in Phases,
           work' = [work EXCEPT ![i].phase = phase]
    PROVE  /\ WorkOK' /\ \A j \in Items \ {i} : work'[j] = work[j]
           /\ work'[i].phase = phase /\ work'[i].aside = work[i].aside
           /\ work'[i].path = work[i].path
<1>1. WorkOK
  BY DEF DirInv, Live
<1>2. [work[i] EXCEPT !.phase = phase] \in Worker
  BY <1>1 DEF WorkOK, Worker
<1> QED
  BY <1>1, <1>2 DEF WorkOK, Worker

\* One path of one item gets a new content.
LEMMA DirTypes ==
    ASSUME DirInv, NEW i \in Items, NEW p \in Paths, NEW content \in Contents,
           dir' = [dir EXCEPT ![i][p] = content]
    PROVE  /\ DirOK' /\ \A j \in Items \ {i} : dir'[j] = dir[j]
           /\ dir'[i][p] = content
           /\ \A q \in Paths \ {p} : dir'[i][q] = dir[i][q]
BY DEF DirInv, Live, DirOK

\* What is known of an item whose hook is under way.
LEMMA HookFacts ==
    ASSUME DirInv, NEW i \in Items, NEW phase, Working(i, phase)
    PROVE  /\ DirOK /\ WorkOK /\ result = "running" /\ work[i].phase = phase
           /\ work[i].path \in Paths /\ DecPath(work[i].path) \in Paths
           /\ work[i].aside \in Contents /\ dir[i] \in [Paths -> Contents]
           /\ i \in Kept => Copies(i)
           /\ Progress(i) /\ work[i].path \in {"main", "dec"}
BY DEF DirInv, Live, Working, DirOK, WorkOK, Worker, Progress, DecPath, Paths

LEMMA DoneKeepsDirInv ==
    ASSUME DirInv, NEW i \in Items, Working(i, "hook"), Done(i), dir' = dir
    PROVE  DirInv'
<1>1. "done" \in Phases /\ "none" \in Contents
  BY DEF Phases, Contents
<1>2. WorkOK' /\ OnlyItem(i) /\ work'[i].phase = "done" /\ work'[i].path = work[i].path
  BY <1>1, HookTypes DEF Done, OnlyItem
<1>3. DirOK' /\ result' = result
  BY DEF DirInv, DirOK, Done
<1>4. (i \in Kept => Copies(i)') /\ Progress(i)'
  <2>1. (i \in Kept => Copies(i)) /\ Progress(i) /\ work[i].phase = "hook"
    BY HookFacts
  <2> QED
    BY <1>2, <2>1 DEF Copies, Progress, Unfetched, Ready
<1> QED
  BY <1>2, <1>3, <1>4, OneItem

\* A hook that fails changes the worker or ends the session.
LEMMA FailureKeepsDirInv ==
    ASSUME DirInv, NEW i \in Items, dir' = dir, HookFails(i) \/ (Stop /\ UNCHANGED work)
    PROVE  DirInv'
<1>1. DirOK' /\ \A j \in Kept : Copies(j)'
  BY DEF DirInv, Live, DirOK, Copies
<1>2. CASE Stop /\ UNCHANGED work
  BY <1>1, <1>2, StopKeepsDirInv DEF DirInv, Live, WorkOK, Stop
<1>3. CASE work' = [work EXCEPT ![i].phase = "missing"] /\ Continue
  <2>1. "missing" \in Phases
    BY DEF Phases
  <2>2. WorkOK' /\ OnlyItem(i) /\ work'[i].phase = "missing" /\ work'[i].path = work[i].path
    BY <1>3, <2>1, PhaseTypes DEF OnlyItem
  <2>3. result' \in Live => Progress(i)'
    BY <1>3, <2>2 DEF DirInv, Progress, Unfetched, Ready, Continue
  <2> QED
    BY <1>1, <1>3, <2>2, <2>3, OneItem DEF Continue
<1> QED
  BY <1>2, <1>3 DEF HookFails

LEMMA StartToolKeepsDirInv ==
    ASSUME DirInv, NEW i \in Items, StartTool(i)
    PROVE  DirInv'
<1> DEFINE p == work[i].path
<1>1. /\ DirOK /\ WorkOK /\ result = "running" /\ work[i].phase = "hook"
      /\ p \in Paths /\ DecPath(p) \in Paths /\ dir[i] \in [Paths -> Contents]
      /\ i \in Kept => Copies(i)
      /\ Progress(i) /\ p \in {"main", "dec"}
  BY HookFacts DEF StartTool
<1>2. result' = result
  BY DEF StartTool, Continue
<1>3. {"none", "torn"} \subseteq Contents /\ "decrypting" \in Phases
  BY DEF Contents, Phases
<1>4. CASE Engine = "mp4decrypt"
  <2>1. /\ work' = [work EXCEPT ![i].phase = "decrypting", ![i].aside = dir[i][p]]
        /\ dir' = [dir EXCEPT ![i][p] = "none"]
    BY <1>4 DEF StartTool
  <2>2. /\ DirOK' /\ \A j \in Items \ {i} : dir'[j] = dir[j]
        /\ dir'[i][p] = "none" /\ \A q \in Paths \ {p} : dir'[i][q] = dir[i][q]
    BY <1>1, <1>3, <2>1, DirTypes
  <2>3. dir[i][p] \in Contents
    BY <1>1
  <2>4. /\ WorkOK' /\ \A j \in Items \ {i} : work'[j] = work[j]
        /\ work'[i].phase = "decrypting" /\ work'[i].aside = dir[i][p] /\ work'[i].path = p
    BY <1>3, <2>1, <2>3, HookTypes
  <2>5. (i \in Kept => Copies(i)') /\ Progress(i)'
    BY <1>1, <1>4, <2>2, <2>4 DEF Copies, Progress, Bad, DecPath, Paths, Unfetched, Ready
  <2> QED
    BY <1>2, <1>1, <2>2, <2>4, <2>5, OneItem DEF OnlyItem
<1>5. CASE Engine # "mp4decrypt"
  <2>1. /\ work' = [work EXCEPT ![i].phase = "decrypting"]
        /\ dir' = [dir EXCEPT ![i][DecPath(p)] = "torn"]
    BY <1>5 DEF StartTool
  <2>2. /\ DirOK' /\ \A j \in Items \ {i} : dir'[j] = dir[j]
        /\ dir'[i][DecPath(p)] = "torn"
        /\ \A q \in Paths \ {DecPath(p)} : dir'[i][q] = dir[i][q]
    BY <1>1, <1>3, <2>1, DirTypes
  <2>3. /\ WorkOK' /\ \A j \in Items \ {i} : work'[j] = work[j]
        /\ work'[i].phase = "decrypting" /\ work'[i].path = p
    BY <1>3, <2>1, PhaseTypes
  <2>4. (i \in Kept => Copies(i)') /\ Progress(i)'
    <3>1. dir[i][p] \notin Bad(i) /\ dir'[i][p] = dir[i][p]
      BY <1>1, <2>2 DEF Progress, Ready, DecPath, Paths
    <3>2. i \in Kept => Copies(i)'
      BY <1>1, <1>5, <2>2, <3>1 DEF Copies, Bad, DecPath, Paths
    <3> QED
      BY <1>1, <1>5, <2>3, <3>1, <3>2 DEF Progress, Unfetched, Ready
  <2> QED
    BY <1>2, <1>1, <2>2, <2>3, <2>4, OneItem DEF OnlyItem
<1> QED
  BY <1>4, <1>5

\* mp4decrypt puts the source back; the others leave the directory alone.
LEMMA RestoredFacts ==
    ASSUME DirInv, NEW i \in Items, Working(i, "decrypting"), dir' = Restored(i)
    PROVE  /\ DirOK' /\ \A j \in Items \ {i} : dir'[j] = dir[j]
           /\ \A q \in Paths \ {work[i].path} : dir'[i][q] = dir[i][q]
           /\ i \in Kept => Copies(i)'
           /\ dir'[i][work[i].path] \notin Bad(i)
<1> DEFINE p == work[i].path
<1>1. /\ DirOK /\ p \in Paths /\ work[i].aside \in Contents /\ work[i].phase = "decrypting"
      /\ i \in Kept => Copies(i)
      /\ Progress(i) /\ p \in {"main", "dec"}
  BY HookFacts
<1>2. CASE Engine = "mp4decrypt"
  <2>1. dir' = [dir EXCEPT ![i][p] = work[i].aside]
    BY <1>2 DEF Restored
  <2>2. /\ DirOK' /\ \A j \in Items \ {i} : dir'[j] = dir[j]
        /\ dir'[i][p] = work[i].aside /\ \A q \in Paths \ {p} : dir'[i][q] = dir[i][q]
    BY <1>1, <2>1, DirTypes
  <2> QED
    BY <1>1, <1>2, <2>2 DEF Copies, Progress, Bad, Paths
<1>3. CASE Engine # "mp4decrypt"
  <2>1. dir' = dir
    BY <1>3 DEF Restored
  <2> QED
    BY <1>1, <1>3, <2>1 DEF Copies, Progress, Bad, DirOK
<1> QED
  BY <1>2, <1>3

LEMMA ToolEndsKeepsDirInv ==
    ASSUME DirInv, NEW i \in Items, ToolEnds(i)
    PROVE  DirInv'
<1> DEFINE p == work[i].path
<1>1. /\ DirOK /\ WorkOK /\ result = "running" /\ work[i].phase = "decrypting"
      /\ Working(i, "decrypting") /\ result' = result
      /\ p \in Paths /\ DecPath(p) \in Paths /\ dir[i] \in [Paths -> Contents]
      /\ i \in Kept => Copies(i)
      /\ Progress(i) /\ p \in {"main", "dec"}
  BY HookFacts DEF ToolEnds, Continue
<1>2. CASE Engine = "mp4decrypt"
  <2>1. dir' = Restored(i) /\ work' = [work EXCEPT ![i].phase = "placing"]
    BY <1>2 DEF ToolEnds
  <2>2. /\ DirOK' /\ \A j \in Items \ {i} : dir'[j] = dir[j]
        /\ i \in Kept => Copies(i)'
        /\ dir'[i][p] \notin Bad(i)
    BY <1>1, <2>1, RestoredFacts
  <2>3. /\ WorkOK' /\ \A j \in Items \ {i} : work'[j] = work[j]
        /\ work'[i].phase = "placing" /\ work'[i].path = p /\ work'[i].aside = work[i].aside
    BY <2>1, PhaseTypes DEF Phases
  <2>4. Progress(i)'
    BY <1>1, <1>2, <2>2, <2>3 DEF Progress, Unfetched, Ready
  <2> QED
    BY <1>1, <2>2, <2>3, <2>4, OneItem DEF OnlyItem
<1>3. CASE Engine # "mp4decrypt"
  <2>1. /\ dir' = [dir EXCEPT ![i][DecPath(p)] = Decryption(dir[i][p])]
        /\ work' = [work EXCEPT ![i].phase = "removing"]
    BY <1>3 DEF ToolEnds
  <2>2. Decryption(dir[i][p]) \in Contents
    BY <1>1 DEF Decryption, Contents
  <2>3. /\ DirOK' /\ \A j \in Items \ {i} : dir'[j] = dir[j]
        /\ dir'[i][DecPath(p)] = Decryption(dir[i][p])
        /\ \A q \in Paths \ {DecPath(p)} : dir'[i][q] = dir[i][q]
    BY <1>1, <2>1, <2>2, DirTypes
  <2>4. /\ WorkOK' /\ \A j \in Items \ {i} : work'[j] = work[j]
        /\ work'[i].phase = "removing" /\ work'[i].path = p
    BY <2>1, PhaseTypes DEF Phases
  <2>5. (i \in Kept => Copies(i)') /\ Progress(i)'
    <3>1. dir[i][p] \notin Bad(i) /\ dir'[i][p] = dir[i][p]
      BY <1>1, <1>3, <2>3 DEF Progress, DecPath, Paths
    <3>2. dir'[i][DecPath(p)] \notin Bad(i)
      BY <2>3, <3>1 DEF Decryption, Bad
    <3>3. i \in Kept => Copies(i)'
      BY <1>1, <1>3, <2>3, <3>1, <3>2 DEF Copies, Bad, DecPath, Paths
    <3> QED
      BY <1>1, <2>4, <3>1, <3>2, <3>3 DEF Progress, Unfetched, Ready
  <2> QED
    BY <1>1, <2>3, <2>4, <2>5, OneItem DEF OnlyItem
<1> QED
  BY <1>2, <1>3

LEMMA PlaceCopyKeepsDirInv ==
    ASSUME DirInv, NEW i \in Items, PlaceCopy(i)
    PROVE  DirInv'
<1> DEFINE p == work[i].path
           copy == Decryption(work[i].aside)
<1>1. /\ DirOK /\ result = "running" /\ work[i].phase = "placing" /\ result' = result
      /\ p \in Paths /\ DecPath(p) \in Paths /\ work[i].aside \in Contents
      /\ i \in Kept => Copies(i)
      /\ Progress(i) /\ p \in {"main", "dec"}
  BY HookFacts DEF PlaceCopy, Continue
<1>2. copy \in Contents /\ copy \notin Bad(i)
  BY <1>1 DEF Decryption, Contents, Progress, Bad
<1>3. /\ dir' = [dir EXCEPT ![i][DecPath(p)] = copy]
      /\ work' = [work EXCEPT ![i].phase = "removing"]
  BY DEF PlaceCopy
<1>4. /\ DirOK' /\ \A j \in Items \ {i} : dir'[j] = dir[j]
      /\ dir'[i][DecPath(p)] = copy /\ \A q \in Paths \ {DecPath(p)} : dir'[i][q] = dir[i][q]
  BY <1>1, <1>2, <1>3, DirTypes
<1>5. /\ WorkOK' /\ \A j \in Items \ {i} : work'[j] = work[j]
      /\ work'[i].phase = "removing" /\ work'[i].path = p
  BY <1>3, PhaseTypes DEF Phases
<1>6. (i \in Kept => Copies(i)') /\ Progress(i)'
  <2> HIDE DEF copy
  <2>1. dir[i][p] \notin Bad(i) /\ dir'[i][p] = dir[i][p]
    BY <1>1, <1>4 DEF Progress, DecPath, Paths
  <2>2. i \in Kept => Copies(i)'
    BY <1>1, <1>2, <1>4, <2>1 DEF Copies, Bad, DecPath, Paths
  <2> QED
    BY <1>1, <1>2, <1>4, <1>5, <2>1, <2>2 DEF Progress, Unfetched, Ready
<1> QED
  BY <1>1, <1>4, <1>5, <1>6, OneItem DEF OnlyItem

\* What comes of a worker whose tool has failed or is cancelled.
LEMMA ToolStops ==
    ASSUME DirInv, NEW i \in Items, Working(i, "decrypting"), dir' = Restored(i),
           Done(i) \/ HookFails(i) \/ (Stop /\ UNCHANGED work)
    PROVE  DirInv'
<1>1. /\ Working(i, "decrypting") /\ dir' = Restored(i) /\ WorkOK /\ result = "running"
      /\ Progress(i)
  BY HookFacts
<1>2. /\ DirOK' /\ \A j \in Items \ {i} : dir'[j] = dir[j]
      /\ i \in Kept => Copies(i)'
      /\ dir'[i][work[i].path] \notin Bad(i)
  BY <1>1, RestoredFacts
<1>3. \A j \in Kept : Copies(j)'
  BY <1>2 DEF DirInv, Kept, Copies
<1>4. CASE Stop /\ UNCHANGED work
  BY <1>1, <1>2, <1>3, <1>4, StopKeepsDirInv DEF WorkOK, Stop, Live
<1>5. CASE Done(i)
  <2>0. "done" \in Phases /\ "none" \in Contents
    BY DEF Phases, Contents
  <2>1. WorkOK' /\ OnlyItem(i) /\ work'[i].phase = "done" /\ work'[i].path = work[i].path
    BY <1>2, <1>5, <2>0, HookTypes DEF Done, OnlyItem
  <2>2. Progress(i)'
    BY <1>1, <1>2, <2>1 DEF Progress, Unfetched, Ready
  <2> QED
    BY <1>1, <1>2, <2>1, <2>2, OneItem DEF Live
<1>6. CASE work' = [work EXCEPT ![i].phase = "missing"] /\ Continue
  <2>1. WorkOK' /\ OnlyItem(i) /\ work'[i].phase = "missing" /\ work'[i].path = work[i].path
    BY <1>2, <1>6, PhaseTypes DEF Phases, OnlyItem
  <2>2. Progress(i)'
    BY <1>1, <1>2, <2>1 DEF Progress, Unfetched, Ready
  <2> QED
    BY <1>1, <1>2, <2>1, <2>2, OneItem DEF Live
<1> QED
  BY <1>4, <1>5, <1>6 DEF HookFails

\* Nothing is restored: the segment is gone, and nobody relies on it.
LEMMA ToolLoses ==
    ASSUME DirInv, NEW i \in Items, Working(i, "decrypting"), dir' = dir, HookFails(i)
    PROVE  DirInv'
<1>1. /\ WorkOK /\ DirOK /\ result = "running" /\ Progress(i)
      /\ \A j \in Kept : Copies(j)
  BY HookFacts DEF DirInv
<1>2. DirOK' /\ \A j \in Kept : Copies(j)'
  BY <1>1 DEF DirOK, Copies
<1>3. CASE Stop /\ UNCHANGED work
  BY <1>1, <1>2, <1>3, StopKeepsDirInv DEF WorkOK, Stop, Live
<1>4. CASE work' = [work EXCEPT ![i].phase = "missing"] /\ Continue
  <2>1. WorkOK' /\ OnlyItem(i) /\ work'[i].phase = "missing" /\ work'[i].path = work[i].path
    BY <1>4, PhaseTypes DEF Phases, OnlyItem
  <2>2. Progress(i)'
    BY <1>1, <2>1 DEF Progress, Unfetched, Ready
  <2>3. i \in Kept => Copies(i)'
    BY <1>2
  <2> QED
    BY <1>1, <1>2, <1>4, <2>1, <2>2, <2>3, OneItem DEF Live, Continue, OnlyItem
<1> QED
  BY <1>3, <1>4 DEF HookFails

\* A tool that fails or is cancelled leaves what it found, or loses the segment.
LEMMA ToolStoppedKeepsDirInv ==
    ASSUME DirInv, NEW i \in Items, ToolFails(i) \/ ToolCancelled(i)
    PROVE  DirInv'
BY ToolStops, ToolLoses DEF ToolFails, ToolCancelled

LEMMA RemoveSourceKeepsDirInv ==
    ASSUME DirInv, NEW i \in Items, RemoveSource(i)
    PROVE  DirInv'
<1> DEFINE p == work[i].path
<1>1. /\ DirOK /\ result = "running" /\ work[i].phase = "removing" /\ result' = result
      /\ p \in Paths
      /\ i \in Kept => Copies(i)
      /\ Progress(i) /\ p \in {"main", "dec"}
  BY HookFacts DEF RemoveSource, Continue
<1>2. /\ dir' = [dir EXCEPT ![i][p] = "none"]
      /\ work' = [work EXCEPT ![i].phase = "renaming"]
  BY DEF RemoveSource
<1>3. /\ DirOK' /\ \A j \in Items \ {i} : dir'[j] = dir[j]
      /\ dir'[i][p] = "none" /\ \A q \in Paths \ {p} : dir'[i][q] = dir[i][q]
  BY <1>1, <1>2, DirTypes DEF Contents
<1>4. /\ WorkOK' /\ \A j \in Items \ {i} : work'[j] = work[j]
      /\ work'[i].phase = "renaming" /\ work'[i].path = p
  BY <1>2, PhaseTypes DEF Phases
<1>5. (i \in Kept => Copies(i)') /\ Progress(i)'
  BY <1>1, <1>3, <1>4 DEF Copies, Progress, Bad, DecPath, Paths, Unfetched, Ready
<1> QED
  BY <1>1, <1>3, <1>4, <1>5, OneItem DEF OnlyItem

LEMMA RenameCopyKeepsDirInv ==
    ASSUME DirInv, NEW i \in Items, RenameCopy(i)
    PROVE  DirInv'
<1> DEFINE p == work[i].path
<1>1. /\ DirOK /\ result = "running" /\ work[i].phase = "renaming" /\ result' = result
      /\ p \in Paths /\ DecPath(p) \in Paths /\ dir[i] \in [Paths -> Contents]
      /\ i \in Kept => Copies(i)
      /\ Progress(i) /\ p \in {"main", "dec"}
  BY HookFacts DEF RenameCopy, Done
<1>2. /\ dir' = [dir EXCEPT ![i][p] = dir[i][DecPath(p)], ![i][DecPath(p)] = "none"]
      /\ work' = [work EXCEPT ![i].phase = "done", ![i].aside = "none"]
  BY DEF RenameCopy, Done
<1>3. dir[i][DecPath(p)] \in Contents /\ "none" \in Contents
  BY <1>1 DEF Contents
<1> DEFINE moved == [dir EXCEPT ![i][p] = dir[i][DecPath(p)]]
<1>4. /\ moved \in [Items -> [Paths -> Contents]]
      /\ \A j \in Items \ {i} : moved[j] = dir[j]
      /\ moved[i][p] = dir[i][DecPath(p)] /\ \A q \in Paths \ {p} : moved[i][q] = dir[i][q]
  BY <1>1, <1>3 DEF DirOK
<1>5. dir' = [moved EXCEPT ![i][DecPath(p)] = "none"]
  BY <1>2
<1>6. /\ DirOK' /\ \A j \in Items \ {i} : dir'[j] = dir[j]
      /\ dir'[i][DecPath(p)] = "none"
      /\ \A q \in Paths \ {DecPath(p)} : dir'[i][q] = moved[i][q]
  <2> HIDE DEF moved, p
  <2> QED
    BY <1>1, <1>3, <1>4, <1>5 DEF DirOK
<1>7. /\ WorkOK' /\ \A j \in Items \ {i} : work'[j] = work[j]
      /\ work'[i].phase = "done" /\ work'[i].path = p
  BY <1>2, HookTypes DEF Phases, Contents
<1>8. (i \in Kept => Copies(i)') /\ Progress(i)'
  <2>1. dir[i][DecPath(p)] \notin Bad(i)
    BY <1>1 DEF Progress
  <2> HIDE DEF moved
  <2>2. dir'[i][p] \notin Bad(i)
    BY <1>1, <1>4, <1>6, <2>1 DEF DecPath, Paths
  <2>3. i \in Kept => Copies(i)'
    BY <1>1, <1>4, <1>6, <2>1, <2>2 DEF Copies, Bad, DecPath, Paths
  <2> QED
    BY <1>1, <1>7, <2>2, <2>3 DEF Progress, Unfetched, Ready
<1> QED
  BY <1>1, <1>6, <1>7, <1>8, OneItem DEF OnlyItem

-----------------------------------------------------------------------------
(* The steps of the session, and the theorem.                              *)

LEMMA StartSessionKeepsDirInv ==
    ASSUME DirInv, StartSession
    PROVE  DirInv'
<1>1. WorkOK'
  BY UnstartedIsWorker DEF StartSession, WorkOK
<1>2. DirOK' /\ \A i \in Kept : Copies(i)'
  BY DEF DirInv, Live, DirOK, Copies, StartSession
<1>3. ASSUME NEW i \in Items PROVE Progress(i)'
  BY <1>3 DEF StartSession, Progress, Unstarted, Unfetched, Ready
<1> QED
  BY <1>1, <1>2, <1>3 DEF DirInv, Live

\* The other steps of the session change neither files nor workers.
LEMMA QuietStepKeepsDirInv ==
    ASSUME DirInv, UNCHANGED <<dir, work>>, result' \in Live => result \in Live
    PROVE  DirInv'
BY DEF DirInv, DirOK, WorkOK, Copies, Progress

LEMMA StepKeepsDirInv == DirInv /\ [Next]_vars => DirInv'
<1> SUFFICES ASSUME DirInv, [Next]_vars PROVE DirInv'
  OBVIOUS
<1>1. CASE StartSession
  BY <1>1, StartSessionKeepsDirInv
<1>2. CASE UNCHANGED vars
  BY <1>2, QuietStepKeepsDirInv DEF vars
<1>3. CASE CloseBatch \/ Finish \/ Crash
  BY <1>3, QuietStepKeepsDirInv DEF CloseBatch, Finish, Crash, Stop, Live
<1>4. ASSUME NEW i \in Items, Look(i) \/ StoreReply(i) \/ AttemptFails(i) \/ StoreFails(i)
      PROVE  DirInv'
  BY <1>4, LookKeepsDirInv, StoreReplyKeepsDirInv, GivingUpKeepsDirInv
<1>5. ASSUME NEW i \in Items, Rewrite(i) PROVE DirInv'
  <2>1. CASE RewriteFails(i)
    BY <2>1, QuietStepKeepsDirInv DEF RewriteFails, Stop, Live
  <2> QED
    BY <1>5, <2>1, RewriteKeepsDirInv DEF Rewrite
<1>6. ASSUME NEW i \in Items, Hook(i) PROVE DirInv'
  <2>1. CASE LeaveAsIs(i)
    BY <2>1, DoneKeepsDirInv DEF LeaveAsIs
  <2>2. CASE FileError(i)
    BY <2>2, FailureKeepsDirInv DEF FileError
  <2> QED
    BY <1>6, <2>1, <2>2, StartToolKeepsDirInv, ToolEndsKeepsDirInv, PlaceCopyKeepsDirInv,
       ToolStoppedKeepsDirInv, RemoveSourceKeepsDirInv, RenameCopyKeepsDirInv DEF Hook
<1> QED
  BY <1>1, <1>2, <1>3, <1>4, <1>5, <1>6 DEF Next

LEMMA DirInvHolds == Spec => []DirInv
BY InitDirInv, StepKeepsDirInv, PTL DEF Spec

\* Wherever a session stops, and whatever tool decrypts in real time, no
\* later session takes a file that a tool had only begun to write for a
\* downloaded segment: for streams of any length, any number of workers and
\* any number of sessions.
THEOREM TornNever == Spec => []NeverTorn
<1>1. DirInv => NeverTorn
  BY DEF DirInv, Kept, Copies, NeverTorn, Found
<1> QED
  BY <1>1, DirInvHolds, PTL

-----------------------------------------------------------------------------
(* The order of the files, and the promise that is kept.                   *)

\* The items of the batches that are closed.
Past(n) == {i \in Items : \E m \in 1..(n - 1) : i \in BatchOf(m)}

Ended == {"done", "mismatch", "missing"}

\* A batch collects the items of its workers that are done, each once.
ArrivedInv ==
    /\ \A i \in Items :
          (\E n \in DOMAIN arrived : arrived[n] = i) <=> i \in BatchOf(batch) /\ work[i].phase = "done"
    /\ \A m, n \in DOMAIN arrived : arrived[m] = arrived[n] => m = n

\* Of the closed batches the items that are done are in the list, under the paths
\* of their workers and in order; a strict batch was closed only when it was done.
FilesInv ==
    /\ \A i \in Items :
          (\E n \in DOMAIN files : files[n].item = i) <=> i \in Past(batch) /\ work[i].phase = "done"
    /\ \A n \in DOMAIN files : files[n].path = work[files[n].item].path
    /\ \A m, n \in DOMAIN files : m < n => files[m].item < files[n].item
    /\ \A i \in Past(batch) : work[i].phase \in Ended
    /\ \A m \in 1..Len(Strict) : m < batch => \A i \in BatchOf(m) : work[i].phase = "done"

\* The workers of the batches to come have not begun.
ComingInv == \A i \in Items : i \notin Past(batch) /\ i \notin BatchOf(batch) => work[i].phase = "waiting"

OrderInv ==
    /\ batch \in Nat \ {0}
    /\ arrived \in Seq(Items)
    /\ files \in Seq([item : Items, path : Paths])
    /\ result \in Live => ArrivedInv /\ FilesInv /\ ComingInv
    /\ result = "ok" => BatchOf(batch) = {}

-----------------------------------------------------------------------------
(* Arithmetic of the batches.                                              *)

LEMMA Quotient ==
    ASSUME NEW a \in Nat, NEW t \in Nat \ {0}
    PROVE  a \div t \in Nat /\ (a \div t) * t <= a /\ a < (a \div t) * t + t
BY SMTT(20)

LEMMA Spaced ==
    ASSUME NEW a \in Nat, NEW b \in Nat, NEW t \in Nat \ {0}, a < b
    PROVE  a * t \in Nat /\ b * t \in Nat /\ a * t + t <= b * t
BY SMTT(20)

LEMMA QuotientGrows ==
    ASSUME NEW a \in Nat, NEW b \in Nat, NEW t \in Nat \ {0}, a <= b
    PROVE  a \div t <= b \div t
<1> DEFINE p == a \div t
           q == b \div t
<1>1. p \in Nat /\ q \in Nat /\ p * t <= a /\ b < q * t + t
  BY Quotient
<1>2. p * t \in Nat /\ q * t \in Nat
  BY <1>1
<1> HIDE DEF p, q
<1>3. ASSUME q < p PROVE FALSE
  BY <1>1, <1>2, <1>3, Spaced
<1> QED
  BY <1>1, <1>3 DEF p, q

LEMMA QuotientOfProduct ==
    ASSUME NEW k \in Nat, NEW t \in Nat \ {0}
    PROVE  k * t \in Nat /\ (k * t) \div t = k
<1>1. k * t \in Nat
  BY SMTT(20)
<1> DEFINE a == k * t
           q == a \div t
<1>2. q \in Nat /\ q * t <= a /\ a < q * t + t
  BY <1>1, Quotient
<1>3. q * t \in Nat
  BY <1>2
<1> HIDE DEF q
<1>4. ASSUME q < k PROVE FALSE
  BY <1>1, <1>2, <1>3, <1>4, Spaced
<1>5. ASSUME k < q PROVE FALSE
  BY <1>1, <1>2, <1>3, <1>5, Spaced
<1> QED
  BY <1>1, <1>2, <1>4, <1>5 DEF q

LEMMA StrictForms ==
    \/ MakesInit(1) /\ SegmentCount > 0 /\ Strict = <<{0}, {1}>> /\ FirstLater = 2
    \/ HasInit /\ ~(ForceProbe /\ SegmentCount > 0) /\ Strict = <<{0}>> /\ FirstLater = 1
    \/ ~HasInit /\ SegmentCount > 0 /\ Strict = <<{1}>> /\ FirstLater = 2
    \/ ~HasInit /\ SegmentCount = 0 /\ Strict = <<>> /\ FirstLater = 1
<1> DEFINE init == IF HasInit THEN <<{0}>> ELSE <<>>
           probed == IF ProbesFirst THEN <<{1}>> ELSE <<>>
<1>1. /\ Strict = init \o probed /\ FirstLater = IF ProbesFirst THEN 2 ELSE 1
      /\ ProbesFirst \in BOOLEAN /\ HasInit \in BOOLEAN
  BY StreamAssumption DEF Strict, FirstLater, ProbesFirst
<1>2. CASE HasInit /\ ProbesFirst
  <2>1. <<{0}>> \o <<{1}>> = <<{0}, {1}>>
    <3> DEFINE s == <<{0}>> \o <<{1}>>
    <3>1. /\ <<{0}>> \in Seq(SUBSET Nat) /\ <<{1}>> \in Seq(SUBSET Nat)
          /\ Len(<<{0}>>) = 1 /\ Len(<<{1}>>) = 1
      OBVIOUS
    <3>2. s \in Seq(SUBSET Nat) /\ Len(s) = 2 /\ s[1] = {0} /\ s[2] = {1}
      BY <3>1
    <3> HIDE DEF s
    <3>3. s = <<{0}, {1}>>
      BY <3>2
    <3> QED
      BY <3>3 DEF s
  <2> QED
    BY <1>1, <1>2, <2>1 DEF ProbesFirst, MakesInit
<1>3. CASE HasInit /\ ~ProbesFirst
  <2>1. <<{0}>> \o <<>> = <<{0}>>
    OBVIOUS
  <2> QED
    BY <1>1, <1>3, <2>1 DEF ProbesFirst
<1>4. CASE ~HasInit /\ ProbesFirst
  <2>1. <<>> \o <<{1}>> = <<{1}>>
    OBVIOUS
  <2> QED
    BY <1>1, <1>4, <2>1 DEF ProbesFirst
<1>5. CASE ~HasInit /\ ~ProbesFirst
  <2>1. <<>> \o <<>> = <<>> /\ SegmentCount = 0
    BY <1>5, StreamAssumption DEF ProbesFirst
  <2> QED
    BY <1>1, <1>5, <2>1
<1> QED
  BY <1>1, <1>2, <1>3, <1>4, <1>5

LEMMA ChunkSizeIsPositive == ChunkSize \in Nat \ {0}
BY StreamAssumption, StrictForms DEF ChunkSize

\* A strict batch is one item, the items of the others are chunks of what is left.
LEMMA BatchForms ==
    ASSUME NEW n \in Nat \ {0}
    PROVE  /\ Len(Strict) \in Nat /\ FirstLater \in {1, 2}
           /\ n <= Len(Strict) => \E i \in Items : /\ BatchOf(n) = {i} /\ i < FirstLater
                                                   /\ i = IF HasInit THEN n - 1 ELSE n
           /\ n > Len(Strict) =>
                BatchOf(n) = {i \in FirstLater..SegmentCount :
                                (i - FirstLater) \div ChunkSize = n - Len(Strict) - 1}
<1>1. n > Len(Strict) =>
        BatchOf(n) = {i \in FirstLater..SegmentCount :
                        (i - FirstLater) \div ChunkSize = n - Len(Strict) - 1}
  BY StrictForms DEF BatchOf
<1>2. ASSUME n <= Len(Strict)
      PROVE  \E i \in Items : /\ BatchOf(n) = {i} /\ i < FirstLater
                              /\ i = IF HasInit THEN n - 1 ELSE n
  <2>1. BatchOf(n) = Strict[n]
    BY <1>2 DEF BatchOf
  <2>2. (n = 1 /\ Len(Strict) \in {1, 2}) \/ (n = 2 /\ Len(Strict) = 2)
    BY <1>2, StrictForms
  <2> QED
    BY <2>1, <2>2, StrictForms, StreamAssumption DEF Items, MakesInit
<1> QED
  BY <1>1, <1>2, StrictForms

LEMMA BatchItems ==
    ASSUME NEW n \in Nat \ {0}
    PROVE  BatchOf(n) \subseteq Items
BY BatchForms, StreamAssumption DEF Items

LEMMA ItemsAreNumbers == Items \subseteq Nat
BY StreamAssumption DEF Items

\* A later batch has later items.
LEMMA BatchesAscend ==
    ASSUME NEW m \in Nat \ {0}, NEW n \in Nat \ {0}, m < n,
           NEW i \in BatchOf(m), NEW j \in BatchOf(n)
    PROVE  i < j
<1>0. i \in Nat /\ j \in Nat
  BY BatchItems, ItemsAreNumbers
<1>1. CASE n <= Len(Strict)
  BY <1>0, <1>1, BatchForms
<1>2. CASE m <= Len(Strict) /\ n > Len(Strict)
  <2>1. i < FirstLater /\ FirstLater \in {1, 2}
    BY <1>2, BatchForms
  <2>2. j \in FirstLater..SegmentCount
    BY <1>2, BatchForms
  <2> QED
    BY <1>0, <2>1, <2>2, StreamAssumption
<1>3. CASE m > Len(Strict)
  <2>1. /\ FirstLater \in {1, 2} /\ Len(Strict) \in Nat /\ ChunkSize \in Nat \ {0}
    BY BatchForms, ChunkSizeIsPositive
  <2>2. i \in FirstLater..SegmentCount /\ (i - FirstLater) \div ChunkSize = m - Len(Strict) - 1
    BY <1>3, BatchForms
  <2>3. j \in FirstLater..SegmentCount /\ (j - FirstLater) \div ChunkSize = n - Len(Strict) - 1
    BY <1>3, <2>1, BatchForms
  <2>4. i - FirstLater \in Nat /\ j - FirstLater \in Nat
    BY <2>1, <2>2, <2>3, StreamAssumption
  <2>5. ASSUME j <= i PROVE FALSE
    <3>1. (j - FirstLater) \div ChunkSize <= (i - FirstLater) \div ChunkSize
      BY <1>0, <2>1, <2>4, <2>5, QuotientGrows
    <3> QED
      BY <2>1, <2>2, <2>3, <3>1
  <2> QED
    BY <1>0, <2>5
<1> QED
  BY <1>1, <1>2, <1>3, BatchForms

\* When nothing is left for a batch every item was in an earlier one.
LEMMA BatchesCover ==
    ASSUME NEW n \in Nat \ {0}, BatchOf(n) = {}
    PROVE  Items \subseteq Past(n)
<1> DEFINE k == n - Len(Strict) - 1
<1>1. /\ Len(Strict) \in Nat /\ FirstLater \in {1, 2} /\ ChunkSize \in Nat \ {0}
      /\ n > Len(Strict) /\ k \in Nat
  <2>1. Len(Strict) \in Nat /\ FirstLater \in {1, 2} /\ ChunkSize \in Nat \ {0}
    BY BatchForms, ChunkSizeIsPositive
  <2>2. ~(n <= Len(Strict))
    BY BatchForms
  <2> QED
    BY <2>1, <2>2
<1>2. SUFFICES ASSUME NEW i \in Items PROVE \E m \in 1..(n - 1) : i \in BatchOf(m)
  BY DEF Past
<1>3. CASE i < FirstLater
  <2>1. \E m \in 1..Len(Strict) : Strict[m] = {i}
    BY <1>3, StrictForms, StreamAssumption DEF Items, MakesInit
  <2>2. PICK m \in 1..Len(Strict) : BatchOf(m) = {i}
    BY <1>1, <2>1 DEF BatchOf
  <2> QED
    BY <1>1, <2>2
<1>4. CASE i >= FirstLater
  <2> DEFINE q == (i - FirstLater) \div ChunkSize
  <2>1. i \in FirstLater..SegmentCount /\ i - FirstLater \in Nat
    BY <1>1, <1>4, StreamAssumption DEF Items
  <2>2. q \in Nat /\ q * ChunkSize <= i - FirstLater
    BY <1>1, <2>1, Quotient
  <2>3. q * ChunkSize \in Nat
    BY <1>1, <2>2
  <2>4. i \in BatchOf(q + Len(Strict) + 1)
    <3>1. /\ q + Len(Strict) + 1 \in Nat \ {0} /\ q + Len(Strict) + 1 > Len(Strict)
          /\ q = (q + Len(Strict) + 1) - Len(Strict) - 1
      <4> HIDE DEF q
      <4> QED BY <1>1, <2>2
    <3> QED
      BY <1>1, <2>1, <3>1, BatchForms
  <2> HIDE DEF q
  <2>5. q < k
    <3>1. SUFFICES ASSUME k <= q PROVE FALSE
      BY <1>1, <2>2
    <3>2. k * ChunkSize \in Nat /\ (k * ChunkSize) \div ChunkSize = k
      BY <1>1, QuotientOfProduct
    <3>3. k * ChunkSize <= q * ChunkSize
      <4>1. CASE k = q
        BY <2>3, <4>1
      <4>2. CASE k < q
        BY <1>1, <2>2, <2>3, <3>2, <4>2, Spaced
      <4> QED
        BY <1>1, <2>2, <3>1, <4>1, <4>2
    <3> DEFINE j == FirstLater + k * ChunkSize
    <3>4. j \in FirstLater..SegmentCount /\ j - FirstLater = k * ChunkSize
      BY <1>1, <2>1, <2>2, <2>3, <3>2, <3>3, StreamAssumption
    <3>5. (j - FirstLater) \div ChunkSize = k
      BY <3>2, <3>4
    <3> HIDE DEF j
    <3>6. j \in BatchOf(n)
      BY <1>1, <3>4, <3>5, BatchForms
    <3> QED
      BY <3>6
  <2>6. q + Len(Strict) + 1 \in 1..(n - 1)
    BY <1>1, <2>2, <2>5
  <2> QED
    BY <2>4, <2>6
<1> QED
  BY <1>1, <1>3, <1>4, ItemsAreNumbers

\* What is closed with a batch.
LEMMA PastGrows ==
    ASSUME NEW n \in Nat \ {0}
    PROVE  Past(n + 1) = Past(n) \cup BatchOf(n)
BY BatchItems DEF Past

LEMMA PastIsPast ==
    ASSUME NEW n \in Nat \ {0}, NEW i \in Past(n), NEW j \in BatchOf(n)
    PROVE  i < j
BY BatchesAscend DEF Past

LEMMA BatchIsNew ==
    ASSUME NEW n \in Nat \ {0}, NEW i \in BatchOf(n)
    PROVE  i \in Items /\ i \notin Past(n) /\ (\A m \in Nat \ {0} : i \in BatchOf(m) => m = n)
<1>1. i \in Items /\ i \in Nat
  BY BatchItems, ItemsAreNumbers
<1>2. i \notin Past(n)
  BY <1>1, PastIsPast
<1>3. ASSUME NEW m \in Nat \ {0}, i \in BatchOf(m), m # n PROVE FALSE
  BY <1>1, <1>3, BatchesAscend
<1> QED
  BY <1>1, <1>2, <1>3

-----------------------------------------------------------------------------
(* The steps of a worker, as far as the batches see them.                  *)

\* A worker of the running batch that has not ended takes a step: the session fails,
\* the worker goes on, or it is done.
WorkerMoves(i) ==
    /\ result = "running" /\ i \in BatchOf(batch) /\ work[i].phase \notin Ended
    /\ UNCHANGED <<batch, files, session>>
    /\ \A j \in Items \ {i} : work'[j] = work[j]
    /\ \/ result' = "failed" /\ arrived' = arrived
       \/ result' = result /\ arrived' = arrived /\ work'[i].phase # "done"
       \/ result' = result /\ arrived' = Append(arrived, i) /\ work'[i].phase = "done"

LEMMA WorkingFacts ==
    ASSUME DirInv, NEW i \in Items, NEW phase \in Phases \ Ended, Working(i, phase)
    PROVE  /\ result = "running" /\ i \in BatchOf(batch) /\ work[i].phase = phase
           /\ work[i].phase \notin Ended /\ work[i] \in Worker /\ WorkOK /\ DirOK
BY DEF Working, DirInv, WorkOK

LEMMA GoesOn ==
    ASSUME DirInv, NEW i \in Items, NEW old \in Phases \ Ended, Working(i, old),
           NEW phase \in Phases \ {"done"}, work' = [work EXCEPT ![i].phase = phase], Continue
    PROVE  WorkerMoves(i)
<1>1. (\A j \in Items \ {i} : work'[j] = work[j]) /\ work'[i].phase = phase
  BY PhaseTypes
<1> QED
  BY <1>1, WorkingFacts DEF WorkerMoves, Continue

LEMMA GoesOnAside ==
    ASSUME DirInv, NEW i \in Items, NEW old \in Phases \ Ended, Working(i, old),
           NEW phase \in Phases \ {"done"}, NEW aside \in Contents,
           work' = [work EXCEPT ![i].phase = phase, ![i].aside = aside], Continue
    PROVE  WorkerMoves(i)
<1>1. (\A j \in Items \ {i} : work'[j] = work[j]) /\ work'[i].phase = phase
  BY HookTypes
<1> QED
  BY <1>1, WorkingFacts DEF WorkerMoves, Continue

LEMMA GoesOnAnew ==
    ASSUME DirInv, NEW i \in Items, NEW old \in Phases \ Ended, Working(i, old),
           NEW phase \in Phases \ {"done"},
           work' = [work EXCEPT ![i].phase = phase, ![i].left = Retries], Continue
    PROVE  WorkerMoves(i)
<1>1. WorkOK
  BY DEF DirInv
<1>2. (\A j \in Items \ {i} : work'[j] = work[j]) /\ work'[i].phase = phase
  BY <1>1 DEF WorkOK, Worker
<1> QED
  BY <1>2, WorkingFacts DEF WorkerMoves, Continue

LEMMA IsDone ==
    ASSUME DirInv, NEW i \in Items, NEW old \in Phases \ Ended, Working(i, old), Done(i)
    PROVE  WorkerMoves(i)
<1>1. "done" \in Phases /\ "none" \in Contents
  BY DEF Phases, Contents
<1>2. (\A j \in Items \ {i} : work'[j] = work[j]) /\ work'[i].phase = "done"
  BY <1>1, HookTypes DEF Done
<1> QED
  BY <1>2, WorkingFacts DEF WorkerMoves, Done

LEMMA HookFailure ==
    ASSUME DirInv, NEW i \in Items, NEW old \in Phases \ Ended, Working(i, old), HookFails(i)
    PROVE  WorkerMoves(i)
<1>1. CASE Stop /\ UNCHANGED work
  BY <1>1, WorkingFacts DEF WorkerMoves, Stop
<1>2. CASE work' = [work EXCEPT ![i].phase = "missing"] /\ Continue
  BY <1>2, GoesOn DEF Phases
<1> QED
  BY <1>1, <1>2 DEF HookFails

LEMMA FetchMoves ==
    ASSUME DirInv, NEW i \in Items,
           Look(i) \/ StoreReply(i) \/ AttemptFails(i) \/ StoreFails(i)
    PROVE  WorkerMoves(i)
<1>0. /\ {"waiting", "fetching"} \subseteq Phases \ Ended
      /\ {"fetching", "mismatch", "missing", AfterDownload(i)} \subseteq Phases \ {"done"}
  BY DEF Phases, Ended, AfterDownload
<1>1. CASE Look(i)
  <2> DEFINE found == {p \in {"main", "dec"} : dir[i][p] # "none"}
             picked == IF "main" \in found THEN "main" ELSE "dec"
  <2>1. /\ work[i].phase = "waiting" /\ WorkOK /\ work[i].phase \notin Ended
        /\ result = "running" /\ i \in BatchOf(batch)
    BY <1>0, <1>1, WorkingFacts DEF Look
  <2>2. CASE found = {}
    <3>1. work' = [work EXCEPT ![i].phase = "fetching"] /\ Continue /\ Working(i, "waiting")
      BY <1>1, <2>2 DEF Look
    <3> QED
      BY <1>0, <3>1, GoesOn
  <2>3. CASE found # {}
    <3>1. work' = [work EXCEPT ![i] = [work[i] EXCEPT !.phase = AfterDownload(i), !.path = picked]]
      BY <1>1, <2>3 DEF Look
    <3>2. (\A j \in Items \ {i} : work'[j] = work[j]) /\ work'[i].phase = AfterDownload(i)
      BY <2>1, <3>1 DEF WorkOK, Worker
    <3> QED
      BY <1>0, <1>1, <2>1, <3>2 DEF WorkerMoves, Look, Continue
  <2> QED
    BY <2>2, <2>3
<1>2. CASE StoreReply(i)
  <2>1. PICK phase \in {AfterDownload(i), "mismatch"} :
           work' = [work EXCEPT ![i].phase = phase, ![i].left = Retries]
    BY <1>2 DEF StoreReply
  <2> QED
    BY <1>0, <1>2, <2>1, GoesOnAnew DEF StoreReply
<1>3. CASE StoreFails(i)
  BY <1>0, <1>3, GoesOnAnew DEF StoreFails
<1>4. CASE AttemptFails(i)
  <2>1. Working(i, "fetching") /\ Continue
    BY <1>4 DEF AttemptFails
  <2>2. CASE work' = [work EXCEPT ![i].phase = "missing", ![i].left = Retries]
    BY <1>0, <2>1, <2>2, GoesOnAnew
  <2>3. CASE work' = [work EXCEPT ![i].left = @ - 1]
    <3>1. /\ work[i].phase = "fetching" /\ WorkOK /\ work[i].phase \notin Ended
          /\ result = "running" /\ i \in BatchOf(batch)
      BY <1>0, <2>1, WorkingFacts
    <3>2. (\A j \in Items \ {i} : work'[j] = work[j]) /\ work'[i].phase = "fetching"
      BY <2>3, <3>1 DEF WorkOK, Worker
    <3> QED
      BY <1>0, <2>1, <3>1, <3>2 DEF WorkerMoves, Continue
  <2> QED
    BY <1>4, <2>2, <2>3 DEF AttemptFails
<1> QED
  BY <1>1, <1>2, <1>3, <1>4

LEMMA RewriteMoves ==
    ASSUME DirInv, NEW i \in Items, Rewrite(i)
    PROVE  WorkerMoves(i)
<1>0. /\ {"probed", "rewriting"} \subseteq Phases \ Ended
      /\ {"rewriting", "hook"} \subseteq Phases \ {"done"}
  BY DEF Phases, Ended
<1>1. CASE RewriteInit(i)
  BY <1>0, <1>1, GoesOn DEF RewriteInit
<1>2. CASE InitRewritten(i)
  BY <1>0, <1>2, GoesOn DEF InitRewritten
<1>3. CASE RewriteFails(i)
  BY <1>0, <1>3, WorkingFacts DEF RewriteFails, WorkerMoves, Stop
<1> QED
  BY <1>1, <1>2, <1>3 DEF Rewrite

LEMMA HookMoves ==
    ASSUME DirInv, NEW i \in Items, Hook(i)
    PROVE  WorkerMoves(i)
<1>0. /\ {"hook", "decrypting", "placing", "removing", "renaming"} \subseteq Phases \ Ended
      /\ {"decrypting", "placing", "removing", "renaming"} \subseteq Phases \ {"done"}
  BY DEF Phases, Ended
<1>1. CASE LeaveAsIs(i)
  BY <1>0, <1>1, IsDone DEF LeaveAsIs
<1>2. CASE StartTool(i)
  <2>1. Working(i, "hook") /\ Continue /\ work[i].path \in Paths /\ dir[i] \in [Paths -> Contents]
    BY <1>2, HookFacts DEF StartTool
  <2>2. CASE work' = [work EXCEPT ![i].phase = "decrypting", ![i].aside = dir[i][work[i].path]]
    BY <1>0, <2>1, <2>2, GoesOnAside
  <2>3. CASE work' = [work EXCEPT ![i].phase = "decrypting"]
    BY <1>0, <2>1, <2>3, GoesOn
  <2> QED
    BY <1>2, <2>2, <2>3 DEF StartTool
<1>3. CASE ToolEnds(i)
  <2>1. Working(i, "decrypting") /\ Continue
    BY <1>3 DEF ToolEnds
  <2>2. PICK phase \in {"placing", "removing"} : work' = [work EXCEPT ![i].phase = phase]
    BY <1>3 DEF ToolEnds
  <2> QED
    BY <1>0, <2>1, <2>2, GoesOn
<1>4. CASE PlaceCopy(i)
  BY <1>0, <1>4, GoesOn DEF PlaceCopy
<1>5. CASE ToolFails(i)
  BY <1>0, <1>5, IsDone, HookFailure DEF ToolFails
<1>6. CASE ToolCancelled(i)
  BY <1>0, <1>6, WorkingFacts DEF ToolCancelled, WorkerMoves, Stop
<1>7. CASE RemoveSource(i)
  BY <1>0, <1>7, GoesOn DEF RemoveSource
<1>8. CASE RenameCopy(i)
  BY <1>0, <1>8, IsDone DEF RenameCopy
<1>9. CASE FileError(i)
  BY <1>0, <1>9, HookFailure DEF FileError
<1> QED
  BY <1>1, <1>2, <1>3, <1>4, <1>5, <1>6, <1>7, <1>8, <1>9 DEF Hook

-----------------------------------------------------------------------------
(* The batches and the list of files.                                      *)

LEMMA FileTypes ==
    ASSUME NEW f \in Seq([item : Items, path : Paths])
    PROVE  /\ Len(f) \in Nat /\ DOMAIN f = 1..Len(f)
           /\ \A n \in DOMAIN f : f[n].item \in Items /\ f[n].path \in Paths
<1> DEFINE File == [item : Items, path : Paths]
<1>1. f \in Seq(File)
  OBVIOUS
<1>2. \A r \in File : r.item \in Items /\ r.path \in Paths
  OBVIOUS
<1> HIDE DEF File
<1>3. Len(f) \in Nat /\ DOMAIN f = 1..Len(f) /\ \A n \in DOMAIN f : f[n] \in File
  BY <1>1
<1> QED
  BY <1>2, <1>3

LEMMA InitOrderInv == Init => OrderInv
BY DEF Init, OrderInv, Live

LEMMA StartKeepsOrder ==
    ASSUME OrderInv, StartSession
    PROVE  OrderInv'
<1>1. batch' = 1 /\ arrived' = <<>> /\ files' = <<>> /\ result' = "running"
  BY DEF StartSession
<1>2. \A i \in Items : work'[i].phase = "waiting"
  BY DEF StartSession, Unstarted
<1>3. Past(1) = {}
  BY DEF Past
<1>4. ArrivedInv'
  BY <1>1, <1>2 DEF ArrivedInv
<1>5. FilesInv'
  BY <1>1, <1>2, <1>3 DEF FilesInv
<1>6. ComingInv'
  BY <1>2 DEF ComingInv
<1> QED
  BY <1>1, <1>4, <1>5, <1>6 DEF OrderInv

LEMMA WorkerKeepsOrder ==
    ASSUME OrderInv, NEW i \in Items, WorkerMoves(i)
    PROVE  OrderInv'
<1>1. /\ result = "running" /\ i \in BatchOf(batch) /\ work[i].phase \notin Ended
      /\ batch' = batch /\ files' = files
      /\ \A j \in Items \ {i} : work'[j] = work[j]
      /\ batch \in Nat \ {0} /\ arrived \in Seq(Items)
      /\ files \in Seq([item : Items, path : Paths])
      /\ ArrivedInv /\ FilesInv /\ ComingInv
  BY DEF WorkerMoves, OrderInv, Live
<1>2. /\ i \notin Past(batch) /\ \A m \in 1..Len(Strict) : m < batch => i \notin BatchOf(m)
      /\ \A m \in Nat \ {0} : BatchOf(m) \subseteq Items
  BY <1>1, BatchIsNew, BatchItems
<1>3. arrived' \in Seq(Items) /\ result' # "ok"
  BY <1>1 DEF WorkerMoves
<1>4. CASE result' = "failed"
  BY <1>1, <1>3, <1>4 DEF OrderInv, Live
<1>5. CASE result' = result
  <2>1. Past(batch) \subseteq Items \ {i} /\ Past(batch)' = Past(batch)
    BY <1>1, <1>2 DEF Past
  <2>2. FilesInv'
    <3>1. \A n \in DOMAIN files : files[n].item \in Items \ {i}
      <4>1. \A n \in DOMAIN files : files[n].item \in Items
        BY <1>1, FileTypes
      <4>2. \A n \in DOMAIN files : files[n].item \in Past(batch)
        BY <1>1, <4>1 DEF FilesInv
      <4> QED
        BY <1>2, <4>1, <4>2
    <3>2. \A m \in 1..Len(Strict) : m < batch => \A j \in BatchOf(m) : work'[j] = work[j]
      <4>1. Len(Strict) \in Nat
        BY BatchForms, <1>1
      <4> QED
        BY <1>1, <1>2, <4>1
    <3>3. /\ \A j \in Items :
                (\E n \in DOMAIN files : files[n].item = j)
                   <=> j \in Past(batch) /\ work'[j].phase = "done"
          /\ \A n \in DOMAIN files : files[n].path = work'[files[n].item].path
          /\ \A j \in Past(batch) : work'[j].phase \in Ended
      BY <1>1, <2>1, <3>1 DEF FilesInv
    <3> QED
      BY <1>1, <2>1, <3>2, <3>3 DEF FilesInv
  <2>3. ComingInv'
    BY <1>1, <2>1 DEF ComingInv
  <2>4. ArrivedInv'
    <3>1. CASE arrived' = arrived /\ work'[i].phase # "done"
      BY <1>1, <3>1 DEF ArrivedInv, Ended
    <3>2. CASE arrived' = Append(arrived, i) /\ work'[i].phase = "done"
      <4>1. \A n \in DOMAIN arrived : arrived[n] # i
        BY <1>1 DEF ArrivedInv, Ended
      <4>2. /\ DOMAIN arrived' = 1..(Len(arrived) + 1) /\ DOMAIN arrived = 1..Len(arrived)
            /\ Len(arrived) \in Nat /\ arrived'[Len(arrived) + 1] = i
            /\ \A n \in DOMAIN arrived : arrived'[n] = arrived[n]
        BY <1>1, <3>2
      <4>3. \A m, n \in DOMAIN arrived' : arrived'[m] = arrived'[n] => m = n
        BY <1>1, <4>1, <4>2 DEF ArrivedInv
      <4>4. ASSUME NEW j \in Items
            PROVE  (\E n \in DOMAIN arrived' : arrived'[n] = j)
                     <=> j \in BatchOf(batch) /\ work'[j].phase = "done"
        <5>1. (\E n \in DOMAIN arrived' : arrived'[n] = j)
                <=> j = i \/ \E n \in DOMAIN arrived : arrived[n] = j
          BY <4>2
        <5>2. CASE j = i
          BY <1>1, <3>2, <5>1, <5>2
        <5>3. CASE j # i
          BY <1>1, <5>1, <5>3 DEF ArrivedInv
        <5> QED
          BY <5>2, <5>3
      <4> QED
        BY <1>1, <4>3, <4>4 DEF ArrivedInv
    <3> QED
      BY <1>1, <1>5, <3>1, <3>2 DEF WorkerMoves
  <2> QED
    BY <1>1, <1>3, <2>2, <2>3, <2>4 DEF OrderInv
<1> QED
  BY <1>4, <1>5 DEF WorkerMoves

\* The results of a batch are appended in the order of their items.
LEMMA CloseKeepsOrder ==
    ASSUME DirInv, OrderInv, CloseBatch
    PROVE  OrderInv'
<1>1. /\ result = "running" /\ Settled /\ WorkOK /\ work' = work
      /\ batch \in Nat \ {0} /\ arrived \in Seq(Items)
      /\ files \in Seq([item : Items, path : Paths])
      /\ ArrivedInv /\ FilesInv /\ ComingInv
  BY DEF CloseBatch, OrderInv, Live, DirInv
<1>2. CASE IsStrict /\ arrived = <<>>
  BY <1>1, <1>2 DEF CloseBatch, Stop, OrderInv, Live
<1>3. CASE ~(IsStrict /\ arrived = <<>>)
  <2>1. PICK order \in Bijection(DOMAIN arrived, DOMAIN arrived) :
          /\ Sorts(order, arrived)
          /\ files' = files \o [n \in DOMAIN arrived |->
                                  [item |-> arrived[order[n]], path |-> work[arrived[order[n]]].path]]
    BY <1>3 DEF CloseBatch
  <2>2. arrived' = <<>> /\ batch' = batch + 1 /\ result' = result
    BY <1>3 DEF CloseBatch
  <2> DEFINE new == [n \in DOMAIN arrived |->
                       [item |-> arrived[order[n]], path |-> work[arrived[order[n]]].path]]
             k == Len(files)
  <2>3. /\ DOMAIN arrived = 1..Len(arrived) /\ Len(arrived) \in Nat
        /\ \A n \in DOMAIN arrived : order[n] \in DOMAIN arrived /\ arrived[order[n]] \in Items
        /\ \A n \in DOMAIN arrived : \E m \in DOMAIN arrived : order[m] = n
        /\ \A m, n \in DOMAIN arrived : order[m] = order[n] => m = n
    <3>1. /\ DOMAIN arrived = 1..Len(arrived) /\ Len(arrived) \in Nat
          /\ \A n \in DOMAIN arrived : arrived[n] \in Items
      BY <1>1
    <3>2. /\ order \in [DOMAIN arrived -> DOMAIN arrived]
          /\ \A n \in DOMAIN arrived : \E m \in DOMAIN arrived : order[m] = n
          /\ \A m, n \in DOMAIN arrived : order[m] = order[n] => m = n
      BY <2>1 DEF Bijection, Injection, Surjection, IsInjective
    <3> QED
      BY <3>1, <3>2
  <2>4. new \in Seq([item : Items, path : Paths]) /\ Len(new) = Len(arrived)
    <3>1. \A n \in 1..Len(arrived) : new[n] \in [item : Items, path : Paths]
      BY <1>1, <2>3 DEF WorkOK, Worker
    <3> QED
      BY <2>3, <3>1
  <2>5. /\ files' \in Seq([item : Items, path : Paths]) /\ k \in Nat
        /\ DOMAIN files = 1..k /\ DOMAIN files' = 1..(k + Len(arrived))
        /\ \A n \in 1..k : files'[n] = files[n]
        /\ \A n \in 1..Len(arrived) : files'[k + n] = new[n]
    <3> HIDE DEF new
    <3> QED BY <1>1, <2>1, <2>3, <2>4 DEF new
  <2>6. \A n \in 1..Len(arrived) : /\ new[n].item = arrived[order[n]]
                                   /\ new[n].path = work[arrived[order[n]]].path
    BY <2>3
  <2> HIDE DEF new, k
  <2>7. Past(batch + 1) = Past(batch) \cup BatchOf(batch)
    BY <1>1, PastGrows
  <2>8. \A n \in 1..Len(arrived) : /\ arrived[order[n]] \in BatchOf(batch)
                                   /\ work[arrived[order[n]]].phase = "done"
    BY <1>1, <2>3 DEF ArrivedInv
  <2>9. \A n \in 1..k : files[n].item \in Past(batch) /\ work[files[n].item].phase = "done"
    <3>1. \A n \in 1..k : files[n].item \in Items
      BY <1>1, <2>5, FileTypes
    <3> QED
      BY <1>1, <2>5, <3>1 DEF FilesInv
  <2>10. ASSUME NEW i \in Items
         PROVE  (\E n \in DOMAIN files' : files'[n].item = i)
                  <=> i \in Past(batch + 1) /\ work[i].phase = "done"
    <3>1. ASSUME NEW n \in DOMAIN files', files'[n].item = i
          PROVE  i \in Past(batch + 1) /\ work[i].phase = "done"
      <4>1. CASE n \in 1..k
        BY <2>5, <2>7, <2>9, <3>1, <4>1
      <4>2. CASE n \notin 1..k
        <5>1. n - k \in 1..Len(arrived) /\ n = k + (n - k)
          BY <2>3, <2>5, <4>2
        <5> QED
          BY <2>5, <2>6, <2>7, <2>8, <3>1, <5>1
      <4> QED
        BY <4>1, <4>2
    <3>2. ASSUME i \in Past(batch), work[i].phase = "done"
          PROVE  \E n \in DOMAIN files' : files'[n].item = i
      <4>1. PICK n \in 1..k : files[n].item = i
        BY <1>1, <2>5, <3>2 DEF FilesInv
      <4> QED
        BY <2>3, <2>5, <4>1
    <3>3. ASSUME i \in BatchOf(batch), work[i].phase = "done"
          PROVE  \E n \in DOMAIN files' : files'[n].item = i
      <4>1. PICK m \in 1..Len(arrived) : arrived[m] = i
        BY <1>1, <2>3, <3>3 DEF ArrivedInv
      <4>2. PICK n \in 1..Len(arrived) : order[n] = m
        BY <2>3
      <4>3. k + n \in DOMAIN files' /\ files'[k + n].item = i
        BY <2>3, <2>5, <2>6, <4>1, <4>2
      <4> QED
        BY <4>3
    <3> QED
      BY <2>7, <3>1, <3>2, <3>3
  <2>11. \A n \in DOMAIN files' : files'[n].path = work[files'[n].item].path
    <3> SUFFICES ASSUME NEW n \in DOMAIN files' PROVE files'[n].path = work[files'[n].item].path
      OBVIOUS
    <3>1. CASE n \in 1..k
      BY <1>1, <2>5, <3>1 DEF FilesInv
    <3>2. CASE n \notin 1..k
      <4>1. n - k \in 1..Len(arrived) /\ n = k + (n - k)
        BY <2>3, <2>5, <3>2
      <4> QED
        BY <2>5, <2>6, <4>1
    <3> QED
      BY <3>1, <3>2
  <2>12. ASSUME NEW m \in DOMAIN files', NEW n \in DOMAIN files', m < n
         PROVE  files'[m].item < files'[n].item
    <3>1. CASE n \in 1..k
      <4>1. m \in 1..k
        BY <2>5, <2>12, <3>1
      <4> QED
        BY <1>1, <2>5, <2>12, <3>1, <4>1 DEF FilesInv
    <3>2. CASE m \in 1..k /\ n \notin 1..k
      <4>1. n - k \in 1..Len(arrived) /\ n = k + (n - k)
        BY <2>3, <2>5, <3>2
      <4>2. files'[n].item \in BatchOf(batch) /\ files'[m].item \in Past(batch)
        BY <2>5, <2>6, <2>8, <2>9, <3>2, <4>1
      <4> QED
        BY <1>1, <4>2, PastIsPast
    <3>3. CASE m \notin 1..k /\ n \notin 1..k
      <4> DEFINE p == m - k
                 q == n - k
      <4>1. p \in 1..Len(arrived) /\ q \in 1..Len(arrived) /\ p < q /\ m = k + p /\ n = k + q
        BY <2>3, <2>5, <2>12, <3>3
      <4> HIDE DEF p, q
      <4>2. files'[m].item = arrived[order[p]] /\ files'[n].item = arrived[order[q]]
        BY <2>5, <2>6, <4>1
      <4>3. arrived[order[p]] <= arrived[order[q]]
        BY <2>1, <2>3, <4>1 DEF Sorts
      <4>4. arrived[order[p]] # arrived[order[q]]
        <5>1. /\ p \in DOMAIN arrived /\ q \in DOMAIN arrived /\ p # q
              /\ order[p] \in DOMAIN arrived /\ order[q] \in DOMAIN arrived
          BY <2>3, <4>1
        <5>2. order[p] # order[q]
          BY <2>3, <5>1
        <5> QED
          BY <1>1, <5>1, <5>2 DEF ArrivedInv
      <4>5. arrived[order[p]] \in Nat /\ arrived[order[q]] \in Nat
        BY <2>3, <4>1, ItemsAreNumbers
      <4> QED
        BY <4>2, <4>3, <4>4, <4>5
    <3> QED
      BY <2>5, <2>12, <3>1, <3>2, <3>3
  <2>13. \A i \in Past(batch + 1) : work[i].phase \in Ended
    BY <1>1, <2>7 DEF FilesInv, Settled, Ended
  <2>14. \A m \in 1..Len(Strict) : m < batch + 1 => \A i \in BatchOf(m) : work[i].phase = "done"
    <3> SUFFICES ASSUME NEW m \in 1..Len(Strict), m < batch + 1, NEW i \in BatchOf(m)
                 PROVE  work[i].phase = "done"
      OBVIOUS
    <3>0. m \in Nat \ {0} /\ Len(Strict) \in Nat
      BY BatchForms, <1>1
    <3>1. CASE m < batch
      BY <1>1, <3>1 DEF FilesInv
    <3>2. CASE m = batch
      <4>1. IsStrict /\ Len(arrived) # 0
        BY <1>1, <1>3, <3>0, <3>2 DEF IsStrict
      <4>2. 1 \in DOMAIN arrived /\ arrived[1] \in Items
        BY <1>1, <2>3, <4>1
      <4>3. arrived[1] \in BatchOf(batch) /\ work[arrived[1]].phase = "done"
        BY <1>1, <4>2 DEF ArrivedInv
      <4>4. \E j \in Items : BatchOf(batch) = {j}
        BY <1>1, <4>1, BatchForms DEF IsStrict
      <4> QED
        BY <3>2, <4>3, <4>4
    <3> QED
      BY <1>1, <3>0, <3>1, <3>2
  <2>15. FilesInv'
    BY <1>1, <2>2, <2>10, <2>11, <2>12, <2>13, <2>14 DEF FilesInv
  <2>16. batch + 1 \in Nat \ {0} /\ \A i \in BatchOf(batch + 1) : i \notin Past(batch) /\ i \notin BatchOf(batch)
    <3>1. batch + 1 \in Nat \ {0}
      BY <1>1
    <3> QED
      BY <2>7, <3>1, BatchIsNew
  <2>17. ArrivedInv'
    <3>1. \A i \in Items : i \in BatchOf(batch + 1) => work[i].phase = "waiting"
      BY <1>1, <2>16 DEF ComingInv
    <3> QED
      BY <1>1, <2>2, <3>1 DEF ArrivedInv
  <2>18. ComingInv'
    BY <1>1, <2>2, <2>7 DEF ComingInv
  <2> QED
    BY <1>1, <2>2, <2>5, <2>15, <2>16, <2>17, <2>18 DEF OrderInv
<1> QED
  BY <1>2, <1>3

LEMMA StepKeepsOrder == DirInv /\ OrderInv /\ [Next]_vars => OrderInv'
<1> SUFFICES ASSUME DirInv, OrderInv, [Next]_vars PROVE OrderInv'
  OBVIOUS
<1>1. CASE StartSession
  BY <1>1, StartKeepsOrder
<1>2. CASE CloseBatch
  BY <1>2, CloseKeepsOrder
<1>3. CASE Finish
  BY <1>3 DEF Finish, OrderInv, ArrivedInv, FilesInv, ComingInv, Live, Past
<1>4. CASE Crash
  BY <1>4 DEF Crash, Stop, OrderInv, Live
<1>5. CASE UNCHANGED vars
  BY <1>5 DEF vars, OrderInv, ArrivedInv, FilesInv, ComingInv, Past
<1>6. ASSUME NEW i \in Items,
             \/ Look(i) \/ StoreReply(i) \/ AttemptFails(i) \/ StoreFails(i)
             \/ Rewrite(i) \/ Hook(i)
      PROVE  OrderInv'
  BY <1>6, FetchMoves, RewriteMoves, HookMoves, WorkerKeepsOrder
<1> QED
  BY <1>1, <1>2, <1>3, <1>4, <1>5, <1>6 DEF Next

LEMMA OrderInvHolds == Spec => []OrderInv
BY DirInvHolds, InitOrderInv, StepKeepsOrder, PTL DEF Spec

\* What a session that succeeds hands over.
LEMMA FinishDelivers ==
    ASSUME DirInv, OrderInv, Finish, result' = "ok"
    PROVE  /\ files \in Seq([item : Items, path : Paths])
           /\ \A m, n \in DOMAIN files : m < n => files[m].item < files[n].item
           /\ CheckCount => \A i \in Items : \E n \in DOMAIN files : files[n].item = i
<1>1. /\ BatchOf(batch) = {} /\ With("mismatch") = {}
      /\ CheckCount => With("missing") = {}
      /\ batch \in Nat \ {0} /\ FilesInv /\ files \in Seq([item : Items, path : Paths])
  BY DEF Finish, OrderInv, Live
<1>2. ASSUME CheckCount, NEW i \in Items
      PROVE  \E n \in DOMAIN files : files[n].item = i
  <2>0. batch \in Nat \ {0} /\ BatchOf(batch) = {}
    BY <1>1
  <2>1. i \in Past(batch)
    BY <2>0, BatchesCover
  <2>2. work[i].phase \in Ended /\ work[i].phase \notin {"missing", "mismatch"}
    <3>1. work[i].phase \in Ended
      BY <1>1, <2>1 DEF FilesInv
    <3>2. i \notin With("mismatch") /\ i \notin With("missing")
      BY <1>1, <1>2
    <3> QED
      BY <3>1, <3>2 DEF With
  <2> QED
    BY <1>1, <2>1, <2>2 DEF FilesInv, Ended
<1> QED
  BY <1>1, <1>2 DEF FilesInv

\* The items that the downloader is seen to deliver.
Delivered == [n \in DOMAIN (IF result = "ok" THEN files ELSE <<>>) |-> files[n].item]

LEMMA NothingDelivered ==
    ASSUME result # "ok"
    PROVE  Delivered = <<>>
BY DEF Delivered

LEMMA InitKeepsPromise == Init => Promise!Init
BY NothingDelivered DEF Init, Promise!Init, Delivered

\* A step of the downloader is a step of what it promises, or changes nothing of it.
LEMMA StepKeepsPromise ==
    ASSUME DirInv, OrderInv, [Next]_vars
    PROVE  [Promise!Next]_<<result, Delivered>>
<1>1. CASE StartSession
  <2>1. result # "running" /\ result' = "running"
    BY <1>1 DEF StartSession
  <2>2. Delivered' = <<>>
    BY <2>1 DEF Delivered
  <2> QED
    BY <2>1, <2>2 DEF Promise!Next, Promise!Begin, Delivered
<1>2. CASE Finish /\ result' = "ok"
  <2>1. result = "running" /\ files' = files
    BY <1>2 DEF Finish
  <2>2. /\ files \in Seq([item : Items, path : Paths])
        /\ \A m, n \in DOMAIN files : m < n => files[m].item < files[n].item
        /\ CheckCount => \A i \in Items : \E n \in DOMAIN files : files[n].item = i
    BY <1>2, FinishDelivers
  <2>3. Delivered' = [n \in DOMAIN files |-> files[n].item]
    BY <1>2, <2>1 DEF Delivered
  <2>4. Delivered' \in Seq(Items)
    <3>1. /\ Len(files) \in Nat /\ DOMAIN files = 1..Len(files)
          /\ \A n \in DOMAIN files : files[n].item \in Items
      BY <2>2, FileTypes
    <3>2. Delivered' = [n \in 1..Len(files) |-> files[n].item]
      BY <2>3, <3>1
    <3> QED
      BY <3>1, <3>2
  <2>5. Promise!InOrder(Delivered') /\ Promise!Complete(Delivered')
    BY <2>2, <2>3 DEF Promise!InOrder, Promise!Complete
  <2> QED
    BY <1>2, <2>1, <2>4, <2>5 DEF Promise!Next, Promise!Deliver, Delivered
<1>3. CASE result = "running" /\ result' = "failed"
  <2>1. Delivered = <<>> /\ Delivered' = <<>>
    BY <1>3 DEF Delivered
  <2> QED
    BY <1>3, <2>1 DEF Promise!Next, Promise!Fail, Delivered
<1>4. CASE result = "running" /\ result' = "running"
  <2>1. Delivered = <<>> /\ Delivered' = <<>>
    BY <1>4 DEF Delivered
  <2> QED
    BY <1>4, <2>1
<1>5. CASE UNCHANGED vars
  BY <1>5 DEF vars, Delivered
<1>6. ASSUME NEW i \in Items, WorkerMoves(i)
      PROVE  result = "running" /\ result' \in {"running", "failed"}
  BY <1>6 DEF WorkerMoves
<1>7. ASSUME CloseBatch \/ Crash PROVE result = "running" /\ result' \in {"running", "failed"}
  BY <1>7 DEF CloseBatch, Crash, Stop
<1>8. ASSUME Finish PROVE result = "running" /\ result' \in {"ok", "failed"}
  BY <1>8 DEF Finish
<1> QED
  BY <1>1, <1>2, <1>3, <1>4, <1>5, <1>6, <1>7, <1>8, FetchMoves, RewriteMoves, HookMoves DEF Next

\* For streams of any length, any number of workers and retries, and whatever decrypts
\* in real time: the downloader does what StreamFetch says.  A download that succeeds
\* hands over its files in merge order, however the workers of a chunk overtake each
\* other (download_segments_concurrent), and all of them when the count is checked.
THEOREM PromiseIsKept == Spec => KeepsPromise
<1>1. DirInv /\ OrderInv /\ [Next]_vars => [Promise!Next]_<<result, Delivered>>
  BY StepKeepsPromise
<1> QED
  BY <1>1, InitKeepsPromise, DirInvHolds, OrderInvHolds, PTL
  DEF Spec, KeepsPromise, Promise!Spec, Delivered

-----------------------------------------------------------------------------
(* What the files hold.                                                    *)

\* The worker of a first Smooth Streaming segment that has rewritten the init
\* segment: it is written out from then on.
Rewritten == {"hook", "decrypting", "placing", "removing", "renaming", "done"}

RewrittenInv ==
    result \in Live =>
        \A i \in Items : MakesInit(i) /\ work[i].phase \in Rewritten =>
                             dir[0][work[0].path] \notin {"none", "torn"}

\* In a first session only the worker of a body that is shorter than announced leaves one.
Clean(i) == (\A p \in Paths : dir[i][p] # "short") /\ work[i].aside # "short"

FirstInv ==
    /\ session \in Nat
    /\ session = 0 => result = "idle" /\ \A i \in Items : work[i] = Unstarted
    /\ session <= 1 => \A i \in Items : work[i].phase # "mismatch" => Clean(i)

Fetch(i) == Look(i) \/ StoreReply(i) \/ AttemptFails(i) \/ StoreFails(i)

\* The worker of an item leaves the files of the others alone.
LEMMA OtherFiles ==
    ASSUME DirInv, NEW i \in Items, Fetch(i) \/ Hook(i)
    PROVE  \A j \in Items \ {i} : dir'[j] = dir[j]
<1>1. DirOK
  BY DEF DirInv
<1>2. CASE Fetch(i)
  BY <1>1, <1>2 DEF Fetch, Look, StoreReply, AttemptFails, StoreFails, DirOK
<1>3. CASE LeaveAsIs(i) \/ FileError(i)
  BY <1>3 DEF LeaveAsIs, FileError
<1>4. CASE StartTool(i) \/ PlaceCopy(i) \/ RemoveSource(i)
  BY <1>1, <1>4 DEF StartTool, PlaceCopy, RemoveSource, DirOK
<1>5. CASE ToolEnds(i) \/ ToolFails(i) \/ ToolCancelled(i)
  BY <1>1, <1>5 DEF ToolEnds, ToolFails, ToolCancelled, Restored, DirOK
<1>6. CASE RenameCopy(i)
  BY <1>1, <1>6 DEF RenameCopy, DirOK
<1> QED
  BY <1>2, <1>3, <1>4, <1>5, <1>6 DEF Hook

\* The init segment and the first segment of a Smooth Streaming stream come alone.
LEMMA SmoothBatches ==
    ASSUME NEW i \in Items, MakesInit(i)
    PROVE  i = 1 /\ 0 \in Items /\ BatchOf(1) = {0} /\ BatchOf(2) = {1} /\ Len(Strict) = 2
<1>1. i = 1 /\ HasInit /\ ForceProbe /\ SegmentCount > 0
  BY StreamAssumption DEF MakesInit, Items
<1>2. Strict = <<{0}, {1}>>
  BY <1>1, StrictForms
<1> QED
  BY <1>1, <1>2 DEF BatchOf, Items

LEMMA FetchKeepsRewritten ==
    ASSUME DirInv, OrderInv, RewrittenInv, NEW i \in Items, Fetch(i) \/ Hook(i)
    PROVE  RewrittenInv'
<1>1. WorkerMoves(i)
  BY FetchMoves, HookMoves DEF Fetch
<1>2. \A j \in Items \ {i} : dir'[j] = dir[j] /\ work'[j] = work[j]
  BY <1>1, OtherFiles DEF WorkerMoves
<1>3. /\ result = "running" /\ i \in BatchOf(batch) /\ batch \in Nat \ {0}
      /\ ComingInv /\ WorkOK
  BY <1>1 DEF WorkerMoves, OrderInv, DirInv, Live
<1> SUFFICES ASSUME NEW j \in Items, MakesInit(j), work'[j].phase \in Rewritten
             PROVE  dir'[0][work'[0].path] \notin {"none", "torn"}
  BY DEF RewrittenInv
<1>4. j = 1 /\ 0 \in Items /\ BatchOf(1) = {0} /\ BatchOf(2) = {1}
  BY SmoothBatches
<1>5. CASE i = 0
  <2>1. batch = 1
    BY <1>3, <1>4, <1>5, BatchIsNew
  <2>2. 1 \notin Past(batch) /\ 1 \notin BatchOf(batch)
    BY <1>4, <2>1 DEF Past
  <2>3. work'[1].phase = "waiting"
    BY <1>2, <1>3, <1>4, <1>5, <2>2 DEF ComingInv
  <2> QED
    BY <1>4, <2>3 DEF Rewritten
<1>6. CASE i # 0
  <2>1. dir'[0] = dir[0] /\ work'[0] = work[0]
    BY <1>2, <1>4, <1>6
  <2>2. work[j].phase \in Rewritten
    <3>1. CASE i # j
      BY <1>2, <3>1
    <3>2. CASE i = j /\ Hook(i)
      BY <3>2 DEF Hook, LeaveAsIs, StartTool, ToolEnds, PlaceCopy, ToolFails, ToolCancelled,
                  RemoveSource, RenameCopy, FileError, Working, Rewritten
    <3>3. CASE i = j /\ Fetch(i)
      <4>1. AfterDownload(i) = "probed"
        BY <3>3 DEF AfterDownload
      <4>2. work'[i].phase \in {"fetching", "probed", "mismatch", "missing"}
        <5>1. CASE Look(i)
          <6> DEFINE found == {p \in {"main", "dec"} : dir[i][p] # "none"}
                     picked == IF "main" \in found THEN "main" ELSE "dec"
          <6>1. work' = [work EXCEPT ![i] =
                           IF found = {} THEN [@ EXCEPT !.phase = "fetching"]
                           ELSE [@ EXCEPT !.phase = AfterDownload(i), !.path = picked]]
            BY <5>1 DEF Look
          <6> HIDE DEF found, picked
          <6> QED
            BY <1>3, <4>1, <6>1 DEF WorkOK, Worker
        <5>2. CASE StoreReply(i)
          BY <1>3, <4>1, <5>2 DEF StoreReply, WorkOK, Worker
        <5>3. CASE AttemptFails(i)
          BY <1>3, <5>3 DEF AttemptFails, Working, WorkOK, Worker
        <5>4. CASE StoreFails(i)
          BY <1>3, <5>4 DEF StoreFails, WorkOK, Worker
        <5> QED
          BY <3>3, <5>1, <5>2, <5>3, <5>4 DEF Fetch
      <4> QED
        BY <3>3, <4>2 DEF Rewritten
    <3> QED
      BY <3>1, <3>2, <3>3
  <2> QED
    BY <1>3, <2>1, <2>2 DEF RewrittenInv, Live
<1> QED
  BY <1>5, <1>6

\* The rewriting ends with the init segment under the path the session reports.
LEMMA RewriteKeepsRewritten ==
    ASSUME DirInv, OrderInv, RewrittenInv, NEW i \in Items, Rewrite(i)
    PROVE  RewrittenInv'
<1>1. CASE RewriteFails(i)
  BY <1>1 DEF RewriteFails, Stop, RewrittenInv, Live
<1>2. CASE RewriteInit(i) \/ InitRewritten(i)
  <2>1. /\ Working(i, "probed") \/ Working(i, "rewriting")
        /\ DirOK /\ WorkOK /\ Progress(i) /\ result = "running" /\ i \in BatchOf(batch)
        /\ batch \in Nat \ {0} /\ FilesInv /\ files \in Seq([item : Items, path : Paths])
    BY <1>2 DEF RewriteInit, InitRewritten, Working, DirInv, OrderInv, Live
  <2>2. MakesInit(i)
    BY <2>1 DEF Working, Progress
  <2>3. i = 1 /\ 0 \in Items /\ BatchOf(1) = {0} /\ BatchOf(2) = {1} /\ Len(Strict) = 2
    BY <2>2, SmoothBatches
  <2>4. batch = 2
    BY <2>1, <2>3, BatchIsNew
  <2>5. 0 \in Past(batch) /\ work[0].phase = "done"
    BY <2>1, <2>3, <2>4 DEF Past, FilesInv
  <2>6. files[1].item = 0 /\ 1 \in DOMAIN files
    <3>1. PICK n \in DOMAIN files : files[n].item = 0
      BY <2>1, <2>3, <2>5 DEF FilesInv
    <3>2. n \in 1..Len(files) /\ Len(files) \in Nat /\ DOMAIN files = 1..Len(files)
      BY <2>1, FileTypes
    <3>3. 1 \in DOMAIN files /\ files[1].item \in Items
      <4>1. 1 \in 1..Len(files)
        BY <3>2
      <4> QED
        BY <2>1, <3>2, <4>1, FileTypes
    <3>5. files[1].item \in Nat
      BY <3>3, ItemsAreNumbers
    <3>4. ASSUME n # 1 PROVE FALSE
      BY <2>1, <3>1, <3>2, <3>3, <3>4, <3>5 DEF FilesInv
    <3> QED
      BY <3>1, <3>2, <3>4
  <2>7. files[1].path = work[0].path /\ work[0].path \in Paths
    BY <2>1, <2>3, <2>6 DEF FilesInv, WorkOK, Worker
  <2>8. \A j \in Items : MakesInit(j) => j = i
    BY <2>3, SmoothBatches
  <2>9. CASE RewriteInit(i)
    <3>1. work'[i].phase = "rewriting"
      BY <2>1, <2>9 DEF RewriteInit, WorkOK, Worker
    <3> QED
      BY <2>8, <3>1 DEF RewrittenInv, Rewritten
  <2>10. CASE InitRewritten(i)
    <3>1. dir'[0][work[0].path] = "fetched"
      BY <2>1, <2>3, <2>7, <2>10 DEF InitRewritten, DirOK
    <3>2. work'[0] = work[0]
      BY <2>1, <2>3, <2>10 DEF InitRewritten, WorkOK, Worker
    <3> QED
      BY <3>1, <3>2 DEF RewrittenInv
  <2> QED
    BY <1>2, <2>9, <2>10
<1> QED
  BY <1>1, <1>2 DEF Rewrite

LEMMA StepKeepsRewritten == DirInv /\ OrderInv /\ RewrittenInv /\ [Next]_vars => RewrittenInv'
<1> SUFFICES ASSUME DirInv, OrderInv, RewrittenInv, [Next]_vars PROVE RewrittenInv'
  OBVIOUS
<1>1. CASE StartSession
  BY <1>1 DEF StartSession, Unstarted, RewrittenInv, Rewritten
<1>2. CASE CloseBatch \/ Finish \/ Crash \/ UNCHANGED vars
  BY <1>2 DEF CloseBatch, Finish, Crash, Stop, vars, RewrittenInv, Live
<1>3. ASSUME NEW i \in Items,
             \/ Look(i) \/ StoreReply(i) \/ AttemptFails(i) \/ StoreFails(i)
             \/ Rewrite(i) \/ Hook(i)
      PROVE  RewrittenInv'
  BY <1>3, FetchKeepsRewritten, RewriteKeepsRewritten DEF Fetch
<1> QED
  BY <1>1, <1>2, <1>3 DEF Next

LEMMA RewrittenHolds == Spec => []RewrittenInv
<1>1. Init => RewrittenInv
  BY DEF Init, RewrittenInv, Live
<1> QED
  BY <1>1, DirInvHolds, OrderInvHolds, StepKeepsRewritten, PTL DEF Spec

LEMMA InvariantsGiveFiles ==
    ASSUME DirInv, OrderInv, RewrittenInv
    PROVE  FilesAreThere
<1> SUFFICES ASSUME result = "ok", NEW n \in DOMAIN files
             PROVE  dir[files[n].item][files[n].path] \notin {"none", "torn"}
  BY DEF FilesAreThere
<1> DEFINE i == files[n].item
<1>1. /\ batch \in Nat \ {0} /\ BatchOf(batch) = {} /\ FilesInv
      /\ files \in Seq([item : Items, path : Paths]) /\ \A j \in Items : Progress(j)
  BY DEF OrderInv, DirInv, Live
<1>2. i \in Items
  BY <1>1, FileTypes
<1>3. work[i].phase = "done" /\ files[n].path = work[i].path
  BY <1>1, <1>2 DEF FilesInv
<1> HIDE DEF i
<1>4. dir[i][work[i].path] \notin Bad(i)
  BY <1>1, <1>2, <1>3 DEF Progress
<1>5. CASE i \in Kept
  BY <1>3, <1>4, <1>5 DEF Bad, i
<1>6. CASE i \notin Kept
  <2>1. i = 0 /\ 1 \in Items /\ MakesInit(1)
    BY <1>2, <1>6, StreamAssumption DEF Kept, Items, MakesInit
  <2>2. BatchOf(1) = {0} /\ BatchOf(2) = {1} /\ Len(Strict) = 2
    BY <2>1, SmoothBatches
  <2>3. 2 \in 1..Len(Strict) /\ 2 < batch /\ 1 \in BatchOf(2)
    BY <1>1, <2>2
  <2>4. work[1].phase = "done"
    BY <1>1, <2>3 DEF FilesInv
  <2> QED
    BY <1>3, <2>1, <2>4 DEF RewrittenInv, Rewritten, Live, i
<1> QED
  BY <1>5, <1>6

\* Whatever tool decrypts and whatever the sessions before it left: the files that a
\* session hands over are there, under the paths its workers report, and none of them is
\* torn; the init segment that it rewrites is written out (run_external_decrypt_in_place,
\* rewrite_mss_init_from_first_segment).
THEOREM FilesHandedOver == Spec => []FilesAreThere
BY InvariantsGiveFiles, DirInvHolds, OrderInvHolds, RewrittenHolds, PTL

-----------------------------------------------------------------------------
(* Bodies that ended early.                                                *)

LEMMA FetchKeepsClean ==
    ASSUME DirInv, NEW i \in Items, Fetch(i), Clean(i), work'[i].phase # "mismatch"
    PROVE  Clean(i)'
<1>1. DirOK /\ WorkOK
  BY DEF DirInv
<1>2. work'[i].aside = work[i].aside
  <2>1. CASE Look(i)
    <3> DEFINE found == {p \in {"main", "dec"} : dir[i][p] # "none"}
               picked == IF "main" \in found THEN "main" ELSE "dec"
    <3>1. work' = [work EXCEPT ![i] =
                     IF found = {} THEN [@ EXCEPT !.phase = "fetching"]
                     ELSE [@ EXCEPT !.phase = AfterDownload(i), !.path = picked]]
      BY <2>1 DEF Look
    <3> HIDE DEF found, picked
    <3> QED
      BY <1>1, <3>1 DEF WorkOK, Worker
  <2>2. CASE StoreReply(i)
    BY <1>1, <2>2 DEF StoreReply, WorkOK, Worker
  <2>3. CASE AttemptFails(i)
    BY <1>1, <2>3 DEF AttemptFails, WorkOK, Worker
  <2>4. CASE StoreFails(i)
    BY <1>1, <2>4 DEF StoreFails, WorkOK, Worker
  <2> QED
    BY <2>1, <2>2, <2>3, <2>4 DEF Fetch
<1>3. \A p \in Paths : dir'[i][p] = dir[i][p] \/ dir'[i][p] # "short"
  <2>1. CASE StoreReply(i)
    <3>1. PICK reply \in Replies :
            /\ dir' = [dir EXCEPT ![i]["main"] = Stored(reply)]
            /\ work' = [work EXCEPT ![i].phase =
                          IF Succeeds(reply) THEN AfterDownload(i) ELSE "mismatch",
                        ![i].left = Retries]
      BY <2>1 DEF StoreReply
    <3>2. Stored(reply) # "short"
      BY <1>1, <3>1 DEF WorkOK, Worker, Succeeds, Stored
    <3> QED
      BY <1>1, <3>1, <3>2 DEF DirOK
  <2> QED
    BY <2>1 DEF Fetch, Look, AttemptFails, StoreFails
<1> QED
  BY <1>2, <1>3 DEF Clean

LEMMA HookKeepsClean ==
    ASSUME DirInv, NEW i \in Items, Hook(i), Clean(i)
    PROVE  Clean(i)'
<1>1. /\ DirOK /\ WorkOK /\ work[i].path \in Paths /\ DecPath(work[i].path) \in Paths
      /\ dir[i] \in [Paths -> Contents] /\ work[i].aside \in Contents
  BY DEF DirInv, DirOK, WorkOK, Worker, DecPath, Paths
<1>2. \A c \in Contents : c # "short" => Decryption(c) # "short" /\ Decryption(c) \in Contents
  BY DEF Decryption, Contents
<1>3. work'[i].aside \in {work[i].aside, "none"} \cup {dir[i][p] : p \in Paths}
  <2>1. CASE work' = work
    BY <2>1
  <2>2. ASSUME NEW phase \in Phases, work' = [work EXCEPT ![i].phase = phase]
        PROVE  work'[i].aside = work[i].aside
    BY <2>2, PhaseTypes
  <2>3. ASSUME NEW phase \in Phases, NEW aside \in Contents,
               work' = [work EXCEPT ![i].phase = phase, ![i].aside = aside]
        PROVE  work'[i].aside = aside
    BY <2>3, HookTypes
  <2>4. {"done", "missing", "decrypting", "placing", "removing", "renaming"} \subseteq Phases
        /\ "none" \in Contents /\ dir[i][work[i].path] \in Contents
    BY <1>1 DEF Phases, Contents
  <2>5. CASE LeaveAsIs(i) \/ RenameCopy(i)
    BY <2>3, <2>4, <2>5 DEF LeaveAsIs, RenameCopy, Done
  <2>6. CASE FileError(i)
    BY <2>1, <2>2, <2>4, <2>6 DEF FileError, HookFails
  <2>7. CASE StartTool(i)
    BY <1>1, <2>2, <2>3, <2>4, <2>7 DEF StartTool
  <2>8. CASE ToolEnds(i)
    BY <2>2, <2>4, <2>8 DEF ToolEnds
  <2>9. CASE PlaceCopy(i) \/ RemoveSource(i)
    BY <2>2, <2>4, <2>9 DEF PlaceCopy, RemoveSource
  <2>10. CASE ToolFails(i)
    BY <2>1, <2>2, <2>3, <2>4, <2>10 DEF ToolFails, HookFails, Done
  <2>11. CASE ToolCancelled(i)
    BY <2>11 DEF ToolCancelled
  <2> QED
    BY <2>5, <2>6, <2>7, <2>8, <2>9, <2>10, <2>11 DEF Hook
<1>4. ASSUME NEW p \in Paths PROVE dir'[i][p] # "short"
  <2>1. ASSUME NEW q \in Paths, NEW c \in Contents, c # "short", dir' = [dir EXCEPT ![i][q] = c]
        PROVE  dir'[i][p] # "short"
    BY <2>1, DirTypes DEF Clean
  <2>2. CASE dir' = dir
    BY <2>2 DEF Clean
  <2>3. \A q \in Paths : dir[i][q] # "short" /\ dir[i][q] \in Contents
    BY <1>1 DEF Clean
  <2>4. work[i].aside # "short" /\ {"none", "torn"} \subseteq Contents
    BY DEF Clean, Contents
  <2>5. CASE dir' = Restored(i)
    BY <1>1, <2>1, <2>2, <2>4, <2>5 DEF Restored
  <2>6. CASE LeaveAsIs(i) \/ FileError(i)
    BY <2>2, <2>6 DEF LeaveAsIs, FileError
  <2>7. CASE StartTool(i)
    BY <1>1, <2>1, <2>4, <2>7 DEF StartTool
  <2>8. CASE ToolEnds(i)
    <3>1. CASE Engine = "mp4decrypt"
      BY <2>5, <2>8, <3>1 DEF ToolEnds
    <3>2. CASE Engine # "mp4decrypt"
      BY <1>1, <1>2, <2>1, <2>3, <2>8, <3>2 DEF ToolEnds
    <3> QED
      BY <3>1, <3>2
  <2>9. CASE PlaceCopy(i)
    BY <1>1, <1>2, <2>1, <2>4, <2>9 DEF PlaceCopy
  <2>10. CASE ToolFails(i) \/ ToolCancelled(i)
    BY <2>2, <2>5, <2>10 DEF ToolFails, ToolCancelled
  <2>11. CASE RemoveSource(i)
    BY <1>1, <2>1, <2>4, <2>11 DEF RemoveSource
  <2>12. CASE RenameCopy(i)
    BY <1>1, <2>3, <2>12 DEF RenameCopy, DirOK
  <2> QED
    BY <2>6, <2>7, <2>8, <2>9, <2>10, <2>11, <2>12 DEF Hook
<1>5. work'[i].aside # "short"
  BY <1>3 DEF Clean
<1> QED
  BY <1>4, <1>5 DEF Clean

LEMMA RewriteKeepsClean ==
    ASSUME DirInv, NEW i \in Items, Rewrite(i), NEW j \in Items, Clean(j)
    PROVE  Clean(j)'
<1>1. DirOK /\ WorkOK
  BY DEF DirInv
<1>2. \A p \in Paths : dir'[j][p] = dir[j][p] \/ dir'[j][p] \in {"torn", "fetched"}
  BY <1>1 DEF Rewrite, RewriteInit, InitRewritten, RewriteFails, DirOK
<1>3. work'[j].aside = work[j].aside
  BY <1>1 DEF Rewrite, RewriteInit, InitRewritten, RewriteFails, WorkOK, Worker
<1> QED
  BY <1>2, <1>3 DEF Clean

\* A worker whose body was shorter than announced does not take another step.
LEMMA WorkerKeepsFirst ==
    ASSUME DirInv, FirstInv, NEW i \in Items, Fetch(i) \/ Rewrite(i) \/ Hook(i)
    PROVE  FirstInv'
<1>1. WorkerMoves(i)
  BY FetchMoves, RewriteMoves, HookMoves DEF Fetch
<1>2. /\ result = "running" /\ session' = session /\ session \in Nat /\ session # 0
      /\ work[i].phase # "mismatch" /\ \A j \in Items \ {i} : work'[j] = work[j]
  BY <1>1 DEF WorkerMoves, FirstInv, Ended
<1>3. ASSUME session <= 1, NEW j \in Items, work'[j].phase # "mismatch"
      PROVE  Clean(j)'
  <2>1. Clean(j)
    BY <1>2, <1>3 DEF FirstInv
  <2>2. CASE Rewrite(i)
    BY <2>1, <2>2, RewriteKeepsClean
  <2>3. CASE (Fetch(i) \/ Hook(i)) /\ j # i
    BY <1>2, <2>1, <2>3, OtherFiles DEF Clean
  <2>4. CASE (Fetch(i) \/ Hook(i)) /\ j = i
    BY <1>3, <2>1, <2>4, FetchKeepsClean, HookKeepsClean
  <2> QED
    BY <2>2, <2>3, <2>4
<1> QED
  BY <1>2, <1>3 DEF FirstInv

LEMMA StepKeepsFirst == DirInv /\ FirstInv /\ [Next]_vars => FirstInv'
<1> SUFFICES ASSUME DirInv, FirstInv, [Next]_vars PROVE FirstInv'
  OBVIOUS
<1>1. CASE StartSession
  <2>1. session' = session + 1 /\ session \in Nat /\ dir' = dir /\ work' = [i \in Items |-> Unstarted]
    BY <1>1 DEF StartSession, FirstInv
  <2>2. ASSUME session' <= 1, NEW i \in Items PROVE Clean(i)'
    <3>1. session = 0 /\ work[i] = Unstarted /\ work'[i] = Unstarted
      BY <2>1, <2>2 DEF FirstInv
    <3>2. Clean(i)
      BY <2>1, <3>1 DEF FirstInv, Unstarted
    <3> QED
      BY <2>1, <3>1, <3>2 DEF Clean
  <2> QED
    BY <2>1, <2>2 DEF FirstInv
<1>2. CASE CloseBatch \/ Finish \/ Crash \/ UNCHANGED vars
  <2>1. UNCHANGED <<dir, work, session>> /\ (result' = result \/ result = "running")
    BY <1>2 DEF CloseBatch, Finish, Crash, Stop, vars
  <2> QED
    BY <2>1 DEF FirstInv, Clean
<1>3. ASSUME NEW i \in Items,
             \/ Look(i) \/ StoreReply(i) \/ AttemptFails(i) \/ StoreFails(i)
             \/ Rewrite(i) \/ Hook(i)
      PROVE  FirstInv'
  BY <1>3, WorkerKeepsFirst DEF Fetch
<1> QED
  BY <1>1, <1>2, <1>3 DEF Next

\* In a first session over its directory no body that is shorter than its response
\* announced is taken for a segment, however often it is fetched again and whatever
\* decrypts it (ensure_content_lengths).  A body that ends early without a Content-Length
\* is: nothing tells it from a whole one.
THEOREM FirstFilesAnnounced == Spec => []FilesAreAsAnnounced
<1>1. Init => FirstInv
  BY DEF Init, FirstInv, Clean, Unstarted
<1>2. ASSUME DirInv, OrderInv, FirstInv, FilesAreThere PROVE FilesAreAsAnnounced
  <2> SUFFICES ASSUME result = "ok", session = 1, NEW n \in DOMAIN files
               PROVE  dir[files[n].item][files[n].path] \in {"fetched", "clear", "cut"}
    BY <1>2 DEF FilesAreAsAnnounced
  <2>1. FilesInv /\ files \in Seq([item : Items, path : Paths]) /\ DirOK
    BY <1>2 DEF OrderInv, DirInv, Live
  <2>2. files[n].item \in Items /\ files[n].path \in Paths
    BY <2>1, FileTypes
  <2>3. work[files[n].item].phase = "done"
    BY <2>1, <2>2 DEF FilesInv
  <2>4. dir[files[n].item][files[n].path] # "short"
    BY <1>2, <2>2, <2>3 DEF FirstInv, Clean
  <2>5. dir[files[n].item][files[n].path] \in Contents \ {"none", "torn"}
    BY <1>2, <2>1, <2>2 DEF FilesAreThere, DirOK
  <2> QED
    BY <2>4, <2>5 DEF Contents
<1> QED
  BY <1>1, <1>2, StepKeepsFirst, DirInvHolds, OrderInvHolds, FilesHandedOver, PTL DEF Spec
=============================================================================
