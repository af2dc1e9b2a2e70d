-------------------------- MODULE LiveOutputProofs --------------------------
(* The outputs of a live recording. No file of a live batch is deleted before   *)
(* its writer has read it, and every pipe carries its stream, for any streams   *)
(* and batches, and for any capacity and read-ahead of the muxer; and the       *)
(* recording of an HTTP transport stream begins its file, for any number of     *)
(* recordings into it and any chunks.                                           *)
EXTENDS MCLiveOutput, FiniteSetTheorems, SequenceTheorems, TLAPS

\* What a recording of this kind can download at all.
Files == UNION {UNION {ToSet(FilesOf(s, r)) : r \in 1..Len(rec.upto)} : s \in Streams}

\* A job is well formed, a job with files left is still owed, and the files of
\* a batch exist until it is handed over.
BatchInv ==
  /\ rec \in Recordings /\ round \in 1..Len(rec.upto)
  /\ queue \in [Pipes -> Seq(Files)]
  /\ \A k \in Pipes : queue[k] # <<>> => k \in owed
  /\ pc \in {"starting", "spawning", "feeding"} =>
       \A s \in Streams : ToSet(FilesOf(s, round)) \subseteq disk

Inv == BatchInv /\ FilesOutliveJobs

\* Nothing of a recording's plan depends on anything but its kind.
LEMMA PlanKept ==
  ASSUME rec' = rec
  PROVE  /\ Streams' = Streams /\ Media' = Media /\ Pipes' = Pipes /\ Files' = Files
         /\ \A s, r : FilesOf(s, r)' = FilesOf(s, r)
<1>1. Streams' = Streams /\ \A s : IsSub(s)' = IsSub(s)
  BY DEF Streams, IsSub
<1>2. Media' = Media
  BY <1>1 DEF Media
<1>3. Pipes' = Pipes
  BY <1>2 DEF Pipes
<1>4. \A s, r : Before(s, r)' = Before(s, r)
  BY DEF Before
<1>5. Files' = Files /\ \A s, r : FilesOf(s, r)' = FilesOf(s, r)
  BY <1>1, <1>4 DEF Files, FilesOf
<1> QED BY <1>1, <1>2, <1>3, <1>5

\* Streams deliver more and more files.
LEMMA CountsGrow ==
  ASSUME rec \in Recordings, NEW s \in Streams, NEW r \in 1..Len(rec.upto)
  PROVE  rec.upto[r][s] \in Nat /\ Before(s, r) \in Nat /\ Before(s, r) <= rec.upto[r][s]
<1>1. /\ rec.upto \in Seq([Streams -> Nat]) /\ Len(rec.upto) \in Nat
      /\ \A b \in 2..Len(rec.upto) : \A x \in Streams : rec.upto[b - 1][x] <= rec.upto[b][x]
  <2>1. rec.upto \in Seq([Streams -> Nat])
    BY PipeAssumption DEF PipeAssumption, Streams
  <2>2. \A b \in 2..Len(rec.upto) : \A x \in Streams : rec.upto[b - 1][x] <= rec.upto[b][x]
    BY PipeAssumption DEF PipeAssumption, Streams
  <2> QED BY <2>1, <2>2, LenProperties
<1>2. \A b \in 1..Len(rec.upto) : rec.upto[b][s] \in Nat
  <2> TAKE b \in 1..Len(rec.upto)
  <2>1. rec.upto[b] \in [Streams -> Nat]
    BY <1>1
  <2> QED BY <2>1
<1>3. CASE r = 1
  BY <1>2, <1>3 DEF Before
<1>4. CASE r # 1
  <2>1. r - 1 \in 1..Len(rec.upto) /\ r \in 2..Len(rec.upto)
    BY <1>1, <1>4
  <2> QED BY <1>1, <1>2, <1>4, <2>1 DEF Before
<1> QED BY <1>3, <1>4

\* The files of a stream in a batch are a sequence of the recording's files.
LEMMA FilesOfType ==
  ASSUME rec \in Recordings, NEW s \in Streams, NEW r \in 1..Len(rec.upto)
  PROVE  FilesOf(s, r) \in Seq(Files)
<1> DEFINE n == rec.upto[r][s] - Before(s, r)
<1>1. n \in Nat
  BY CountsGrow
<1>2. FilesOf(s, r) \in [1..n -> ToSet(FilesOf(s, r))]
  BY DEF ToSet, FilesOf
<1>3. ToSet(FilesOf(s, r)) \subseteq Files
  BY DEF Files
<1>4. FilesOf(s, r) \in [1..n -> Files]
  BY <1>2, <1>3
<1> QED BY <1>1, <1>4

\* A file names its stream.
LEMMA FirstOfFile ==
  ASSUME NEW s, NEW r, NEW f \in ToSet(FilesOf(s, r))
  PROVE  f[1] = s
<1>1. PICK j \in 1..(rec.upto[r][s] - Before(s, r)) : f = <<s, Before(s, r) + j>>
  BY DEF ToSet, FilesOf
<1> QED BY <1>1

\* A job is a batch of one stream that has a pipe, or nothing.
LEMMA JobIsBatch ==
  ASSUME BatchInv, NEW k \in Pipes
  PROVE  /\ Job(k) \in Seq(Files)
         /\ \/ Job(k) = <<>>
            \/ \E s \in Media : Job(k) = FilesOf(s, round)
<1> DEFINE S == {s \in InBatch(round) \cap Media : PipeOf(s, round) = k}
<1>1. CASE S = {}
  <2>1. Job(k) = <<>>
    BY <1>1 DEF Job
  <2> QED BY <2>1
<1>2. CASE S # {}
  <2>1. (CHOOSE s \in S : TRUE) \in S
    BY <1>2
  <2>2. PICK s \in Media : Job(k) = FilesOf(s, round)
    BY <1>2, <2>1 DEF Job
  <2>3. s \in Streams
    BY DEF Media
  <2>4. Job(k) \in Seq(Files)
    BY <2>2, <2>3, FilesOfType DEF BatchInv
  <2> QED BY <2>2, <2>4
<1> QED BY <1>1, <1>2

\* What no session and no writer does leaves the invariant alone.
LEMMA Elsewhere ==
  ASSUME Inv, UNCHANGED <<rec, round, disk, queue, owed>>,
         pc' \in {"starting", "spawning", "feeding"} => pc \in {"starting", "spawning", "feeding"}
  PROVE  Inv'
BY PlanKept DEF Inv, BatchInv, FilesOutliveJobs

LEMMA InitInv == Init => Inv
<1> SUFFICES ASSUME Init PROVE Inv
  OBVIOUS
<1>1. rec \in Recordings /\ round = 1 /\ queue = [k \in Pipes |-> <<>>]
  BY DEF Init
<1>2. 1 \in 1..Len(rec.upto)
  <2>1. rec.upto \in Seq([1..Len(rec.kinds) -> Nat]) /\ Len(rec.upto) > 0
    BY <1>1, PipeAssumption DEF PipeAssumption
  <2> QED BY <2>1
<1>3. queue \in [Pipes -> Seq(Files)]
  BY <1>1
<1>4. \A s \in Streams : ToSet(FilesOf(s, 1)) \subseteq disk
  BY DEF Init
<1>5. BatchInv
  BY <1>1, <1>2, <1>3, <1>4 DEF BatchInv
<1>6. FilesOutliveJobs
  BY <1>1 DEF FilesOutliveJobs, ToSet
<1> QED BY <1>5, <1>6 DEF Inv

\* Only subtitles are deleted when a batch is handed over; they have no pipe.
LEMMA FeedKeeps ==
  ASSUME Inv, Feed
  PROVE  Inv'
<1>1. /\ BatchInv /\ rec' = rec /\ round' = round /\ pc' = "acknowledging"
      /\ queue' = [k \in Pipes |-> Job(k)] /\ owed' = {k \in Pipes : Job(k) # <<>>}
      /\ \A s \in Streams : ToSet(FilesOf(s, round)) \subseteq disk
      /\ disk \ SubFiles \subseteq disk'
  BY DEF Inv, BatchInv, Feed
<1>2. Pipes' = Pipes /\ Files' = Files
  BY <1>1, PlanKept
<1>3. queue' \in [Pipes' -> Seq(Files')]
  BY <1>1, <1>2, JobIsBatch
<1>4. \A k \in Pipes' : queue'[k] # <<>> => k \in owed'
  BY <1>1, <1>2
<1>5. BatchInv'
  BY <1>1, <1>3, <1>4 DEF BatchInv
<1>6. ASSUME NEW k \in Pipes, NEW f \in ToSet(Job(k))
      PROVE  f \in disk'
  <2>1. PICK s \in Media : f \in ToSet(FilesOf(s, round))
    BY <1>1, JobIsBatch DEF ToSet
  <2>2. f[1] = s /\ f \in disk
    BY <1>1, <2>1, FirstOfFile DEF Media
  <2>3. f \notin SubFiles
    <3> SUFFICES ASSUME f \in SubFiles PROVE FALSE
      OBVIOUS
    <3>1. PICK t \in Streams : IsSub(t) /\ f \in ToSet(FilesOf(t, round))
      BY DEF SubFiles, InBatch
    <3>2. f[1] = t
      BY <3>1, FirstOfFile
    <3> QED BY <2>2, <3>1, <3>2 DEF Media
  <2> QED BY <1>1, <2>2, <2>3
<1>7. FilesOutliveJobs'
  BY <1>1, <1>2, <1>6 DEF FilesOutliveJobs
<1> QED BY <1>5, <1>7 DEF Inv

\* All jobs are done when the directories of a batch are deleted.
LEMMA AcknowledgedKeeps ==
  ASSUME Inv, Acknowledged
  PROVE  Inv'
<1>1. /\ rec' = rec /\ round' = round /\ queue' = queue /\ owed' = owed
      /\ pc' \in {"finishing", "waiting"} /\ \A k \in Pipes : queue[k] = <<>>
  BY DEF Inv, BatchInv, Acknowledged, pipes
<1>2. Pipes' = Pipes /\ Files' = Files
  BY <1>1, PlanKept
<1>3. BatchInv'
  BY <1>1, <1>2 DEF Inv, BatchInv
<1>4. FilesOutliveJobs'
  BY <1>1, <1>2 DEF FilesOutliveJobs, ToSet
<1> QED BY <1>3, <1>4 DEF Inv

LEMMA NextBatchKeeps ==
  ASSUME Inv, NextBatch
  PROVE  Inv'
<1>1. /\ rec' = rec /\ round' = round + 1 /\ queue' = queue /\ owed' = owed
      /\ disk' = disk \cup UNION {ToSet(FilesOf(s, round + 1)) : s \in Streams}
      /\ round < Len(rec.upto) /\ round \in 1..Len(rec.upto)
  BY DEF Inv, BatchInv, NextBatch, pipes
<1>2. /\ Pipes' = Pipes /\ Files' = Files /\ Streams' = Streams
      /\ \A s, r : FilesOf(s, r)' = FilesOf(s, r)
  BY <1>1, PlanKept
<1>3. round' \in 1..Len(rec.upto)
  BY <1>1
<1>4. \A s \in Streams : ToSet(FilesOf(s, round + 1)) \subseteq disk'
  BY <1>1
<1>5. BatchInv'
  <2>1. \A s \in Streams' : ToSet(FilesOf(s, round)') \subseteq disk'
    BY <1>1, <1>2, <1>4 DEF FilesOf, Before
  <2> QED BY <1>1, <1>2, <1>3, <2>1 DEF Inv, BatchInv, ToSet
<1>6. FilesOutliveJobs'
  BY <1>1, <1>2 DEF Inv, FilesOutliveJobs
<1> QED BY <1>5, <1>6 DEF Inv

LEMMA WriteKeeps ==
  ASSUME Inv, NEW k \in Pipes, WriteFile(k) \/ Acknowledge(k)
  PROVE  Inv'
<1>1. Pipes' = Pipes /\ Files' = Files /\ UNCHANGED <<rec, round, disk, pc>>
  BY PlanKept DEF WriteFile, Acknowledge, session
<1>2. CASE WriteFile(k)
  <2>1. /\ queue[k] \in Seq(Files) /\ queue[k] # <<>>
        /\ queue' = [queue EXCEPT ![k] = Tail(@)] /\ owed' = owed
    BY <1>2 DEF Inv, BatchInv, WriteFile
  <2>2. Tail(queue[k]) \in Seq(Files) /\ ToSet(Tail(queue[k])) \subseteq ToSet(queue[k])
    BY <2>1 DEF ToSet
  <2>3. queue' \in [Pipes -> Seq(Files)]
    BY <2>1, <2>2 DEF Inv, BatchInv
  <2>4. \A l \in Pipes : queue'[l] # <<>> => l \in owed'
    BY <2>1 DEF Inv, BatchInv
  <2>5. \A l \in Pipes : ToSet(queue'[l]) \subseteq disk
    BY <2>1, <2>2 DEF Inv, BatchInv, FilesOutliveJobs
  <2>6. BatchInv'
    BY <1>1, <2>3, <2>4, PlanKept DEF Inv, BatchInv
  <2>7. FilesOutliveJobs'
    BY <1>1, <2>5 DEF FilesOutliveJobs
  <2> QED BY <2>6, <2>7 DEF Inv
<1>3. CASE Acknowledge(k)
  <2>1. queue' = queue /\ queue[k] = <<>> /\ owed' = owed \ {k}
    BY <1>3 DEF Acknowledge
  <2>2. BatchInv'
    BY <1>1, <2>1, PlanKept DEF Inv, BatchInv
  <2>3. FilesOutliveJobs'
    BY <1>1, <2>1 DEF Inv, FilesOutliveJobs
  <2> QED BY <2>2, <2>3 DEF Inv
<1> QED BY <1>2, <1>3

LEMMA StepInv == Inv /\ [Next]_vars => Inv'
<1> SUFFICES ASSUME Inv, [Next]_vars PROVE Inv'
  OBVIOUS
<1>1. CASE Session
  <2>1. CASE Feed
    BY <2>1, FeedKeeps
  <2>2. CASE Acknowledged
    BY <2>2, AcknowledgedKeeps
  <2>3. CASE NextBatch
    BY <2>3, NextBatchKeeps
  <2>4. CASE NoMedia \/ CreatePipes \/ SpawnMux \/ NoticeCancel
    BY <2>4, Elsewhere DEF NoMedia, CreatePipes, SpawnMux, NoticeCancel, Dropped, session, pipes
  <2>5. CASE Finish \/ Joined \/ ChildCancelled \/ ChildExited
    BY <2>5, Elsewhere DEF Finish, Joined, ChildCancelled, ChildExited, session, pipes
  <2> QED BY <1>1, <2>1, <2>2, <2>3, <2>4, <2>5 DEF Session
<1>2. CASE Cancel \/ Fails
  BY <1>2, Elsewhere DEF Cancel, Fails, Dropped, session, pipes
<1>3. ASSUME NEW k \in Pipes, Write(k) \/ ReadInput(k) PROVE Inv'
  <2>1. CASE WriteFile(k) \/ Acknowledge(k)
    BY <2>1, WriteKeeps
  <2>2. CASE OpenPipe(k) \/ EndWriter(k) \/ ReadInput(k)
    BY <2>2, Elsewhere DEF OpenPipe, EndWriter, ReadInput, session
  <2> QED BY <1>3, <2>1, <2>2 DEF Write
<1>4. CASE OpenInput \/ ExitMux \/ MuxDies
  BY <1>4, Elsewhere DEF OpenInput, ExitMux, MuxDies, session
<1>5. CASE UNCHANGED vars
  BY <1>5, Elsewhere DEF vars
<1> QED BY <1>1, <1>2, <1>3, <1>4, <1>5 DEF Next

\* A downloaded file is deleted, one by one (subtitles) or with the temporary
\* directory of its batch, only after the thread of its pipe has read it
\* (session.rs, stream_downloads_to_live_pipe and write_stream_files_parallel).
THEOREM FilesOutlive == Spec => []FilesOutliveJobs
<1>1. Inv => FilesOutliveJobs
  BY DEF Inv
<1> QED BY <1>1, InitInv, StepInv, PTL DEF Spec

-----------------------------------------------------------------------------
(* What the pipes carry.                                                       *)

\* Every media stream has a pipe of its own, and every pipe a stream.
LEMMA PipesMatch ==
  ASSUME rec \in Recordings
  PROVE  /\ \A s, t \in Media : PipeIndex(s) = PipeIndex(t) => s = t
         /\ \A k \in Pipes : StreamOf(k) \in Media /\ PipeIndex(StreamOf(k)) = k
<1> DEFINE Upto(s) == {t \in Media : t <= s}
           n == Cardinality(Media)
<1>1. /\ Len(rec.kinds) \in Nat /\ Streams = 1..Len(rec.kinds) /\ Media \subseteq Streams
      /\ \A s \in Media : s \in Nat /\ s \in Upto(s)
  <2>1. rec.kinds \in Seq({"av", "sub"})
    BY PipeAssumption DEF PipeAssumption
  <2> QED BY <2>1 DEF Streams, Media
<1>2. IsFiniteSet(Media) /\ n \in Nat /\ \A s \in Media : IsFiniteSet(Upto(s)) /\ s \in Nat
  <2>1. IsFiniteSet(Streams)
    BY <1>1, FS_Interval
  <2>2. IsFiniteSet(Media)
    BY <1>1, <2>1, FS_Subset
  <2>3. \A s \in Media : IsFiniteSet(Upto(s))
    <3> TAKE s \in Media
    <3>1. Upto(s) \subseteq Media
      OBVIOUS
    <3> QED BY <2>2, <3>1, FS_Subset
  <2> QED BY <1>1, <2>2, <2>3, FS_CardinalityType
<1>3. \A s \in Media : PipeIndex(s) = Cardinality(Upto(s)) /\ PipeIndex(s) \in 1..n
  <2> TAKE s \in Media
  <2>1. Upto(s) \subseteq Media /\ s \in Upto(s)
    BY <1>1
  <2>2. Cardinality(Upto(s)) <= n /\ Cardinality(Upto(s)) \in Nat
    BY <1>2, <2>1, FS_Subset, FS_CardinalityType
  <2>3. Cardinality(Upto(s)) # 0
    BY <1>2, <2>1, FS_EmptySet
  <2> QED BY <1>2, <2>2, <2>3 DEF PipeIndex
<1>4. \A s, t \in Media : s < t => PipeIndex(s) # PipeIndex(t)
  <2> SUFFICES ASSUME NEW s \in Media, NEW t \in Media, s < t, PipeIndex(s) = PipeIndex(t)
               PROVE  FALSE
    OBVIOUS
  <2>1. Upto(s) \subseteq Upto(t) /\ t \in Upto(t) /\ t \notin Upto(s)
    <3>1. \A x \in Media : x <= s => x <= t
      BY <1>1
    <3>2. ~(t <= s)
      BY <1>1
    <3> QED BY <1>1, <3>1, <3>2
  <2>2. Cardinality(Upto(s)) = Cardinality(Upto(t))
    BY <1>3
  <2> HIDE DEF Upto
  <2>3. Upto(s) = Upto(t)
    BY <1>2, <2>1, <2>2, FS_Subset
  <2> QED BY <2>1, <2>3
<1>5. \A s, t \in Media : PipeIndex(s) = PipeIndex(t) => s = t
  <2>1. \A s, t \in Media : s # t => s < t \/ t < s
    BY <1>1
  <2> QED BY <1>4, <2>1
<1>6. \A k \in Pipes : \E s \in Media : PipeIndex(s) = k
  <2> DEFINE f == [s \in Media |-> PipeIndex(s)]
             I == {f[s] : s \in Media}
  <2>1. f \in Injection(Media, I) /\ f \in Surjection(Media, I)
    BY <1>5 DEF Injection, IsInjective, Surjection
  <2>2. f \in Bijection(Media, I)
    BY <2>1 DEF Bijection
  <2>3. IsFiniteSet(I) /\ Cardinality(I) = n
    <3> HIDE DEF f, I
    <3>1. ExistsBijection(Media, I)
      BY <2>2 DEF ExistsBijection
    <3>2. Cardinality(I) = Cardinality(Media) /\ IsFiniteSet(I)
      BY <1>2, <3>1, FS_Bijection, Zenon
    <3> QED BY <3>2
  <2>4. I \subseteq 1..n
    BY <1>3
  <2>5. IsFiniteSet(1..n) /\ Cardinality(1..n) = n
    BY <1>2, FS_Interval
  <2> HIDE DEF I
  <2>6. I = 1..n
    BY <2>3, <2>4, <2>5, FS_Subset
  <2> QED BY <2>6 DEF I, Pipes
<1> QED BY <1>5, <1>6 DEF StreamOf

LEMMA PipesFinite ==
  ASSUME rec \in Recordings
  PROVE  Cardinality(Media) \in Nat
<1>1. rec.kinds \in Seq({"av", "sub"})
  BY PipeAssumption DEF PipeAssumption
<1>2. Len(rec.kinds) \in Nat
  BY <1>1
<1>3. IsFiniteSet(Streams) /\ Media \subseteq Streams
  BY <1>2, FS_Interval DEF Streams, Media
<1> QED BY <1>3, FS_Subset, FS_CardinalityType

\* What comes first of a stream.
LEMMA FirstFilesType ==
  ASSUME NEW s \in Streams, NEW n \in Nat
  PROVE  /\ FirstFiles(s, n) \in Seq(FileType) /\ Len(FirstFiles(s, n)) = n
         /\ DOMAIN FirstFiles(s, n) = 1..n /\ \A j \in 1..n : FirstFiles(s, n)[j] = <<s, j>>
<1>1. FirstFiles(s, n) \in [1..n -> FileType]
  BY DEF FirstFiles, FileType
<1>2. FirstFiles(s, n) \in Seq(FileType)
  BY <1>1
<1> QED BY <1>2, LenProperties DEF FirstFiles

LEMMA FirstFilesOnly ==
  ASSUME NEW s \in Streams, NEW q \in Seq(FileType), \A j \in 1..Len(q) : q[j] = <<s, j>>
  PROVE  q = FirstFiles(s, Len(q))
<1> DEFINE f == FirstFiles(s, Len(q))
<1>1. f \in Seq(FileType) /\ Len(f) = Len(q) /\ \A j \in 1..Len(f) : f[j] = q[j]
  <2>1. Len(q) \in Nat
    OBVIOUS
  <2> QED BY <2>1, FirstFilesType
<1> HIDE DEF f
<1>2. f = q
  BY <1>1, SeqEqual
<1> QED BY <1>2 DEF f

LEMMA FirstFilesJoined ==
  ASSUME NEW s \in Streams, NEW p \in Seq(FileType), NEW q \in Seq(FileType),
         \A j \in 1..Len(p) : p[j] = <<s, j>>, \A j \in 1..Len(q) : q[j] = <<s, Len(p) + j>>
  PROVE  p \o q = FirstFiles(s, Len(p) + Len(q))
<1> HIDE DEF FileType
<1>1. p \o q \in Seq(FileType) /\ Len(p \o q) = Len(p) + Len(q)
  OBVIOUS
<1>2. \A j \in 1..(Len(p) + Len(q)) : (p \o q)[j] = <<s, j>>
  <2> TAKE j \in 1..(Len(p) + Len(q))
  <2>1. CASE j <= Len(p)
    <3>1. j \in 1..Len(p) /\ (p \o q)[j] = p[j]
      BY <2>1
    <3> QED BY <3>1
  <2>2. CASE j > Len(p)
    <3>1. /\ j - Len(p) \in 1..Len(q) /\ (p \o q)[j] = q[j - Len(p)]
          /\ Len(p) + (j - Len(p)) = j
      BY <2>2
    <3> QED BY <3>1
  <2> QED BY <2>1, <2>2
<1> QED BY <1>1, <1>2, FirstFilesOnly

\* A batch goes on where the one before it ended.
LEMMA FilesFollow ==
  ASSUME rec \in Recordings, NEW s \in Streams, NEW r \in 1..Len(rec.upto)
  PROVE  /\ FilesOf(s, r) \in Seq(FileType)
         /\ FirstFiles(s, Before(s, r)) \o FilesOf(s, r) = FirstFiles(s, rec.upto[r][s])
<1> DEFINE b == Before(s, r)
           u == rec.upto[r][s]
<1>1. b \in Nat /\ u \in Nat /\ b <= u
  BY CountsGrow
<1>2. FilesOf(s, r) = [j \in 1..(u - b) |-> <<s, b + j>>]
  BY DEF FilesOf
<1> HIDE DEF b, u
<1>3. /\ FilesOf(s, r) \in Seq(FileType) /\ Len(FilesOf(s, r)) = u - b
      /\ \A j \in 1..(u - b) : FilesOf(s, r)[j] = <<s, b + j>>
  <2>1. FilesOf(s, r) \in [1..(u - b) -> FileType]
    BY <1>1, <1>2 DEF FileType
  <2>2. FilesOf(s, r) \in Seq(FileType)
    BY <1>1, <2>1
  <2>3. Len(FilesOf(s, r)) = u - b
    BY <1>1, <1>2, <2>2, LenProperties
  <2> QED BY <1>2, <2>2, <2>3
<1>4. FirstFiles(s, b) \o FilesOf(s, r) = FirstFiles(s, b + (u - b))
  <2> DEFINE p == FirstFiles(s, b)
  <2>1. p \in Seq(FileType) /\ Len(p) = b /\ \A j \in 1..Len(p) : p[j] = <<s, j>>
    BY <1>1, FirstFilesType
  <2> HIDE DEF p
  <2>2. p \o FilesOf(s, r) = FirstFiles(s, Len(p) + Len(FilesOf(s, r)))
    BY <1>3, <2>1, FirstFilesJoined
  <2> QED BY <1>3, <2>1, <2>2 DEF p
<1>5. b + (u - b) = u
  BY <1>1
<1> QED BY <1>3, <1>4, <1>5 DEF b, u

\* A beginning of a beginning.
LEMMA FirstFilesCut ==
  ASSUME NEW s \in Streams, NEW n \in Nat, NEW p \in Seq(FileType), NEW q \in Seq(FileType),
         p \o q = FirstFiles(s, n)
  PROVE  p = FirstFiles(s, Len(p)) /\ Len(p) <= n
<1> HIDE DEF FileType
<1>1. Len(p \o q) = Len(p) + Len(q) /\ Len(p \o q) = n /\ Len(p) \in Nat /\ Len(q) \in Nat
  BY FirstFilesType
<1>2. \A j \in 1..Len(p) : p[j] = <<s, j>>
  <2> TAKE j \in 1..Len(p)
  <2>1. p[j] = (p \o q)[j] /\ j \in 1..n
    BY <1>1
  <2> QED BY <2>1, FirstFilesType
<1> QED BY <1>1, <1>2, FirstFilesOnly

LEMMA FirstFilesBegin ==
  ASSUME NEW s \in Streams, NEW n \in Nat, NEW m \in Nat, n <= m
  PROVE  IsPrefix(FirstFiles(s, n), FirstFiles(s, m))
<1>1. Len(FirstFiles(s, n)) = n /\ Len(FirstFiles(s, m)) = m
  BY FirstFilesType
<1>2. SubSeq(FirstFiles(s, n), 1, n) = SubSeq(FirstFiles(s, m), 1, n)
  BY DEF FirstFiles
<1> QED BY <1>1, <1>2 DEF IsPrefix

LEMMA Associates ==
  ASSUME NEW S, NEW p \in Seq(S), NEW q \in Seq(S), NEW r \in Seq(S)
  PROVE  p \o q \o r = p \o (q \o r)
<1>1. p \o q \in Seq(S) /\ q \o r \in Seq(S)
  OBVIOUS
<1>2. p \o q \o r \in Seq(S) /\ p \o (q \o r) \in Seq(S)
  BY <1>1
<1>3. /\ Len(p \o q \o r) = Len(p \o (q \o r))
      /\ \A j \in 1..Len(p \o q \o r) : (p \o q \o r)[j] = (p \o (q \o r))[j]
  BY <1>1
<1> QED BY <1>2, <1>3, SeqEqual

\* The first of one sequence goes to the end of the one before it.
LEMMA PassesFirst ==
  ASSUME NEW S, NEW p \in Seq(S), NEW q \in Seq(S), q # <<>>
  PROVE  /\ Append(p, Head(q)) \in Seq(S) /\ Tail(q) \in Seq(S)
         /\ Append(p, Head(q)) \o Tail(q) = p \o q
<1>1. /\ Append(p, Head(q)) \in Seq(S) /\ Tail(q) \in Seq(S)
      /\ Len(Append(p, Head(q))) = Len(p) + 1 /\ Len(Tail(q)) = Len(q) - 1
  OBVIOUS
<1>2. \A j \in 1..(Len(p) + Len(q)) : (Append(p, Head(q)) \o Tail(q))[j] = (p \o q)[j]
  OBVIOUS
<1> QED BY <1>1, <1>2, SeqEqual

\* The files of a pipe's stream, from ffmpeg back to the session.
Way(k) == got[k] \o fifo[k] \o queue[k]
Fed(k, n) == Way(k) = FirstFiles(StreamOf(k), n)
Handed == {"acknowledging", "waiting", "finishing"}
Ending == {"joining", "child", "finished"}

PipesInv ==
  /\ got \in [Pipes -> Seq(FileType)] /\ fifo \in [Pipes -> Seq(FileType)]
  /\ queue \in [Pipes -> Seq(FileType)]
  /\ opened \in Nat /\ DOMAIN writer = Pipes
\* What the pipes carry in each phase; at every moment it is the beginning of the stream.
WayInv ==
  /\ \A k \in Pipes : \E n \in 0..rec.upto[round][StreamOf(k)] : Fed(k, n)
  /\ pc \in {"starting", "spawning"} => round = 1
  /\ pc \in {"starting", "spawning", "feeding"} =>
       \A k \in Pipes : queue[k] = <<>> /\ Fed(k, Before(StreamOf(k), round))
  /\ pc \in Handed => \A k \in Pipes : Fed(k, rec.upto[round][StreamOf(k)])
  /\ pc \in {"waiting", "finishing"} => owed = {}
\* As long as the session holds the senders no writer and no muxer ends. Later
\* only pipes that are never read lose anything.
EndInv ==
  /\ pc = "starting" => mux = "none" /\ \A k \in Pipes : writer[k] = "none"
  /\ pc \in {"spawning", "feeding"} \cup Handed => senders
  /\ pc = "starting" \/ senders => mux # "exited" /\ \A k \in Pipes : writer[k] # "ended"
  /\ \A k \in Pipes : writer[k] = "ended" => queue[k] = <<>>
  /\ pc \in Ending => \A k \in Pipes :
       writer[k] # "ended" \/ (k <= opened /\ mux = "running") =>
         Fed(k, rec.upto[round][StreamOf(k)])
  /\ pc \in Ending /\ mux = "exited" =>
       opened = Cardinality(Pipes) /\ \E k \in Pipes : got[k] = Wanted(k)
  /\ pc = "finished" => mux = "exited" /\ ~named
MuxInv == PipesInv /\ WayInv /\ EndInv

\* Of a pipe's stream there are files, in no batch fewer than before.
LEMMA PipeCounts ==
  ASSUME BatchInv, NEW k \in Pipes
  PROVE  /\ StreamOf(k) \in Media /\ StreamOf(k) \in Streams
         /\ rec.upto[round][StreamOf(k)] \in Nat /\ Before(StreamOf(k), round) \in Nat
         /\ Before(StreamOf(k), round) <= rec.upto[round][StreamOf(k)]
<1>1. rec \in Recordings /\ round \in 1..Len(rec.upto)
  BY DEF BatchInv
<1>2. StreamOf(k) \in Media /\ StreamOf(k) \in Streams
  BY <1>1, PipesMatch DEF Media
<1> QED BY <1>1, <1>2, CountsGrow

\* A pipe's job is what its stream brought in this batch.
LEMMA JobFollows ==
  ASSUME BatchInv, NEW k \in Pipes
  PROVE  /\ Job(k) \in Seq(FileType)
         /\ FirstFiles(StreamOf(k), Before(StreamOf(k), round)) \o Job(k)
              = FirstFiles(StreamOf(k), rec.upto[round][StreamOf(k)])
<1> DEFINE z == StreamOf(k)
           S == {s \in InBatch(round) \cap Media : PipeOf(s, round) = k}
<1>1. rec \in Recordings /\ round \in 1..Len(rec.upto) /\ z \in Media /\ z \in Streams
  BY PipeCounts DEF BatchInv
<1>2. S = {} \/ S = {z}
  BY <1>1, PipesMatch DEF PipeOf
<1>3. CASE S = {z}
  <2>1. (CHOOSE s \in S : TRUE) = z
    BY <1>3
  <2>2. Job(k) = FilesOf(z, round)
    BY <1>3, <2>1 DEF Job
  <2> QED BY <1>1, <2>2, FilesFollow
<1>4. CASE S = {}
  <2>1. Job(k) = <<>>
    BY <1>4 DEF Job
  <2>2. z \notin InBatch(round)
    BY <1>1, <1>4, PipesMatch DEF PipeOf
  <2>3. Before(z, round) = rec.upto[round][z]
    BY <1>1, <2>2, PipeCounts DEF InBatch
  <2>4. FirstFiles(z, Before(z, round)) \in Seq(FileType)
    BY <1>1, PipeCounts, FirstFilesType
  <2>5. FirstFiles(z, Before(z, round)) \o <<>> = FirstFiles(z, Before(z, round))
    BY <2>4, ConcatEmptySeq
  <2> QED BY <2>1, <2>3, <2>5
<1> HIDE DEF S
<1> QED BY <1>2, <1>3, <1>4

LEMMA MuxInit == Init /\ BatchInv => MuxInv
<1> SUFFICES ASSUME Init, BatchInv PROVE MuxInv
  OBVIOUS
<1>1. /\ pc = "starting" /\ round = 1 /\ senders = FALSE /\ mux = "none" /\ opened = 0
      /\ got = [k \in Pipes |-> <<>>] /\ fifo = [k \in Pipes |-> <<>>]
      /\ queue = [k \in Pipes |-> <<>>] /\ writer = [k \in Pipes |-> "none"]
  BY DEF Init
<1>2. PipesInv
  BY <1>1 DEF PipesInv
<1>3. \A k \in Pipes : queue[k] = <<>> /\ Fed(k, 0)
  BY <1>1 DEF Fed, Way, FirstFiles
<1>4. \A k \in Pipes : Before(StreamOf(k), round) = 0 /\ rec.upto[round][StreamOf(k)] \in Nat
  BY <1>1, PipeCounts DEF Before
<1>5. WayInv
  BY <1>1, <1>3, <1>4 DEF WayInv, Handed
<1>6. EndInv
  BY <1>1 DEF EndInv, Handed, Ending
<1> QED BY <1>2, <1>5, <1>6 DEF MuxInv

\* What a step that brings no batch leaves of the plan.
LEMMA WantedKept ==
  ASSUME UNCHANGED <<rec, round>>
  PROVE  /\ Pipes' = Pipes /\ FileType' = FileType
         /\ \A k : /\ StreamOf(k)' = StreamOf(k) /\ Wanted(k)' = Wanted(k)
                   /\ rec.upto[round][StreamOf(k)]' = rec.upto[round][StreamOf(k)]
                   /\ Before(StreamOf(k), round)' = Before(StreamOf(k), round)
         /\ \A k, n : Way(k)' = Way(k) => (Fed(k, n)' <=> Fed(k, n))
<1>1. Streams' = Streams /\ Media' = Media /\ Pipes' = Pipes
  BY PlanKept
<1>2. \A k : StreamOf(k)' = StreamOf(k)
  BY <1>1 DEF StreamOf, PipeIndex
<1>3. \A k, n : FirstFiles(k, n)' = FirstFiles(k, n)
  BY DEF FirstFiles
<1>4. \A k : Wanted(k)' = Wanted(k) /\ Before(StreamOf(k), round)' = Before(StreamOf(k), round)
  BY <1>2 DEF Wanted, Before, FirstFiles
<1>5. \A k, n : Way(k)' = Way(k) => (Fed(k, n)' <=> Fed(k, n))
  BY <1>2 DEF Fed, FirstFiles
<1> QED BY <1>1, <1>2, <1>4, <1>5 DEF FileType

\* Steps of the session that leave the pipes alone.
LEMMA SessionKeeps ==
  ASSUME BatchInv, MuxInv,
         \/ NoMedia \/ CreatePipes \/ SpawnMux \/ Acknowledged \/ NoticeCancel \/ Finish
         \/ Joined \/ ChildCancelled \/ ChildExited \/ Cancel \/ Fails
  PROVE  MuxInv'
<1>1. UNCHANGED <<rec, round, got, fifo, queue, opened>>
  BY DEF NoMedia, CreatePipes, SpawnMux, Acknowledged, NoticeCancel, Finish, Joined,
         ChildCancelled, ChildExited, Cancel, Fails, Dropped, session, pipes
<1>2. \A k : Way(k)' = Way(k)
  BY <1>1 DEF Way
<1>3. /\ Pipes' = Pipes /\ FileType' = FileType
      /\ \A k : /\ Wanted(k)' = Wanted(k)
                /\ rec.upto[round][StreamOf(k)]' = rec.upto[round][StreamOf(k)]
                /\ Before(StreamOf(k), round)' = Before(StreamOf(k), round)
      /\ \A k, n : Fed(k, n)' <=> Fed(k, n)
  BY <1>1, <1>2, WantedKept
<1>4. \/ writer' = writer
      \/ (pc = "starting" /\ writer' = [k \in Pipes |-> "opening"])
  BY DEF NoMedia, CreatePipes, SpawnMux, Acknowledged, NoticeCancel, Finish, Joined,
         ChildCancelled, ChildExited, Cancel, Fails, Dropped, session, pipes
<1>5. PipesInv'
  BY <1>1, <1>3, <1>4 DEF MuxInv, PipesInv
<1>6. WayInv'
  <2>1. WayInv
    BY DEF MuxInv
  <2>2. \/ pc' = pc
        \/ (pc = "starting" /\ pc' = "spawning")
        \/ (pc = "spawning" /\ pc' = "feeding")
        \/ pc' \in Final \cup Ending
        \/ (pc = "acknowledging" /\ owed = {} /\ pc' \in {"waiting", "finishing"})
    BY DEF NoMedia, CreatePipes, SpawnMux, Acknowledged, NoticeCancel, Finish, Joined,
           ChildCancelled, ChildExited, Cancel, Fails, Dropped, Final, Ending
  <2>3. owed' = owed
    BY DEF NoMedia, CreatePipes, SpawnMux, Acknowledged, NoticeCancel, Finish, Joined,
           ChildCancelled, ChildExited, Cancel, Fails, Dropped, session, pipes
  <2>4. \A k \in Pipes' : \E n \in 0..rec.upto[round][StreamOf(k)]' : Fed(k, n)'
    BY <1>3, <2>1 DEF WayInv
  <2>5. pc' \in {"starting", "spawning", "feeding"} =>
          \A k \in Pipes' : queue'[k] = <<>> /\ Fed(k, Before(StreamOf(k), round))'
    BY <1>1, <1>3, <2>1, <2>2 DEF WayInv, Final, Ending
  <2>6. pc' \in Handed => \A k \in Pipes' : Fed(k, rec.upto[round][StreamOf(k)])'
    BY <1>3, <2>1, <2>2 DEF WayInv, Final, Ending, Handed
  <2>7. /\ pc' \in {"starting", "spawning"} => round' = 1
        /\ pc' \in {"waiting", "finishing"} => owed' = {}
    BY <1>1, <2>1, <2>2, <2>3 DEF WayInv, Final, Ending
  <2> QED BY <2>4, <2>5, <2>6, <2>7 DEF WayInv
<1>7. EndInv'
  <2> DEFINE fed(k) == Fed(k, rec.upto[round][StreamOf(k)])
  <2>1. EndInv /\ WayInv
    BY DEF MuxInv
  <2>2. \A k : fed(k)' <=> fed(k)
    BY <1>3
  <2>3. \A k : got'[k] = Wanted(k)' <=> got[k] = Wanted(k)
    BY <1>1, <1>3
  <2>4. pc \in Handed => \A k \in Pipes : fed(k)
    BY <2>1 DEF WayInv
  <2> HIDE DEF fed
  <2>5. CASE NoMedia \/ NoticeCancel \/ Fails \/ ChildCancelled
    BY <1>1, <1>3, <2>1, <2>5
       DEF EndInv, NoMedia, NoticeCancel, Fails, ChildCancelled, Dropped, session, pipes, Handed,
           Ending
  <2>6. CASE CreatePipes \/ SpawnMux
    BY <1>1, <1>3, <2>1, <2>6 DEF EndInv, CreatePipes, SpawnMux, session, Handed, Ending
  <2>7. CASE Acknowledged \/ Cancel
    BY <1>1, <1>3, <2>1, <2>2, <2>3, <2>7 DEF EndInv, Acknowledged, Cancel, pipes, Handed, Ending, fed
  <2>8. CASE Finish
    <3>1. /\ pc = "finishing" /\ pc' = "joining" /\ senders /\ senders' = FALSE
          /\ UNCHANGED <<mux, writer, opened>>
      BY <2>1, <2>8 DEF Finish, EndInv, Handed
    <3>2. mux # "exited" /\ \A k \in Pipes : writer[k] # "ended" /\ fed(k)
      BY <2>1, <2>4, <3>1 DEF EndInv, Handed
    <3>3. \A k \in Pipes' : fed(k)'
      BY <1>3, <2>2, <3>2
    <3> QED BY <1>1, <1>3, <2>1, <3>1, <3>2, <3>3 DEF EndInv, Handed, Ending, fed
  <2>9. CASE Joined
    BY <1>1, <1>3, <2>1, <2>2, <2>3, <2>9 DEF EndInv, Joined, session, pipes, Handed, Ending, fed
  <2>10. CASE ChildExited
    BY <1>1, <1>3, <2>1, <2>2, <2>3, <2>10 DEF EndInv, ChildExited, session, Handed, Ending, fed
  <2> QED BY <2>5, <2>6, <2>7, <2>8, <2>9, <2>10
<1> QED BY <1>5, <1>6, <1>7 DEF MuxInv

\* A batch is handed over: each pipe gets what its stream brought.
LEMMA FeedKeepsWays ==
  ASSUME BatchInv, MuxInv, Feed
  PROVE  MuxInv'
<1>1. /\ pc = "feeding" /\ pc' = "acknowledging" /\ UNCHANGED <<rec, round>>
      /\ UNCHANGED <<got, fifo, opened, writer, senders, mux, named>>
      /\ queue' = [k \in Pipes |-> Job(k)] /\ \A k \in Pipes : writer[k] # "ended"
  BY DEF Feed
<1>2. /\ Pipes' = Pipes /\ FileType' = FileType
      /\ \A k : /\ StreamOf(k)' = StreamOf(k)
                /\ rec.upto[round][StreamOf(k)]' = rec.upto[round][StreamOf(k)]
  BY <1>1, WantedKept
<1>3. PipesInv'
  BY <1>1, <1>2, JobFollows DEF MuxInv, PipesInv
<1>4. ASSUME NEW k \in Pipes
      PROVE  Fed(k, rec.upto[round][StreamOf(k)])'
  <2> DEFINE z == StreamOf(k)
             p == got[k] \o fifo[k]
  <2>1. got[k] \in Seq(FileType) /\ fifo[k] \in Seq(FileType) /\ p \in Seq(FileType)
    BY DEF MuxInv, PipesInv
  <2>2. p \o <<>> = FirstFiles(z, Before(z, round))
    BY <1>1 DEF MuxInv, WayInv, Fed, Way
  <2>3. p = FirstFiles(z, Before(z, round))
    BY <2>1, <2>2, ConcatEmptySeq
  <2>4. p \o Job(k) = FirstFiles(z, rec.upto[round][z])
    BY <2>3, JobFollows
  <2>5. Way(k)' = p \o Job(k)
    BY <1>1 DEF Way
  <2> QED BY <1>2, <2>4, <2>5 DEF Fed, FirstFiles
<1>5. WayInv'
  <2>1. \A k \in Pipes' : rec.upto[round][StreamOf(k)]' \in Nat
    BY <1>2, PipeCounts
  <2>2. \A k \in Pipes' : \E n \in 0..rec.upto[round][StreamOf(k)]' : Fed(k, n)'
    <3> TAKE k \in Pipes'
    <3>1. rec.upto[round][StreamOf(k)]' \in 0..rec.upto[round][StreamOf(k)]'
      BY <2>1
    <3> QED BY <1>2, <1>4, <3>1 DEF Fed, Way
  <2>3. pc' \in Handed => \A k \in Pipes' : Fed(k, rec.upto[round][StreamOf(k)])'
    BY <1>2, <1>4
  <2> QED BY <1>1, <2>2, <2>3 DEF WayInv
<1>6. EndInv'
  BY <1>1, <1>2 DEF MuxInv, EndInv, Handed, Ending
<1> QED BY <1>3, <1>5, <1>6 DEF MuxInv

LEMMA NextBatchKeepsWays ==
  ASSUME BatchInv, MuxInv, NextBatch
  PROVE  MuxInv'
<1>1. /\ pc = "waiting" /\ pc' = "feeding" /\ rec' = rec /\ round' = round + 1
      /\ UNCHANGED <<got, fifo, queue, owed, opened, writer, senders, mux, named>>
      /\ round \in 1..Len(rec.upto) /\ round + 1 \in 1..Len(rec.upto)
      /\ rec \in Recordings
  BY DEF NextBatch, pipes, BatchInv
<1>2. /\ Pipes' = Pipes /\ FileType' = FileType /\ \A k : StreamOf(k)' = StreamOf(k)
  BY <1>1, PlanKept DEF StreamOf, PipeIndex, FileType
<1>3. PipesInv'
  BY <1>1, <1>2 DEF MuxInv, PipesInv
<1>4. \A k \in Pipes : /\ queue[k] = <<>> /\ Fed(k, rec.upto[round][StreamOf(k)])
  BY <1>1 DEF MuxInv, WayInv, BatchInv, Handed
<1>5. \A k \in Pipes : /\ Before(StreamOf(k), round)' = rec.upto[round][StreamOf(k)]
                       /\ rec.upto[round][StreamOf(k)] \in Nat
                       /\ rec.upto[round][StreamOf(k)]' \in Nat
                       /\ rec.upto[round][StreamOf(k)] <= rec.upto[round][StreamOf(k)]'
  <2> TAKE k \in Pipes
  <2> DEFINE z == StreamOf(k)
  <2>1. z \in Streams
    BY PipeCounts
  <2>2. /\ rec.upto[round + 1][z] \in Nat /\ rec.upto[round][z] \in Nat
        /\ Before(z, round + 1) <= rec.upto[round + 1][z]
    BY <1>1, <2>1, CountsGrow
  <2>3. Before(z, round + 1) = rec.upto[round][z]
    BY <1>1 DEF Before
  <2>4. Before(StreamOf(k), round)' = Before(z, round + 1)
    BY <1>1, <1>2 DEF Before
  <2> QED BY <1>1, <1>2, <2>2, <2>3, <2>4
<1>7. WayInv'
  <2>1. \A k \in Pipes', n \in Nat : Fed(k, n)' <=> Fed(k, n)
    BY <1>1, <1>2 DEF Fed, Way, FirstFiles
  <2> QED BY <1>1, <1>2, <1>4, <1>5, <2>1 DEF WayInv, Handed
<1>8. EndInv'
  BY <1>1, <1>2 DEF MuxInv, EndInv, Handed, Ending
<1> QED BY <1>3, <1>7, <1>8 DEF MuxInv

\* The files that pass from the session's queue to the pipe, and from there to ffmpeg.
LEMMA PassesOn ==
  ASSUME BatchInv, MuxInv, NEW k \in Pipes, WriteFile(k) \/ ReadInput(k)
  PROVE  MuxInv'
<1>1. /\ UNCHANGED <<rec, round, pc, senders, owed, writer, named, mux, opened>>
      /\ \A l \in Pipes \ {k} : got'[l] = got[l] /\ fifo'[l] = fifo[l] /\ queue'[l] = queue[l]
  BY DEF WriteFile, ReadInput, session, MuxInv, PipesInv
<1>2. /\ got[k] \in Seq(FileType) /\ fifo[k] \in Seq(FileType) /\ queue[k] \in Seq(FileType)
  BY DEF MuxInv, PipesInv
<1>3. /\ PipesInv' /\ Way(k)' = Way(k) /\ \A l \in Pipes : queue[l] = <<>> => queue'[l] = <<>>
      /\ got'[k] = got[k] \/ mux = "running"
  <2> HIDE DEF FileType
  <2>1. CASE WriteFile(k)
    <3>1. /\ queue[k] # <<>> /\ queue' = [queue EXCEPT ![k] = Tail(queue[k])] /\ got' = got
          /\ fifo' = [fifo EXCEPT ![k] = Append(fifo[k], Head(queue[k]))]
      BY <2>1 DEF WriteFile
    <3>2. /\ Append(fifo[k], Head(queue[k])) \in Seq(FileType) /\ Tail(queue[k]) \in Seq(FileType)
          /\ Append(fifo[k], Head(queue[k])) \o Tail(queue[k]) = fifo[k] \o queue[k]
      BY <1>2, <3>1, PassesFirst
    <3>3. /\ got'[k] = got[k] /\ fifo'[k] = Append(fifo[k], Head(queue[k]))
          /\ queue'[k] = Tail(queue[k])
      BY <3>1 DEF MuxInv, PipesInv
    <3>4. Way(k)' = Way(k)
      <4>1. \A p, q, r \in Seq(FileType) : p \o q \o r = p \o (q \o r)
        BY Associates
      <4>2. fifo'[k] \in Seq(FileType) /\ queue'[k] \in Seq(FileType)
        BY <3>2, <3>3
      <4>3. got[k] \o fifo'[k] \o queue'[k] = got[k] \o (fifo'[k] \o queue'[k])
        BY <1>2, <4>1, <4>2, Zenon
      <4>4. got[k] \o fifo[k] \o queue[k] = got[k] \o (fifo[k] \o queue[k])
        BY <1>2, <4>1, Zenon
      <4> QED BY <3>2, <3>3, <4>3, <4>4 DEF Way
    <3>5. PipesInv'
      BY <1>1, <3>1, <3>2, WantedKept DEF MuxInv, PipesInv
    <3> QED BY <1>1, <3>1, <3>3, <3>4, <3>5
  <2>2. CASE ReadInput(k)
    <3>1. /\ fifo[k] # <<>> /\ fifo' = [fifo EXCEPT ![k] = Tail(fifo[k])] /\ queue' = queue
          /\ got' = [got EXCEPT ![k] = Append(got[k], Head(fifo[k]))] /\ mux = "running"
      BY <2>2 DEF ReadInput
    <3>2. /\ Append(got[k], Head(fifo[k])) \in Seq(FileType) /\ Tail(fifo[k]) \in Seq(FileType)
          /\ Append(got[k], Head(fifo[k])) \o Tail(fifo[k]) = got[k] \o fifo[k]
      BY <1>2, <3>1, PassesFirst
    <3>3. Way(k)' = Way(k)
      BY <3>1, <3>2 DEF Way, MuxInv, PipesInv
    <3>4. PipesInv'
      BY <1>1, <3>1, <3>2, WantedKept DEF MuxInv, PipesInv
    <3> QED BY <3>1, <3>3, <3>4
  <2> QED BY <2>1, <2>2
<1>4. \A l \in Pipes : Way(l)' = Way(l)
  BY <1>1, <1>3 DEF Way
<1>5. /\ Pipes' = Pipes
      /\ \A l : /\ Wanted(l)' = Wanted(l)
                /\ rec.upto[round][StreamOf(l)]' = rec.upto[round][StreamOf(l)]
                /\ Before(StreamOf(l), round)' = Before(StreamOf(l), round)
      /\ \A l \in Pipes : \A n : Fed(l, n)' <=> Fed(l, n)
  BY <1>1, <1>4, WantedKept
<1>6. WayInv'
  BY <1>1, <1>3, <1>5 DEF MuxInv, WayInv
<1>7. EndInv'
  <2>1. pc \in Ending /\ mux = "exited" => \A l \in Pipes : got'[l] = got[l]
    BY <1>1, <1>3
  <2> QED BY <1>1, <1>3, <1>5, <2>1 DEF MuxInv, EndInv
<1> QED BY <1>3, <1>6, <1>7 DEF MuxInv

\* A writer starts, acknowledges or ends. One that ends loses only what ffmpeg would
\* not have read.
LEMMA WriterKeepsWays ==
  ASSUME BatchInv, MuxInv, NEW k \in Pipes, OpenPipe(k) \/ Acknowledge(k) \/ EndWriter(k)
  PROVE  MuxInv'
<1>1. /\ UNCHANGED <<rec, round, pc, senders, got, queue, named, mux, opened>>
      /\ \A l \in Pipes \ {k} : fifo'[l] = fifo[l] /\ writer'[l] = writer[l]
      /\ DOMAIN writer' = DOMAIN writer
  BY DEF OpenPipe, Acknowledge, EndWriter, session, MuxInv, PipesInv
<1>2. /\ Pipes' = Pipes /\ FileType' = FileType
      /\ \A l : /\ Wanted(l)' = Wanted(l) /\ StreamOf(l)' = StreamOf(l)
                /\ rec.upto[round][StreamOf(l)]' = rec.upto[round][StreamOf(l)]
                /\ Before(StreamOf(l), round)' = Before(StreamOf(l), round)
      /\ \A l, n : Way(l)' = Way(l) => (Fed(l, n)' <=> Fed(l, n))
  BY <1>1, WantedKept
<1>3. CASE OpenPipe(k) \/ Acknowledge(k)
  <2>1. /\ fifo' = fifo /\ \A l : Way(l)' = Way(l)
        /\ \A l \in Pipes : writer'[l] = "ended" <=> writer[l] = "ended"
        /\ pc = "starting" => writer' = writer
        /\ owed = {} => owed' = {}
    BY <1>1, <1>3 DEF OpenPipe, Acknowledge, Way, MuxInv, EndInv, PipesInv
  <2>2. PipesInv'
    BY <1>1, <1>2, <2>1 DEF MuxInv, PipesInv
  <2>3. WayInv'
    BY <1>1, <1>2, <2>1 DEF MuxInv, WayInv
  <2>4. EndInv'
    BY <1>1, <1>2, <2>1 DEF MuxInv, EndInv
  <2> QED BY <2>2, <2>3, <2>4 DEF MuxInv
<1>4. CASE EndWriter(k)
  <2>1. /\ writer[k] = "open" /\ queue[k] = <<>> /\ ~senders /\ writer'[k] = "ended" /\ owed' = owed
        /\ fifo' = IF k <= opened /\ mux = "running" THEN fifo ELSE [fifo EXCEPT ![k] = <<>>]
    BY <1>4 DEF EndWriter, Live, MuxInv, PipesInv
  <2>2. pc \notin {"starting", "spawning", "feeding"} \cup Handed
    BY <2>1 DEF MuxInv, EndInv
  <2>3. PipesInv'
    BY <1>1, <1>2, <2>1 DEF MuxInv, PipesInv
  <2>4. \A l \in Pipes : l # k \/ (k <= opened /\ mux = "running") => Way(l)' = Way(l)
    BY <1>1, <2>1 DEF Way
  <2>5. \A l \in Pipes : \E n \in 0..rec.upto[round][StreamOf(l)] : Fed(l, n)'
    <3> TAKE l \in Pipes
    <3>1. PICK n \in 0..rec.upto[round][StreamOf(l)] : Fed(l, n)
      BY DEF MuxInv, WayInv
    <3>2. CASE l # k \/ (k <= opened /\ mux = "running")
      BY <1>2, <2>4, <3>1, <3>2
    <3>3. CASE l = k /\ ~(k <= opened /\ mux = "running")
      <4> DEFINE z == StreamOf(k)
      <4>1. got[k] \in Seq(FileType) /\ fifo[k] \in Seq(FileType) /\ queue[k] = <<>>
        BY <2>1 DEF MuxInv, PipesInv
      <4>2. Way(k) = got[k] \o fifo[k] /\ Way(k)' = got[k]
        <5>1. fifo'[k] = <<>>
          BY <2>1, <3>3 DEF MuxInv, PipesInv
        <5>2. got[k] \o fifo[k] \in Seq(FileType)
          BY <4>1
        <5>3. (got[k] \o fifo[k]) \o <<>> = got[k] \o fifo[k] /\ got[k] \o <<>> = got[k]
          BY <4>1, <5>2, ConcatEmptySeq
        <5> QED BY <1>1, <4>1, <5>1, <5>3 DEF Way
      <4>3. z \in Streams /\ rec.upto[round][z] \in Nat
        BY PipeCounts
      <4>4. n \in Nat /\ n <= rec.upto[round][z] /\ got[k] \o fifo[k] = FirstFiles(z, n)
        <5>1. Fed(k, n) /\ n \in 0..rec.upto[round][z]
          BY <3>1, <3>3
        <5> QED BY <4>2, <4>3, <5>1 DEF Fed
      <4>5. got[k] = FirstFiles(z, Len(got[k])) /\ Len(got[k]) <= n /\ Len(got[k]) \in Nat
        BY <4>1, <4>3, <4>4, FirstFilesCut, LenProperties
      <4>6. Len(got[k]) \in 0..rec.upto[round][z]
        BY <4>3, <4>4, <4>5
      <4>7. Fed(k, Len(got[k]))'
        BY <1>1, <1>2, <4>2, <4>5 DEF Fed, FirstFiles
      <4> QED BY <3>3, <4>6, <4>7, <1>1 DEF Fed
    <3> QED BY <3>2, <3>3
  <2>6. WayInv'
    BY <1>1, <1>2, <2>1, <2>2, <2>5 DEF WayInv, Handed
  <2>7. ASSUME pc \in Ending, NEW l \in Pipes,
               writer'[l] # "ended" \/ (l <= opened /\ mux = "running")
        PROVE  Fed(l, rec.upto[round][StreamOf(l)])'
    <3>1. Way(l)' = Way(l)
      BY <2>1, <2>4, <2>7
    <3>2. Fed(l, rec.upto[round][StreamOf(l)])
      BY <1>1, <2>1, <2>7 DEF MuxInv, EndInv
    <3> QED BY <1>2, <3>1, <3>2 DEF Fed
  <2>8. EndInv'
    <3>1. \A l \in Pipes : writer'[l] = "ended" => queue'[l] = <<>>
      BY <1>1, <2>1 DEF MuxInv, EndInv
    <3>2. /\ pc' # "starting" /\ pc' \notin {"spawning", "feeding"} \cup Handed /\ ~senders'
      BY <1>1, <2>1, <2>2
    <3>3. pc' \in Ending => \A l \in Pipes' :
            writer'[l] # "ended" \/ (l <= opened' /\ mux' = "running") =>
              Fed(l, rec.upto[round][StreamOf(l)])'
      BY <1>1, <1>2, <2>7
    <3>4. /\ pc' \in Ending /\ mux' = "exited" =>
               opened' = Cardinality(Pipes') /\ \E l \in Pipes' : got'[l] = Wanted(l)'
          /\ pc' = "finished" => mux' = "exited" /\ ~named'
      BY <1>1, <1>2 DEF MuxInv, EndInv
    <3> QED BY <1>2, <3>1, <3>2, <3>3, <3>4 DEF EndInv
  <2> QED BY <2>3, <2>6, <2>8 DEF MuxInv
<1> QED BY <1>3, <1>4

LEMMA MuxKeepsWays ==
  ASSUME BatchInv, MuxInv, OpenInput \/ ExitMux \/ MuxDies
  PROVE  MuxInv'
<1>1. /\ UNCHANGED <<rec, round, pc, senders, got, fifo, queue, owed, writer, named>>
      /\ mux = "running" /\ opened' \in Nat
  BY DEF OpenInput, ExitMux, MuxDies, session, MuxInv, PipesInv
<1>2. \A l : Way(l)' = Way(l)
  BY <1>1 DEF Way
<1>3. /\ Pipes' = Pipes /\ FileType' = FileType
      /\ \A l : /\ Wanted(l)' = Wanted(l)
                /\ rec.upto[round][StreamOf(l)]' = rec.upto[round][StreamOf(l)]
                /\ Before(StreamOf(l), round)' = Before(StreamOf(l), round)
      /\ \A l, n : Fed(l, n)' <=> Fed(l, n)
  BY <1>1, <1>2, WantedKept
<1>4. PipesInv' /\ WayInv'
  BY <1>1, <1>3 DEF MuxInv, PipesInv, WayInv
<1>5. EndInv'
  <2>1. EndInv /\ opened \in Nat
    BY DEF MuxInv, PipesInv
  <2>2. CASE OpenInput
    <3>1. opened' = opened + 1 /\ writer[opened + 1] = "open" /\ mux' = mux
      BY <2>2 DEF OpenInput, Live
    <3>2. \A l \in Pipes : l <= opened' => l <= opened \/ l = opened + 1
      BY <2>1, <3>1 DEF Pipes
    <3> QED BY <1>1, <1>3, <2>1, <3>1, <3>2 DEF EndInv
  <2>3. CASE ExitMux
    <3>1. /\ opened = Cardinality(Pipes) /\ opened' = opened /\ mux' = "exited"
      BY <2>3 DEF ExitMux
    <3>2. PICK l \in Pipes : fifo[l] = <<>> /\ writer[l] = "ended"
      BY <2>3 DEF ExitMux, Eof
    <3>3. queue[l] = <<>> /\ ~(pc = "starting" \/ senders)
      BY <2>1, <3>2 DEF EndInv
    <3>4. l <= opened
      <4>1. l \in 1..Cardinality(Media)
        BY DEF Pipes
      <4>2. Cardinality(Media) \in Nat
        BY <4>1, PipesFinite DEF BatchInv
      <4>3. Cardinality(Pipes) = Cardinality(Media)
        BY <4>2, FS_Interval DEF Pipes
      <4> QED BY <3>1, <4>1, <4>2, <4>3
    <3>5. pc \in Ending => got[l] = Wanted(l)
      <4> SUFFICES ASSUME pc \in Ending PROVE got[l] = Wanted(l)
        OBVIOUS
      <4>1. Fed(l, rec.upto[round][StreamOf(l)])
        BY <1>1, <2>1, <3>4 DEF EndInv
      <4>2. got[l] \in Seq(FileType)
        BY DEF MuxInv, PipesInv
      <4>3. Way(l) = got[l]
        BY <3>2, <3>3, <4>2, ConcatEmptySeq DEF Way
      <4> QED BY <4>1, <4>3 DEF Fed, Wanted
    <3> QED BY <1>1, <1>3, <2>1, <3>1, <3>3, <3>5 DEF EndInv
  <2>4. CASE MuxDies
    BY <1>1, <1>3, <2>1, <2>4 DEF EndInv, MuxDies
  <2> QED BY <2>2, <2>3, <2>4
<1> QED BY <1>4, <1>5 DEF MuxInv

LEMMA StepKeepsWays == BatchInv /\ MuxInv /\ [Next]_vars => MuxInv'
<1> SUFFICES ASSUME BatchInv, MuxInv, [Next]_vars PROVE MuxInv'
  OBVIOUS
<1>1. CASE Session \/ Cancel \/ Fails
  BY <1>1, SessionKeeps, FeedKeepsWays, NextBatchKeepsWays DEF Session
<1>2. ASSUME NEW k \in Pipes, Write(k) \/ ReadInput(k) PROVE MuxInv'
  BY <1>2, PassesOn, WriterKeepsWays DEF Write
<1>3. CASE OpenInput \/ ExitMux \/ MuxDies
  BY <1>3, MuxKeepsWays
<1>4. CASE UNCHANGED vars
  <2>1. UNCHANGED <<rec, round>> /\ \A k : Way(k)' = Way(k)
    BY <1>4 DEF vars, Way
  <2> QED BY <1>4, <2>1, WantedKept DEF vars, MuxInv, PipesInv, WayInv, EndInv
<1> QED BY <1>1, <1>2, <1>3, <1>4 DEF Next

\* Whatever the batches bring and however ffmpeg reads, each pipe carries the files of
\* its own stream, each once and in order; and a recording that is announced has been muxed to the
\* end of an input, with every input opened and no FIFO left (session.rs,
\* stream_indexed_downloads_to_live_pipe, run_live_pipe_writer, LivePipeMuxSession::finish).
THEOREM AllIsMuxed == Spec => []StreamsAreMuxed
<1>1. Inv => BatchInv
  BY DEF Inv
<1>2. BatchInv /\ MuxInv => StreamsAreMuxed
  <2> SUFFICES ASSUME BatchInv, MuxInv PROVE StreamsAreMuxed
    OBVIOUS
  <2>1. FedInOrder
    <3> SUFFICES ASSUME NEW k \in Pipes
                 PROVE  /\ IsPrefix(Way(k), Wanted(k))
                        /\ pc \in Handed => Way(k) = Wanted(k)
      BY DEF FedInOrder, Way, Handed
    <3> DEFINE z == StreamOf(k)
    <3>1. z \in Streams /\ rec.upto[round][z] \in Nat
      BY PipeCounts
    <3>2. PICK n \in 0..rec.upto[round][z] : Way(k) = FirstFiles(z, n)
      BY DEF MuxInv, WayInv, Fed
    <3>3. n \in Nat /\ n <= rec.upto[round][z]
      BY <3>1, <3>2
    <3>4. IsPrefix(Way(k), Wanted(k))
      BY <3>1, <3>2, <3>3, FirstFilesBegin DEF Wanted
    <3>5. pc \in Handed => Way(k) = Wanted(k)
      BY DEF MuxInv, WayInv, Fed, Wanted
    <3> QED BY <3>4, <3>5
  <2>2. FinishedIsMuxed
    BY DEF FinishedIsMuxed, MuxInv, EndInv, Ending
  <2> QED BY <2>1, <2>2 DEF StreamsAreMuxed
<1> QED BY <1>1, <1>2, InitInv, StepInv, MuxInit, StepKeepsWays, PTL DEF Spec

-----------------------------------------------------------------------------
(* The recording of a transport stream over HTTP.                              *)

Chunk == Nat \X Nat

\* What is in the file is numbered by recordings begun so far: so a new one
\* finds only older chunks in it, whichever way the last one ended.
FileInv ==
  /\ recording \in Nat /\ offset \in Nat /\ file \in Seq(Chunk)
  /\ \A k \in 1..Len(file) : file[k][1] <= recording

AheadInv == FileInv /\ RecordingIsAhead

LEMMA FileInit == Http!Init => AheadInv
BY DEF Http!Init, AheadInv, FileInv, RecordingIsAhead, Http!RecordingIsAhead, Http!Ended, Http!NewState

\* A chunk that is received goes right after what this recording has written.
LEMMA ReceiveKeepsFile ==
  ASSUME AheadInv, Http!Receive
  PROVE  AheadInv'
<1> DEFINE c == <<recording, offset + 1>>
<1>1. /\ recording \in Nat /\ offset \in Nat /\ file \in Seq(Chunk) /\ c \in Chunk
      /\ c[1] = recording /\ c[2] = offset + 1
  BY DEF AheadInv, FileInv, Chunk
<1>2. /\ offset <= Len(file) /\ state.size = offset
      /\ \A k \in 1..Len(file) : k <= offset <=> file[k][1] = recording
      /\ \A k \in 1..offset : file[k][2] = k
  BY DEF AheadInv, RecordingIsAhead, Http!RecordingIsAhead, Http!Receive, Http!Ended
<1>3. recording' = recording /\ offset' = offset + 1 /\ state'.size = offset + 1
  BY <1>2 DEF Http!Receive, Http!Updated
<1>4. /\ file' \in Seq(Chunk) /\ offset + 1 <= Len(file')
      /\ file'[offset + 1] = c
      /\ \A k \in 1..Len(file') : k # offset + 1 => k \in 1..Len(file) /\ file'[k] = file[k]
      /\ \A k \in 1..offset : k \in 1..Len(file') /\ file'[k] = file[k]
  <2>1. file' = Http!Written(file, c)
    BY DEF Http!Receive
  <2>2. CASE offset < Len(file)
    <3>1. file' = [file EXCEPT ![offset + 1] = c]
      BY <2>1, <2>2 DEF Http!Written
    <3> HIDE DEF c
    <3>2. Len(file') = Len(file) /\ file' \in Seq(Chunk)
      BY <1>1, <2>2, <3>1
    <3> QED BY <1>1, <2>2, <3>1, <3>2
  <2>3. CASE ~(offset < Len(file))
    <3>1. file' = Append(file, c) /\ offset = Len(file)
      BY <1>1, <1>2, <2>1, <2>3 DEF Http!Written
    <3> HIDE DEF c
    <3> QED BY <1>1, <3>1
  <2> QED BY <2>2, <2>3
<1>5. \A k \in 1..Len(file') : file'[k][1] <= recording
  BY <1>1, <1>4 DEF AheadInv, FileInv
<1>6. \A k \in 1..Len(file') : k <= offset + 1 <=> file'[k][1] = recording
  <2> HIDE DEF c
  <2> TAKE k \in 1..Len(file')
  <2>1. CASE k = offset + 1
    BY <1>1, <1>4, <2>1
  <2>2. CASE k # offset + 1
    BY <1>1, <1>2, <1>4, <2>2
  <2> QED BY <2>1, <2>2
<1>7. \A k \in 1..(offset + 1) : file'[k][2] = k
  <2> HIDE DEF c
  <2> TAKE k \in 1..(offset + 1)
  <2>1. CASE k = offset + 1
    BY <1>1, <1>4, <2>1
  <2>2. CASE k # offset + 1
    BY <1>1, <1>2, <1>4, <2>2
  <2> QED BY <2>1, <2>2
<1>8. FileInv'
  BY <1>1, <1>3, <1>4, <1>5 DEF FileInv
<1>9. RecordingIsAhead'
  BY <1>3, <1>4, <1>6, <1>7 DEF RecordingIsAhead, Http!RecordingIsAhead
<1> QED BY <1>8, <1>9 DEF AheadInv

LEMMA FileStep == AheadInv /\ [Http!Next]_(Http!vars) => AheadInv'
<1> SUFFICES ASSUME AheadInv, [Http!Next]_(Http!vars) PROVE AheadInv'
  OBVIOUS
<1> USE DEF AheadInv, FileInv, RecordingIsAhead, Http!RecordingIsAhead, Http!Ended
<1>1. CASE Http!Begin
  <2>1. /\ recording' = recording + 1 /\ offset' = 0 /\ file' = file /\ state'.size = 0
    BY <1>1 DEF Http!Begin, Http!NewState
  <2>2. \A k \in 1..Len(file) : file[k][1] \in Nat
    <3> TAKE k \in 1..Len(file)
    <3>1. file[k] \in Chunk
      OBVIOUS
    <3> QED BY <3>1 DEF Chunk
  <2>3. \A k \in 1..Len(file') : file'[k][1] <= recording /\ file'[k][1] # recording'
    BY <2>1, <2>2
  <2>4. FileInv'
    BY <2>1, <2>2, <2>3
  <2>5. RecordingIsAhead'
    BY <2>1, <2>3
  <2> QED BY <2>4, <2>5
<1>2. CASE Http!Cancel \/ Http!Tick
  BY <1>2 DEF Http!Cancel, Http!Tick
<1>3. CASE Http!NoticeCancel \/ Http!Refused \/ Http!ReadFails
  BY <1>3 DEF Http!NoticeCancel, Http!Refused, Http!ReadFails, Http!Goto
<1>4. CASE Http!Respond \/ Http!Continue \/ Http!ServerEnds
  BY <1>4 DEF Http!Respond, Http!Continue, Http!ServerEnds, Http!Goto
<1>5. CASE Http!Receive
  BY <1>5, ReceiveKeepsFile
<1>6. CASE Http!Close
  BY <1>6 DEF Http!Close
<1>7. CASE UNCHANGED Http!vars
  BY <1>7 DEF Http!vars
<1> QED BY <1>1, <1>2, <1>3, <1>4, <1>5, <1>6, <1>7 DEF Http!Next, Http!Steps

\* While a recording goes on, and when it has finished, its file begins with
\* exactly what it received, although the file is opened without truncation and
\* any recording before it may have left a longer one (session.rs,
\* record_http_live_ts_to_file).
THEOREM FileBeginsWithRecording == Http!Spec => []RecordingIsAhead
<1>1. AheadInv => RecordingIsAhead
  BY DEF AheadInv
<1> QED BY <1>1, FileInit, FileStep, PTL DEF Http!Spec
=============================================================================
