--------------------------- MODULE RpcQueueProofs ---------------------------
(* Proofs about RpcQueue for every number of clients, downloads and runs. *)
EXTENDS RpcQueue, FiniteSetTheorems, TLAPS

-----------------------------------------------------------------------------
(* Facts about the operators of RpcQueue.                                  *)

\* Every set of gids is finite and has a number of elements.
LEMMA GidsFinite ==
    ASSUME NEW S \in SUBSET Gids
    PROVE  IsFiniteSet(S) /\ Cardinality(S) \in Nat
<1>1. IsFiniteSet(Gids)
  BY BoundsAssumption, FS_Interval DEF Gids
<1> QED
  BY <1>1, FS_Subset, FS_CardinalityType

\* An index in the queue is a natural number.
LEMMA AheadNat ==
    ASSUME NEW st, NEW S \in SUBSET Gids, NEW g
    PROVE  Ahead(st, S, g) \in Nat
BY GidsFinite DEF Ahead

\* A clamped position is a natural number.
LEMMA ClampedNat ==
    ASSUME NEW g, NEW p \in Int
    PROVE  Clamped(g, p) \in Nat
BY GidsFinite DEF Clamped, With

\* Forgetting downloads keeps the type of the map.
LEMMA ForgetType ==
    ASSUME NEW st \in [Gids -> Download], NEW gone
    PROVE  Forget(st, gone) \in [Gids -> Download]
BY BoundsAssumption DEF Forget, Absent, Download, Status

\* Moving a download in the queue changes nothing but positions.
LEMMA MovedType ==
    ASSUME TypeOK, NEW g \in Gids, NEW target \in Nat
    PROVE  /\ Moved(g, target) \in [Gids -> Download]
           /\ \A h \in Gids : /\ Moved(g, target)[h].status = states[h].status
                              /\ Moved(g, target)[h].gen = states[h].gen
                              /\ Moved(g, target)[h].token = states[h].token
                              /\ Moved(g, target)[h].job = states[h].job
                              /\ Moved(g, target)[h].partial = states[h].partial
<1> DEFINE others == With(Queued) \ {g}
<1>1. \A h \in Gids : Ahead(states, others, h) \in Nat
  BY AheadNat DEF With
<1>2. \A h \in Gids : \A n \in Nat :
        /\ [states[h] EXCEPT !.pos = n] \in Download
        /\ [states[h] EXCEPT !.pos = n].status = states[h].status
        /\ [states[h] EXCEPT !.pos = n].gen = states[h].gen
        /\ [states[h] EXCEPT !.pos = n].token = states[h].token
        /\ [states[h] EXCEPT !.pos = n].job = states[h].job
        /\ [states[h] EXCEPT !.pos = n].partial = states[h].partial
  BY DEF TypeOK, Download
<1>3. ASSUME NEW h \in Gids
      PROVE  /\ Moved(g, target)[h] = states[h] \/ \E n \in Nat : Moved(g, target)[h] = [states[h] EXCEPT !.pos = n]
  <2>1. CASE h = g
    BY <2>1 DEF Moved
  <2>2. CASE h # g /\ h \in others
    <3> DEFINE i == Ahead(states, others, h)
    <3>1. Moved(g, target)[h] = [states[h] EXCEPT !.pos = IF i < target THEN i ELSE i + 1]
      BY <2>2 DEF Moved
    <3>2. (IF i < target THEN i ELSE i + 1) \in Nat
      BY <1>1
    <3> QED
      BY <3>1, <3>2
  <2>3. CASE h # g /\ h \notin others
    BY <2>3 DEF Moved
  <2> QED
    BY <2>1, <2>2, <2>3
<1>4. ASSUME NEW h \in Gids
      PROVE  /\ Moved(g, target)[h] \in Download
             /\ Moved(g, target)[h].status = states[h].status
             /\ Moved(g, target)[h].gen = states[h].gen
             /\ Moved(g, target)[h].token = states[h].token
             /\ Moved(g, target)[h].job = states[h].job
             /\ Moved(g, target)[h].partial = states[h].partial
  <2>1. CASE Moved(g, target)[h] = states[h]
    BY <2>1 DEF TypeOK
  <2>2. CASE \E n \in Nat : Moved(g, target)[h] = [states[h] EXCEPT !.pos = n]
    BY <2>2, <1>2
  <2> QED
    BY <2>1, <2>2, <1>3
<1> HIDE DEF others
<1>5. Moved(g, target) \in [Gids -> Download]
  <2> DEFINE m == Moved(g, target)
  <2>1. m = [h \in Gids |-> m[h]]
    BY DEF Moved
  <2> HIDE DEF m
  <2>2. \A h \in Gids : m[h] \in Download
    BY <1>4 DEF m
  <2> QED
    BY <2>1, <2>2 DEF m
<1> QED
  BY <1>4, <1>5

-----------------------------------------------------------------------------
(* Type correctness.                                                       *)

LEMMA StatusNames ==
    \A v \in {"absent", "active", "waiting", "paused", "complete", "error", "removed"} : v \in Status
BY DEF Status, Queued, Terminal

\* Updates of one field of a download.
LEMMA FieldUpdate ==
    ASSUME NEW s \in Download
    PROVE  /\ \A v \in Status : [s EXCEPT !.status = v] \in Download
           /\ \A n \in Nat : [s EXCEPT !.pos = n] \in Download
           /\ \A n \in Nat : [s EXCEPT !.token = n] \in Download
           /\ \A n \in 0..MaxGen : [s EXCEPT !.gen = n] \in Download
           /\ \A n \in 0..MaxJob : [s EXCEPT !.job = n] \in Download
           /\ \A b \in BOOLEAN : [s EXCEPT !.partial = b] \in Download
BY DEF Download

\* The updates the calls make.
LEMMA CallUpdates ==
    ASSUME NEW s \in Download
    PROVE  /\ [s EXCEPT !.pos = @ + 1] \in Download
           /\ s.job < MaxJob => [s EXCEPT !.job = @ + 1] \in Download
           /\ s.job < MaxJob => [s EXCEPT !.job = @ + 1, !.partial = TRUE] \in Download
           /\ s.gen < MaxGen => [s EXCEPT !.status = "active", !.gen = @ + 1, !.partial = FALSE] \in Download
           /\ s.gen < MaxGen /\ s.job < MaxJob =>
                [s EXCEPT !.job = @ + 1, !.token = @ + 1, !.gen = @ + 1, !.partial = FALSE] \in Download
           /\ Pausing(s) \in Download
<1>1. s.pos \in Nat /\ s.token \in Nat /\ s.gen \in 0..MaxGen /\ s.job \in 0..MaxJob
  BY DEF Download
<1>2. [s EXCEPT !.pos = @ + 1] \in Download
  BY <1>1, FieldUpdate
<1>3. s.job < MaxJob => /\ [s EXCEPT !.job = @ + 1] \in Download
                        /\ [s EXCEPT !.job = @ + 1].gen = s.gen
                        /\ [s EXCEPT !.job = @ + 1].token = s.token
  BY <1>1, BoundsAssumption DEF Download
<1>4. s.gen < MaxGen => [s EXCEPT !.status = "active", !.gen = @ + 1, !.partial = FALSE] \in Download
  <2>1. [s EXCEPT !.status = "active"] \in Download
    BY FieldUpdate, StatusNames
  <2>2. s.gen < MaxGen => s.gen + 1 \in 0..MaxGen
    BY <1>1, BoundsAssumption
  <2> DEFINE s1 == [s EXCEPT !.status = "active"]
             s2 == [s1 EXCEPT !.gen = s.gen + 1]
  <2>3. s.gen < MaxGen => s2 \in Download
    <3> HIDE DEF s1
    <3> QED
      BY <2>1, <2>2, FieldUpdate DEF s1
  <2>4. s.gen < MaxGen => [s2 EXCEPT !.partial = FALSE] \in Download
    <3> HIDE DEF s2
    <3> QED
      BY <2>3, FieldUpdate
  <2> QED
    BY <2>4
<1>5. s.gen < MaxGen /\ s.job < MaxJob =>
        [s EXCEPT !.job = @ + 1, !.token = @ + 1, !.gen = @ + 1, !.partial = FALSE] \in Download
  <2> SUFFICES ASSUME s.gen < MaxGen, s.job < MaxJob
               PROVE  [s EXCEPT !.job = @ + 1, !.token = @ + 1, !.gen = @ + 1, !.partial = FALSE] \in Download
    OBVIOUS
  <2> DEFINE s1 == [s EXCEPT !.job = s.job + 1]
             s2 == [s1 EXCEPT !.token = s.token + 1]
  <2>1. s1 \in Download
    BY <1>3
  <2>2. s2 \in Download
    <3> HIDE DEF s1
    <3> QED
      BY <1>1, <2>1, FieldUpdate
  <2>3. s.gen + 1 \in 0..MaxGen
    BY <1>1, BoundsAssumption
  <2> DEFINE s3 == [s2 EXCEPT !.gen = s.gen + 1]
  <2>4. s3 \in Download
    <3> HIDE DEF s2
    <3> QED
      BY <2>2, <2>3, FieldUpdate
  <2>5. [s3 EXCEPT !.partial = FALSE] \in Download
    <3> HIDE DEF s3
    <3> QED
      BY <2>4, FieldUpdate
  <2> QED
    BY <2>5
<1>6. Pausing(s) \in Download
  <2>1. [s EXCEPT !.status = "paused"] \in Download
    BY FieldUpdate, StatusNames
  <2> DEFINE s1 == [s EXCEPT !.status = "paused"]
  <2>2. [s1 EXCEPT !.token = s.token + 1] \in Download
    <3>1. s1 \in Download
      BY <2>1
    <3> HIDE DEF s1
    <3> QED
      BY <1>1, <3>1, FieldUpdate
  <2> QED
    BY <2>1, <2>2 DEF Pausing
<1>7. s.job < MaxJob => [s EXCEPT !.job = @ + 1, !.partial = TRUE] \in Download
  <2> DEFINE s1 == [s EXCEPT !.job = s.job + 1]
  <2>1. s.job < MaxJob => s1 \in Download
    BY <1>3
  <2>2. s.job < MaxJob => [s1 EXCEPT !.partial = TRUE] \in Download
    <3> HIDE DEF s1
    <3> QED
      BY <2>1, FieldUpdate
  <2> QED
    BY <2>2
<1> QED
  BY <1>2, <1>3, <1>4, <1>5, <1>6, <1>7

\* Idle threads have nothing to do, which is something of type Pending.
LEMMA IdleType == Idle \in Pending
BY DEF Idle, Pending

\* What a thread takes out of a critical section.
LEMMA PendingUpdates ==
    ASSUME NEW p \in Pending
    PROVE  /\ \A S \in SUBSET AddRequest : [p EXCEPT !.insert = S] \in Pending
           /\ \A S \in SUBSET (Gids \X Int) : [p EXCEPT !.place = S] \in Pending
           /\ \A S \in SUBSET Tokens : [p EXCEPT !.cancel = S] \in Pending
           /\ \A S \in SUBSET (Methods \X Gids) : [p EXCEPT !.notify = S] \in Pending
           /\ \A b \in BOOLEAN : [p EXCEPT !.dequeue = b] \in Pending
           /\ \A S \in SUBSET QueuedStart : [p EXCEPT !.spawn = S] \in Pending
           /\ \A S \in SUBSET (Methods \X Gids), b \in BOOLEAN : [p EXCEPT !.notify = S, !.dequeue = b] \in Pending
           /\ \A S \in SUBSET Tokens, N \in SUBSET (Methods \X Gids) : [p EXCEPT !.cancel = S, !.notify = N] \in Pending
           /\ \A S \in SUBSET Tokens, N \in SUBSET QueuedStart : [p EXCEPT !.cancel = S, !.spawn = N] \in Pending
           /\ \A b \in BOOLEAN, N \in SUBSET QueuedStart : [p EXCEPT !.dequeue = b, !.spawn = N] \in Pending
           /\ \A S \in SUBSET (Gids \X Int), b \in BOOLEAN, N \in SUBSET QueuedStart : [p EXCEPT !.place = S, !.dequeue = b, !.spawn = N] \in Pending
<1>1. \A S \in SUBSET AddRequest : [p EXCEPT !.insert = S] \in Pending
  BY DEF Pending
<1>2. \A S \in SUBSET (Gids \X Int) : [p EXCEPT !.place = S] \in Pending
  BY DEF Pending
<1>3. \A S \in SUBSET Tokens : [p EXCEPT !.cancel = S] \in Pending
  BY DEF Pending
<1>4. \A S \in SUBSET (Methods \X Gids) : [p EXCEPT !.notify = S] \in Pending
  BY DEF Pending
<1>5. \A b \in BOOLEAN : [p EXCEPT !.dequeue = b] \in Pending
  BY DEF Pending
<1>6. \A S \in SUBSET QueuedStart : [p EXCEPT !.spawn = S] \in Pending
  BY DEF Pending
<1>7. \A S \in SUBSET (Methods \X Gids), b \in BOOLEAN : [p EXCEPT !.notify = S, !.dequeue = b] \in Pending
  BY DEF Pending
<1>8. \A S \in SUBSET Tokens, N \in SUBSET (Methods \X Gids) : [p EXCEPT !.cancel = S, !.notify = N] \in Pending
  BY DEF Pending
<1>9. \A S \in SUBSET Tokens, N \in SUBSET QueuedStart : [p EXCEPT !.cancel = S, !.spawn = N] \in Pending
  BY DEF Pending
<1>10. \A b \in BOOLEAN, N \in SUBSET QueuedStart : [p EXCEPT !.dequeue = b, !.spawn = N] \in Pending
  BY DEF Pending
<1>11. \A S \in SUBSET (Gids \X Int), b \in BOOLEAN, N \in SUBSET QueuedStart : [p EXCEPT !.place = S, !.dequeue = b, !.spawn = N] \in Pending
  BY DEF Pending
<1> QED
  BY <1>1, <1>2, <1>3, <1>4, <1>5, <1>6, <1>7, <1>8, <1>9, <1>10, <1>11

\* Notifications have a method and a gid.
LEMMA NotesType ==
    ASSUME NEW method \in Methods, NEW S \in SUBSET Gids
    PROVE  Notes(method, S) \in SUBSET (Methods \X Gids)
BY DEF Notes

LEMMA OldTokensType ==
    ASSUME TypeOK, NEW S
    PROVE  OldTokens(S) \in SUBSET Tokens
BY DEF OldTokens, TypeOK, Tokens, With, Download

\* A start taken from a download with a run number is a QueuedStart.
LEMMA StartOfType ==
    ASSUME NEW g \in Gids, NEW s \in Download, s.gen > 0
    PROVE  StartOf(g, s) \in QueuedStart
BY DEF StartOf, QueuedStart, Download

\* One download of the map is replaced.
LEMMA OneUpdate ==
    ASSUME TypeOK, NEW g \in Gids, NEW s \in Download,
           s.status = "waiting" => s.gen < MaxGen
    PROVE  LET new == [states EXCEPT ![g] = s]
           IN  /\ new \in [Gids -> Download]
               /\ \A h \in Gids : new[h].status = "waiting" => new[h].gen < MaxGen
BY DEF TypeOK

\* The map after some downloads are forgotten.
LEMMA ForgetWaiting ==
    ASSUME NEW st \in [Gids -> Download], NEW gone,
           \A h \in Gids : st[h].status = "waiting" => st[h].gen < MaxGen
    PROVE  /\ Forget(st, gone) \in [Gids -> Download]
           /\ \A h \in Gids : Forget(st, gone)[h].status = "waiting"
                                => Forget(st, gone)[h].gen < MaxGen
BY ForgetType DEF Forget, Absent

LEMMA TypeInit == Init => TypeOK
<1> SUFFICES ASSUME Init PROVE TypeOK
  OBVIOUS
<1>1. Absent \in Download /\ Absent.status # "waiting"
  BY BoundsAssumption DEF Absent, Download, Status
<1>2. NotSpawned \in Run
  BY BoundsAssumption DEF NotSpawned, Run, Phases
<1>3. Idle \in Pending
  BY IdleType
<1> QED
  BY <1>1, <1>2, <1>3, BoundsAssumption DEF Init, TypeOK

LEMMA TypeAdd ==
    ASSUME TypeOK, NEW c \in Clients, AddDownload(c)
    PROVE  TypeOK'
<1>1. PICK at \in {{}} \cup {{p} : p \in IF "addAt" \in Calls THEN Offsets ELSE {}} :
        todo' = [todo EXCEPT ![c].insert = {[gid |-> nextGid, pos |-> nextPos, at |-> at]}]
  BY DEF AddDownload
<1>2. [gid |-> nextGid, pos |-> nextPos, at |-> at] \in AddRequest
  BY BoundsAssumption DEF AddRequest, AddDownload, TypeOK, Gids
<1>3. todo' \in [Threads -> Pending]
  <2>1. c \in Threads /\ todo[c] \in Pending
    BY DEF Threads, TypeOK
  <2>2. [todo[c] EXCEPT !.insert = {[gid |-> nextGid, pos |-> nextPos, at |-> at]}] \in Pending
    BY <1>2, <2>1, PendingUpdates
  <2> QED
    BY <1>1, <2>1, <2>2 DEF TypeOK
<1> QED
  BY <1>3, BoundsAssumption DEF AddDownload, TypeOK

LEMMA TypeInsert ==
    ASSUME TypeOK, NEW c \in Clients, InsertState(c)
    PROVE  TypeOK'
<1>1. PICK req \in todo[c].insert, gone \in Prunable(states, MaxRetained - 1) :
        InsertState(c)!(req, gone)
  BY DEF InsertState
<1> DEFINE kept == Forget(states, gone)
<1>2. c \in Threads /\ todo[c] \in Pending
  BY DEF Threads, TypeOK
<1>3. req \in AddRequest
  BY <1>2 DEF Pending
<1>4. /\ kept \in [Gids -> Download]
      /\ \A h \in Gids : kept[h].status = "waiting" => kept[h].gen < MaxGen
  BY ForgetWaiting DEF TypeOK
<1>5. /\ NewDownload(req) \in Download
      /\ NewDownload(req).status = "waiting" => NewDownload(req).gen < MaxGen
      /\ NewStatus = "active" => NewDownload(req).gen > 0
  BY <1>3, BoundsAssumption, ConfigAssumption, StatusNames
     DEF NewDownload, NewStatus, Download, AddRequest
<1>6. AfterInsert(req) \in Pending
  <2> DEFINE place == IF QueueEnabled THEN {req.gid} \X req.at ELSE {}
             spawn == IF NewStatus = "active" THEN {StartOf(req.gid, NewDownload(req))} ELSE {}
  <2>1. place \in SUBSET (Gids \X Int)
    BY <1>3, ConfigAssumption DEF AddRequest
  <2>2. spawn \in SUBSET QueuedStart
    BY <1>3, <1>5, StartOfType DEF AddRequest
  <2> DEFINE wait == NewStatus = "waiting"
  <2>3. AfterInsert(req) = [Idle EXCEPT !.place = place, !.dequeue = wait, !.spawn = spawn]
    BY DEF AfterInsert
  <2>4. wait \in BOOLEAN
    OBVIOUS
  <2> HIDE DEF place, spawn, wait
  <2>5. [Idle EXCEPT !.place = place, !.dequeue = wait, !.spawn = spawn] \in Pending
    BY <2>1, <2>2, <2>4, IdleType, PendingUpdates
  <2> QED
    BY <2>3, <2>5
<1>7. /\ states' \in [Gids -> Download]
      /\ \A h \in Gids : states'[h].status = "waiting" => states'[h].gen < MaxGen
  <2>1. states' = kept \/ states' = [kept EXCEPT ![req.gid] = NewDownload(req)]
    BY <1>1
  <2> HIDE DEF kept
  <2> QED
    BY <2>1, <1>4, <1>5
<1>8. todo' \in [Threads -> Pending]
  <2>1. todo' = [todo EXCEPT ![c] = Idle] \/ todo' = [todo EXCEPT ![c] = AfterInsert(req)]
    BY <1>1
  <2> QED
    BY <1>6, <2>1, IdleType DEF TypeOK
<1> QED
  BY <1>1, <1>7, <1>8 DEF TypeOK

LEMMA TypeChangePosition ==
    ASSUME TypeOK, NEW c \in Clients, NEW g \in Gids, ChangePosition(c, g)
    PROVE  TypeOK'
<1>1. PICK p \in Int : states' = Moved(g, Clamped(g, p))
  <2>1. /\ Ahead(states, With(Queued), g) \in Nat
        /\ Cardinality(With(Queued) \ {g}) \in Nat
    BY AheadNat, GidsFinite DEF With
  <2> QED
    BY <2>1, ConfigAssumption DEF ChangePosition
<1>2. Clamped(g, p) \in Nat
  BY ClampedNat
<1> QED
  BY <1>1, <1>2, MovedType DEF ChangePosition, TypeOK

LEMMA TypePlace ==
    ASSUME TypeOK, NEW c \in Clients, PlaceAdded(c)
    PROVE  TypeOK'
<1>1. PICK place \in todo[c].place : PlaceAdded(c)!2!(place)
  BY DEF PlaceAdded
<1>2. c \in Threads /\ todo[c] \in Pending
  BY DEF Threads, TypeOK
<1>3. place[1] \in Gids /\ place[2] \in Int
  BY <1>2 DEF Pending
<1>4. CASE place[1] \in With(Queued)
  <2>1. states' = Moved(place[1], Clamped(place[1], place[2]))
    BY <1>1, <1>4
  <2>2. Clamped(place[1], place[2]) \in Nat
    BY <1>3, ClampedNat
  <2>3. [todo[c] EXCEPT !.place = {}] \in Pending
    BY <1>2, PendingUpdates
  <2>4. todo' \in [Threads -> Pending]
    BY <1>1, <1>2, <1>4, <2>3 DEF TypeOK
  <2> QED
    BY <1>3, <2>1, <2>2, <2>4, MovedType DEF PlaceAdded, TypeOK
<1>5. CASE place[1] \notin With(Queued)
  <2>1. UNCHANGED states /\ todo' = [todo EXCEPT ![c] = Idle]
    BY <1>1, <1>5
  <2> QED
    BY <2>1, IdleType DEF PlaceAdded, TypeOK
<1> QED
  BY <1>4, <1>5

LEMMA TypeRemove ==
    ASSUME TypeOK, NEW c \in Clients, NEW g \in Gids, Remove(c, g)
    PROVE  TypeOK'
<1>1. [states[g] EXCEPT !.status = "removed"] \in Download
  BY FieldUpdate, StatusNames DEF TypeOK
<1>2. states' = [states EXCEPT ![g] = [states[g] EXCEPT !.status = "removed"]]
  BY DEF Remove
<1>3. [states[g] EXCEPT !.status = "removed"].status # "waiting"
  BY DEF TypeOK, Download
<1>4. todo' \in [Threads -> Pending]
  <2>1. c \in Threads /\ todo[c] \in Pending
    BY DEF Threads, TypeOK
  <2>2. Notes("stop", {g}) \in SUBSET (Methods \X Gids)
    BY NotesType DEF Methods
  <2>3. [todo[c] EXCEPT !.notify = Notes("stop", {g}), !.dequeue = states[g].status # "active"] \in Pending
    BY <2>1, <2>2, PendingUpdates
  <2>4. todo' = [todo EXCEPT ![c] = [todo[c] EXCEPT !.notify = Notes("stop", {g}),
                                                    !.dequeue = states[g].status # "active"]]
    BY DEF Remove
  <2> QED
    BY <2>1, <2>3, <2>4 DEF TypeOK
<1>5. cancelled' \subseteq Tokens
  BY DEF Remove, TypeOK, Tokens, Download
<1>6. /\ states' \in [Gids -> Download]
      /\ \A h \in Gids : states'[h].status = "waiting" => states'[h].gen < MaxGen
  BY <1>1, <1>2, <1>3, OneUpdate
<1> QED
  BY <1>4, <1>5, <1>6 DEF Remove, TypeOK

\* What a call that pauses leaves to do.
LEMMA PausePending ==
    ASSUME TypeOK, NEW c \in Clients, NEW S \in SUBSET Gids, NEW P,
           todo' = [todo EXCEPT ![c].cancel = OldTokens(P), ![c].notify = Notes("pause", S)]
    PROVE  todo' \in [Threads -> Pending]
<1>1. c \in Threads /\ todo[c] \in Pending
  BY DEF Threads, TypeOK
<1>2. Notes("pause", S) \in SUBSET (Methods \X Gids)
  BY NotesType DEF Methods
<1>3. OldTokens(P) \in SUBSET Tokens
  BY OldTokensType
<1>4. [todo[c] EXCEPT !.cancel = OldTokens(P), !.notify = Notes("pause", S)] \in Pending
  BY <1>1, <1>2, <1>3, PendingUpdates
<1>5. todo' = [todo EXCEPT ![c] = [todo[c] EXCEPT !.cancel = OldTokens(P), !.notify = Notes("pause", S)]]
  OBVIOUS
<1> QED
  BY <1>1, <1>4, <1>5 DEF TypeOK

\* A paused download has status "paused", its run number and its job.
LEMMA PausingFields ==
    ASSUME NEW s \in Download
    PROVE  /\ Pausing(s).status = "paused"
           /\ Pausing(s).gen = s.gen
           /\ Pausing(s).token = IF s.status = "active" THEN s.token + 1 ELSE s.token
BY DEF Pausing, Download

LEMMA TypePause ==
    ASSUME TypeOK, NEW c \in Clients, NEW g \in Gids, Pause(c, g)
    PROVE  TypeOK'
<1> DEFINE new(h) == IF h = g THEN [Pausing(states[g]) EXCEPT !.pos = 0]
                     ELSE IF h \in With(Queued) THEN [states[h] EXCEPT !.pos = @ + 1]
                     ELSE states[h]
<1>1. states' = [h \in Gids |-> new(h)]
  BY DEF Pause
<1>2. ASSUME NEW h \in Gids
      PROVE  new(h) \in Download /\ (new(h).status = "waiting" => new(h).gen < MaxGen)
  <2>0. states[h] \in Download /\ states[g] \in Download
    BY DEF TypeOK
  <2>1. CASE h = g
    <3> DEFINE p == Pausing(states[g])
    <3>1. p \in Download /\ p.status = "paused"
      BY <2>0, CallUpdates, PausingFields
    <3> HIDE DEF p
    <3>2. [p EXCEPT !.pos = 0] \in Download
      BY <3>1, FieldUpdate
    <3>3. [p EXCEPT !.pos = 0].status = "paused"
      BY <3>1 DEF Download
    <3>4. new(h) = [p EXCEPT !.pos = 0]
      BY <2>1 DEF p
    <3> QED
      BY <3>2, <3>3, <3>4
  <2>2. CASE h # g /\ h \in With(Queued)
    <3>1. new(h) = [states[h] EXCEPT !.pos = @ + 1]
      BY <2>2
    <3>2. [states[h] EXCEPT !.pos = @ + 1] \in Download
      BY <2>0, CallUpdates
    <3>3. /\ [states[h] EXCEPT !.pos = @ + 1].status = states[h].status
          /\ [states[h] EXCEPT !.pos = @ + 1].gen = states[h].gen
      BY <2>0 DEF Download
    <3> QED
      BY <3>1, <3>2, <3>3 DEF TypeOK
  <2>3. CASE h # g /\ h \notin With(Queued)
    BY <2>3 DEF TypeOK
  <2> QED
    BY <2>1, <2>2, <2>3
<1>3. todo' \in [Threads -> Pending]
  <2>1. /\ {g} \in SUBSET Gids
        /\ todo' = [todo EXCEPT ![c].cancel = OldTokens({g}), ![c].notify = Notes("pause", {g})]
    BY DEF Pause
  <2> QED
    BY <2>1, PausePending
<1> HIDE DEF new
<1> QED
  BY <1>1, <1>2, <1>3 DEF Pause, TypeOK

LEMMA TypePauseAll ==
    ASSUME TypeOK, NEW c \in Clients, PauseAll(c)
    PROVE  TypeOK'
<1> DEFINE paused == With({"waiting", "active"})
           new(h) == IF h \in paused THEN Pausing(states[h]) ELSE states[h]
<1>1. states' = [h \in Gids |-> new(h)]
  BY DEF PauseAll
<1>2. ASSUME NEW h \in Gids
      PROVE  new(h) \in Download /\ (new(h).status = "waiting" => new(h).gen < MaxGen)
  <2>1. Pausing(states[h]) \in Download /\ Pausing(states[h]).status = "paused"
    BY CallUpdates, PausingFields DEF TypeOK
  <2> QED
    BY <2>1 DEF TypeOK
<1>3. todo' \in [Threads -> Pending]
  <2>1. /\ paused \in SUBSET Gids
        /\ todo' = [todo EXCEPT ![c].cancel = OldTokens(paused), ![c].notify = Notes("pause", paused)]
    BY DEF PauseAll, With
  <2> QED
    BY <2>1, PausePending
<1> HIDE DEF new
<1> QED
  BY <1>1, <1>2, <1>3 DEF PauseAll, TypeOK

\* What a call that resumes leaves to do.
LEMMA ResumePending ==
    ASSUME TypeOK, NEW c \in Clients, todo' = [todo EXCEPT ![c].dequeue = TRUE]
    PROVE  todo' \in [Threads -> Pending]
<1>1. c \in Threads /\ todo[c] \in Pending
  BY DEF Threads, TypeOK
<1>2. [todo[c] EXCEPT !.dequeue = TRUE] \in Pending
  BY <1>1, PendingUpdates
<1> QED
  BY <1>1, <1>2 DEF TypeOK

LEMMA TypeUnpause ==
    ASSUME TypeOK, NEW c \in Clients, NEW g \in Gids, Unpause(c, g)
    PROVE  TypeOK'
<1> DEFINE s == [states[g] EXCEPT !.status = "waiting"]
<1>1. s \in Download
  BY FieldUpdate, StatusNames DEF TypeOK
<1>2. s.gen < MaxGen
  BY DEF Unpause, Resumable, TypeOK, Download
<1>3. states' = [states EXCEPT ![g] = s]
  BY DEF Unpause
<1> HIDE DEF s
<1>4. /\ states' \in [Gids -> Download]
      /\ \A h \in Gids : states'[h].status = "waiting" => states'[h].gen < MaxGen
  BY <1>1, <1>2, <1>3, OneUpdate
<1>5. todo' \in [Threads -> Pending]
  BY ResumePending DEF Unpause
<1> QED
  BY <1>4, <1>5 DEF Unpause, TypeOK

LEMMA TypeUnpauseAll ==
    ASSUME TypeOK, NEW c \in Clients, UnpauseAll(c)
    PROVE  TypeOK'
<1> DEFINE new(h) == IF states[h].status = "paused"
                     THEN [states[h] EXCEPT !.status = "waiting"] ELSE states[h]
<1>1. states' = [h \in Gids |-> new(h)]
  BY DEF UnpauseAll
<1>2. ASSUME NEW h \in Gids
      PROVE  new(h) \in Download /\ (new(h).status = "waiting" => new(h).gen < MaxGen)
  <2>1. CASE states[h].status = "paused"
    <3>1. [states[h] EXCEPT !.status = "waiting"] \in Download
      BY FieldUpdate, StatusNames DEF TypeOK
    <3>2. [states[h] EXCEPT !.status = "waiting"].gen = states[h].gen
      BY DEF TypeOK, Download
    <3>3. states[h].gen < MaxGen
      BY <2>1 DEF UnpauseAll, Resumable, With
    <3> QED
      BY <2>1, <3>1, <3>2, <3>3
  <2>2. CASE states[h].status # "paused"
    BY <2>2 DEF TypeOK
  <2> QED
    BY <2>1, <2>2
<1>3. todo' \in [Threads -> Pending]
  BY ResumePending DEF UnpauseAll
<1> HIDE DEF new
<1> QED
  BY <1>1, <1>2, <1>3 DEF UnpauseAll, TypeOK

\* A change that is rejected leaves the queue as it is.
LEMMA RejectedFields ==
    ASSUME TypeOK, NEW c \in Clients, NEW g \in Gids, ChangeOptionRejected(c, g), NEW h \in Gids
    PROVE  /\ states'[h].status = states[h].status /\ states'[h].gen = states[h].gen
           /\ states'[h].token = states[h].token /\ states'[h].pos = states[h].pos
<1>1. states[h] \in Download
  BY DEF TypeOK
<1>2. states'[h] \in {states[h], [states[h] EXCEPT !.job = @ + 1, !.partial = TRUE]}
  BY DEF TypeOK, ChangeOptionRejected
<1>3. CASE states'[h] = [states[h] EXCEPT !.job = @ + 1, !.partial = TRUE]
  BY <1>1, <1>3 DEF Download
<1> QED
  BY <1>2, <1>3

\* A change of the URI or of the options alone.
LEMMA TypeJob ==
    ASSUME TypeOK, NEW g \in Gids, states[g].job < MaxJob,
           \/ states' = [states EXCEPT ![g].job = @ + 1]
           \/ states' = [states EXCEPT ![g] = [states[g] EXCEPT !.job = @ + 1, !.partial = TRUE]],
           UNCHANGED <<nextGid, nextPos, cancelled, runs, todo, sent>>
    PROVE  TypeOK'
<1>1. PICK s : /\ s \in {[states[g] EXCEPT !.job = @ + 1],
                         [states[g] EXCEPT !.job = @ + 1, !.partial = TRUE]}
               /\ states' = [states EXCEPT ![g] = s]
  <2>1. CASE states' = [states EXCEPT ![g].job = @ + 1]
    <3>1. states' = [states EXCEPT ![g] = [states[g] EXCEPT !.job = @ + 1]]
      BY <2>1
    <3> QED
      BY <3>1
  <2>2. CASE states' = [states EXCEPT ![g] = [states[g] EXCEPT !.job = @ + 1, !.partial = TRUE]]
    BY <2>2
  <2> QED
    BY <2>1, <2>2
<1>2. s.status = states[g].status /\ s.gen = states[g].gen
  <2>1. states[g] \in Download
    BY DEF TypeOK
  <2>2. CASE s = [states[g] EXCEPT !.job = @ + 1]
    BY <2>1, <2>2 DEF Download
  <2>3. CASE s = [states[g] EXCEPT !.job = @ + 1, !.partial = TRUE]
    BY <2>1, <2>3 DEF Download
  <2> QED
    BY <1>1, <2>2, <2>3
<1>3. s \in Download
  BY <1>1, CallUpdates DEF TypeOK
<1>4. /\ states' \in [Gids -> Download]
      /\ \A h \in Gids : states'[h].status = "waiting" => states'[h].gen < MaxGen
  BY <1>1, <1>2, <1>3, OneUpdate DEF TypeOK
<1> QED
  BY <1>4 DEF TypeOK

LEMMA TypeChangeOption ==
    ASSUME TypeOK, NEW c \in Clients, NEW g \in Gids, ChangeOption(c, g)
    PROVE  TypeOK'
<1>1. CASE states' = [states EXCEPT ![g].job = @ + 1] /\ UNCHANGED todo
  BY <1>1, TypeJob DEF ChangeOption
<1>2. CASE states[g].status = "active" /\ ChangeOption(c, g)!3!2
  <2> DEFINE new == [states[g] EXCEPT !.job = @ + 1, !.token = @ + 1, !.gen = @ + 1, !.partial = FALSE]
             p == [todo[c] EXCEPT !.cancel = {<<g, states[g].token>>}, !.spawn = {StartOf(g, new)}]
  <2>1. /\ states[g].gen < MaxGen
        /\ states' = [states EXCEPT ![g] = new]
        /\ todo' = [todo EXCEPT ![c] = p]
    BY <1>2
  <2>2. states[g] \in Download
    BY DEF TypeOK
  <2>3. new \in Download
    BY <2>1, <2>2, CallUpdates DEF ChangeOption
  <2>4. new.status = "active" /\ new.gen = states[g].gen + 1
    BY <1>2, <2>2 DEF Download
  <2>5. StartOf(g, new) \in QueuedStart
    <3>1. new.gen > 0
      BY <2>2, <2>4 DEF Download
    <3> HIDE DEF new
    <3> QED
      BY <2>3, <3>1, StartOfType
  <2>6. p \in Pending
    <3>1. c \in Threads /\ todo[c] \in Pending
      BY DEF Threads, TypeOK
    <3>2. {<<g, states[g].token>>} \in SUBSET Tokens
      BY <2>2 DEF Tokens, Download
    <3> HIDE DEF new
    <3> QED
      BY <2>5, <3>1, <3>2, PendingUpdates
  <2> HIDE DEF new, p
  <2>7. /\ states' \in [Gids -> Download]
        /\ \A h \in Gids : states'[h].status = "waiting" => states'[h].gen < MaxGen
    BY <2>1, <2>3, <2>4, OneUpdate
  <2> QED
    BY <2>1, <2>6, <2>7 DEF ChangeOption, TypeOK
<1> QED
  BY <1>1, <1>2 DEF ChangeOption

LEMMA TypeForget ==
    ASSUME TypeOK, NEW gone, states' = Forget(states, gone),
           UNCHANGED <<nextGid, nextPos, cancelled, runs, todo, sent>>
    PROVE  TypeOK'
<1>1. /\ states' \in [Gids -> Download]
      /\ \A h \in Gids : states'[h].status = "waiting" => states'[h].gen < MaxGen
  BY ForgetWaiting DEF TypeOK
<1> QED
  BY <1>1 DEF TypeOK

LEMMA TypeAfterUnlock ==
    ASSUME TypeOK, NEW t \in Threads, AfterUnlock(t)
    PROVE  TypeOK'
<1>0. todo[t] \in Pending
  BY DEF TypeOK
<1>1. CASE CancelToken(t)
  <2>1. PICK token \in todo[t].cancel : CancelToken(t)!1!(token)
    BY <1>1 DEF CancelToken
  <2>2. todo[t].cancel \in SUBSET Tokens
    BY <1>0 DEF Pending
  <2>3. [todo[t] EXCEPT !.cancel = todo[t].cancel \ {token}] \in Pending
    BY <1>0, <2>2, PendingUpdates
  <2>4. todo' \in [Threads -> Pending]
    BY <2>1, <2>3 DEF TypeOK
  <2> QED
    BY <1>1, <2>1, <2>2, <2>4 DEF CancelToken, TypeOK
<1>2. CASE SendLifecycle(t)
  <2>1. PICK note \in todo[t].notify : SendLifecycle(t)!2!(note)
    BY <1>2 DEF SendLifecycle
  <2>2. todo[t].notify \in SUBSET (Methods \X Gids)
    BY <1>0 DEF Pending
  <2>3. [todo[t] EXCEPT !.notify = todo[t].notify \ {note}] \in Pending
    BY <1>0, <2>2, PendingUpdates
  <2>4. todo' \in [Threads -> Pending]
    BY <2>1, <2>3 DEF TypeOK
  <2> QED
    BY <1>2, <2>1, <2>2, <2>4 DEF SendLifecycle, TypeOK
<1>3. CASE DequeueWaiting(t)
  <2>1. ASSUME NEW g \in Chosen
        PROVE  /\ g \in Gids
               /\ Started[g] \in Download
               /\ Started[g].gen > 0 /\ Started[g].status = "active"
    <3>1. g \in Gids /\ states[g].status = "waiting"
      BY DEF Chosen, With
    <3>2. states[g].gen < MaxGen /\ states[g] \in Download
      BY <3>1 DEF TypeOK
    <3>3. [states[g] EXCEPT !.status = "active", !.gen = @ + 1, !.partial = FALSE] \in Download
      BY <3>2, CallUpdates
    <3>4. /\ [states[g] EXCEPT !.status = "active", !.gen = @ + 1, !.partial = FALSE].gen > 0
          /\ [states[g] EXCEPT !.status = "active", !.gen = @ + 1, !.partial = FALSE].status = "active"
      BY <3>2 DEF Download
    <3>5. Started[g] = [states[g] EXCEPT !.status = "active", !.gen = @ + 1, !.partial = FALSE]
      BY <3>1 DEF Started
    <3> QED
      BY <3>1, <3>3, <3>4, <3>5
  <2>2. /\ Started \in [Gids -> Download]
        /\ \A h \in Gids : Started[h].status = "waiting" => Started[h].gen < MaxGen
    <3>1. ASSUME NEW h \in Gids
          PROVE  Started[h] \in Download /\ (Started[h].status = "waiting" => Started[h].gen < MaxGen)
      <4>1. CASE h \in Chosen
        BY <2>1, <4>1
      <4>2. CASE h \notin Chosen
        <5>1. Started[h] = states[h]
          BY <4>2 DEF Started
        <5> QED
          BY <5>1 DEF TypeOK
      <4> QED
        BY <4>1, <4>2
    <3>2. Started = [h \in Gids |-> Started[h]]
      BY DEF Started
    <3> QED
      BY <3>1, <3>2
  <2>3. {StartOf(g, Started[g]) : g \in Chosen} \in SUBSET QueuedStart
    BY <2>1, StartOfType
  <2>4. [todo[t] EXCEPT !.dequeue = FALSE, !.spawn = {StartOf(g, Started[g]) : g \in Chosen}] \in Pending
    BY <1>0, <2>3, PendingUpdates
  <2>5. todo' = [todo EXCEPT ![t] = [todo[t] EXCEPT !.dequeue = FALSE,
                                                   !.spawn = {StartOf(g, Started[g]) : g \in Chosen}]]
    BY <1>3 DEF DequeueWaiting
  <2>6. todo' \in [Threads -> Pending]
    BY <2>4, <2>5 DEF TypeOK
  <2> QED
    BY <1>3, <2>2, <2>6 DEF DequeueWaiting, TypeOK
<1>4. CASE SpawnDownload(t)
  <2>1. PICK s \in todo[t].spawn : SpawnDownload(t)!2!(s)
    BY <1>4 DEF SpawnDownload
  <2>2. todo[t].spawn \in SUBSET QueuedStart /\ s \in QueuedStart
    BY <1>0 DEF Pending
  <2>3. [todo[t] EXCEPT !.spawn = todo[t].spawn \ {s}] \in Pending
    BY <1>0, <2>2, PendingUpdates
  <2>4. todo' \in [Threads -> Pending]
    BY <2>1, <2>3 DEF TypeOK
  <2>5. runs' \in [RunIds -> Run]
    <3>1. [phase |-> "starting", token |-> s.token, job |-> s.job] \in Run
      BY <2>2 DEF QueuedStart, Run, Phases
    <3>2. <<s.gid, s.gen>> \in RunIds
      BY <2>2 DEF QueuedStart, RunIds
    <3> QED
      BY <2>1, <3>1, <3>2 DEF TypeOK
  <2>6. sent' \in SUBSET (Methods \X Gids)
    <3>1. Notes("start", {s.gid}) \in SUBSET (Methods \X Gids)
      BY <2>2, NotesType DEF Methods, QueuedStart
    <3> QED
      BY <2>1, <3>1 DEF TypeOK
  <2> QED
    BY <1>4, <2>4, <2>5, <2>6 DEF SpawnDownload, TypeOK
<1> QED
  BY <1>1, <1>2, <1>3, <1>4 DEF AfterUnlock

\* A change of the phase of a run keeps the type of the runs.
LEMMA RunUpdate ==
    ASSUME TypeOK, NEW r \in RunIds
    PROVE  /\ \A p \in Phases : [runs EXCEPT ![r].phase = p] \in [RunIds -> Run]
           /\ [runs EXCEPT ![r] = Ended] \in [RunIds -> Run]
<1>1. \A p \in Phases : [runs[r] EXCEPT !.phase = p] \in Run
  BY DEF TypeOK, Run
<1>2. Ended \in Run
  BY BoundsAssumption DEF Ended, Run, Phases
<1> QED
  BY <1>1, <1>2 DEF TypeOK

LEMMA TypeSession ==
    ASSUME TypeOK, NEW r \in RunIds, BeginSession(r) \/ ReportFinished(r)
    PROVE  TypeOK'
<1>1. CASE BeginSession(r)
  BY <1>1, RunUpdate DEF BeginSession, TypeOK, Phases
<1>2. CASE ReportFinished(r)
  <2>1. runs' \in [RunIds -> Run]
    BY <1>2, RunUpdate DEF ReportFinished, Phases
  <2>2. r[1] \in Gids
    BY DEF RunIds
  <2> DEFINE s == [states[r[1]] EXCEPT !.status = "complete"]
  <2>3. s \in Download /\ s.status # "waiting"
    BY <2>2, FieldUpdate, StatusNames DEF TypeOK, Download
  <2>4. states' = [states EXCEPT ![r[1]] = s] \/ UNCHANGED states
    BY <1>2 DEF ReportFinished
  <2> HIDE DEF s
  <2>5. /\ states' \in [Gids -> Download]
        /\ \A h \in Gids : states'[h].status = "waiting" => states'[h].gen < MaxGen
    BY <2>2, <2>3, <2>4, OneUpdate DEF TypeOK
  <2> QED
    BY <1>2, <2>1, <2>5 DEF ReportFinished, TypeOK
<1> QED
  BY <1>1, <1>2

\* finish_download with a status that is not "waiting".
LEMMA TypeFinishDownload ==
    ASSUME TypeOK, NEW r \in RunIds, NEW status \in Status \ {"waiting"},
           NEW notes \in SUBSET (Methods \X Gids), FinishDownload(r, status, notes)
    PROVE  TypeOK'
<1> DEFINE g == r[1]
           s == [states[g] EXCEPT !.status = status]
           ended == [states EXCEPT ![g] = s]
<1>1. g \in Gids
  BY DEF RunIds
<1>2. s \in Download /\ s.status = status
  BY <1>1, FieldUpdate DEF TypeOK, Download
<1>3. \/ UNCHANGED states
      \/ \E gone : states' = Forget(ended, gone)
  BY DEF FinishDownload
<1>4. \E N \in SUBSET (Methods \X Gids) :
        todo' = [todo EXCEPT ![r] = [Idle EXCEPT !.notify = N, !.dequeue = TRUE]] \/ UNCHANGED todo
  <2>1. Notes("complete", {g}) \in SUBSET (Methods \X Gids)
    BY <1>1, NotesType DEF Methods
  <2> QED
    BY <2>1 DEF FinishDownload
<1>5. /\ states' \in [Gids -> Download]
      /\ \A h \in Gids : states'[h].status = "waiting" => states'[h].gen < MaxGen
  <2>1. /\ ended \in [Gids -> Download]
        /\ \A h \in Gids : ended[h].status = "waiting" => ended[h].gen < MaxGen
    <3> HIDE DEF s
    <3> QED
      BY <1>1, <1>2, OneUpdate
  <2> HIDE DEF ended
  <2> QED
    BY <1>3, <2>1, ForgetWaiting DEF TypeOK
<1>6. todo' \in [Threads -> Pending]
  <2>1. \A N \in SUBSET (Methods \X Gids) : [Idle EXCEPT !.notify = N, !.dequeue = TRUE] \in Pending
    BY IdleType, PendingUpdates
  <2> QED
    BY <1>4, <2>1 DEF TypeOK
<1>7. runs' \in [RunIds -> Run]
  BY RunUpdate DEF FinishDownload
<1> QED
  BY <1>5, <1>6, <1>7 DEF FinishDownload, TypeOK

LEMMA TypeFinish ==
    ASSUME TypeOK, NEW r \in RunIds, Finish(r)
    PROVE  TypeOK'
<1>1. r[1] \in Gids
  BY DEF RunIds
<1>2. /\ Notes("complete", {r[1]}) \in SUBSET (Methods \X Gids)
      /\ Notes("stop", {r[1]}) \in SUBSET (Methods \X Gids)
      /\ Notes("error", {r[1]}) \in SUBSET (Methods \X Gids)
      /\ {} \in SUBSET (Methods \X Gids)
  BY <1>1, NotesType DEF Methods
<1>3. {"complete", "removed", "paused", "error"} \subseteq Status \ {"waiting"}
  BY StatusNames
<1>4. CASE FinishOk(r)
  BY <1>2, <1>3, <1>4, TypeFinishDownload DEF FinishOk
<1>5. CASE FinishCancelled(r)
  BY <1>2, <1>3, <1>5, TypeFinishDownload DEF FinishCancelled
<1>6. CASE FinishError(r)
  BY <1>2, <1>3, <1>6, TypeFinishDownload DEF FinishError
<1> QED
  BY <1>4, <1>5, <1>6 DEF Finish

LEMMA TypeCall ==
    ASSUME TypeOK, NEW c \in Clients, Call(c)
    PROVE  TypeOK'
<1>1. CASE AddDownload(c) \/ PauseAll(c) \/ UnpauseAll(c)
  BY <1>1, TypeAdd, TypePauseAll, TypeUnpauseAll
<1>2. CASE PurgeDownloadResults(c)
  BY <1>2, TypeForget DEF PurgeDownloadResults
<1>3. ASSUME NEW g \in Gids,
             \/ ChangePosition(c, g) \/ Remove(c, g) \/ Pause(c, g) \/ Unpause(c, g)
             \/ ChangeUri(c, g) \/ ChangeOption(c, g) \/ ChangeOptionRejected(c, g)
             \/ RemoveDownloadResult(c, g)
      PROVE  TypeOK'
  <2>1. CASE ChangePosition(c, g) \/ Remove(c, g) \/ Pause(c, g) \/ Unpause(c, g) \/ ChangeOption(c, g)
    BY <2>1, TypeChangePosition, TypeRemove, TypePause, TypeUnpause, TypeChangeOption
  <2>2. CASE ChangeUri(c, g) \/ ChangeOptionRejected(c, g)
    BY <2>2, TypeJob DEF ChangeUri, ChangeOptionRejected
  <2>3. CASE RemoveDownloadResult(c, g)
    BY <2>3, TypeForget DEF RemoveDownloadResult
  <2> QED
    BY <1>3, <2>1, <2>2, <2>3
<1> QED
  BY <1>1, <1>2, <1>3 DEF Call

LEMMA TypeNext == TypeOK /\ [Next]_vars => TypeOK'
<1> SUFFICES ASSUME TypeOK, [Next]_vars PROVE TypeOK'
  OBVIOUS
<1>1. ASSUME NEW c \in Clients, Call(c) \/ InsertState(c) \/ PlaceAdded(c)
      PROVE  TypeOK'
  BY <1>1, TypeCall, TypeInsert, TypePlace
<1>2. ASSUME NEW t \in Threads, AfterUnlock(t)
      PROVE  TypeOK'
  BY <1>2, TypeAfterUnlock
<1>3. ASSUME NEW r \in RunIds, BeginSession(r) \/ ReportFinished(r) \/ Finish(r)
      PROVE  TypeOK'
  BY <1>3, TypeSession, TypeFinish
<1>4. CASE UNCHANGED vars
  BY <1>4 DEF vars, TypeOK
<1> QED
  BY <1>1, <1>2, <1>3, <1>4 DEF Next

\* Every variable of the manager keeps its type; in particular a waiting
\* download can always be given the run that dequeueing it starts.
THEOREM TypeCorrect == Spec => []TypeOK
<1>1. Init => TypeOK
  BY TypeInit
<1>2. TypeOK /\ [Next]_vars => TypeOK'
  BY TypeNext
<1> QED
  BY <1>1, <1>2, PTL DEF Spec

-----------------------------------------------------------------------------
(* The queue's limit.                                                      *)

LEMMA LimitNat == Limit \in Nat \ {0}
BY ConfigAssumption DEF Limit

\* The queue has an order: who is before another has fewer ahead.
LEMMA AheadGrows ==
    ASSUME TypeOK, NEW S \in SUBSET Gids, NEW g \in S, NEW h \in S, Before(states, g, h)
    PROVE  Ahead(states, S, g) < Ahead(states, S, h)
<1> DEFINE below(z) == {w \in S : Before(states, w, z)}
<1>1. \A w \in S : states[w].pos \in Nat /\ w \in Int
  BY BoundsAssumption DEF TypeOK, Download, Gids
<1>2. below(g) \subseteq below(h)
  BY <1>1 DEF Before
<1>3. g \in below(h) /\ g \notin below(g)
  BY <1>1 DEF Before
<1>4. /\ IsFiniteSet(below(h)) /\ Cardinality(below(g)) \in Nat /\ Cardinality(below(h)) \in Nat
  BY GidsFinite
<1>5. Cardinality(below(g)) <= Cardinality(below(h)) /\ Cardinality(below(g)) # Cardinality(below(h))
  <2> HIDE DEF below
  <2>1. below(g) \in SUBSET below(h)
    BY <1>2
  <2> QED BY <1>3, <1>4, <2>1, FS_Subset
<1> QED BY <1>4, <1>5 DEF Ahead

\* Two waiting downloads have different indexes in the queue.
LEMMA AheadInjective ==
    ASSUME TypeOK, NEW S \in SUBSET Gids, NEW g \in S, NEW h \in S, g # h
    PROVE  Ahead(states, S, g) # Ahead(states, S, h)
<1>1. \A x, y \in S : Before(states, x, y) => Ahead(states, S, x) < Ahead(states, S, y)
  BY AheadGrows
<1>2. Before(states, g, h) \/ Before(states, h, g)
  <2>1. /\ states[g].pos \in Nat /\ g \in Int
        /\ states[h].pos \in Nat /\ h \in Int
    BY BoundsAssumption DEF TypeOK, Download, Gids
  <2> QED
    BY <2>1 DEF Before
<1>3. Ahead(states, S, g) \in Nat /\ Ahead(states, S, h) \in Nat
  BY AheadNat
<1> QED
  BY <1>1, <1>2, <1>3

\* Dequeueing takes no more downloads than there are free slots.
LEMMA ChosenFits ==
    ASSUME TypeOK, ActiveWithinLimit
    PROVE  Cardinality(With({"active"}) \cup Chosen) <= Limit
<1> DEFINE A == With({"active"})
           W == With({"waiting"})
           n == Limit - Cardinality(A)
           f == [g \in Chosen |-> Ahead(states, W, g)]
<1>1. A \in SUBSET Gids /\ W \in SUBSET Gids /\ Chosen \in SUBSET W
  BY DEF With, Chosen
<1>2. /\ IsFiniteSet(A) /\ Cardinality(A) \in Nat
      /\ IsFiniteSet(Chosen) /\ Cardinality(Chosen) \in Nat
  BY <1>1, GidsFinite
<1>3. n \in Nat
  BY <1>2, LimitNat DEF ActiveWithinLimit
<1>4. \A g \in Chosen : Ahead(states, W, g) \in 0..(n - 1)
  <2>1. \A g \in Chosen : Ahead(states, W, g) \in Nat
    BY <1>1, AheadNat
  <2>2. \A g \in Chosen : Cardinality(A) + Ahead(states, W, g) < Limit
    BY DEF Chosen
  <2> QED
    BY <1>2, <1>3, <2>1, <2>2, LimitNat
<1>5. f \in Injection(Chosen, 0..(n - 1))
  <2>1. f \in [Chosen -> 0..(n - 1)]
    BY <1>4
  <2>2. \A g, h \in Chosen : f[g] = f[h] => g = h
    BY <1>1, AheadInjective
  <2> QED
    BY <2>1, <2>2 DEF Injection, IsInjective
<1>6. IsFiniteSet(0..(n - 1)) /\ Cardinality(0..(n - 1)) = n
  BY <1>3, FS_Interval
<1>7. Cardinality(Chosen) <= n
  <2> HIDE DEF f
  <2> QED
    BY <1>5, <1>6, FS_Injection
<1>8. Cardinality(A \cup Chosen) <= Cardinality(A) + Cardinality(Chosen)
  <2>1. Cardinality(A \cap Chosen) \in Nat
    BY <1>1, GidsFinite
  <2>2. Cardinality(A \cup Chosen) = Cardinality(A) + Cardinality(Chosen) - Cardinality(A \cap Chosen)
    BY <1>2, FS_Union
  <2> QED
    BY <1>2, <2>1, <2>2
<1>9. A \cup Chosen \in SUBSET Gids
  BY <1>1
<1>10. Cardinality(A \cup Chosen) \in Nat
  BY <1>9, GidsFinite
<1> HIDE DEF A
<1>11. Cardinality(A \cup Chosen) <= Limit
  BY <1>2, <1>7, <1>8, <1>10, LimitNat
<1> QED
  BY <1>11 DEF A

\* A step that activates nothing keeps the limit.
LEMMA NoneActivated ==
    ASSUME ActiveWithinLimit,
           \A g \in Gids : states'[g].status = "active" => states[g].status = "active"
    PROVE  ActiveWithinLimit'
<1>1. With({"active"})' \in SUBSET With({"active"})
  BY DEF With
<1>2. With({"active"}) \in SUBSET Gids /\ With({"active"})' \in SUBSET Gids
  BY DEF With
<1>3. Cardinality(With({"active"})') <= Cardinality(With({"active"}))
  BY <1>1, <1>2, GidsFinite, FS_Subset
<1>4. Cardinality(With({"active"})') \in Nat /\ Cardinality(With({"active"})) \in Nat
  BY <1>2, GidsFinite
<1> QED
  BY <1>3, <1>4, LimitNat DEF ActiveWithinLimit, Limit

\* Among the calls and the runs, nothing but an insertion and a dequeue makes a
\* download active.
LEMMA CallsActivateNone ==
    ASSUME TypeOK, NEW c \in Clients, Call(c) \/ PlaceAdded(c), NEW h \in Gids,
           states'[h].status = "active"
    PROVE  states[h].status = "active"
<1> USE DEF TypeOK
<1>0. states[h] \in Download
  OBVIOUS
<1>1. CASE AddDownload(c)
  BY <1>1 DEF AddDownload
<1>2. CASE PauseAll(c)
  BY <1>0, <1>2, PausingFields DEF PauseAll
<1>3. CASE UnpauseAll(c)
  BY <1>0, <1>3 DEF UnpauseAll, Download
<1>4. CASE PurgeDownloadResults(c)
  BY <1>4 DEF PurgeDownloadResults, Forget, Absent
<1>5. CASE PlaceAdded(c)
  <2>1. PICK place \in todo[c].place : PlaceAdded(c)!2!(place)
    BY <1>5 DEF PlaceAdded
  <2>2. c \in Threads /\ todo[c] \in Pending
    BY DEF Threads
  <2>3. place[1] \in Gids /\ Clamped(place[1], place[2]) \in Nat
    BY <2>2, ClampedNat DEF Pending
  <2> QED
    BY <2>1, <2>3, MovedType
<1>6. ASSUME NEW g \in Gids, ChangePosition(c, g)
      PROVE  states[h].status = "active"
  <2>1. PICK p \in Int : states' = Moved(g, Clamped(g, p))
    <3>1. /\ Ahead(states, With(Queued), g) \in Nat
          /\ Cardinality(With(Queued) \ {g}) \in Nat
      BY AheadNat, GidsFinite DEF With
    <3> QED
      BY <1>6, <3>1, ConfigAssumption DEF ChangePosition
  <2> QED
    BY <2>1, ClampedNat, MovedType
<1>7. ASSUME NEW g \in Gids, Pause(c, g)
      PROVE  states[h].status = "active"
  <2>1. CASE h = g
    <3> DEFINE p == Pausing(states[g])
    <3>1. p \in Download /\ p.status = "paused"
      BY CallUpdates, PausingFields
    <3>2. states'[h] = [p EXCEPT !.pos = 0]
      BY <1>7, <2>1 DEF Pause
    <3> HIDE DEF p
    <3> QED
      BY <3>1, <3>2 DEF Download
  <2>2. CASE h # g
    BY <1>0, <1>7, <2>2 DEF Pause, Download
  <2> QED
    BY <2>1, <2>2
<1>8. ASSUME NEW g \in Gids,
             Remove(c, g) \/ Unpause(c, g) \/ ChangeUri(c, g) \/ ChangeOptionRejected(c, g)
      PROVE  states[h].status = "active"
  <2>1. CASE Remove(c, g) \/ ChangeUri(c, g)
    BY <1>0, <2>1 DEF Remove, ChangeUri, Download
  <2>2. CASE Unpause(c, g)
    BY <1>0, <2>2 DEF Unpause, Download
  <2>3. CASE ChangeOptionRejected(c, g)
    BY <1>0, <2>3, RejectedFields
  <2> QED BY <1>8, <2>1, <2>2, <2>3
<1>9. ASSUME NEW g \in Gids, ChangeOption(c, g)
      PROVE  states[h].status = "active"
  BY <1>0, <1>9 DEF ChangeOption, Download
<1>10. ASSUME NEW g \in Gids, RemoveDownloadResult(c, g)
       PROVE  states[h].status = "active"
  BY <1>10 DEF RemoveDownloadResult, Forget, Absent
<1> QED
  BY <1>1, <1>2, <1>3, <1>4, <1>5, <1>6, <1>7, <1>8, <1>9, <1>10 DEF Call

LEMMA RunsActivateNone ==
    ASSUME TypeOK, NEW r \in RunIds,
           BeginSession(r) \/ ReportFinished(r) \/ Finish(r), NEW h \in Gids,
           states'[h].status = "active"
    PROVE  states[h].status = "active"
<1>0. r[1] \in Gids /\ states[h] \in Download /\ states[r[1]] \in Download
  BY DEF RunIds, TypeOK
<1>1. CASE BeginSession(r)
  BY <1>1 DEF BeginSession
<1>2. CASE ReportFinished(r)
  BY <1>0, <1>2 DEF ReportFinished, TypeOK
<1>3. ASSUME NEW status \in {"complete", "removed", "paused", "error"}, NEW notes,
             FinishDownload(r, status, notes)
      PROVE  states[h].status = "active"
  <2>1. CASE UNCHANGED states
    BY <2>1
  <2>2. CASE \E gone : states' = Forget([states EXCEPT ![r[1]].status = status], gone)
    <3>1. PICK gone : states' = Forget([states EXCEPT ![r[1]].status = status], gone)
      BY <2>2
    <3>2. [states EXCEPT ![r[1]].status = status][h].status = "active"
      BY <3>1 DEF Forget, Absent
    <3> QED
      BY <1>0, <3>2 DEF TypeOK, Download
  <2> QED
    BY <1>3, <2>1, <2>2 DEF FinishDownload
<1>4. CASE Finish(r)
  BY <1>3, <1>4 DEF Finish, FinishOk, FinishCancelled, FinishError
<1> QED
  BY <1>1, <1>2, <1>4

\* Inserting: a download that is active from the start was counted.
LEMMA InsertWithinLimit ==
    ASSUME TypeOK, ActiveWithinLimit, NEW c \in Clients, InsertState(c)
    PROVE  ActiveWithinLimit'
<1>1. PICK req \in todo[c].insert, gone \in Prunable(states, MaxRetained - 1) :
        InsertState(c)!(req, gone)
  BY DEF InsertState
<1> DEFINE kept == Forget(states, gone)
           A == With({"active"})
<1>2. \A h \in Gids : kept[h].status = "active" => states[h].status = "active"
  BY DEF Forget, Absent
<1>3. \/ states' = kept
      \/ /\ states' = [kept EXCEPT ![req.gid] = NewDownload(req)]
         /\ NewStatus = "active" => Cardinality(A) < MaxActive
  <2>1. Cardinality(A) \in Nat /\ MaxActive \in Nat
    BY GidsFinite, ConfigAssumption DEF With
  <2> QED
    BY <1>1, <2>1
<1>4. CASE states' = kept \/ NewStatus # "active"
  <2>1. \A h \in Gids : states'[h].status = "active" => states[h].status = "active"
    <3>1. ASSUME states' = [kept EXCEPT ![req.gid] = NewDownload(req)], NewStatus # "active",
                 NEW h \in Gids, states'[h].status = "active"
          PROVE  kept[h].status = "active"
      BY <3>1 DEF Forget, NewDownload
    <3> QED
      BY <1>2, <1>3, <1>4, <3>1
  <2> QED
    BY <2>1, NoneActivated
<1>5. CASE states' # kept /\ NewStatus = "active"
  <2>1. ~QueueEnabled
    BY <1>5, ConfigAssumption DEF NewStatus
  <2>2. Cardinality(A) + 1 <= Limit
    <3>1. Cardinality(A) \in Nat
      BY GidsFinite DEF With
    <3> QED
      BY <1>3, <1>5, <2>1, <3>1, ConfigAssumption DEF Limit
  <2>3. With({"active"})' \subseteq A \cup {req.gid}
    BY <1>2, <1>3, <1>5 DEF With, Forget
  <2>4. A \in SUBSET Gids /\ With({"active"})' \in SUBSET Gids
    BY DEF With
  <2>5. /\ IsFiniteSet(A \cup {req.gid})
        /\ Cardinality(A \cup {req.gid}) <= Cardinality(A) + 1
        /\ Cardinality(A) \in Nat /\ Cardinality(A \cup {req.gid}) \in Nat
    <3>1. IsFiniteSet(A) /\ Cardinality(A) \in Nat
      BY <2>4, GidsFinite
    <3> HIDE DEF A
    <3>2. /\ IsFiniteSet(A \cup {req.gid})
          /\ Cardinality(A \cup {req.gid}) = IF req.gid \in A THEN Cardinality(A) ELSE Cardinality(A) + 1
      BY <3>1, FS_AddElement
    <3> QED
      BY <3>1, <3>2
  <2>6. Cardinality(With({"active"})') <= Cardinality(A \cup {req.gid})
    <3>1. With({"active"})' \in SUBSET (A \cup {req.gid})
      BY <2>3
    <3> QED
      BY <2>5, <3>1, FS_Subset
  <2>7. Cardinality(With({"active"})') \in Nat
    BY <2>4, GidsFinite
  <2> HIDE DEF A
  <2>8. Cardinality(With({"active"})') <= Limit
    BY <2>2, <2>5, <2>6, <2>7, LimitNat
  <2> QED
    BY <2>8 DEF ActiveWithinLimit, Limit
<1> QED
  BY <1>4, <1>5

LEMMA AfterUnlockWithinLimit ==
    ASSUME TypeOK, ActiveWithinLimit, NEW t \in Threads, AfterUnlock(t)
    PROVE  ActiveWithinLimit'
<1>1. CASE CancelToken(t) \/ SendLifecycle(t) \/ SpawnDownload(t)
  <2>1. UNCHANGED states
    BY <1>1 DEF CancelToken, SendLifecycle, SpawnDownload
  <2> QED
    BY <2>1, NoneActivated
<1>2. CASE DequeueWaiting(t)
  <2>1. states' = Started
    BY <1>2 DEF DequeueWaiting
  <2>2. With({"active"})' = With({"active"}) \cup Chosen
    <3>1. \A g \in Gids : states'[g].status = "active" <=> g \in Chosen \/ states[g].status = "active"
      BY <2>1 DEF Started, TypeOK, Download
    <3>2. Chosen \subseteq Gids
      BY DEF Chosen, With
    <3> QED
      BY <3>1, <3>2 DEF With
  <2> QED
    BY <2>2, ChosenFits DEF ActiveWithinLimit, Limit
<1> QED
  BY <1>1, <1>2 DEF AfterUnlock

\* No interleaving of calls, dequeues and finishing runs makes more downloads
\* active than max_concurrent_downloads (MAX_ACTIVE_DOWNLOADS without a queue).
THEOREM LimitKept == Spec => []ActiveWithinLimit
<1>1. Init => TypeOK /\ ActiveWithinLimit
  <2>1. Init => With({"active"}) = {}
    BY DEF Init, With, Absent
  <2> QED
    BY <2>1, TypeInit, FS_EmptySet, LimitNat DEF ActiveWithinLimit
<1>2. TypeOK /\ ActiveWithinLimit /\ [Next]_vars => (TypeOK /\ ActiveWithinLimit)'
  <2> SUFFICES ASSUME TypeOK, ActiveWithinLimit, [Next]_vars
               PROVE  ActiveWithinLimit'
    BY TypeNext
  <2>1. ASSUME NEW c \in Clients, Call(c) \/ PlaceAdded(c)
        PROVE  ActiveWithinLimit'
    BY <2>1, CallsActivateNone, NoneActivated
  <2>2. ASSUME NEW c \in Clients, InsertState(c)
        PROVE  ActiveWithinLimit'
    BY <2>2, InsertWithinLimit
  <2>3. ASSUME NEW t \in Threads, AfterUnlock(t)
        PROVE  ActiveWithinLimit'
    BY <2>3, AfterUnlockWithinLimit
  <2>4. ASSUME NEW r \in RunIds, BeginSession(r) \/ ReportFinished(r) \/ Finish(r)
        PROVE  ActiveWithinLimit'
    BY <2>4, RunsActivateNone, NoneActivated
  <2>5. CASE UNCHANGED vars
    BY <2>5, NoneActivated DEF vars
  <2> QED
    BY <2>1, <2>2, <2>3, <2>4, <2>5 DEF Next
<1> QED
  BY <1>1, <1>2, PTL DEF Spec

-----------------------------------------------------------------------------
(* Cancellation tokens.                                                    *)

Past == Terminal \cup {"absent"}

\* A step that brings no download back, takes no token back, inserts nothing
\* and condemns only tokens that their download has given up.
LEMMA TokenStep ==
    ASSUME TypeOK, TypeOK', TokenInv,
           nextGid' = nextGid,
           \A t \in Threads : todo'[t].insert \subseteq todo[t].insert,
           \A g \in Gids : \/ states'[g].status \in Past
                           \/ states[g].status \notin Past /\ states'[g].token >= states[g].token,
           \A g \in Gids : states[g].status = "absent" => states'[g].status = "absent",
           \A k \in Condemned' : \/ k \in Condemned
                                 \/ /\ k[1] \in Gids /\ states[k[1]].status # "absent"
                                    /\ states'[k[1]].status \in Past \/ k[2] < states'[k[1]].token
    PROVE  TokenInv'
<1>1. Condemned \subseteq Tokens /\ Condemned' \subseteq Tokens
  BY DEF Condemned, TypeOK, Pending
<1>2. \A k \in Tokens : k[1] \in Gids /\ k[2] \in Nat
  BY DEF Tokens
<1>3. \A g \in Gids : states[g].token \in Nat /\ states'[g].token \in Nat
  BY DEF TypeOK, Download
<1>4. CondemnedIsPast'
  <2>1. ASSUME NEW k \in Condemned'
        PROVE  states'[k[1]].status \in Past \/ k[2] < states'[k[1]].token
    <3>1. CASE k \in Condemned
      <4>1. k[1] \in Gids /\ k[2] \in Nat
        BY <1>1, <1>2
      <4>2. states[k[1]].status \in Past \/ k[2] < states[k[1]].token
        BY <3>1 DEF TokenInv, CondemnedIsPast, Past
      <4> QED
        BY <4>1, <4>2, <1>3
    <3> QED
      BY <3>1
  <2> QED
    BY <2>1 DEF CondemnedIsPast, Past
<1>5. \A k \in Condemned' : \/ k \in Condemned
                            \/ k[1] \in Gids /\ states[k[1]].status # "absent"
  OBVIOUS
<1>6. InsertedIsFresh'
  <2> SUFFICES ASSUME NEW t \in Threads, NEW req \in todo'[t].insert
               PROVE  /\ req.gid < nextGid
                      /\ states'[req.gid].status = "absent"
                      /\ \A k \in Condemned' : k[1] # req.gid
                      /\ \A u \in Threads : \A q \in todo'[u].insert :
                           q.gid = req.gid => u = t /\ q = req
    BY DEF InsertedIsFresh
  <2>1. req \in todo[t].insert /\ req.gid \in Gids
    BY DEF TypeOK, Pending, AddRequest
  <2> QED
    BY <2>1, <1>5 DEF TokenInv, InsertedIsFresh
<1>7. GidsAreFresh'
  BY <1>5 DEF TokenInv, GidsAreFresh
<1> QED
  BY <1>4, <1>6, <1>7 DEF TokenInv

\* The tokens condemned after a step that changes no more than a thread's
\* cancellations and the cancelled tokens.
LEMMA CondemnedAfter ==
    ASSUME NEW t \in Threads, NEW C,
           TypeOK,
           \A u \in Threads : u # t => todo'[u].cancel = todo[u].cancel,
           todo'[t].cancel \subseteq todo[t].cancel \cup C,
           cancelled' \subseteq cancelled \cup todo[t].cancel \cup C
    PROVE  Condemned' \subseteq Condemned \cup C
<1> SUFFICES ASSUME NEW k \in Condemned' PROVE k \in Condemned \cup C
  OBVIOUS
<1>1. CASE k \in cancelled'
  BY <1>1 DEF Condemned
<1>2. CASE \E u \in Threads : k \in todo'[u].cancel
  BY <1>2 DEF Condemned
<1> QED
  BY <1>1, <1>2 DEF Condemned

LEMMA TokenAdd ==
    ASSUME TypeOK, TypeOK', TokenInv, NEW c \in Clients, AddDownload(c)
    PROVE  TokenInv'
<1>1. PICK at : todo' = [todo EXCEPT ![c].insert = {[gid |-> nextGid, pos |-> nextPos, at |-> at]}]
  BY DEF AddDownload
<1> DEFINE new == [gid |-> nextGid, pos |-> nextPos, at |-> at]
<1>2. /\ c \in Threads /\ todo[c] = Idle /\ todo[c] \in Pending
      /\ nextGid \in Gids /\ nextGid' = nextGid + 1 /\ nextGid \in Nat
      /\ UNCHANGED <<states, cancelled>>
  BY BoundsAssumption DEF AddDownload, Calling, Threads, TypeOK, Gids
<1>3. /\ todo'[c].insert = {new}
      /\ todo'[c].cancel = todo[c].cancel
      /\ \A u \in Threads : u # c => todo'[u] = todo[u]
  BY <1>1, <1>2 DEF TypeOK, Pending
<1>4. Condemned' = Condemned
  BY <1>2, <1>3 DEF Condemned
<1>5. \A u \in Threads : \A q \in todo'[u].insert :
        \/ u = c /\ q = new
        \/ u # c /\ q \in todo[u].insert /\ q.gid < nextGid
  BY <1>3 DEF TokenInv, InsertedIsFresh
<1>6. new.gid = nextGid
  OBVIOUS
<1>7. /\ states[nextGid].status = "absent"
      /\ \A k \in Condemned : k[1] # nextGid
  BY <1>2 DEF TokenInv, GidsAreFresh
<1>8. CondemnedIsPast'
  BY <1>2, <1>4 DEF TokenInv, CondemnedIsPast
<1>9. GidsAreFresh'
  BY <1>2, <1>4 DEF TokenInv, GidsAreFresh, Gids
<1> HIDE DEF new
<1>10. InsertedIsFresh'
  <2> SUFFICES ASSUME NEW t \in Threads, NEW req \in todo'[t].insert
               PROVE  /\ req.gid < nextGid'
                      /\ states'[req.gid].status = "absent"
                      /\ \A k \in Condemned' : k[1] # req.gid
                      /\ \A u \in Threads : \A q \in todo'[u].insert :
                           q.gid = req.gid => u = t /\ q = req
    BY DEF InsertedIsFresh
  <2>1. CASE t = c
    <3>1. req = new
      BY <1>3, <2>1
    <3> QED
      BY <1>2, <1>4, <1>5, <1>6, <1>7, <2>1, <3>1
  <2>2. CASE t # c
    <3>1. req \in todo[t].insert /\ req.gid < nextGid /\ req.gid \in Nat
      BY <1>5, <2>2 DEF TypeOK, Pending, AddRequest, Gids
    <3>2. /\ states[req.gid].status = "absent"
          /\ \A k \in Condemned : k[1] # req.gid
          /\ \A u \in Threads : \A q \in todo[u].insert : q.gid = req.gid => u = t /\ q = req
      BY <3>1 DEF TokenInv, InsertedIsFresh
    <3>3. \A u \in Threads : \A q \in todo'[u].insert : q.gid = req.gid => u = t /\ q = req
      BY <1>5, <1>6, <3>1, <3>2
    <3> QED
      BY <1>2, <1>4, <3>1, <3>2, <3>3
  <2> QED
    BY <2>1, <2>2
<1> QED
  BY <1>8, <1>9, <1>10 DEF TokenInv

LEMMA TokenInsert ==
    ASSUME TypeOK, TypeOK', TokenInv, NEW c \in Clients, InsertState(c)
    PROVE  TokenInv'
<1>1. PICK req \in todo[c].insert, gone \in Prunable(states, MaxRetained - 1) :
        InsertState(c)!(req, gone)
  BY DEF InsertState
<1>2. c \in Threads /\ todo[c] \in Pending
  BY DEF Threads, TypeOK
<1>3. /\ UNCHANGED <<nextGid, cancelled>>
      /\ todo'[c].insert = {} /\ todo'[c].cancel = {}
      /\ \A u \in Threads : u # c => todo'[u] = todo[u]
  <2>1. todo' = [todo EXCEPT ![c] = Idle] \/ todo' = [todo EXCEPT ![c] = AfterInsert(req)]
    BY <1>1
  <2>2. /\ Idle.insert = {} /\ Idle.cancel = {}
        /\ AfterInsert(req).insert = {} /\ AfterInsert(req).cancel = {}
    BY DEF Idle, AfterInsert
  <2> QED
    BY <1>1, <1>2, <2>1, <2>2 DEF TypeOK
<1>4. \A g \in Gids : g # req.gid => \/ states'[g] = states[g]
                                     \/ states'[g].status = "absent"
  <2>1. \/ states' = Forget(states, gone)
        \/ states' = [Forget(states, gone) EXCEPT ![req.gid] = NewDownload(req)]
    BY <1>1
  <2>2. \A g \in Gids : \/ Forget(states, gone)[g] = states[g]
                        \/ Forget(states, gone)[g].status = "absent"
    BY DEF Forget, Absent
  <2>3. Forget(states, gone) = [g \in Gids |-> Forget(states, gone)[g]]
    BY DEF Forget
  <2> QED
    BY <2>1, <2>2, <2>3
<1>5. Condemned' \subseteq Condemned
  BY <1>3 DEF Condemned
<1>6. /\ req.gid \in Gids /\ req.gid < nextGid
      /\ \A k \in Condemned : k[1] # req.gid
      /\ \A u \in Threads : \A q \in todo[u].insert : q.gid = req.gid => u = c
  BY <1>2 DEF TokenInv, InsertedIsFresh, Pending, AddRequest
<1>7. Condemned' \subseteq Tokens /\ \A k \in Tokens : k[1] \in Gids
  BY DEF Condemned, TypeOK, Pending, Tokens
<1>8. CondemnedIsPast'
  BY <1>4, <1>5, <1>6, <1>7 DEF TokenInv, CondemnedIsPast
<1>9. GidsAreFresh'
  <2>1. ASSUME NEW g \in Gids, g >= nextGid
        PROVE  g # req.gid /\ states[g].status = "absent" /\ \A k \in Condemned : k[1] # g
    BY <1>6, <2>1 DEF TokenInv, GidsAreFresh, TypeOK, Gids
  <2> QED
    BY <1>3, <1>4, <1>5, <2>1 DEF GidsAreFresh
<1>10. InsertedIsFresh'
  <2> SUFFICES ASSUME NEW t \in Threads, NEW r \in todo'[t].insert
               PROVE  /\ r.gid < nextGid
                      /\ states'[r.gid].status = "absent"
                      /\ \A k \in Condemned' : k[1] # r.gid
                      /\ \A u \in Threads : \A q \in todo'[u].insert :
                           q.gid = r.gid => u = t /\ q = r
    BY <1>3 DEF InsertedIsFresh
  <2>1. t # c /\ r \in todo[t].insert /\ r.gid \in Gids
    BY <1>3 DEF TypeOK, Pending, AddRequest
  <2>2. r.gid # req.gid
    BY <1>6, <2>1
  <2>3. /\ r.gid < nextGid /\ states[r.gid].status = "absent"
        /\ \A k \in Condemned : k[1] # r.gid
        /\ \A u \in Threads : \A q \in todo[u].insert : q.gid = r.gid => u = t /\ q = r
    BY <2>1 DEF TokenInv, InsertedIsFresh
  <2>4. \A u \in Threads : todo'[u].insert \subseteq todo[u].insert
    BY <1>3
  <2> QED
    BY <1>4, <1>5, <2>1, <2>2, <2>3, <2>4
<1> QED
  BY <1>8, <1>9, <1>10 DEF TokenInv

\* The calls that neither cancel nor replace a token.
LEMMA TokenQueueCalls ==
    ASSUME TypeOK, TypeOK', TokenInv, NEW c \in Clients,
           \/ UnpauseAll(c) \/ PurgeDownloadResults(c) \/ PlaceAdded(c)
           \/ \E g \in Gids : \/ ChangePosition(c, g) \/ Unpause(c, g) \/ ChangeUri(c, g)
                              \/ ChangeOptionRejected(c, g) \/ RemoveDownloadResult(c, g)
    PROVE  TokenInv'
<1>0. c \in Threads /\ todo[c] \in Pending
  BY DEF Threads, TypeOK
<1>1. \A g \in Gids : \/ states'[g].status = "absent" /\ states[g].status \in Past
                      \/ /\ states'[g].token = states[g].token
                         /\ \/ states'[g].status = states[g].status
                            \/ states[g].status = "paused" /\ states'[g].status = "waiting"
  <2>0. \A g \in Gids : states[g] \in Download
    BY DEF TypeOK
  <2>1. CASE UnpauseAll(c)
    BY <2>0, <2>1 DEF UnpauseAll, Download
  <2>2. CASE PurgeDownloadResults(c)
    BY <2>2 DEF PurgeDownloadResults, Forget, Absent, With, Past
  <2>3. CASE PlaceAdded(c)
    <3>1. PICK place \in todo[c].place : PlaceAdded(c)!2!(place)
      BY <2>3 DEF PlaceAdded
    <3>2. place[1] \in Gids /\ Clamped(place[1], place[2]) \in Nat
      BY <1>0, ClampedNat DEF Pending
    <3> QED
      BY <3>1, <3>2, MovedType
  <2>4. ASSUME NEW h \in Gids, ChangePosition(c, h)
        PROVE  \A g \in Gids : /\ states'[g].status = states[g].status
                               /\ states'[g].token = states[g].token
    <3>1. PICK p \in Int : states' = Moved(h, Clamped(h, p))
      <4>1. /\ Ahead(states, With(Queued), h) \in Nat
            /\ Cardinality(With(Queued) \ {h}) \in Nat
        BY AheadNat, GidsFinite DEF With
      <4> QED
        BY <2>4, <4>1, ConfigAssumption DEF ChangePosition
    <3> QED
      BY <3>1, ClampedNat, MovedType
  <2>5. CASE \E h \in Gids : Unpause(c, h)
    BY <2>0, <2>5 DEF Unpause, Download, TypeOK
  <2>6. CASE \E h \in Gids : ChangeUri(c, h) \/ ChangeOptionRejected(c, h)
    <3>1. CASE \E h \in Gids : ChangeUri(c, h)
      BY <2>0, <3>1 DEF ChangeUri, Download, TypeOK
    <3> QED BY <2>0, <2>6, <3>1, RejectedFields
  <2>7. CASE \E h \in Gids : RemoveDownloadResult(c, h)
    BY <2>7 DEF RemoveDownloadResult, Forget, Absent, Past
  <2> QED
    BY <2>1, <2>2, <2>3, <2>4, <2>5, <2>6, <2>7
<1>2. \A g \in Gids : \/ states'[g].status \in Past
                      \/ states[g].status \notin Past /\ states'[g].token >= states[g].token
  <2>1. \A g \in Gids : states[g].token \in Nat
    BY DEF TypeOK, Download
  <2>2. \A g \in Gids : \/ states'[g].status \in Past
                        \/ states[g].status \notin Past /\ states'[g].token = states[g].token
    BY <1>1 DEF Past, Terminal
  <2> QED
    BY <2>1, <2>2
<1>3. \A g \in Gids : states[g].status = "absent" => states'[g].status = "absent"
  BY <1>1
<1>4. /\ nextGid' = nextGid /\ cancelled' = cancelled
      /\ \A t \in Threads : /\ todo'[t].insert \subseteq todo[t].insert
                            /\ todo'[t].cancel \subseteq todo[t].cancel
  <2>1. /\ nextGid' = nextGid /\ cancelled' = cancelled
        /\ \/ UNCHANGED todo
           \/ todo' = [todo EXCEPT ![c] = Idle]
           \/ todo' = [todo EXCEPT ![c].place = {}]
           \/ todo' = [todo EXCEPT ![c].dequeue = TRUE]
    BY DEF UnpauseAll, PurgeDownloadResults, PlaceAdded, ChangePosition, Unpause, ChangeUri,
           ChangeOptionRejected, RemoveDownloadResult
  <2> QED
    BY <1>0, <2>1 DEF Idle, TypeOK, Pending
<1>5. Condemned' \subseteq Condemned
  BY <1>4 DEF Condemned
<1> QED
  BY <1>2, <1>3, <1>4, <1>5, TokenStep

LEMMA TokenRemove ==
    ASSUME TypeOK, TypeOK', TokenInv, NEW c \in Clients, NEW g \in Gids, Remove(c, g)
    PROVE  TokenInv'
<1>0. c \in Threads /\ todo[c] \in Pending /\ \A h \in Gids : states[h] \in Download
  BY DEF Threads, TypeOK
<1>1. \A h \in Gids : /\ h # g => states'[h] = states[h]
                      /\ states'[h].token = states[h].token
  BY <1>0 DEF Remove, TypeOK, Download
<1>2. states'[g].status \in Past /\ states[g].status # "absent"
  BY <1>0 DEF Remove, Past, Terminal, Queued, TypeOK, Download
<1>3. /\ nextGid' = nextGid
      /\ \A t \in Threads : /\ todo'[t].insert = todo[t].insert
                            /\ todo'[t].cancel = todo[t].cancel
  BY <1>0 DEF Remove, TypeOK, Pending
<1>4. Condemned' \subseteq Condemned \cup {<<g, states[g].token>>}
  BY <1>3 DEF Remove, Condemned
<1>5. \A h \in Gids : states[h].token \in Nat
  BY <1>0 DEF Download
<1> QED
  BY <1>1, <1>2, <1>3, <1>4, <1>5, TokenStep

\* A call that replaces the token of some active downloads and condemns the
\* token it replaced.
LEMMA TokenReplaced ==
    ASSUME TypeOK, TypeOK', TokenInv, NEW c \in Clients,
           nextGid' = nextGid, cancelled' = cancelled,
           \A t \in Threads : todo'[t].insert = todo[t].insert,
           \A t \in Threads : t # c => todo'[t].cancel = todo[t].cancel,
           \A k \in todo'[c].cancel : \E g \in Gids : /\ k = <<g, states[g].token>>
                                                    /\ states[g].status = "active"
                                                    /\ states'[g].token = states[g].token + 1,
           \A g \in Gids : states'[g].token >= states[g].token,
           \A g \in Gids : \/ states'[g].status = states[g].status
                           \/ states[g].status \in {"waiting", "active"} /\ states'[g].status \notin Past
    PROVE  TokenInv'
<1>1. c \in Threads
  BY DEF Threads
<1>2. \A g \in Gids : states[g].token \in Nat /\ states'[g].token \in Nat
  BY DEF TypeOK, Download
<1>3. \A k \in Condemned' : \/ k \in Condemned
                            \/ /\ k[1] \in Gids /\ states[k[1]].status # "absent"
                               /\ k[2] < states'[k[1]].token
  <2>1. ASSUME NEW k \in todo'[c].cancel
        PROVE  /\ k[1] \in Gids /\ states[k[1]].status # "absent"
               /\ k[2] < states'[k[1]].token
    <3>1. PICK g \in Gids : /\ k = <<g, states[g].token>>
                            /\ states[g].status = "active"
                            /\ states'[g].token = states[g].token + 1
      OBVIOUS
    <3> QED
      BY <1>2, <3>1
  <2> QED
    BY <2>1 DEF Condemned
<1>4. \A g \in Gids : \/ states'[g].status \in Past
                      \/ states[g].status \notin Past /\ states'[g].token >= states[g].token
  BY DEF Past, Terminal
<1>5. \A g \in Gids : states[g].status = "absent" => states'[g].status = "absent"
  OBVIOUS
<1> QED
  BY <1>3, <1>4, <1>5, TokenStep

LEMMA TokenPauses ==
    ASSUME TypeOK, TypeOK', TokenInv, NEW c \in Clients,
           PauseAll(c) \/ \E g \in Gids : Pause(c, g) \/ ChangeOption(c, g)
    PROVE  TokenInv'
<1>0. c \in Threads /\ todo[c] \in Pending /\ \A h \in Gids : states[h] \in Download
  BY DEF Threads, TypeOK
<1>1. \A h \in Gids : states[h].token \in Nat
  BY <1>0 DEF Download
<1>2. ASSUME NEW paused \in SUBSET Gids,
             \A h \in paused : states[h].status \in {"waiting", "active"},
             \A h \in paused : /\ states'[h].token = Pausing(states[h]).token
                               /\ states'[h].status = "paused",
             \A h \in Gids \ paused : /\ states'[h].token = states[h].token
                                      /\ states'[h].status = states[h].status,
             \E N : todo' = [todo EXCEPT ![c].cancel = OldTokens(paused), ![c].notify = N],
             nextGid' = nextGid, cancelled' = cancelled
      PROVE  TokenInv'
  <2>1. /\ \A t \in Threads : todo'[t].insert = todo[t].insert
        /\ \A t \in Threads : t # c => todo'[t].cancel = todo[t].cancel
        /\ todo'[c].cancel = OldTokens(paused)
    BY <1>0, <1>2 DEF TypeOK, Pending
  <2>2. \A h \in paused : states'[h].token = IF states[h].status = "active"
                                            THEN states[h].token + 1 ELSE states[h].token
    BY <1>0, <1>2, PausingFields
  <2>3. \A k \in todo'[c].cancel : \E g \in Gids : /\ k = <<g, states[g].token>>
                                                 /\ states[g].status = "active"
                                                 /\ states'[g].token = states[g].token + 1
    BY <1>2, <2>1, <2>2 DEF OldTokens, With
  <2>4. \A h \in Gids : states'[h].token >= states[h].token
    BY <1>1, <1>2, <2>2
  <2>5. \A h \in Gids : \/ states'[h].status = states[h].status
                        \/ states[h].status \in {"waiting", "active"} /\ states'[h].status \notin Past
    <3>1. \A h \in paused : states[h].status \in {"waiting", "active"} /\ states'[h].status = "paused"
      BY <1>2
    <3>2. \A h \in Gids \ paused : states'[h].status = states[h].status
      BY <1>2
    <3> QED
      BY <3>1, <3>2 DEF Past, Terminal
  <2> QED
    BY <1>2, <2>1, <2>3, <2>4, <2>5, TokenReplaced
<1>3. CASE PauseAll(c)
  <2> DEFINE paused == With({"waiting", "active"})
  <2>1. paused \in SUBSET Gids /\ \A h \in paused : states[h].status \in {"waiting", "active"}
    BY DEF With
  <2>2. /\ \A h \in paused : states'[h] = Pausing(states[h])
        /\ \A h \in Gids \ paused : states'[h] = states[h]
        /\ \E N : todo' = [todo EXCEPT ![c].cancel = OldTokens(paused), ![c].notify = N]
        /\ nextGid' = nextGid /\ cancelled' = cancelled
    BY <1>3, <2>1 DEF PauseAll
  <2>3. \A h \in paused : states'[h].status = "paused"
    BY <1>0, <2>1, <2>2, PausingFields
  <2> HIDE DEF paused
  <2> QED
    BY <1>2, <2>1, <2>2, <2>3
<1>4. ASSUME NEW g \in Gids, Pause(c, g)
      PROVE  TokenInv'
  <2>1. /\ \E N : todo' = [todo EXCEPT ![c].cancel = OldTokens({g}), ![c].notify = N]
        /\ nextGid' = nextGid /\ cancelled' = cancelled
        /\ states[g].status \in {"waiting", "active"}
    BY <1>4 DEF Pause
  <2>2. /\ states'[g].token = Pausing(states[g]).token
        /\ states'[g].status = "paused"
    <3> DEFINE p == Pausing(states[g])
    <3>1. states'[g] = [p EXCEPT !.pos = 0]
      BY <1>4 DEF Pause
    <3>2. p \in Download /\ p.status = "paused"
      BY <1>0, CallUpdates, PausingFields
    <3> HIDE DEF p
    <3>3. states'[g].token = p.token /\ states'[g].status = "paused"
      BY <3>1, <3>2 DEF Download
    <3> QED
      BY <3>3 DEF p
  <2>3. \A h \in Gids \ {g} : /\ states'[h].token = states[h].token
                              /\ states'[h].status = states[h].status
    BY <1>0, <1>4 DEF Pause, Download
  <2> DEFINE paused == {g}
  <2>4. /\ paused \in SUBSET Gids
        /\ \A h \in paused : states[h].status \in {"waiting", "active"}
        /\ \A h \in paused : /\ states'[h].token = Pausing(states[h]).token
                             /\ states'[h].status = "paused"
        /\ \A h \in Gids \ paused : /\ states'[h].token = states[h].token
                                    /\ states'[h].status = states[h].status
        /\ \E N : todo' = [todo EXCEPT ![c].cancel = OldTokens(paused), ![c].notify = N]
    BY <2>1, <2>2, <2>3
  <2> HIDE DEF paused
  <2> QED
    BY <1>2, <2>1, <2>4
<1>5. ASSUME NEW g \in Gids, ChangeOption(c, g)
      PROVE  TokenInv'
  <2>1. CASE states' = [states EXCEPT ![g].job = @ + 1] /\ UNCHANGED todo
    <3>1. \A h \in Gids : states'[h].token = states[h].token /\ states'[h].status = states[h].status
      BY <1>0, <2>1 DEF TypeOK, Download
    <3>2. nextGid' = nextGid /\ Condemned' = Condemned
      <4>1. nextGid' = nextGid /\ cancelled' = cancelled
        BY <1>5 DEF ChangeOption
      <4> QED
        BY <2>1, <4>1 DEF Condemned
    <3>3. \A h \in Gids : \/ states'[h].status \in Past
                          \/ states[h].status \notin Past /\ states'[h].token >= states[h].token
      BY <1>1, <3>1 DEF Past
    <3> QED
      BY <2>1, <3>1, <3>2, <3>3, TokenStep
  <2>2. CASE states[g].status = "active" /\ ChangeOption(c, g)!3!2
    <3> DEFINE new == [states[g] EXCEPT !.job = @ + 1, !.token = @ + 1, !.gen = @ + 1, !.partial = FALSE]
    <3>1. /\ states' = [states EXCEPT ![g] = new]
          /\ todo' = [todo EXCEPT ![c].cancel = {<<g, states[g].token>>}, ![c].spawn = {StartOf(g, new)}]
          /\ nextGid' = nextGid /\ cancelled' = cancelled
      BY <1>5, <2>2 DEF ChangeOption
    <3>2. new.token = states[g].token + 1 /\ new.status = "active"
      BY <1>0, <2>2 DEF Download
    <3> HIDE DEF new
    <3>3. \A h \in Gids : h # g => states'[h] = states[h]
      BY <3>1 DEF TypeOK
    <3>4. states'[g].token = states[g].token + 1 /\ states'[g].status = states[g].status
      BY <2>2, <3>1, <3>2 DEF TypeOK
    <3>5. /\ \A t \in Threads : todo'[t].insert = todo[t].insert
          /\ \A t \in Threads : t # c => todo'[t].cancel = todo[t].cancel
          /\ todo'[c].cancel = {<<g, states[g].token>>}
      BY <1>0, <3>1 DEF TypeOK, Pending
    <3>6. \A k \in todo'[c].cancel : \E h \in Gids : /\ k = <<h, states[h].token>>
                                                   /\ states[h].status = "active"
                                                   /\ states'[h].token = states[h].token + 1
      BY <2>2, <3>4, <3>5
    <3>7. \A h \in Gids : /\ states'[h].token >= states[h].token
                          /\ states'[h].status = states[h].status
      BY <1>1, <3>3, <3>4
    <3>8. \A h \in Gids : \/ states'[h].status = states[h].status
                          \/ states[h].status \in {"waiting", "active"} /\ states'[h].status \notin Past
      BY <3>7
    <3>9. nextGid' = nextGid /\ cancelled' = cancelled
      BY <3>1
    <3> QED
      BY <3>5, <3>6, <3>7, <3>8, <3>9, TokenReplaced
  <2> QED
    BY <1>5, <2>1, <2>2 DEF ChangeOption
<1> QED
  BY <1>3, <1>4, <1>5

LEMMA TokenAfterUnlock ==
    ASSUME TypeOK, TypeOK', TokenInv, NEW t \in Threads, AfterUnlock(t)
    PROVE  TokenInv'
<1>0. todo[t] \in Pending /\ \A h \in Gids : states[h] \in Download
  BY DEF TypeOK
<1>1. /\ nextGid' = nextGid
      /\ cancelled' \subseteq cancelled \cup todo[t].cancel
      /\ \A u \in Threads : todo'[u].insert = todo[u].insert
      /\ \A u \in Threads : todo'[u].cancel \subseteq todo[u].cancel
  <2>1. CASE CancelToken(t)
    BY <1>0, <2>1 DEF CancelToken, TypeOK, Pending
  <2>2. CASE SendLifecycle(t)
    BY <1>0, <2>2 DEF SendLifecycle, TypeOK, Pending
  <2>3. CASE DequeueWaiting(t)
    BY <1>0, <2>3 DEF DequeueWaiting, TypeOK, Pending
  <2>4. CASE SpawnDownload(t)
    BY <1>0, <2>4 DEF SpawnDownload, TypeOK, Pending
  <2> QED
    BY <2>1, <2>2, <2>3, <2>4 DEF AfterUnlock
<1>2. Condemned' \subseteq Condemned
  BY <1>1 DEF Condemned
<1>3. \A g \in Gids : /\ states'[g].token = states[g].token
                      /\ \/ states'[g].status = states[g].status
                         \/ states[g].status = "waiting" /\ states'[g].status = "active"
  <2>1. CASE DequeueWaiting(t)
    BY <1>0, <2>1 DEF DequeueWaiting, Started, Chosen, With, Download
  <2>2. CASE UNCHANGED states
    BY <2>2
  <2> QED
    BY <2>1, <2>2 DEF AfterUnlock, CancelToken, SendLifecycle, SpawnDownload
<1>4. \A g \in Gids : \/ states'[g].status \in Past
                      \/ states[g].status \notin Past /\ states'[g].token >= states[g].token
  BY <1>0, <1>3 DEF Past, Terminal, Download
<1> QED
  BY <1>1, <1>2, <1>3, <1>4, TokenStep

LEMMA TokenRuns ==
    ASSUME TypeOK, TypeOK', TokenInv, NEW r \in RunIds,
           BeginSession(r) \/ ReportFinished(r) \/ Finish(r)
    PROVE  TokenInv'
<1>0. /\ r \in Threads /\ todo[r] \in Pending /\ r[1] \in Gids
      /\ \A h \in Gids : states[h] \in Download
  BY DEF Threads, TypeOK, RunIds
<1>1. /\ nextGid' = nextGid /\ cancelled' = cancelled
      /\ \A u \in Threads : todo'[u].insert \subseteq todo[u].insert
      /\ \A u \in Threads : todo'[u].cancel \subseteq todo[u].cancel
  <2>1. ASSUME NEW status, NEW notes, FinishDownload(r, status, notes)
        PROVE  /\ nextGid' = nextGid /\ cancelled' = cancelled
               /\ \/ UNCHANGED todo
                  \/ \E N : todo' = [todo EXCEPT ![r] = [Idle EXCEPT !.notify = N, !.dequeue = TRUE]]
    BY <2>1 DEF FinishDownload
  <2>2. \A N : /\ [Idle EXCEPT !.notify = N, !.dequeue = TRUE].insert = {}
               /\ [Idle EXCEPT !.notify = N, !.dequeue = TRUE].cancel = {}
    BY DEF Idle
  <2>3. CASE Finish(r)
    <3>1. /\ nextGid' = nextGid /\ cancelled' = cancelled
          /\ \/ UNCHANGED todo
             \/ \E N : todo' = [todo EXCEPT ![r] = [Idle EXCEPT !.notify = N, !.dequeue = TRUE]]
      BY <2>1, <2>3 DEF Finish, FinishOk, FinishCancelled, FinishError
    <3> QED
      BY <1>0, <2>2, <3>1 DEF TypeOK
  <2>4. CASE BeginSession(r) \/ ReportFinished(r)
    BY <2>4 DEF BeginSession, ReportFinished
  <2> QED
    BY <2>3, <2>4
<1>2. Condemned' \subseteq Condemned
  BY <1>1 DEF Condemned
<1>3. ASSUME NEW status \in {"complete", "removed", "paused", "error"}, NEW notes,
             status = "paused" => states[r[1]].status = "paused",
             FinishDownload(r, status, notes), NEW g \in Gids
      PROVE  /\ \/ states'[g].status \in Past
                \/ states[g].status \notin Past /\ states'[g].token = states[g].token
             /\ states[g].status = "absent" => states'[g].status = "absent"
  <2>1. CASE UNCHANGED states
    BY <2>1 DEF Past
  <2>2. CASE /\ states[r[1]].status # "absent"
             /\ \E gone : states' = Forget([states EXCEPT ![r[1]].status = status], gone)
    <3> DEFINE ended == [states EXCEPT ![r[1]].status = status]
    <3>1. \/ states'[g] = ended[g]
          \/ states'[g].status = "absent"
      BY <2>2 DEF Forget, Absent
    <3>2. /\ ended[g].token = states[g].token
          /\ g # r[1] => ended[g] = states[g]
          /\ g = r[1] => ended[g].status = status
      BY <1>0 DEF TypeOK, Download
    <3> HIDE DEF ended
    <3> QED
      BY <1>3, <2>2, <3>1, <3>2 DEF Past, Terminal
  <2> QED
    BY <1>3, <2>1, <2>2 DEF FinishDownload
<1>4. \A g \in Gids : /\ \/ states'[g].status \in Past
                         \/ states[g].status \notin Past /\ states'[g].token = states[g].token
                      /\ states[g].status = "absent" => states'[g].status = "absent"
  <2>1. CASE Finish(r)
    BY <1>3, <2>1 DEF Finish, FinishOk, FinishCancelled, FinishError
  <2>2. CASE BeginSession(r)
    BY <2>2 DEF BeginSession, Past
  <2>3. CASE ReportFinished(r)
    BY <1>0, <2>3 DEF ReportFinished, Past, Terminal, TypeOK, Download
  <2> QED
    BY <2>1, <2>2, <2>3
<1>5. \A g \in Gids : \/ states'[g].status \in Past
                      \/ states[g].status \notin Past /\ states'[g].token >= states[g].token
  <2>1. \A g \in Gids : states[g].token \in Nat
    BY <1>0 DEF Download
  <2> QED
    BY <1>4, <2>1
<1>6. \A g \in Gids : states[g].status = "absent" => states'[g].status = "absent"
  BY <1>4
<1> QED
  BY <1>1, <1>2, <1>5, <1>6, TokenStep

LEMMA TokenInit == Init => TypeOK /\ TokenInv
<1> SUFFICES ASSUME Init PROVE TypeOK /\ TokenInv
  OBVIOUS
<1>1. /\ Condemned = {} /\ \A t \in Threads : todo[t].insert = {}
      /\ \A g \in Gids : states[g].status = "absent"
  BY DEF Init, Condemned, Idle, Absent
<1> QED
  BY <1>1, TypeInit DEF TokenInv, CondemnedIsPast, InsertedIsFresh, GidsAreFresh

LEMMA TokenNext == TypeOK /\ TokenInv /\ [Next]_vars => (TypeOK /\ TokenInv)'
<1> SUFFICES ASSUME TypeOK, TokenInv, [Next]_vars, TypeOK'
             PROVE  TokenInv'
  BY TypeNext
<1>1. ASSUME NEW c \in Clients, Call(c) \/ PlaceAdded(c)
      PROVE  TokenInv'
  BY <1>1, TokenAdd, TokenQueueCalls, TokenRemove, TokenPauses DEF Call
<1>2. ASSUME NEW c \in Clients, InsertState(c)
      PROVE  TokenInv'
  BY <1>2, TokenInsert
<1>3. ASSUME NEW t \in Threads, AfterUnlock(t)
      PROVE  TokenInv'
  BY <1>3, TokenAfterUnlock
<1>4. ASSUME NEW r \in RunIds, BeginSession(r) \/ ReportFinished(r) \/ Finish(r)
      PROVE  TokenInv'
  BY <1>4, TokenRuns
<1>5. CASE UNCHANGED vars
  BY <1>5 DEF vars, TokenInv, CondemnedIsPast, InsertedIsFresh, GidsAreFresh, Condemned
<1> QED
  BY <1>1, <1>2, <1>3, <1>4, <1>5 DEF Next

\* No interleaving leaves a download that can still run with a cancelled token.
THEOREM TokensLive == Spec => []UnfinishedTokenIsLive
<1>1. TypeOK /\ TokenInv => UnfinishedTokenIsLive
  <2> SUFFICES ASSUME TypeOK, TokenInv, NEW g \in Gids,
                      states[g].status \in Queued \cup {"active"}
               PROVE  <<g, states[g].token>> \notin cancelled
    BY DEF UnfinishedTokenIsLive, With
  <2>1. states[g].status \notin Past /\ states[g].token \in Nat
    BY DEF Past, Terminal, Queued, TypeOK, Download
  <2> QED
    BY <2>1 DEF TokenInv, CondemnedIsPast, Condemned, Past
<1> QED
  BY <1>1, TokenInit, TokenNext, PTL DEF Spec

-----------------------------------------------------------------------------
(* The order of the queue.                                                 *)

\* What a step does to the positions of the downloads that stay queued.
Stays(h) == states[h].status \in Queued /\ states'[h].status \in Queued
PositionsKept == \A h \in Gids : Stays(h) => states'[h].pos = states[h].pos

\* Moving one download gives the others increasing indexes in their old order.
LEMMA MovedOrder ==
    ASSUME TypeOK, NEW g \in Gids, NEW target \in Nat, states' = Moved(g, target),
           NEW h \in With(Queued) \ {g}, NEW k \in With(Queued) \ {g}
    PROVE  Before(states, h, k) <=> Before(states', h, k)
<1> DEFINE others == With(Queued) \ {g}
           index(x) == Ahead(states, others, x)
           place(x) == IF index(x) < target THEN index(x) ELSE index(x) + 1
<1>0. others \in SUBSET Gids /\ h \in others /\ k \in others /\ h \in Int /\ k \in Int
  BY BoundsAssumption DEF With, Gids
<1>1. \A x \in others : /\ Ahead(states, others, x) \in Nat
                        /\ states[x].pos \in Nat
                        /\ states[x] \in Download
  BY <1>0, AheadNat DEF TypeOK, Download
<1>2. \A x \in others : states'[x] = [states[x] EXCEPT !.pos = place(x)]
  BY <1>0 DEF Moved
<1>3. states'[h].pos = place(h) /\ states'[k].pos = place(k)
  BY <1>0, <1>1, <1>2 DEF Download
<1>4. ASSUME NEW x \in others, NEW y \in others, Before(states, x, y)
      PROVE  place(x) < place(y)
  <2>1. Ahead(states, others, x) < Ahead(states, others, y)
    BY <1>0, <1>4, AheadGrows
  <2> QED BY <1>1, <2>1
<1>5. Before(states, h, k) \/ Before(states, k, h) \/ h = k
  BY <1>0, <1>1 DEF Before
<1>6. \A x \in others : place(x) \in Nat
  <2>1. \A i \in Nat : (IF i < target THEN i ELSE i + 1) \in Nat
    OBVIOUS
  <2> QED BY <1>1, <2>1
<1>7. Before(states, h, k) => place(h) < place(k) /\ ~Before(states, k, h)
  <2>1. Before(states, h, k) => ~Before(states, k, h)
    BY <1>0, <1>1 DEF Before
  <2> QED BY <1>0, <1>4, <2>1
<1>8. Before(states, k, h) => place(k) < place(h)
  BY <1>0, <1>4
<1> HIDE DEF place, others
<1> QED BY <1>0, <1>3, <1>5, <1>6, <1>7, <1>8 DEF Before

LEMMA PlacedKeepOrder ==
    ASSUME TypeOK, NEW c \in Clients, PlaceAdded(c) \/ \E g \in Gids : ChangePosition(c, g)
    PROVE  \/ UNCHANGED states
           \/ \E g \in Gids : \E target \in Nat : states' = Moved(g, target)
<1>1. CASE PlaceAdded(c)
  <2>1. PICK place \in todo[c].place :
          states' = states \/ states' = Moved(place[1], Clamped(place[1], place[2]))
    BY <1>1 DEF PlaceAdded
  <2>2. place[1] \in Gids /\ place[2] \in Int
    BY DEF TypeOK, Threads, Pending
  <2> QED BY <2>1, <2>2, ClampedNat
<1>2. ASSUME NEW g \in Gids, ChangePosition(c, g)
      PROVE  \E target \in Nat : states' = Moved(g, target)
  <2>1. PICK p \in Int : states' = Moved(g, Clamped(g, p))
    <3>1. /\ Ahead(states, With(Queued), g) \in Nat
          /\ Cardinality(With(Queued) \ {g}) \in Nat
      BY AheadNat, GidsFinite DEF With
    <3> QED BY <1>2, <3>1, ConfigAssumption DEF ChangePosition
  <2> QED BY <2>1, ClampedNat
<1> QED BY <1>1, <1>2

LEMMA PausedKeepOrder ==
    ASSUME TypeOK, NEW c \in Clients, NEW g \in Gids, Pause(c, g),
           NEW h \in With(Queued) \ {g}, NEW k \in With(Queued) \ {g}
    PROVE  Before(states, h, k) <=> Before(states', h, k)
<1>1. /\ states[h] \in Download /\ states[k] \in Download
      /\ states[h].pos \in Nat /\ states[k].pos \in Nat
  BY DEF TypeOK, Download, With
<1>2. states'[h] = [states[h] EXCEPT !.pos = @ + 1] /\ states'[k] = [states[k] EXCEPT !.pos = @ + 1]
  BY DEF Pause, With
<1>3. states'[h].pos = states[h].pos + 1 /\ states'[k].pos = states[k].pos + 1
  BY <1>1, <1>2 DEF Download
<1> QED BY <1>1, <1>3 DEF Before

LEMMA CallsKeepPositions ==
    ASSUME TypeOK, NEW c \in Clients,
           \/ AddDownload(c) \/ PauseAll(c) \/ UnpauseAll(c) \/ PurgeDownloadResults(c)
           \/ \E g \in Gids : \/ Remove(c, g) \/ Unpause(c, g) \/ ChangeUri(c, g) \/ ChangeOption(c, g)
                              \/ ChangeOptionRejected(c, g) \/ RemoveDownloadResult(c, g)
    PROVE  PositionsKept
<1>0. states \in [Gids -> Download] /\ \A h \in Gids : states[h] \in Download
  BY DEF TypeOK
<1>1. CASE AddDownload(c)
  BY <1>1 DEF AddDownload, PositionsKept
<1>2. CASE PauseAll(c)
  <2>1. \A s \in Download : Pausing(s).pos = s.pos
    BY DEF Pausing, Download
  <2> QED BY <1>0, <1>2, <2>1 DEF PauseAll, PositionsKept
<1>3. CASE UnpauseAll(c)
  BY <1>0, <1>3 DEF UnpauseAll, PositionsKept, Download
<1>4. CASE PurgeDownloadResults(c)
  BY <1>4 DEF PurgeDownloadResults, Forget, Absent, Queued, PositionsKept, Stays
<1>5. ASSUME NEW g \in Gids, Remove(c, g) \/ Unpause(c, g) PROVE PositionsKept
  BY <1>0, <1>5 DEF Remove, Unpause, PositionsKept, Download
<1>6. ASSUME NEW g \in Gids, ChangeUri(c, g) \/ ChangeOptionRejected(c, g) PROVE PositionsKept
  <2>1. \A h \in Gids : states'[h].pos = states[h].pos
    <3>1. CASE ChangeUri(c, g)
      BY <1>0, <3>1 DEF ChangeUri, Download
    <3>2. CASE ChangeOptionRejected(c, g)
      BY <3>2, RejectedFields
    <3> QED BY <1>6, <3>1, <3>2
  <2> QED BY <2>1 DEF PositionsKept
<1>7. ASSUME NEW g \in Gids, ChangeOption(c, g) PROVE PositionsKept
  <2>1. \/ states' = [states EXCEPT ![g].job = @ + 1]
        \/ states' = [states EXCEPT ![g] = [states[g] EXCEPT !.job = @ + 1, !.token = @ + 1, !.gen = @ + 1, !.partial = FALSE]]
    BY <1>7 DEF ChangeOption
  <2>2. \A h \in Gids : states'[h].pos = states[h].pos
    <3>1. ASSUME NEW h \in Gids
          PROVE  states'[h] \in {states[h], [states[h] EXCEPT !.job = @ + 1],
                    [states[h] EXCEPT !.job = @ + 1, !.token = @ + 1, !.gen = @ + 1, !.partial = FALSE]}
      BY <1>0, <2>1
    <3> QED BY <1>0, <3>1 DEF Download
  <2> QED BY <2>2 DEF PositionsKept
<1>8. ASSUME NEW g \in Gids, RemoveDownloadResult(c, g) PROVE PositionsKept
  BY <1>8 DEF RemoveDownloadResult, Forget, Absent, Queued, PositionsKept, Stays
<1> QED BY <1>1, <1>2, <1>3, <1>4, <1>5, <1>6, <1>7, <1>8

LEMMA InsertKeepsPositions ==
    ASSUME TypeOK, TokenInv, NEW c \in Clients, InsertState(c)
    PROVE  PositionsKept
<1>1. PICK req \in todo[c].insert, gone \in Prunable(states, MaxRetained - 1) :
        \/ states' = Forget(states, gone)
        \/ states' = [Forget(states, gone) EXCEPT ![req.gid] = NewDownload(req)]
  BY DEF InsertState
<1>2. states[req.gid].status = "absent"
  BY DEF TokenInv, InsertedIsFresh, Threads
<1>3. \A h \in Gids : h # req.gid => states'[h] = Forget(states, gone)[h]
  BY <1>1 DEF Forget
<1>4. \A h \in Gids : Forget(states, gone)[h] = states[h] \/ Forget(states, gone)[h].status = "absent"
  BY DEF Forget, Absent
<1>5. ASSUME NEW h \in Gids, Stays(h) PROVE states'[h] = states[h]
  <2>1. h # req.gid
    BY <1>2, <1>5 DEF Stays, Queued
  <2> QED BY <1>3, <1>4, <1>5, <2>1 DEF Stays, Queued
<1> QED BY <1>5 DEF PositionsKept

LEMMA ThreadsKeepPositions ==
    ASSUME TypeOK, NEW t \in Threads, AfterUnlock(t)
    PROVE  PositionsKept
<1>1. CASE CancelToken(t) \/ SendLifecycle(t) \/ SpawnDownload(t)
  BY <1>1 DEF CancelToken, SendLifecycle, SpawnDownload, PositionsKept
<1>2. CASE DequeueWaiting(t)
  <2>1. \A h \in Gids : states[h] \in Download
    BY DEF TypeOK
  <2> QED BY <1>2, <2>1 DEF DequeueWaiting, Started, Download, PositionsKept
<1> QED BY <1>1, <1>2 DEF AfterUnlock

LEMMA RunsKeepPositions ==
    ASSUME TypeOK, NEW r \in RunIds, BeginSession(r) \/ ReportFinished(r) \/ Finish(r)
    PROVE  PositionsKept
<1>0. states \in [Gids -> Download] /\ r[1] \in Gids
  BY DEF TypeOK, RunIds
<1>1. CASE BeginSession(r) \/ ReportFinished(r)
  BY <1>0, <1>1 DEF BeginSession, ReportFinished, PositionsKept, Download
<1>2. CASE Finish(r)
  <2>1. PICK status, notes : FinishDownload(r, status, notes)
    BY <1>2 DEF Finish, FinishOk, FinishCancelled, FinishError
  <2>2. CASE UNCHANGED states
    BY <2>2 DEF PositionsKept
  <2>3. CASE ~UNCHANGED states
    <3> DEFINE ended == [states EXCEPT ![r[1]].status = status]
    <3>1. \E gone : states' = Forget(ended, gone)
      BY <2>1, <2>3 DEF FinishDownload
    <3>2. \A h \in Gids : ended[h].pos = states[h].pos
      BY <1>0 DEF Download
    <3> HIDE DEF ended
    <3>3. \A h \in Gids : states'[h] = ended[h] \/ states'[h].status = "absent"
      BY <3>1 DEF Forget, Absent
    <3> QED BY <3>2, <3>3 DEF PositionsKept, Stays, Queued
  <2> QED BY <2>2, <2>3
<1> QED BY <1>1, <1>2

\* A step that neither adds to the queue nor takes from it moves at most one download:
\* numbering the queue anew, in changePosition, and making room at its front, in pause,
\* keep the order of the others, even of downloads whose positions are equal.
THEOREM OrderKept ==
    ASSUME Gids # {}
    PROVE  Spec => OthersKeepOrder
<1> DEFINE Kept == With(Queued)' = With(Queued) =>
                     \E g \in Gids : \A h, k \in With(Queued) \ {g} :
                        Before(states, h, k) <=> Before(states', h, k)
<1>1. PositionsKept => Kept
  <2> SUFFICES ASSUME PositionsKept, With(Queued)' = With(Queued),
                      NEW h \in With(Queued), NEW k \in With(Queued)
               PROVE  Before(states, h, k) <=> Before(states', h, k)
    OBVIOUS
  <2>1. states'[h].pos = states[h].pos /\ states'[k].pos = states[k].pos
    BY DEF PositionsKept, Stays, With
  <2> QED BY <2>1 DEF Before
<1>2. ASSUME TypeOK, TokenInv, Next PROVE Kept
  <2>1. ASSUME NEW c \in Clients, PlaceAdded(c) \/ \E g \in Gids : ChangePosition(c, g) PROVE Kept
    <3>1. CASE UNCHANGED states
      BY <1>1, <3>1 DEF PositionsKept
    <3>2. ASSUME NEW g \in Gids, NEW target \in Nat, states' = Moved(g, target) PROVE Kept
      BY <1>2, <3>2, MovedOrder
    <3> HIDE DEF Kept
    <3> QED BY <1>2, <2>1, <3>1, <3>2, PlacedKeepOrder
  <2>2. ASSUME NEW c \in Clients, NEW g \in Gids, Pause(c, g) PROVE Kept
    BY <1>2, <2>2, PausedKeepOrder
  <2> HIDE DEF Kept
  <2>3. ASSUME NEW c \in Clients, Call(c) PROVE Kept
    BY <1>1, <1>2, <2>1, <2>2, <2>3, CallsKeepPositions DEF Call
  <2>4. ASSUME NEW c \in Clients, InsertState(c) PROVE Kept
    BY <1>1, <1>2, <2>4, InsertKeepsPositions
  <2>5. ASSUME NEW t \in Threads, AfterUnlock(t) PROVE Kept
    BY <1>1, <1>2, <2>5, ThreadsKeepPositions
  <2>6. ASSUME NEW r \in RunIds, BeginSession(r) \/ ReportFinished(r) \/ Finish(r) PROVE Kept
    BY <1>1, <1>2, <2>6, RunsKeepPositions
  <2> QED BY <1>2, <2>1, <2>3, <2>4, <2>5, <2>6 DEF Next
<1>3. TypeOK /\ TokenInv /\ [Next]_vars =>
        [With(Queued)' = With(Queued) =>
           \E g \in Gids : \A h, k \in With(Queued) \ {g} :
              Before(states, h, k) <=> Before(states', h, k)]_vars
  BY <1>2
<1> QED BY <1>3, TokenInit, TokenNext, PTL DEF Spec, OthersKeepOrder

=============================================================================
