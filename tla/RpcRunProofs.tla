---------------------------- MODULE RpcRunProofs ----------------------------
(* What ties a run to its download: its generation, its token and who cancels  *)
(* it. From one invariant: a run that was given up is cancelled, a completed   *)
(* download is not taken for a removed one. And from a second one on top of    *)
(* it: what is active is run, waits is noticed, ended is announced.            *)
EXTENDS RpcQueueProofs

Working == {"starting", "working"}

\* What a thread has left to do comes from one method: it does not owe a start
\* and a further step that would replace it.
WorkOK(w) ==
  /\ w.dequeue \/ w.insert # {} \/ w.place # {} => w.spawn = {}
  /\ w.insert # {} \/ w.place # {} => w.cancel = {}

\* A run has nothing left to do before its end, and then only starts others.
RunOK(r, w) ==
  /\ w.cancel = {} /\ w.insert = {} /\ w.place = {}
  /\ runs[r].phase # "done" => w.spawn = {} /\ ~w.dequeue

WorkInv == /\ \A t \in Threads : WorkOK(todo[t])
           /\ \A r \in RunIds : RunOK(r, todo[r])

\* The n-th run of g was begun: g was inserted, and n is no later generation
\* than that of g.
Touched(g) == g < nextGid /\ \A t \in Threads : \A req \in todo[t].insert : req.gid # g
Begun(g, n) == Touched(g) /\ (states[g].status # "absent" => n <= states[g].gen)

\* A run that works, or will, is the current one of its download or condemned. The
\* current one of a download that is active, or was completed by the last event of
\* another run, holds the download's token, and nobody cancels it.
Held(g, n, token) ==
  /\ \/ states[g].status = "absent"
     \/ states[g].status \in {"active", "complete", "error"} /\ n = states[g].gen
     \/ <<g, token>> \in Condemned
  /\ states[g].status \in {"active", "complete"} /\ n = states[g].gen =>
       token = states[g].token /\ <<g, token>> \notin Condemned

OwedRun(g, n, token) == \E t \in Threads : \E sp \in todo[t].spawn :
                          sp.gid = g /\ sp.gen = n /\ sp.token = token
SpawnedRun(g, n, token) == runs[<<g, n>>].phase \in Working /\ runs[<<g, n>>].token = token
Recorded(g, n, token) == OwedRun(g, n, token) \/ SpawnedRun(g, n, token)

BegunInv == \A r \in RunIds : runs[r].phase # "none" => Begun(r[1], r[2])
HeldInv == \A g \in Gids, n \in 1..MaxGen, token \in Nat :
             Recorded(g, n, token) => Held(g, n, token)

\* An owed start is the only one of its run, which does not exist yet.
SpawnInv ==
  \A t \in Threads : \A sp \in todo[t].spawn :
    /\ runs[<<sp.gid, sp.gen>>].phase = "none" /\ Begun(sp.gid, sp.gen)
    /\ \A u \in Threads : \A sq \in todo[u].spawn :
         sq.gid = sp.gid /\ sq.gen = sp.gen => u = t /\ sq = sp

RunInv == WorkInv /\ BegunInv /\ HeldInv /\ SpawnInv

-----------------------------------------------------------------------------
(* How the parts survive a step.                                           *)

\* The ways a download changes while its runs stay as they are. A download that is
\* given up has its token condemned if it was active.
GivenUp(g) == states[g].status = "active" => <<g, states[g].token>> \in Condemned'
StateStep(g) ==
  \/ states'[g].status = "absent"
  \/ /\ states'[g].status = states[g].status
     /\ states'[g].gen = states[g].gen /\ states'[g].token = states[g].token
  \/ /\ states[g].status \in Queued \cup {"active"} /\ GivenUp(g)
     /\ states'[g].status \in Queued \cup {"removed"} /\ states'[g].gen = states[g].gen
  \/ /\ states[g].status \in Queued \cup {"active"} /\ GivenUp(g)
     /\ states'[g].status = "active" /\ states'[g].gen = states[g].gen + 1
  \/ /\ states[g].status = "active" /\ states'[g].status = "complete"
     /\ states'[g].gen = states[g].gen /\ states'[g].token = states[g].token
     /\ Condemned' \subseteq Condemned

StatesGoOn ==
  \A g \in Gids : /\ StateStep(g)
                  /\ states[g].status = "absent" => states'[g].status = "absent"

LEMMA NotCondemned ==
    ASSUME TypeOK, TokenInv, NEW g \in Gids, states[g].status = "active"
    PROVE  <<g, states[g].token>> \notin Condemned
<1>1. states[g].token \in Nat
  BY DEF TypeOK, Download
<1> QED BY <1>1 DEF TokenInv, CondemnedIsPast, Terminal

LEMMA HeldKept ==
    ASSUME TypeOK, TypeOK', TokenInv', NEW g \in Gids, NEW n \in 1..MaxGen, NEW token \in Nat,
           Held(g, n, token), Begun(g, n), Condemned \subseteq Condemned',
           <<g, token>> \in Condemned' => \/ <<g, token>> \in Condemned
                                          \/ states[g].status # "complete",
           StateStep(g) \/ (/\ n # states[g].gen /\ states[g].status # "absent"
                            /\ states'[g].gen = states[g].gen)
    PROVE  Held(g, n, token)'
<1>0. n \in Nat /\ states[g].gen \in Nat /\ states[g].token \in Nat /\ states'[g].gen \in Nat
  BY BoundsAssumption DEF TypeOK, Download
<1>1. CASE states'[g].status = "absent"
  BY <1>1 DEF Held
<1>2. CASE /\ states'[g].status = states[g].status
           /\ states'[g].gen = states[g].gen /\ states'[g].token = states[g].token
  <2>1. states'[g].status = "active" => <<g, states'[g].token>> \notin Condemned'
    <3>1. states'[g].token \in Nat
      BY DEF TypeOK, Download
    <3> QED BY <3>1 DEF TokenInv, CondemnedIsPast, Terminal
  <2> QED BY <1>2, <2>1 DEF Held
<1>3. CASE /\ states[g].status \in Queued \cup {"active"} /\ GivenUp(g)
           /\ \/ /\ states'[g].status \in Queued \cup {"removed"}
                 /\ states'[g].gen = states[g].gen
              \/ /\ states'[g].status = "active" /\ states'[g].gen = states[g].gen + 1
  <2>1. <<g, token>> \in Condemned'
    BY <1>3 DEF Held, GivenUp, Queued
  <2>2. ~(states'[g].status \in {"active", "complete"} /\ n = states'[g].gen)
    BY <1>0, <1>3 DEF Begun, Queued
  <2> QED BY <2>1, <2>2 DEF Held
<1>4. CASE /\ states[g].status = "active" /\ states'[g].status = "complete"
           /\ states'[g].gen = states[g].gen /\ states'[g].token = states[g].token
           /\ Condemned' \subseteq Condemned
  BY <1>4 DEF Held
<1>5. CASE n # states[g].gen /\ states[g].status # "absent" /\ states'[g].gen = states[g].gen
  BY <1>5 DEF Held
<1> QED BY <1>1, <1>2, <1>3, <1>4, <1>5 DEF StateStep, Queued

\* A step that spawns no task: starts are only added by thread t, each of a new
\* generation.
NewStart(sp) ==
  /\ states'[sp.gid].status = "active" /\ states'[sp.gid].gen = sp.gen
  /\ states'[sp.gid].token = sp.token
  /\ Touched(sp.gid)'
  /\ \/ states[sp.gid].status # "absent" /\ states[sp.gid].gen < sp.gen
     \/ ~Touched(sp.gid)

RunsGoOn ==
  \A r \in RunIds : /\ runs'[r].phase # "none" => runs[r].phase # "none"
                    /\ runs'[r].phase \in Working =>
                          runs[r].phase \in Working /\ runs'[r].token = runs[r].token
GidsGoOn ==
  /\ nextGid <= nextGid'
  /\ \A u \in Threads : \A req \in todo'[u].insert :
       \/ req.gid >= nextGid
       \/ \E v \in Threads : \E q \in todo[v].insert : q.gid = req.gid
  /\ \A g \in Gids : Touched(g) /\ states'[g].status # "absent" =>
       states[g].status # "absent" /\ states[g].gen <= states'[g].gen

LEMMA BegunKept ==
    ASSUME TypeOK, TypeOK', GidsGoOn, NEW g \in Gids, NEW n \in Nat, Begun(g, n)
    PROVE  Begun(g, n)'
<1>1. nextGid \in Nat /\ nextGid' \in Nat /\ g \in Nat /\ states[g].gen \in Nat /\ states'[g].gen \in Nat
  BY BoundsAssumption DEF TypeOK, Gids, Download
<1>2. Touched(g)'
  <2>1. g < nextGid' /\ g < nextGid
    BY <1>1 DEF GidsGoOn, Begun, Touched
  <2>2. ASSUME NEW u \in Threads, NEW req \in todo'[u].insert, req.gid = g PROVE FALSE
    BY <1>1, <2>1, <2>2 DEF GidsGoOn, Begun, Touched
  <2> QED BY <2>1, <2>2 DEF Touched
<1> QED BY <1>1, <1>2 DEF GidsGoOn, Begun

LEMMA RunStep ==
    ASSUME TypeOK, TypeOK', TokenInv', RunInv, WorkInv', RunsGoOn, GidsGoOn,
           NEW t \in Threads, NEW N \in SUBSET QueuedStart,
           \A u \in Threads : u # t => todo'[u].spawn \subseteq todo[u].spawn,
           todo'[t].spawn \subseteq todo[t].spawn \cup N,
           \A sp \in N : NewStart(sp) /\ \A sq \in N : sq.gid = sp.gid => sq = sp,
           \A g \in Gids, n \in 1..MaxGen, token \in Nat :
             (/\ Recorded(g, n, token) /\ Recorded(g, n, token)'
              /\ Held(g, n, token) /\ Begun(g, n)) => Held(g, n, token)'
    PROVE  RunInv'
<1>0. /\ \A r \in RunIds : r[1] \in Gids /\ r[2] \in 1..MaxGen /\ r[2] \in Nat /\ r = <<r[1], r[2]>>
      /\ \A g \in Gids, n \in 1..MaxGen : <<g, n>> \in RunIds
      /\ \A sp \in QueuedStart : sp.gid \in Gids /\ sp.gen \in 1..MaxGen /\ sp.gen \in Nat /\ sp.token \in Nat
      /\ \A u \in Threads : todo[u].spawn \subseteq QueuedStart /\ todo'[u].spawn \subseteq QueuedStart
  BY BoundsAssumption DEF RunIds, QueuedStart, TypeOK, Pending
<1>1. BegunInv'
  <2> SUFFICES ASSUME NEW r \in RunIds, runs'[r].phase # "none" PROVE Begun(r[1], r[2])'
    BY DEF BegunInv
  <2>1. Begun(r[1], r[2])
    BY DEF RunsGoOn, RunInv, BegunInv
  <2> QED BY <1>0, <2>1, BegunKept
\* A new start is of a run that never existed and that nobody else owes.
<1>2. ASSUME NEW sp \in N
      PROVE  ~Begun(sp.gid, sp.gen)
  <2>1. sp.gen \in Nat /\ states[sp.gid].gen \in Nat
    BY <1>0 DEF TypeOK, Download
  <2> QED BY <2>1 DEF NewStart, Begun
<1>3. ASSUME NEW sp \in N
      PROVE  /\ runs'[<<sp.gid, sp.gen>>].phase = "none" /\ Begun(sp.gid, sp.gen)'
             /\ Held(sp.gid, sp.gen, sp.token)'
  <2>1. <<sp.gid, sp.gen>> \in RunIds
    BY <1>0
  <2>2. runs[<<sp.gid, sp.gen>>].phase = "none"
    BY <1>2, <2>1 DEF RunInv, BegunInv
  <2>3. runs'[<<sp.gid, sp.gen>>].phase = "none"
    BY <2>1, <2>2 DEF RunsGoOn
  <2>4. Begun(sp.gid, sp.gen)'
    BY <1>0 DEF NewStart, Begun
  <2>5. <<sp.gid, states'[sp.gid].token>> \notin Condemned'
    <3>1. states'[sp.gid].token \in Nat /\ states'[sp.gid].status = "active"
      BY <1>0 DEF TypeOK, Download, NewStart
    <3> QED BY <3>1 DEF TokenInv, CondemnedIsPast, Terminal
  <2>6. Held(sp.gid, sp.gen, sp.token)'
    BY <2>5 DEF Held, NewStart
  <2> QED BY <2>3, <2>4, <2>6
<1>4. ASSUME NEW u \in Threads, NEW sp \in todo'[u].spawn
      PROVE  sp \in todo[u].spawn \/ (u = t /\ sp \in N)
  OBVIOUS
<1>5. HeldInv'
  <2> SUFFICES ASSUME NEW g \in Gids, NEW n \in 1..MaxGen, NEW token \in Nat, Recorded(g, n, token)'
               PROVE  Held(g, n, token)'
    BY DEF HeldInv
  <2>1. CASE Recorded(g, n, token)
    <3>1. Held(g, n, token)
      BY <2>1 DEF RunInv, HeldInv
    <3>2. Begun(g, n)
      <4>1. CASE OwedRun(g, n, token)
        <5>1. PICK u \in Threads :
                 \E sp \in todo[u].spawn : sp.gid = g /\ sp.gen = n /\ sp.token = token
          BY <4>1 DEF OwedRun
        <5>2. PICK sp \in todo[u].spawn : sp.gid = g /\ sp.gen = n
          BY <5>1
        <5>3. Begun(sp.gid, sp.gen)
          BY <5>2 DEF RunInv, SpawnInv
        <5> QED BY <5>2, <5>3
      <4>2. CASE SpawnedRun(g, n, token)
        BY <1>0, <4>2 DEF SpawnedRun, Working, RunInv, BegunInv
      <4> QED BY <2>1, <4>1, <4>2 DEF Recorded
    <3> QED BY <2>1, <3>1, <3>2
  <2>2. CASE ~Recorded(g, n, token)
    <3>1. ~SpawnedRun(g, n, token)'
      BY <1>0, <2>2 DEF Recorded, SpawnedRun, RunsGoOn
    <3>2. PICK u \in Threads :
               \E sp \in todo'[u].spawn : sp.gid = g /\ sp.gen = n /\ sp.token = token
      BY <3>1 DEF Recorded, OwedRun
    <3>3. PICK sp \in todo'[u].spawn : sp.gid = g /\ sp.gen = n /\ sp.token = token
      BY <3>2
    <3>4. sp \in N
      BY <1>4, <2>2, <3>3 DEF Recorded, OwedRun
    <3> QED BY <1>3, <3>3, <3>4
  <2> QED BY <2>1, <2>2
<1>6. SpawnInv'
  <2>1. ASSUME NEW u \in Threads, NEW sp \in todo'[u].spawn
        PROVE  runs'[<<sp.gid, sp.gen>>].phase = "none" /\ Begun(sp.gid, sp.gen)'
    <3>1. CASE sp \in N
      BY <1>3, <3>1
    <3>2. CASE sp \in todo[u].spawn
      <4>1. /\ runs[<<sp.gid, sp.gen>>].phase = "none" /\ Begun(sp.gid, sp.gen)
            /\ <<sp.gid, sp.gen>> \in RunIds /\ sp.gid \in Gids /\ sp.gen \in Nat
        BY <1>0, <3>2 DEF RunInv, SpawnInv
      <4> QED BY <4>1, BegunKept DEF RunsGoOn
    <3> QED BY <1>4, <3>1, <3>2
  <2>2. ASSUME NEW u \in Threads, NEW sp \in todo'[u].spawn,
               NEW v \in Threads, NEW sq \in todo'[v].spawn, sq.gid = sp.gid, sq.gen = sp.gen
        PROVE  v = u /\ sq = sp
    <3>1. CASE sp \in todo[u].spawn /\ sq \in todo[v].spawn
      BY <2>2, <3>1 DEF RunInv, SpawnInv
    <3>2. CASE u = t /\ sp \in N /\ v = t /\ sq \in N
      BY <2>2, <3>2
    <3>3. CASE sp \in todo[u].spawn /\ sq \in N
      <4>1. Begun(sp.gid, sp.gen)
        BY <3>3 DEF RunInv, SpawnInv
      <4> QED BY <1>2, <2>2, <3>3, <4>1
    <3>4. CASE sq \in todo[v].spawn /\ sp \in N
      <4>1. Begun(sq.gid, sq.gen)
        BY <3>4 DEF RunInv, SpawnInv
      <4> QED BY <1>2, <2>2, <3>4, <4>1
    <3> QED BY <1>4, <3>1, <3>2, <3>3, <3>4
  <2> QED BY <2>1, <2>2 DEF SpawnInv
<1> QED BY <1>1, <1>5, <1>6 DEF RunInv

LEMMA WorkStep ==
    ASSUME WorkInv, NEW t \in Threads, WorkOK(todo'[t]), t \in RunIds => RunOK(t, todo[t])',
           \A u \in Threads : u # t => todo'[u] = todo[u],
           \A r \in RunIds : r # t /\ runs'[r].phase # "done" => runs[r].phase # "done"
    PROVE  WorkInv'
<1>1. \A u \in Threads : WorkOK(todo'[u])
  BY DEF WorkInv
<1>2. ASSUME NEW r \in RunIds, r # t PROVE RunOK(r, todo[r])'
  <2>1. r \in Threads /\ todo'[r] = todo[r]
    BY <1>2 DEF Threads
  <2> QED BY <1>2, <2>1 DEF WorkInv, RunOK
<1> QED BY <1>1, <1>2 DEF WorkInv, WorkOK

LEMMA CallsFromIdle ==
    ASSUME NEW c, Call(c)
    PROVE  todo[c] = Idle
<1>1. CASE AddDownload(c) \/ PauseAll(c) \/ UnpauseAll(c) \/ PurgeDownloadResults(c)
  BY <1>1 DEF AddDownload, PauseAll, UnpauseAll, PurgeDownloadResults, Calling
<1>2. ASSUME NEW g \in Gids, ChangePosition(c, g) \/ Remove(c, g) \/ Pause(c, g) \/ Unpause(c, g)
      PROVE  todo[c] = Idle
  BY <1>2 DEF ChangePosition, Remove, Pause, Unpause, Calling
<1>3. ASSUME NEW g \in Gids, \/ ChangeUri(c, g) \/ ChangeOption(c, g) \/ ChangeOptionRejected(c, g)
                            \/ RemoveDownloadResult(c, g)
      PROVE  todo[c] = Idle
  BY <1>3 DEF ChangeUri, ChangeOption, ChangeOptionRejected, RemoveDownloadResult, Calling
<1> QED BY <1>1, <1>2, <1>3 DEF Call

\* A call begins with nothing left to do, and leaves the kinds of work of one method.
LEMMA CallWork ==
    ASSUME TypeOK, TypeOK', WorkInv, NEW c \in Clients, Call(c) \/ InsertState(c) \/ PlaceAdded(c)
    PROVE  WorkInv'
<1>0. c \in Threads /\ c \notin RunIds /\ todo[c] \in Pending /\ todo \in [Threads -> Pending]
      /\ todo'[c] \in Pending
  BY ThreadsAssumption DEF Threads, TypeOK
<1>1. runs' = runs /\ \A u \in Threads : u # c => todo'[u] = todo[u]
  <2>1. CASE Call(c)
    BY <1>0, <2>1 DEF Call, AddDownload, PauseAll, UnpauseAll, PurgeDownloadResults, ChangePosition,
         Remove, Pause, Unpause, ChangeUri, ChangeOption, ChangeOptionRejected, RemoveDownloadResult
  <2>2. CASE InsertState(c)
    BY <1>0, <2>2 DEF InsertState
  <2>3. CASE PlaceAdded(c)
    BY <1>0, <2>3 DEF PlaceAdded
  <2> QED BY <2>1, <2>2, <2>3
<1>2. WorkOK(todo[c])
  BY <1>0 DEF WorkInv
<1>3. WorkOK(todo'[c])
  <2>1. CASE \/ AddDownload(c) \/ UnpauseAll(c) \/ \E g \in Gids : Unpause(c, g) \/ Remove(c, g)
    <3>1. todo[c] = Idle
      BY <2>1, CallsFromIdle DEF Call
    <3>2. \/ \E x : todo' = [todo EXCEPT ![c].insert = x]
          \/ \E x : todo' = [todo EXCEPT ![c].dequeue = x]
          \/ \E x, y : todo' = [todo EXCEPT ![c].notify = x, ![c].dequeue = y]
      BY <2>1 DEF AddDownload, UnpauseAll, Unpause, Remove
    <3>3. todo'[c].spawn = todo[c].spawn /\ todo'[c].cancel = todo[c].cancel
      <4>1. ASSUME NEW x, todo' = [todo EXCEPT ![c].insert = x]
            PROVE  todo'[c].spawn = todo[c].spawn /\ todo'[c].cancel = todo[c].cancel
        BY <1>0, <4>1 DEF Pending
      <4>2. ASSUME NEW x, todo' = [todo EXCEPT ![c].dequeue = x]
            PROVE  todo'[c].spawn = todo[c].spawn /\ todo'[c].cancel = todo[c].cancel
        BY <1>0, <4>2 DEF Pending
      <4>3. ASSUME NEW x, NEW y, todo' = [todo EXCEPT ![c].notify = x, ![c].dequeue = y]
            PROVE  todo'[c].spawn = todo[c].spawn /\ todo'[c].cancel = todo[c].cancel
        BY <1>0, <4>3 DEF Pending
      <4> QED BY <3>2, <4>1, <4>2, <4>3
    <3> QED BY <3>1, <3>3 DEF WorkOK, Idle
  <2>2. CASE PauseAll(c) \/ \E g \in Gids : Pause(c, g) \/ ChangeOption(c, g)
    <3>1. todo[c] = Idle
      BY <2>2, CallsFromIdle DEF Call
    <3>2. \/ UNCHANGED todo
          \/ \E x, y : todo' = [todo EXCEPT ![c].cancel = x, ![c].notify = y]
          \/ \E x, y : todo' = [todo EXCEPT ![c].cancel = x, ![c].spawn = y]
      BY <2>2 DEF PauseAll, Pause, ChangeOption
    <3>3. /\ todo'[c].insert = todo[c].insert /\ todo'[c].place = todo[c].place
          /\ todo'[c].dequeue = todo[c].dequeue
      <4>1. ASSUME NEW x, NEW y, todo' = [todo EXCEPT ![c].cancel = x, ![c].notify = y]
            PROVE  /\ todo'[c].insert = todo[c].insert /\ todo'[c].place = todo[c].place
                   /\ todo'[c].dequeue = todo[c].dequeue
        BY <1>0, <4>1 DEF Pending
      <4>2. ASSUME NEW x, NEW y, todo' = [todo EXCEPT ![c].cancel = x, ![c].spawn = y]
            PROVE  /\ todo'[c].insert = todo[c].insert /\ todo'[c].place = todo[c].place
                   /\ todo'[c].dequeue = todo[c].dequeue
        BY <1>0, <4>2 DEF Pending
      <4> QED BY <3>2, <4>1, <4>2
    <3> QED BY <3>1, <3>3 DEF WorkOK, Idle
  <2>3. CASE \/ PurgeDownloadResults(c)
             \/ \E g \in Gids : \/ ChangePosition(c, g) \/ ChangeUri(c, g)
                                \/ ChangeOptionRejected(c, g) \/ RemoveDownloadResult(c, g)
    BY <1>2, <2>3 DEF PurgeDownloadResults, ChangePosition, ChangeUri, ChangeOptionRejected,
         RemoveDownloadResult
  <2>4. CASE InsertState(c)
    <3>1. PICK req \in todo[c].insert : \/ todo'[c] = Idle \/ todo'[c] = AfterInsert(req)
      BY <1>0, <2>4 DEF InsertState
    <3>2. AfterInsert(req).insert = {} /\ AfterInsert(req).cancel = {}
      BY DEF AfterInsert, Idle
    <3>3. AfterInsert(req).spawn # {} => NewStatus = "active"
      BY DEF AfterInsert, Idle
    <3>4. NewStatus = "active" => AfterInsert(req).dequeue = FALSE /\ AfterInsert(req).place = {}
      BY ConfigAssumption DEF AfterInsert, Idle, NewStatus
    <3> QED BY <3>1, <3>2, <3>3, <3>4 DEF Idle, WorkOK
  <2>5. CASE PlaceAdded(c)
    BY <1>0, <1>2, <2>5 DEF PlaceAdded, Idle, Pending, WorkOK
  <2> QED BY <2>1, <2>2, <2>3, <2>4, <2>5 DEF Call
<1> QED BY <1>0, <1>1, <1>3, WorkStep

LEMMA AfterUnlockWork ==
    ASSUME TypeOK, TypeOK', WorkInv, SpawnInv, NEW t \in Threads, AfterUnlock(t)
    PROVE  WorkInv'
<1>0. todo[t] \in Pending /\ todo \in [Threads -> Pending] /\ todo'[t] \in Pending
  BY DEF TypeOK
<1>1. \A u \in Threads : u # t => todo'[u] = todo[u]
  BY <1>0 DEF AfterUnlock, CancelToken, SendLifecycle, DequeueWaiting, SpawnDownload
<1>2. WorkOK(todo[t])
  BY DEF WorkInv
<1>3. WorkOK(todo'[t]) /\ (t \in RunIds => RunOK(t, todo[t])')
  <2>1. CASE CancelToken(t)
    BY <1>0, <1>2, <2>1 DEF CancelToken, Pending, WorkInv, WorkOK, RunOK
  <2>2. CASE SendLifecycle(t)
    BY <1>0, <1>2, <2>2 DEF SendLifecycle, Pending, WorkInv, WorkOK, RunOK
  <2>3. CASE DequeueWaiting(t)
    BY <1>0, <1>2, <2>3 DEF DequeueWaiting, Pending, WorkInv, WorkOK, RunOK
  <2>4. CASE SpawnDownload(t)
    <3>1. PICK sp \in todo[t].spawn : /\ runs' = [runs EXCEPT ![<<sp.gid, sp.gen>>] =
                                        [phase |-> "starting", token |-> sp.token, job |-> sp.job]]
                                     /\ todo' = [todo EXCEPT ![t].spawn = @ \ {sp}]
      BY <2>4 DEF SpawnDownload
    <3>2. WorkOK(todo'[t])
      BY <1>0, <1>2, <3>1 DEF Pending, WorkOK
    <3>3. ASSUME t \in RunIds PROVE RunOK(t, todo[t])'
      <4>1. runs[t].phase = "done" /\ todo[t].cancel = {} /\ todo[t].insert = {} /\ todo[t].place = {}
        BY <3>1, <3>3 DEF WorkInv, RunOK
      <4>2. runs[<<sp.gid, sp.gen>>].phase = "none"
        BY DEF SpawnInv
      <4>3. runs'[t].phase = "done"
        BY <3>1, <3>3, <4>1, <4>2 DEF TypeOK
      <4> QED BY <1>0, <3>1, <4>1, <4>3 DEF Pending, RunOK
    <3> QED BY <3>2, <3>3
  <2> QED BY <2>1, <2>2, <2>3, <2>4 DEF AfterUnlock
<1>4. \A r \in RunIds : r # t /\ runs'[r].phase # "done" => runs[r].phase # "done"
  <2>1. CASE UNCHANGED runs
    BY <2>1
  <2>2. CASE SpawnDownload(t)
    <3>1. PICK sp \in todo[t].spawn : runs' = [runs EXCEPT ![<<sp.gid, sp.gen>>] =
                                        [phase |-> "starting", token |-> sp.token, job |-> sp.job]]
      BY <2>2 DEF SpawnDownload
    <3>2. runs[<<sp.gid, sp.gen>>].phase = "none"
      BY DEF SpawnInv
    <3> QED BY <3>1, <3>2 DEF TypeOK
  <2> QED BY <2>1, <2>2 DEF AfterUnlock, CancelToken, SendLifecycle, DequeueWaiting
<1> QED BY <1>1, <1>3, <1>4, WorkStep

-----------------------------------------------------------------------------
(* The steps.                                                              *)

LEMMA GenGrows ==
    ASSUME TypeOK, TypeOK', NEW g \in Gids, StateStep(g), states'[g].status # "absent"
    PROVE  states[g].gen <= states'[g].gen
<1>1. states[g].gen \in Nat /\ states'[g].gen \in Nat
  BY BoundsAssumption DEF TypeOK, Download
<1>2. states'[g].gen = states[g].gen \/ states'[g].gen = states[g].gen + 1
  BY DEF StateStep
<1> QED BY <1>1, <1>2

\* Steps that owe no new start and change the downloads as they change while
\* their runs go on.
CompleteStays == \A g \in Gids : states[g].status = "complete" => states'[g].status # "removed"

InsertsGoOn == \A u \in Threads : \A req \in todo'[u].insert :
                  req \in todo[u].insert \/ req.gid = nextGid

CondemnedGrows ==
  /\ Condemned \subseteq Condemned'
  /\ \A k \in Condemned' : k \in Condemned \/ states[k[1]].status # "complete"

LEMMA GidsStep ==
    ASSUME TypeOK, TypeOK', nextGid' \in {nextGid, nextGid + 1}, InsertsGoOn,
           \A g \in Gids : Touched(g) /\ states'[g].status # "absent" =>
                             states[g].status # "absent" /\ states[g].gen <= states'[g].gen
    PROVE  GidsGoOn
<1>1. nextGid \in Nat
  BY DEF TypeOK
<1>2. ASSUME NEW u \in Threads, NEW req \in todo'[u].insert
      PROVE  req.gid >= nextGid \/ \E v \in Threads : \E q \in todo[v].insert : q.gid = req.gid
  <2>1. req \in todo[u].insert \/ req.gid = nextGid
    BY DEF InsertsGoOn
  <2> QED BY <1>1, <2>1
<1> QED BY <1>1, <1>2 DEF GidsGoOn

\* A step that may owe the starts in N: a download it inserts is new, the others
\* change as they change while their runs go on.
LEMMA StartStep ==
    ASSUME TypeOK, TypeOK', TokenInv', RunInv, WorkInv', RunsGoOn,
           NEW t \in Threads, NEW N \in SUBSET QueuedStart,
           nextGid' \in {nextGid, nextGid + 1}, InsertsGoOn,
           \A u \in Threads : u # t => todo'[u].spawn \subseteq todo[u].spawn,
           todo'[t].spawn \subseteq todo[t].spawn \cup N,
           \A sp \in N : NewStart(sp) /\ \A sq \in N : sq.gid = sp.gid => sq = sp,
           CondemnedGrows,
           \A g \in Gids : \/ StateStep(g) /\ (states[g].status = "absent" => states'[g].status = "absent")
                           \/ ~Touched(g) /\ states[g].status = "absent"
    PROVE  RunInv' /\ CompleteStays
<1>1. ASSUME NEW g \in Gids, Touched(g), states'[g].status # "absent"
      PROVE  states[g].status # "absent" /\ states[g].gen <= states'[g].gen
  <2>1. StateStep(g) /\ states[g].status # "absent"
    BY <1>1
  <2> QED BY <1>1, <2>1, GenGrows
<1>2. GidsGoOn
  BY <1>1, GidsStep
<1>3. ASSUME NEW g \in Gids, NEW n \in 1..MaxGen, NEW token \in Nat, Held(g, n, token), Begun(g, n)
      PROVE  Held(g, n, token)'
  <2>1. <<g, token>> \in Condemned' => <<g, token>> \in Condemned \/ states[g].status # "complete"
    BY DEF CondemnedGrows
  <2>2. StateStep(g) /\ Condemned \subseteq Condemned'
    BY <1>3 DEF CondemnedGrows, Begun
  <2> QED BY <1>3, <2>1, <2>2, HeldKept
<1>4. \A g \in Gids, n \in 1..MaxGen, token \in Nat :
        (/\ Recorded(g, n, token) /\ Recorded(g, n, token)'
         /\ Held(g, n, token) /\ Begun(g, n)) => Held(g, n, token)'
  BY <1>3
<1>5. RunInv'
  BY <1>2, <1>4, RunStep
<1>6. CompleteStays
  BY DEF CompleteStays, StateStep, Queued
<1> QED BY <1>5, <1>6

LEMMA QuietStep ==
    ASSUME TypeOK, TypeOK', TokenInv', RunInv, WorkInv', RunsGoOn, NEW t \in Threads,
           nextGid' \in {nextGid, nextGid + 1}, InsertsGoOn,
           \A u \in Threads : todo'[u].spawn \subseteq todo[u].spawn,
           CondemnedGrows, StatesGoOn
    PROVE  RunInv' /\ CompleteStays
<1> DEFINE N == {}
<1>1. N \in SUBSET QueuedStart /\ todo'[t].spawn \subseteq todo[t].spawn \cup N
  OBVIOUS
<1>2. \A sp \in N : NewStart(sp) /\ \A sq \in N : sq.gid = sp.gid => sq = sp
  OBVIOUS
<1>3. \A g \in Gids : \/ StateStep(g) /\ (states[g].status = "absent" => states'[g].status = "absent")
                      \/ ~Touched(g) /\ states[g].status = "absent"
  BY DEF StatesGoOn
<1> HIDE DEF N
<1> QED BY <1>1, <1>2, <1>3, StartStep

LEMMA RunsUnchanged == runs' = runs => RunsGoOn
BY DEF RunsGoOn

\* What becomes of the condemned tokens when one thread's cancellations change.
LEMMA CondemnedKept ==
    ASSUME TypeOK, NEW t \in Threads, NEW C,
           \A u \in Threads : u # t => todo'[u].cancel = todo[u].cancel,
           cancelled \subseteq cancelled', cancelled' \subseteq cancelled \cup todo[t].cancel \cup C,
           todo[t].cancel \subseteq todo'[t].cancel \cup cancelled',
           todo'[t].cancel \subseteq todo[t].cancel \cup C,
           \A k \in C : states[k[1]].status # "complete"
    PROVE  CondemnedGrows
<1>1. Condemned \subseteq Condemned'
  BY DEF Condemned
<1>2. Condemned' \subseteq Condemned \cup C
  BY CondemnedAfter
<1> QED BY <1>1, <1>2 DEF CondemnedGrows

LEMMA QuietAdd ==
    ASSUME TypeOK, TypeOK', TokenInv', RunInv, NEW c \in Clients, AddDownload(c)
    PROVE  RunInv' /\ CompleteStays
<1>0. c \in Threads /\ todo[c] \in Pending
  BY DEF Threads, TypeOK
<1>1. PICK at : todo' = [todo EXCEPT ![c].insert = {[gid |-> nextGid, pos |-> nextPos, at |-> at]}]
  BY DEF AddDownload
<1> DEFINE new == [gid |-> nextGid, pos |-> nextPos, at |-> at]
<1>2. /\ todo'[c].insert = {new} /\ todo'[c].cancel = todo[c].cancel
      /\ todo'[c].spawn = todo[c].spawn
      /\ \A u \in Threads : u # c => todo'[u] = todo[u]
  BY <1>0, <1>1 DEF TypeOK, Pending
<1>3. /\ nextGid' = nextGid + 1
      /\ UNCHANGED <<states, cancelled, runs>>
  BY DEF AddDownload
<1>4. InsertsGoOn
  BY <1>2 DEF InsertsGoOn
<1>5. CondemnedGrows
  <2> DEFINE C == {}
  <2>1. \A k \in C : states[k[1]].status # "complete"
    OBVIOUS
  <2> HIDE DEF C
  <2> QED BY <1>0, <1>2, <1>3, <2>1, CondemnedKept
<1>6. StatesGoOn
  BY <1>3 DEF StatesGoOn, StateStep
<1>7. WorkInv'
  BY CallWork DEF RunInv, Call
<1>8. \A u \in Threads : todo'[u].spawn \subseteq todo[u].spawn
  BY <1>2
<1> QED BY <1>0, <1>3, <1>4, <1>5, <1>6, <1>7, <1>8, RunsUnchanged, QuietStep

\* The calls that neither cancel nor replace a token.
LEMMA QuietQueueCalls ==
    ASSUME TypeOK, TypeOK', TokenInv', RunInv, NEW c \in Clients,
           \/ UnpauseAll(c) \/ PurgeDownloadResults(c) \/ PlaceAdded(c)
           \/ \E g \in Gids : \/ ChangePosition(c, g) \/ Unpause(c, g) \/ ChangeUri(c, g)
                              \/ ChangeOptionRejected(c, g) \/ RemoveDownloadResult(c, g)
                              \/ ChangeOption(c, g) /\ UNCHANGED todo
    PROVE  RunInv' /\ CompleteStays
<1>0. c \in Threads /\ todo[c] \in Pending /\ \A g \in Gids : states[g] \in Download
  BY DEF Threads, TypeOK
<1>1. \A g \in Gids : \/ states'[g].status = "absent"
                      \/ /\ states[g].status # "absent"
                         /\ states'[g].token = states[g].token /\ states'[g].gen = states[g].gen
                         /\ \/ states'[g].status = states[g].status
                            \/ states[g].status = "paused" /\ states'[g].status = "waiting"
  <2>1. CASE UnpauseAll(c)
    BY <1>0, <2>1 DEF UnpauseAll, Download
  <2>2. CASE PurgeDownloadResults(c)
    BY <2>2 DEF PurgeDownloadResults, Forget, Absent
  <2>3. CASE PlaceAdded(c)
    <3>1. PICK place \in todo[c].place : PlaceAdded(c)!2!(place)
      BY <2>3 DEF PlaceAdded
    <3>2. place[1] \in Gids /\ Clamped(place[1], place[2]) \in Nat
      BY <1>0, ClampedNat DEF Pending
    <3> QED BY <3>1, <3>2, MovedType
  <2>4. ASSUME NEW h \in Gids, ChangePosition(c, h)
        PROVE  \A g \in Gids : /\ states'[g].status = states[g].status
                               /\ states'[g].token = states[g].token
                               /\ states'[g].gen = states[g].gen
    <3>1. PICK p \in Int : states' = Moved(h, Clamped(h, p))
      <4>1. /\ Ahead(states, With(Queued), h) \in Nat
            /\ Cardinality(With(Queued) \ {h}) \in Nat
        BY AheadNat, GidsFinite DEF With
      <4> QED
        BY <2>4, <4>1, ConfigAssumption DEF ChangePosition
    <3> QED BY <3>1, ClampedNat, MovedType
  <2>5. CASE \E h \in Gids : Unpause(c, h)
    BY <1>0, <2>5 DEF Unpause, Download, TypeOK
  <2>6. CASE \E h \in Gids : ChangeUri(c, h) \/ ChangeOptionRejected(c, h)
    <3>1. CASE \E h \in Gids : ChangeUri(c, h)
      BY <1>0, <3>1 DEF ChangeUri, Download, TypeOK
    <3> QED BY <1>0, <2>6, <3>1, RejectedFields
  <2>7. CASE \E h \in Gids : RemoveDownloadResult(c, h)
    BY <2>7 DEF RemoveDownloadResult, Forget, Absent
  <2>8. ASSUME NEW h \in Gids, ChangeOption(c, h), UNCHANGED todo
        PROVE  \A g \in Gids : /\ states'[g].status = states[g].status
                               /\ states'[g].token = states[g].token
                               /\ states'[g].gen = states[g].gen
    <3>1. todo[c] = Idle
      BY <2>8, CallsFromIdle DEF Call
    <3>2. states' = [states EXCEPT ![h].job = @ + 1]
      <4>1. ASSUME NEW C, NEW sp, todo' = [todo EXCEPT ![c].cancel = C, ![c].spawn = {sp}] PROVE FALSE
        <5>1. todo'[c].spawn = {sp}
          BY <1>0, <4>1 DEF TypeOK, Pending
        <5> QED BY <2>8, <3>1, <5>1 DEF Idle
      <4> QED BY <2>8, <4>1 DEF ChangeOption
    <3> QED BY <1>0, <3>2 DEF TypeOK, Download
  <2> QED
    BY <2>1, <2>2, <2>3, <2>4, <2>5, <2>6, <2>7, <2>8
<1>2. StatesGoOn
  BY <1>1 DEF StatesGoOn, StateStep, GivenUp, Queued
<1>3. WorkInv'
  BY CallWork DEF RunInv, Call
<1>4. /\ nextGid' = nextGid /\ cancelled' = cancelled /\ runs' = runs
      /\ \/ UNCHANGED todo
         \/ todo' = [todo EXCEPT ![c] = Idle] /\ todo[c].place # {}
         \/ todo' = [todo EXCEPT ![c].place = {}]
         \/ todo' = [todo EXCEPT ![c].dequeue = TRUE]
  BY DEF UnpauseAll, PurgeDownloadResults, PlaceAdded, ChangePosition, Unpause, ChangeUri,
         ChangeOptionRejected, RemoveDownloadResult, ChangeOption
<1>5. /\ \A t \in Threads : /\ todo'[t].insert \subseteq todo[t].insert
                            /\ todo'[t].spawn \subseteq todo[t].spawn
                            /\ todo'[t].cancel = todo[t].cancel
  <2>1. todo[c].place # {} => todo[c].cancel = {}
    BY <1>0 DEF RunInv, WorkInv, WorkOK
  <2>2. todo \in [Threads -> Pending]
    BY DEF TypeOK
  <2>3. CASE todo' = [todo EXCEPT ![c] = Idle] /\ todo[c].place # {}
    BY <1>0, <2>1, <2>2, <2>3 DEF Idle
  <2>4. CASE todo' = [todo EXCEPT ![c].place = {}] \/ todo' = [todo EXCEPT ![c].dequeue = TRUE]
    BY <1>0, <2>2, <2>4 DEF Pending
  <2> QED BY <1>4, <2>3, <2>4
<1>6. InsertsGoOn
  BY <1>5 DEF InsertsGoOn
<1>7. CondemnedGrows
  <2>1. Condemned' = Condemned
    BY <1>4, <1>5 DEF Condemned
  <2> QED BY <2>1 DEF CondemnedGrows
<1> QED BY <1>0, <1>2, <1>3, <1>4, <1>5, <1>6, <1>7, RunsUnchanged, QuietStep

LEMMA QuietRemove ==
    ASSUME TypeOK, TypeOK', TokenInv', RunInv, NEW c \in Clients, NEW g \in Gids, Remove(c, g)
    PROVE  RunInv' /\ CompleteStays
<1>0. c \in Threads /\ todo[c] \in Pending /\ \A h \in Gids : states[h] \in Download
  BY DEF Threads, TypeOK
<1>1. /\ \A h \in Gids : h # g => states'[h] = states[h]
      /\ states'[g].status = "removed" /\ states'[g].gen = states[g].gen
      /\ states[g].status \in Queued \cup {"active"}
  BY <1>0 DEF Remove, TypeOK, Download
<1>2. /\ nextGid' = nextGid /\ runs' = runs
      /\ cancelled' = cancelled \cup {<<g, states[g].token>>}
      /\ \A u \in Threads : /\ todo'[u].insert = todo[u].insert
                            /\ todo'[u].spawn = todo[u].spawn
                            /\ todo'[u].cancel = todo[u].cancel
  BY <1>0 DEF Remove, TypeOK, Pending
<1>3. InsertsGoOn
  BY <1>2 DEF InsertsGoOn
<1>4. CondemnedGrows /\ <<g, states[g].token>> \in Condemned'
  <2> DEFINE C == {<<g, states[g].token>>}
  <2>1. \A k \in C : states[k[1]].status # "complete"
    BY <1>1 DEF Queued
  <2> HIDE DEF C
  <2>2. cancelled' = cancelled \cup C
    BY <1>2 DEF C
  <2>3. CondemnedGrows
    BY <1>0, <1>2, <2>1, <2>2, CondemnedKept
  <2> QED BY <1>2, <2>3 DEF Condemned
<1>5. StatesGoOn
  BY <1>1, <1>4 DEF StatesGoOn, StateStep, GivenUp, Queued
<1>6. WorkInv'
  BY CallWork DEF RunInv, Call
<1> QED BY <1>0, <1>2, <1>3, <1>4, <1>5, <1>6, RunsUnchanged, QuietStep

LEMMA QuietPauses ==
    ASSUME TypeOK, TypeOK', TokenInv', RunInv, NEW c \in Clients,
           PauseAll(c) \/ \E g \in Gids : Pause(c, g)
    PROVE  RunInv' /\ CompleteStays
<1>0. c \in Threads /\ todo \in [Threads -> Pending] /\ \A h \in Gids : states[h] \in Download
  BY DEF Threads, TypeOK
<1>1. \A h \in Gids : Pausing(states[h]).gen = states[h].gen
  BY <1>0, PausingFields
\* Both calls pause a set of downloads that wait or are active.
<1>2. PICK paused \in SUBSET Gids :
        /\ \A h \in paused : states[h].status \in {"waiting", "active"}
        /\ \A h \in paused : states'[h].status = "paused" /\ states'[h].gen = states[h].gen
        /\ \A h \in Gids \ paused : /\ states'[h].token = states[h].token
                                    /\ states'[h].status = states[h].status
                                    /\ states'[h].gen = states[h].gen
        /\ \E N : todo' = [todo EXCEPT ![c].cancel = OldTokens(paused), ![c].notify = N]
  <2>1. CASE PauseAll(c)
    <3> DEFINE paused == With({"waiting", "active"})
    <3>1. /\ paused \in SUBSET Gids /\ \A h \in paused : states[h].status \in {"waiting", "active"}
          /\ \A h \in paused : states'[h] = Pausing(states[h])
          /\ \A h \in Gids \ paused : states'[h] = states[h]
          /\ \E N : todo' = [todo EXCEPT ![c].cancel = OldTokens(paused), ![c].notify = N]
      BY <2>1 DEF PauseAll, With
    <3>2. \A h \in paused : states'[h].status = "paused" /\ states'[h].gen = states[h].gen
      BY <1>0, <3>1, PausingFields
    <3> HIDE DEF paused
    <3> QED BY <3>1, <3>2
  <2>2. ASSUME NEW g \in Gids, Pause(c, g)
        PROVE  /\ states[g].status \in {"waiting", "active"}
               /\ states'[g].status = "paused" /\ states'[g].gen = states[g].gen
               /\ \A h \in Gids \ {g} : /\ states'[h].token = states[h].token
                                        /\ states'[h].status = states[h].status
                                        /\ states'[h].gen = states[h].gen
               /\ \E N : todo' = [todo EXCEPT ![c].cancel = OldTokens({g}), ![c].notify = N]
    <3> DEFINE p == Pausing(states[g])
    <3>1. states'[g] = [p EXCEPT !.pos = 0]
      BY <2>2 DEF Pause
    <3>2. p \in Download /\ p.status = "paused" /\ p.gen = states[g].gen
      BY <1>0, CallUpdates, PausingFields
    <3> HIDE DEF p
    <3>3. states'[g].status = "paused" /\ states'[g].gen = states[g].gen
      BY <3>1, <3>2 DEF Download
    <3>4. \A h \in Gids \ {g} : /\ states'[h].token = states[h].token
                                /\ states'[h].status = states[h].status
                                /\ states'[h].gen = states[h].gen
      BY <1>0, <2>2 DEF Pause, Download
    <3> QED BY <2>2, <3>3, <3>4 DEF Pause
  <2>3. ASSUME NEW g \in Gids, Pause(c, g)
        PROVE  \E paused \in SUBSET Gids :
                 /\ \A h \in paused : states[h].status \in {"waiting", "active"}
                 /\ \A h \in paused : states'[h].status = "paused" /\ states'[h].gen = states[h].gen
                 /\ \A h \in Gids \ paused : /\ states'[h].token = states[h].token
                                             /\ states'[h].status = states[h].status
                                             /\ states'[h].gen = states[h].gen
                 /\ \E N : todo' = [todo EXCEPT ![c].cancel = OldTokens(paused), ![c].notify = N]
    <3> WITNESS {g} \in SUBSET Gids
    <3> QED BY <2>2, <2>3
  <2> QED BY <2>1, <2>3
<1>3. nextGid' = nextGid /\ cancelled' = cancelled /\ runs' = runs /\ todo[c] = Idle
  BY DEF PauseAll, Pause, Calling
<1>4. /\ \A u \in Threads : /\ todo'[u].insert = todo[u].insert
                            /\ todo'[u].spawn = todo[u].spawn
                            /\ u # c => todo'[u].cancel = todo[u].cancel
      /\ todo'[c].cancel = OldTokens(paused) /\ todo[c].cancel = {}
  <2>1. PICK N : todo' = [todo EXCEPT ![c].cancel = OldTokens(paused), ![c].notify = N]
    BY <1>2
  <2> DEFINE C == OldTokens(paused)
  <2>2. todo' = [todo EXCEPT ![c].cancel = C, ![c].notify = N]
    BY <2>1
  <2> HIDE DEF C
  <2>3. /\ \A u \in Threads : /\ todo'[u].insert = todo[u].insert
                              /\ todo'[u].spawn = todo[u].spawn
                              /\ u # c => todo'[u].cancel = todo[u].cancel
        /\ todo'[c].cancel = C
    BY <1>0, <2>2 DEF Pending
  <2> QED BY <1>3, <2>3 DEF Idle, C
<1>5. InsertsGoOn
  BY <1>4 DEF InsertsGoOn
<1>6. CondemnedGrows /\ \A h \in paused : GivenUp(h)
  <2>1. \A k \in OldTokens(paused) : states[k[1]].status # "complete"
    BY <1>2 DEF OldTokens, With
  <2>2. CondemnedGrows
    <3> DEFINE C == OldTokens(paused)
    <3>1. todo'[c].cancel = C /\ \A k \in C : states[k[1]].status # "complete"
      BY <1>4, <2>1
    <3> HIDE DEF C
    <3>2. /\ \A u \in Threads : u # c => todo'[u].cancel = todo[u].cancel
          /\ cancelled \subseteq cancelled' /\ cancelled' \subseteq cancelled \cup todo[c].cancel \cup C
          /\ todo[c].cancel \subseteq todo'[c].cancel \cup cancelled'
          /\ todo'[c].cancel \subseteq todo[c].cancel \cup C
      BY <1>3, <1>4, <3>1
    <3> QED BY <1>0, <3>1, <3>2, CondemnedKept
  <2>3. \A h \in paused : states[h].status = "active" => <<h, states[h].token>> \in OldTokens(paused)
    BY DEF OldTokens, With
  <2> QED BY <1>0, <1>4, <2>2, <2>3 DEF GivenUp, Condemned
<1>7. StatesGoOn
  BY <1>2, <1>6 DEF StatesGoOn, StateStep, Queued
<1>8. WorkInv'
  BY CallWork DEF RunInv, Call
<1>9. \A u \in Threads : todo'[u].spawn \subseteq todo[u].spawn
  BY <1>4
<1> QED BY <1>0, <1>3, <1>5, <1>6, <1>7, <1>8, <1>9, RunsUnchanged, QuietStep

LEMMA QuietUnlock ==
    ASSUME TypeOK, TypeOK', TokenInv', RunInv, NEW t \in Threads,
           CancelToken(t) \/ SendLifecycle(t)
    PROVE  RunInv' /\ CompleteStays
<1>0. todo \in [Threads -> Pending] /\ todo[t] \in Pending
  BY DEF TypeOK
<1>1. /\ nextGid' = nextGid /\ runs' = runs /\ states' = states
      /\ \A u \in Threads : /\ todo'[u].insert = todo[u].insert
                            /\ todo'[u].spawn = todo[u].spawn
                            /\ u # t => todo'[u].cancel = todo[u].cancel
      /\ todo[t].cancel \subseteq todo'[t].cancel \cup cancelled'
      /\ todo'[t].cancel \subseteq todo[t].cancel
      /\ cancelled \subseteq cancelled' /\ cancelled' \subseteq cancelled \cup todo[t].cancel
  <2>1. CASE CancelToken(t)
    BY <1>0, <2>1 DEF CancelToken, Pending
  <2>2. CASE SendLifecycle(t)
    BY <1>0, <2>2 DEF SendLifecycle, Pending
  <2> QED BY <2>1, <2>2
<1>2. CondemnedGrows
  <2> DEFINE C == {}
  <2>1. \A k \in C : states[k[1]].status # "complete"
    OBVIOUS
  <2> HIDE DEF C
  <2> QED BY <1>1, <2>1, CondemnedKept
<1>3. InsertsGoOn /\ StatesGoOn
  BY <1>1 DEF InsertsGoOn, StatesGoOn, StateStep
<1>4. WorkInv'
  BY AfterUnlockWork DEF RunInv, AfterUnlock
<1> QED BY <1>1, <1>2, <1>3, <1>4, RunsUnchanged, QuietStep

\* A download that is in the map was inserted.
LEMMA PresentIsTouched ==
    ASSUME TypeOK, TokenInv, NEW g \in Gids, states[g].status # "absent"
    PROVE  Touched(g)
<1>1. g \in Nat /\ nextGid \in Nat
  BY BoundsAssumption DEF TypeOK, Gids
<1> QED BY <1>1 DEF Touched, TokenInv, InsertedIsFresh, GidsAreFresh

\* Restarting an active download: a new token and generation, the old token condemned.
LEMMA StartChangeOption ==
    ASSUME TypeOK, TypeOK', TokenInv, TokenInv', RunInv,
           NEW c \in Clients, NEW g \in Gids, ChangeOption(c, g)
    PROVE  RunInv' /\ CompleteStays
<1>0. c \in Threads /\ todo \in [Threads -> Pending] /\ todo'[c] \in Pending
      /\ \A h \in Gids : states[h] \in Download
  BY DEF Threads, TypeOK
<1>1. CASE UNCHANGED todo
  BY <1>1, QuietQueueCalls
<1>2. CASE ~UNCHANGED todo
  <2> DEFINE new == [states[g] EXCEPT !.job = @ + 1, !.token = @ + 1, !.gen = @ + 1, !.partial = FALSE]
             N == {StartOf(g, new)}
             C == {<<g, states[g].token>>}
  <2>1. /\ states[g].status = "active" /\ todo[c] = Idle
        /\ states' = [states EXCEPT ![g] = new]
        /\ todo' = [todo EXCEPT ![c].cancel = C, ![c].spawn = N]
        /\ nextGid' = nextGid /\ cancelled' = cancelled /\ runs' = runs
    BY <1>2 DEF ChangeOption, Calling
  <2>2. /\ new.token = states[g].token + 1 /\ new.status = "active"
        /\ new.gen = states[g].gen + 1
        /\ states[g].gen \in Nat
    BY <1>0, <2>1, BoundsAssumption DEF Download
  <2>3. \A sp \in N : sp.gid = g /\ sp.gen = new.gen /\ sp.token = new.token
    BY DEF StartOf
  <2>4. \A sp, sq \in N : sq = sp
    OBVIOUS
  <2>5. \A k \in C : states[k[1]].status # "complete"
    BY <2>1
  <2>6. <<g, states[g].token>> \in C
    OBVIOUS
  <2> HIDE DEF new, N, C
  <2>7. /\ states'[g] = new /\ \A h \in Gids : h # g => states'[h] = states[h]
    BY <2>1 DEF TypeOK
  <2>8. /\ \A u \in Threads : /\ todo'[u].insert = todo[u].insert
                              /\ u # c => todo'[u].spawn = todo[u].spawn
                              /\ u # c => todo'[u].cancel = todo[u].cancel
        /\ todo'[c].spawn = N /\ todo'[c].cancel = C /\ todo[c].cancel = {}
    <3>1. /\ \A u \in Threads : /\ todo'[u].insert = todo[u].insert
                                /\ u # c => todo'[u] = todo[u]
          /\ todo'[c].spawn = N /\ todo'[c].cancel = C
      BY <1>0, <2>1 DEF Pending
    <3>2. todo[c].cancel = {}
      BY <2>1 DEF Idle
    <3> QED BY <3>1, <3>2
  <2>9. N \in SUBSET QueuedStart
    BY <1>0, <2>8 DEF Pending
  <2>10. CondemnedGrows /\ <<g, states[g].token>> \in Condemned'
    <3>1. CondemnedGrows
      BY <1>0, <2>1, <2>5, <2>8, CondemnedKept
    <3> QED BY <1>0, <2>6, <2>8, <3>1 DEF Condemned
  <2>11. Touched(g)'
    <3>1. Touched(g)
      BY <2>1, PresentIsTouched
    <3> QED BY <2>1, <2>8, <3>1 DEF Touched
  <2>12. \A sp \in N : NewStart(sp)
    BY <2>1, <2>2, <2>3, <2>7, <2>11 DEF NewStart
  <2>13. \A h \in Gids : StateStep(h) /\ (states[h].status = "absent" => states'[h].status = "absent")
    BY <2>1, <2>2, <2>7, <2>10 DEF StateStep, GivenUp
  <2>14. WorkInv' /\ InsertsGoOn
    BY <2>8, CallWork DEF RunInv, Call, InsertsGoOn
  <2>15. /\ \A sp \in N : NewStart(sp) /\ \A sq \in N : sq.gid = sp.gid => sq = sp
         /\ \A u \in Threads : u # c => todo'[u].spawn \subseteq todo[u].spawn
         /\ todo'[c].spawn \subseteq todo[c].spawn \cup N
    BY <2>4, <2>8, <2>12
  <2> QED BY <1>0, <2>1, <2>9, <2>10, <2>13, <2>14, <2>15, RunsUnchanged, StartStep
<1> QED BY <1>1, <1>2

\* Inserting: with the queue off the download is started at once, as its first run.
LEMMA StartInsert ==
    ASSUME TypeOK, TypeOK', TokenInv, TokenInv', RunInv, NEW c \in Clients, InsertState(c)
    PROVE  RunInv' /\ CompleteStays
<1>1. PICK req \in todo[c].insert, gone \in Prunable(states, MaxRetained - 1) :
        InsertState(c)!(req, gone)
  BY DEF InsertState
<1>2. c \in Threads /\ todo[c] \in Pending /\ todo'[c] \in Pending /\ todo \in [Threads -> Pending]
  BY DEF Threads, TypeOK
<1>3. /\ UNCHANGED <<nextGid, cancelled, runs>>
      /\ \/ /\ states' = Forget(states, gone)
            /\ todo' = [todo EXCEPT ![c] = Idle]
         \/ /\ states' = [Forget(states, gone) EXCEPT ![req.gid] = NewDownload(req)]
            /\ todo' = [todo EXCEPT ![c] = AfterInsert(req)]
  BY <1>1
<1>4. /\ todo'[c] \in {Idle, AfterInsert(req)}
      /\ \A u \in Threads : u # c => todo'[u] = todo[u]
  BY <1>2, <1>3
<1>5. /\ todo'[c].insert = {} /\ todo'[c].cancel = {} /\ todo[c].cancel = {}
      /\ Idle.spawn = {}
  <2>1. Idle.insert = {} /\ Idle.cancel = {} /\ Idle.spawn = {}
    BY DEF Idle
  <2>4. AfterInsert(req).insert = {} /\ AfterInsert(req).cancel = {}
    BY DEF Idle, AfterInsert
  <2>2. WorkOK(todo[c]) /\ todo[c].insert # {}
    BY <1>2 DEF RunInv, WorkInv
  <2>3. todo[c].cancel = {}
    BY <2>2 DEF WorkOK
  <2> QED BY <1>4, <2>1, <2>3, <2>4
<1>6. /\ req.gid \in Gids /\ req.gid < nextGid /\ states[req.gid].status = "absent"
      /\ ~Touched(req.gid)
      /\ \A u \in Threads : \A q \in todo[u].insert : q.gid = req.gid => u = c
  BY <1>2 DEF TokenInv, InsertedIsFresh, Pending, AddRequest, Touched
<1>7. Touched(req.gid)'
  BY <1>3, <1>4, <1>5, <1>6 DEF Touched
<1>8. /\ \A g \in Gids : g # req.gid => states'[g] = states[g] \/ states'[g].status = "absent"
      /\ states' # Forget(states, gone) => states'[req.gid] = NewDownload(req)
  <2>1. \A g \in Gids : \/ Forget(states, gone)[g] = states[g]
                        \/ Forget(states, gone)[g].status = "absent"
    BY DEF Forget, Absent
  <2>2. Forget(states, gone) = [g \in Gids |-> Forget(states, gone)[g]]
    BY DEF Forget
  <2> QED BY <1>3, <1>6, <2>1, <2>2
<1>9. \A g \in Gids : \/ StateStep(g) /\ (states[g].status = "absent" => states'[g].status = "absent")
                      \/ ~Touched(g) /\ states[g].status = "absent"
  BY <1>6, <1>8 DEF StateStep
<1> DEFINE N == IF todo'[c] = Idle THEN {} ELSE todo'[c].spawn
<1>10. \A sp \in N : NewStart(sp) /\ \A sq \in N : sq.gid = sp.gid => sq = sp
  <2>1. CASE todo'[c] = Idle
    BY <2>1
  <2>2. CASE todo'[c] # Idle
    <3>1. todo'[c] = AfterInsert(req) /\ states' = [Forget(states, gone) EXCEPT ![req.gid] = NewDownload(req)]
      BY <1>2, <1>3, <2>2
    <3>2. states'[req.gid] = NewDownload(req)
      BY <1>6, <3>1 DEF Forget
    <3>3. N \subseteq IF NewStatus = "active" THEN {StartOf(req.gid, NewDownload(req))} ELSE {}
      BY <2>2, <3>1 DEF AfterInsert, Idle
    <3>4. ASSUME NEW sp \in N PROVE NewStart(sp)
      <4>1. sp = StartOf(req.gid, NewDownload(req)) /\ NewStatus = "active"
        BY <3>3
      <4>2. /\ sp.gid = req.gid /\ sp.gen = NewDownload(req).gen /\ sp.token = NewDownload(req).token
            /\ NewDownload(req).status = "active"
        BY <4>1 DEF StartOf, NewDownload
      <4> QED BY <1>6, <1>7, <3>2, <4>2 DEF NewStart
    <3> HIDE DEF N
    <3> QED BY <3>3, <3>4
  <2> QED BY <2>1, <2>2
<1>11. /\ N \in SUBSET QueuedStart
       /\ todo'[c].spawn \subseteq todo[c].spawn \cup N
       /\ \A u \in Threads : u # c => todo'[u].spawn \subseteq todo[u].spawn
  BY <1>2, <1>4, <1>5 DEF Pending
<1> HIDE DEF N
<1>12. InsertsGoOn
  BY <1>4, <1>5 DEF InsertsGoOn
<1>13. CondemnedGrows
  <2>1. \A u \in Threads : todo'[u].cancel = todo[u].cancel
    BY <1>4, <1>5
  <2>2. Condemned' = Condemned
    BY <1>3, <2>1 DEF Condemned
  <2> QED BY <2>2 DEF CondemnedGrows
<1>14. WorkInv'
  BY CallWork DEF RunInv
<1>15. nextGid' \in {nextGid, nextGid + 1} /\ RunsGoOn
  BY <1>3, RunsUnchanged
<1> QED BY <1>2, <1>9, <1>10, <1>11, <1>12, <1>13, <1>14, <1>15, StartStep

\* start_waiting_downloads: every chosen download gets its next run.
LEMMA StartDequeue ==
    ASSUME TypeOK, TypeOK', TokenInv, TokenInv', RunInv, NEW t \in Threads, DequeueWaiting(t)
    PROVE  RunInv' /\ CompleteStays
<1>0. todo \in [Threads -> Pending] /\ todo[t] \in Pending /\ todo'[t] \in Pending
      /\ \A h \in Gids : states[h] \in Download
  BY DEF TypeOK
<1> DEFINE N == {StartOf(g, Started[g]) : g \in Chosen}
<1>1. /\ states' = Started /\ UNCHANGED <<nextGid, cancelled, runs>>
      /\ todo' = [todo EXCEPT ![t].dequeue = FALSE, ![t].spawn = N]
  BY DEF DequeueWaiting
<1>2. Chosen \subseteq Gids /\ \A g \in Chosen : states[g].status = "waiting"
  BY DEF Chosen, With
<1>3. \A g \in Gids : IF g \in Chosen
                      THEN /\ states'[g].status = "active" /\ states'[g].gen = states[g].gen + 1
                      ELSE states'[g] = states[g]
  BY <1>0, <1>1, <1>2 DEF Started, Download
<1>4. \A sp \in N : \E g \in Chosen : sp = StartOf(g, states'[g])
  BY <1>1
<1> HIDE DEF N
<1>5. /\ \A u \in Threads : /\ todo'[u].insert = todo[u].insert
                            /\ todo'[u].cancel = todo[u].cancel
                            /\ u # t => todo'[u].spawn = todo[u].spawn
      /\ todo'[t].spawn = N
  BY <1>0, <1>1 DEF Pending
<1>6. \A sp \in N : NewStart(sp) /\ \A sq \in N : sq.gid = sp.gid => sq = sp
  <2> SUFFICES ASSUME NEW sp \in N PROVE NewStart(sp) /\ \A sq \in N : sq.gid = sp.gid => sq = sp
    OBVIOUS
  <2>1. PICK g \in Chosen : sp = StartOf(g, states'[g])
    BY <1>4
  <2>2. sp.gid = g /\ sp.gen = states'[g].gen /\ sp.token = states'[g].token
    BY <2>1 DEF StartOf
  <2>3. Touched(g)'
    <3>1. Touched(g)
      BY <1>2, PresentIsTouched
    <3> QED BY <1>1, <1>5, <3>1 DEF Touched
  <2>4. states[g].gen \in Nat
    BY <1>0, <1>2, BoundsAssumption DEF Download
  <2>5. NewStart(sp)
    BY <1>2, <1>3, <2>2, <2>3, <2>4 DEF NewStart
  <2>6. ASSUME NEW sq \in N, sq.gid = sp.gid PROVE sq = sp
    <3>1. PICK h \in Chosen : sq = StartOf(h, states'[h])
      BY <1>4
    <3>2. h = g
      BY <2>2, <2>6, <3>1 DEF StartOf
    <3> QED BY <2>1, <3>1, <3>2
  <2> QED BY <2>5, <2>6
<1>7. \A g \in Gids : StateStep(g) /\ (states[g].status = "absent" => states'[g].status = "absent")
  BY <1>2, <1>3 DEF StateStep, GivenUp, Queued
<1>8. InsertsGoOn
  BY <1>5 DEF InsertsGoOn
<1>9. CondemnedGrows
  <2>1. Condemned' = Condemned
    BY <1>1, <1>5 DEF Condemned
  <2> QED BY <2>1 DEF CondemnedGrows
<1>10. /\ N \in SUBSET QueuedStart
       /\ todo'[t].spawn \subseteq todo[t].spawn \cup N
       /\ \A u \in Threads : u # t => todo'[u].spawn \subseteq todo[u].spawn
  BY <1>0, <1>5 DEF Pending
<1>11. WorkInv'
  BY AfterUnlockWork DEF RunInv, AfterUnlock
<1> QED BY <1>1, <1>6, <1>7, <1>8, <1>9, <1>10, <1>11, RunsUnchanged, StartStep

\* spawn_download: an owed start becomes a run.
LEMMA RunSpawned ==
    ASSUME TypeOK, TypeOK', RunInv, NEW t \in Threads, SpawnDownload(t)
    PROVE  RunInv' /\ CompleteStays
<1>0. todo \in [Threads -> Pending] /\ todo[t] \in Pending /\ runs \in [RunIds -> Run]
      /\ \A u \in Threads : \A sq \in todo[u].spawn : /\ sq.gid \in Gids /\ sq.gen \in 1..MaxGen
                                                     /\ <<sq.gid, sq.gen>> \in RunIds
  BY DEF TypeOK, Pending, QueuedStart, RunIds
<1>1. PICK sp \in todo[t].spawn :
        /\ runs' = [runs EXCEPT ![<<sp.gid, sp.gen>>] =
                      [phase |-> "starting", token |-> sp.token, job |-> sp.job]]
        /\ todo' = [todo EXCEPT ![t].spawn = @ \ {sp}]
        /\ UNCHANGED <<states, nextGid, cancelled>>
  BY DEF SpawnDownload
<1> DEFINE r0 == <<sp.gid, sp.gen>>
<1>2. /\ \A u \in Threads : /\ todo'[u].insert = todo[u].insert
                            /\ todo'[u].cancel = todo[u].cancel
                            /\ todo'[u].spawn \subseteq todo[u].spawn
      /\ todo'[t].spawn = todo[t].spawn \ {sp}
  BY <1>0, <1>1 DEF Pending
<1>3. /\ r0 \in RunIds /\ runs'[r0].phase = "starting" /\ runs'[r0].token = sp.token
      /\ \A r \in RunIds : r # r0 => runs'[r] = runs[r]
  BY <1>0, <1>1
<1>4. Condemned' = Condemned
  BY <1>1, <1>2 DEF Condemned
<1>5. \A g \in Gids, n \in Nat : Begun(g, n)' <=> Begun(g, n)
  BY <1>1, <1>2 DEF Begun, Touched
<1>6. \A g \in Gids, n \in 1..MaxGen, token \in Nat : Held(g, n, token)' <=> Held(g, n, token)
  BY <1>1, <1>4 DEF Held
<1>7. BegunInv'
  <2> SUFFICES ASSUME NEW r \in RunIds, runs'[r].phase # "none" PROVE Begun(r[1], r[2])'
    BY DEF BegunInv
  <2>1. r[1] \in Gids /\ r[2] \in Nat
    BY BoundsAssumption DEF RunIds
  <2>2. CASE r = r0
    BY <1>5, <2>1, <2>2 DEF RunInv, SpawnInv
  <2>3. CASE r # r0
    BY <1>3, <1>5, <2>1, <2>3 DEF RunInv, BegunInv
  <2> QED BY <2>2, <2>3
<1>8. HeldInv'
  <2> SUFFICES ASSUME NEW g \in Gids, NEW n \in 1..MaxGen, NEW token \in Nat, Recorded(g, n, token)'
               PROVE  Recorded(g, n, token)
    BY <1>6 DEF RunInv, HeldInv
  <2>1. CASE OwedRun(g, n, token)'
    BY <1>2, <2>1 DEF OwedRun, Recorded
  <2>2. CASE SpawnedRun(g, n, token)' /\ <<g, n>> # r0
    <3>1. <<g, n>> \in RunIds
      BY DEF RunIds
    <3> QED BY <1>3, <2>2, <3>1 DEF SpawnedRun, Recorded
  <2>3. CASE SpawnedRun(g, n, token)' /\ <<g, n>> = r0
    <3>1. sp.gid = g /\ sp.gen = n /\ sp.token = token
      BY <1>3, <2>3 DEF SpawnedRun
    <3> QED BY <3>1 DEF OwedRun, Recorded
  <2> QED BY <2>1, <2>2, <2>3 DEF Recorded
<1>9. SpawnInv'
  <2> SUFFICES ASSUME NEW u \in Threads, NEW sq \in todo'[u].spawn
               PROVE  /\ runs'[<<sq.gid, sq.gen>>].phase = "none" /\ Begun(sq.gid, sq.gen)'
                      /\ \A v \in Threads : \A s \in todo'[v].spawn :
                           s.gid = sq.gid /\ s.gen = sq.gen => v = u /\ s = sq
    BY DEF SpawnInv
  <2>0. sq \in todo[u].spawn /\ (u = t => sq # sp)
    BY <1>2
  <2>1. sq.gid \in Gids /\ sq.gen \in Nat
    <3>1. sq.gid \in Gids /\ sq.gen \in 1..MaxGen
      BY <1>0, <2>0
    <3> QED BY <3>1
  <2>2. /\ runs[<<sq.gid, sq.gen>>].phase = "none" /\ Begun(sq.gid, sq.gen)
        /\ \A v \in Threads : \A s \in todo[v].spawn :
             s.gid = sq.gid /\ s.gen = sq.gen => v = u /\ s = sq
    BY <2>0 DEF RunInv, SpawnInv
  <2>3. runs'[<<sq.gid, sq.gen>>].phase = "none"
    <3>1. <<sq.gid, sq.gen>> # r0
      BY <2>0, <2>2
    <3> QED BY <1>0, <1>3, <2>0, <2>2, <3>1
  <2>4. Begun(sq.gid, sq.gen)'
    BY <1>5, <2>1, <2>2
  <2>5. \A v \in Threads : \A s \in todo'[v].spawn :
           s.gid = sq.gid /\ s.gen = sq.gen => v = u /\ s = sq
    BY <1>2, <2>2
  <2> QED BY <2>3, <2>4, <2>5
<1>10. WorkInv'
  BY AfterUnlockWork DEF RunInv, AfterUnlock
<1>11. CompleteStays
  BY <1>1 DEF CompleteStays
<1> QED BY <1>7, <1>8, <1>9, <1>10, <1>11 DEF RunInv

\* The session of a run begins, or its last event completes the download.
LEMMA RunSession ==
    ASSUME TypeOK, TypeOK', TokenInv', RunInv, NEW r \in RunIds, BeginSession(r) \/ ReportFinished(r)
    PROVE  RunInv' /\ CompleteStays
<1>0. /\ r \in Threads /\ r[1] \in Gids /\ runs \in [RunIds -> Run]
      /\ states \in [Gids -> Download]
  BY DEF Threads, RunIds, TypeOK
<1>1. /\ UNCHANGED <<nextGid, cancelled, todo>>
      /\ runs[r].phase \in {"starting", "working"}
      /\ runs' \in {[runs EXCEPT ![r].phase = "working"], [runs EXCEPT ![r].phase = "reported"]}
      /\ \/ states' = states
         \/ /\ states[r[1]].status = "active"
            /\ states' = [states EXCEPT ![r[1]].status = "complete"]
  BY DEF BeginSession, ReportFinished
<1>2. /\ \A s \in RunIds : s # r => runs'[s] = runs[s]
      /\ runs'[r].phase \in {"working", "reported"} /\ runs'[r].token = runs[r].token
  BY <1>0, <1>1 DEF Run
<1>3. RunsGoOn
  BY <1>1, <1>2 DEF RunsGoOn, Working
<1>4. Condemned' = Condemned
  BY <1>1 DEF Condemned
<1>5. StatesGoOn
  BY <1>0, <1>1, <1>4 DEF StatesGoOn, StateStep, Download
<1>6. WorkInv'
  BY <1>0, <1>1, <1>2 DEF RunInv, WorkInv, WorkOK, RunOK
<1>7. CondemnedGrows /\ InsertsGoOn
  BY <1>1, <1>4 DEF CondemnedGrows, InsertsGoOn
<1>8. \A u \in Threads : todo'[u].spawn \subseteq todo[u].spawn
  BY <1>1
<1> QED BY <1>0, <1>1, <1>3, <1>5, <1>6, <1>7, <1>8, QuietStep

\* finish_download: the run is over, so that what its download was to it no longer
\* matters; the other runs of the download are of other generations.
LEMMA RunFinishes ==
    ASSUME TypeOK, TypeOK', TokenInv', RunInv, NEW r \in RunIds, NEW status, NEW notes,
           runs[r].phase \in {"starting", "working", "reported"}, FinishDownload(r, status, notes)
    PROVE  RunInv'
<1>0. /\ r \in Threads /\ r[1] \in Gids /\ r[2] \in 1..MaxGen /\ r = <<r[1], r[2]>>
      /\ runs \in [RunIds -> Run] /\ todo \in [Threads -> Pending] /\ states \in [Gids -> Download]
  BY DEF Threads, RunIds, TypeOK
<1>1. /\ UNCHANGED <<nextGid, cancelled>>
      /\ runs' = [runs EXCEPT ![r] = Ended]
      /\ \/ UNCHANGED todo
         \/ \E n : todo' = [todo EXCEPT ![r] = [Idle EXCEPT !.notify = n, !.dequeue = TRUE]]
  BY DEF FinishDownload
<1>2. /\ \A s \in RunIds : s # r => runs'[s] = runs[s]
      /\ runs'[r].phase = "done"
  BY <1>0, <1>1 DEF Ended
<1>3. /\ \A u \in Threads : u # r => todo'[u] = todo[u]
      /\ \/ todo'[r] = todo[r]
         \/ \E n : todo'[r] = [Idle EXCEPT !.notify = n, !.dequeue = TRUE]
  BY <1>0, <1>1
<1>4. todo[r].cancel = {} /\ todo[r].insert = {} /\ todo[r].place = {}
  BY DEF RunInv, WorkInv, RunOK
<1>5. /\ todo'[r].cancel = {} /\ todo'[r].insert = {} /\ todo'[r].place = {}
      /\ todo'[r].spawn \subseteq todo[r].spawn
      /\ WorkOK(todo'[r])
  <2>1. \A n : LET w == [Idle EXCEPT !.notify = n, !.dequeue = TRUE]
               IN  w.cancel = {} /\ w.insert = {} /\ w.place = {} /\ w.spawn = {}
    BY DEF Idle
  <2>2. WorkOK(todo[r])
    BY <1>0 DEF RunInv, WorkInv
  <2>3. CASE todo'[r] = todo[r]
    BY <1>4, <2>2, <2>3
  <2>4. CASE \E n : todo'[r] = [Idle EXCEPT !.notify = n, !.dequeue = TRUE]
    <3>1. todo'[r].cancel = {} /\ todo'[r].insert = {} /\ todo'[r].place = {} /\ todo'[r].spawn = {}
      BY <2>1, <2>4
    <3> QED BY <3>1 DEF WorkOK
  <2> QED BY <1>3, <2>3, <2>4
<1>6. WorkInv'
  <2>1. RunOK(r, todo[r])'
    BY <1>2, <1>5 DEF RunOK
  <2>2. \A s \in RunIds : s # r /\ runs'[s].phase # "done" => runs[s].phase # "done"
    BY <1>2
  <2> QED BY <1>0, <1>3, <1>5, <2>1, <2>2, WorkStep DEF RunInv
<1>7. RunsGoOn
  BY <1>2 DEF RunsGoOn, Working
<1>8. /\ \A u \in Threads : todo'[u].spawn \subseteq todo[u].spawn
      /\ \A u \in Threads : /\ todo'[u].insert = todo[u].insert
                            /\ todo'[u].cancel = todo[u].cancel
  BY <1>3, <1>4, <1>5
<1>9. Condemned' = Condemned
  <2>1. cancelled' = cancelled /\ \A u \in Threads : todo'[u].cancel = todo[u].cancel
    BY <1>1, <1>8
  <2> QED BY <2>1 DEF Condemned
<1>10. InsertsGoOn /\ CondemnedGrows
  BY <1>8, <1>9 DEF InsertsGoOn, CondemnedGrows
<1>11. CASE UNCHANGED states
  <2>1. StatesGoOn
    BY <1>11 DEF StatesGoOn, StateStep
  <2> QED BY <1>0, <1>1, <1>6, <1>7, <1>8, <1>10, <2>1, QuietStep
<1>12. CASE ~UNCHANGED states
  <2> DEFINE ended == [states EXCEPT ![r[1]].status = status]
  <2>1. /\ states[r[1]].status # "absent" /\ states[r[1]].gen = r[2]
        /\ \E gone : states' = Forget(ended, gone)
    BY <1>12 DEF FinishDownload
  <2>2. ended[r[1]].gen = states[r[1]].gen /\ \A g \in Gids : g # r[1] => ended[g] = states[g]
    BY <1>0 DEF Download
  <2> HIDE DEF ended
  <2>3. \A g \in Gids : states'[g] = ended[g] \/ states'[g].status = "absent"
    BY <2>1 DEF Forget, Absent
  <2>4. \A g \in Gids : states'[g].status # "absent" =>
          /\ states[g].status # "absent" /\ states'[g].gen = states[g].gen
          /\ g # r[1] => states'[g] = states[g]
    BY <2>1, <2>2, <2>3
  <2>5. ASSUME NEW g \in Gids, NEW n \in 1..MaxGen, NEW token \in Nat,
               Recorded(g, n, token)', Held(g, n, token), Begun(g, n)
        PROVE  Held(g, n, token)'
    <3>1. <<g, n>> # r
      <4>1. SUFFICES ASSUME <<g, n>> = r PROVE FALSE
        OBVIOUS
      <4>2. ~SpawnedRun(g, n, token)'
        BY <1>2, <4>1 DEF SpawnedRun, Working
      <4>3. PICK u \in Threads : \E sp \in todo'[u].spawn : sp.gid = g /\ sp.gen = n
        BY <2>5, <4>2 DEF Recorded, OwedRun
      <4>4. PICK sp \in todo[u].spawn : sp.gid = g /\ sp.gen = n
        BY <1>8, <4>3
      <4>5. runs[<<sp.gid, sp.gen>>].phase = "none"
        BY <4>4 DEF RunInv, SpawnInv
      <4> QED BY <4>1, <4>4, <4>5
    <3>2. \/ StateStep(g)
          \/ n # states[g].gen /\ states[g].status # "absent" /\ states'[g].gen = states[g].gen
      <4>1. CASE states'[g].status = "absent" \/ g # r[1]
        BY <2>4, <4>1 DEF StateStep
      <4>2. CASE states'[g].status # "absent" /\ g = r[1]
        BY <1>0, <2>1, <2>4, <3>1, <4>2
      <4> QED BY <4>1, <4>2
    <3> QED BY <1>9, <2>5, <3>2, HeldKept
  <2>6. \A g \in Gids, n \in 1..MaxGen, token \in Nat :
          (/\ Recorded(g, n, token) /\ Recorded(g, n, token)'
           /\ Held(g, n, token) /\ Begun(g, n)) => Held(g, n, token)'
    BY <2>5
  <2>7. GidsGoOn
    <3>1. ASSUME NEW g \in Gids, states'[g].status # "absent"
          PROVE  states[g].status # "absent" /\ states[g].gen <= states'[g].gen
      <4>1. states[g].gen \in Nat
        BY <1>0, BoundsAssumption DEF Download
      <4> QED BY <2>4, <3>1, <4>1
    <3> QED BY <1>1, <1>10, <3>1, GidsStep
  <2> DEFINE N == {}
  <2>8. N \in SUBSET QueuedStart /\ todo'[r].spawn \subseteq todo[r].spawn \cup N
    BY <1>5
  <2>9. \A sp \in N : NewStart(sp) /\ \A sq \in N : sq.gid = sp.gid => sq = sp
    OBVIOUS
  <2> HIDE DEF N
  <2> QED BY <1>0, <1>6, <1>7, <1>8, <2>6, <2>7, <2>8, <2>9, RunStep
<1> QED BY <1>11, <1>12

\* A run that is cancelled finds its download completed only as an earlier run.
LEMMA FinishKeepsComplete ==
    ASSUME TypeOK, RunInv, NEW r \in RunIds, Finish(r)
    PROVE  CompleteStays
<1>0. /\ r[1] \in Gids /\ r[2] \in 1..MaxGen /\ r = <<r[1], r[2]>>
      /\ runs[r].token \in Nat /\ states \in [Gids -> Download]
  BY DEF RunIds, TypeOK, Run
<1>1. ASSUME NEW status, NEW notes, FinishDownload(r, status, notes), NEW g \in Gids,
             states[g].status = "complete", states'[g].status = "removed"
      PROVE  g = r[1] /\ states[r[1]].gen = r[2] /\ status = "removed"
  <2> DEFINE ended == [states EXCEPT ![r[1]].status = status]
  <2>1. /\ states[r[1]].gen = r[2]
        /\ \E gone : states' = Forget(ended, gone)
    BY <1>1 DEF FinishDownload
  <2>2. ended[r[1]].status = status /\ (g # r[1] => ended[g] = states[g])
    BY <1>0 DEF Download
  <2> HIDE DEF ended
  <2>3. states'[g] = ended[g] \/ states'[g].status = "absent"
    BY <2>1 DEF Forget, Absent
  <2> QED BY <1>1, <2>1, <2>2, <2>3
<1>2. SUFFICES ASSUME NEW g \in Gids, states[g].status = "complete", states'[g].status = "removed"
               PROVE  FALSE
  BY DEF CompleteStays
<1>3. CASE FinishOk(r)
  BY <1>1, <1>2, <1>3 DEF FinishOk
<1>4. CASE FinishError(r)
  BY <1>1, <1>2, <1>4 DEF FinishError
<1>5. CASE FinishCancelled(r)
  <2>1. g = r[1] /\ states[g].gen = r[2]
    BY <1>1, <1>2, <1>5 DEF FinishCancelled
  <2>2. Recorded(g, r[2], runs[r].token)
    BY <1>0, <1>5, <2>1 DEF FinishCancelled, Recorded, SpawnedRun, Working
  <2>3. Held(g, r[2], runs[r].token)
    BY <1>0, <2>1, <2>2 DEF RunInv, HeldInv
  <2>4. <<g, runs[r].token>> \in Condemned
    BY <1>5, <2>1 DEF FinishCancelled, TokenOf, Condemned
  <2> QED BY <1>2, <2>1, <2>3, <2>4 DEF Held
<1> QED BY <1>3, <1>4, <1>5 DEF Finish

-----------------------------------------------------------------------------
(* The theorems.                                                           *)

LEMMA RunInit == Init => RunInv
<1> SUFFICES ASSUME Init PROVE RunInv
  OBVIOUS
<1>1. /\ \A r \in RunIds : runs[r].phase = "none"
      /\ \A t \in Threads : todo[t] = Idle
  BY DEF Init, NotSpawned
<1>2. WorkInv
  <2>1. /\ Idle.insert = {} /\ Idle.place = {} /\ Idle.cancel = {} /\ Idle.spawn = {}
        /\ Idle.dequeue = FALSE
    BY DEF Idle
  <2>2. RunIds \subseteq Threads
    BY DEF Threads
  <2> QED BY <1>1, <2>1, <2>2 DEF WorkInv, WorkOK, RunOK
<1>3. \A t \in Threads : todo[t].spawn = {}
  BY <1>1 DEF Idle
<1>4. \A g \in Gids, n \in 1..MaxGen : <<g, n>> \in RunIds
  BY DEF RunIds
<1> QED BY <1>1, <1>2, <1>3, <1>4 DEF RunInv, BegunInv, HeldInv, SpawnInv, Recorded, OwedRun, SpawnedRun, Working

LEMMA RunNext ==
    TypeOK /\ TokenInv /\ RunInv /\ [Next]_vars => RunInv' /\ CompleteStays
<1> SUFFICES ASSUME TypeOK, TokenInv, RunInv, [Next]_vars, TypeOK', TokenInv'
             PROVE  RunInv' /\ CompleteStays
  BY TokenNext
<1>1. ASSUME NEW c \in Clients, Call(c) \/ InsertState(c) \/ PlaceAdded(c)
      PROVE  RunInv' /\ CompleteStays
  BY <1>1, QuietAdd, QuietQueueCalls, QuietRemove, QuietPauses, StartChangeOption, StartInsert
     DEF Call
<1>2. ASSUME NEW t \in Threads, AfterUnlock(t)
      PROVE  RunInv' /\ CompleteStays
  BY <1>2, QuietUnlock, StartDequeue, RunSpawned DEF AfterUnlock
<1>3. ASSUME NEW r \in RunIds, Finish(r)
      PROVE  RunInv' /\ CompleteStays
  <2>1. CompleteStays
    BY <1>3, FinishKeepsComplete
  <2>2. /\ runs[r].phase \in {"starting", "working", "reported"}
        /\ \E status, notes : FinishDownload(r, status, notes)
    BY <1>3 DEF Finish, FinishOk, FinishCancelled, FinishError
  <2> QED BY <2>1, <2>2, RunFinishes
<1>4. ASSUME NEW r \in RunIds, BeginSession(r) \/ ReportFinished(r)
      PROVE  RunInv' /\ CompleteStays
  BY <1>4, RunSession
<1>5. CASE UNCHANGED vars
  <2>1. /\ UNCHANGED <<states, nextGid, cancelled, runs, todo>>
    BY <1>5 DEF vars
  <2> QED BY <2>1 DEF CompleteStays, RunInv, WorkInv, WorkOK, RunOK, BegunInv, HeldInv, SpawnInv,
        Begun, Touched, Held, Recorded, OwedRun, SpawnedRun, Condemned
<1> QED BY <1>1, <1>2, <1>3, <1>4, <1>5 DEF Next

\* A run its download gave up, because it was paused, removed or restarted, has its
\* token cancelled or about to be cancelled, however the calls interleave with the
\* starts and the ends of runs.
THEOREM GivenUpIsCancelled == Spec => []GivenUpRunIsCancelled
<1>1. TypeOK /\ RunInv => GivenUpRunIsCancelled
  <2> SUFFICES ASSUME TypeOK, RunInv, NEW r \in RunIds, runs[r].phase \in {"starting", "working"},
                      states[r[1]].status # "absent",
                      states[r[1]].status \in Queued \cup {"removed"} \/ r[2] # states[r[1]].gen
               PROVE  TokenOf(r) \in Condemned
    BY DEF GivenUpRunIsCancelled, Condemned
  <2>1. /\ r[1] \in Gids /\ r[2] \in 1..MaxGen /\ r = <<r[1], r[2]>> /\ runs[r].token \in Nat
    BY DEF RunIds, TypeOK, Run
  <2>2. Recorded(r[1], r[2], runs[r].token)
    BY <2>1 DEF Recorded, SpawnedRun, Working
  <2>3. Held(r[1], r[2], runs[r].token)
    BY <2>1, <2>2 DEF RunInv, HeldInv
  <2> QED BY <2>3 DEF Held, TokenOf, Queued
<1> QED BY <1>1, TokenInit, TokenNext, RunInit, RunNext, PTL DEF Spec

\* No cancelled run turns a completed download into a removed one: after the last
\* event of the current run completed it, nobody cancels that run any more.
THEOREM CompleteIsKept == Spec => CompleteIsNotRemoved
<1>1. CompleteStays => [\A g \in Gids : states[g].status = "complete" =>
                                          states'[g].status # "removed"]_vars
  BY DEF CompleteStays
<1> QED BY <1>1, TokenInit, TokenNext, RunInit, RunNext, PTL DEF Spec, CompleteIsNotRemoved

-----------------------------------------------------------------------------
(* That nothing is forgotten: a download that is active is run, one that     *)
(* waits beside a free slot is noticed, and one that ended is announced.     *)

Alive == {"starting", "working", "reported"}

\* The starts that are owed, and the ones that the runs at work came from.
StartedAs(r) == [gid |-> r[1], gen |-> r[2], token |-> runs[r].token, job |-> runs[r].job]
Going == {StartedAs(r) : r \in {q \in RunIds : runs[q].phase \in Alive}}
           \cup UNION {todo[t].spawn : t \in Threads}

\* Who adds a download has nothing to announce, nor has a run before its end.
OrderOK(w) ==
  /\ w.insert # {} => w.place = {} /\ w.notify = {} /\ ~w.dequeue
  /\ w.place # {} => w.notify = {}
OrderInv == /\ \A t \in Threads : OrderOK(todo[t])
            /\ \A r \in RunIds : runs[r].phase # "done" => todo[r].notify = {}

\* An active download is run with its token and, unless a rejected change left some
\* options behind, with its options.
RunBy(g, s) ==
  /\ s.gid = g /\ s.gen = states[g].gen /\ s.token = states[g].token
  /\ states[g].partial \/ s.job = states[g].job
ActiveInv == \A g \in With({"active"}) : \E s \in Going : RunBy(g, s)

\* A thread that finds its download gone from the queue returns an error and does
\* not start waiting downloads: it cannot be counted on.
Noticing(t) == todo[t].dequeue /\ \A p \in todo[t].place : p[1] \in With(Queued)
Noticed == \/ \E t \in Threads : Noticing(t)
           \/ \E s \in Going : NotStale(s.gid, s.gen)
NoticeInv == FreeSlot /\ With({"waiting"}) # {} => Noticed

\* The end of a download is announced, or somebody will do it: the thread that ended
\* it, or the current run of a download that an earlier run completed.
Note(g) == <<NoteFor(states[g].status), g>>
Announced(g) ==
  \/ NoteFor(states[g].status) \notin Observed
  \/ Note(g) \in sent
  \/ \E t \in Threads : Note(g) \in todo[t].notify
  \/ /\ states[g].status = "complete"
     /\ \E s \in Going : s.gid = g /\ s.gen = states[g].gen
EndInv == \A g \in With(Terminal) : Announced(g)

NewsInv == OrderInv /\ ActiveInv /\ NoticeInv /\ EndInv

-----------------------------------------------------------------------------
(* How the parts survive a step.                                           *)

GoesOn == Going \subseteq Going'

LEMMA GoesOnWith ==
    ASSUME runs' = runs, \A u \in Threads : todo[u].spawn \subseteq todo'[u].spawn
    PROVE  GoesOn
BY DEF GoesOn, Going, StartedAs

LEMMA GoingType ==
    ASSUME TypeOK
    PROVE  Going \subseteq QueuedStart
<1>1. \A t \in Threads : todo[t].spawn \subseteq QueuedStart
  BY DEF TypeOK, Pending
<1>2. ASSUME NEW r \in RunIds PROVE StartedAs(r) \in QueuedStart
  BY <1>2 DEF TypeOK, Run, RunIds, StartedAs, QueuedStart
<1> QED BY <1>1, <1>2 DEF Going

\* The run of a download has its options as long as they are not changed; it need not
\* have them after a rejected change.
SameJob(g) == \/ states'[g].partial
              \/ states'[g].job = states[g].job /\ states'[g].partial = states[g].partial

\* What keeps an active download run: its run goes on, or it got a new one.
StaysActive(g) ==
  /\ states[g].status = "active"
  /\ states'[g].gen = states[g].gen /\ states'[g].token = states[g].token
  /\ SameJob(g)

LEMMA ActiveStep ==
    ASSUME ActiveInv,
           \A g \in Gids : states'[g].status = "active" =>
             StaysActive(g) \/ \E s \in Going' : RunBy(g, s)',
           \A s \in Going : \/ s \in Going'
                            \/ states'[s.gid].status # "active"
                            \/ states'[s.gid].gen # s.gen
    PROVE  ActiveInv'
<1> SUFFICES ASSUME NEW g \in Gids, states'[g].status = "active"
             PROVE  \E s \in Going' : RunBy(g, s)'
  BY DEF ActiveInv, With
<1>1. CASE StaysActive(g)
  <2>1. PICK s \in Going : RunBy(g, s)
    BY <1>1 DEF ActiveInv, With, StaysActive
  <2>2. RunBy(g, s)'
    BY <1>1, <2>1 DEF StaysActive, SameJob, RunBy
  <2>3. s \in Going'
    BY <1>1, <2>1 DEF StaysActive, RunBy
  <2> QED BY <2>2, <2>3
<1> QED BY <1>1

\* A free slot that was not free before is noticed by the run of the download that
\* had it; otherwise whoever noticed it still does.
LEMMA FewerActive ==
    ASSUME With({"active"}) \subseteq With({"active"})', FreeSlot'
    PROVE  FreeSlot
<1> DEFINE A == With({"active"})
           B == With({"active"})'
<1>1. A \in SUBSET Gids /\ B \in SUBSET Gids /\ A \subseteq B
  BY DEF With
<1>2. Cardinality(B) < Limit
  BY DEF FreeSlot, Limit
<1> HIDE DEF A, B
<1>3. /\ IsFiniteSet(B) /\ Cardinality(A) \in Nat /\ Cardinality(B) \in Nat
  BY <1>1, GidsFinite
<1>4. Cardinality(A) <= Cardinality(B)
  BY <1>1, <1>3, FS_Subset
<1>5. Cardinality(A) < Limit
  BY <1>2, <1>3, <1>4, LimitNat
<1> QED BY <1>5 DEF FreeSlot, A

LEMMA NoticeStep ==
    ASSUME NoticeInv, With({"active"}) \subseteq With({"active"})',
           With({"waiting"})' \subseteq With({"waiting"}),
           \A t \in Threads : Noticing(t) => Noticing(t)',
           \A s \in Going : NotStale(s.gid, s.gen) => s \in Going' /\ NotStale(s.gid, s.gen)'
    PROVE  NoticeInv'
<1> SUFFICES ASSUME FreeSlot', With({"waiting"})' # {} PROVE Noticed'
  BY DEF NoticeInv
<1>1. FreeSlot /\ With({"waiting"}) # {}
  BY FewerActive
<1>2. Noticed
  BY <1>1 DEF NoticeInv
<1> QED BY <1>2 DEF Noticed

\* An announcement stays one.
StaysEnded(g) ==
  /\ states'[g].status = states[g].status /\ states'[g].gen = states[g].gen
  /\ \A s \in Going : s.gid = g /\ s.gen = states[g].gen => s \in Going' \/ Announced(g)'

LEMMA EndStep ==
    ASSUME EndInv, sent \subseteq sent',
           \A t \in Threads : todo[t].notify \subseteq todo'[t].notify \cup sent',
           \A g \in Gids : states'[g].status \in Terminal => StaysEnded(g) \/ Announced(g)'
    PROVE  EndInv'
<1> SUFFICES ASSUME NEW g \in Gids, states'[g].status \in Terminal, StaysEnded(g)
             PROVE  Announced(g)'
  BY DEF EndInv, With
<1>1. Announced(g)
  BY DEF EndInv, With, StaysEnded
<1>2. states'[g].status = states[g].status /\ states'[g].gen = states[g].gen
  BY DEF StaysEnded
<1>3. CASE NoteFor(states[g].status) \notin Observed
  BY <1>2, <1>3 DEF Announced, NoteFor
<1>4. Note(g)' = Note(g)
  BY <1>2 DEF Note, NoteFor
<1>5. CASE Note(g) \in sent \/ \E t \in Threads : Note(g) \in todo[t].notify
  BY <1>4, <1>5 DEF Announced
<1>6. CASE states[g].status = "complete" /\ \E s \in Going : s.gid = g /\ s.gen = states[g].gen
  <2>1. PICK s \in Going : s.gid = g /\ s.gen = states[g].gen
    BY <1>6
  <2>2. CASE s \in Going'
    BY <1>2, <1>6, <2>1, <2>2 DEF Announced
  <2> QED BY <2>1, <2>2 DEF StaysEnded
<1> QED BY <1>1, <1>3, <1>5, <1>6 DEF Announced

\* What a step leaves to its thread is in the order of one method.
LEMMA OrderStep ==
    ASSUME OrderInv, NEW t \in Threads, OrderOK(todo'[t]),
           t \in RunIds /\ runs'[t].phase # "done" => todo'[t].notify = {},
           \A u \in Threads : u # t => todo'[u] = todo[u],
           \A r \in RunIds : r # t /\ runs'[r].phase # "done" => runs[r].phase # "done"
    PROVE  OrderInv'
<1>1. \A u \in Threads : OrderOK(todo'[u])
  BY DEF OrderInv
<1>2. ASSUME NEW r \in RunIds, r # t, runs'[r].phase # "done" PROVE todo'[r].notify = {}
  <2>1. r \in Threads
    BY DEF Threads
  <2> QED BY <1>2, <2>1 DEF OrderInv
<1> QED BY <1>1, <1>2 DEF OrderInv, OrderOK

\* A call begins with nothing left to do, and the rest stays as it is.
LEMMA CallAlone ==
    ASSUME TypeOK, NEW c \in Clients, Call(c)
    PROVE  /\ todo[c] = Idle /\ runs' = runs /\ sent' = sent
           /\ \A u \in Threads : u # c => todo'[u] = todo[u]
           /\ \A u \in Threads : todo[u].spawn \subseteq todo'[u].spawn
           /\ GoesOn
<1>0. todo \in [Threads -> Pending] /\ c \in Threads
  BY DEF TypeOK, Threads
<1>1. todo[c] = Idle
  BY CallsFromIdle
<1>2. /\ runs' = runs /\ sent' = sent
      /\ \A u \in Threads : u # c => todo'[u] = todo[u]
  BY <1>0 DEF Call, AddDownload, PauseAll, UnpauseAll, PurgeDownloadResults, ChangePosition,
       Remove, Pause, Unpause, ChangeUri, ChangeOption, ChangeOptionRejected, RemoveDownloadResult
<1>3. \A u \in Threads : todo[u].spawn \subseteq todo'[u].spawn
  BY <1>1, <1>2 DEF Idle
<1> QED BY <1>1, <1>2, <1>3, GoesOnWith

LEMMA CallOrder ==
    ASSUME TypeOK, OrderInv, NEW c \in Clients, Call(c) \/ InsertState(c) \/ PlaceAdded(c)
    PROVE  OrderInv'
<1>0. todo \in [Threads -> Pending] /\ c \in Threads /\ c \notin RunIds /\ Idle \in Pending
  BY IdleType, ThreadsAssumption DEF TypeOK, Threads
<1>1. OrderOK(todo[c])
  BY <1>0 DEF OrderInv
<1>2. runs' = runs /\ \A u \in Threads : u # c => todo'[u] = todo[u]
  <2>1. CASE Call(c)
    BY <2>1, CallAlone
  <2>2. CASE InsertState(c)
    BY <1>0, <2>2 DEF InsertState
  <2>3. CASE PlaceAdded(c)
    BY <1>0, <2>3 DEF PlaceAdded
  <2> QED BY <2>1, <2>2, <2>3
<1>3. OrderOK(todo'[c])
  <2>1. CASE Call(c)
    <3>1. todo[c] = Idle
      BY <2>1, CallsFromIdle
    <3>2. CASE AddDownload(c)
      BY <1>0, <3>1, <3>2 DEF AddDownload, OrderOK, Idle, Pending
    <3>3. CASE ~AddDownload(c)
      <4>1. todo'[c].insert = {} /\ todo'[c].place = {}
        <5>1. \/ UNCHANGED todo
              \/ \E x : todo' = [todo EXCEPT ![c].dequeue = x]
              \/ \E x, y : todo' = [todo EXCEPT ![c].notify = x, ![c].dequeue = y]
              \/ \E x, y : todo' = [todo EXCEPT ![c].cancel = x, ![c].notify = y]
              \/ \E x, y : todo' = [todo EXCEPT ![c].cancel = x, ![c].spawn = y]
          BY <2>1, <3>3 DEF Call, PauseAll, UnpauseAll, PurgeDownloadResults, ChangePosition,
               Remove, Pause, Unpause, ChangeUri, ChangeOption, ChangeOptionRejected, RemoveDownloadResult
        <5>2. todo[c].insert = {} /\ todo[c].place = {}
          BY <3>1 DEF Idle
        <5>3. ASSUME NEW x, todo' = [todo EXCEPT ![c].dequeue = x]
              PROVE  todo'[c].insert = todo[c].insert /\ todo'[c].place = todo[c].place
          BY <1>0, <5>3 DEF Pending
        <5>4. ASSUME NEW x, NEW y, todo' = [todo EXCEPT ![c].notify = x, ![c].dequeue = y]
              PROVE  todo'[c].insert = todo[c].insert /\ todo'[c].place = todo[c].place
          BY <1>0, <5>4 DEF Pending
        <5>5. ASSUME NEW x, NEW y, todo' = [todo EXCEPT ![c].cancel = x, ![c].notify = y]
              PROVE  todo'[c].insert = todo[c].insert /\ todo'[c].place = todo[c].place
          BY <1>0, <5>5 DEF Pending
        <5>6. ASSUME NEW x, NEW y, todo' = [todo EXCEPT ![c].cancel = x, ![c].spawn = y]
              PROVE  todo'[c].insert = todo[c].insert /\ todo'[c].place = todo[c].place
          BY <1>0, <5>6 DEF Pending
        <5>7. CASE UNCHANGED todo
          BY <5>2, <5>7
        <5> QED BY <5>1, <5>2, <5>3, <5>4, <5>5, <5>6, <5>7
      <4> QED BY <4>1 DEF OrderOK
    <3> QED BY <3>2, <3>3
  <2>2. CASE InsertState(c)
    <3>1. PICK req \in todo[c].insert : todo'[c] \in {Idle, AfterInsert(req)}
      BY <1>0, <2>2 DEF InsertState
    <3>2. OrderOK(Idle) /\ OrderOK(AfterInsert(req))
      BY DEF OrderOK, Idle, AfterInsert
    <3> QED BY <3>1, <3>2
  <2>3. CASE PlaceAdded(c)
    <3>1. \/ todo'[c] = [todo[c] EXCEPT !.place = {}] /\ todo[c].insert = {}
          \/ todo'[c] = Idle
      BY <1>0, <2>3 DEF PlaceAdded
    <3>2. OrderOK(Idle)
      BY DEF OrderOK, Idle
    <3> QED BY <1>0, <3>1, <3>2 DEF OrderOK, Pending
  <2> QED BY <2>1, <2>2, <2>3
<1> QED BY <1>0, <1>2, <1>3, OrderStep

LEMMA UnlockOrder ==
    ASSUME TypeOK, TypeOK', RunInv, OrderInv, NEW t \in Threads, AfterUnlock(t)
    PROVE  OrderInv'
<1>0. todo \in [Threads -> Pending] /\ todo[t] \in Pending
  BY DEF TypeOK
<1>1. /\ \A u \in Threads : u # t => todo'[u] = todo[u]
      /\ \/ \E x : todo'[t] = [todo[t] EXCEPT !.cancel = x]
         \/ \E x : todo'[t] = [todo[t] EXCEPT !.notify = todo[t].notify \ {x}]
         \/ \E x : todo'[t] = [todo[t] EXCEPT !.dequeue = FALSE, !.spawn = x]
         \/ \E x : todo'[t] = [todo[t] EXCEPT !.spawn = x]
  BY <1>0 DEF AfterUnlock, CancelToken, SendLifecycle, DequeueWaiting, SpawnDownload
<1>2. /\ todo'[t].insert = todo[t].insert /\ todo'[t].place = todo[t].place
      /\ todo'[t].notify \subseteq todo[t].notify
      /\ todo'[t].dequeue => todo[t].dequeue
  <2>1. CASE \E x : todo'[t] = [todo[t] EXCEPT !.cancel = x]
    BY <1>0, <2>1 DEF Pending
  <2>2. CASE \E x : todo'[t] = [todo[t] EXCEPT !.notify = todo[t].notify \ {x}]
    BY <1>0, <2>2 DEF Pending
  <2>3. CASE \E x : todo'[t] = [todo[t] EXCEPT !.dequeue = FALSE, !.spawn = x]
    BY <1>0, <2>3 DEF Pending
  <2>4. CASE \E x : todo'[t] = [todo[t] EXCEPT !.spawn = x]
    BY <1>0, <2>4 DEF Pending
  <2> QED BY <1>1, <2>1, <2>2, <2>3, <2>4
<1>3. OrderOK(todo'[t])
  BY <1>2 DEF OrderInv, OrderOK
<1>4. \A r \in RunIds : runs'[r].phase # "done" => runs[r].phase # "done"
  <2>1. CASE UNCHANGED runs
    BY <2>1
  <2>2. CASE SpawnDownload(t)
    <3>1. PICK sp \in todo[t].spawn : runs' = [runs EXCEPT ![<<sp.gid, sp.gen>>] =
                                        [phase |-> "starting", token |-> sp.token, job |-> sp.job]]
      BY <2>2 DEF SpawnDownload
    <3>2. runs[<<sp.gid, sp.gen>>].phase = "none"
      BY DEF RunInv, SpawnInv
    <3> QED BY <3>1, <3>2 DEF TypeOK
  <2> QED BY <2>1, <2>2 DEF AfterUnlock, CancelToken, SendLifecycle, DequeueWaiting
<1>5. t \in RunIds /\ runs'[t].phase # "done" => todo'[t].notify = {}
  BY <1>2, <1>4 DEF OrderInv
<1> QED BY <1>1, <1>3, <1>4, <1>5, OrderStep

LEMMA RunOrder ==
    ASSUME TypeOK, RunInv, OrderInv, NEW r \in RunIds,
           BeginSession(r) \/ ReportFinished(r) \/ Finish(r)
    PROVE  OrderInv'
<1>0. /\ runs \in [RunIds -> Run] /\ todo \in [Threads -> Pending] /\ r \in Threads
  BY DEF TypeOK, Threads
<1>1. CASE BeginSession(r) \/ ReportFinished(r)
  <2>1. /\ todo' = todo /\ \A q \in RunIds : runs'[q].phase # "done" => runs[q].phase # "done"
    BY <1>0, <1>1 DEF BeginSession, ReportFinished
  <2> QED BY <2>1 DEF OrderInv, OrderOK
<1>2. CASE Finish(r)
  <2>1. PICK status, notes : FinishDownload(r, status, notes)
    BY <1>2 DEF Finish, FinishOk, FinishCancelled, FinishError
  <2>2. /\ runs'[r].phase = "done" /\ \A q \in RunIds : q # r => runs'[q] = runs[q]
    BY <1>0, <2>1 DEF FinishDownload, Ended
  <2>3. /\ \A u \in Threads : u # r => todo'[u] = todo[u]
        /\ \/ todo'[r] = todo[r]
           \/ \E n : todo'[r] = [Idle EXCEPT !.notify = n, !.dequeue = TRUE]
    BY <1>0, <2>1 DEF FinishDownload
  <2>4. OrderOK(todo'[r])
    <3>1. CASE todo'[r] = todo[r]
      BY <1>0, <3>1 DEF OrderInv
    <3>2. ASSUME NEW n, todo'[r] = [Idle EXCEPT !.notify = n, !.dequeue = TRUE]
          PROVE  OrderOK(todo'[r])
      BY <3>2 DEF OrderOK, Idle
    <3> QED BY <2>3, <3>1, <3>2
  <2> QED BY <1>0, <2>2, <2>3, <2>4, OrderStep
<1> QED BY <1>1, <1>2

-----------------------------------------------------------------------------
(* Steps that leave every download as it is, or forget some that ended.    *)

Keeps(g) ==
  \/ /\ states'[g].status = states[g].status
     /\ states'[g].gen = states[g].gen /\ states'[g].token = states[g].token
     /\ states[g].status = "active" => SameJob(g)
  \/ states[g].status \in Terminal /\ states'[g].status = "absent"

\* Only a run leaves that its download gave up.
StaleLeaves == \A s \in Going : \/ s \in Going'
                                \/ states[s.gid].status # "absent" /\ states[s.gid].gen # s.gen

NotesGoOn == /\ sent \subseteq sent'
             /\ \A t \in Threads : todo[t].notify \subseteq todo'[t].notify \cup sent'

LEMMA KeptNews ==
    ASSUME TypeOK, ActiveInv, EndInv, \A g \in Gids : Keeps(g), StaleLeaves, NotesGoOn
    PROVE  ActiveInv' /\ EndInv'
<1>0. \A s \in Going : s.gid \in Gids
  BY GoingType DEF QueuedStart
<1>1. ActiveInv'
  <2>1. \A g \in Gids : states'[g].status = "active" => StaysActive(g)
    BY DEF Keeps, StaysActive
  <2>2. \A s \in Going : \/ s \in Going'
                         \/ states'[s.gid].status # "active"
                         \/ states'[s.gid].gen # s.gen
    BY <1>0 DEF Keeps, StaleLeaves
  <2> QED BY <2>1, <2>2, ActiveStep
<1>2. EndInv'
  <2>1. \A g \in Gids : states'[g].status \in Terminal => StaysEnded(g)
    BY DEF Keeps, StaysEnded, StaleLeaves, Terminal
  <2> QED BY <2>1, EndStep DEF NotesGoOn
<1> QED BY <1>1, <1>2

LEMMA KeptNotice ==
    ASSUME TypeOK, NoticeInv, \A g \in Gids : Keeps(g), StaleLeaves,
           \A t \in Threads : Noticing(t) =>
              todo'[t].dequeue /\ todo'[t].place \subseteq todo[t].place
    PROVE  NoticeInv'
<1>0. /\ \A s \in Going : s.gid \in Gids
      /\ \A t \in Threads : \A p \in todo[t].place : p[1] \in Gids
  BY GoingType DEF QueuedStart, TypeOK, Pending
<1>1. /\ With({"active"}) \subseteq With({"active"})'
      /\ With({"waiting"})' \subseteq With({"waiting"})
      /\ With(Queued) \subseteq With(Queued)'
  BY DEF With, Keeps, Terminal, Queued
<1>2. \A t \in Threads : Noticing(t) => Noticing(t)'
  BY <1>1 DEF Noticing
<1>3. \A s \in Going : NotStale(s.gid, s.gen) => s \in Going' /\ NotStale(s.gid, s.gen)'
  BY <1>0 DEF StaleLeaves, NotStale, Keeps, Terminal
<1> QED BY <1>1, <1>2, <1>3, NoticeStep

LEMMA KeptCalls ==
    ASSUME TypeOK, NEW c \in Clients,
           \/ AddDownload(c) \/ PurgeDownloadResults(c)
           \/ \E g \in Gids : \/ ChangePosition(c, g) \/ ChangeUri(c, g) \/ ChangeOptionRejected(c, g)
                              \/ RemoveDownloadResult(c, g)
                              \/ ChangeOption(c, g) /\ g \in With(Queued)
    PROVE  \A g \in Gids : Keeps(g)
<1>0. /\ states \in [Gids -> Download]
      /\ \A g \in Gids : states[g] \in Download /\ states[g].status \in Queued => states[g].status # "active"
  BY DEF TypeOK, Queued
<1>1. CASE AddDownload(c)
  BY <1>1 DEF AddDownload, Keeps, SameJob
<1>2. CASE PurgeDownloadResults(c)
  BY <1>2 DEF PurgeDownloadResults, Forget, Absent, With, Keeps, SameJob
<1>3. ASSUME NEW h \in Gids, ChangePosition(c, h) PROVE \A g \in Gids : Keeps(g)
  <2>1. PICK p \in Int : states' = Moved(h, Clamped(h, p))
    <3>1. /\ Ahead(states, With(Queued), h) \in Nat
          /\ Cardinality(With(Queued) \ {h}) \in Nat
      BY AheadNat, GidsFinite DEF With
    <3> QED BY <1>3, <3>1, ConfigAssumption DEF ChangePosition
  <2> QED BY <2>1, ClampedNat, MovedType DEF Keeps, SameJob
<1>4. ASSUME NEW h \in Gids, ChangeUri(c, h) PROVE \A g \in Gids : Keeps(g)
  BY <1>0, <1>4 DEF ChangeUri, With, Download, Keeps, SameJob
<1>5. ASSUME NEW h \in Gids, ChangeOptionRejected(c, h) PROVE \A g \in Gids : Keeps(g)
  BY <1>0, <1>5 DEF ChangeOptionRejected, Calling, Download, Keeps, SameJob
<1>6. ASSUME NEW h \in Gids, RemoveDownloadResult(c, h) PROVE \A g \in Gids : Keeps(g)
  BY <1>6 DEF RemoveDownloadResult, Forget, Absent, Keeps, SameJob
<1>7. ASSUME NEW h \in Gids, ChangeOption(c, h), h \in With(Queued) PROVE \A g \in Gids : Keeps(g)
  <2>1. states' = [states EXCEPT ![h].job = @ + 1] /\ states[h].status # "active"
    BY <1>0, <1>7 DEF ChangeOption, With
  <2> QED BY <1>0, <2>1 DEF Download, Keeps, SameJob
<1> QED BY <1>1, <1>2, <1>3, <1>4, <1>5, <1>6, <1>7

\* The calls that start and end nothing.
LEMMA NewsKeptCalls ==
    ASSUME TypeOK, NewsInv, NEW c \in Clients,
           \/ AddDownload(c) \/ PurgeDownloadResults(c)
           \/ \E g \in Gids : \/ ChangePosition(c, g) \/ ChangeUri(c, g) \/ ChangeOptionRejected(c, g)
                              \/ RemoveDownloadResult(c, g)
                              \/ ChangeOption(c, g) /\ g \in With(Queued)
    PROVE  NewsInv'
<1>1. Call(c)
  BY DEF Call
<1>2. /\ todo[c] = Idle /\ runs' = runs /\ sent' = sent /\ GoesOn
      /\ \A u \in Threads : u # c => todo'[u] = todo[u]
  BY <1>1, CallAlone
<1>3. ~Idle.dequeue /\ Idle.notify = {}
  BY DEF Idle
<1>4. StaleLeaves /\ NotesGoOn
  BY <1>2, <1>3 DEF StaleLeaves, GoesOn, NotesGoOn
<1>5. \A t \in Threads : Noticing(t) => todo'[t].dequeue /\ todo'[t].place \subseteq todo[t].place
  BY <1>2, <1>3 DEF Noticing
<1>6. \A g \in Gids : Keeps(g)
  BY KeptCalls
<1>7. OrderInv'
  BY <1>1, CallOrder DEF NewsInv
<1> QED BY <1>4, <1>5, <1>6, <1>7, KeptNews, KeptNotice DEF NewsInv

\* A download is put at its place, or was started or removed in the meantime.
LEMMA NewsPlace ==
    ASSUME TypeOK, NewsInv, RunInv, NEW c \in Clients, PlaceAdded(c)
    PROVE  NewsInv'
<1>0. todo \in [Threads -> Pending] /\ c \in Threads /\ todo[c] \in Pending
  BY DEF TypeOK, Threads
<1>1. PICK place \in todo[c].place : PlaceAdded(c)!2!(place)
  BY DEF PlaceAdded
<1>2. place[1] \in Gids /\ place[2] \in Int /\ Clamped(place[1], place[2]) \in Nat
  BY <1>0, ClampedNat DEF Pending
<1>3. /\ runs' = runs /\ sent' = sent /\ \A u \in Threads : u # c => todo'[u] = todo[u]
      /\ \/ /\ place[1] \in With(Queued) /\ states' = Moved(place[1], Clamped(place[1], place[2]))
            /\ todo'[c] = [todo[c] EXCEPT !.place = {}]
         \/ place[1] \notin With(Queued) /\ states' = states /\ todo'[c] = Idle
  BY <1>0, <1>1 DEF PlaceAdded
<1>4. \A g \in Gids : Keeps(g)
  <2>1. CASE states' = states
    BY <2>1 DEF Keeps, SameJob
  <2>2. CASE states' = Moved(place[1], Clamped(place[1], place[2]))
    BY <1>2, <2>2, MovedType DEF Keeps, SameJob
  <2> QED BY <1>3, <2>1, <2>2
<1>5. todo[c].spawn = {} /\ todo[c].notify = {}
  BY <1>0, <1>1 DEF RunInv, WorkInv, WorkOK, NewsInv, OrderInv, OrderOK
<1>6. GoesOn
  <2>1. \A u \in Threads : todo[u].spawn \subseteq todo'[u].spawn
    BY <1>3, <1>5
  <2> QED BY <1>3, <2>1, GoesOnWith
<1>7. StaleLeaves /\ NotesGoOn
  BY <1>3, <1>5, <1>6 DEF StaleLeaves, GoesOn, NotesGoOn
<1>8. \A t \in Threads : Noticing(t) => todo'[t].dequeue /\ todo'[t].place \subseteq todo[t].place
  <2>1. Noticing(c) => todo'[c].dequeue /\ todo'[c].place \subseteq todo[c].place
    BY <1>0, <1>1, <1>3 DEF Noticing, Pending
  <2> QED BY <1>3, <2>1 DEF Noticing
<1>9. OrderInv'
  BY CallOrder DEF NewsInv
<1> QED BY <1>4, <1>7, <1>8, <1>9, KeptNews, KeptNotice DEF NewsInv

\* What a thread does after the unlock ends and starts nothing: a start that was owed
\* becomes the run it was owed to.
LEMMA SpawnedGoesOn ==
    ASSUME TypeOK, RunInv, NEW t \in Threads, SpawnDownload(t)
    PROVE  GoesOn
<1>0. /\ todo \in [Threads -> Pending] /\ todo[t] \in Pending /\ runs \in [RunIds -> Run]
      /\ \A u \in Threads : \A sq \in todo[u].spawn :
           sq \in QueuedStart /\ <<sq.gid, sq.gen>> \in RunIds
  BY DEF TypeOK, Pending, QueuedStart, RunIds
<1>1. PICK sp \in todo[t].spawn :
        /\ runs' = [runs EXCEPT ![<<sp.gid, sp.gen>>] =
                      [phase |-> "starting", token |-> sp.token, job |-> sp.job]]
        /\ todo' = [todo EXCEPT ![t].spawn = @ \ {sp}]
  BY DEF SpawnDownload
<1> DEFINE r0 == <<sp.gid, sp.gen>>
<1>2. r0 \in RunIds /\ runs[r0].phase = "none"
  BY <1>0, <1>1 DEF RunInv, SpawnInv
<1>3. /\ runs'[r0] = [phase |-> "starting", token |-> sp.token, job |-> sp.job]
      /\ \A r \in RunIds : r # r0 => runs'[r] = runs[r]
  BY <1>0, <1>1, <1>2
<1>4. \A u \in Threads : u # t => todo'[u] = todo[u]
  BY <1>0, <1>1
<1>5. todo'[t].spawn = todo[t].spawn \ {sp}
  BY <1>0, <1>1 DEF Pending
<1>6. sp \in Going'
  <2>1. r0 \in {q \in RunIds : runs'[q].phase \in Alive}
    BY <1>2, <1>3 DEF Alive
  <2>2. StartedAs(r0)' = sp
    BY <1>0, <1>3 DEF StartedAs, QueuedStart
  <2> QED BY <2>1, <2>2 DEF Going
<1>7. ASSUME NEW r \in RunIds, runs[r].phase \in Alive PROVE StartedAs(r) \in Going'
  <2>1. r # r0
    BY <1>2, <1>7 DEF Alive
  <2>2. runs'[r] = runs[r]
    BY <1>3, <2>1
  <2> QED BY <1>7, <2>2 DEF Going, StartedAs
<1>8. ASSUME NEW u \in Threads, NEW s \in todo[u].spawn PROVE s \in Going'
  <2>1. CASE s \in todo'[u].spawn
    BY <2>1 DEF Going
  <2>2. CASE s \notin todo'[u].spawn
    BY <1>4, <1>5, <1>6, <2>2
  <2> QED BY <2>1, <2>2
<1> QED BY <1>7, <1>8 DEF GoesOn, Going

LEMMA NewsUnlock ==
    ASSUME TypeOK, TypeOK', RunInv, NewsInv, NEW t \in Threads,
           CancelToken(t) \/ SendLifecycle(t) \/ SpawnDownload(t)
    PROVE  NewsInv'
<1>0. todo \in [Threads -> Pending] /\ todo[t] \in Pending
  BY DEF TypeOK
<1>1. states' = states /\ \A u \in Threads : u # t => todo'[u] = todo[u]
  BY <1>0 DEF CancelToken, SendLifecycle, SpawnDownload
<1>2. /\ todo'[t].dequeue = todo[t].dequeue /\ todo'[t].place = todo[t].place
      /\ sent \subseteq sent' /\ todo[t].notify \subseteq todo'[t].notify \cup sent'
      /\ GoesOn
  <2>1. CASE CancelToken(t)
    <3>1. /\ todo'[t].dequeue = todo[t].dequeue /\ todo'[t].place = todo[t].place
          /\ todo'[t].notify = todo[t].notify /\ todo'[t].spawn = todo[t].spawn
          /\ runs' = runs /\ sent' = sent
      BY <1>0, <2>1 DEF CancelToken, Pending
    <3> QED BY <1>1, <3>1, GoesOnWith
  <2>2. CASE SendLifecycle(t)
    <3>1. PICK note \in todo[t].notify :
            sent' = sent \cup {note} /\ todo' = [todo EXCEPT ![t].notify = @ \ {note}]
      BY <2>2 DEF SendLifecycle
    <3>2. /\ todo'[t].dequeue = todo[t].dequeue /\ todo'[t].place = todo[t].place
          /\ todo'[t].notify = todo[t].notify \ {note} /\ todo'[t].spawn = todo[t].spawn
          /\ runs' = runs
      BY <1>0, <2>2, <3>1 DEF SendLifecycle, Pending
    <3> QED BY <1>1, <3>1, <3>2, GoesOnWith
  <2>3. CASE SpawnDownload(t)
    <3>1. /\ todo'[t].dequeue = todo[t].dequeue /\ todo'[t].place = todo[t].place
          /\ todo'[t].notify = todo[t].notify /\ sent \subseteq sent'
      BY <1>0, <2>3 DEF SpawnDownload, Pending
    <3> QED BY <2>3, <3>1, SpawnedGoesOn
  <2> QED BY <2>1, <2>2, <2>3
<1>3. \A g \in Gids : Keeps(g)
  BY <1>1 DEF Keeps, SameJob
<1>4. StaleLeaves /\ NotesGoOn
  BY <1>1, <1>2 DEF StaleLeaves, GoesOn, NotesGoOn
<1>5. \A u \in Threads : Noticing(u) => todo'[u].dequeue /\ todo'[u].place \subseteq todo[u].place
  BY <1>1, <1>2 DEF Noticing
<1>6. OrderInv'
  BY UnlockOrder DEF NewsInv, AfterUnlock
<1> QED BY <1>3, <1>4, <1>5, <1>6, KeptNews, KeptNotice DEF NewsInv

\* A session that begins stays the run it was.
LEMMA NewsBegin ==
    ASSUME TypeOK, RunInv, NewsInv, NEW r \in RunIds, BeginSession(r)
    PROVE  NewsInv'
<1>0. runs \in [RunIds -> Run]
  BY DEF TypeOK
<1>1. states' = states /\ todo' = todo /\ sent' = sent
  BY DEF BeginSession
<1>2. /\ runs'[r].phase = "working" /\ runs'[r].token = runs[r].token /\ runs'[r].job = runs[r].job
      /\ \A q \in RunIds : q # r => runs'[q] = runs[q]
  BY <1>0 DEF BeginSession, Run
<1>3. GoesOn
  <2>1. \A q \in RunIds : runs[q].phase \in Alive => runs'[q].phase \in Alive /\ StartedAs(q)' = StartedAs(q)
    BY <1>2 DEF Alive, StartedAs
  <2> QED BY <1>1, <2>1 DEF GoesOn, Going
<1>4. \A g \in Gids : Keeps(g)
  BY <1>1 DEF Keeps, SameJob
<1>5. StaleLeaves /\ NotesGoOn
  BY <1>1, <1>3 DEF StaleLeaves, GoesOn, NotesGoOn
<1>6. \A u \in Threads : Noticing(u) => todo'[u].dequeue /\ todo'[u].place \subseteq todo[u].place
  BY <1>1 DEF Noticing
<1>7. OrderInv'
  BY RunOrder DEF NewsInv
<1> QED BY <1>4, <1>5, <1>6, <1>7, KeptNews, KeptNotice DEF NewsInv

-----------------------------------------------------------------------------
(* Steps that take a download off its slot or put one into the queue.      *)

\* The run of an active download notices, when it ends, that its slot is free.
LEMMA FreedIsNoticed ==
    ASSUME ActiveInv, NEW g \in With({"active"}), GoesOn,
           states'[g].gen = states[g].gen
    PROVE  NoticeInv'
<1>1. PICK s \in Going : RunBy(g, s)
  BY DEF ActiveInv
<1>2. s \in Going' /\ NotStale(s.gid, s.gen)'
  BY <1>1 DEF GoesOn, RunBy, NotStale
<1> QED BY <1>2 DEF NoticeInv, Noticed

LEMMA ThreadNotices ==
    ASSUME NEW t \in Threads, todo'[t].dequeue, todo'[t].place = {}
    PROVE  NoticeInv'
BY DEF NoticeInv, Noticed, Noticing

\* Downloads that leave the active ones or not, and end nowhere.
Leaves(g) ==
  \/ /\ states'[g].status = states[g].status
     /\ states'[g].gen = states[g].gen /\ states'[g].token = states[g].token
     /\ states'[g].job = states[g].job /\ states'[g].partial = states[g].partial
  \/ /\ states'[g].status \in Queued /\ states'[g].gen = states[g].gen
     /\ states[g].status \in Queued \cup {"active"}

LEMMA LeftNews ==
    ASSUME TypeOK, ActiveInv, EndInv, GoesOn, NotesGoOn,
           \A g \in Gids : Leaves(g) \/ (Announced(g)' /\ states'[g].status \in Terminal)
    PROVE  ActiveInv' /\ EndInv'
<1>1. ActiveInv'
  <2>1. \A g \in Gids : states'[g].status = "active" => StaysActive(g)
    BY DEF Leaves, StaysActive, SameJob, Queued, Terminal
  <2>2. \A s \in Going : s \in Going'
    BY DEF GoesOn
  <2> QED BY <2>1, <2>2, ActiveStep
<1>2. EndInv'
  <2>1. \A g \in Gids : states'[g].status \in Terminal => StaysEnded(g) \/ Announced(g)'
    BY DEF Leaves, StaysEnded, GoesOn, Terminal, Queued
  <2> QED BY <2>1, EndStep DEF NotesGoOn
<1> QED BY <1>1, <1>2

LEMMA LeftNotice ==
    ASSUME TypeOK, ActiveInv, NoticeInv, GoesOn, \A g \in Gids : Leaves(g),
           With({"waiting"})' \subseteq With({"waiting"}),
           \A t \in Threads : Noticing(t) =>
              todo'[t].dequeue /\ todo'[t].place \subseteq todo[t].place
    PROVE  NoticeInv'
<1>0. /\ \A s \in Going : s.gid \in Gids
      /\ \A t \in Threads : \A p \in todo[t].place : p[1] \in Gids
  BY GoingType DEF QueuedStart, TypeOK, Pending
<1>1. CASE \E g \in With({"active"}) : states'[g].status # "active"
  <2>1. PICK g \in With({"active"}) : states'[g].status # "active"
    BY <1>1
  <2>2. states'[g].gen = states[g].gen
    BY <2>1 DEF Leaves, With
  <2> QED BY <2>1, <2>2, FreedIsNoticed
<1>2. CASE \A g \in With({"active"}) : states'[g].status = "active"
  <2>1. With({"active"}) \subseteq With({"active"})' /\ With(Queued) \subseteq With(Queued)'
    BY <1>2 DEF With, Leaves
  <2>2. \A t \in Threads : Noticing(t) => Noticing(t)'
    BY <2>1 DEF Noticing
  <2>3. \A s \in Going : NotStale(s.gid, s.gen) => s \in Going' /\ NotStale(s.gid, s.gen)'
    BY <1>0 DEF GoesOn, NotStale, Leaves, Queued
  <2> QED BY <2>1, <2>2, <2>3, NoticeStep
<1> QED BY <1>1, <1>2

\* Removing a download owes its announcement; a slot or a place in the queue that it
\* frees is noticed by its run or by the call itself.
LEMMA NewsRemove ==
    ASSUME TypeOK, RunInv, NewsInv, NEW c \in Clients, NEW g \in Gids, Remove(c, g)
    PROVE  NewsInv'
<1>0. /\ todo \in [Threads -> Pending] /\ c \in Threads /\ todo[c] \in Pending
      /\ states \in [Gids -> Download]
  BY DEF TypeOK, Threads
<1>1. Call(c)
  BY DEF Call
<1>2. /\ todo[c] = Idle /\ runs' = runs /\ sent' = sent /\ GoesOn
      /\ \A u \in Threads : u # c => todo'[u] = todo[u]
  BY <1>1, CallAlone
<1>3. /\ todo'[c].notify = Notes("stop", {g}) /\ todo'[c].place = {}
      /\ todo'[c].dequeue = (states[g].status # "active")
  <2>1. Idle.place = {}
    BY DEF Idle
  <2> QED BY <1>0, <1>2, <2>1 DEF Remove, Pending
<1>4. /\ states[g].status \in Queued \cup {"active"}
      /\ states'[g].status = "removed" /\ states'[g].gen = states[g].gen
      /\ \A h \in Gids : h # g => states'[h] = states[h]
  BY <1>0 DEF Remove, Download
<1>5. Announced(g)'
  <2>1. Note(g)' = <<"stop", g>> /\ NoteFor(states'[g].status) = "stop"
    BY <1>4 DEF Note, NoteFor
  <2>2. "stop" \in Observed => <<"stop", g>> \in todo'[c].notify
    BY <1>3 DEF Notes
  <2> QED BY <1>0, <2>1, <2>2 DEF Announced
<1>6. NotesGoOn
  <2>1. Idle.notify = {}
    BY DEF Idle
  <2> QED BY <1>2, <2>1 DEF NotesGoOn
<1>7. \A h \in Gids : Leaves(h) \/ (Announced(h)' /\ states'[h].status \in Terminal)
  BY <1>4, <1>5 DEF Leaves, Terminal
<1>8. ActiveInv' /\ EndInv'
  BY <1>2, <1>6, <1>7, LeftNews DEF NewsInv
<1>9. NoticeInv'
  <2>1. CASE states[g].status = "active"
    BY <1>2, <1>4, <2>1, FreedIsNoticed DEF With, NewsInv
  <2>2. CASE states[g].status # "active"
    BY <1>0, <1>3, <2>2, ThreadNotices
  <2> QED BY <2>1, <2>2
<1>10. OrderInv'
  BY <1>1, CallOrder DEF NewsInv
<1> QED BY <1>8, <1>9, <1>10 DEF NewsInv

LEMMA NewsPauses ==
    ASSUME TypeOK, RunInv, NewsInv, NEW c \in Clients, PauseAll(c) \/ \E g \in Gids : Pause(c, g)
    PROVE  NewsInv'
<1>0. states \in [Gids -> Download] /\ \A g \in Gids : states[g] \in Download
  BY DEF TypeOK
<1>1. Call(c)
  BY DEF Call
<1>2. /\ todo[c] = Idle /\ runs' = runs /\ sent' = sent /\ GoesOn
      /\ \A u \in Threads : u # c => todo'[u] = todo[u]
  BY <1>1, CallAlone
<1>3. ~Idle.dequeue /\ Idle.notify = {}
  BY DEF Idle
<1>4. NotesGoOn
  BY <1>2, <1>3 DEF NotesGoOn
<1>5. \A h \in Gids : /\ Leaves(h)
                      /\ states'[h].status = states[h].status \/ states'[h].status = "paused"
  <2>1. CASE PauseAll(c)
    <3>1. \A h \in Gids : states'[h] = IF h \in With({"waiting", "active"})
                                       THEN Pausing(states[h]) ELSE states[h]
      BY <2>1 DEF PauseAll
    <3> QED BY <1>0, <3>1, PausingFields DEF With, Leaves, Queued
  <2>2. ASSUME NEW g \in Gids, Pause(c, g)
        PROVE \A h \in Gids : /\ Leaves(h)
                              /\ states'[h].status = states[h].status \/ states'[h].status = "paused"
    <3>1. /\ states[g].status \in {"waiting", "active"}
          /\ states'[g] = [Pausing(states[g]) EXCEPT !.pos = 0]
          /\ \A h \in Gids : h # g => states'[h] \in {states[h], [states[h] EXCEPT !.pos = @ + 1]}
      BY <2>2 DEF Pause
    <3>2. Pausing(states[g]) \in Download
      BY <1>0, CallUpdates
    <3>3. states'[g].status = "paused" /\ states'[g].gen = states[g].gen
      BY <1>0, <3>1, <3>2, PausingFields DEF Download
    <3>4. \A h \in Gids : h # g => /\ states'[h].status = states[h].status /\ states'[h].gen = states[h].gen
                                   /\ states'[h].token = states[h].token /\ states'[h].job = states[h].job
                                   /\ states'[h].partial = states[h].partial
      BY <1>0, <3>1 DEF Download
    <3> QED BY <3>1, <3>3, <3>4 DEF Leaves, Queued
  <2> QED BY <2>1, <2>2
<1>6. With({"waiting"})' \subseteq With({"waiting"})
  BY <1>5 DEF With
<1>7. \A t \in Threads : Noticing(t) => todo'[t].dequeue /\ todo'[t].place \subseteq todo[t].place
  BY <1>2, <1>3 DEF Noticing
<1>8. OrderInv'
  BY <1>1, CallOrder DEF NewsInv
<1> QED BY <1>2, <1>4, <1>5, <1>6, <1>7, <1>8, LeftNews, LeftNotice DEF NewsInv

LEMMA NewsUnpauses ==
    ASSUME TypeOK, RunInv, NewsInv, NEW c \in Clients, UnpauseAll(c) \/ \E g \in Gids : Unpause(c, g)
    PROVE  NewsInv'
<1>0. /\ todo \in [Threads -> Pending] /\ c \in Threads /\ todo[c] \in Pending
      /\ states \in [Gids -> Download] /\ \A g \in Gids : states[g] \in Download
  BY DEF TypeOK, Threads
<1>1. Call(c)
  BY DEF Call
<1>2. /\ todo[c] = Idle /\ runs' = runs /\ sent' = sent /\ GoesOn
      /\ \A u \in Threads : u # c => todo'[u] = todo[u]
  BY <1>1, CallAlone
<1>3. Idle.notify = {} /\ Idle.place = {}
  BY DEF Idle
<1>4. todo'[c].dequeue /\ todo'[c].place = {}
  <2>1. todo' = [todo EXCEPT ![c].dequeue = TRUE]
    BY DEF UnpauseAll, Unpause
  <2> QED BY <1>0, <1>2, <1>3, <2>1 DEF Pending
<1>5. NotesGoOn
  BY <1>2, <1>3 DEF NotesGoOn
<1>6. \A h \in Gids : Leaves(h)
  <2>1. \A h \in Gids : \/ states'[h] = states[h]
                        \/ /\ states[h].status = "paused"
                           /\ states'[h] = [states[h] EXCEPT !.status = "waiting"]
    BY <1>0 DEF UnpauseAll, Unpause
  <2> QED BY <1>0, <2>1 DEF Leaves, Queued, Download
<1>7. OrderInv'
  BY <1>1, CallOrder DEF NewsInv
<1> QED BY <1>0, <1>2, <1>4, <1>5, <1>6, <1>7, LeftNews, ThreadNotices DEF NewsInv

-----------------------------------------------------------------------------
(* Steps that start downloads.                                             *)

\* An active download is restarted: its new run replaces the old one.
LEMMA NewsChangeOption ==
    ASSUME TypeOK, TypeOK', RunInv, NewsInv, NEW c \in Clients, NEW g \in Gids, ChangeOption(c, g)
    PROVE  NewsInv'
<1>0. /\ todo \in [Threads -> Pending] /\ c \in Threads /\ todo[c] \in Pending
      /\ states \in [Gids -> Download] /\ states[g] \in Download
  BY DEF TypeOK, Threads
<1>1. CASE g \in With(Queued)
  BY <1>1, NewsKeptCalls
<1>2. CASE g \notin With(Queued)
  <2> DEFINE new == [states[g] EXCEPT !.job = @ + 1, !.token = @ + 1, !.gen = @ + 1, !.partial = FALSE]
  <2>1. /\ states[g].status = "active" /\ states' = [states EXCEPT ![g] = new]
        /\ todo' = [todo EXCEPT ![c].cancel = {<<g, states[g].token>>},
                                ![c].spawn = {StartOf(g, new)}]
    BY <1>2 DEF ChangeOption
  <2>2. Call(c)
    BY DEF Call
  <2>3. /\ todo[c] = Idle /\ runs' = runs /\ sent' = sent /\ GoesOn
        /\ \A u \in Threads : u # c => todo'[u] = todo[u]
    BY <2>2, CallAlone
  <2>4. /\ states'[g] = new /\ new.status = "active"
        /\ \A h \in Gids : h # g => states'[h] = states[h]
    BY <1>0, <2>1 DEF Download
  <2> HIDE DEF new
  <2>5. PICK sp \in Going' : sp.gid = g /\ sp.gen = new.gen /\ sp.token = new.token /\ sp.job = new.job
    <3>1. StartOf(g, new) \in todo'[c].spawn
      BY <1>0, <2>1 DEF Pending
    <3>2. StartOf(g, new) \in Going'
      BY <1>0, <3>1 DEF Going
    <3> QED BY <3>2 DEF StartOf
  <2>6. RunBy(g, sp)' /\ NotStale(sp.gid, sp.gen)'
    BY <2>4, <2>5 DEF RunBy, NotStale
  <2>7. NoticeInv'
    BY <2>5, <2>6 DEF NoticeInv, Noticed
  <2>8. ActiveInv'
    <3>1. ASSUME NEW h \in Gids, states'[h].status = "active", h # g
          PROVE  \E s \in Going' : RunBy(h, s)'
      <4>1. h \in With({"active"}) /\ states'[h] = states[h]
        BY <2>4, <3>1 DEF With
      <4>2. PICK s \in Going : RunBy(h, s)
        BY <4>1 DEF NewsInv, ActiveInv
      <4>3. RunBy(h, s)'
        BY <4>1, <4>2 DEF RunBy
      <4> QED BY <2>3, <4>2, <4>3 DEF GoesOn
    <3> QED BY <2>5, <2>6, <3>1 DEF ActiveInv, With
  <2>9. EndInv'
    <3>1. NotesGoOn
      BY <2>3 DEF NotesGoOn, Idle
    <3>2. \A h \in Gids : states'[h].status \in Terminal => StaysEnded(h)
      BY <2>3, <2>4 DEF StaysEnded, GoesOn, Terminal
    <3> QED BY <3>1, <3>2, EndStep DEF NewsInv, NotesGoOn
  <2>10. OrderInv'
    BY <2>2, CallOrder DEF NewsInv
  <2> QED BY <2>7, <2>8, <2>9, <2>10 DEF NewsInv
<1> QED BY <1>1, <1>2

\* Whatever goes on was begun.
LEMMA GoingIsBegun ==
    ASSUME TypeOK, RunInv, NEW s \in Going
    PROVE  Begun(s.gid, s.gen)
<1>1. CASE \E t \in Threads : s \in todo[t].spawn
  BY <1>1 DEF RunInv, SpawnInv
<1>2. CASE \E r \in RunIds : runs[r].phase \in Alive /\ s = StartedAs(r)
  BY <1>2 DEF StartedAs, Alive, RunInv, BegunInv
<1> QED BY <1>1, <1>2 DEF Going

\* A new download is refused, starts at once, waits or is paused.
LEMMA NewsInsert ==
    ASSUME TypeOK, TypeOK', TokenInv, RunInv, NewsInv, NEW c \in Clients, InsertState(c)
    PROVE  NewsInv'
<1>1. PICK req \in todo[c].insert, gone \in Prunable(states, MaxRetained - 1) :
        InsertState(c)!(req, gone)
  BY DEF InsertState
<1>2. c \in Threads /\ todo[c] \in Pending /\ todo'[c] \in Pending /\ todo \in [Threads -> Pending]
      /\ states \in [Gids -> Download]
  BY DEF Threads, TypeOK
<1>3. /\ UNCHANGED <<runs, sent>>
      /\ \/ /\ states' = Forget(states, gone)
            /\ todo' = [todo EXCEPT ![c] = Idle]
         \/ /\ states' = [Forget(states, gone) EXCEPT ![req.gid] = NewDownload(req)]
            /\ todo' = [todo EXCEPT ![c] = AfterInsert(req)]
  BY <1>1
<1>4. \A u \in Threads : u # c => todo'[u] = todo[u]
  BY <1>2, <1>3
<1>5. /\ req.gid \in Gids /\ states[req.gid].status = "absent" /\ ~Touched(req.gid)
  BY <1>2 DEF TokenInv, InsertedIsFresh, Pending, AddRequest, Touched
<1>6. todo[c].spawn = {} /\ todo[c].notify = {} /\ ~todo[c].dequeue
  <2>1. WorkOK(todo[c]) /\ OrderOK(todo[c]) /\ todo[c].insert # {}
    BY <1>2 DEF RunInv, WorkInv, NewsInv, OrderInv
  <2> QED BY <2>1 DEF WorkOK, OrderOK
<1>7. GoesOn
  <2>1. \A u \in Threads : todo[u].spawn \subseteq todo'[u].spawn
    BY <1>4, <1>6
  <2> QED BY <1>3, <2>1, GoesOnWith
<1>8. NotesGoOn /\ StaleLeaves
  BY <1>3, <1>4, <1>6, <1>7 DEF NotesGoOn, StaleLeaves, GoesOn
<1>9. \A h \in gone : h \in Gids /\ states[h].status \in Terminal
  BY DEF Prunable
<1>10. OrderInv'
  BY CallOrder DEF NewsInv
<1>11. CASE states' = Forget(states, gone) /\ todo' = [todo EXCEPT ![c] = Idle]
  <2>1. \A g \in Gids : Keeps(g)
    BY <1>9, <1>11 DEF Forget, Absent, Keeps, SameJob
  <2>2. \A t \in Threads : Noticing(t) => todo'[t].dequeue /\ todo'[t].place \subseteq todo[t].place
    BY <1>4, <1>6 DEF Noticing
  <2> QED BY <1>8, <1>10, <2>1, <2>2, KeptNews, KeptNotice DEF NewsInv
<1>12. CASE /\ states' = [Forget(states, gone) EXCEPT ![req.gid] = NewDownload(req)]
            /\ todo' = [todo EXCEPT ![c] = AfterInsert(req)]
  <2>1. states'[req.gid] = NewDownload(req) /\ \A g \in Gids : g # req.gid => Keeps(g)
    BY <1>5, <1>9, <1>12 DEF Forget, Absent, Keeps, SameJob
  <2>2. todo'[c] = AfterInsert(req)
    BY <1>2, <1>12
  <2>3. states'[req.gid].status = NewStatus /\ NewStatus \in {"active", "paused", "waiting"}
    BY <2>1 DEF NewDownload, NewStatus
  <2>4. ActiveInv'
    <3>1. ASSUME states'[req.gid].status = "active" PROVE \E s \in Going' : RunBy(req.gid, s)'
      <4>1. PICK sp \in todo'[c].spawn : sp = StartOf(req.gid, NewDownload(req))
        BY <2>2, <2>3, <3>1 DEF AfterInsert, Idle
      <4>2. sp \in Going'
        BY <1>2 DEF Going
      <4>3. RunBy(req.gid, sp)'
        BY <2>1, <4>1 DEF RunBy, StartOf
      <4> QED BY <4>2, <4>3
    <3>2. \A g \in Gids : g # req.gid /\ states'[g].status = "active" => StaysActive(g)
      BY <2>1 DEF Keeps, StaysActive
    <3> QED BY <1>7, <3>1, <3>2, ActiveStep DEF NewsInv, GoesOn
  <2>5. EndInv'
    <3>1. \A g \in Gids : states'[g].status \in Terminal => StaysEnded(g)
      BY <1>7, <2>1, <2>3 DEF Keeps, StaysEnded, GoesOn, Terminal
    <3> QED BY <1>8, <3>1, EndStep DEF NewsInv, NotesGoOn
  <2>6. NoticeInv'
    <3>1. CASE NewStatus = "waiting"
      <4>1. todo'[c].dequeue /\ \A p \in todo'[c].place : p[1] = req.gid
        <5>1. AfterInsert(req).dequeue = (NewStatus = "waiting")
          BY DEF AfterInsert, Idle
        <5>2. AfterInsert(req).place = IF QueueEnabled THEN {req.gid} \X req.at ELSE {}
          BY DEF AfterInsert, Idle
        <5>3. \A p \in AfterInsert(req).place : p[1] = req.gid
          BY <5>2
        <5> QED BY <2>2, <3>1, <5>1, <5>3
      <4>2. req.gid \in With(Queued)'
        BY <1>5, <2>3, <3>1 DEF With, Queued
      <4> QED BY <1>2, <4>1, <4>2 DEF NoticeInv, Noticed, Noticing
    <3>2. CASE NewStatus # "waiting"
      <4>1. /\ With({"active"}) \subseteq With({"active"})'
            /\ With({"waiting"})' \subseteq With({"waiting"})
            /\ With(Queued) \subseteq With(Queued)'
        BY <1>5, <2>1, <2>3, <3>2 DEF With, Keeps, Terminal, Queued
      <4>2. \A t \in Threads : Noticing(t) => Noticing(t)'
        BY <1>4, <1>6, <4>1 DEF Noticing
      <4>3. ASSUME NEW s \in Going, NotStale(s.gid, s.gen)
            PROVE  s \in Going' /\ NotStale(s.gid, s.gen)'
        <5>1. s.gid # req.gid
          BY <1>5, GoingIsBegun DEF Begun
        <5>2. s.gid \in Gids
          BY GoingType DEF QueuedStart
        <5> QED BY <1>7, <2>1, <4>3, <5>1, <5>2 DEF GoesOn, NotStale, Keeps, Terminal
      <4> QED BY <4>1, <4>2, <4>3, NoticeStep DEF NewsInv
    <3> QED BY <3>1, <3>2
  <2> QED BY <1>10, <2>4, <2>5, <2>6 DEF NewsInv
<1> QED BY <1>3, <1>11, <1>12

\* Of the downloads that are not chosen, one has only chosen ones ahead.
LEMMA FirstLeft ==
    ASSUME TypeOK, NEW S \in SUBSET With({"waiting"}), S # {}
    PROVE  \E g \in S : \A h \in S : ~Before(states, h, g)
<1> DEFINE W == With({"waiting"})
           places == {Ahead(states, W, g) : g \in S}
           R == {ss \in Nat \X Nat : ss[1] < ss[2]}
<1>1. W \in SUBSET Gids /\ S \subseteq W
  BY DEF With
<1>2. places \subseteq Nat /\ places # {}
  BY <1>1, AheadNat
<1>3. IsWellFoundedOn(R, Nat)
  BY NatLessThanWellFounded, Zenon DEF OpToRel
<1> HIDE DEF R
<1>4. PICK n \in places : \A m \in places : ~ (<<m, n>> \in R)
  BY <1>2, <1>3, WFMin
<1>5. \A m \in places : ~(m < n)
  BY <1>2, <1>4 DEF R
<1>6. PICK g \in S : n = Ahead(states, W, g)
  OBVIOUS
<1>7. ASSUME NEW h \in S, Before(states, h, g) PROVE FALSE
  <2>1. Ahead(states, W, h) < Ahead(states, W, g)
    BY <1>1, <1>7, AheadGrows
  <2> QED BY <1>5, <1>6, <2>1
<1> QED BY <1>7

\* Dequeueing leaves no slot free while a download waits.
LEMMA ChosenFills ==
    ASSUME TypeOK, With({"waiting"}) \ Chosen # {}
    PROVE  ~(Cardinality(With({"active"}) \cup Chosen) < Limit)
<1> DEFINE A == With({"active"})
           W == With({"waiting"})
<1>1. /\ A \in SUBSET Gids /\ W \in SUBSET Gids /\ Chosen \in SUBSET W /\ Chosen \in SUBSET Gids
      /\ A \cap Chosen = {}
  BY DEF With, Chosen
<1>2. PICK g \in W \ Chosen : \A h \in W \ Chosen : ~Before(states, h, g)
  BY FirstLeft
<1> DEFINE ahead == {h \in W : Before(states, h, g)}
<1>3. ahead \in SUBSET Chosen
  BY <1>2
<1>4. ~(Cardinality(A) + Cardinality(ahead) < Limit)
  BY <1>2 DEF Chosen, Ahead
<1> HIDE DEF A, W, ahead
<1>5. /\ IsFiniteSet(A) /\ IsFiniteSet(Chosen) /\ Cardinality(A) \in Nat /\ Cardinality(Chosen) \in Nat
      /\ Cardinality(ahead) \in Nat
  <2>1. ahead \in SUBSET Gids
    BY <1>1, <1>3
  <2> QED BY <1>1, <2>1, GidsFinite
<1>6. Cardinality(ahead) <= Cardinality(Chosen)
  BY <1>3, <1>5, FS_Subset
<1>7. Cardinality(A \cup Chosen) = Cardinality(A) + Cardinality(Chosen)
  <2>1. Cardinality(A \cap Chosen) = 0
    BY <1>1, FS_EmptySet
  <2>2. Cardinality(A \cup Chosen) = Cardinality(A) + Cardinality(Chosen) - Cardinality(A \cap Chosen)
    BY <1>5, FS_Union
  <2> QED BY <1>5, <2>1, <2>2
<1>8. ~(Cardinality(A \cup Chosen) < Limit)
  BY <1>4, <1>5, <1>6, <1>7, LimitNat
<1> QED BY <1>8 DEF A

\* start_waiting_downloads: what it starts it will spawn, and it leaves no slot free
\* beside a download that waits.
LEMMA NewsDequeue ==
    ASSUME TypeOK, TypeOK', RunInv, NewsInv, NEW t \in Threads, DequeueWaiting(t)
    PROVE  NewsInv'
<1>0. todo \in [Threads -> Pending] /\ todo[t] \in Pending /\ \A h \in Gids : states[h] \in Download
  BY DEF TypeOK
<1> DEFINE N == {StartOf(g, Started[g]) : g \in Chosen}
<1>1. /\ states' = Started /\ UNCHANGED <<runs, sent>> /\ todo[t].dequeue
      /\ todo' = [todo EXCEPT ![t].dequeue = FALSE, ![t].spawn = N]
  BY DEF DequeueWaiting
<1>2. Chosen \subseteq With({"waiting"}) /\ Chosen \subseteq Gids
  BY DEF Chosen, With
<1>3. \A g \in Gids : IF g \in Chosen THEN states'[g].status = "active" ELSE states'[g] = states[g]
  BY <1>0, <1>1, <1>2 DEF Started, Download
<1>4. /\ \A u \in Threads : u # t => todo'[u] = todo[u]
      /\ todo'[t].spawn = N /\ todo'[t].notify = todo[t].notify
  BY <1>0, <1>1 DEF Pending
<1>5. \A g \in Chosen : StartOf(g, states'[g]) \in N
  BY <1>1
<1> HIDE DEF N
<1>6. GoesOn
  <2>1. todo[t].spawn = {}
    BY <1>1 DEF RunInv, WorkInv, WorkOK
  <2>2. \A u \in Threads : todo[u].spawn \subseteq todo'[u].spawn
    BY <1>4, <2>1
  <2> QED BY <1>1, <2>2, GoesOnWith
<1>7. ActiveInv'
  <2>1. ASSUME NEW g \in Chosen PROVE \E s \in Going' : RunBy(g, s)'
    <3>1. PICK sp \in N : sp = StartOf(g, states'[g])
      BY <1>5
    <3>2. sp \in Going'
      BY <1>4 DEF Going
    <3>3. RunBy(g, sp)'
      BY <3>1 DEF RunBy, StartOf
    <3> QED BY <3>2, <3>3
  <2>2. \A g \in Gids : states'[g].status = "active" /\ g \notin Chosen => StaysActive(g)
    BY <1>3 DEF StaysActive, SameJob
  <2> QED BY <1>6, <2>1, <2>2, ActiveStep DEF NewsInv, GoesOn
<1>8. EndInv'
  <2>1. \A u \in Threads : todo[u].notify \subseteq todo'[u].notify \cup sent'
    BY <1>4
  <2>2. \A g \in Gids : states'[g].status \in Terminal => StaysEnded(g)
    BY <1>3, <1>6 DEF StaysEnded, GoesOn, Terminal
  <2> QED BY <1>1, <2>1, <2>2, EndStep DEF NewsInv
<1>9. NoticeInv'
  <2>1. With({"active"})' = With({"active"}) \cup Chosen
    BY <1>2, <1>3 DEF With
  <2>2. With({"waiting"})' \subseteq With({"waiting"}) \ Chosen
    BY <1>2, <1>3 DEF With
  <2>3. With({"waiting"})' # {} => ~(Cardinality(With({"active"})') < Limit)
    BY <2>1, <2>2, ChosenFills
  <2> QED BY <2>3 DEF NoticeInv, FreeSlot, Limit
<1>10. OrderInv'
  BY UnlockOrder DEF NewsInv, AfterUnlock
<1> QED BY <1>7, <1>8, <1>9, <1>10 DEF NewsInv

-----------------------------------------------------------------------------
(* The end of a run.                                                       *)

\* The last event of a run completes its download, whichever run is the current one:
\* that one is still to end, will be taken for current and announces it.
LEMMA NewsReport ==
    ASSUME TypeOK, RunInv, NewsInv, NEW r \in RunIds, ReportFinished(r)
    PROVE  NewsInv'
<1>0. runs \in [RunIds -> Run] /\ states \in [Gids -> Download] /\ r[1] \in Gids
  BY DEF TypeOK, RunIds
<1>1. todo' = todo /\ sent' = sent
  BY DEF ReportFinished
<1>2. /\ runs[r].phase \in Alive /\ runs'[r].phase \in Alive
      /\ runs'[r].token = runs[r].token /\ runs'[r].job = runs[r].job
      /\ \A q \in RunIds : q # r => runs'[q] = runs[q]
  BY <1>0 DEF ReportFinished, Run, Alive
<1>3. GoesOn
  <2>1. \A q \in RunIds : runs[q].phase \in Alive => runs'[q].phase \in Alive /\ StartedAs(q)' = StartedAs(q)
    BY <1>2 DEF StartedAs
  <2> QED BY <1>1, <2>1 DEF GoesOn, Going
<1>4. NotesGoOn /\ StaleLeaves
  BY <1>1, <1>3 DEF NotesGoOn, StaleLeaves, GoesOn
<1>5. OrderInv'
  BY RunOrder DEF NewsInv
<1>6. CASE states[r[1]].status # "active"
  <2>1. states' = states
    BY <1>6 DEF ReportFinished
  <2>2. \A g \in Gids : Keeps(g)
    BY <2>1 DEF Keeps, SameJob
  <2>3. \A t \in Threads : Noticing(t) => todo'[t].dequeue /\ todo'[t].place \subseteq todo[t].place
    BY <1>1 DEF Noticing
  <2> QED BY <1>4, <1>5, <2>2, <2>3, KeptNews, KeptNotice DEF NewsInv
<1>7. CASE states[r[1]].status = "active"
  <2> DEFINE g == r[1]
  <2>1. /\ states'[g].status = "complete" /\ states'[g].gen = states[g].gen
        /\ \A h \in Gids : h # g => states'[h] = states[h]
    BY <1>0, <1>7 DEF ReportFinished, Download
  <2>2. g \in With({"active"})
    BY <1>0, <1>7 DEF With
  <2>3. PICK s \in Going : RunBy(g, s)
    BY <2>2 DEF NewsInv, ActiveInv
  <2>4. Announced(g)'
    <3>1. s \in Going' /\ s.gid = g /\ s.gen = states'[g].gen
      BY <1>3, <2>1, <2>3 DEF GoesOn, RunBy
    <3> QED BY <2>1, <3>1 DEF Announced
  <2>5. \A h \in Gids : Leaves(h) \/ (Announced(h)' /\ states'[h].status \in Terminal)
    BY <2>1, <2>4 DEF Leaves, Terminal
  <2>6. NoticeInv'
    BY <1>3, <2>1, <2>2, FreedIsNoticed DEF NewsInv
  <2> QED BY <1>3, <1>4, <1>5, <2>5, <2>6, LeftNews DEF NewsInv
<1> QED BY <1>6, <1>7

\* How finish_download is called: the status decides the notification.
LEMMA FinishCases ==
    ASSUME TypeOK, NEW r \in RunIds, Finish(r)
    PROVE  /\ runs[r].phase \in Alive
           /\ \E status \in {"paused"} \cup Terminal : \E notes :
                /\ FinishDownload(r, status, notes)
                /\ status \in Terminal => notes = Notes(NoteFor(status), {r[1]})
<1>1. CASE FinishOk(r)
  BY <1>1 DEF FinishOk, Alive, Terminal, NoteFor
<1>2. CASE FinishCancelled(r)
  BY <1>2 DEF FinishCancelled, Alive, Terminal, NoteFor
<1>3. CASE FinishError(r)
  BY <1>3 DEF FinishError, Alive, Terminal, NoteFor
<1> QED BY <1>1, <1>2, <1>3 DEF Finish

LEMMA NewsFinish ==
    ASSUME TypeOK, RunInv, NewsInv, NEW r \in RunIds, Finish(r)
    PROVE  NewsInv'
<1> DEFINE g == r[1]
           ending(n) == [Idle EXCEPT !.notify = n, !.dequeue = TRUE]
<1>1. /\ runs \in [RunIds -> Run] /\ states \in [Gids -> Download] /\ g \in Gids /\ r \in Threads
      /\ todo \in [Threads -> Pending]
  BY DEF TypeOK, RunIds, Threads
<1>2. PICK status, notes :
        /\ status \in {"paused"} \cup Terminal
        /\ FinishDownload(r, status, notes)
        /\ status \in Terminal => notes = Notes(NoteFor(status), {g})
  BY FinishCases
<1>3. runs[r].phase \in Alive /\ runs[r].phase # "done" /\ runs[r].phase # "none"
  BY FinishCases DEF Alive
<1>4. /\ todo[r].spawn = {} /\ todo[r].notify = {} /\ ~todo[r].dequeue
  BY <1>3 DEF RunInv, WorkInv, RunOK, NewsInv, OrderInv
<1>5. /\ \A q \in RunIds : q # r => runs'[q] = runs[q]
      /\ \A u \in Threads : u # r => todo'[u] = todo[u]
      /\ sent' = sent
  BY <1>1, <1>2 DEF FinishDownload
<1>6. \A s \in Going : s \in Going' \/ (s.gid = g /\ s.gen = r[2])
  <2>1. \A q \in RunIds : runs[q].phase \in Alive =>
           \/ StartedAs(q) \in Going' \/ (StartedAs(q).gid = g /\ StartedAs(q).gen = r[2])
    <3>1. ASSUME NEW q \in RunIds, runs[q].phase \in Alive, q # r PROVE StartedAs(q) \in Going'
      BY <1>5, <3>1 DEF Going, StartedAs
    <3>2. StartedAs(r).gid = g /\ StartedAs(r).gen = r[2]
      BY DEF StartedAs
    <3> QED BY <3>1, <3>2
  <2>2. \A u \in Threads : todo[u].spawn \subseteq todo'[u].spawn
    BY <1>4, <1>5
  <2> QED BY <2>1, <2>2 DEF Going
<1>7. NotesGoOn
  BY <1>4, <1>5 DEF NotesGoOn
<1>8. OrderInv'
  BY RunOrder DEF NewsInv
<1>9. \A n : ending(n).dequeue /\ ending(n).place = {} /\ ending(n).notify = n
  BY DEF Idle
<1> HIDE DEF ending
<1>10. CASE states[g].status = "absent" /\ UNCHANGED states /\ \E n : todo' = [todo EXCEPT ![r] = ending(n)]
  <2>1. todo'[r].dequeue /\ todo'[r].place = {}
    BY <1>1, <1>9, <1>10
  <2>2. ActiveInv'
    <3>1. \A h \in Gids : states'[h].status = "active" => StaysActive(h)
      BY <1>10 DEF StaysActive, SameJob
    <3> QED BY <1>6, <1>10, <3>1, ActiveStep DEF NewsInv
  <2>3. EndInv'
    <3>1. \A h \in Gids : states'[h].status \in Terminal => StaysEnded(h)
      BY <1>6, <1>10 DEF StaysEnded, Terminal
    <3> QED BY <1>7, <3>1, EndStep DEF NewsInv, NotesGoOn
  <2> QED BY <1>1, <1>8, <2>1, <2>2, <2>3, ThreadNotices DEF NewsInv
<1>11. CASE states[g].status # "absent" /\ states[g].gen # r[2] /\ UNCHANGED <<states, todo>>
  <2>1. StaleLeaves
    BY <1>6, <1>11 DEF StaleLeaves
  <2>2. \A h \in Gids : Keeps(h)
    BY <1>11 DEF Keeps, SameJob
  <2>3. \A t \in Threads : Noticing(t) => todo'[t].dequeue /\ todo'[t].place \subseteq todo[t].place
    BY <1>11 DEF Noticing
  <2> QED BY <1>7, <1>8, <2>1, <2>2, <2>3, KeptNews, KeptNotice DEF NewsInv
<1>12. CASE /\ states[g].status # "absent" /\ states[g].gen = r[2]
            /\ todo' = [todo EXCEPT ![r] = ending(notes)]
            /\ LET ended == [states EXCEPT ![g].status = status]
               IN  \E gone \in Prunable(ended, MaxRetained) : states' = Forget(ended, gone)
  <2> DEFINE ended == [states EXCEPT ![g].status = status]
  <2>1. PICK gone \in Prunable(ended, MaxRetained) : states' = Forget(ended, gone)
    BY <1>12
  <2>2. /\ ended[g].status = status /\ ended[g].gen = states[g].gen
        /\ \A h \in Gids : h # g => ended[h] = states[h]
    BY <1>1 DEF Download
  <2>3. \A h \in Gids : states'[h] = ended[h] \/ states'[h].status = "absent"
    BY <2>1 DEF Forget, Absent
  <2> HIDE DEF ended
  <2>4. states'[g].status = status \/ states'[g].status = "absent"
    BY <1>1, <2>2, <2>3
  <2>5. \A h \in Gids : h # g => states'[h] = states[h] \/ states'[h].status = "absent"
    BY <2>2, <2>3
  <2>6. todo'[r] = ending(notes)
    BY <1>1, <1>12
  <2>7. ActiveInv'
    <3>1. states'[g].status # "active"
      BY <1>2, <2>4 DEF Terminal
    <3>2. \A h \in Gids : states'[h].status = "active" => StaysActive(h)
      BY <2>5, <3>1 DEF StaysActive, SameJob
    <3> QED BY <1>6, <3>1, <3>2, ActiveStep DEF NewsInv
  <2>8. EndInv'
    <3>1. ASSUME states'[g].status \in Terminal PROVE Announced(g)'
      <4>1. states'[g].status = status /\ status \in Terminal
        BY <2>4, <3>1 DEF Terminal
      <4>2. todo'[r].notify = Notes(NoteFor(status), {g})
        BY <1>2, <1>9, <2>6, <4>1
      <4>3. Note(g)' = <<NoteFor(status), g>> /\ NoteFor(states[g].status)' = NoteFor(status)
        BY <4>1 DEF Note, NoteFor
      <4>4. NoteFor(status) \in Observed => Note(g)' \in todo'[r].notify
        BY <4>2, <4>3 DEF Notes
      <4> QED BY <1>1, <4>3, <4>4 DEF Announced
    <3>2. \A h \in Gids : h # g /\ states'[h].status \in Terminal => StaysEnded(h)
      BY <1>6, <2>5 DEF StaysEnded, Terminal
    <3> QED BY <1>7, <3>1, <3>2, EndStep DEF NewsInv, NotesGoOn
  <2>9. NoticeInv'
    BY <1>1, <1>9, <2>6, ThreadNotices
  <2> QED BY <1>8, <2>7, <2>8, <2>9 DEF NewsInv
<1> QED BY <1>2, <1>10, <1>11, <1>12 DEF FinishDownload, ending

-----------------------------------------------------------------------------
(* The theorems.                                                           *)

LEMMA NewsInit == Init => NewsInv
<1> SUFFICES ASSUME Init PROVE NewsInv
  OBVIOUS
<1>1. /\ \A t \in Threads : todo[t] = Idle
      /\ \A g \in Gids : states[g].status = "absent"
  BY DEF Init, Absent
<1>2. OrderInv
  <2>1. Idle.insert = {} /\ Idle.place = {} /\ Idle.notify = {}
    BY DEF Idle
  <2>2. RunIds \subseteq Threads
    BY DEF Threads
  <2> QED BY <1>1, <2>1, <2>2 DEF OrderInv, OrderOK
<1>3. \A S : "absent" \notin S => With(S) = {}
  BY <1>1 DEF With
<1> QED BY <1>2, <1>3 DEF NewsInv, ActiveInv, NoticeInv, EndInv, Terminal

LEMMA NewsNext ==
    TypeOK /\ TokenInv /\ RunInv /\ NewsInv /\ [Next]_vars => NewsInv'
<1> SUFFICES ASSUME TypeOK, TokenInv, RunInv, NewsInv, [Next]_vars, TypeOK' PROVE NewsInv'
  BY TokenNext
<1>1. ASSUME NEW c \in Clients, Call(c) \/ InsertState(c) \/ PlaceAdded(c) PROVE NewsInv'
  BY <1>1, NewsKeptCalls, NewsPlace, NewsRemove, NewsPauses, NewsUnpauses, NewsChangeOption, NewsInsert
     DEF Call
<1>2. ASSUME NEW t \in Threads, AfterUnlock(t) PROVE NewsInv'
  BY <1>2, NewsUnlock, NewsDequeue DEF AfterUnlock
<1>3. ASSUME NEW r \in RunIds, BeginSession(r) \/ ReportFinished(r) \/ Finish(r) PROVE NewsInv'
  BY <1>3, NewsBegin, NewsReport, NewsFinish
<1>4. CASE UNCHANGED vars
  <2>1. UNCHANGED <<states, runs, todo, sent>>
    BY <1>4 DEF vars
  <2>2. \A g \in Gids : Keeps(g)
    BY <2>1 DEF Keeps, SameJob
  <2>3. GoesOn
    BY <2>1, GoesOnWith
  <2>4. StaleLeaves /\ NotesGoOn
    BY <2>1, <2>3 DEF StaleLeaves, NotesGoOn, GoesOn
  <2>5. \A t \in Threads : Noticing(t) => todo'[t].dequeue /\ todo'[t].place \subseteq todo[t].place
    BY <2>1 DEF Noticing
  <2>6. OrderInv'
    BY <2>1 DEF NewsInv, OrderInv, OrderOK
  <2> QED BY <2>2, <2>4, <2>5, <2>6, KeptNews, KeptNotice DEF NewsInv
<1> QED BY <1>1, <1>2, <1>3, <1>4 DEF Next

LEMMA NewsAlways == Spec => [](TypeOK /\ RunInv /\ NewsInv)
BY TokenInit, TokenNext, RunInit, RunNext, NewsInit, NewsNext, PTL DEF Spec

\* No slot is taken by a download nobody runs: an active download has a run, begun or
\* about to be, of its generation and with its token, its URI and its options, but for
\* those that a change set before it was rejected.
THEOREM ActiveHasRun == Spec => []ActiveIsRun
<1>1. TypeOK /\ NewsInv => ActiveIsRun
  <2> SUFFICES ASSUME TypeOK, NewsInv, NEW g \in With({"active"})
               PROVE  \/ /\ runs[<<g, states[g].gen>>].phase \in Alive
                         /\ Serves(runs[<<g, states[g].gen>>], states[g])
                      \/ \E t \in Threads : \E start \in todo[t].spawn :
                           /\ start.gid = g /\ start.gen = states[g].gen
                           /\ Serves(start, states[g])
    BY DEF ActiveIsRun, Alive
  <2>1. PICK s \in Going : RunBy(g, s)
    BY DEF NewsInv, ActiveInv
  <2>2. s.gid = g /\ s.gen = states[g].gen /\ Serves(s, states[g])
    BY <2>1 DEF RunBy, Serves
  <2>3. CASE \E r \in RunIds : runs[r].phase \in Alive /\ s = StartedAs(r)
    <3>1. PICK r \in RunIds : runs[r].phase \in Alive /\ s = StartedAs(r)
      BY <2>3
    <3>2. r = <<g, states[g].gen>> /\ Serves(runs[r], states[g])
      BY <2>2, <3>1 DEF StartedAs, RunIds, Serves
    <3> QED BY <3>1, <3>2
  <2> QED BY <2>2, <2>3 DEF Going
<1> QED BY <1>1, NewsAlways, PTL

\* No wake-up is lost: while a download waits and a slot is free, some thread is on
\* its way to start it, or a run is whose end will, whatever calls and ends of runs
\* interleave between the unlock of one of them and the start of the next download.
THEOREM WaitingHasNotice == Spec => []WaitingIsNoticed
<1>1. TypeOK /\ NewsInv => WaitingIsNoticed
  <2> SUFFICES ASSUME TypeOK, Noticed
               PROVE  \/ \E t \in Threads : todo[t].dequeue
                      \/ \E t \in Threads : \E s \in todo[t].spawn : NotStale(s.gid, s.gen)
                      \/ \E r \in RunIds : /\ runs[r].phase \in {"starting", "working", "reported"}
                                           /\ NotStale(r[1], r[2])
    BY DEF WaitingIsNoticed, NewsInv, NoticeInv
  <2>1. CASE \E t \in Threads : Noticing(t)
    BY <2>1 DEF Noticing
  <2>2. ASSUME NEW s \in Going, NotStale(s.gid, s.gen)
        PROVE  \/ \E t \in Threads : \E sp \in todo[t].spawn : NotStale(sp.gid, sp.gen)
               \/ \E r \in RunIds : /\ runs[r].phase \in {"starting", "working", "reported"}
                                    /\ NotStale(r[1], r[2])
    BY <2>2 DEF Going, StartedAs, Alive
  <2> QED BY <2>1, <2>2 DEF Noticed
<1> QED BY <1>1, NewsAlways, PTL

\* When nothing is left to happen for a download that ended, the clients were sent
\* the notification of the status it ended with, and not only that of an earlier one.
\* (The hypothesis names the notifications that the model records.)
THEOREM EndHasNews ==
    ASSUME {"stop", "complete", "error"} \subseteq Observed
    PROVE  Spec => []EndIsAnnounced
<1>1. TypeOK /\ NewsInv => EndIsAnnounced
  <2> SUFFICES ASSUME TypeOK, NewsInv, NEW g \in With(Terminal), Quiet(g)
               PROVE  Note(g) \in sent
    BY DEF EndIsAnnounced, Note
  <2>1. g \in Gids /\ states[g].status \in Terminal
    BY DEF With
  <2>2. NoteFor(states[g].status) \in Observed /\ NoteFor(states[g].status) \in Methods
    BY <2>1 DEF NoteFor, Terminal, Methods
  <2>3. \A t \in Threads : Note(g) \notin todo[t].notify
    BY <2>2 DEF Quiet, Note
  <2>4. \A s \in Going : s.gid # g
    <3>1. \A t \in Threads : \A s \in todo[t].spawn : s.gid # g
      BY DEF Quiet
    <3>2. ASSUME NEW r \in RunIds, runs[r].phase \in Alive, r[1] = g PROVE FALSE
      <4>1. r[2] \in 1..MaxGen /\ r = <<g, r[2]>>
        BY <3>2 DEF RunIds
      <4> QED BY <3>2, <4>1 DEF Quiet, Alive
    <3> QED BY <3>1, <3>2 DEF Going, StartedAs
  <2> QED BY <2>2, <2>3, <2>4 DEF NewsInv, EndInv, Announced
<1> QED BY <1>1, NewsAlways, PTL

=============================================================================
