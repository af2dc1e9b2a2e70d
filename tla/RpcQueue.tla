------------------------------ MODULE RpcQueue ------------------------------
(***************************************************************************)
(* The JSON-RPC download manager of src/rpc.rs (RpcSessionManager): the    *)
(* retained downloads, the queue, the cancellation tokens, the runs it     *)
(* spawns and the lifecycle notifications it sends.                        *)
(*                                                                         *)
(* Every method of the manager is one critical section under the `states`  *)
(* mutex followed by effects the code performs after the unlock: cancel    *)
(* the token it replaced, send a notification, start waiting downloads     *)
(* (itself a second critical section, then spawns).  The critical section  *)
(* is one action here; what it leaves to do goes into todo[t] of the       *)
(* thread t that runs it and is done in later steps, so that other calls   *)
(* and finishing runs interleave wherever the code can be preempted.       *)
(*                                                                         *)
(* Abstracted: a gid is its number; the input, the options and the stream  *)
(* selector of a download are one version number `job`; progress counters  *)
(* are left out; created_at_ms follows the gid (ties of queue_position are *)
(* broken by gid) and updated_at_ms is left out (pruning may take any      *)
(* terminal download).                                                     *)
(***************************************************************************)
EXTENDS Integers, FiniteSets

CONSTANTS
    Clients,        \* threads that serve client calls
    MaxGid,         \* bound: downloads added in a behaviour
    MaxGen,         \* bound: runs of one download
    MaxJob,         \* bound: changes of one download's URI or options
    MaxPosition,    \* bound: queue positions that pause may reach
    QueueEnabled,   \* RpcQueueConfig.enabled
    MaxConcurrent,  \* RpcQueueConfig.max_concurrent_downloads
    PauseNew,       \* RpcQueueConfig.pause_new_downloads
    MaxActive,      \* MAX_ACTIVE_DOWNLOADS
    MaxRetained,    \* MAX_RETAINED_DOWNLOADS
    Offsets,        \* positions clients pass to changePosition and add
    Calls,          \* names of the client calls that occur
    Observed        \* the lifecycle notifications that are recorded in `sent`

ASSUME BoundsAssumption ==
    /\ MaxGid \in Nat /\ MaxGen \in Nat \ {0}
    /\ MaxJob \in Nat /\ MaxPosition \in Nat

ASSUME ConfigAssumption ==
    /\ QueueEnabled \in BOOLEAN /\ PauseNew \in BOOLEAN
    /\ MaxConcurrent \in Nat
    /\ MaxActive \in Nat \ {0} /\ MaxRetained \in Nat \ {0}
    /\ Offsets \subseteq Int
    /\ Observed \subseteq {"start", "pause", "stop", "complete", "error"}

VARIABLES
    states,     \* the BTreeMap of RpcDownloadState, by gid
    nextGid,    \* next_gid
    nextPos,    \* next_queue_position
    cancelled,  \* the cancellation tokens that are cancelled
    runs,       \* the spawned tasks, by gid and run_generation
    todo,       \* what each thread has left to do after its critical section
    sent        \* the observed lifecycle notifications that were sent

vars == <<states, nextGid, nextPos, cancelled, runs, todo, sent>>

-----------------------------------------------------------------------------
Gids == 1..MaxGid
RunIds == Gids \X (1..MaxGen)
Threads == Clients \cup RunIds
ASSUME ThreadsAssumption == Clients \cap RunIds = {}
Tokens == Gids \X Nat       \* the n-th token of a download

Queued == {"waiting", "paused"}
Terminal == {"complete", "error", "removed"}
Status == {"absent", "active"} \cup Queued \cup Terminal

Methods == {"start", "pause", "stop", "complete", "error"}

Notes(method, S) == {<<method, g>> : g \in IF method \in Observed THEN S ELSE {}}

Phases == {"none", "starting", "working", "reported", "done"}

\* RpcDownloadState; "absent" stands for a gid that is not in the map.  `job` counts the
\* changes of its URI and options; `partial` remembers that one of them was rejected half
\* way since it was started.
Download == [status : Status, gen : 0..MaxGen, token : Nat, pos : Nat, job : 0..MaxJob,
             partial : BOOLEAN]
Absent == [status |-> "absent", gen |-> 0, token |-> 0, pos |-> 0, job |-> 0,
           partial |-> FALSE]

\* RpcQueuedStart: what spawn_download takes out of the critical section.
QueuedStart == [gid : Gids, gen : 1..MaxGen, token : Nat, job : 0..MaxJob]
StartOf(g, s) == [gid |-> g, gen |-> s.gen, token |-> s.token, job |-> s.job]

Run == [phase : Phases, token : Nat, job : 0..MaxJob]
NotSpawned == [phase |-> "none", token |-> 0, job |-> 0]
Ended == [phase |-> "done", token |-> 0, job |-> 0]

\* `at` holds the position the client asked for, if it asked for one.
AddRequest == [gid : Gids, pos : Nat, at : SUBSET Offsets]

Pending == [insert : SUBSET AddRequest, place : SUBSET (Gids \X Int),
            cancel : SUBSET Tokens, notify : SUBSET (Methods \X Gids),
            dequeue : BOOLEAN, spawn : SUBSET QueuedStart]
Idle == [insert |-> {}, place |-> {}, cancel |-> {}, notify |-> {},
         dequeue |-> FALSE, spawn |-> {}]

With(S) == {g \in Gids : states[g].status \in S}

Limit == IF QueueEnabled
         THEN IF MaxConcurrent = 0 THEN 1 ELSE MaxConcurrent
         ELSE MaxActive

\* The order of ordered_states: queue_position, then age.
Before(st, g, h) == \/ st[g].pos < st[h].pos
                    \/ st[g].pos = st[h].pos /\ g < h

Ahead(st, S, g) == Cardinality({h \in S : Before(st, h, g)})

\* The sets of downloads that prune_retained_states may forget to get from
\* `st` down to n retained ones: terminal ones only, no more than needed.
Prunable(st, n) ==
    LET held == {g \in Gids : st[g].status # "absent"}
        ended == {g \in Gids : st[g].status \in Terminal}
        excess == Cardinality(held) - n
    IN  {gone \in SUBSET ended :
            IF excess <= 0 THEN gone = {}
            ELSE IF excess >= Cardinality(ended) THEN gone = ended
            ELSE Cardinality(gone) = excess}

Forget(st, gone) == [g \in Gids |-> IF g \in gone THEN Absent ELSE st[g]]

-----------------------------------------------------------------------------
Init ==
    /\ states = [g \in Gids |-> Absent]
    /\ nextGid = 1
    /\ nextPos = 0
    /\ cancelled = {}
    /\ runs = [r \in RunIds |-> NotSpawned]
    /\ todo = [t \in Threads |-> Idle]
    /\ sent = {}

Calling(c, call) == call \in Calls /\ todo[c] = Idle

-----------------------------------------------------------------------------
(* Adding a download.                                                      *)

\* next_gid and next_queue_position are atomics taken before the lock.
AddDownload(c) ==
    /\ Calling(c, "add")
    /\ nextGid <= MaxGid
    /\ \E at \in {{}} \cup {{p} : p \in IF "addAt" \in Calls THEN Offsets ELSE {}} :
         todo' = [todo EXCEPT ![c].insert = {[gid |-> nextGid, pos |-> nextPos, at |-> at]}]
    /\ nextGid' = nextGid + 1
    /\ nextPos' = nextPos + 1
    /\ UNCHANGED <<states, cancelled, runs, sent>>

\* With the queue off a download starts at once; otherwise it is placed, if
\* the client asked for a position, and then dequeued.
NewStatus == IF ~QueueEnabled THEN "active" ELSE IF PauseNew THEN "paused" ELSE "waiting"

NewDownload(req) == [status |-> NewStatus, gen |-> IF QueueEnabled THEN 0 ELSE 1,
                     token |-> 0, pos |-> req.pos, job |-> 0, partial |-> FALSE]

AfterInsert(req) ==
    [Idle EXCEPT
       !.place = IF QueueEnabled THEN {req.gid} \X req.at ELSE {},
       !.dequeue = NewStatus = "waiting",
       !.spawn = IF NewStatus = "active" THEN {StartOf(req.gid, NewDownload(req))} ELSE {}]

\* insert_state prunes, refuses when a limit is reached, or inserts.
InsertState(c) ==
    \E req \in todo[c].insert, gone \in Prunable(states, MaxRetained - 1) :
        LET kept == Forget(states, gone)
            held == {g \in Gids : kept[g].status # "absent"}
            refused == \/ /\ NewStatus = "active"
                          /\ Cardinality(With({"active"})) >= MaxActive
                       \/ Cardinality(held) >= MaxRetained
        IN  /\ IF refused
               THEN /\ states' = kept
                    /\ todo' = [todo EXCEPT ![c] = Idle]
               ELSE /\ states' = [kept EXCEPT ![req.gid] = NewDownload(req)]
                    /\ todo' = [todo EXCEPT ![c] = AfterInsert(req)]
            /\ UNCHANGED <<nextGid, nextPos, cancelled, runs, sent>>

-----------------------------------------------------------------------------
(* Reordering the queue.                                                   *)

\* Mutant: the downloads are numbered in the order of the map.
MovedByGid(g, target) ==
    LET others == With(Queued) \ {g}
        Index(h) == Cardinality({k \in others : k < h})
    IN  [h \in Gids |->
           IF h = g THEN [states[h] EXCEPT !.pos = target]
           ELSE IF h \in others
           THEN [states[h] EXCEPT !.pos = IF Index(h) < target THEN Index(h) ELSE Index(h) + 1]
           ELSE states[h]]

\* The queue with g taken out and put back at index `target`: every queued
\* download gets its index as its position.
Moved(g, target) ==
    LET others == With(Queued) \ {g}
    IN  [h \in Gids |->
           IF h = g THEN [states[h] EXCEPT !.pos = target]
           ELSE IF h \in others
           THEN LET i == Ahead(states, others, h)
                IN  [states[h] EXCEPT !.pos = IF i < target THEN i ELSE i + 1]
           ELSE states[h]]

Clamped(g, p) == LET len == Cardinality(With(Queued) \ {g})
                 IN  IF p < 0 THEN 0 ELSE IF p > len THEN len ELSE p

ChangePosition(c, g) ==
    /\ Calling(c, "changePosition")
    /\ g \in With(Queued)
    /\ LET current == Ahead(states, With(Queued), g)
           len == Cardinality(With(Queued) \ {g})
       IN  \E p \in Offsets, base \in {0, current, len} :     \* POS_SET, POS_CUR, POS_END
             states' = Moved(g, Clamped(g, base + p))
    /\ UNCHANGED <<nextGid, nextPos, cancelled, runs, todo, sent>>

\* The change_position call inside add.  If the download is no longer queued,
\* add returns the error and does not start waiting downloads.
PlaceAdded(c) ==
    /\ todo[c].insert = {}
    /\ \E place \in todo[c].place :
         LET g == place[1]
         IN  IF g \in With(Queued)
             THEN /\ states' = Moved(g, Clamped(g, place[2]))
                  /\ todo' = [todo EXCEPT ![c].place = {}]
             ELSE /\ todo' = [todo EXCEPT ![c] = Idle]
                  /\ UNCHANGED states
    /\ UNCHANGED <<nextGid, nextPos, cancelled, runs, sent>>

-----------------------------------------------------------------------------
(* Removing, pausing and resuming.                                         *)

\* Mutant: nothing is sent.

RemoveSilent(c, g) ==
    /\ Calling(c, "remove")
    /\ states[g].status \in Queued \cup {"active"}
    /\ cancelled' = cancelled \cup {<<g, states[g].token>>}
    /\ states' = [states EXCEPT ![g].status = "removed"]
    /\ todo' = [todo EXCEPT ![c].dequeue = states[g].status # "active"]
    /\ UNCHANGED <<nextGid, nextPos, runs, sent>>

Remove(c, g) ==
    /\ Calling(c, "remove")
    /\ states[g].status \in Queued \cup {"active"}
    /\ cancelled' = cancelled \cup {<<g, states[g].token>>}
    /\ states' = [states EXCEPT ![g].status = "removed"]
    /\ todo' = [todo EXCEPT ![c].notify = Notes("stop", {g}),
                            ![c].dequeue = states[g].status # "active"]
    /\ UNCHANGED <<nextGid, nextPos, runs, sent>>

\* Mutant: the token is kept.
PausingKeepsToken(s) == [s EXCEPT !.status = "paused"]

\* A paused download keeps no token of a run: pausing an active one replaces
\* it and cancels the old one after the unlock.
Pausing(s) == IF s.status = "active" THEN [s EXCEPT !.status = "paused", !.token = @ + 1]
              ELSE [s EXCEPT !.status = "paused"]

\* Mutant: nothing is cancelled.
NoTokens(S) == {}

OldTokens(S) == {<<g, states[g].token>> : g \in S \cap With({"active"})}

Pause(c, g) ==
    /\ Calling(c, "pause")
    /\ states[g].status \in {"waiting", "active"}
    /\ \A h \in With(Queued) : states[h].pos < MaxPosition
    /\ states' = [h \in Gids |->                        \* move_queued_state_to_front
                    IF h = g THEN [Pausing(states[g]) EXCEPT !.pos = 0]
                    ELSE IF h \in With(Queued) THEN [states[h] EXCEPT !.pos = @ + 1]
                    ELSE states[h]]
    /\ todo' = [todo EXCEPT ![c].cancel = OldTokens({g}),
                            ![c].notify = Notes("pause", {g})]
    /\ UNCHANGED <<nextGid, nextPos, cancelled, runs, sent>>

PauseAll(c) ==
    /\ Calling(c, "pauseAll")
    /\ LET paused == With({"waiting", "active"})
       IN  /\ states' = [g \in Gids |-> IF g \in paused THEN Pausing(states[g]) ELSE states[g]]
           /\ todo' = [todo EXCEPT ![c].cancel = OldTokens(paused),
                                   ![c].notify = Notes("pause", paused)]
    /\ UNCHANGED <<nextGid, nextPos, cancelled, runs, sent>>

\* Bound: a download that used MaxGen runs is not resumed.
Resumable(S) == \A g \in S : states[g].gen < MaxGen

\* Mutant: waiting downloads are not started.
UnpauseQuietly(c, g) ==
    /\ Calling(c, "unpause")
    /\ states[g].status = "paused"
    /\ Resumable({g})
    /\ states' = [states EXCEPT ![g].status = "waiting"]
    /\ UNCHANGED <<nextGid, nextPos, cancelled, runs, todo, sent>>

Unpause(c, g) ==
    /\ Calling(c, "unpause")
    /\ states[g].status = "paused"
    /\ Resumable({g})
    /\ states' = [states EXCEPT ![g].status = "waiting"]
    /\ todo' = [todo EXCEPT ![c].dequeue = TRUE]
    /\ UNCHANGED <<nextGid, nextPos, cancelled, runs, sent>>

UnpauseAll(c) ==
    /\ Calling(c, "unpauseAll")
    /\ Resumable(With({"paused"}))
    /\ states' = [g \in Gids |-> IF states[g].status = "paused"
                                 THEN [states[g] EXCEPT !.status = "waiting"] ELSE states[g]]
    /\ todo' = [todo EXCEPT ![c].dequeue = TRUE]
    /\ UNCHANGED <<nextGid, nextPos, cancelled, runs, sent>>

-----------------------------------------------------------------------------
(* Changing what a download does, and forgetting its result.               *)

ChangeUri(c, g) ==
    /\ Calling(c, "changeUri")
    /\ g \in With(Queued)
    /\ states[g].job < MaxJob
    /\ states' = [states EXCEPT ![g].job = @ + 1]
    /\ UNCHANGED <<nextGid, nextPos, cancelled, runs, todo, sent>>

\* Mutant: the restart takes the options from before the change.
ChangeOptionTooEarly(c, g) ==
    /\ Calling(c, "changeOption")
    /\ states[g].job < MaxJob
    /\ states[g].status = "active"
    /\ states[g].gen < MaxGen
    /\ LET new == [states[g] EXCEPT !.token = @ + 1, !.gen = @ + 1, !.partial = FALSE]
       IN  /\ states' = [states EXCEPT ![g] = [new EXCEPT !.job = @ + 1]]
           /\ todo' = [todo EXCEPT ![c].cancel = {<<g, states[g].token>>},
                                   ![c].spawn = {StartOf(g, new)}]
    /\ UNCHANGED <<nextGid, nextPos, cancelled, runs, sent>>

\* A queued download keeps its new options for its next start; an active one
\* is restarted: new token, new generation, the old token cancelled later.
ChangeOption(c, g) ==
    /\ Calling(c, "changeOption")
    /\ states[g].job < MaxJob
    /\ \/ /\ g \in With(Queued)
          /\ states' = [states EXCEPT ![g].job = @ + 1]
          /\ UNCHANGED todo
       \/ /\ states[g].status = "active"
          /\ states[g].gen < MaxGen
          /\ LET new == [states[g] EXCEPT !.job = @ + 1, !.token = @ + 1, !.gen = @ + 1,
                                         !.partial = FALSE]
             IN  /\ states' = [states EXCEPT ![g] = new]
                 /\ todo' = [todo EXCEPT ![c].cancel = {<<g, states[g].token>>},
                                         ![c].spawn = {StartOf(g, new)}]
    /\ UNCHANGED <<nextGid, nextPos, cancelled, runs, sent>>

\* apply_options_object sets options one by one and returns on the first
\* invalid value: the options before it stay set, nothing is restarted.
ChangeOptionRejected(c, g) ==
    /\ Calling(c, "changeOptionRejected")
    /\ states[g].status \in Queued \cup {"active"}
    /\ states[g].job < MaxJob
    /\ states' = [states EXCEPT ![g] = [states[g] EXCEPT !.job = @ + 1, !.partial = TRUE]]
    /\ UNCHANGED <<nextGid, nextPos, cancelled, runs, todo, sent>>

RemoveDownloadResult(c, g) ==
    /\ Calling(c, "removeDownloadResult")
    /\ states[g].status \in Terminal
    /\ states' = Forget(states, {g})
    /\ UNCHANGED <<nextGid, nextPos, cancelled, runs, todo, sent>>

PurgeDownloadResults(c) ==
    /\ Calling(c, "purgeDownloadResults")
    /\ states' = Forget(states, With(Terminal))
    /\ UNCHANGED <<nextGid, nextPos, cancelled, runs, todo, sent>>

-----------------------------------------------------------------------------
(* What a thread does after the unlock, in the order of the code.          *)

CancelToken(t) ==
    /\ \E token \in todo[t].cancel :
         /\ cancelled' = cancelled \cup {token}
         /\ todo' = [todo EXCEPT ![t].cancel = @ \ {token}]
    /\ UNCHANGED <<states, nextGid, nextPos, runs, sent>>

SendLifecycle(t) ==
    /\ todo[t].cancel = {}
    /\ \E note \in todo[t].notify :
         /\ sent' = sent \cup {note}
         /\ todo' = [todo EXCEPT ![t].notify = @ \ {note}]
    /\ UNCHANGED <<states, nextGid, nextPos, cancelled, runs>>

\* Mutant: one download too many.
ChosenOneMore ==
    LET waiting == With({"waiting"})
    IN  {g \in waiting : Cardinality(With({"active"})) + Ahead(states, waiting, g) <= Limit}

\* The waiting downloads that take the free slots: the first ones of the queue.
Chosen ==
    LET waiting == With({"waiting"})
    IN  {g \in waiting : Cardinality(With({"active"})) + Ahead(states, waiting, g) < Limit}

Started == [g \in Gids |-> IF g \in Chosen
                           THEN [states[g] EXCEPT !.status = "active", !.gen = @ + 1,
                                              !.partial = FALSE]
                           ELSE states[g]]

DequeueWaiting(t) ==
    /\ todo[t].insert = {} /\ todo[t].place = {}
    /\ todo[t].cancel = {} /\ todo[t].notify = {}
    /\ todo[t].dequeue
    /\ states' = Started
    /\ todo' = [todo EXCEPT ![t].dequeue = FALSE,
                            ![t].spawn = {StartOf(g, Started[g]) : g \in Chosen}]
    /\ UNCHANGED <<nextGid, nextPos, cancelled, runs, sent>>

\* spawn_download: the start notification, then the task.
SpawnDownload(t) ==
    /\ todo[t].cancel = {} /\ todo[t].notify = {}
    /\ \E s \in todo[t].spawn :
         /\ runs' = [runs EXCEPT ![<<s.gid, s.gen>>] =
                       [phase |-> "starting", token |-> s.token, job |-> s.job]]
         /\ sent' = sent \cup Notes("start", {s.gid})
         /\ todo' = [todo EXCEPT ![t].spawn = @ \ {s}]
    /\ UNCHANGED <<states, nextGid, nextPos, cancelled>>

-----------------------------------------------------------------------------
(* A run: the session, its last progress event and finish_download.        *)

TokenOf(r) == <<r[1], runs[r].token>>

\* The session checks its token first, and from then on only now and then.
BeginSession(r) ==
    /\ runs[r].phase = "starting"
    /\ TokenOf(r) \notin cancelled
    /\ runs' = [runs EXCEPT ![r].phase = "working"]
    /\ UNCHANGED <<states, nextGid, nextPos, cancelled, todo, sent>>

\* record_event of Finished{success: true}: no generation is compared.
ReportFinished(r) ==
    /\ runs[r].phase = "working"
    /\ runs' = [runs EXCEPT ![r].phase = "reported"]
    /\ states' = IF states[r[1]].status = "active"
                 THEN [states EXCEPT ![r[1]].status = "complete"] ELSE states
    /\ UNCHANGED <<nextGid, nextPos, cancelled, todo, sent>>

\* Mutants: a stale run is taken for the current one; a run that ends starts no
\* waiting download.
FinishDownloadUnchecked(r, status, notes) ==
    /\ runs' = [runs EXCEPT ![r] = Ended]
    /\ states[r[1]].status # "absent"
    /\ states' = [states EXCEPT ![r[1]].status = status]
    /\ todo' = [todo EXCEPT ![r] = [Idle EXCEPT !.notify = notes, !.dequeue = TRUE]]
    /\ UNCHANGED <<nextGid, nextPos, cancelled, sent>>

FinishDownloadQuietly(r, status, notes) ==
    /\ runs' = [runs EXCEPT ![r] = Ended]
    /\ IF states[r[1]].gen = r[2]
       THEN /\ states' = [states EXCEPT ![r[1]].status = status]
            /\ todo' = [todo EXCEPT ![r].notify = notes]
       ELSE UNCHANGED <<states, todo>>
    /\ UNCHANGED <<nextGid, nextPos, cancelled, sent>>

\* finish_download of run r, which sets the download to `status` and sends
\* `notes`, unless the download is forgotten or has a later run.
FinishDownload(r, status, notes) ==
    LET g == r[1]
        ending(n) == [Idle EXCEPT !.notify = n, !.dequeue = TRUE]
    IN  /\ runs' = [runs EXCEPT ![r] = Ended]
        /\ \/ /\ states[g].status = "absent"
              /\ todo' = [todo EXCEPT ![r] = ending(Notes("complete", {g}))]
              /\ UNCHANGED states
           \/ /\ states[g].status # "absent"
              /\ states[g].gen # r[2]
              /\ UNCHANGED <<states, todo>>
           \/ /\ states[g].status # "absent"
              /\ states[g].gen = r[2]
              /\ LET ended == [states EXCEPT ![g].status = status]
                 IN  \E gone \in Prunable(ended, MaxRetained) : states' = Forget(ended, gone)
              /\ todo' = [todo EXCEPT ![r] = ending(notes)]
        /\ UNCHANGED <<nextGid, nextPos, cancelled, sent>>

\* Every successful session reports Finished before it returns.
FinishOk(r) ==
    /\ runs[r].phase = "reported"
    /\ IF states[r[1]].status = "removed"
       THEN FinishDownload(r, "removed", Notes("stop", {r[1]}))
       ELSE FinishDownload(r, "complete", Notes("complete", {r[1]}))

FinishCancelled(r) ==
    /\ runs[r].phase \in {"starting", "working"}
    /\ TokenOf(r) \in cancelled
    /\ IF states[r[1]].status = "paused"
       THEN FinishDownload(r, "paused", {})
       ELSE FinishDownload(r, "removed", Notes("stop", {r[1]}))

FinishError(r) ==
    /\ runs[r].phase \in {"starting", "working"}
    /\ FinishDownload(r, "error", Notes("error", {r[1]}))

-----------------------------------------------------------------------------
Call(c) ==
    \/ AddDownload(c) \/ PauseAll(c) \/ UnpauseAll(c) \/ PurgeDownloadResults(c)
    \/ \E g \in Gids :
         \/ ChangePosition(c, g) \/ Remove(c, g) \/ Pause(c, g) \/ Unpause(c, g)
         \/ ChangeUri(c, g) \/ ChangeOption(c, g) \/ ChangeOptionRejected(c, g)
         \/ RemoveDownloadResult(c, g)

AfterUnlock(t) ==
    CancelToken(t) \/ SendLifecycle(t) \/ DequeueWaiting(t) \/ SpawnDownload(t)

Finish(r) == FinishOk(r) \/ FinishCancelled(r) \/ FinishError(r)

Next ==
    \/ \E c \in Clients : Call(c) \/ InsertState(c) \/ PlaceAdded(c)
    \/ \E t \in Threads : AfterUnlock(t)
    \/ \E r \in RunIds : BeginSession(r) \/ ReportFinished(r) \/ Finish(r)

Spec == Init /\ [][Next]_vars

\* A thread inside a method reaches its end, and a session ends: its loads,
\* retries and segments are bounded.  Nobody is obliged to call.
Fairness ==
    /\ \A c \in Clients : WF_vars(InsertState(c)) /\ WF_vars(PlaceAdded(c))
    /\ \A t \in Threads : WF_vars(AfterUnlock(t))
    /\ \A r \in RunIds : WF_vars(BeginSession(r) \/ ReportFinished(r) \/ Finish(r))

FairSpec == Spec /\ Fairness

-----------------------------------------------------------------------------
(* Properties.                                                             *)

TypeOK ==
    /\ states \in [Gids -> Download]
    /\ \A g \in Gids : states[g].status = "waiting" => states[g].gen < MaxGen
    /\ nextGid \in 1..(MaxGid + 1)
    /\ nextPos \in Nat
    /\ cancelled \subseteq Tokens
    /\ runs \in [RunIds -> Run]
    /\ todo \in [Threads -> Pending]
    /\ sent \subseteq Methods \X Gids

\* No more downloads are active than the queue allows, whatever the calls and
\* the finishing runs do between the count of the active ones and the start.
ActiveWithinLimit == Cardinality(With({"active"})) <= Limit

\* A download that can still run holds a token nobody cancelled: pausing or
\* restarting it never leaves it with the token of the run it gave up.
UnfinishedTokenIsLive ==
    \A g \in With(Queued \cup {"active"}) : <<g, states[g].token>> \notin cancelled

\* Tokens that were cancelled, or that some thread is about to cancel.
Condemned == cancelled \cup UNION {todo[t].cancel : t \in Threads}

\* A condemned token is an earlier one of its download, or the download ended.
CondemnedIsPast ==
    \A k \in Condemned : \/ k[2] < states[k[1]].token
                         \/ states[k[1]].status \in Terminal \cup {"absent"}

\* A gid that is still to be inserted was never in use.
InsertedIsFresh ==
    \A t \in Threads : \A req \in todo[t].insert :
        /\ req.gid < nextGid
        /\ states[req.gid].status = "absent"
        /\ \A k \in Condemned : k[1] # req.gid
        /\ \A u \in Threads : \A q \in todo[u].insert :
             q.gid = req.gid => u = t /\ q = req
GidsAreFresh ==
    \A g \in Gids : g >= nextGid =>
        /\ states[g].status = "absent"
        /\ \A k \in Condemned : k[1] # g

\* The inductive invariant behind UnfinishedTokenIsLive.
TokenInv == CondemnedIsPast /\ InsertedIsFresh /\ GidsAreFresh

\* A start or a run has the token of its download, and its URI and options.
Serves(r, s) == r.token = s.token /\ (s.partial \/ r.job = s.job)

\* An active download has a run of its current generation, spawned or about to
\* be spawned, with its current token and its current URI and options: no slot
\* is taken by a download nobody runs, and none by a run of options that were changed.
\* One exception: a change that is rejected half way (rpc.rs:1045) sets what precedes
\* the invalid option and restarts nothing; the run goes on without it.
ActiveIsRun ==
    \A g \in With({"active"}) :
        LET s == states[g]
            run == runs[<<g, s.gen>>]
        IN  \/ run.phase \in {"starting", "working", "reported"} /\ Serves(run, s)
            \/ \E t \in Threads : \E start \in todo[t].spawn :
                 start.gid = g /\ start.gen = s.gen /\ Serves(start, s)

\* A run its download gave up, because it was paused, removed or restarted, has
\* its token cancelled or about to be cancelled.
GivenUpRunIsCancelled ==
    \A r \in RunIds :
        LET s == states[r[1]]
        IN  /\ runs[r].phase \in {"starting", "working"}
            /\ s.status # "absent"
            /\ s.status \in Queued \cup {"removed"} \/ r[2] # s.gen
            => \/ TokenOf(r) \in cancelled
               \/ \E t \in Threads : TokenOf(r) \in todo[t].cancel

FreeSlot == Cardinality(With({"active"})) < Limit

\* finish_download of the n-th run of g will not take it for a stale one.
NotStale(g, n) == states[g].status = "absent" \/ states[g].gen = n

\* No lost wake-up: while a download waits and a slot is free, some thread is
\* on its way to start_waiting_downloads.
WaitingIsNoticed ==
    FreeSlot /\ With({"waiting"}) # {} =>
        \/ \E t \in Threads : todo[t].dequeue
        \/ \E t \in Threads : \E s \in todo[t].spawn : NotStale(s.gid, s.gen)
        \/ \E r \in RunIds : /\ runs[r].phase \in {"starting", "working", "reported"}
                             /\ NotStale(r[1], r[2])

NoteFor(status) == CASE status = "complete" -> "complete"
                     [] status = "error" -> "error"
                     [] status = "removed" -> "stop"

Quiet(g) ==
    /\ \A n \in 1..MaxGen : runs[<<g, n>>].phase \in {"none", "done"}
    /\ \A t \in Threads : /\ \A m \in Methods : <<m, g>> \notin todo[t].notify
                          /\ \A s \in todo[t].spawn : s.gid # g

\* When nothing is left to happen for a download that ended, the clients were
\* sent the notification of the status it ended with.
EndIsAnnounced ==
    \A g \in With(Terminal) :
        Quiet(g) => <<NoteFor(states[g].status), g>> \in sent

\* A completed download is never reported as removed by a late cancelled run.
CompleteIsNotRemoved ==
    [][\A g \in Gids : states[g].status = "complete" => states'[g].status # "removed"]_vars

\* A step that neither adds to the queue nor takes from it moves at most one
\* download: the others keep their order, even where positions are equal.
OthersKeepOrder ==
    [][With(Queued)' = With(Queued) =>
         \E g \in Gids : \A h, k \in With(Queued) \ {g} :
            Before(states, h, k) <=> Before(states', h, k)]_vars

\* A result is removed only for a download whose session is over or told to stop.
ForgottenIsFinished ==
    \A r \in RunIds : states[r[1]].status = "absent" /\ runs[r].phase = "working"
                        => TokenOf(r) \in cancelled

\* A free slot does not stay free while a download waits.
WaitingIsStarted == FreeSlot /\ With({"waiting"}) # {} ~> ~(FreeSlot /\ With({"waiting"}) # {})
=============================================================================
