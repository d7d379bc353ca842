-------------------------- MODULE DownloadService --------------------------
(***************************************************************************)
(* The owner of the queue and of the engine                                *)
(* (crates/lyra-downloads-backend/src/service.rs) over its SQLite rows     *)
(* (crates/lyra-downloads-core/src/db.rs).                                 *)
(*                                                                         *)
(* One tokio mutex guards the service.  An operation of the protocol keeps *)
(* it from beginning to end and is one action here, except resume_all,     *)
(* which is one step per task; the periodic tick keeps it over its three   *)
(* list calls and over the tasks it then goes through, one step each.      *)
(* aria2 moves between any two of these steps.                             *)
(*                                                                         *)
(* Every write of a row may fail, and the backend may die there, after the *)
(* engine was told and before the database was: see Persist.               *)
(***************************************************************************)
EXTENDS Aria2Engine

CONSTANTS
    HasSha,       \* tasks added with an expected SHA-256
    PollRaces,    \* TRUE: aria2 may move downloads between its lists while
                  \* a tick is asking for them one list after the other
    SpawnFails,   \* TRUE: starting aria2c may fail
    DbFaults,     \* TRUE: SQLite may refuse a statement
    ReadFails,    \* TRUE: reading the list of tasks may fail
    MaxCrashes,   \* bound: deaths of the backend or of aria2c
    MaxJobs       \* bound: hash jobs per task

ASSUME ServiceAssumption ==
    /\ HasSha \subseteq Tasks
    /\ {PollRaces, SpawnFails, DbFaults, ReadFails} \subseteq BOOLEAN
    /\ MaxCrashes \in Nat
    /\ MaxJobs \in Nat \ {0}

VARIABLES
    row,             \* tasks: state, pause_reason and aria2_gid of each row
    revoked,         \* request_keys.revoked (the key of task t is t)
    autoResume,      \* settings.auto_resume_on_start
    backend,         \* "up" or "down"
    needsReconcile,  \* Service::needs_reconcile
    pc,              \* who holds the mutex, and where it is
    snap,            \* statuses the current tick has collected
    reconcile,       \* the tick's local copy of needs_reconcile
    todo,            \* tasks the holder of the mutex still has to go through
    jobs,            \* spawn_verification tasks running, per task
    confirmed,       \* tasks Firefox was told are stopped or absent for good
    crashes          \* deaths so far (bounded by MaxCrashes)

tickVars == <<pc, snap, reconcile, todo>>
serviceVars == <<row, revoked, autoResume, backend, needsReconcile, pc, snap,
                 reconcile, todo, jobs, confirmed, crashes>>
vars == <<engineVars, serviceVars>>

\* "novo": the UUID was never used.  "apagado": the row was deleted.
Absent   == {"novo", "apagado"}
Terminal == {"concluido", "cancelado", "erro"}
Queued   == {"aguardando", "baixando"}
TaskState == Absent \cup Terminal \cup Queued \cup {"pausado", "verificando"}
PauseReason == {"none", "usuario", "sistema"}
Phase == {"boot", "idle", "active", "waiting", "stopped", "sync", "resumeAll"}

Row == [state: TaskState, reason: PauseReason, gid: Gid \cup {NoGid}]
MkRow(s, r, g) == [state |-> s, reason |-> r, gid |-> g]

\* What the tick collects: aria2 never reports a download as stopping.
Reports == [Gid -> Status \ {"pausing", "removing"}]

TypeOK ==
    /\ EngineTypeOK
    /\ row \in [Tasks -> Row]
    /\ revoked \subseteq Tasks
    /\ autoResume \in BOOLEAN
    /\ backend \in {"up", "down"}
    /\ needsReconcile \in BOOLEAN
    /\ pc \in Phase
    /\ snap \in Reports
    /\ reconcile \in BOOLEAN
    /\ todo \subseteq Tasks
    /\ jobs \in [Tasks -> 0..MaxJobs]
    /\ confirmed \subseteq Tasks
    /\ crashes \in 0..MaxCrashes

Init ==
    /\ EngineInit
    /\ row = [t \in Tasks |-> MkRow("novo", "none", NoGid)]
    /\ revoked = {}
    /\ autoResume \in BOOLEAN
    /\ backend = "up"
    /\ needsReconcile = FALSE
    /\ pc = "boot"
    /\ snap = NoDownloads
    /\ reconcile = FALSE
    /\ todo = {}
    /\ jobs = [t \in Tasks |-> 0]
    /\ confirmed = {}
    /\ crashes = 0

-----------------------------------------------------------------------------
(* Persistence.                                                            *)

Die ==
    /\ crashes < MaxCrashes
    /\ crashes' = crashes + 1
    /\ backend' = "down"

StaysUp == UNCHANGED <<backend, crashes>>

\* The handler writes good.  If the statement fails, or the backend dies
\* right before it, the rows stay as the handler's earlier writes left them.
PersistRows(good, before) ==
    \/ row' = good /\ StaysUp
    \/ DbFaults /\ row' = before /\ StaysUp
    \/ row' = before /\ Die

Persist(t, r) == PersistRows([row EXCEPT ![t] = r], row)

-----------------------------------------------------------------------------
(* Conversations with the engine inside one handler.                       *)

\* GIDs aria2 may choose for t: the first one nothing refers to.
Unused(d, t) == {g \in Gid : /\ g[1] = t /\ g[2] > 0
                             /\ d[g] = "none" /\ g \notin session /\ row[t].gid # g}
FreshGid(d, t) == {g \in Unused(d, t) : \A h \in Unused(d, t) : g[2] <= h[2]}

NoHandle == {"off", "orphan"}

Answer(d, g, ok) == [dl |-> d, gid |-> g, ok |-> ok]

\* Broken variant: the GID aria2 assigned is not stored.
AddUriOldGid(p, d, t, g, s) ==
    {Answer(r.dl, row[t].gid, r.reply = "ok") : r \in Call(p, d, [d EXCEPT ![g] = s], "ok")}

\* addUri with the GID g; the row keeps its old GID when the call fails.
AddUri(p, d, t, g, s) ==
    {Answer(r.dl, IF r.reply = "ok" THEN g ELSE row[t].gid, r.reply = "ok") :
        r \in Call(p, d, [d EXCEPT ![g] = s], "ok")}

\* addUri is refused because g is in use; aria2 is then asked to choose.
AddUriInUse(p, d, t, s) ==
    UNION {IF r.reply = "rpc"
           THEN UNION {AddUri(p, d, t, g, s) : g \in FreshGid(d, t)}
           ELSE {Answer(d, row[t].gid, FALSE)} : r \in Call(p, d, d, "rpc")}

\* Service::submit.  A download added with pause=true enters as s = "paused".
Submit(p, d, t, s) ==
    IF p \in NoHandle
    THEN {Answer(d, row[t].gid, TRUE)}
    ELSE UNION {IF d1[Det(t)] = "none"
                THEN AddUri(p, d1, t, Det(t), s)
                ELSE AddUriInUse(p, d1, t, s) : d1 \in Sent(p, d, Forgot(d, {Det(t)}))}

\* Service::resume_in_engine
ResumeInEngine(p, d, t) ==
    LET g == row[t].gid
        told == {r.reply : r \in Call(p, d, d, IF d[g] = "none" THEN "rpc" ELSE "ok")}
        unpaused == {Answer(r.dl, g, r.reply = "ok") : r \in Call(p, d, Unpaused(d, g), "ok")}
    IN  IF p \in NoHandle
        THEN {Answer(d, g, TRUE)}
        ELSE IF g = NoGid
        THEN Submit(p, d, t, "waiting")
        ELSE UNION {IF reply # "ok" \/ d[g] \in Stopped THEN Submit(p, d, t, "waiting")
                    ELSE IF d[g] = "paused" THEN unpaused
                    ELSE {Answer(d, g, TRUE)} : reply \in told}

\* Service::ensure_engine.  Starting aria2c first ends a process a dead
\* backend left behind, which saves its session on the way out.
Ensured ==
    LET same == [proc |-> proc, dl |-> dl, session |-> session, reconcile |-> needsReconcile]
        saved == IF proc = "orphan" THEN Unfinished(dl) ELSE session
        started == [proc |-> "on", dl |-> Restored(saved), session |-> saved, reconcile |-> TRUE]
        noBinary == [same EXCEPT !.proc = IF proc = "dead" THEN "off" ELSE proc]
        notReady == [same EXCEPT !.proc = "off", !.dl = NoDownloads, !.session = saved]
    IN  IF proc = "on" THEN {same}
        ELSE {started} \cup (IF SpawnFails THEN {noBinary, notReady} ELSE {})

Engine(e) == proc' = e.proc /\ session' = e.session /\ needsReconcile' = e.reconcile
SameEngine == UNCHANGED <<proc, session, needsReconcile>>

-----------------------------------------------------------------------------
(* Operations of the protocol.  They need the mutex.                       *)

Free == backend = "up" /\ pc = "idle"
opFrame == <<autoResume, tickVars, jobs>>
Unrelated == UNCHANGED <<opFrame, revoked, confirmed>>

\* Service::add.  The row is durable before the engine hears of it; a failed
\* submission is left to the next tick.
Add(t) ==
    /\ Free
    /\ row[t].state = "novo"
    /\ t \notin revoked
    /\ \E r \in Submit(proc, dl, t, "waiting") :
         /\ dl' = r.dl
         /\ PersistRows([row EXCEPT ![t] = MkRow("aguardando", "none", r.gid)],
                        [row EXCEPT ![t] = MkRow("aguardando", "none", NoGid)])
    /\ SameEngine /\ Unrelated

\* Service::pause.  Whether aria2 accepted does not matter to the row.
Pause(t) ==
    /\ Free
    /\ \/ /\ row[t].state = "pausado"
          /\ UNCHANGED dl
       \/ /\ row[t].state \in Queued
          /\ dl' \in Sent(proc, dl, Paused(dl, {row[t].gid}))
    /\ Persist(t, MkRow("pausado", "usuario", row[t].gid))
    /\ SameEngine /\ Unrelated

\* Service::resume.  An error is returned before the row is saved.
Resume(t) ==
    /\ Free
    /\ row[t].state = "pausado"
    /\ \E e \in Ensured : \E r \in ResumeInEngine(e.proc, e.dl, t) :
         /\ Engine(e)
         /\ dl' = r.dl
         /\ IF r.ok THEN Persist(t, MkRow("aguardando", "none", r.gid))
                    ELSE UNCHANGED row /\ StaysUp
    /\ Unrelated

\* Broken variant: the row is cancelled without telling the engine.
CancelRowOnly(t) ==
    /\ Free
    /\ row[t].state \notin Absent \cup Terminal
    /\ Persist(t, MkRow("cancelado", "none", row[t].gid))
    /\ UNCHANGED dl /\ SameEngine /\ Unrelated

\* Service::cancel.  Whether aria2 accepted does not matter to the row.
Cancel(t) ==
    /\ Free
    /\ row[t].state \notin Absent \cup Terminal
    /\ dl' \in Sent(proc, dl, Removed(dl, {row[t].gid}))
    /\ Persist(t, MkRow("cancelado", "none", row[t].gid))
    /\ SameEngine /\ Unrelated

\* Service::cancel_by_request_key, which first makes the revocation durable.
\* No row: the answer is "revoked", and nothing will ever be added.
CancelAbsent(t) ==
    /\ row[t].state \in Absent
    /\ confirmed' = confirmed \cup {t}
    /\ UNCHANGED <<row, dl>> /\ StaysUp

\* The answer is "completed": Firefox keeps the native file.
CancelCompleted(t) ==
    /\ row[t].state \in {"concluido", "verificando"}
    /\ UNCHANGED <<row, dl, confirmed>> /\ StaysUp

\* The row becomes cancelado and the answer is "cancelled", or the backend
\* fails before it answers.
ConfirmCancelled(t) ==
    /\ Persist(t, MkRow("cancelado", "none", row[t].gid))
    /\ confirmed' = IF row'[t].state = "cancelado" /\ backend' = "up"
                    THEN confirmed \cup {t} ELSE confirmed

\* The engine never answered with a GID for this row.
CancelUnsubmitted(t) ==
    /\ row[t].state \notin Absent \cup {"concluido", "verificando"}
    /\ row[t].gid = NoGid
    /\ ConfirmCancelled(t)
    /\ UNCHANGED dl

\* Broken variant: "cancelled" is answered before the engine was asked.
CancelUnconfirmed(t) ==
    /\ row[t].state \notin Absent \cup {"concluido", "verificando"}
    /\ row[t].gid # NoGid
    /\ ConfirmCancelled(t)
    /\ UNCHANGED dl

\* forceRemove, whose answer is ignored, and tellStatus, which decides.  The
\* download may stop between the two calls.
CancelInEngine(t) ==
    LET g == row[t].gid IN
    /\ row[t].state \notin Absent \cup {"concluido", "verificando"}
    /\ g # NoGid
    /\ \E d1 \in Sent(proc, dl, Removed(dl, {g})) : \E d2 \in {d1, Halted(d1, {g})} :
         /\ dl' = d2
         /\ \E r \in Call(proc, d2, d2, "ok") :
              IF r.reply = "ok" /\ d2[g] \in {"removed", "error", "none"}
              THEN ConfirmCancelled(t)
              ELSE UNCHANGED <<row, confirmed>> /\ StaysUp

CancelByRequestKey(t) ==
    /\ Free
    /\ revoked' = revoked \cup {t}
    /\ \/ CancelAbsent(t)
       \/ CancelCompleted(t)
       \/ CancelUnsubmitted(t)
       \/ CancelInEngine(t)
    /\ SameEngine /\ UNCHANGED opFrame

\* Broken variant: the GID assigned to the new attempt is not saved.
RetryOldGid(t) ==
    /\ Free
    /\ row[t].state \in {"erro", "cancelado"}
    /\ \E e \in Ensured : \E r \in Submit(e.proc, e.dl, t, "waiting") :
         /\ Engine(e)
         /\ dl' = r.dl
         /\ IF r.ok THEN Persist(t, MkRow("aguardando", "none", row[t].gid))
                    ELSE UNCHANGED row /\ StaysUp
    /\ confirmed' = confirmed \ {t}
    /\ UNCHANGED <<opFrame, revoked>>

\* Service::retry.  An error of submit is returned before the row is saved.
Retry(t) ==
    /\ Free
    /\ row[t].state \in {"erro", "cancelado"}
    /\ \E e \in Ensured : \E r \in Submit(e.proc, e.dl, t, "waiting") :
         /\ Engine(e)
         /\ dl' = r.dl
         /\ IF r.ok THEN Persist(t, MkRow("aguardando", "none", r.gid))
                    ELSE UNCHANGED row /\ StaysUp
    /\ confirmed' = confirmed \ {t}
    /\ UNCHANGED <<opFrame, revoked>>

\* Service::remove_from_history; delete_file ends the same way.
RemoveFromHistory(t) ==
    /\ Free
    /\ row[t].state \in Terminal
    /\ dl' \in Sent(proc, dl, Forgot(dl, {row[t].gid}))
    /\ Persist(t, MkRow("apagado", "none", NoGid))
    /\ SameEngine /\ Unrelated

\* Service::pause_all: forcePauseAll, then the rows one by one.
PausedRows(S, why) ==
    [t \in Tasks |-> IF t \in S /\ row[t].state \in Queued
                     THEN MkRow("pausado", why, row[t].gid) ELSE row[t]]

\* Broken variant: only the rows are paused.
PauseAllRowsOnly ==
    /\ Free
    /\ PersistRows(PausedRows(Tasks, "usuario"), row)
    /\ UNCHANGED dl /\ SameEngine /\ Unrelated

PauseAll ==
    /\ Free
    /\ dl' \in Sent(proc, dl, Paused(dl, Gid))
    /\ \E S \in SUBSET Tasks :
         PersistRows(PausedRows(Tasks, "usuario"), PausedRows(S, "usuario"))
    /\ SameEngine /\ Unrelated

\* Service::resume_all takes the paused tasks one after the other and keeps
\* the mutex; a task aria2 refuses is skipped, a failed save ends the loop.
ResumeAll ==
    /\ Free
    /\ \E e \in Ensured : Engine(e) /\ dl' = e.dl
    /\ pc' = "resumeAll"
    /\ todo' = {t \in Tasks : row[t].state = "pausado"}
    /\ UNCHANGED <<row, autoResume, snap, reconcile, jobs, revoked, confirmed>>
    /\ StaysUp

ResumeAllTask(t) ==
    /\ backend = "up" /\ pc = "resumeAll" /\ t \in todo
    /\ \E r \in ResumeInEngine(proc, dl, t) :
         /\ dl' = r.dl
         /\ IF r.ok THEN Persist(t, MkRow("aguardando", "none", r.gid))
                    ELSE UNCHANGED row /\ StaysUp
         /\ todo' = IF r.ok /\ row' = row THEN {} ELSE todo \ {t}
    /\ UNCHANGED <<autoResume, pc, snap, reconcile, jobs, revoked, confirmed>>
    /\ SameEngine

\* Service::change_connections.  An active download is paused for the change;
\* the poll for "paused" gives up after 5 s, and an error of changeOption is
\* returned before unpause.
ChangeConnections(t) ==
    LET g == row[t].gid IN
    /\ Free
    /\ row[t].state \notin Absent \cup Terminal \cup {"verificando"}
    /\ g # NoGid /\ Reported(dl[g]) = "active"
    /\ \E d1 \in Sent(proc, dl, Paused(dl, {g})) : \E d2 \in {d1, Halted(d1, {g})} :
         \/ /\ \E r \in Call(proc, d2, d2, "ok") :
                  IF r.reply = "ok" /\ d2[g] = "paused"
                  THEN dl' \in Sent(proc, d2, Unpaused(d2, g))
                  ELSE dl' = d2
            /\ StaysUp
         \/ dl' = d2 /\ Die
    /\ UNCHANGED row
    /\ SameEngine /\ Unrelated

\* Service::set_settings
SetAutoResume ==
    /\ Free
    /\ autoResume' = ~autoResume
    /\ UNCHANGED <<engineVars, row, revoked, backend, needsReconcile, tickVars,
                   jobs, confirmed, crashes>>

\* Op::RestartEngine
RestartEngine ==
    /\ Free
    /\ \E e \in Ensured : Engine(e) /\ dl' = e.dl
    /\ UNCHANGED row /\ StaysUp /\ Unrelated

\* Aria2Process::shutdown saves the session and ends the process.
StopEngine(d) ==
    /\ proc' = IF proc \in {"on", "dead"} THEN "off" ELSE proc
    /\ session' = IF proc = "on" THEN Unfinished(d) ELSE session
    /\ dl' = IF proc = "orphan" THEN d ELSE NoDownloads

\* Service::shutdown, and the process ends.
Shutdown ==
    /\ Free
    /\ \E d \in Sent(proc, dl, Paused(dl, Gid)) : StopEngine(d)
    /\ \E S \in {Tasks} \cup (IF DbFaults THEN SUBSET Tasks ELSE {}) :
         row' = PausedRows(S, "sistema")
    /\ backend' = "down"
    /\ UNCHANGED <<crashes, needsReconcile>> /\ Unrelated

-----------------------------------------------------------------------------
(* The periodic tick.                                                      *)

\* The statuses of d on one of aria2's lists, over those collected so far.
Listed(d, statuses) ==
    [g \in Gid |-> IF Reported(d[g]) \in statuses THEN Reported(d[g]) ELSE snap[g]]

\* tick: ensure_engine; engine_statuses returns None without an engine.
TickBegin ==
    /\ backend = "up" /\ pc \in {"boot", "idle"}
    /\ \E e \in Ensured :
         /\ Engine(e) /\ dl' = e.dl
         /\ pc' = IF e.proc = "on" THEN "active" ELSE "idle"
    /\ UNCHANGED <<row, autoResume, snap, reconcile, todo, jobs, revoked, confirmed>>
    /\ StaysUp

\* engine_statuses: one list after the other.
TellActive ==
    /\ backend = "up" /\ pc = "active" /\ proc = "on"
    /\ snap' = Listed(dl, {"active"})
    /\ pc' = "waiting"
    /\ UNCHANGED <<engineVars, row, revoked, autoResume, backend, needsReconcile,
                   reconcile, todo, jobs, confirmed, crashes>>

TellWaiting ==
    /\ backend = "up" /\ pc = "waiting" /\ proc = "on"
    /\ snap' = Listed(dl, {"waiting", "paused"})
    /\ pc' = "stopped"
    /\ UNCHANGED <<engineVars, row, revoked, autoResume, backend, needsReconcile,
                   reconcile, todo, jobs, confirmed, crashes>>

\* A list call fails.  The third failure in a row stops the engine.
PollFails ==
    /\ backend = "up" /\ pc \in {"active", "waiting", "stopped"}
    /\ proc # "on" \/ RpcFaults # {}
    /\ UNCHANGED engineVars \/ StopEngine(dl)
    /\ pc' = "idle"
    /\ snap' = NoDownloads
    /\ UNCHANGED <<row, revoked, autoResume, backend, needsReconcile, reconcile,
                   todo, jobs, confirmed, crashes>>

\* Downloads the tick pauses because no row knows them.
Strangers(statuses) ==
    IF needsReconcile
    THEN {g \in Gid \ {row[t].gid : t \in Tasks} : statuses[g] \in Running}
    ELSE {}

\* The last list; then needs_reconcile is taken, the rows are read, and after
\* a restart of the engine every running download no row knows is paused.
TellStopped ==
    /\ backend = "up" /\ pc = "stopped" /\ proc = "on"
    /\ snap' = Listed(dl, Stopped)
    /\ \E S \in SUBSET Strangers(snap') :
         /\ RpcFaults = {} => S = Strangers(snap')
         /\ dl' \in Sent(proc, dl, Paused(dl, S))
    /\ pc' = "sync"
    /\ todo' = {t \in Tasks : row[t].state \notin Absent}
    /\ reconcile' = needsReconcile
    /\ needsReconcile' = FALSE
    /\ UNCHANGED <<proc, session, row, revoked, autoResume, backend, jobs,
                   confirmed, crashes>>

\* needs_reconcile was taken, but list_tasks failed.
ListTasksFails ==
    /\ backend = "up" /\ pc = "stopped" /\ proc = "on" /\ ReadFails
    /\ needsReconcile' = FALSE
    /\ pc' = "idle"
    /\ snap' = NoDownloads
    /\ UNCHANGED <<engineVars, row, revoked, autoResume, backend, reconcile, todo,
                   jobs, confirmed, crashes>>

Seen(t) == IF row[t].gid = NoGid THEN "none" ELSE snap[row[t].gid]

Verify(t) ==
    /\ jobs[t] < MaxJobs
    /\ jobs' = [jobs EXCEPT ![t] = @ + 1]

\* Broken variant: an interrupted verification is skipped as well.
SyncSettledForgets(t) ==
    /\ row[t].state \in Terminal \cup {"verificando"}
    /\ UNCHANGED <<row, dl, jobs>> /\ StaysUp

\* A finished task is skipped; an interrupted verification is started again.
SyncSettled(t) ==
    /\ row[t].state \in Terminal \cup {"verificando"}
    /\ IF row[t].state = "verificando" /\ reconcile THEN Verify(t) ELSE UNCHANGED jobs
    /\ UNCHANGED <<row, dl>> /\ StaysUp

\* Broken variant: whatever was queued is started again.
ShouldRunQueued(t) ==
    row[t].state = "pausado" => autoResume /\ reconcile /\ row[t].reason = "sistema"

\* Whether a task the engine does not know is submitted to run or paused.
ShouldRun(t) ==
    IF row[t].state = "pausado"
    THEN autoResume /\ reconcile /\ row[t].reason = "sistema"
    ELSE ~reconcile \/ autoResume

\* Broken variant: a task the engine does not know is passed over.
SyncAbsentIgnored(t) ==
    /\ row[t].state \in Queued \cup {"pausado"}
    /\ Seen(t) = "none"
    /\ UNCHANGED <<row, dl, jobs>> /\ StaysUp

\* The engine does not know the task: it is submitted again.
SyncAbsent(t) ==
    LET held == IF row[t].state = "pausado" THEN row[t].reason ELSE "sistema"
        after(g) == IF ShouldRun(t) THEN MkRow("aguardando", "none", g)
                    ELSE MkRow("pausado", held, g)
    IN  /\ row[t].state \in Queued \cup {"pausado"}
        /\ Seen(t) = "none"
        /\ \E r \in Submit(proc, dl, t, IF ShouldRun(t) THEN "waiting" ELSE "paused") :
             /\ dl' = r.dl
             /\ IF r.ok THEN Persist(t, after(r.gid)) ELSE UNCHANGED row /\ StaysUp
        /\ UNCHANGED jobs

\* Broken variants: every paused task, or none, is let go after a restart.
WantsRunAnyReason(t) == autoResume
WantsRunQueued(t) == autoResume /\ row[t].state # "pausado"

\* Whether a task restored from the session should run.
WantsRun(t) == autoResume /\ (row[t].state = "pausado" => row[t].reason = "sistema")

\* After a restart of the engine, a task that should run is let go ...
SyncRelease(t) ==
    /\ row[t].state \in Queued \cup {"pausado"}
    /\ reconcile /\ WantsRun(t) /\ Seen(t) = "paused"
    /\ LET g == row[t].gid IN
       dl' \in (IF dl[g] = "paused" THEN Sent(proc, dl, Unpaused(dl, g)) ELSE {dl})
    /\ Persist(t, MkRow("aguardando", "none", row[t].gid))
    /\ UNCHANGED jobs

\* ... and one that should not is held back.
SyncHold(t) ==
    /\ row[t].state \in Queued
    /\ reconcile /\ ~WantsRun(t) /\ Seen(t) # "none"
    /\ dl' \in Sent(proc, dl, Paused(dl, {row[t].gid}))
    /\ Persist(t, MkRow("pausado", "sistema", row[t].gid))
    /\ UNCHANGED jobs

\* Broken variant: the engine's "complete" is final for every task.
FollowedUnchecked(t) ==
    CASE Seen(t) = "active"   -> MkRow("baixando", "none", row[t].gid)
      [] Seen(t) = "complete" -> MkRow("concluido", row[t].reason, row[t].gid)
      [] OTHER                -> row[t]

\* The row a status leads to.
Followed(t) ==
    LET r == row[t] IN
    CASE Seen(t) = "active"   -> MkRow("baixando", "none", r.gid)
      [] Seen(t) = "waiting"  -> MkRow("aguardando", r.reason, r.gid)
      [] Seen(t) = "paused"   -> IF r.state # "pausado" /\ r.reason = "none"
                                 THEN MkRow("pausado", "sistema", r.gid)
                                 ELSE MkRow("pausado", r.reason, r.gid)
      [] Seen(t) = "complete" -> MkRow(IF t \in HasSha THEN "verificando" ELSE "concluido",
                                       r.reason, r.gid)
      [] Seen(t) = "error"    -> MkRow("erro", r.reason, r.gid)
      [] Seen(t) = "removed"  -> MkRow("cancelado", r.reason, r.gid)

SyncFollow(t) ==
    /\ row[t].state \in Queued \cup {"pausado"}
    /\ Seen(t) # "none"
    /\ reconcile => IF WantsRun(t) THEN Seen(t) # "paused" ELSE row[t].state = "pausado"
    /\ dl' \in (IF Seen(t) = "complete"
                THEN Sent(proc, dl, Forgot(dl, {row[t].gid})) ELSE {dl})
    /\ IF Seen(t) = "complete" /\ t \in HasSha THEN Verify(t) ELSE UNCHANGED jobs
    /\ Persist(t, Followed(t))

SyncTask(t) ==
    /\ backend = "up" /\ pc = "sync" /\ t \in todo
    /\ todo' = todo \ {t}
    /\ \/ SyncSettled(t)
       \/ SyncAbsent(t)
       \/ SyncRelease(t)
       \/ SyncHold(t)
       \/ SyncFollow(t)
    /\ SameEngine
    /\ UNCHANGED <<revoked, autoResume, pc, snap, reconcile, confirmed>>

\* The mutex is released at the end of a tick or of resume_all.
Release ==
    /\ backend = "up" /\ pc \in {"sync", "resumeAll"} /\ todo = {}
    /\ pc' = "idle"
    /\ snap' = NoDownloads
    /\ reconcile' = FALSE
    /\ UNCHANGED <<engineVars, row, revoked, autoResume, backend, needsReconcile,
                   todo, jobs, confirmed, crashes>>

\* Broken variant: a result is taken although no verification is running.
VerificationDoneTwice(t) ==
    /\ Free
    /\ row[t].state = "verificando"
    /\ jobs' = [jobs EXCEPT ![t] = @ - 1]
    /\ \E s \in {"concluido", "erro"} : Persist(t, [row[t] EXCEPT !.state = s])
    /\ SameEngine
    /\ UNCHANGED <<dl, autoResume, tickVars, revoked, confirmed>>

\* Broken variant: the result is saved without looking at the row again.
VerificationDoneStale(t) ==
    /\ Free
    /\ jobs[t] > 0
    /\ jobs' = [jobs EXCEPT ![t] = @ - 1]
    /\ \E s \in {"concluido", "erro"} : Persist(t, [row[t] EXCEPT !.state = s])
    /\ SameEngine
    /\ UNCHANGED <<dl, autoResume, tickVars, revoked, confirmed>>

\* spawn_verification: the file was hashed without the mutex; the row decides
\* whether the result still counts.
VerificationDone(t) ==
    /\ Free
    /\ jobs[t] > 0
    /\ jobs' = [jobs EXCEPT ![t] = @ - 1]
    /\ IF row[t].state = "verificando"
       THEN \E s \in {"concluido", "erro"} : Persist(t, [row[t] EXCEPT !.state = s])
       ELSE UNCHANGED row /\ StaysUp
    /\ SameEngine
    /\ UNCHANGED <<dl, autoResume, tickVars, revoked, confirmed>>

-----------------------------------------------------------------------------
(* The environment.                                                        *)

\* aria2 moves on its own, between the lists of a tick only if PollRaces.
EngineMoves ==
    /\ EngineStep
    /\ backend = "up" /\ pc \in {"waiting", "stopped"} => PollRaces
    /\ UNCHANGED serviceVars

\* aria2c dies.
EngineDies ==
    /\ Alive
    /\ crashes < MaxCrashes
    /\ crashes' = crashes + 1
    /\ proc' = IF proc = "on" THEN "dead" ELSE "off"
    /\ dl' = NoDownloads
    /\ UNCHANGED <<session, row, revoked, autoResume, backend, needsReconcile,
                   tickVars, jobs, confirmed>>

\* The backend dies between two writes.
BackendDies ==
    /\ backend = "up"
    /\ Die
    /\ UNCHANGED <<engineVars, row, revoked, autoResume, needsReconcile, tickVars,
                   jobs, confirmed>>

\* A new backend: Service::new, over the same database and session file.
BackendStart ==
    /\ backend = "down"
    /\ backend' = "up"
    /\ proc' = CASE proc = "on" -> "orphan" [] proc = "dead" -> "off" [] OTHER -> proc
    /\ needsReconcile' = FALSE
    /\ pc' = "boot"
    /\ snap' = NoDownloads
    /\ reconcile' = FALSE
    /\ todo' = {}
    /\ jobs' = [t \in Tasks |-> 0]
    /\ UNCHANGED <<dl, session, row, revoked, autoResume, confirmed, crashes>>

-----------------------------------------------------------------------------

Operation ==
    \/ \E t \in Tasks :
         \/ Add(t) \/ Pause(t) \/ Resume(t) \/ Cancel(t) \/ Retry(t)
         \/ CancelByRequestKey(t) \/ RemoveFromHistory(t) \/ ChangeConnections(t)
    \/ PauseAll \/ ResumeAll \/ SetAutoResume \/ RestartEngine \/ Shutdown

Tick ==
    \/ TickBegin \/ TellActive \/ TellWaiting \/ TellStopped
    \/ PollFails \/ ListTasksFails
    \/ \E t \in Tasks : SyncTask(t) \/ ResumeAllTask(t)
    \/ Release

Next ==
    \/ Operation
    \/ Tick
    \/ \E t \in Tasks : VerificationDone(t)
    \/ EngineMoves \/ EngineDies \/ BackendDies \/ BackendStart

Spec == Init /\ [][Next]_vars

\* The ticker fires every second and tokio's Mutex is FIFO: whoever waits for
\* it gets it, however many operations keep arriving (SF).  A holder that is
\* not waiting for an answer goes on, and a failed call returns an error (WF).
\* A dead backend is started again by the next client.
Fairness ==
    /\ SF_vars(TickBegin)
    /\ WF_vars(TellActive \/ TellWaiting \/ TellStopped \/ PollFails)
    /\ WF_vars(Release \/ \E t \in Tasks : SyncTask(t) \/ ResumeAllTask(t))
    /\ \A t \in Tasks : SF_vars(VerificationDone(t))
    /\ WF_vars(BackendStart)

LiveSpec == Spec /\ Fairness

-----------------------------------------------------------------------------
(* Safety.                                                                 *)

RunningGids(t) == {g \in Gid : g[1] = t /\ dl[g] \in Running}

\* The service and its own engine are both there to agree with each other.
InCharge == backend = "up" /\ proc = "on"

\* A task is never transferred twice at the same time ("Uma tarefa nunca e
\* inserida duas vezes", service.rs): submit, the resubmission of absent
\* tasks and the GIDs aria2 chooses itself never add up to two transfers.
OneTransfer == \A t \in Tasks : \A g, h \in RunningGids(t) : g = h

\* The download the engine runs for a task is the one its row names: every
\* later pause or cancel, which goes by the row's GID, reaches it.
RunningIsMapped == InCharge => \A t \in Tasks : RunningGids(t) \subseteq {row[t].gid}

\* A task the user sees as finished, cancelled, failed or deleted, or whose
\* file is being hashed, is not being transferred by the engine.
SettledStopped ==
    InCharge => \A t \in Tasks :
        row[t].state \in Terminal \cup Absent \cup {"verificando"} => RunningGids(t) = {}

\* A task the user sees as paused is not being transferred by the engine.
PausedStopped ==
    InCharge => \A t \in Tasks : row[t].state = "pausado" => RunningGids(t) = {}

\* Once cancel_by_request_key answered that the handoff is revoked and was not
\* completed, Firefox downloads the file itself: the engine must not, whatever
\* ticks and restarts follow, until the user retries the task.
ConfirmedStopped == \A t \in confirmed : RunningGids(t) = {}

-----------------------------------------------------------------------------
(* What a step may never do.                                               *)

\* Nothing overturns how a task ended: a late tick, a late verification or a
\* pause_all leaves it, a revoked handoff can only cancel a failed task, and
\* only retry puts a failed or cancelled task back in the queue.
SettledIsFinal ==
    [][\A t \in Tasks : row[t].state \in Terminal =>
          \/ row'[t].state \in {row[t].state, "apagado"}
          \/ row[t].state # "concluido" /\ row'[t].state \in {"cancelado", "aguardando"}]_vars

\* A task with an expected SHA-256 is concluded only by a verification of it
\* that is running, never by the engine's report that the transfer is over.
ChecksumBeforeDone ==
    [][\A t \in HasSha : row'[t].state = "concluido" /\ row[t].state # "concluido" =>
          row[t].state = "verificando" /\ jobs[t] > 0]_vars

\* No tick takes a task the user paused back to the queue or turns the pause
\* into one of the system's ("pausas do usuario sao sempre respeitadas",
\* ARCHITECTURE.md).  That the download does not run is PausedStopped.
UserPauseKept ==
    [][\A t \in Tasks : pc = "sync" /\ row[t].state = "pausado" /\ row[t].reason = "usuario" =>
          \/ row'[t].state = "pausado" /\ row'[t].reason = "usuario"
          \/ row'[t].state \in Terminal \cup {"verificando"}]_vars

-----------------------------------------------------------------------------
(* Liveness, under LiveSpec.  A behaviour that uses up the GIDs (MaxFresh) *)
(* or the hash jobs (MaxJobs) of a task is outside the bound.              *)

WithinBound == [](\A t \in Tasks : Unused(dl, t) # {} /\ jobs[t] < MaxJobs)

\* A verification ends, also when the backend dies while it hashes.
VerificationEnds ==
    WithinBound => \A t \in Tasks : row[t].state = "verificando" ~> row[t].state # "verificando"

\* While "resume automatically" is on, a pause of the system (a shutdown) is
\* lifted after the restart.
SystemPauseLifted ==
    WithinBound /\ []autoResume => \A t \in Tasks :
        (row[t].state = "pausado" /\ row[t].reason = "sistema")
            ~> ~(row[t].state = "pausado" /\ row[t].reason = "sistema")

\* A task that was accepted without an engine, or whose submission the backend
\* did not survive, reaches the engine.
AcceptedIsSubmitted ==
    WithinBound => \A t \in Tasks : (row[t].state \in Queued /\ row[t].gid = NoGid)
                         ~> ~(row[t].state \in Queued /\ row[t].gid = NoGid)

=============================================================================
