----------------------- MODULE DownloadServiceProofs -----------------------
(***************************************************************************)
(* Proofs about DownloadService, for every value of its constants: types,  *)
(* and what a step may never do.                                           *)
(***************************************************************************)
EXTENDS DownloadService, TLAPS

USE EngineAssumption, ServiceAssumption

-----------------------------------------------------------------------------
(* The engine's answers are of the right kind.                             *)

GidOrNone == Gid \cup {NoGid}

\* What a call does to the downloads leaves a function from GIDs to statuses.
LEMMA EffectsType ==
    ASSUME NEW d \in Downloads, NEW G
    PROVE  /\ Paused(d, G) \in Downloads
           /\ Removed(d, G) \in Downloads
           /\ Forgot(d, G) \in Downloads
           /\ Halted(d, G) \in Downloads
           /\ Restored(G) \in Downloads
           /\ NoDownloads \in Downloads \cap Reports
  <1>1. \A s \in Status : /\ AfterPause(s) \in Status /\ AfterRemove(s) \in Status
                          /\ AfterForget(s) \in Status /\ AfterHalt(s) \in Status
    BY DEF Status, AfterPause, AfterRemove, AfterForget, AfterHalt
  <1>2. Paused(d, G) \in Downloads
    BY <1>1 DEF Paused, OnGids, Downloads
  <1>3. Removed(d, G) \in Downloads
    BY <1>1 DEF Removed, OnGids, Downloads
  <1>4. Forgot(d, G) \in Downloads
    BY <1>1 DEF Forgot, OnGids, Downloads
  <1>5. Halted(d, G) \in Downloads
    BY <1>1 DEF Halted, OnGids, Downloads
  <1>6. Restored(G) \in Downloads /\ NoDownloads \in Downloads \cap Reports
    BY DEF Restored, NoDownloads, Downloads, Reports, Status
  <1> QED BY <1>2, <1>3, <1>4, <1>5, <1>6

\* A call returns downloads and one of the three replies.
LEMMA CallType ==
    ASSUME NEW p, NEW d \in Downloads, NEW d2 \in Downloads,
           NEW answer \in {"ok", "rpc"}, NEW r \in Call(p, d, d2, answer)
    PROVE  r.dl \in Downloads /\ r.reply \in {"ok", "rpc", "transport"}
  BY DEF Call

LEMMA SentType ==
    ASSUME NEW p, NEW d \in Downloads, NEW d2 \in Downloads, NEW x \in Sent(p, d, d2)
    PROVE  x \in Downloads
  BY CallType DEF Sent

\* The outcome of a conversation: downloads, the GID to save, and success.
Outcome == [dl: Downloads, gid: GidOrNone, ok: BOOLEAN]

LEMMA AddUriType ==
    ASSUME TypeOK, NEW p, NEW d \in Downloads, NEW t \in Tasks, NEW g \in Gid,
           NEW s \in Status
    PROVE  AddUri(p, d, t, g, s) \subseteq Outcome
  <1>1. [d EXCEPT ![g] = s] \in Downloads
    BY DEF Downloads
  <1>2. row[t].gid \in GidOrNone
    BY DEF TypeOK, Row, GidOrNone
  <1>3. ASSUME NEW r \in Call(p, d, [d EXCEPT ![g] = s], "ok")
        PROVE  Answer(r.dl, IF r.reply = "ok" THEN g ELSE row[t].gid, r.reply = "ok") \in Outcome
    <2>1. r.dl \in Downloads
      BY <1>1, CallType
    <2> QED BY <2>1, <1>2 DEF Answer, Outcome, GidOrNone
  <1> QED BY <1>3 DEF AddUri

LEMMA SubmitType ==
    ASSUME TypeOK, NEW p, NEW d \in Downloads, NEW t \in Tasks, NEW s \in Status
    PROVE  Submit(p, d, t, s) \subseteq Outcome
  <1>1. row[t].gid \in GidOrNone
    BY DEF TypeOK, Row, GidOrNone
  <1>2. Det(t) \in Gid
    BY DEF Det, Gid
  <1>3. \A d1 \in Downloads : AddUriInUse(p, d1, t, s) \subseteq Outcome
    <2> TAKE d1 \in Downloads
    <2>1. FreshGid(d1, t) \subseteq Gid
      BY DEF FreshGid, Unused
    <2>2. \A g \in FreshGid(d1, t) : AddUri(p, d1, t, g, s) \subseteq Outcome
      BY <2>1, AddUriType
    <2>3. Answer(d1, row[t].gid, FALSE) \in Outcome
      BY <1>1 DEF Answer, Outcome
    <2>4. ASSUME NEW r \in Call(p, d1, d1, "rpc")
          PROVE  (IF r.reply = "rpc"
                  THEN UNION {AddUri(p, d1, t, g, s) : g \in FreshGid(d1, t)}
                  ELSE {Answer(d1, row[t].gid, FALSE)}) \subseteq Outcome
      BY <2>2, <2>3
    <2> QED BY <2>4 DEF AddUriInUse
  <1>4. \A d1 \in Sent(p, d, Forgot(d, {Det(t)})) : d1 \in Downloads
    BY EffectsType, SentType
  <1>5. \A d1 \in Downloads : AddUri(p, d1, t, Det(t), s) \subseteq Outcome
    BY <1>2, AddUriType
  <1>6. Answer(d, row[t].gid, TRUE) \in Outcome
    BY <1>1 DEF Answer, Outcome
  <1> QED BY <1>3, <1>4, <1>5, <1>6 DEF Submit

LEMMA ResumeInEngineType ==
    ASSUME TypeOK, NEW p, NEW d \in Downloads, NEW t \in Tasks
    PROVE  ResumeInEngine(p, d, t) \subseteq Outcome
  <1> DEFINE g == row[t].gid
             unpaused == {Answer(r.dl, g, r.reply = "ok") : r \in Call(p, d, Unpaused(d, g), "ok")}
  <1>1. g \in GidOrNone
    BY DEF TypeOK, Row, GidOrNone
  <1>2. Answer(d, g, TRUE) \in Outcome
    BY <1>1 DEF Answer, Outcome
  <1>3. Submit(p, d, t, "waiting") \subseteq Outcome
    BY SubmitType DEF Status
  <1>4. unpaused \subseteq Outcome
    <2>1. Unpaused(d, g) \in Downloads
      BY <1>1 DEF Unpaused, Downloads, Status, GidOrNone
    <2>2. ASSUME NEW r \in Call(p, d, Unpaused(d, g), "ok")
          PROVE  Answer(r.dl, g, r.reply = "ok") \in Outcome
      <3>1. r.dl \in Downloads
        BY <2>1, <2>2, CallType
      <3> QED BY <1>1, <3>1 DEF Answer, Outcome
    <2> QED BY <2>2
  <1> DEFINE told == {r.reply : r \in Call(p, d, d, IF d[g] = "none" THEN "rpc" ELSE "ok")}
             next(reply) == IF reply # "ok" \/ d[g] \in Stopped THEN Submit(p, d, t, "waiting")
                            ELSE IF d[g] = "paused" THEN unpaused
                            ELSE {Answer(d, g, TRUE)}
  <1>5. \A reply : next(reply) \subseteq Outcome
    BY <1>2, <1>3, <1>4
  <1>6. UNION {next(reply) : reply \in told} \subseteq Outcome
    BY <1>5
  <1>7. ResumeInEngine(p, d, t) = IF p \in NoHandle THEN {Answer(d, g, TRUE)}
                                  ELSE IF g = NoGid THEN Submit(p, d, t, "waiting")
                                  ELSE UNION {next(reply) : reply \in told}
    BY DEF ResumeInEngine
  <1> HIDE DEF next, told
  <1> QED BY <1>2, <1>3, <1>6, <1>7

LEMMA EnsuredType ==
    ASSUME TypeOK, NEW e \in Ensured
    PROVE  /\ e.proc \in ProcState
           /\ e.dl \in Downloads
           /\ e.session \subseteq Gid
           /\ e.reconcile \in BOOLEAN
  <1>1. Unfinished(dl) \subseteq Gid
    BY DEF Unfinished
  <1>2. \A S : Restored(S) \in Downloads
    BY DEF Restored, Downloads, Status
  <1>3. NoDownloads \in Downloads
    BY DEF NoDownloads, Downloads, Status
  <1> DEFINE same == [proc |-> proc, dl |-> dl, session |-> session, reconcile |-> needsReconcile]
             saved == IF proc = "orphan" THEN Unfinished(dl) ELSE session
             started == [proc |-> "on", dl |-> Restored(saved), session |-> saved, reconcile |-> TRUE]
             noBinary == [same EXCEPT !.proc = IF proc = "dead" THEN "off" ELSE proc]
             notReady == [same EXCEPT !.proc = "off", !.dl = NoDownloads, !.session = saved]
  <1>4. e \in {same, started, noBinary, notReady}
    BY DEF Ensured
  <1>5. saved \subseteq Gid
    BY <1>1 DEF TypeOK, EngineTypeOK
  <1>6. CASE e = same
    BY <1>6 DEF TypeOK, EngineTypeOK
  <1>7. CASE e = started
    BY <1>2, <1>5, <1>7 DEF ProcState
  <1>8. CASE e = noBinary
    BY <1>8 DEF TypeOK, EngineTypeOK, ProcState
  <1>9. CASE e = notReady
    BY <1>3, <1>5, <1>9 DEF TypeOK, EngineTypeOK, ProcState
  <1> QED BY <1>4, <1>6, <1>7, <1>8, <1>9

-----------------------------------------------------------------------------
(* Type correctness.                                                       *)

\* What a handler does to the rows, in the three ways a write can end.
LEMMA PersistRowsType ==
    ASSUME TypeOK, NEW good \in [Tasks -> Row], NEW before \in [Tasks -> Row],
           PersistRows(good, before)
    PROVE  /\ row' \in [Tasks -> Row]
           /\ backend' \in {"up", "down"}
           /\ crashes' \in 0..MaxCrashes
  BY DEF PersistRows, StaysUp, Die, TypeOK

LEMMA MkRowType ==
    ASSUME NEW s \in TaskState, NEW r \in PauseReason, NEW g \in GidOrNone
    PROVE  MkRow(s, r, g) \in Row
  BY DEF MkRow, Row, GidOrNone

LEMMA RowGidType ==
    ASSUME TypeOK, NEW t \in Tasks
    PROVE  /\ row[t].gid \in GidOrNone
           /\ row[t].reason \in PauseReason
           /\ row[t].state \in TaskState
           /\ row[t] \in Row
  BY DEF TypeOK, Row, GidOrNone

\* A handler that takes an outcome's downloads and saves one row is typed.
LEMMA SavedRow ==
    ASSUME TypeOK, NEW t \in Tasks, NEW s \in TaskState, NEW r \in PauseReason,
           NEW g \in GidOrNone, Persist(t, MkRow(s, r, g))
    PROVE  /\ row' \in [Tasks -> Row]
           /\ backend' \in {"up", "down"}
           /\ crashes' \in 0..MaxCrashes
  <1>1. row \in [Tasks -> Row] /\ [row EXCEPT ![t] = MkRow(s, r, g)] \in [Tasks -> Row]
    BY MkRowType DEF TypeOK
  <1>2. PersistRows([row EXCEPT ![t] = MkRow(s, r, g)], row)
    BY DEF Persist
  <1> QED BY <1>1, <1>2, PersistRowsType

LEMMA EngineTakenType ==
    ASSUME TypeOK, NEW e \in Ensured, Engine(e)
    PROVE  proc' \in ProcState /\ session' \subseteq Gid /\ needsReconcile' \in BOOLEAN
  BY EnsuredType DEF Engine

LEMMA AddTyped ==
    ASSUME TypeOK, NEW t \in Tasks, Add(t)
    PROVE  TypeOK'
  <1>1. PICK r \in Submit(proc, dl, t, "waiting") :
           /\ dl' = r.dl
           /\ PersistRows([row EXCEPT ![t] = MkRow("aguardando", "none", r.gid)],
                          [row EXCEPT ![t] = MkRow("aguardando", "none", NoGid)])
    BY DEF Add
  <1>2. r \in Outcome
    BY SubmitType DEF TypeOK, EngineTypeOK, Status
  <1>3. MkRow("aguardando", "none", r.gid) \in Row /\ MkRow("aguardando", "none", NoGid) \in Row
    BY <1>2, MkRowType DEF Outcome, TaskState, Queued, PauseReason, GidOrNone
  <1>4. /\ row' \in [Tasks -> Row]
        /\ backend' \in {"up", "down"}
        /\ crashes' \in 0..MaxCrashes
    <2>1. /\ [row EXCEPT ![t] = MkRow("aguardando", "none", r.gid)] \in [Tasks -> Row]
          /\ [row EXCEPT ![t] = MkRow("aguardando", "none", NoGid)] \in [Tasks -> Row]
      BY <1>3 DEF TypeOK
    <2> QED BY <1>1, <2>1, PersistRowsType
  <1>5. dl' \in Downloads
    BY <1>1, <1>2 DEF Outcome
  <1> QED BY <1>4, <1>5 DEF Add, SameEngine, Unrelated, opFrame, tickVars, TypeOK, EngineTypeOK

LEMMA PauseTyped ==
    ASSUME TypeOK, NEW t \in Tasks, Pause(t)
    PROVE  TypeOK'
  <1>1. dl' \in Downloads
    BY EffectsType, SentType DEF Pause, TypeOK, EngineTypeOK
  <1>2. Persist(t, MkRow("pausado", "usuario", row[t].gid))
    BY DEF Pause
  <1>3. /\ row' \in [Tasks -> Row]
        /\ backend' \in {"up", "down"}
        /\ crashes' \in 0..MaxCrashes
    BY <1>2, SavedRow, RowGidType DEF TaskState, PauseReason
  <1> QED BY <1>1, <1>3 DEF Pause, SameEngine, Unrelated, opFrame, tickVars, TypeOK, EngineTypeOK

\* What resume and retry do once they have an outcome of the engine.
LEMMA RequeuedType ==
    ASSUME TypeOK, NEW t \in Tasks, NEW r \in Outcome,
           IF r.ok THEN Persist(t, MkRow("aguardando", "none", r.gid))
                   ELSE UNCHANGED row /\ StaysUp
    PROVE  /\ row' \in [Tasks -> Row]
           /\ backend' \in {"up", "down"}
           /\ crashes' \in 0..MaxCrashes
           /\ r.dl \in Downloads
  <1>1. r.gid \in GidOrNone /\ r.dl \in Downloads
    BY DEF Outcome
  <1>2. CASE Persist(t, MkRow("aguardando", "none", r.gid))
    BY <1>1, <1>2, SavedRow DEF TaskState, Queued, PauseReason
  <1>3. CASE UNCHANGED row /\ StaysUp
    BY <1>1, <1>3 DEF StaysUp, TypeOK
  <1> QED BY <1>2, <1>3

LEMMA ResumeTyped ==
    ASSUME TypeOK, NEW t \in Tasks, Resume(t)
    PROVE  TypeOK'
  <1>1. PICK e \in Ensured : \E r \in ResumeInEngine(e.proc, e.dl, t) :
           /\ Engine(e)
           /\ dl' = r.dl
           /\ IF r.ok THEN Persist(t, MkRow("aguardando", "none", r.gid))
                      ELSE UNCHANGED row /\ StaysUp
    BY DEF Resume
  <1>2. PICK r \in ResumeInEngine(e.proc, e.dl, t) :
           /\ Engine(e)
           /\ dl' = r.dl
           /\ IF r.ok THEN Persist(t, MkRow("aguardando", "none", r.gid))
                      ELSE UNCHANGED row /\ StaysUp
    BY <1>1
  <1>3. r \in Outcome
    BY EnsuredType, ResumeInEngineType
  <1>4. proc' \in ProcState /\ session' \subseteq Gid /\ needsReconcile' \in BOOLEAN
    BY <1>2, EngineTakenType
  <1> QED BY <1>2, <1>3, <1>4, RequeuedType
          DEF Resume, Unrelated, opFrame, tickVars, TypeOK, EngineTypeOK

LEMMA CancelTyped ==
    ASSUME TypeOK, NEW t \in Tasks, Cancel(t)
    PROVE  TypeOK'
  <1>1. dl' \in Downloads
    BY EffectsType, SentType DEF Cancel, TypeOK, EngineTypeOK
  <1>2. Persist(t, MkRow("cancelado", "none", row[t].gid))
    BY DEF Cancel
  <1>3. /\ row' \in [Tasks -> Row]
        /\ backend' \in {"up", "down"}
        /\ crashes' \in 0..MaxCrashes
    BY <1>2, SavedRow, RowGidType DEF TaskState, Terminal, PauseReason
  <1> QED BY <1>1, <1>3 DEF Cancel, SameEngine, Unrelated, opFrame, tickVars, TypeOK, EngineTypeOK

LEMMA ConfirmedType ==
    ASSUME TypeOK, NEW t \in Tasks, ConfirmCancelled(t)
    PROVE  /\ row' \in [Tasks -> Row]
           /\ backend' \in {"up", "down"}
           /\ crashes' \in 0..MaxCrashes
           /\ confirmed' \subseteq Tasks
  <1>1. Persist(t, MkRow("cancelado", "none", row[t].gid)) /\ confirmed' \subseteq Tasks
    BY DEF ConfirmCancelled, TypeOK
  <1> QED BY <1>1, SavedRow, RowGidType DEF TaskState, Terminal, PauseReason

LEMMA CancelByRequestKeyTyped ==
    ASSUME TypeOK, NEW t \in Tasks, CancelByRequestKey(t)
    PROVE  TypeOK'
  <1> DEFINE Typed == /\ row' \in [Tasks -> Row]
                      /\ backend' \in {"up", "down"}
                      /\ crashes' \in 0..MaxCrashes
                      /\ confirmed' \subseteq Tasks
                      /\ dl' \in Downloads
  <1>1. ASSUME CancelAbsent(t) PROVE Typed
    BY <1>1 DEF CancelAbsent, StaysUp, TypeOK, EngineTypeOK
  <1>2. ASSUME CancelCompleted(t) PROVE Typed
    BY <1>2 DEF CancelCompleted, StaysUp, TypeOK, EngineTypeOK
  <1>3. ASSUME CancelUnsubmitted(t) PROVE Typed
    BY <1>3, ConfirmedType DEF CancelUnsubmitted, TypeOK, EngineTypeOK
  <1>4. ASSUME CancelInEngine(t) PROVE Typed
    <2> DEFINE g == row[t].gid
    <2>1. PICK d1 \in Sent(proc, dl, Removed(dl, {g})) : \E d2 \in {d1, Halted(d1, {g})} :
             /\ dl' = d2
             /\ ConfirmCancelled(t) \/ (UNCHANGED <<row, confirmed>> /\ StaysUp)
      BY <1>4 DEF CancelInEngine
    <2>2. d1 \in Downloads
      BY EffectsType, SentType DEF TypeOK, EngineTypeOK
    <2>3. dl' \in Downloads
      BY <2>1, <2>2, EffectsType
    <2>4. CASE ConfirmCancelled(t)
      BY <2>3, <2>4, ConfirmedType
    <2>5. CASE UNCHANGED <<row, confirmed>> /\ StaysUp
      BY <2>3, <2>5 DEF StaysUp, TypeOK
    <2> QED BY <2>1, <2>4, <2>5
  <1>5. Typed
    BY <1>1, <1>2, <1>3, <1>4 DEF CancelByRequestKey
  <1> QED BY <1>5 DEF CancelByRequestKey, SameEngine, opFrame, tickVars, TypeOK, EngineTypeOK

LEMMA RetryTyped ==
    ASSUME TypeOK, NEW t \in Tasks, Retry(t)
    PROVE  TypeOK'
  <1>1. PICK e \in Ensured : \E r \in Submit(e.proc, e.dl, t, "waiting") :
           /\ Engine(e)
           /\ dl' = r.dl
           /\ IF r.ok THEN Persist(t, MkRow("aguardando", "none", r.gid))
                      ELSE UNCHANGED row /\ StaysUp
    BY DEF Retry
  <1>2. PICK r \in Submit(e.proc, e.dl, t, "waiting") :
           /\ Engine(e)
           /\ dl' = r.dl
           /\ IF r.ok THEN Persist(t, MkRow("aguardando", "none", r.gid))
                      ELSE UNCHANGED row /\ StaysUp
    BY <1>1
  <1>3. r \in Outcome
    BY EnsuredType, SubmitType DEF Status
  <1>4. proc' \in ProcState /\ session' \subseteq Gid /\ needsReconcile' \in BOOLEAN
    BY <1>2, EngineTakenType
  <1> QED BY <1>2, <1>3, <1>4, RequeuedType
          DEF Retry, opFrame, tickVars, TypeOK, EngineTypeOK

LEMMA RemoveFromHistoryTyped ==
    ASSUME TypeOK, NEW t \in Tasks, RemoveFromHistory(t)
    PROVE  TypeOK'
  <1>1. dl' \in Downloads
    BY EffectsType, SentType DEF RemoveFromHistory, TypeOK, EngineTypeOK
  <1>2. Persist(t, MkRow("apagado", "none", NoGid))
    BY DEF RemoveFromHistory
  <1>3. /\ row' \in [Tasks -> Row]
        /\ backend' \in {"up", "down"}
        /\ crashes' \in 0..MaxCrashes
    BY <1>2, SavedRow DEF TaskState, Absent, PauseReason, GidOrNone
  <1> QED BY <1>1, <1>3
          DEF RemoveFromHistory, SameEngine, Unrelated, opFrame, tickVars, TypeOK, EngineTypeOK

LEMMA ChangeConnectionsTyped ==
    ASSUME TypeOK, NEW t \in Tasks, ChangeConnections(t)
    PROVE  TypeOK'
  <1> DEFINE g == row[t].gid
  <1>1. PICK d1 \in Sent(proc, dl, Paused(dl, {g})) : \E d2 \in {d1, Halted(d1, {g})} :
           dl' = d2 \/ dl' \in Sent(proc, d2, Unpaused(d2, g))
    BY DEF ChangeConnections
  <1>2. g \in Gid
    BY RowGidType DEF ChangeConnections, GidOrNone
  <1>3. d1 \in Downloads
    BY EffectsType, SentType DEF TypeOK, EngineTypeOK
  <1>4. \A d2 \in Downloads : Unpaused(d2, g) \in Downloads
    BY <1>2 DEF Unpaused, Downloads, Status
  <1>5. Halted(d1, {g}) \in Downloads
    BY <1>3, EffectsType
  <1>6. dl' \in Downloads
    BY <1>1, <1>3, <1>4, <1>5, SentType
  <1>7. backend' \in {"up", "down"} /\ crashes' \in 0..MaxCrashes
    BY DEF ChangeConnections, StaysUp, Die, TypeOK
  <1> QED BY <1>6, <1>7
         DEF ChangeConnections, SameEngine, Unrelated, opFrame, tickVars, TypeOK, EngineTypeOK

LEMMA PausedRowsType ==
    ASSUME TypeOK, NEW S, NEW why \in PauseReason
    PROVE  PausedRows(S, why) \in [Tasks -> Row]
  <1>1. \A t \in Tasks : MkRow("pausado", why, row[t].gid) \in Row
    BY MkRowType, RowGidType DEF TaskState
  <1>2. \A t \in Tasks : row[t] \in Row
    BY RowGidType
  <1> QED BY <1>1, <1>2 DEF PausedRows

LEMMA PauseAllTyped ==
    ASSUME TypeOK, PauseAll
    PROVE  TypeOK'
  <1>1. dl' \in Downloads
    BY EffectsType, SentType DEF PauseAll, TypeOK, EngineTypeOK
  <1>2. PICK S \in SUBSET Tasks :
           PersistRows(PausedRows(Tasks, "usuario"), PausedRows(S, "usuario"))
    BY DEF PauseAll
  <1>3. /\ row' \in [Tasks -> Row]
        /\ backend' \in {"up", "down"}
        /\ crashes' \in 0..MaxCrashes
    BY <1>2, PausedRowsType, PersistRowsType DEF PauseReason
  <1> QED BY <1>1, <1>3 DEF PauseAll, SameEngine, Unrelated, opFrame, tickVars, TypeOK, EngineTypeOK

LEMMA ResumeAllTyped ==
    ASSUME TypeOK, ResumeAll
    PROVE  TypeOK'
  <1>1. PICK e \in Ensured : Engine(e) /\ dl' = e.dl
    BY DEF ResumeAll
  <1>2. dl' \in Downloads /\ proc' \in ProcState /\ session' \subseteq Gid /\ needsReconcile' \in BOOLEAN
    BY <1>1, EnsuredType, EngineTakenType
  <1> QED BY <1>2 DEF ResumeAll, StaysUp, TypeOK, EngineTypeOK, Phase

LEMMA ResumeAllTaskTyped ==
    ASSUME TypeOK, NEW t \in Tasks, ResumeAllTask(t)
    PROVE  TypeOK'
  <1>1. PICK r \in ResumeInEngine(proc, dl, t) :
           /\ dl' = r.dl
           /\ IF r.ok THEN Persist(t, MkRow("aguardando", "none", r.gid))
                      ELSE UNCHANGED row /\ StaysUp
           /\ todo' = IF r.ok /\ row' = row THEN {} ELSE todo \ {t}
    BY DEF ResumeAllTask
  <1>2. r \in Outcome
    BY ResumeInEngineType DEF TypeOK, EngineTypeOK
  <1>3. /\ row' \in [Tasks -> Row]
        /\ backend' \in {"up", "down"}
        /\ crashes' \in 0..MaxCrashes
        /\ dl' \in Downloads
    BY <1>1, <1>2, RequeuedType
  <1>4. todo' \subseteq Tasks
    BY <1>1 DEF TypeOK
  <1> QED BY <1>3, <1>4 DEF ResumeAllTask, SameEngine, TypeOK, EngineTypeOK

LEMMA SettingsAndShutdownTyped ==
    ASSUME TypeOK, SetAutoResume \/ RestartEngine \/ Shutdown
    PROVE  TypeOK'
  <1>1. CASE SetAutoResume
    BY <1>1 DEF SetAutoResume, engineVars, tickVars, TypeOK, EngineTypeOK
  <1>2. CASE RestartEngine
    <2>1. PICK e \in Ensured : Engine(e) /\ dl' = e.dl
      BY <1>2 DEF RestartEngine
    <2>2. dl' \in Downloads /\ proc' \in ProcState /\ session' \subseteq Gid /\ needsReconcile' \in BOOLEAN
      BY <2>1, EnsuredType, EngineTakenType
    <2> QED BY <1>2, <2>2
            DEF RestartEngine, StaysUp, Unrelated, opFrame, tickVars, TypeOK, EngineTypeOK
  <1>3. CASE Shutdown
    <2>1. PICK d \in Sent(proc, dl, Paused(dl, Gid)) : StopEngine(d)
      BY <1>3 DEF Shutdown
    <2>2. d \in Downloads
      BY EffectsType, SentType DEF TypeOK, EngineTypeOK
    <2>3. proc' \in ProcState /\ session' \subseteq Gid /\ dl' \in Downloads
      BY <2>1, <2>2, EffectsType DEF StopEngine, Unfinished, ProcState, TypeOK, EngineTypeOK
    <2>4. row' \in [Tasks -> Row]
      BY <1>3, PausedRowsType DEF Shutdown, PauseReason
    <2> QED BY <1>3, <2>3, <2>4
            DEF Shutdown, Unrelated, opFrame, tickVars, TypeOK, EngineTypeOK
  <1> QED BY <1>1, <1>2, <1>3

LEMMA ListedType ==
    ASSUME TypeOK, NEW statuses
    PROVE  Listed(dl, statuses) \in Reports
  BY DEF Listed, Reported, TypeOK, EngineTypeOK, Downloads, Reports, Status

LEMMA PollTyped ==
    ASSUME TypeOK, TickBegin \/ TellActive \/ TellWaiting \/ PollFails
    PROVE  TypeOK'
  <1>1. \A statuses : Listed(dl, statuses) \in Reports
    BY ListedType
  <1>2. CASE TickBegin
    <2>1. PICK e \in Ensured : /\ Engine(e) /\ dl' = e.dl
                               /\ pc' = IF e.proc = "on" THEN "active" ELSE "idle"
      BY <1>2 DEF TickBegin
    <2>2. dl' \in Downloads /\ proc' \in ProcState /\ session' \subseteq Gid /\ needsReconcile' \in BOOLEAN
      BY <2>1, EnsuredType, EngineTakenType
    <2> QED BY <1>2, <2>1, <2>2 DEF TickBegin, StaysUp, TypeOK, EngineTypeOK, Phase
  <1>3. CASE TellActive
    BY <1>1, <1>3 DEF TellActive, engineVars, TypeOK, EngineTypeOK, Phase
  <1>4. CASE TellWaiting
    BY <1>1, <1>4 DEF TellWaiting, engineVars, TypeOK, EngineTypeOK, Phase
  <1>5. CASE PollFails
    <2>1. EngineTypeOK'
      <3>1. CASE UNCHANGED engineVars
        BY <3>1 DEF engineVars, TypeOK, EngineTypeOK
      <3>2. CASE StopEngine(dl)
        BY <3>2, EffectsType DEF StopEngine, Unfinished, ProcState, TypeOK, EngineTypeOK
      <3> QED BY <1>5, <3>1, <3>2 DEF PollFails
    <2>2. snap' \in Reports
      BY <1>5, EffectsType DEF PollFails, TypeOK, EngineTypeOK
    <2> QED BY <1>5, <2>1, <2>2 DEF PollFails, TypeOK, Phase
  <1> QED BY <1>2, <1>3, <1>4, <1>5

LEMMA LoadTyped ==
    ASSUME TypeOK, TellStopped \/ ListTasksFails \/ Release
    PROVE  TypeOK'
  <1>1. CASE TellStopped
    <2>1. snap' \in Reports
      BY <1>1, ListedType DEF TellStopped
    <2>2. dl' \in Downloads
      BY <1>1, EffectsType, SentType DEF TellStopped, TypeOK, EngineTypeOK
    <2> QED BY <1>1, <2>1, <2>2 DEF TellStopped, TypeOK, EngineTypeOK, Phase
  <1>2. CASE ListTasksFails
    BY <1>2, EffectsType DEF ListTasksFails, engineVars, TypeOK, EngineTypeOK, Phase
  <1>3. CASE Release
    BY <1>3, EffectsType DEF Release, engineVars, TypeOK, EngineTypeOK, Phase
  <1> QED BY <1>1, <1>2, <1>3

LEMMA VerifyType ==
    ASSUME TypeOK, NEW t \in Tasks, Verify(t) \/ UNCHANGED jobs
    PROVE  jobs' \in [Tasks -> 0..MaxJobs]
  <1>1. CASE Verify(t)
    <2>1. jobs[t] + 1 \in 0..MaxJobs
      BY <1>1 DEF Verify, TypeOK
    <2> QED BY <1>1, <2>1 DEF Verify, TypeOK
  <1> QED BY <1>1 DEF TypeOK

\* The row a status leads to, whatever the status.
LEMMA FollowedType ==
    ASSUME TypeOK, NEW t \in Tasks, Seen(t) # "none"
    PROVE  Followed(t) \in Row
  <1> DEFINE g == row[t].gid
  <1>1. Seen(t) \in {"waiting", "active", "paused", "complete", "error", "removed"}
    BY RowGidType DEF Seen, TypeOK, Reports, Status, GidOrNone
  <1>2. \A s \in TaskState, why \in PauseReason : MkRow(s, why, g) \in Row
    BY MkRowType, RowGidType
  <1>3. /\ {"baixando", "aguardando", "pausado", "verificando", "concluido", "erro",
            "cancelado"} \subseteq TaskState
        /\ {"none", "sistema", row[t].reason} \subseteq PauseReason
    BY RowGidType DEF TaskState, Queued, Terminal, PauseReason
  <1>4. CASE Seen(t) = "active"
    BY <1>2, <1>3, <1>4 DEF Followed
  <1>5. CASE Seen(t) = "waiting"
    BY <1>2, <1>3, <1>5 DEF Followed
  <1>6. CASE Seen(t) = "paused"
    BY <1>2, <1>3, <1>6 DEF Followed
  <1>7. CASE Seen(t) = "complete"
    BY <1>2, <1>3, <1>7 DEF Followed
  <1>8. CASE Seen(t) = "error"
    BY <1>2, <1>3, <1>8 DEF Followed
  <1>9. CASE Seen(t) = "removed"
    BY <1>2, <1>3, <1>9 DEF Followed
  <1> QED BY <1>1, <1>4, <1>5, <1>6, <1>7, <1>8, <1>9

LEMMA SyncTaskTyped ==
    ASSUME TypeOK, NEW t \in Tasks, SyncTask(t)
    PROVE  TypeOK'
  <1> DEFINE g == row[t].gid
             Typed == /\ row' \in [Tasks -> Row]
                      /\ backend' \in {"up", "down"}
                      /\ crashes' \in 0..MaxCrashes
                      /\ dl' \in Downloads
                      /\ jobs' \in [Tasks -> 0..MaxJobs]
  <1>1. ASSUME SyncSettled(t) PROVE Typed
    BY <1>1, VerifyType DEF SyncSettled, StaysUp, TypeOK, EngineTypeOK
  <1>2. ASSUME SyncAbsent(t) PROVE Typed
    <2> DEFINE held == IF row[t].state = "pausado" THEN row[t].reason ELSE "sistema"
               entry == IF ShouldRun(t) THEN "waiting" ELSE "paused"
    <2>1. PICK r \in Submit(proc, dl, t, entry) :
             /\ dl' = r.dl
             /\ \/ Persist(t, MkRow("aguardando", "none", r.gid))
                \/ Persist(t, MkRow("pausado", held, r.gid))
                \/ UNCHANGED row /\ StaysUp
      BY <1>2 DEF SyncAbsent
    <2>2. entry \in Status
      BY DEF Status
    <2>3. r \in Outcome
      BY <2>2, SubmitType DEF TypeOK, EngineTypeOK
    <2>4. dl' \in Downloads /\ r.gid \in GidOrNone
      BY <2>1, <2>3 DEF Outcome
    <2>5. /\ row' \in [Tasks -> Row]
          /\ backend' \in {"up", "down"}
          /\ crashes' \in 0..MaxCrashes
      <3>1. CASE Persist(t, MkRow("aguardando", "none", r.gid))
        BY <2>4, <3>1, SavedRow DEF TaskState, Queued, PauseReason
      <3>2. CASE Persist(t, MkRow("pausado", held, r.gid))
        <4>1. held \in PauseReason
          BY RowGidType DEF PauseReason
        <4> HIDE DEF held
        <4> QED BY <2>4, <3>2, <4>1, SavedRow DEF TaskState
      <3>3. CASE UNCHANGED row /\ StaysUp
        BY <3>3 DEF StaysUp, TypeOK
      <3> QED BY <2>1, <3>1, <3>2, <3>3
    <2> QED BY <1>2, <2>4, <2>5 DEF SyncAbsent, TypeOK
  <1>3. ASSUME SyncRelease(t) PROVE Typed
    <2>1. \/ dl' \in Sent(proc, dl, Unpaused(dl, g))
          \/ dl' = dl
      BY <1>3 DEF SyncRelease
    <2>2. dl' \in Downloads
      <3>1. Unpaused(dl, g) \in Downloads
        BY DEF Unpaused, Downloads, Status, TypeOK, EngineTypeOK
      <3> QED BY <2>1, <3>1, SentType DEF TypeOK, EngineTypeOK
    <2>3. Persist(t, MkRow("aguardando", "none", g))
      BY <1>3 DEF SyncRelease
    <2>4. /\ row' \in [Tasks -> Row]
          /\ backend' \in {"up", "down"}
          /\ crashes' \in 0..MaxCrashes
      BY <2>3, SavedRow, RowGidType DEF TaskState, Queued, PauseReason
    <2> QED BY <1>3, <2>2, <2>4 DEF SyncRelease, TypeOK
  <1>4. ASSUME SyncHold(t) PROVE Typed
    <2>1. dl' \in Downloads
      BY <1>4, EffectsType, SentType DEF SyncHold, TypeOK, EngineTypeOK
    <2>2. Persist(t, MkRow("pausado", "sistema", g))
      BY <1>4 DEF SyncHold
    <2>3. /\ row' \in [Tasks -> Row]
          /\ backend' \in {"up", "down"}
          /\ crashes' \in 0..MaxCrashes
      BY <2>2, SavedRow, RowGidType DEF TaskState, PauseReason
    <2> QED BY <1>4, <2>1, <2>3 DEF SyncHold, TypeOK
  <1>5. ASSUME SyncFollow(t) PROVE Typed
    <2>1. dl' \in Downloads
      BY <1>5, EffectsType, SentType DEF SyncFollow, TypeOK, EngineTypeOK
    <2>2. jobs' \in [Tasks -> 0..MaxJobs]
      BY <1>5, VerifyType DEF SyncFollow
    <2>3. Followed(t) \in Row
      BY <1>5, FollowedType DEF SyncFollow
    <2>4. [row EXCEPT ![t] = Followed(t)] \in [Tasks -> Row] /\ row \in [Tasks -> Row]
      BY <2>3 DEF TypeOK
    <2>5. PersistRows([row EXCEPT ![t] = Followed(t)], row)
      BY <1>5 DEF SyncFollow, Persist
    <2> QED BY <2>1, <2>2, <2>4, <2>5, PersistRowsType
  <1>6. Typed
    BY <1>1, <1>2, <1>3, <1>4, <1>5 DEF SyncTask
  <1> QED BY <1>6 DEF SyncTask, SameEngine, TypeOK, EngineTypeOK

LEMMA VerificationDoneTyped ==
    ASSUME TypeOK, NEW t \in Tasks, VerificationDone(t)
    PROVE  TypeOK'
  <1>1. jobs' \in [Tasks -> 0..MaxJobs]
    <2>1. jobs[t] - 1 \in 0..MaxJobs
      BY DEF VerificationDone, TypeOK
    <2> QED BY <2>1 DEF VerificationDone, TypeOK
  <1>2. /\ row' \in [Tasks -> Row]
        /\ backend' \in {"up", "down"}
        /\ crashes' \in 0..MaxCrashes
    <2>1. CASE UNCHANGED row /\ StaysUp
      BY <2>1 DEF StaysUp, TypeOK
    <2>2. CASE \E s \in {"concluido", "erro"} : Persist(t, [row[t] EXCEPT !.state = s])
      <3>1. PICK s \in {"concluido", "erro"} : Persist(t, [row[t] EXCEPT !.state = s])
        BY <2>2
      <3>2. [row[t] EXCEPT !.state = s] \in Row
        BY RowGidType DEF Row, TaskState, Terminal
      <3>3. [row EXCEPT ![t] = [row[t] EXCEPT !.state = s]] \in [Tasks -> Row]
        BY <3>2 DEF TypeOK
      <3>4. PersistRows([row EXCEPT ![t] = [row[t] EXCEPT !.state = s]], row)
        BY <3>1 DEF Persist
      <3>5. row \in [Tasks -> Row]
        BY DEF TypeOK
      <3> QED BY <3>3, <3>4, <3>5, PersistRowsType
    <2> QED BY <2>1, <2>2 DEF VerificationDone
  <1> QED BY <1>1, <1>2 DEF VerificationDone, SameEngine, tickVars, TypeOK, EngineTypeOK

LEMMA EnvironmentTyped ==
    ASSUME TypeOK, EngineMoves \/ EngineDies \/ BackendDies \/ BackendStart
    PROVE  TypeOK'
  <1>1. CASE EngineMoves
    <2>1. EngineTypeOK'
      <3>1. ASSUME NEW g \in Gid, Promote(g) \/ Finish(g) PROVE EngineTypeOK'
        BY <3>1 DEF Promote, Finish, TypeOK, EngineTypeOK, Downloads, Status
      <3>2. ASSUME NEW g \in Gid, Halt(g) PROVE EngineTypeOK'
        BY <3>2, EffectsType DEF Halt, TypeOK, EngineTypeOK
      <3>3. CASE SaveSession
        BY <3>3 DEF SaveSession, Unfinished, TypeOK, EngineTypeOK
      <3> QED BY <1>1, <3>1, <3>2, <3>3 DEF EngineMoves, EngineStep
    <2> QED BY <1>1, <2>1 DEF EngineMoves, serviceVars, TypeOK
  <1>2. CASE EngineDies
    BY <1>2, EffectsType DEF EngineDies, tickVars, TypeOK, EngineTypeOK, ProcState
  <1>3. CASE BackendDies
    BY <1>3 DEF BackendDies, Die, engineVars, tickVars, TypeOK, EngineTypeOK
  <1>4. CASE BackendStart
    <2>1. proc' \in ProcState
      BY <1>4 DEF BackendStart, TypeOK, EngineTypeOK, ProcState
    <2>2. jobs' \in [Tasks -> 0..MaxJobs]
      BY <1>4 DEF BackendStart
    <2> QED BY <1>4, <2>1, <2>2, EffectsType DEF BackendStart, TypeOK, EngineTypeOK, Phase
  <1> QED BY <1>1, <1>2, <1>3, <1>4

LEMMA InitTyped == Init => TypeOK
  <1> SUFFICES ASSUME Init PROVE TypeOK
    OBVIOUS
  <1>1. EngineTypeOK
    BY EffectsType DEF Init, EngineInit, EngineTypeOK, ProcState, NoDownloads, Downloads, Status
  <1>2. row \in [Tasks -> Row]
    BY MkRowType DEF Init, TaskState, Absent, PauseReason, GidOrNone
  <1>3. snap \in Reports
    BY DEF Init, NoDownloads, Reports, Status
  <1>4. jobs \in [Tasks -> 0..MaxJobs] /\ crashes \in 0..MaxCrashes
    BY DEF Init
  <1> QED BY <1>1, <1>2, <1>3, <1>4 DEF Init, TypeOK, Phase

\* TypeOK is an invariant of the service: every handler, tick and death leaves
\* rows, downloads, snapshot and hash jobs of the right kind, whatever the
\* engine answers and whichever statement fails.
THEOREM TypeCorrect == Spec => []TypeOK
  <1>1. Init => TypeOK
    BY InitTyped
  <1>2. TypeOK /\ [Next]_vars => TypeOK'
    <2> SUFFICES ASSUME TypeOK, [Next]_vars PROVE TypeOK'
      OBVIOUS
    <2>1. CASE UNCHANGED vars
      BY <2>1 DEF vars, engineVars, serviceVars, TypeOK, EngineTypeOK
    <2>2. CASE Operation
      BY <2>2, AddTyped, PauseTyped, ResumeTyped, CancelTyped, RetryTyped,
         CancelByRequestKeyTyped, RemoveFromHistoryTyped, ChangeConnectionsTyped,
         PauseAllTyped, ResumeAllTyped, SettingsAndShutdownTyped DEF Operation
    <2>3. CASE Tick
      BY <2>3, PollTyped, LoadTyped, SyncTaskTyped, ResumeAllTaskTyped DEF Tick
    <2>4. CASE \E t \in Tasks : VerificationDone(t)
      BY <2>4, VerificationDoneTyped
    <2>5. CASE EngineMoves \/ EngineDies \/ BackendDies \/ BackendStart
      BY <2>5, EnvironmentTyped
    <2> QED BY <2>1, <2>2, <2>3, <2>4, <2>5 DEF Next
  <1> QED BY <1>1, <1>2, PTL DEF Spec

-----------------------------------------------------------------------------
(* What a step may never do, proved by comparing the state before and      *)
(* after each handler.                                                     *)
(*                                                                         *)
(* The life of a row: no step of the service, its tick, its hash jobs or   *)
(* its environment overturns how a task ended, and none concludes a task   *)
(* with a checksum unless its verification is running.  resume_all names   *)
(* its tasks before it goes through them, so that part needs an invariant: *)
(* ResumingPaused.                                                         *)
(*                                                                         *)
(* The restart: after a restart of the engine, the tick with automatic     *)
(* resume off starts nothing.  Each conversation with the engine is quiet: *)
(* it adds no running download.  That the rest of the service does not act *)
(* meanwhile is the invariant ReconcilingTick: only a tick sees reconcile  *)
(* set.                                                                    *)

\* What a step may make of the state of t.
Law(t, old, new) ==
    /\ old \in Terminal =>
          \/ new \in {old, "apagado"}
          \/ old # "concluido" /\ new \in {"cancelado", "aguardando"}
    /\ t \in HasSha /\ new = "concluido" /\ old # "concluido" =>
          old = "verificando" /\ jobs[t] > 0

Lawful == \A t \in Tasks : Law(t, row[t].state, row'[t].state)

\* The tasks resume_all still has to go through are paused: nobody else saves
\* a row while it keeps the mutex.
ResumingPaused == pc = "resumeAll" => \A t \in todo : row[t].state = "pausado"

\* A step that leaves the rows alone is lawful.
LEMMA UnchangedIsLawful ==
    ASSUME UNCHANGED row
    PROVE  Lawful
  BY DEF Lawful, Law

\* A handler that saves one row is lawful if its change to that row is.
LEMMA SavedIsLawful ==
    ASSUME TypeOK, NEW t \in Tasks, NEW r, Persist(t, r), Law(t, row[t].state, r.state)
    PROVE  Lawful
  <1>1. row' = [row EXCEPT ![t] = r] \/ row' = row
    BY DEF Persist, PersistRows
  <1>2. CASE row' = [row EXCEPT ![t] = r]
    <2> SUFFICES ASSUME NEW u \in Tasks PROVE Law(u, row[u].state, row'[u].state)
      BY DEF Lawful
    <2>1. CASE u = t
      BY <1>2, <2>1 DEF TypeOK
    <2>2. CASE u # t
      BY <1>2, <2>2 DEF TypeOK, Law
    <2> QED BY <2>1, <2>2
  <1>3. CASE row' = row
    BY <1>3, UnchangedIsLawful
  <1> QED BY <1>1, <1>2, <1>3

\* The same for MkRow, which all handlers but one use.
LEMMA MadeIsLawful ==
    ASSUME TypeOK, NEW t \in Tasks, NEW s, NEW why, NEW g,
           Persist(t, MkRow(s, why, g)), Law(t, row[t].state, s)
    PROVE  Lawful
  BY SavedIsLawful DEF MkRow

\* Marking queued rows as paused is lawful.
LEMMA PausedIsLawful ==
    ASSUME TypeOK, NEW S, NEW why, row' = PausedRows(S, why)
    PROVE  Lawful
  <1> SUFFICES ASSUME NEW t \in Tasks PROVE Law(t, row[t].state, row'[t].state)
    BY DEF Lawful
  <1>1. CASE t \in S /\ row[t].state \in Queued
    BY <1>1 DEF PausedRows, MkRow, Law, Queued, Terminal
  <1>2. CASE ~(t \in S /\ row[t].state \in Queued)
    BY <1>2 DEF PausedRows, Law
  <1> QED BY <1>1, <1>2

-----------------------------------------------------------------------------
(* The operations.                                                         *)

\* What resume and retry do once they have an outcome r of the engine.
LEMMA RequeuedIsLawful ==
    ASSUME TypeOK, NEW t \in Tasks, NEW r,
           row[t].state \in {"pausado", "erro", "cancelado"},
           IF r.ok THEN Persist(t, MkRow("aguardando", "none", r.gid))
                   ELSE UNCHANGED row /\ StaysUp
    PROVE  Lawful
  <1>1. CASE Persist(t, MkRow("aguardando", "none", r.gid))
    <2>1. Law(t, row[t].state, "aguardando")
      BY DEF Law, Terminal
    <2> QED BY <1>1, <2>1, MadeIsLawful
  <1>2. CASE UNCHANGED row
    BY <1>2, UnchangedIsLawful
  <1> QED BY <1>1, <1>2

\* ConfirmCancelled, where cancel_by_request_key may use it.
LEMMA ConfirmedIsLawful ==
    ASSUME TypeOK, NEW t \in Tasks, ConfirmCancelled(t), row[t].state # "concluido"
    PROVE  Lawful
  <1>1. Law(t, row[t].state, "cancelado")
    BY DEF Law, Terminal
  <1> QED BY <1>1, MadeIsLawful DEF ConfirmCancelled

LEMMA AddIsLawful ==
    ASSUME TypeOK, NEW t \in Tasks, Add(t)
    PROVE  Lawful
  <1>1. PICK g : row' \in {[row EXCEPT ![t] = MkRow("aguardando", "none", g)],
                           [row EXCEPT ![t] = MkRow("aguardando", "none", NoGid)]}
    BY DEF Add, PersistRows
  <1>2. row[t].state = "novo"
    BY DEF Add
  <1> SUFFICES ASSUME NEW u \in Tasks PROVE Law(u, row[u].state, row'[u].state)
    BY DEF Lawful
  <1>3. CASE u = t
    <2>1. row'[u].state = "aguardando"
      BY <1>1, <1>3 DEF TypeOK, MkRow
    <2> QED BY <1>2, <1>3, <2>1 DEF Law, Terminal
  <1>4. CASE u # t
    BY <1>1, <1>4 DEF TypeOK, Law
  <1> QED BY <1>3, <1>4

LEMMA OperationIsLawful ==
    ASSUME TypeOK, Operation
    PROVE  Lawful
  <1>1. ASSUME NEW t \in Tasks, Pause(t) PROVE Lawful
    <2>1. Law(t, row[t].state, "pausado")
      BY <1>1 DEF Pause, Law, Queued, Terminal
    <2> QED BY <1>1, <2>1, MadeIsLawful DEF Pause
  <1>2. ASSUME NEW t \in Tasks, Resume(t) PROVE Lawful
    BY <1>2, RequeuedIsLawful DEF Resume
  <1>3. ASSUME NEW t \in Tasks, Cancel(t) PROVE Lawful
    <2>1. Law(t, row[t].state, "cancelado")
      BY <1>3 DEF Cancel, Law
    <2> QED BY <1>3, <2>1, MadeIsLawful DEF Cancel
  <1>4. ASSUME NEW t \in Tasks, Retry(t) PROVE Lawful
    BY <1>4, RequeuedIsLawful DEF Retry
  <1>5. ASSUME NEW t \in Tasks, CancelByRequestKey(t) PROVE Lawful
    <2>1. CASE CancelAbsent(t) \/ CancelCompleted(t)
      BY <2>1, UnchangedIsLawful DEF CancelAbsent, CancelCompleted
    <2>2. CASE CancelUnsubmitted(t)
      BY <2>2, ConfirmedIsLawful DEF CancelUnsubmitted
    <2>3. CASE CancelInEngine(t)
      <3>1. row[t].state # "concluido" /\ (ConfirmCancelled(t) \/ UNCHANGED row)
        BY <2>3 DEF CancelInEngine
      <3> QED BY <3>1, ConfirmedIsLawful, UnchangedIsLawful
    <2> QED BY <1>5, <2>1, <2>2, <2>3 DEF CancelByRequestKey
  <1>6. ASSUME NEW t \in Tasks, RemoveFromHistory(t) PROVE Lawful
    <2>1. Law(t, row[t].state, "apagado")
      BY DEF Law
    <2> QED BY <1>6, <2>1, MadeIsLawful DEF RemoveFromHistory
  <1>7. ASSUME NEW t \in Tasks, ChangeConnections(t) PROVE Lawful
    BY <1>7, UnchangedIsLawful DEF ChangeConnections
  <1>8. CASE PauseAll
    <2>1. PICK S : row' \in {PausedRows(Tasks, "usuario"), PausedRows(S, "usuario")}
      BY <1>8 DEF PauseAll, PersistRows
    <2> QED BY <2>1, PausedIsLawful
  <1>9. CASE Shutdown
    <2>1. PICK S : row' = PausedRows(S, "sistema")
      BY <1>9 DEF Shutdown
    <2> QED BY <2>1, PausedIsLawful
  <1>10. CASE ResumeAll \/ SetAutoResume \/ RestartEngine
    BY <1>10, UnchangedIsLawful DEF ResumeAll, SetAutoResume, RestartEngine
  <1> QED BY <1>1, <1>2, <1>3, <1>4, <1>5, <1>6, <1>7, <1>8, <1>9, <1>10, AddIsLawful
          DEF Operation

-----------------------------------------------------------------------------
(* The tick, the hash jobs and the environment.                            *)

\* A status of the engine never concludes a task that has a checksum.
LEMMA FollowedIsLawful ==
    ASSUME TypeOK, NEW t \in Tasks, SyncFollow(t)
    PROVE  Law(t, row[t].state, Followed(t).state)
  <1>1. row[t].state \notin Terminal
    BY DEF SyncFollow, Queued, Terminal
  <1>2. Seen(t) \in {"waiting", "active", "paused", "complete", "error", "removed"}
    BY RowGidType DEF SyncFollow, Seen, TypeOK, Reports, Status, GidOrNone
  <1>3. t \in HasSha => Followed(t).state # "concluido"
    <2> SUFFICES ASSUME t \in HasSha PROVE Followed(t).state # "concluido"
      OBVIOUS
    <2>1. CASE Seen(t) = "complete"
      BY <2>1 DEF Followed, MkRow
    <2>2. CASE Seen(t) # "complete"
      BY <1>2, <2>2 DEF Followed, MkRow
    <2> QED BY <2>1, <2>2
  <1> QED BY <1>1, <1>3 DEF Law

LEMMA SyncTaskIsLawful ==
    ASSUME TypeOK, NEW t \in Tasks, SyncTask(t)
    PROVE  Lawful
  <1>1. CASE SyncSettled(t)
    BY <1>1, UnchangedIsLawful DEF SyncSettled
  <1>2. CASE SyncAbsent(t)
    <2>1. \/ UNCHANGED row
          \/ \E s \in {"aguardando", "pausado"} : \E why, g : Persist(t, MkRow(s, why, g))
      BY <1>2 DEF SyncAbsent
    <2>2. \A s \in {"aguardando", "pausado"} : Law(t, row[t].state, s)
      BY <1>2 DEF SyncAbsent, Law, Queued, Terminal
    <2> QED BY <2>1, <2>2, MadeIsLawful, UnchangedIsLawful
  <1>3. CASE SyncRelease(t)
    <2>1. Law(t, row[t].state, "aguardando")
      BY <1>3 DEF SyncRelease, Law, Queued, Terminal
    <2> QED BY <1>3, <2>1, MadeIsLawful DEF SyncRelease
  <1>4. CASE SyncHold(t)
    <2>1. Law(t, row[t].state, "pausado")
      BY <1>4 DEF SyncHold, Law, Queued, Terminal
    <2> QED BY <1>4, <2>1, MadeIsLawful DEF SyncHold
  <1>5. CASE SyncFollow(t)
    BY <1>5, FollowedIsLawful, SavedIsLawful DEF SyncFollow
  <1> QED BY <1>1, <1>2, <1>3, <1>4, <1>5 DEF SyncTask

LEMMA TickIsLawful ==
    ASSUME TypeOK, ResumingPaused, Tick
    PROVE  Lawful
  <1>1. CASE TickBegin \/ TellActive \/ TellWaiting \/ TellStopped
    BY <1>1, UnchangedIsLawful DEF TickBegin, TellActive, TellWaiting, TellStopped
  <1>2. CASE PollFails \/ ListTasksFails \/ Release
    BY <1>2, UnchangedIsLawful DEF PollFails, ListTasksFails, Release
  <1>3. ASSUME NEW t \in Tasks, ResumeAllTask(t) PROVE Lawful
    <2>1. PICK r : IF r.ok THEN Persist(t, MkRow("aguardando", "none", r.gid))
                           ELSE UNCHANGED row /\ StaysUp
      BY <1>3 DEF ResumeAllTask
    <2>2. row[t].state = "pausado"
      BY <1>3 DEF ResumeAllTask, ResumingPaused
    <2> QED BY <2>1, <2>2, RequeuedIsLawful
  <1> QED BY <1>1, <1>2, <1>3, SyncTaskIsLawful DEF Tick

\* The result of a hash job counts only while its task is being verified.
LEMMA VerificationDoneIsLawful ==
    ASSUME TypeOK, NEW t \in Tasks, VerificationDone(t)
    PROVE  Lawful
  <1>1. CASE row[t].state = "verificando"
    <2>1. PICK s \in {"concluido", "erro"} : Persist(t, [row[t] EXCEPT !.state = s])
      BY <1>1 DEF VerificationDone
    <2>2. [row[t] EXCEPT !.state = s].state = s
      BY RowGidType DEF Row
    <2>3. Law(t, row[t].state, s)
      BY <1>1 DEF VerificationDone, Law, Terminal
    <2> QED BY <2>1, <2>2, <2>3, SavedIsLawful
  <1>2. CASE row[t].state # "verificando"
    BY <1>2, UnchangedIsLawful DEF VerificationDone
  <1> QED BY <1>1, <1>2

LEMMA StepIsLawful ==
    ASSUME TypeOK, ResumingPaused, [Next]_vars
    PROVE  Lawful
  <1>1. CASE EngineMoves \/ EngineDies \/ BackendDies \/ BackendStart
    BY <1>1, UnchangedIsLawful DEF EngineMoves, EngineDies, BackendDies, BackendStart, serviceVars
  <1>2. CASE UNCHANGED vars
    BY <1>2, UnchangedIsLawful DEF vars, serviceVars
  <1> QED BY <1>1, <1>2, OperationIsLawful, TickIsLawful, VerificationDoneIsLawful DEF Next

-----------------------------------------------------------------------------
(* What resume_all works on, and the theorems.                             *)

LEMMA ResumingStep ==
    ASSUME TypeOK, ResumingPaused, [Next]_vars
    PROVE  ResumingPaused'
  <1>1. CASE ResumeAll
    BY <1>1 DEF ResumeAll, ResumingPaused
  <1>2. ASSUME NEW t \in Tasks, ResumeAllTask(t) PROVE ResumingPaused'
    <2>1. PICK r : /\ row' = [row EXCEPT ![t] = r] \/ row' = row
                   /\ todo' \in {{}, todo \ {t}}
      BY <1>2 DEF ResumeAllTask, Persist, PersistRows
    <2>2. \A u \in Tasks \ {t} : row'[u] = row[u]
      BY <2>1 DEF TypeOK
    <2>3. todo \subseteq Tasks /\ pc = "resumeAll"
      BY <1>2 DEF ResumeAllTask, TypeOK
    <2> QED BY <2>1, <2>2, <2>3 DEF ResumingPaused
  <1>3. CASE \/ TickBegin \/ TellActive \/ TellWaiting \/ TellStopped
             \/ PollFails \/ ListTasksFails \/ Release \/ BackendStart
             \/ \E t \in Tasks : SyncTask(t)
    BY <1>3 DEF TickBegin, TellActive, TellWaiting, TellStopped, PollFails, ListTasksFails,
                Release, BackendStart, SyncTask, ResumingPaused
  <1>4. ASSUME Operation, ~ResumeAll PROVE ResumingPaused'
    BY <1>4 DEF Operation, Add, Pause, Resume, Cancel, Retry, CancelByRequestKey,
                RemoveFromHistory, ChangeConnections, PauseAll, SetAutoResume, RestartEngine,
                Shutdown, Free, Unrelated, opFrame, tickVars, ResumingPaused
  <1>5. ASSUME NEW t \in Tasks, VerificationDone(t) PROVE ResumingPaused'
    BY <1>5 DEF VerificationDone, Free, tickVars, ResumingPaused
  <1>6. CASE EngineMoves \/ EngineDies \/ BackendDies \/ UNCHANGED vars
    BY <1>6 DEF EngineMoves, EngineDies, BackendDies, vars, serviceVars, tickVars, ResumingPaused
  <1> QED BY <1>1, <1>2, <1>3, <1>4, <1>5, <1>6 DEF Next, Tick

\* While resume_all keeps the mutex, every task it has not reached is paused.
LEMMA ResumingInvariant == Spec => []ResumingPaused
  <1>1. Init => ResumingPaused
    BY DEF Init, ResumingPaused
  <1>2. TypeOK /\ ResumingPaused /\ [Next]_vars => ResumingPaused'
    BY ResumingStep
  <1> QED BY <1>1, <1>2, TypeCorrect, PTL DEF Spec

\* How a task ended is final in every execution: a late tick, a late hash job,
\* pause_all or a crash leaves it, cancel_by_request_key can only cancel a
\* failed one, and only retry puts one back in the queue (Service::tick,
\* spawn_verification, pause_all, retry).
THEOREM SettledStaysFinal == Spec => SettledIsFinal
  <1> DEFINE Final == \A t \in Tasks : row[t].state \in Terminal =>
                        \/ row'[t].state \in {row[t].state, "apagado"}
                        \/ row[t].state # "concluido" /\ row'[t].state \in {"cancelado", "aguardando"}
  <1>1. TypeOK /\ ResumingPaused /\ [Next]_vars => [Final]_vars
    BY StepIsLawful DEF Lawful, Law
  <1>2. SettledIsFinal <=> [][Final]_vars
    BY DEF SettledIsFinal
  <1> HIDE DEF Final
  <1> QED BY <1>1, <1>2, TypeCorrect, ResumingInvariant, PTL DEF Spec

\* A task with an expected SHA-256 is concluded only from "verificando", by a
\* hash job that is running, whatever the engine reports and whichever old job
\* comes back late (sync of the tick, spawn_verification).
THEOREM ChecksumsChecked == Spec => ChecksumBeforeDone
  <1> DEFINE Checked == \A t \in HasSha :
                          row'[t].state = "concluido" /\ row[t].state # "concluido" =>
                            row[t].state = "verificando" /\ jobs[t] > 0
  <1>1. TypeOK /\ ResumingPaused /\ [Next]_vars => [Checked]_vars
    BY StepIsLawful, ServiceAssumption DEF Lawful, Law
  <1>2. ChecksumBeforeDone <=> [][Checked]_vars
    BY DEF ChecksumBeforeDone
  <1> HIDE DEF Checked
  <1> QED BY <1>1, <1>2, TypeCorrect, ResumingInvariant, PTL DEF Spec

-----------------------------------------------------------------------------
(* What a restart of the engine may start.                                 *)

ReconcilingTick == reconcile => pc = "sync"

\* d2 runs no download that d does not run.
Quiet(d, d2) == \A g \in Gid : d2[g] \in Running => d[g] \in Running

\* What the tick asks of the engine, other than unpause and addUri.
LEMMA EffectsQuiet ==
    ASSUME NEW d \in Downloads, NEW G
    PROVE  Quiet(d, Paused(d, G)) /\ Quiet(d, Forgot(d, G)) /\ Quiet(d, Halted(d, G))
  <1>1. \A s \in Status : /\ AfterPause(s) \in Running => s \in Running
                          /\ AfterForget(s) \in Running => s \in Running
                          /\ AfterHalt(s) \in Running => s \in Running
    BY DEF Status, Running, AfterPause, AfterForget, AfterHalt
  <1>2. \A g \in Gid : d[g] \in Status
    BY DEF Downloads
  <1>3. Quiet(d, Paused(d, G))
    BY <1>1, <1>2 DEF Quiet, Paused, OnGids
  <1>4. Quiet(d, Forgot(d, G))
    BY <1>1, <1>2 DEF Quiet, Forgot, OnGids
  <1>5. Quiet(d, Halted(d, G))
    BY <1>1, <1>2 DEF Quiet, Halted, OnGids
  <1> QED BY <1>3, <1>4, <1>5

\* A call that may fail is as quiet as its effect.
LEMMA SentQuiet ==
    ASSUME NEW p, NEW d, NEW d2, Quiet(d, d2), NEW x \in Sent(p, d, d2)
    PROVE  Quiet(d, x)
  <1>1. x \in {d, d2}
    BY DEF Sent, Call
  <1> QED BY <1>1 DEF Quiet

\* A download submitted as paused does not run.
LEMMA AddUriQuiet ==
    ASSUME NEW p, NEW d \in Downloads, NEW t \in Tasks, NEW g \in Gid,
           NEW r \in AddUri(p, d, t, g, "paused")
    PROVE  Quiet(d, r.dl)
  <1>1. r.dl \in {d, [d EXCEPT ![g] = "paused"]}
    BY DEF AddUri, Answer, Call
  <1> QED BY <1>1 DEF Quiet, Downloads, Running

LEMMA SubmitQuiet ==
    ASSUME TypeOK, NEW p, NEW d \in Downloads, NEW t \in Tasks,
           NEW r \in Submit(p, d, t, "paused")
    PROVE  Quiet(d, r.dl)
  <1>1. Det(t) \in Gid
    BY EngineAssumption DEF Det, Gid
  <1>2. ASSUME NEW d1 \in Downloads, NEW x \in AddUriInUse(p, d1, t, "paused")
        PROVE  Quiet(d1, x.dl)
    <2>1. \/ \E g \in FreshGid(d1, t) : x \in AddUri(p, d1, t, g, "paused")
          \/ x = Answer(d1, row[t].gid, FALSE)
      <3>1. PICK c \in Call(p, d1, d1, "rpc") :
                x \in IF c.reply = "rpc"
                      THEN UNION {AddUri(p, d1, t, g, "paused") : g \in FreshGid(d1, t)}
                      ELSE {Answer(d1, row[t].gid, FALSE)}
        BY <1>2 DEF AddUriInUse
      <3> QED BY <3>1
    <2>2. FreshGid(d1, t) \subseteq Gid
      BY DEF FreshGid, Unused
    <2>3. CASE \E g \in FreshGid(d1, t) : x \in AddUri(p, d1, t, g, "paused")
      BY <2>2, <2>3, AddUriQuiet
    <2>4. CASE x = Answer(d1, row[t].gid, FALSE)
      BY <2>4 DEF Answer, Quiet
    <2> QED BY <2>1, <2>3, <2>4
  <1>3. CASE r = Answer(d, row[t].gid, TRUE)
    BY <1>3 DEF Answer, Quiet
  <1>4. CASE \E d1 \in Sent(p, d, Forgot(d, {Det(t)})) :
               r \in AddUri(p, d1, t, Det(t), "paused") \cup AddUriInUse(p, d1, t, "paused")
    <2>1. PICK d1 \in Sent(p, d, Forgot(d, {Det(t)})) :
               r \in AddUri(p, d1, t, Det(t), "paused") \cup AddUriInUse(p, d1, t, "paused")
      BY <1>4
    <2>2. Quiet(d, d1) /\ d1 \in Downloads
      BY EffectsQuiet, SentQuiet, EffectsType, SentType
    <2>3. Quiet(d1, r.dl)
      BY <1>1, <1>2, <2>1, <2>2, AddUriQuiet
    <2> QED BY <2>2, <2>3 DEF Quiet
  <1> QED BY <1>3, <1>4 DEF Submit

-----------------------------------------------------------------------------
(* The steps taken while a tick reconciles.                                *)

LEMMA SyncTaskQuiet ==
    ASSUME TypeOK, reconcile, ~autoResume, NEW t \in Tasks, SyncTask(t)
    PROVE  Quiet(dl, dl')
  <1>1. dl \in Downloads
    BY DEF TypeOK, EngineTypeOK
  <1>2. CASE SyncSettled(t)
    BY <1>2 DEF SyncSettled, Quiet
  <1>3. CASE SyncAbsent(t)
    <2>1. ~ShouldRun(t)
      BY DEF ShouldRun
    <2>2. \E r \in Submit(proc, dl, t, "paused") : dl' = r.dl
      BY <1>3, <2>1 DEF SyncAbsent
    <2> QED BY <1>1, <2>2, SubmitQuiet
  <1>4. CASE SyncRelease(t)
    BY <1>4 DEF SyncRelease, WantsRun
  <1>5. CASE SyncHold(t)
    BY <1>1, <1>5, EffectsQuiet, SentQuiet DEF SyncHold
  <1>6. CASE SyncFollow(t)
    <2>1. dl' = dl \/ dl' \in Sent(proc, dl, Forgot(dl, {row[t].gid}))
      BY <1>6 DEF SyncFollow
    <2> QED BY <1>1, <2>1, EffectsQuiet, SentQuiet DEF Quiet
  <1> QED BY <1>2, <1>3, <1>4, <1>5, <1>6 DEF SyncTask

LEMMA EngineMovesQuiet ==
    ASSUME TypeOK, EngineMoves
    PROVE  Quiet(dl, dl')
  <1>1. dl \in Downloads
    BY DEF TypeOK, EngineTypeOK
  <1>2. ASSUME NEW g \in Gid, Promote(g) PROVE Quiet(dl, dl')
    BY <1>1, <1>2 DEF Promote, Quiet, Downloads, Running
  <1>3. ASSUME NEW g \in Gid, Finish(g) PROVE Quiet(dl, dl')
    BY <1>1, <1>3 DEF Finish, Quiet, Downloads, Running
  <1>4. ASSUME NEW g \in Gid, Halt(g) PROVE Quiet(dl, dl')
    BY <1>1, <1>4, EffectsQuiet DEF Halt
  <1>5. CASE SaveSession
    BY <1>5 DEF SaveSession, Quiet
  <1> QED BY <1>2, <1>3, <1>4, <1>5 DEF EngineMoves, EngineStep

LEMMA ReconcilingQuiet ==
    ASSUME TypeOK, ReconcilingTick, reconcile, ~autoResume, [Next]_vars
    PROVE  Quiet(dl, dl')
  <1>1. pc = "sync"
    BY DEF ReconcilingTick
  <1>2. ~Operation
    BY <1>1 DEF Operation, Add, Pause, Resume, Cancel, Retry, CancelByRequestKey,
                RemoveFromHistory, ChangeConnections, PauseAll, ResumeAll, SetAutoResume,
                RestartEngine, Shutdown, Free
  <1>3. \A t \in Tasks : ~VerificationDone(t) /\ ~ResumeAllTask(t)
    BY <1>1 DEF VerificationDone, ResumeAllTask, Free
  <1>4. ~TickBegin /\ ~TellActive /\ ~TellWaiting /\ ~TellStopped /\ ~PollFails /\ ~ListTasksFails
    BY <1>1 DEF TickBegin, TellActive, TellWaiting, TellStopped, PollFails, ListTasksFails
  <1>5. CASE Release \/ BackendDies \/ BackendStart \/ UNCHANGED vars
    BY <1>5 DEF Release, BackendDies, BackendStart, vars, engineVars, Quiet
  <1>6. CASE EngineDies
    BY <1>6 DEF EngineDies, NoDownloads, Quiet, Running
  <1> QED BY <1>2, <1>3, <1>4, <1>5, <1>6, SyncTaskQuiet, EngineMovesQuiet DEF Next, Tick

LEMMA ReconcilingStep ==
    ASSUME TypeOK, ReconcilingTick, [Next]_vars
    PROVE  ReconcilingTick'
  <1>1. CASE TickBegin \/ ResumeAll
    BY <1>1 DEF TickBegin, ResumeAll, Free, ReconcilingTick
  <1>2. CASE TellActive \/ TellWaiting \/ TellStopped \/ PollFails \/ ListTasksFails \/ Release
    BY <1>2 DEF TellActive, TellWaiting, TellStopped, PollFails, ListTasksFails, Release,
                ReconcilingTick
  <1>3. ASSUME NEW t \in Tasks, SyncTask(t) \/ ResumeAllTask(t) PROVE ReconcilingTick'
    BY <1>3 DEF SyncTask, ResumeAllTask, ReconcilingTick
  <1>4. ASSUME Operation, ~ResumeAll PROVE ReconcilingTick'
    BY <1>4 DEF Operation, Add, Pause, Resume, Cancel, Retry, CancelByRequestKey,
                RemoveFromHistory, ChangeConnections, PauseAll, SetAutoResume, RestartEngine,
                Shutdown, Unrelated, opFrame, tickVars, ReconcilingTick
  <1>5. ASSUME NEW t \in Tasks, VerificationDone(t) PROVE ReconcilingTick'
    BY <1>5 DEF VerificationDone, tickVars, ReconcilingTick
  <1>6. CASE EngineMoves \/ EngineDies \/ BackendDies \/ BackendStart \/ UNCHANGED vars
    BY <1>6 DEF EngineMoves, EngineDies, BackendDies, BackendStart, vars, serviceVars,
                tickVars, ReconcilingTick
  <1> QED BY <1>1, <1>2, <1>3, <1>4, <1>5, <1>6 DEF Next, Tick

\* With automatic resume off, no step between the moment a tick takes
\* needs_reconcile and its end starts a download: neither an absent task that
\* is submitted again, nor one restored from the session, nor aria2 itself
\* (Service::tick, sync of the rows).  It says nothing of the ticks that follow.
ReconcileStartsNothing ==
    [][reconcile /\ ~autoResume =>
          \A t \in Tasks : RunningGids(t)' \subseteq RunningGids(t)]_vars

\* The tick that follows a start of the engine starts nothing, whatever fails
\* in it.  HeldStayHeld (AgreementProofs) is about the whole time until the user
\* asks for the task again.
THEOREM ReconcilingStartsNothing == Spec => ReconcileStartsNothing
  <1> DEFINE Held == reconcile /\ ~autoResume =>
                       \A t \in Tasks : RunningGids(t)' \subseteq RunningGids(t)
  <1>1. TypeOK /\ ReconcilingTick /\ [Next]_vars => [Held]_vars
    BY ReconcilingQuiet DEF Quiet, RunningGids
  <1>2. ReconcileStartsNothing <=> [][Held]_vars
    BY DEF ReconcileStartsNothing
  <1>3. Init => ReconcilingTick
    BY DEF Init, ReconcilingTick
  <1>4. TypeOK /\ ReconcilingTick /\ [Next]_vars => ReconcilingTick'
    BY ReconcilingStep
  <1> HIDE DEF Held
  <1> QED BY <1>1, <1>2, <1>3, <1>4, TypeCorrect, PTL DEF Spec

=============================================================================
