-------------------------- MODULE AgreementProofs --------------------------
(***************************************************************************)
(* The rows of the service and the downloads of its engine agree: what     *)
(* DownloadService promises about transfers holds in every execution with  *)
(* a reliable engine and database.                                         *)
(*                                                                         *)
(* The invariant is Agreement.  The promises are about rows and downloads, *)
(* but a tick acts on statuses it collected some steps earlier, so it also *)
(* says what those statuses are worth: Polled while the lists come in, and *)
(* Late(t) from the last list until the tick has dealt with t.  A report   *)
(* is late in one direction only: aria2 alone can end a download, never    *)
(* start one.                                                              *)
(*                                                                         *)
(* The proof has two halves.  StepSound: what each step leaves of the      *)
(* engine's part (EngineSound).  One ...Agrees lemma per action: the task  *)
(* the action is about still agrees, by Actor, and so do all the others,   *)
(* by Bystander.                                                           *)
(***************************************************************************)
EXTENDS DownloadServiceProofs, HeldDownloads

\* Every call is answered, aria2 keeps still between the lists of one tick, and
\* SQLite takes every statement.  Both processes may still die at any time,
\* aria2c may fail to start, and a pause may take its time.
Reliable == ~PollRaces /\ RpcFaults = {} /\ ~DbFaults

\* The GIDs of t, and those of its downloads that run in d.
Own(t) == {g \in Gid : g[1] = t}
RunsIn(d, t) == {g \in Gid : g[1] = t /\ d[g] \in Running}

Halting == {"pausing", "removing"}

\* d2 has no download that is still stopping and was not in d.
NoNewHalting(d, d2) == \A g \in Gid : d2[g] \in Halting => d[g] \in Halting

\* Nothing but downloads of t differs between d and d2.
Only(t, d, d2) == \A g \in Gid \ Own(t) : d2[g] = d[g]

-----------------------------------------------------------------------------
(* What a conversation with a reliable engine comes to.                    *)

LEMMA CallReliable ==
    ASSUME RpcFaults = {}, NEW p, NEW d, NEW d2, NEW answer, NEW r \in Call(p, d, d2, answer)
    PROVE  IF p = "on" THEN r.dl = d2 /\ r.reply = answer
                       ELSE r.dl = d /\ r.reply = "transport"
  BY DEF Call

LEMMA SentReliable ==
    ASSUME RpcFaults = {}, NEW p, NEW d, NEW d2, NEW x \in Sent(p, d, d2)
    PROVE  x = IF p = "on" THEN d2 ELSE d
  BY CallReliable DEF Sent

\* r: a download of t entered d with the status s.
Entered(d, t, s, r) == \E g \in Own(t) : r = Answer([d EXCEPT ![g] = s], g, TRUE)

\* r: the engine was not reached, and the row keeps its GID.
Unreached(d, t, r) == r.dl = d /\ r.gid = row[t].gid

LEMMA AddUriReliable ==
    ASSUME RpcFaults = {}, NEW p, NEW d, NEW t, NEW g \in Own(t), NEW s,
           NEW r \in AddUri(p, d, t, g, s)
    PROVE  IF p = "on" THEN Entered(d, t, s, r) ELSE Unreached(d, t, r)
  <1>1. PICK c \in Call(p, d, [d EXCEPT ![g] = s], "ok") :
           r = Answer(c.dl, IF c.reply = "ok" THEN g ELSE row[t].gid, c.reply = "ok")
    BY DEF AddUri
  <1>2. IF p = "on" THEN c.dl = [d EXCEPT ![g] = s] /\ c.reply = "ok"
                    ELSE c.dl = d /\ c.reply = "transport"
    BY <1>1, CallReliable
  <1> QED BY <1>1, <1>2 DEF Answer, Entered, Unreached

LEMMA AddUriInUseReliable ==
    ASSUME RpcFaults = {}, NEW p, NEW d, NEW t \in Tasks, NEW s, NEW r \in AddUriInUse(p, d, t, s)
    PROVE  IF p = "on" THEN Entered(d, t, s, r) ELSE Unreached(d, t, r)
  <1>1. PICK c \in Call(p, d, d, "rpc") :
           r \in IF c.reply = "rpc" THEN UNION {AddUri(p, d, t, g, s) : g \in FreshGid(d, t)}
                                    ELSE {Answer(d, row[t].gid, FALSE)}
    BY DEF AddUriInUse
  <1>2. CASE p = "on"
    <2>1. c.reply = "rpc"
      BY <1>1, <1>2, CallReliable
    <2>2. PICK g \in FreshGid(d, t) : r \in AddUri(p, d, t, g, s)
      BY <1>1, <2>1
    <2>3. g \in Own(t)
      BY <2>2 DEF FreshGid, Unused, Own
    <2> QED BY <1>2, <2>2, <2>3, AddUriReliable
  <1>3. CASE p # "on"
    BY <1>1, <1>3, CallReliable DEF Answer, Unreached
  <1> QED BY <1>2, <1>3

LEMMA SubmitReliable ==
    ASSUME RpcFaults = {}, NEW p, NEW d, NEW t \in Tasks, NEW s, NEW r \in Submit(p, d, t, s)
    PROVE  IF p = "on" THEN Entered(Forgot(d, {Det(t)}), t, s, r) ELSE Unreached(d, t, r)
  <1>1. Det(t) \in Own(t)
    BY EngineAssumption DEF Det, Gid, Own
  <1>2. CASE p \in NoHandle
    BY <1>2 DEF Submit, Answer, NoHandle, Unreached
  <1>3. CASE p \notin NoHandle
    <2>1. PICK d1 \in Sent(p, d, Forgot(d, {Det(t)})) :
             r \in AddUri(p, d1, t, Det(t), s) \cup AddUriInUse(p, d1, t, s)
      BY <1>3 DEF Submit
    <2>2. d1 = IF p = "on" THEN Forgot(d, {Det(t)}) ELSE d
      BY <2>1, SentReliable
    <2>3. IF p = "on" THEN Entered(d1, t, s, r) ELSE Unreached(d1, t, r)
      BY <1>1, <2>1, AddUriReliable, AddUriInUseReliable
    <2> QED BY <2>2, <2>3
  <1> QED BY <1>2, <1>3

LEMMA ResumeInEngineReliable ==
    ASSUME RpcFaults = {}, NEW p, NEW d, NEW t \in Tasks, NEW r \in ResumeInEngine(p, d, t)
    PROVE  \/ p # "on" /\ Unreached(d, t, r)
           \/ /\ p = "on"
              /\ row[t].gid = NoGid \/ d[row[t].gid] \in Stopped \cup {"none"}
              /\ Entered(Forgot(d, {Det(t)}), t, "waiting", r)
           \/ /\ p = "on"
              /\ row[t].gid # NoGid
              /\ r = Answer(IF d[row[t].gid] = "paused" THEN Unpaused(d, row[t].gid) ELSE d,
                            row[t].gid, TRUE)
  <1> DEFINE g == row[t].gid
             unpaused == {Answer(c.dl, g, c.reply = "ok") : c \in Call(p, d, Unpaused(d, g), "ok")}
             told == {c.reply : c \in Call(p, d, d, IF d[g] = "none" THEN "rpc" ELSE "ok")}
             next(reply) == IF reply # "ok" \/ d[g] \in Stopped THEN Submit(p, d, t, "waiting")
                            ELSE IF d[g] = "paused" THEN unpaused
                            ELSE {Answer(d, g, TRUE)}
  <1>1. CASE p \in NoHandle
    BY <1>1 DEF ResumeInEngine, Answer, NoHandle, Unreached
  <1>2. CASE p \notin NoHandle /\ g = NoGid
    <2>1. r \in Submit(p, d, t, "waiting")
      BY <1>2 DEF ResumeInEngine
    <2> QED BY <1>2, <2>1, SubmitReliable
  <1>3. CASE p \notin NoHandle /\ g # NoGid
    <2>1. PICK reply \in told : r \in next(reply)
      BY <1>3 DEF ResumeInEngine
    <2>2. reply = IF p = "on" THEN IF d[g] = "none" THEN "rpc" ELSE "ok" ELSE "transport"
      BY <2>1, CallReliable
    <2>3. CASE p # "on"
      <3>1. r \in Submit(p, d, t, "waiting")
        BY <2>1, <2>2, <2>3
      <3> QED BY <2>3, <3>1, SubmitReliable
    <2>4. CASE p = "on" /\ d[g] \in Stopped \cup {"none"}
      <3>1. r \in Submit(p, d, t, "waiting")
        BY <2>1, <2>2, <2>4
      <3> QED BY <2>4, <3>1, SubmitReliable
    <2>5. CASE p = "on" /\ d[g] \notin Stopped \cup {"none"}
      <3>1. r \in IF d[g] = "paused" THEN unpaused ELSE {Answer(d, g, TRUE)}
        BY <2>1, <2>2, <2>5
      <3>2. \A c \in Call(p, d, Unpaused(d, g), "ok") : c.dl = Unpaused(d, g) /\ c.reply = "ok"
        BY <2>5, CallReliable
      <3>3. r = Answer(IF d[g] = "paused" THEN Unpaused(d, g) ELSE d, g, TRUE)
        BY <3>1, <3>2
      <3> QED BY <1>3, <2>5, <3>3
    <2> QED BY <2>3, <2>4, <2>5
  <1> QED BY <1>1, <1>2, <1>3
-----------------------------------------------------------------------------
(* What a conversation leaves running.                                     *)

LEMMA EffectsStill ==
    ASSUME NEW d \in Downloads, NEW G
    PROVE  /\ NoNewHalting(d, Forgot(d, G))
           /\ NoNewHalting(d, Halted(d, G))
           /\ ~SlowHalt => NoNewHalting(d, Paused(d, G)) /\ NoNewHalting(d, Removed(d, G))
           /\ \A g \in G \cap Gid : Paused(d, G)[g] \notin Running /\ Removed(d, G)[g] \notin Running
           /\ \A g \in Gid \ G : /\ Paused(d, G)[g] = d[g] /\ Removed(d, G)[g] = d[g]
                                 /\ Forgot(d, G)[g] = d[g] /\ Halted(d, G)[g] = d[g]
           /\ Quiet(d, Removed(d, G))
           /\ \A g \in Gid : Restored(G)[g] \notin Running \cup Halting /\ NoDownloads[g] = "none"
  <1>1. \A g \in Gid : d[g] \in Status
    BY DEF Downloads
  <1>2. \A s \in Status : /\ AfterForget(s) \in Halting => s \in Halting
                          /\ AfterHalt(s) \in Halting => s \in Halting
                          /\ AfterPause(s) \notin Running /\ AfterRemove(s) \notin Running
                          /\ ~SlowHalt => /\ AfterPause(s) \in Halting => s \in Halting
                                          /\ AfterRemove(s) \in Halting => s \in Halting
    BY DEF Status, Halting, Running, AfterForget, AfterHalt, AfterPause, AfterRemove
  <1>3. NoNewHalting(d, Forgot(d, G)) /\ NoNewHalting(d, Halted(d, G))
    BY <1>1, <1>2 DEF NoNewHalting, Forgot, Halted, OnGids
  <1>4. ~SlowHalt => NoNewHalting(d, Paused(d, G)) /\ NoNewHalting(d, Removed(d, G))
    BY <1>1, <1>2 DEF NoNewHalting, Paused, Removed, OnGids
  <1>5. \A g \in G \cap Gid : Paused(d, G)[g] \notin Running /\ Removed(d, G)[g] \notin Running
    BY <1>1, <1>2 DEF Paused, Removed, OnGids
  <1>6. \A g \in Gid \ G : /\ Paused(d, G)[g] = d[g] /\ Removed(d, G)[g] = d[g]
                           /\ Forgot(d, G)[g] = d[g] /\ Halted(d, G)[g] = d[g]
    BY DEF Paused, Removed, Forgot, Halted, OnGids
  <1>7. Quiet(d, Removed(d, G))
    BY <1>5, <1>6 DEF Quiet
  <1>8. \A g \in Gid : Restored(G)[g] \notin Running \cup Halting /\ NoDownloads[g] = "none"
    BY DEF Restored, NoDownloads, Running, Halting
  <1> QED BY <1>3, <1>4, <1>5, <1>6, <1>7, <1>8

LEMMA EnteredRuns ==
    ASSUME NEW d \in Downloads, NEW t \in Tasks, NEW s \in Status \ Halting, NEW r,
           Entered(Forgot(d, {Det(t)}), t, s, r)
    PROVE  /\ r.ok /\ r.gid \in Own(t) /\ r.dl \in Downloads
           /\ Only(t, d, r.dl) /\ NoNewHalting(d, r.dl)
           /\ RunsIn(r.dl, t) \subseteq RunsIn(d, t) \cup {r.gid}
           /\ s \notin Running => RunsIn(r.dl, t) \subseteq RunsIn(d, t)
  <1> DEFINE d1 == Forgot(d, {Det(t)})
  <1>1. PICK g \in Own(t) : r = Answer([d1 EXCEPT ![g] = s], g, TRUE)
    BY DEF Entered
  <1>2. Det(t) \in Own(t)
    BY EngineAssumption DEF Det, Gid, Own
  <1>3. d1 \in Downloads /\ Quiet(d, d1) /\ NoNewHalting(d, d1) /\ Only(t, d, d1)
    BY <1>2, EffectsType, EffectsQuiet, EffectsStill DEF Only
  <1> HIDE DEF d1
  <1>4. r.ok /\ r.gid = g /\ r.dl = [d1 EXCEPT ![g] = s] /\ r.dl \in Downloads
    BY <1>1, <1>3 DEF Answer, Downloads
  <1>5. \A h \in Gid : r.dl[h] = IF h = g THEN s ELSE d1[h]
    BY <1>3, <1>4 DEF Downloads
  <1>6. Only(t, d, r.dl)
    BY <1>3, <1>5 DEF Only, Own
  <1>7. NoNewHalting(d, r.dl)
    BY <1>3, <1>5 DEF NoNewHalting
  <1>8. RunsIn(d1, t) \subseteq RunsIn(d, t)
    BY <1>3 DEF RunsIn, Quiet
  <1>9. RunsIn(r.dl, t) \subseteq RunsIn(d1, t) \cup {g}
    BY <1>5 DEF RunsIn
  <1>10. s \notin Running => RunsIn(r.dl, t) \subseteq RunsIn(d1, t)
    BY <1>5 DEF RunsIn
  <1> QED BY <1>4, <1>6, <1>7, <1>8, <1>9, <1>10

\* r: what a conversation about t with a reliable engine may come to.
Conversed(p, d, t, r) ==
    /\ r.gid \in Own(t) \cup {NoGid}
    /\ r.dl \in Downloads
    /\ Only(t, d, r.dl) /\ NoNewHalting(d, r.dl)
    /\ p # "on" => r.dl = d /\ r.gid = row[t].gid
    /\ p = "on" => r.ok

LEMMA SubmitRuns ==
    ASSUME RpcFaults = {}, NEW p, NEW d \in Downloads, NEW t \in Tasks,
           NEW s \in Status \ Halting, row[t].gid \in Own(t) \cup {NoGid},
           NEW r \in Submit(p, d, t, s)
    PROVE  /\ Conversed(p, d, t, r)
           /\ p = "on" => RunsIn(r.dl, t) \subseteq RunsIn(d, t) \cup {r.gid}
           /\ p = "on" /\ s \notin Running => RunsIn(r.dl, t) \subseteq RunsIn(d, t)
  <1>1. CASE p = "on"
    <2>1. Entered(Forgot(d, {Det(t)}), t, s, r)
      BY <1>1, SubmitReliable
    <2> QED BY <1>1, <2>1, EnteredRuns DEF Conversed
  <1>2. CASE p # "on"
    <2>1. Unreached(d, t, r)
      BY <1>2, SubmitReliable
    <2> QED BY <1>2, <2>1 DEF Unreached, Only, NoNewHalting, Conversed
  <1> QED BY <1>1, <1>2

LEMMA QueueRuns ==
    ASSUME RpcFaults = {}, NEW p, NEW d \in Downloads, NEW t \in Tasks,
           row[t].gid \in Own(t) \cup {NoGid}, NEW r \in Submit(p, d, t, "waiting")
    PROVE  /\ Conversed(p, d, t, r)
           /\ p = "on" => RunsIn(r.dl, t) \subseteq RunsIn(d, t) \cup {r.gid}
  <1>1. "waiting" \in Status \ Halting
    BY DEF Status, Halting
  <1> QED BY <1>1, SubmitRuns

LEMMA ResumeRuns ==
    ASSUME RpcFaults = {}, NEW p, NEW d \in Downloads, NEW t \in Tasks,
           row[t].gid \in Own(t) \cup {NoGid},
           NEW r \in ResumeInEngine(p, d, t)
    PROVE  /\ Conversed(p, d, t, r)
           /\ p = "on" /\ RunsIn(d, t) \subseteq {row[t].gid} => RunsIn(r.dl, t) \subseteq {r.gid}
  <1> DEFINE g == row[t].gid
  <1>1. CASE p # "on"
    BY <1>1, ResumeInEngineReliable DEF Unreached, Only, NoNewHalting, Conversed
  <1>2. ASSUME p = "on", g = NoGid \/ d[g] \in Stopped \cup {"none"},
               Entered(Forgot(d, {Det(t)}), t, "waiting", r)
        PROVE  /\ Conversed(p, d, t, r)
               /\ RunsIn(d, t) \subseteq {g} => RunsIn(r.dl, t) \subseteq {r.gid}
    <2>1. "waiting" \in Status \ Halting
      BY DEF Status, Halting
    <2>2. RunsIn(d, t) \subseteq {g} => RunsIn(d, t) = {}
      BY <1>2, EngineAssumption DEF RunsIn, Stopped, Running
    <2> QED BY <1>2, <2>1, <2>2, EnteredRuns DEF Conversed
  <1>3. ASSUME p = "on", g # NoGid,
               r = Answer(IF d[g] = "paused" THEN Unpaused(d, g) ELSE d, g, TRUE)
        PROVE  /\ Conversed(p, d, t, r)
               /\ RunsIn(d, t) \subseteq {g} => RunsIn(r.dl, t) \subseteq {r.gid}
    <2>1. r.dl \in {d, [d EXCEPT ![g] = "waiting"]} /\ r.gid = g /\ r.ok
      BY <1>3 DEF Answer, Unpaused
    <2>2. \A h \in Gid : r.dl[h] = d[h] \/ (h = g /\ r.dl[h] = "waiting")
      BY <2>1 DEF Downloads
    <2>3. r.dl \in Downloads
      BY <2>1 DEF Downloads, Status
    <2>4. Conversed(p, d, t, r)
      BY <1>3, <2>1, <2>2, <2>3 DEF Conversed, Own, Only, NoNewHalting, Halting
    <2> QED BY <2>1, <2>2, <2>4 DEF RunsIn
  <1> QED BY <1>1, <1>2, <1>3, ResumeInEngineReliable

-----------------------------------------------------------------------------
(* The invariant.                                                          *)

\* No handle, or a dead process behind it: no downloads.
Gone == proc \in {"off", "dead"} => dl = NoDownloads

\* Only a backend that has not ticked yet meets the process of an earlier one.
Owned ==
    /\ backend = "up" /\ pc = "boot" => proc \in {"off", "orphan"}
    /\ ~SpawnFails /\ backend = "up" /\ pc # "boot" => proc # "orphan"

\* An engine that pauses and removes at once is never caught doing it.
Prompt == ~SlowHalt => \A g \in Gid : dl[g] \notin Halting

\* What the tick has collected so far is what the engine would tell now.
Told(lists, g) == IF Reported(dl[g]) \in lists THEN Reported(dl[g]) ELSE "none"

Polled ==
    backend = "up" =>
        /\ pc \in {"boot", "idle", "active"} => snap = NoDownloads
        /\ proc = "on" /\ pc = "waiting" => \A g \in Gid : snap[g] = Told({"active"}, g)
        /\ proc = "on" /\ pc = "stopped" =>
              \A g \in Gid : snap[g] = Told({"active", "waiting", "paused"}, g)

EngineSound == Gone /\ Owned /\ Prompt /\ Polled

\* What relates the row of t to its downloads.
OwnGid(t) == row[t].gid \in Own(t) \cup {NoGid}

OneRuns(t) == \A g, h \in RunsIn(dl, t) : g = h

\* R: what the engine may run for a task with the row r.
Suits(r, R) ==
    /\ R \subseteq {r.gid}
    /\ r.state \notin Queued \cup {"pausado"} => R = {}
    /\ ~SlowHalt /\ r.state = "pausado" => R = {}

Matched(t) == InCharge => Suits(row[t], RunsIn(dl, t))

Revocation(t) ==
    ~SpawnFails /\ t \in confirmed =>
        /\ RunsIn(dl, t) = {}
        /\ t \in revoked
        /\ row[t].state \in Absent \cup {"cancelado"}

\* A report the tick has not acted on yet may be late, but only one way.
Late(t) ==
    backend = "up" /\ pc = "sync" /\ t \in todo =>
        /\ Seen(t) \notin Running => RunsIn(dl, t) = {}
        /\ ~SlowHalt /\ row[t].state = "pausado" => Seen(t) \notin Running

Agrees(t) == OwnGid(t) /\ OneRuns(t) /\ Matched(t) /\ Revocation(t) /\ Late(t)

Agreement == TypeOK /\ EngineSound /\ \A t \in Tasks : Agrees(t)

-----------------------------------------------------------------------------
(* The engine's part of it.                                                *)

\* What ensure_engine leaves.
LEMMA EnsuredLeaves ==
    ASSUME TypeOK, Gone, NEW e \in Ensured
    PROVE  /\ e.proc \in {"off", "dead"} => e.dl = NoDownloads
           /\ ~SpawnFails => e.proc = "on"
           /\ Quiet(dl, e.dl) /\ NoNewHalting(dl, e.dl)
           /\ e.proc = "on" => \/ proc = "on" /\ e.dl = dl
                               \/ \A g \in Gid : e.dl[g] \notin Running
  <1> DEFINE same == [proc |-> proc, dl |-> dl, session |-> session, reconcile |-> needsReconcile]
             saved == IF proc = "orphan" THEN Unfinished(dl) ELSE session
             started == [proc |-> "on", dl |-> Restored(saved), session |-> saved, reconcile |-> TRUE]
             noBinary == [same EXCEPT !.proc = IF proc = "dead" THEN "off" ELSE proc]
             notReady == [same EXCEPT !.proc = "off", !.dl = NoDownloads, !.session = saved]
  <1>1. e \in IF proc = "on" THEN {same}
              ELSE {started} \cup (IF SpawnFails THEN {noBinary, notReady} ELSE {})
    BY DEF Ensured
  <1>2. CASE e = same /\ proc = "on"
    BY <1>2 DEF Quiet, NoNewHalting
  <1>3. CASE e = started
    <2>1. \A g \in Gid : e.dl[g] \notin Running \cup Halting
      BY <1>3, EffectsStill DEF TypeOK, EngineTypeOK
    <2> QED BY <1>3, <2>1 DEF Quiet, NoNewHalting
  <1>4. CASE e = noBinary /\ SpawnFails /\ proc # "on"
    BY <1>4 DEF Gone, Quiet, NoNewHalting
  <1>5. CASE e = notReady /\ SpawnFails
    BY <1>5 DEF NoDownloads, Quiet, NoNewHalting, Running, Halting
  <1> QED BY <1>1, <1>2, <1>3, <1>4, <1>5

\* A handler that has conversations and does not touch the process.
LEMMA SoundAfterTalk ==
    ASSUME EngineSound, SameEngine, UNCHANGED pc, UNCHANGED snap, pc \notin {"waiting", "stopped"},
           backend = "up", proc \in {"off", "dead"} => dl' = dl,
           ~SlowHalt => NoNewHalting(dl, dl')
    PROVE  EngineSound'
  BY DEF EngineSound, SameEngine, Gone, Owned, Prompt, Polled, NoNewHalting

LEMMA SoundAfterEnsured ==
    ASSUME TypeOK, EngineSound, NEW e \in Ensured, Engine(e), NEW d, dl' = d, UNCHANGED snap,
           backend = "up", pc \in {"boot", "idle"}, pc' \in {"idle", "active", "resumeAll"},
           e.proc # "on" => d = e.dl,
           ~SlowHalt => NoNewHalting(e.dl, d)
    PROVE  EngineSound'
  <1>1. Gone'
    BY EnsuredLeaves DEF EngineSound, Engine, Gone
  <1>2. Owned'
    BY EnsuredLeaves DEF EngineSound, Engine, Owned
  <1>3. Prompt'
    BY EnsuredLeaves DEF EngineSound, Engine, Prompt, NoNewHalting
  <1>4. Polled'
    BY DEF EngineSound, Polled
  <1> QED BY <1>1, <1>2, <1>3, <1>4 DEF EngineSound

\* What a handler may ask of the engine, other than to add or to unpause.
LEMMA AskedStill ==
    ASSUME NEW d \in Downloads, NEW G, NEW d2 \in {Paused(d, G), Removed(d, G), Forgot(d, G)}
    PROVE  /\ d2 \in Downloads
           /\ ~SlowHalt => NoNewHalting(d, d2)
           /\ Quiet(d, d2)
           /\ \A g \in Gid \ G : d2[g] = d[g]
  <1>1. CASE d2 = Paused(d, G)
    BY <1>1, EffectsType, EffectsQuiet, EffectsStill
  <1>2. CASE d2 = Removed(d, G)
    BY <1>2, EffectsType, EffectsStill
  <1>3. CASE d2 = Forgot(d, G)
    BY <1>3, EffectsType, EffectsQuiet, EffectsStill
  <1> QED BY <1>1, <1>2, <1>3

\* Without anything that is stopping, nothing is left to halt.
LEMMA HaltedGone ==
    ASSUME NEW d \in Downloads, NEW G, d = NoDownloads
    PROVE  Halted(d, G) = d
  BY DEF Halted, OnGids, AfterHalt, NoDownloads

\* The conversations of the operations.
LEMMA TalksOfOne ==
    ASSUME Agreement, Reliable, NEW t \in Tasks,
           Add(t) \/ Pause(t) \/ Cancel(t) \/ CancelByRequestKey(t) \/ RemoveFromHistory(t)
             \/ ChangeConnections(t)
    PROVE  /\ proc \in {"off", "dead"} => dl' = dl
           /\ ~SlowHalt => NoNewHalting(dl, dl')
           /\ Only(t, dl, dl')
  <1> DEFINE g == row[t].gid
             Fine == /\ proc \in {"off", "dead"} => dl' = dl
                     /\ ~SlowHalt => NoNewHalting(dl, dl')
                     /\ Only(t, dl, dl')
  <1>1. dl \in Downloads /\ RpcFaults = {} /\ g \in Own(t) \cup {NoGid} /\ Gone
    BY DEF Agreement, TypeOK, EngineTypeOK, Reliable, Agrees, OwnGid, EngineSound
  <1>2. (Gid \ Own(t)) \subseteq Gid \ {g}
    BY <1>1, EngineAssumption DEF Own
  <1>3. \A d2 \in {Paused(dl, {g}), Removed(dl, {g}), Forgot(dl, {g})} :
          \A x \in Sent(proc, dl, d2) :
            /\ x \in Downloads
            /\ proc # "on" => x = dl
            /\ ~SlowHalt => NoNewHalting(dl, x)
            /\ Only(t, dl, x)
    <2> TAKE d2 \in {Paused(dl, {g}), Removed(dl, {g}), Forgot(dl, {g})}
    <2> TAKE x \in Sent(proc, dl, d2)
    <2>1. /\ d2 \in Downloads
          /\ ~SlowHalt => NoNewHalting(dl, d2)
          /\ \A h \in Gid \ {g} : d2[h] = dl[h]
      BY <1>1, AskedStill
    <2>2. x = IF proc = "on" THEN d2 ELSE dl
      BY <1>1, SentReliable
    <2> QED BY <1>1, <1>2, <2>1, <2>2 DEF Only, NoNewHalting
  <1>4. CASE UNCHANGED dl
    BY <1>4 DEF NoNewHalting, Only
  <1>5. CASE Add(t)
    <2>1. PICK r \in Submit(proc, dl, t, "waiting") : dl' = r.dl
      BY <1>5 DEF Add
    <2>2. Conversed(proc, dl, t, r)
      BY <1>1, <2>1, QueueRuns
    <2> QED BY <2>1, <2>2 DEF Conversed
  <1>6. CASE Pause(t) \/ Cancel(t) \/ RemoveFromHistory(t)
    BY <1>3, <1>4, <1>6 DEF Pause, Cancel, RemoveFromHistory
  <1>7. ASSUME NEW d2 \in {Paused(dl, {g}), Removed(dl, {g})}, NEW d1 \in Sent(proc, dl, d2),
               NEW x \in {d1, Halted(d1, {g})}
        PROVE  /\ proc \in {"off", "dead"} => x = dl
               /\ ~SlowHalt => NoNewHalting(dl, x)
               /\ Only(t, dl, x)
               /\ x \in Downloads
    <2>1. d1 \in Downloads /\ (proc # "on" => d1 = dl) /\ Only(t, dl, d1)
      BY <1>3
    <2>2. ~SlowHalt => NoNewHalting(dl, d1)
      BY <1>3
    <2>3. NoNewHalting(d1, x) /\ x \in Downloads
      BY <2>1, EffectsStill, EffectsType DEF NoNewHalting
    <2>4. Only(t, d1, x)
      BY <1>2, <2>1, EffectsStill DEF Only
    <2>5. proc \in {"off", "dead"} => x = dl
      BY <1>1, <2>1, HaltedGone DEF Gone
    <2> QED BY <2>1, <2>2, <2>3, <2>4, <2>5 DEF NoNewHalting, Only
  <1>8. CASE CancelByRequestKey(t)
    <2>1. CASE CancelInEngine(t)
      <3>1. PICK d1 \in Sent(proc, dl, Removed(dl, {g})) : dl' \in {d1, Halted(d1, {g})}
        BY <2>1 DEF CancelInEngine
      <3> QED BY <1>7, <3>1
    <2>2. CASE UNCHANGED dl
      BY <1>4, <2>2
    <2> QED BY <1>8, <2>1, <2>2 DEF CancelByRequestKey, CancelAbsent, CancelCompleted, CancelUnsubmitted
  <1>9. CASE ChangeConnections(t)
    <2> DEFINE Then(d2) == dl' = d2 \/ (proc = "on" /\ dl' = Unpaused(d2, g))
    <2>1. PICK d1 \in Sent(proc, dl, Paused(dl, {g})) : \E d2 \in {d1, Halted(d1, {g})} : Then(d2)
      <3>1. PICK d1 \in Sent(proc, dl, Paused(dl, {g})) : \E d2 \in {d1, Halted(d1, {g})} :
               \/ dl' = d2
               \/ \E c \in Call(proc, d2, d2, "ok") :
                     c.reply = "ok" /\ dl' \in Sent(proc, d2, Unpaused(d2, g))
        BY <1>9 DEF ChangeConnections
      <3>2. \A d2 : \A c \in Call(proc, d2, d2, "ok") : c.reply = "ok" => proc = "on"
        BY <1>1, CallReliable
      <3>3. \A d2 : \A x \in Sent(proc, d2, Unpaused(d2, g)) :
               x = IF proc = "on" THEN Unpaused(d2, g) ELSE d2
        BY <1>1, SentReliable
      <3> QED BY <3>1, <3>2, <3>3
    <2>6. PICK d2 \in {d1, Halted(d1, {g})} : Then(d2)
      BY <2>1
    <2>2. /\ proc \in {"off", "dead"} => d2 = dl
          /\ ~SlowHalt => NoNewHalting(dl, d2)
          /\ Only(t, dl, d2) /\ d2 \in Downloads
      BY <1>7, <2>6
    <2>3. CASE dl' = d2
      BY <2>2, <2>3
    <2>4. CASE proc = "on" /\ dl' = Unpaused(d2, g)
      <3>1. \A h \in Gid : dl'[h] = d2[h] \/ (h = g /\ dl'[h] = "waiting")
        BY <2>2, <2>4 DEF Unpaused, Downloads
      <3> QED BY <1>2, <2>2, <2>4, <3>1 DEF NoNewHalting, Only, Halting
    <2> QED BY <2>6, <2>3, <2>4
  <1> QED BY <1>5, <1>6, <1>8, <1>9

LEMMA OperationSound ==
    ASSUME Agreement, Reliable, Operation
    PROVE  EngineSound'
  <1>1. dl \in Downloads /\ RpcFaults = {} /\ EngineSound /\ TypeOK /\ Gone
    BY DEF Agreement, TypeOK, EngineTypeOK, Reliable, EngineSound
  <1>2. ASSUME NEW t \in Tasks,
               Add(t) \/ Pause(t) \/ Cancel(t) \/ CancelByRequestKey(t) \/ RemoveFromHistory(t)
                 \/ ChangeConnections(t)
        PROVE  EngineSound'
    <2>1. proc \in {"off", "dead"} => dl' = dl
      BY <1>2, TalksOfOne
    <2>2. ~SlowHalt => NoNewHalting(dl, dl')
      BY <1>2, TalksOfOne
    <2>3. SameEngine /\ UNCHANGED pc /\ UNCHANGED snap /\ Free
      BY <1>2 DEF Add, Pause, Cancel, CancelByRequestKey, RemoveFromHistory, ChangeConnections,
                  Unrelated, opFrame, tickVars
    <2> QED BY <1>1, <2>1, <2>2, <2>3, SoundAfterTalk DEF Free
  <1>3. ASSUME NEW t \in Tasks, Resume(t) PROVE EngineSound'
    <2>1. PICK e \in Ensured : \E r \in ResumeInEngine(e.proc, e.dl, t) : Engine(e) /\ dl' = r.dl
      BY <1>3 DEF Resume
    <2>2. PICK r \in ResumeInEngine(e.proc, e.dl, t) : Engine(e) /\ dl' = r.dl
      BY <2>1
    <2>3. row[t].gid \in Own(t) \cup {NoGid}
      BY DEF Agreement, Agrees, OwnGid
    <2>4. e.dl \in Downloads
      BY <1>1, EnsuredType
    <2>7. Conversed(e.proc, e.dl, t, r)
      BY <1>1, <2>2, <2>3, <2>4, ResumeRuns
    <2>5. NoNewHalting(e.dl, r.dl) /\ (e.proc # "on" => r.dl = e.dl)
      BY <2>7 DEF Conversed
    <2>6. UNCHANGED pc /\ UNCHANGED snap /\ Free
      BY <1>3 DEF Resume, Unrelated, opFrame, tickVars
    <2> QED BY <1>1, <2>2, <2>5, <2>6, SoundAfterEnsured DEF Free
  <1>4. ASSUME NEW t \in Tasks, Retry(t) PROVE EngineSound'
    <2>1. PICK e \in Ensured : \E r \in Submit(e.proc, e.dl, t, "waiting") : Engine(e) /\ dl' = r.dl
      BY <1>4 DEF Retry
    <2>2. PICK r \in Submit(e.proc, e.dl, t, "waiting") : Engine(e) /\ dl' = r.dl
      BY <2>1
    <2>3. row[t].gid \in Own(t) \cup {NoGid}
      BY DEF Agreement, Agrees, OwnGid
    <2>4. e.dl \in Downloads
      BY <1>1, EnsuredType
    <2>7. Conversed(e.proc, e.dl, t, r)
      BY <1>1, <2>2, <2>3, <2>4, QueueRuns
    <2>5. NoNewHalting(e.dl, r.dl) /\ (e.proc # "on" => r.dl = e.dl)
      BY <2>7 DEF Conversed
    <2>6. UNCHANGED pc /\ UNCHANGED snap /\ Free
      BY <1>4 DEF Retry, opFrame, tickVars
    <2> QED BY <1>1, <2>2, <2>5, <2>6, SoundAfterEnsured DEF Free
  <1>5. CASE ResumeAll \/ RestartEngine
    <2>1. PICK e \in Ensured : Engine(e) /\ dl' = e.dl
      BY <1>5 DEF ResumeAll, RestartEngine
    <2>2. pc' \in {pc, "resumeAll"} /\ UNCHANGED snap /\ Free
      BY <1>5 DEF ResumeAll, RestartEngine, Unrelated, opFrame, tickVars
    <2>3. NoNewHalting(e.dl, e.dl)
      BY DEF NoNewHalting
    <2> QED BY <1>1, <2>1, <2>2, <2>3, SoundAfterEnsured DEF Free
  <1>6. CASE PauseAll
    <2>1. dl' \in Sent(proc, dl, Paused(dl, Gid)) /\ SameEngine /\ UNCHANGED pc /\ UNCHANGED snap /\ Free
      BY <1>6 DEF PauseAll, Unrelated, opFrame, tickVars
    <2>2. dl' = IF proc = "on" THEN Paused(dl, Gid) ELSE dl
      BY <1>1, <2>1, SentReliable
    <2>3. ~SlowHalt => NoNewHalting(dl, dl')
      BY <1>1, <2>2, EffectsStill DEF NoNewHalting
    <2> QED BY <1>1, <2>1, <2>2, <2>3, SoundAfterTalk DEF Free
  <1>7. CASE SetAutoResume
    BY <1>1, <1>7 DEF SetAutoResume, engineVars, tickVars, EngineSound, Gone, Owned, Prompt, Polled, Told
  <1>8. CASE Shutdown
    <2>1. PICK d \in Sent(proc, dl, Paused(dl, Gid)) : StopEngine(d)
      BY <1>8 DEF Shutdown
    <2>2. d = IF proc = "on" THEN Paused(dl, Gid) ELSE dl
      BY <1>1, <2>1, SentReliable
    <2>3. dl' = IF proc = "orphan" THEN dl ELSE NoDownloads
      BY <2>1, <2>2 DEF StopEngine
    <2>4. proc' = IF proc \in {"on", "dead"} THEN "off" ELSE proc
      BY <2>1 DEF StopEngine
    <2>5. Gone' /\ Prompt'
      BY <1>1, <2>3, <2>4, EffectsStill DEF Gone, Prompt, EngineSound, Halting
    <2>6. Owned' /\ Polled'
      BY <1>8 DEF Shutdown, Owned, Polled
    <2> QED BY <2>5, <2>6 DEF EngineSound
  <1> QED BY <1>2, <1>3, <1>4, <1>5, <1>6, <1>7, <1>8 DEF Operation

\* The conversations of the tick and of resume_all about one task.
LEMMA TalksOfTick ==
    ASSUME Agreement, Reliable, NEW t \in Tasks, SyncTask(t) \/ ResumeAllTask(t)
    PROVE  /\ proc \in {"off", "dead"} => dl' = dl
           /\ ~SlowHalt => NoNewHalting(dl, dl')
           /\ Only(t, dl, dl')
  <1> DEFINE g == row[t].gid
             Fine == /\ proc \in {"off", "dead"} => dl' = dl
                     /\ ~SlowHalt => NoNewHalting(dl, dl')
                     /\ Only(t, dl, dl')
  <1>1. dl \in Downloads /\ RpcFaults = {} /\ g \in Own(t) \cup {NoGid}
    BY DEF Agreement, TypeOK, EngineTypeOK, Reliable, Agrees, OwnGid
  <1>2. (Gid \ Own(t)) \subseteq Gid \ {g}
    BY <1>1, EngineAssumption DEF Own
  <1>3. ASSUME UNCHANGED dl PROVE Fine
    BY <1>3 DEF NoNewHalting, Only
  <1>4. ASSUME ResumeAllTask(t) PROVE Fine
    <2>1. PICK r \in ResumeInEngine(proc, dl, t) : dl' = r.dl
      BY <1>4 DEF ResumeAllTask
    <2>2. Conversed(proc, dl, t, r)
      BY <1>1, <2>1, ResumeRuns
    <2> QED BY <2>1, <2>2 DEF Conversed
  <1>5. ASSUME SyncAbsent(t) PROVE Fine
    <2> DEFINE s == IF ShouldRun(t) THEN "waiting" ELSE "paused"
    <2>1. PICK r \in Submit(proc, dl, t, s) : dl' = r.dl
      BY <1>5 DEF SyncAbsent
    <2>2. s \in Status \ Halting
      BY DEF Status, Halting
    <2>3. Conversed(proc, dl, t, r)
      BY <1>1, <2>1, <2>2, SubmitRuns
    <2> QED BY <2>1, <2>3 DEF Conversed
  <1>6. ASSUME SyncRelease(t) PROVE Fine
    <2>1. \/ dl' = dl
          \/ proc = "on" /\ dl' = Unpaused(dl, g)
      BY <1>1, <1>6, SentReliable DEF SyncRelease
    <2>2. \A h \in Gid : dl'[h] = dl[h] \/ (h = g /\ dl'[h] = "waiting")
      BY <1>1, <2>1 DEF Unpaused, Downloads
    <2> QED BY <1>2, <2>1, <2>2 DEF NoNewHalting, Only, Halting
  <1>7. ASSUME SyncHold(t) \/ SyncFollow(t) PROVE Fine
    <2>1. \/ dl' = dl
          \/ \E d2 \in {Paused(dl, {g}), Forgot(dl, {g})} : proc = "on" /\ dl' = d2
      BY <1>1, <1>7, SentReliable DEF SyncHold, SyncFollow
    <2>2. \A d2 \in {Paused(dl, {g}), Forgot(dl, {g})} :
             /\ ~SlowHalt => NoNewHalting(dl, d2)
             /\ \A h \in Gid \ {g} : d2[h] = dl[h]
      BY <1>1, AskedStill
    <2> QED BY <1>2, <1>3, <2>1, <2>2 DEF Only
  <1> QED BY <1>3, <1>4, <1>5, <1>6, <1>7 DEF SyncTask, SyncSettled

LEMMA TickSound ==
    ASSUME Agreement, Reliable, Tick
    PROVE  EngineSound'
  <1>1. dl \in Downloads /\ RpcFaults = {} /\ EngineSound /\ TypeOK /\ Gone
    BY DEF Agreement, TypeOK, EngineTypeOK, Reliable, EngineSound
  <1>2. CASE TickBegin
    <2>1. PICK e \in Ensured : Engine(e) /\ dl' = e.dl
      BY <1>2 DEF TickBegin
    <2>2. NoNewHalting(e.dl, e.dl)
      BY DEF NoNewHalting
    <2> QED BY <1>1, <1>2, <2>1, <2>2, SoundAfterEnsured DEF TickBegin
  <1>3. CASE TellActive
    <2>1. \A g \in Gid : snap'[g] = Told({"active"}, g)
      BY <1>1, <1>3 DEF TellActive, EngineSound, Polled, Listed, Told, NoDownloads
    <2> QED BY <1>1, <1>3, <2>1
            DEF TellActive, engineVars, EngineSound, Gone, Owned, Prompt, Polled, Told
  <1>4. CASE TellWaiting
    <2>1. \A g \in Gid : snap[g] = Told({"active"}, g)
      BY <1>1, <1>4 DEF TellWaiting, EngineSound, Polled
    <2>2. \A g \in Gid : snap'[g] = Told({"active", "waiting", "paused"}, g)
      BY <1>4, <2>1 DEF TellWaiting, Listed, Told
    <2> QED BY <1>1, <1>4, <2>2
            DEF TellWaiting, engineVars, EngineSound, Gone, Owned, Prompt, Polled, Told
  <1>5. CASE TellStopped
    <2>1. PICK S : dl' \in Sent(proc, dl, Paused(dl, S))
      BY <1>5 DEF TellStopped
    <2>2. dl' = Paused(dl, S)
      BY <1>1, <1>5, <2>1, SentReliable DEF TellStopped
    <2>3. ~SlowHalt => NoNewHalting(dl, dl')
      BY <1>1, <2>2, EffectsStill
    <2> QED BY <1>1, <1>5, <2>3
            DEF TellStopped, EngineSound, Gone, Owned, Prompt, Polled, NoNewHalting
  <1>6. CASE PollFails
    <2>1. CASE UNCHANGED engineVars
      BY <1>1, <1>6, <2>1 DEF PollFails, engineVars, EngineSound, Gone, Owned, Prompt, Polled
    <2>2. CASE StopEngine(dl)
      <3>1. Gone' /\ Prompt'
        BY <1>1, <2>2, EffectsStill DEF StopEngine, EngineSound, Gone, Prompt, Halting
      <3>2. Owned' /\ Polled'
        BY <1>1, <1>6, <2>2 DEF PollFails, StopEngine, EngineSound, Owned, Polled
      <3> QED BY <3>1, <3>2 DEF EngineSound
    <2> QED BY <1>6, <2>1, <2>2 DEF PollFails
  <1>7. CASE ListTasksFails \/ Release
    BY <1>1, <1>7
       DEF ListTasksFails, Release, engineVars, EngineSound, Gone, Owned, Prompt, Polled
  <1>8. ASSUME NEW t \in Tasks, SyncTask(t) \/ ResumeAllTask(t) PROVE EngineSound'
    <2>1. /\ proc \in {"off", "dead"} => dl' = dl
          /\ ~SlowHalt => NoNewHalting(dl, dl')
      BY <1>8, TalksOfTick
    <2>2. /\ SameEngine /\ UNCHANGED pc /\ UNCHANGED snap
          /\ backend = "up" /\ pc \in {"sync", "resumeAll"}
      BY <1>8 DEF SyncTask, ResumeAllTask
    <2> QED BY <1>1, <2>1, <2>2, SoundAfterTalk
  <1> QED BY <1>2, <1>3, <1>4, <1>5, <1>6, <1>7, <1>8 DEF Tick

\* What aria2 does on its own starts nothing and stops nothing.
LEMMA EngineMovesStill ==
    ASSUME TypeOK, EngineMoves
    PROVE  Alive /\ NoNewHalting(dl, dl') /\ Quiet(dl, dl') /\ UNCHANGED proc
  <1>1. dl \in Downloads
    BY DEF TypeOK, EngineTypeOK
  <1>2. ASSUME NEW g \in Gid, Promote(g) \/ Finish(g) PROVE NoNewHalting(dl, dl')
    BY <1>1, <1>2 DEF Promote, Finish, NoNewHalting, Downloads, Halting
  <1>3. ASSUME NEW g \in Gid, Halt(g) PROVE NoNewHalting(dl, dl')
    BY <1>1, <1>3, EffectsStill DEF Halt
  <1>4. ASSUME SaveSession PROVE NoNewHalting(dl, dl')
    BY <1>4 DEF SaveSession, NoNewHalting
  <1>5. Alive /\ UNCHANGED proc
    BY DEF EngineMoves, EngineStep, Promote, Finish, Halt, SaveSession
  <1>6. NoNewHalting(dl, dl')
    BY <1>2, <1>3, <1>4 DEF EngineMoves, EngineStep
  <1>7. Quiet(dl, dl')
    BY EngineMovesQuiet
  <1> QED BY <1>5, <1>6, <1>7

LEMMA EnvironmentSound ==
    ASSUME Agreement, Reliable, EngineMoves \/ EngineDies \/ BackendDies \/ BackendStart
    PROVE  EngineSound'
  <1>1. dl \in Downloads /\ EngineSound /\ TypeOK
    BY DEF Agreement, TypeOK, EngineTypeOK
  <1>2. CASE EngineMoves
    <2>1. Alive /\ NoNewHalting(dl, dl') /\ UNCHANGED proc
      BY <1>1, <1>2, EngineMovesStill
    <2>2. backend = "up" => pc \notin {"waiting", "stopped"}
      BY <1>2 DEF EngineMoves, Reliable
    <2>3. UNCHANGED <<backend, pc, snap>>
      BY <1>2 DEF EngineMoves, serviceVars
    <2> QED BY <1>1, <2>1, <2>2, <2>3
            DEF Alive, NoNewHalting, EngineSound, Gone, Owned, Prompt, Polled
  <1>3. CASE EngineDies
    <2>1. Gone' /\ Prompt'
      BY <1>3, EffectsStill DEF EngineDies, Gone, Prompt, NoDownloads, Halting
    <2> QED BY <1>1, <1>3, <2>1 DEF EngineDies, tickVars, EngineSound, Owned, Polled
  <1>4. CASE BackendDies
    BY <1>1, <1>4 DEF BackendDies, Die, engineVars, tickVars, EngineSound, Gone, Owned, Prompt, Polled
  <1>5. CASE BackendStart
    <2>1. proc' \in {"off", "orphan"} /\ (proc' = "off" => proc \in {"off", "dead"})
      BY <1>1, <1>5 DEF BackendStart, TypeOK, EngineTypeOK, ProcState
    <2> QED BY <1>1, <1>5, <2>1 DEF BackendStart, EngineSound, Gone, Owned, Prompt, Polled
  <1> QED BY <1>2, <1>3, <1>4, <1>5

\* Every step leaves the engine's part of Agreement.
LEMMA StepSound ==
    ASSUME Agreement, Reliable, [Next]_vars
    PROVE  EngineSound'
  <1>1. ASSUME NEW t \in Tasks, VerificationDone(t) PROVE EngineSound'
    BY <1>1 DEF VerificationDone, Free, SameEngine, tickVars, PersistRows, Persist, Agreement,
                EngineSound, Gone, Owned, Prompt, Polled
  <1>2. CASE UNCHANGED vars
    BY <1>2 DEF vars, engineVars, serviceVars, Agreement, EngineSound, Gone, Owned, Prompt,
                Polled, Told
  <1> QED BY <1>1, <1>2, OperationSound, TickSound, EnvironmentSound DEF Next

-----------------------------------------------------------------------------
(* The rows' part of it.                                                   *)

\* A task whose row and snapshot stay and whose downloads at most end.
LEMMA Bystander ==
    ASSUME NEW u \in Tasks, Agrees(u), row'[u] = row[u],
           RunsIn(dl', u) \subseteq RunsIn(dl, u),
           InCharge' => InCharge \/ RunsIn(dl', u) = {},
           u \in confirmed' => u \in confirmed,
           revoked \subseteq revoked',
           backend' = "up" /\ pc' = "sync" /\ u \in todo' =>
               backend = "up" /\ pc = "sync" /\ u \in todo /\ snap' = snap
    PROVE  Agrees(u)'
  <1>1. OwnGid(u)'
    BY DEF Agrees, OwnGid
  <1>2. OneRuns(u)'
    BY DEF Agrees, OneRuns
  <1>3. Matched(u)'
    <2>1. CASE RunsIn(dl', u) = {}
      BY <2>1 DEF Matched, Suits
    <2>2. CASE InCharge /\ InCharge'
      BY <2>2 DEF Agrees, Matched, Suits
    <2> QED BY <2>1, <2>2 DEF Matched
  <1>4. Revocation(u)'
    BY DEF Agrees, Revocation
  <1>5. Late(u)'
    <2> SUFFICES ASSUME backend' = "up", pc' = "sync", u \in todo'
                 PROVE  /\ Seen(u)' \notin Running => RunsIn(dl', u) = {}
                        /\ ~SlowHalt /\ row'[u].state = "pausado" => Seen(u)' \notin Running
      BY DEF Late
    <2>1. Seen(u)' = Seen(u)
      BY DEF Seen
    <2> QED BY <2>1 DEF Agrees, Late
  <1> QED BY <1>1, <1>2, <1>3, <1>4, <1>5 DEF Agrees

\* What a write leaves, without errors of SQLite.
LEMMA WrittenReliable ==
    ASSUME TypeOK, Reliable, NEW t \in Tasks, NEW r, Persist(t, r)
    PROVE  /\ \/ row'[t] = r /\ StaysUp
              \/ row'[t] = row[t] /\ backend' = "down"
           /\ \A u \in Tasks \ {t} : row'[u] = row[u]
  BY DEF Persist, PersistRows, Reliable, StaysUp, Die, TypeOK

\* The task a handler is about, once it has saved the row r.
LEMMA Actor ==
    ASSUME TypeOK, Reliable, NEW t \in Tasks, Agrees(t), NEW r, Persist(t, r),
           r.gid \in Own(t) \cup {NoGid},
           \/ RunsIn(dl', t) \subseteq RunsIn(dl, t)
           \/ \E x : RunsIn(dl', t) \subseteq {x},
           proc' = "on" => Suits(r, RunsIn(dl', t)),
           Revocation(t)',
           pc' # "sync" \/ t \notin todo'
    PROVE  Agrees(t)'
  <1>1. \/ row'[t] = r /\ StaysUp
        \/ row'[t] = row[t] /\ backend' = "down"
    BY WrittenReliable
  <1>2. OwnGid(t)'
    BY <1>1 DEF Agrees, OwnGid
  <1>3. OneRuns(t)'
    BY DEF Agrees, OneRuns
  <1>4. Matched(t)'
    BY <1>1 DEF Matched, InCharge
  <1>5. Late(t)'
    BY DEF Late
  <1> QED BY <1>2, <1>3, <1>4, <1>5 DEF Agrees

\* Everybody but t, when a handler is about t.
LEMMA OthersAgree ==
    ASSUME Agreement, NEW t \in Tasks, \A u \in Tasks \ {t} : row'[u] = row[u],
           Only(t, dl, dl'), UNCHANGED proc, backend = "up",
           confirmed' \subseteq confirmed \cup {t}, revoked \subseteq revoked',
           pc' = pc, snap' = snap, todo' \subseteq todo
    PROVE  \A u \in Tasks \ {t} : Agrees(u)'
  <1> TAKE u \in Tasks \ {t}
  <1>1. RunsIn(dl', u) = RunsIn(dl, u)
    BY DEF RunsIn, Only, Own
  <1>2. InCharge' => InCharge
    BY DEF InCharge
  <1> QED BY <1>1, <1>2, Bystander DEF Agreement

\* A step that leaves the rows alone and starts nothing.
LEMMA QuietAgree ==
    ASSUME Agreement, UNCHANGED row, Quiet(dl, dl'),
           InCharge' => InCharge \/ \A g \in Gid : dl'[g] \notin Running,
           confirmed' \subseteq confirmed, revoked \subseteq revoked',
           backend' = "up" /\ pc' = "sync" =>
               backend = "up" /\ pc = "sync" /\ todo' \subseteq todo /\ snap' = snap
    PROVE  \A t \in Tasks : Agrees(t)'
  <1> TAKE t \in Tasks
  <1>1. RunsIn(dl', t) \subseteq RunsIn(dl, t)
    BY DEF RunsIn, Quiet
  <1>2. (\A g \in Gid : dl'[g] \notin Running) => RunsIn(dl', t) = {}
    BY DEF RunsIn
  <1> QED BY <1>1, <1>2, Bystander DEF Agreement

\* What a backend that can always start aria2c knows once it has ticked.
LEMMA Known ==
    ASSUME Agreement, ~SpawnFails, backend = "up", pc # "boot", NEW t \in Tasks
    PROVE  /\ RunsIn(dl, t) \subseteq {row[t].gid}
           /\ row[t].state \notin Queued \cup {"pausado"} => RunsIn(dl, t) = {}
  <1>1. CASE proc = "on"
    BY <1>1 DEF Agreement, Agrees, Matched, Suits, InCharge
  <1>2. CASE proc # "on"
    <2>1. dl = NoDownloads
      BY <1>2 DEF Agreement, TypeOK, EngineTypeOK, ProcState, EngineSound, Owned, Gone
    <2> QED BY <2>1 DEF RunsIn, NoDownloads, Running
  <1> QED BY <1>1, <1>2

\* The parts of Agreement that the proofs below keep citing.
LEMMA TaskParts ==
    ASSUME Agreement, NEW t \in Tasks
    PROVE  /\ row[t].gid \in Own(t) \cup {NoGid}
           /\ proc = "on" /\ backend = "up" => Suits(row[t], RunsIn(dl, t))
           /\ Revocation(t)
           /\ Agrees(t)
           /\ TypeOK /\ dl \in Downloads
  BY DEF Agreement, Agrees, OwnGid, Matched, InCharge, TypeOK, EngineTypeOK

-----------------------------------------------------------------------------
(* One lemma per action: every task still agrees.                          *)

LEMMA AddAgrees ==
    ASSUME Agreement, Reliable, NEW t \in Tasks, Add(t)
    PROVE  \A u \in Tasks : Agrees(u)'
  <1>1. PICK r \in Submit(proc, dl, t, "waiting") :
           /\ dl' = r.dl
           /\ PersistRows([row EXCEPT ![t] = MkRow("aguardando", "none", r.gid)],
                          [row EXCEPT ![t] = MkRow("aguardando", "none", NoGid)])
    BY DEF Add
  <1>2. /\ Conversed(proc, dl, t, r)
        /\ proc = "on" => RunsIn(r.dl, t) \subseteq RunsIn(dl, t) \cup {r.gid}
    BY <1>1, TaskParts, QueueRuns DEF Reliable
  <1>3. /\ Free /\ SameEngine /\ row[t].state = "novo" /\ t \notin revoked
        /\ UNCHANGED <<pc, snap, todo, confirmed, revoked>>
    BY DEF Add, Unrelated, opFrame, tickVars
  <1>4. /\ \/ row'[t] = MkRow("aguardando", "none", r.gid) /\ StaysUp
           \/ row'[t] = MkRow("aguardando", "none", NoGid) /\ backend' = "down"
        /\ \A u \in Tasks \ {t} : row'[u] = row[u]
    BY <1>1, TaskParts DEF PersistRows, Reliable, StaysUp, Die, TypeOK
  <1>5. proc = "on" => RunsIn(dl', t) \subseteq {r.gid}
    BY <1>1, <1>2, <1>3, TaskParts DEF Suits, Free, Queued
  <1>6. proc # "on" => RunsIn(dl', t) = RunsIn(dl, t)
    BY <1>1, <1>2 DEF Conversed
  <1>7. Agrees(t)'
    <2>1. OwnGid(t)'
      BY <1>2, <1>4 DEF Conversed, OwnGid, MkRow
    <2>2. OneRuns(t)'
      BY <1>5, <1>6, TaskParts DEF OneRuns, Agrees
    <2>3. Matched(t)'
      BY <1>3, <1>4, <1>5 DEF Matched, InCharge, SameEngine, Suits, MkRow, Queued
    <2>4. Revocation(t)'
      BY <1>3, TaskParts DEF Revocation
    <2>5. Late(t)'
      BY <1>3 DEF Late, Free
    <2> QED BY <2>1, <2>2, <2>3, <2>4, <2>5 DEF Agrees
  <1>8. Only(t, dl, dl')
    BY TalksOfOne
  <1> QED BY <1>3, <1>4, <1>7, <1>8, OthersAgree DEF Free, SameEngine

\* pause, cancel and remove_from_history: one call about the row's download
\* stops it or forgets it, then the row is saved.
LEMMA StoppedAgrees ==
    ASSUME Agreement, Reliable, NEW t \in Tasks, Pause(t) \/ Cancel(t) \/ RemoveFromHistory(t)
    PROVE  \A u \in Tasks : Agrees(u)'
  <1> DEFINE g == row[t].gid
  <1>1. /\ Free /\ SameEngine
        /\ UNCHANGED <<pc, snap, todo, confirmed, revoked>>
    BY DEF Pause, Cancel, RemoveFromHistory, Unrelated, opFrame, tickVars
  <1>2. /\ RunsIn(dl', t) \subseteq RunsIn(dl, t)
        /\ proc = "on" => RunsIn(dl', t) = {} \/ (SlowHalt /\ Pause(t))
    <2>1. CASE Pause(t) /\ row[t].state = "pausado" /\ UNCHANGED dl
      BY <1>1, <2>1, TaskParts DEF RunsIn, Suits, Free
    <2>2. ASSUME NEW d2 \in {Paused(dl, {g}), Removed(dl, {g})}, dl' \in Sent(proc, dl, d2)
          PROVE  /\ RunsIn(dl', t) \subseteq RunsIn(dl, t)
                 /\ proc = "on" => RunsIn(dl', t) = {}
      <3>1. Quiet(dl, d2) /\ (g \in Gid => d2[g] \notin Running)
        BY TaskParts, AskedStill, EffectsStill
      <3>2. dl' = IF proc = "on" THEN d2 ELSE dl
        BY <2>2, SentReliable DEF Reliable
      <3>3. proc = "on" => RunsIn(dl, t) \subseteq {g}
        BY <1>1, TaskParts DEF Suits, Free
      <3> QED BY <3>1, <3>2, <3>3 DEF RunsIn, Quiet
    <2>3. CASE RemoveFromHistory(t)
      <3>1. Quiet(dl, Forgot(dl, {g}))
        BY TaskParts, EffectsQuiet
      <3>2. dl' = IF proc = "on" THEN Forgot(dl, {g}) ELSE dl
        BY <2>3, SentReliable DEF Reliable, RemoveFromHistory
      <3>3. RunsIn(dl', t) \subseteq RunsIn(dl, t)
        BY <3>1, <3>2 DEF RunsIn, Quiet
      <3>4. proc = "on" => RunsIn(dl, t) = {}
        BY <1>1, <2>3, TaskParts DEF Suits, Free, RemoveFromHistory, Terminal, Queued
      <3> QED BY <3>3, <3>4
    <2> QED BY <2>1, <2>2, <2>3 DEF Pause, Cancel
  <1>3. PICK r : /\ Persist(t, r)
                 /\ r.gid \in {g, NoGid}
                 /\ Pause(t) => r.state = "pausado"
                 /\ \/ r.state = "pausado" /\ row[t].state \in Queued \cup {"pausado"} /\ r.gid = g
                    \/ r.state = "cancelado" /\ row[t].state \notin Absent \cup Terminal
                    \/ r.state = "apagado" /\ row[t].state \in Terminal
    BY DEF Pause, Cancel, RemoveFromHistory, MkRow, Absent, Terminal, Queued
  <1>4. Agrees(t)'
    <2>1. proc' = "on" => Suits(r, RunsIn(dl', t))
      BY <1>1, <1>2, <1>3, TaskParts DEF Suits, SameEngine, Free, Queued, Terminal
    <2>2. row'[t].state \in {row[t].state, r.state}
      BY <1>3, TaskParts, WrittenReliable
    <2>3. Revocation(t)'
      BY <1>1, <1>2, <1>3, <2>2, TaskParts DEF Revocation, Absent, Terminal, Queued
    <2>4. r.gid \in Own(t) \cup {NoGid}
      BY <1>3, TaskParts
    <2> QED BY <1>1, <1>2, <1>3, <2>1, <2>3, <2>4, TaskParts, Actor DEF Free
  <1>5. \A u \in Tasks \ {t} : row'[u] = row[u]
    BY <1>3, TaskParts, WrittenReliable
  <1>6. Only(t, dl, dl')
    BY TalksOfOne
  <1> QED BY <1>1, <1>4, <1>5, <1>6, OthersAgree DEF Free, SameEngine

\* What resume, resume_all and retry make of the task, from the downloads d
\* they found or restored.
LEMMA RequeuedAgrees ==
    ASSUME Agreement, Reliable, NEW t \in Tasks, NEW p, NEW d, NEW r,
           proc' = p, dl' = r.dl, Conversed(p, d, t, r),
           RunsIn(d, t) \subseteq RunsIn(dl, t),
           p = "on" => RunsIn(r.dl, t) \subseteq {r.gid},
           IF r.ok THEN Persist(t, MkRow("aguardando", "none", r.gid))
                   ELSE UNCHANGED row /\ StaysUp,
           Revocation(t)', confirmed' \subseteq confirmed, UNCHANGED revoked, pc' # "sync"
    PROVE  /\ Agrees(t)'
           /\ \A u \in Tasks \ {t} : row'[u] = row[u]
  <1>1. \/ RunsIn(dl', t) \subseteq RunsIn(dl, t)
        \/ \E x : RunsIn(dl', t) \subseteq {x}
    BY DEF Conversed
  <1>2. CASE r.ok
    <2> DEFINE w == MkRow("aguardando", "none", r.gid)
    <2>1. Persist(t, w)
      BY <1>2
    <2>2. w.gid = r.gid /\ w.state = "aguardando"
      BY DEF MkRow
    <2>3. proc' = "on" => Suits(w, RunsIn(dl', t))
      BY <2>2 DEF Suits, Queued
    <2>4. w.gid \in Own(t) \cup {NoGid}
      BY <2>2 DEF Conversed
    <2> HIDE DEF w
    <2> QED BY <1>1, <2>1, <2>3, <2>4, TaskParts, Actor, WrittenReliable
  <1>3. CASE ~r.ok
    <2>1. UNCHANGED row /\ StaysUp
      BY <1>3
    <2>2. p # "on" /\ RunsIn(dl', t) \subseteq RunsIn(dl, t)
      BY <1>3 DEF Conversed
    <2>3. ~InCharge'
      BY <2>2 DEF InCharge
    <2> QED BY <2>1, <2>2, <2>3, TaskParts, Bystander
  <1> QED BY <1>2, <1>3

\* Everybody but t, when a handler first makes sure the engine runs.
LEMMA OthersAgreeAfterEnsured ==
    ASSUME Agreement, NEW t \in Tasks, \A u \in Tasks \ {t} : row'[u] = row[u],
           NEW e \in Ensured, Engine(e), Only(t, e.dl, dl'), backend = "up",
           confirmed' \subseteq confirmed, UNCHANGED revoked, pc' # "sync"
    PROVE  \A u \in Tasks \ {t} : Agrees(u)'
  <1> TAKE u \in Tasks \ {t}
  <1>1. /\ Quiet(dl, e.dl)
        /\ e.proc = "on" => \/ proc = "on" /\ e.dl = dl
                            \/ \A g \in Gid : e.dl[g] \notin Running
    BY EnsuredLeaves DEF Agreement, EngineSound
  <1>2. RunsIn(dl', u) = RunsIn(e.dl, u)
    BY DEF RunsIn, Only, Own
  <1>3. RunsIn(dl', u) \subseteq RunsIn(dl, u)
    BY <1>1, <1>2 DEF RunsIn, Quiet
  <1>4. InCharge' => InCharge \/ RunsIn(dl', u) = {}
    BY <1>1, <1>2 DEF InCharge, Engine, RunsIn
  <1> QED BY <1>3, <1>4, Bystander DEF Agreement

\* What ensure_engine leaves running for one task.
LEMMA EnsuredRuns ==
    ASSUME Agreement, backend = "up", NEW e \in Ensured, NEW t \in Tasks
    PROVE  /\ e.dl \in Downloads
           /\ RunsIn(e.dl, t) \subseteq RunsIn(dl, t)
           /\ e.proc = "on" => Suits(row[t], RunsIn(e.dl, t))
  <1>1. /\ Quiet(dl, e.dl)
        /\ e.proc = "on" => \/ proc = "on" /\ e.dl = dl
                            \/ \A g \in Gid : e.dl[g] \notin Running
    BY EnsuredLeaves DEF Agreement, EngineSound
  <1>2. e.dl \in Downloads
    BY EnsuredType DEF Agreement
  <1>3. RunsIn(e.dl, t) \subseteq RunsIn(dl, t)
    BY <1>1 DEF RunsIn, Quiet
  <1>4. (\A g \in Gid : e.dl[g] \notin Running) => RunsIn(e.dl, t) = {}
    BY DEF RunsIn
  <1> QED BY <1>1, <1>2, <1>3, <1>4, TaskParts DEF Suits

LEMMA ResumeAgrees ==
    ASSUME Agreement, Reliable, NEW t \in Tasks, Resume(t)
    PROVE  \A u \in Tasks : Agrees(u)'
  <1>1. PICK e \in Ensured : \E r \in ResumeInEngine(e.proc, e.dl, t) :
           /\ Engine(e) /\ dl' = r.dl
           /\ IF r.ok THEN Persist(t, MkRow("aguardando", "none", r.gid))
                      ELSE UNCHANGED row /\ StaysUp
    BY DEF Resume
  <1>2. PICK r \in ResumeInEngine(e.proc, e.dl, t) :
           /\ Engine(e) /\ dl' = r.dl
           /\ IF r.ok THEN Persist(t, MkRow("aguardando", "none", r.gid))
                      ELSE UNCHANGED row /\ StaysUp
    BY <1>1
  <1>3. Free /\ row[t].state = "pausado" /\ UNCHANGED <<pc, confirmed, revoked>>
    BY DEF Resume, Unrelated, opFrame, tickVars
  <1>4. /\ e.dl \in Downloads
        /\ RunsIn(e.dl, t) \subseteq RunsIn(dl, t)
        /\ e.proc = "on" => RunsIn(e.dl, t) \subseteq {row[t].gid}
    BY <1>3, EnsuredRuns DEF Suits, Free
  <1>5. /\ Conversed(e.proc, e.dl, t, r)
        /\ e.proc = "on" => RunsIn(r.dl, t) \subseteq {r.gid}
    BY <1>2, <1>4, TaskParts, ResumeRuns DEF Reliable
  <1>6. Revocation(t)'
    BY <1>3, TaskParts DEF Revocation, Absent
  <1>7. proc' = e.proc
    BY <1>2 DEF Engine
  <1>8. Agrees(t)' /\ \A u \in Tasks \ {t} : row'[u] = row[u]
    BY <1>2, <1>3, <1>4, <1>5, <1>6, <1>7, RequeuedAgrees DEF Free
  <1>9. Only(t, e.dl, dl')
    BY <1>2, <1>5 DEF Conversed
  <1> QED BY <1>2, <1>3, <1>8, <1>9, OthersAgreeAfterEnsured DEF Free

LEMMA RetryAgrees ==
    ASSUME Agreement, Reliable, NEW t \in Tasks, Retry(t)
    PROVE  \A u \in Tasks : Agrees(u)'
  <1>1. PICK e \in Ensured : \E r \in Submit(e.proc, e.dl, t, "waiting") :
           /\ Engine(e) /\ dl' = r.dl
           /\ IF r.ok THEN Persist(t, MkRow("aguardando", "none", r.gid))
                      ELSE UNCHANGED row /\ StaysUp
    BY DEF Retry
  <1>2. PICK r \in Submit(e.proc, e.dl, t, "waiting") :
           /\ Engine(e) /\ dl' = r.dl
           /\ IF r.ok THEN Persist(t, MkRow("aguardando", "none", r.gid))
                      ELSE UNCHANGED row /\ StaysUp
    BY <1>1
  <1>3. /\ Free /\ row[t].state \in {"erro", "cancelado"} /\ UNCHANGED <<pc, revoked>>
        /\ confirmed' = confirmed \ {t}
    BY DEF Retry, opFrame, tickVars
  <1>4. /\ e.dl \in Downloads
        /\ RunsIn(e.dl, t) \subseteq RunsIn(dl, t)
        /\ e.proc = "on" => RunsIn(e.dl, t) = {}
    BY <1>3, EnsuredRuns DEF Suits, Free, Queued
  <1>5. /\ Conversed(e.proc, e.dl, t, r)
        /\ e.proc = "on" => RunsIn(r.dl, t) \subseteq {r.gid}
    BY <1>2, <1>4, TaskParts, QueueRuns DEF Reliable
  <1>6. Revocation(t)'
    BY <1>3 DEF Revocation
  <1>7. proc' = e.proc
    BY <1>2 DEF Engine
  <1>8. Agrees(t)' /\ \A u \in Tasks \ {t} : row'[u] = row[u]
    BY <1>2, <1>3, <1>4, <1>5, <1>6, <1>7, RequeuedAgrees DEF Free
  <1>9. Only(t, e.dl, dl')
    BY <1>2, <1>5 DEF Conversed
  <1> QED BY <1>2, <1>3, <1>8, <1>9, OthersAgreeAfterEnsured DEF Free

LEMMA ResumeAllTaskAgrees ==
    ASSUME Agreement, Reliable, NEW t \in Tasks, row[t].state = "pausado", ResumeAllTask(t)
    PROVE  \A u \in Tasks : Agrees(u)'
  <1>1. PICK r \in ResumeInEngine(proc, dl, t) :
           /\ dl' = r.dl
           /\ IF r.ok THEN Persist(t, MkRow("aguardando", "none", r.gid))
                      ELSE UNCHANGED row /\ StaysUp
           /\ todo' \subseteq todo
    BY DEF ResumeAllTask
  <1>2. /\ backend = "up" /\ pc = "resumeAll" /\ SameEngine
        /\ UNCHANGED <<pc, snap, confirmed, revoked>>
    BY DEF ResumeAllTask
  <1>3. /\ Conversed(proc, dl, t, r)
        /\ proc = "on" => RunsIn(r.dl, t) \subseteq {r.gid}
    BY <1>1, <1>2, TaskParts, ResumeRuns DEF Reliable, Suits
  <1>4. Revocation(t)'
    BY <1>2, TaskParts DEF Revocation, Absent
  <1>5. Agrees(t)' /\ \A u \in Tasks \ {t} : row'[u] = row[u]
    BY <1>1, <1>2, <1>3, <1>4, RequeuedAgrees DEF SameEngine
  <1>6. Only(t, dl, dl')
    BY TalksOfTick
  <1> QED BY <1>1, <1>2, <1>5, <1>6, OthersAgree DEF SameEngine

\* cancel_by_request_key confirms only what runs no more.
LEMMA CancelByRequestKeyAgrees ==
    ASSUME Agreement, Reliable, NEW t \in Tasks, CancelByRequestKey(t)
    PROVE  \A u \in Tasks : Agrees(u)'
  <1> DEFINE g == row[t].gid
  <1>1. /\ Free /\ SameEngine /\ UNCHANGED <<pc, snap, todo>>
        /\ revoked' = revoked \cup {t}
    BY DEF CancelByRequestKey, opFrame, tickVars
  <1>2. Only(t, dl, dl') /\ (proc \in {"off", "dead"} => dl' = dl)
    BY TalksOfOne
  <1>3. ASSUME UNCHANGED <<row, dl>>, StaysUp, confirmed' \subseteq confirmed \cup {t},
               ~SpawnFails /\ t \in confirmed' =>
                  RunsIn(dl, t) = {} /\ row[t].state \in Absent \cup {"cancelado"}
        PROVE  Agrees(t)' /\ (\A u \in Tasks \ {t} : row'[u] = row[u])
    <2>1. Revocation(t)'
      BY <1>1, <1>3 DEF Revocation
    <2>2. OwnGid(t)' /\ OneRuns(t)' /\ Matched(t)' /\ Late(t)'
      BY <1>1, <1>3, TaskParts
         DEF Agrees, OwnGid, OneRuns, Matched, Late, Free, InCharge, SameEngine, StaysUp
    <2> QED BY <1>3, <2>1, <2>2 DEF Agrees
  <1>4. ASSUME CancelAbsent(t) \/ CancelCompleted(t)
        PROVE  /\ Agrees(t)' /\ (\A u \in Tasks \ {t} : row'[u] = row[u])
               /\ confirmed' \subseteq confirmed \cup {t}
    <2>1. row[t].state \in Absent /\ ~SpawnFails => RunsIn(dl, t) = {}
      BY <1>1, Known DEF Free, Absent, Queued
    <2>2. ~SpawnFails /\ t \in confirmed =>
             RunsIn(dl, t) = {} /\ row[t].state \in Absent \cup {"cancelado"}
      BY TaskParts DEF Revocation
    <2> QED BY <1>3, <1>4, <2>1, <2>2 DEF CancelAbsent, CancelCompleted
  <1>5. ASSUME ConfirmCancelled(t), RunsIn(dl', t) \subseteq RunsIn(dl, t),
               proc = "on" \/ ~SpawnFails => RunsIn(dl', t) = {}
        PROVE  /\ Agrees(t)' /\ (\A u \in Tasks \ {t} : row'[u] = row[u])
               /\ confirmed' \subseteq confirmed \cup {t}
    <2> DEFINE w == MkRow("cancelado", "none", g)
    <2>1. Persist(t, w) /\ confirmed' \subseteq confirmed \cup {t}
      BY <1>5 DEF ConfirmCancelled
    <2>2. w.gid = g /\ w.state = "cancelado"
      BY DEF MkRow
    <2>3. proc' = "on" => Suits(w, RunsIn(dl', t))
      BY <1>1, <1>5, <2>2 DEF SameEngine, Suits
    <2>4. Revocation(t)'
      <3>1. t \in confirmed' \ confirmed => row'[t].state = "cancelado"
        BY <1>5 DEF ConfirmCancelled
      <3>2. row'[t].state \in {row[t].state, "cancelado"}
        BY <2>1, <2>2, TaskParts, WrittenReliable
      <3> QED BY <1>1, <1>5, <3>1, <3>2, TaskParts DEF Revocation
    <2>5. \A u \in Tasks \ {t} : row'[u] = row[u]
      BY <2>1, TaskParts, WrittenReliable
    <2>6. w.gid \in Own(t) \cup {NoGid}
      BY <2>2, TaskParts
    <2> HIDE DEF w
    <2>7. Agrees(t)'
      BY <1>1, <1>5, <2>1, <2>3, <2>4, <2>6, TaskParts, Actor DEF Free
    <2> QED BY <2>1, <2>5, <2>7
  <1>6. ASSUME CancelUnsubmitted(t)
        PROVE  /\ Agrees(t)' /\ (\A u \in Tasks \ {t} : row'[u] = row[u])
               /\ confirmed' \subseteq confirmed \cup {t}
    <2>1. proc = "on" => RunsIn(dl, t) \subseteq {NoGid}
      BY <1>1, <1>6, TaskParts DEF Suits, Free, CancelUnsubmitted
    <2>2. ~SpawnFails => RunsIn(dl, t) \subseteq {NoGid}
      BY <1>1, <1>6, Known DEF Free, CancelUnsubmitted
    <2>3. proc = "on" \/ ~SpawnFails => RunsIn(dl, t) = {}
      BY <2>1, <2>2, EngineAssumption DEF RunsIn
    <2> QED BY <1>5, <1>6, <2>3 DEF CancelUnsubmitted
  <1>7. ASSUME CancelInEngine(t)
        PROVE  /\ Agrees(t)' /\ (\A u \in Tasks \ {t} : row'[u] = row[u])
               /\ confirmed' \subseteq confirmed \cup {t}
    <2>1. PICK d1 \in Sent(proc, dl, Removed(dl, {g})) : \E d2 \in {d1, Halted(d1, {g})} :
             /\ dl' = d2
             /\ \E r \in Call(proc, d2, d2, "ok") :
                  IF r.reply = "ok" /\ d2[g] \in {"removed", "error", "none"}
                  THEN ConfirmCancelled(t)
                  ELSE UNCHANGED <<row, confirmed>> /\ StaysUp
      BY <1>7 DEF CancelInEngine
    <2>2. /\ dl' \in {d1, Halted(d1, {g})}
          /\ \/ proc = "on" /\ dl'[g] \in {"removed", "error", "none"} /\ ConfirmCancelled(t)
             \/ UNCHANGED <<row, confirmed>> /\ StaysUp
      BY <2>1, CallReliable DEF Reliable
    <2>3. d1 \in Downloads /\ Quiet(dl, d1)
      <3>1. d1 = IF proc = "on" THEN Removed(dl, {g}) ELSE dl
        BY SentReliable DEF Reliable
      <3> QED BY <3>1, TaskParts, EffectsStill, EffectsType DEF Quiet
    <2>4. Quiet(d1, dl')
      BY <2>2, <2>3, EffectsQuiet DEF Quiet
    <2>5. RunsIn(dl', t) \subseteq RunsIn(dl, t)
      BY <2>3, <2>4 DEF RunsIn, Quiet
    <2>6. CASE proc = "on" /\ dl'[g] \in {"removed", "error", "none"} /\ ConfirmCancelled(t)
      <3>1. RunsIn(dl, t) \subseteq {g}
        BY <1>1, <2>6, TaskParts DEF Suits, Free
      <3>2. RunsIn(dl', t) = {}
        BY <2>5, <2>6, <3>1 DEF RunsIn, Running
      <3> QED BY <1>5, <2>5, <2>6, <3>2
    <2>7. CASE UNCHANGED <<row, confirmed>> /\ StaysUp
      <3>1. InCharge' => InCharge
        BY <1>1, <2>7 DEF InCharge, SameEngine, StaysUp
      <3> QED BY <1>1, <2>5, <2>7, <3>1, TaskParts, Bystander DEF Free
    <2> QED BY <2>2, <2>6, <2>7
  <1>8. /\ Agrees(t)' /\ (\A u \in Tasks \ {t} : row'[u] = row[u])
        /\ confirmed' \subseteq confirmed \cup {t}
    BY <1>4, <1>6, <1>7 DEF CancelByRequestKey
  <1> QED BY <1>1, <1>2, <1>8, OthersAgree DEF Free, SameEngine

\* change_connections pauses and resumes the row's own download; a task whose
\* row is paused keeps it stopped, if aria2 pauses at once.
LEMMA ChangeConnectionsAgrees ==
    ASSUME Agreement, Reliable, NEW t \in Tasks, ChangeConnections(t)
    PROVE  \A u \in Tasks : Agrees(u)'
  <1> DEFINE g == row[t].gid
  <1>1. /\ Free /\ SameEngine /\ UNCHANGED <<pc, snap, todo, confirmed, revoked, row>>
        /\ row[t].state \notin Absent \cup Terminal \cup {"verificando"}
        /\ g # NoGid /\ Reported(dl[g]) = "active"
    BY DEF ChangeConnections, Unrelated, opFrame, tickVars
  <1>2. Only(t, dl, dl')
    BY TalksOfOne
  <1>3. g \in Own(t)
    BY <1>1, TaskParts
  <1>4. proc # "on" => RunsIn(dl', t) \subseteq RunsIn(dl, t)
    <2>1. ASSUME proc # "on" PROVE Quiet(dl, dl')
      <3>1. PICK d1 \in Sent(proc, dl, Paused(dl, {g})) : \E d2 \in {d1, Halted(d1, {g})} :
               \/ dl' = d2
               \/ \E r \in Call(proc, d2, d2, "ok") :
                    r.reply = "ok" /\ dl' \in Sent(proc, d2, Unpaused(d2, g))
        BY DEF ChangeConnections
      <3>2. d1 = dl
        BY <2>1, SentReliable DEF Reliable
      <3>3. dl' \in {dl, Halted(dl, {g})}
        BY <2>1, <3>1, <3>2, CallReliable DEF Reliable
      <3> QED BY <3>3, TaskParts, EffectsQuiet DEF Quiet
    <2> QED BY <2>1 DEF RunsIn, Quiet
  <1>5. proc = "on" => RunsIn(dl', t) \subseteq {g}
    <2> SUFFICES ASSUME proc = "on" PROVE RunsIn(dl', t) \subseteq {g}
      OBVIOUS
    <2>1. PICK d1 \in Sent(proc, dl, Paused(dl, {g})) : \E d2 \in {d1, Halted(d1, {g})} :
             dl' = d2 \/ dl' \in Sent(proc, d2, Unpaused(d2, g))
      BY DEF ChangeConnections
    <2>2. d1 = Paused(dl, {g}) /\ d1 \in Downloads
      BY SentReliable, TaskParts, EffectsType DEF Reliable
    <2>3. PICK d2 \in {d1, Halted(d1, {g})} : dl' = d2 \/ dl' = Unpaused(d2, g)
      BY <2>1, SentReliable DEF Reliable
    <2>4. d2 \in Downloads /\ \A h \in Gid \ {g} : d2[h] = dl[h]
      <3> HIDE DEF g
      <3>1. \A h \in Gid \ {g} : d1[h] = dl[h]
        BY <2>2, TaskParts, EffectsStill
      <3>2. Halted(d1, {g}) \in Downloads
        BY <2>2, EffectsType
      <3>3. \A h \in Gid \ {g} : Halted(d1, {g})[h] = d1[h]
        BY <2>2, EffectsStill
      <3> QED BY <2>2, <2>3, <3>1, <3>2, <3>3
    <2>5. \A h \in Gid \ {g} : dl'[h] = dl[h]
      BY <2>3, <2>4 DEF Unpaused, Downloads
    <2>6. RunsIn(dl, t) \subseteq {g}
      BY <1>1, TaskParts DEF Suits, Free
    <2> QED BY <2>5, <2>6 DEF RunsIn
  <1>6. row[t].state \in Queued \cup {"pausado"}
    BY <1>1, TaskParts DEF TypeOK, Row, TaskState
  <1>7. proc = "on" /\ ~SlowHalt => row[t].state \in Queued
    <2> SUFFICES ASSUME proc = "on", ~SlowHalt, row[t].state = "pausado" PROVE FALSE
      BY <1>6
    <2>1. dl[g] = "active"
      BY <1>1, <1>3 DEF Agreement, EngineSound, Prompt, Halting, Reported, Own
    <2>2. g \in RunsIn(dl, t)
      BY <1>3, <2>1 DEF RunsIn, Own, Running
    <2> QED BY <1>1, <2>2, TaskParts DEF Suits, Free
  <1>8. Agrees(t)'
    <2>1. OwnGid(t)' /\ Late(t)'
      BY <1>1, TaskParts DEF OwnGid, Late, Free
    <2>2. OneRuns(t)'
      BY <1>4, <1>5, TaskParts DEF OneRuns, Agrees
    <2>3. Matched(t)'
      BY <1>1, <1>5, <1>6, <1>7 DEF Matched, InCharge, SameEngine, Suits, Queued
    <2>4. Revocation(t)'
      BY <1>1, <1>6, TaskParts DEF Revocation, Absent, Queued
    <2> QED BY <2>1, <2>2, <2>3, <2>4 DEF Agrees
  <1> QED BY <1>1, <1>2, <1>8, OthersAgree DEF Free, SameEngine

\* pause_all and shutdown: whatever the engine runs is paused, then the rows.
LEMMA PauseAllAgrees ==
    ASSUME Agreement, Reliable, PauseAll
    PROVE  \A u \in Tasks : Agrees(u)'
  <1> TAKE u \in Tasks
  <1>1. PICK S \in SUBSET Tasks : PersistRows(PausedRows(Tasks, "usuario"), PausedRows(S, "usuario"))
    BY DEF PauseAll
  <1>2. /\ Free /\ SameEngine /\ UNCHANGED <<pc, snap, todo, confirmed, revoked>>
        /\ dl' = IF proc = "on" THEN Paused(dl, Gid) ELSE dl
    BY SentReliable DEF PauseAll, Unrelated, opFrame, tickVars, Reliable
  <1>3. /\ row'[u].gid = row[u].gid
        /\ row'[u].state \in {row[u].state, "pausado"}
        /\ row'[u].state # row[u].state => row[u].state \in Queued
    BY <1>1 DEF PersistRows, PausedRows, MkRow
  <1>4. Quiet(dl, dl')
    BY <1>2, TaskParts, EffectsQuiet DEF Quiet
  <1>5. RunsIn(dl', u) \subseteq RunsIn(dl, u)
    BY <1>4 DEF RunsIn, Quiet
  <1>6. proc = "on" => RunsIn(dl', u) = {}
    BY <1>2, TaskParts, EffectsStill DEF RunsIn
  <1>7. OwnGid(u)' /\ OneRuns(u)' /\ Late(u)'
    BY <1>2, <1>3, <1>5, TaskParts DEF OwnGid, OneRuns, Late, Free, Agrees
  <1>8. Matched(u)'
    BY <1>2, <1>6 DEF Matched, InCharge, SameEngine, Suits
  <1>9. Revocation(u)'
    BY <1>2, <1>3, <1>5, TaskParts DEF Revocation, Absent, Queued
  <1> QED BY <1>7, <1>8, <1>9 DEF Agrees

LEMMA ShutdownAgrees ==
    ASSUME Agreement, Reliable, Shutdown
    PROVE  \A u \in Tasks : Agrees(u)'
  <1> TAKE u \in Tasks
  <1>1. PICK S : row' = PausedRows(S, "sistema")
    BY DEF Shutdown
  <1>2. PICK d \in Sent(proc, dl, Paused(dl, Gid)) : StopEngine(d)
    BY DEF Shutdown
  <1>3. /\ backend' = "down" /\ UNCHANGED <<confirmed, revoked>>
        /\ d = IF proc = "on" THEN Paused(dl, Gid) ELSE dl
    BY SentReliable DEF Shutdown, Unrelated, Reliable
  <1>4. /\ row'[u].gid = row[u].gid
        /\ row'[u].state \in {row[u].state, "pausado"}
        /\ row'[u].state # row[u].state => row[u].state \in Queued
    BY <1>1 DEF PausedRows, MkRow
  <1>5. RunsIn(dl', u) \subseteq RunsIn(dl, u)
    BY <1>2, <1>3 DEF RunsIn, StopEngine, NoDownloads, Running
  <1>6. OwnGid(u)' /\ OneRuns(u)' /\ Late(u)' /\ Matched(u)'
    BY <1>3, <1>4, <1>5, TaskParts DEF OwnGid, OneRuns, Late, Agrees, Matched, InCharge
  <1>7. Revocation(u)'
    BY <1>3, <1>4, <1>5, TaskParts DEF Revocation, Absent, Queued
  <1> QED BY <1>6, <1>7 DEF Agrees

\* resume_all, RestartEngine and the beginning of a tick only start aria2c.
LEMMA EnsuringAgrees ==
    ASSUME Agreement, ResumeAll \/ RestartEngine \/ TickBegin
    PROVE  \A u \in Tasks : Agrees(u)'
  <1>1. PICK e \in Ensured : Engine(e) /\ dl' = e.dl
    BY DEF ResumeAll, RestartEngine, TickBegin
  <1>2. /\ Quiet(dl, e.dl)
        /\ e.proc = "on" => \/ proc = "on" /\ e.dl = dl
                            \/ \A g \in Gid : e.dl[g] \notin Running
    BY EnsuredLeaves DEF Agreement, EngineSound
  <1>3. /\ UNCHANGED <<row, confirmed, revoked, snap, backend>> /\ pc' # "sync" /\ backend = "up"
    BY DEF ResumeAll, RestartEngine, TickBegin, StaysUp, Unrelated, opFrame, tickVars, Free
  <1> QED BY <1>1, <1>2, <1>3, QuietAgree DEF InCharge, Engine

\* Steps that say nothing to the engine and save no row.
LEMMA SilentAgrees ==
    ASSUME Agreement,
           SetAutoResume \/ TellActive \/ TellWaiting \/ ListTasksFails \/ Release
             \/ BackendDies \/ UNCHANGED vars
    PROVE  \A u \in Tasks : Agrees(u)'
  <1>1. UNCHANGED <<row, dl, proc, confirmed, revoked>> /\ backend' \in {backend, "down"}
    BY DEF SetAutoResume, TellActive, TellWaiting, ListTasksFails, Release, BackendDies, Die,
           vars, engineVars, serviceVars
  <1>2. backend' = "up" /\ pc' = "sync" =>
            backend = "up" /\ pc = "sync" /\ todo' \subseteq todo /\ snap' = snap
    BY DEF SetAutoResume, TellActive, TellWaiting, ListTasksFails, Release, BackendDies, Die,
           vars, serviceVars, tickVars
  <1>3. Quiet(dl, dl') /\ (InCharge' => InCharge)
    BY <1>1 DEF Quiet, InCharge
  <1> QED BY <1>1, <1>2, <1>3, QuietAgree

\* Steps of aria2, of its process and of a new backend start nothing.
LEMMA EnvironmentAgrees ==
    ASSUME Agreement, EngineMoves \/ EngineDies \/ BackendStart \/ PollFails
    PROVE  \A u \in Tasks : Agrees(u)'
  <1>1. UNCHANGED <<row, confirmed, revoked>>
    BY DEF EngineMoves, EngineDies, BackendStart, PollFails, serviceVars
  <1>2. Quiet(dl, dl') /\ (InCharge' => InCharge)
    <2>1. CASE EngineMoves
      BY <2>1, EngineMovesStill DEF Agreement, EngineMoves, serviceVars, InCharge
    <2>2. CASE EngineDies
      BY <2>2 DEF EngineDies, NoDownloads, Quiet, Running, InCharge
    <2>3. CASE BackendStart
      BY <2>3 DEF BackendStart, Quiet, InCharge
    <2>4. CASE PollFails
      BY <2>4 DEF PollFails, engineVars, StopEngine, NoDownloads, Quiet, Running, InCharge
    <2> QED BY <2>1, <2>2, <2>3, <2>4
  <1>3. backend' = "up" /\ pc' = "sync" =>
            backend = "up" /\ pc = "sync" /\ todo' \subseteq todo /\ snap' = snap
    BY DEF EngineMoves, EngineDies, BackendStart, PollFails, serviceVars, tickVars
  <1> QED BY <1>1, <1>2, <1>3, QuietAgree

\* The last list completes the tick's picture; the downloads it then pauses
\* are nobody's.
LEMMA TellStoppedAgrees ==
    ASSUME Agreement, Reliable, TellStopped
    PROVE  \A u \in Tasks : Agrees(u)'
  <1> TAKE u \in Tasks
  <1> DEFINE g == row[u].gid
  <1>1. /\ backend = "up" /\ pc = "stopped" /\ proc = "on"
        /\ UNCHANGED <<proc, row, revoked, backend, confirmed>>
        /\ snap' = Listed(dl, Stopped)
    BY DEF TellStopped
  <1>2. PICK S : dl' = Paused(dl, S)
    BY SentReliable DEF TellStopped, Reliable
  <1>3. dl \in Downloads /\ Quiet(dl, dl')
    BY <1>2, TaskParts, EffectsQuiet
  <1>4. RunsIn(dl', u) \subseteq RunsIn(dl, u)
    BY <1>3 DEF RunsIn, Quiet
  <1>5. \A h \in Gid : snap'[h] = Reported(dl[h])
    <2>1. \A h \in Gid : snap[h] = Told({"active", "waiting", "paused"}, h)
      BY <1>1 DEF Agreement, EngineSound, Polled, TellStopped
    <2>2. \A h \in Gid : Reported(dl[h]) \in {"active", "waiting", "paused", "none"} \cup Stopped
      BY <1>3 DEF Downloads, Status, Reported, Stopped
    <2> QED BY <1>1, <2>1, <2>2 DEF Listed, Told, Stopped
  <1>6. Suits(row[u], RunsIn(dl, u))
    BY <1>1, TaskParts DEF TellStopped
  <1>7. OwnGid(u)' /\ OneRuns(u)' /\ Matched(u)' /\ Revocation(u)'
    BY <1>1, <1>4, <1>6, TaskParts DEF OwnGid, OneRuns, Matched, Suits, Revocation, Agrees
  <1>8. Late(u)'
    <2>1. g \in RunsIn(dl, u) => Seen(u)' \in Running
      BY <1>1, <1>5, EngineAssumption DEF Seen, RunsIn, Reported, Running
    <2>2. RunsIn(dl', u) # {} => g \in RunsIn(dl, u)
      BY <1>4, <1>6 DEF Suits
    <2>3. ~SlowHalt /\ row[u].state = "pausado" => Seen(u)' \notin Running
      <3> SUFFICES ASSUME ~SlowHalt, row[u].state = "pausado", Seen(u)' \in Running PROVE FALSE
        OBVIOUS
      <3>1. g \in Own(u) /\ Seen(u)' = Reported(dl[g])
        BY <1>1, <1>5, TaskParts DEF Seen, Running, Own
      <3>2. dl[g] \in Running
        BY <3>1 DEF Reported, Agreement, EngineSound, Prompt, Halting, Own
      <3>3. g \in RunsIn(dl, u)
        BY <3>1, <3>2 DEF RunsIn, Own
      <3> QED BY <1>6, <3>3 DEF Suits
    <2> QED BY <1>1, <2>1, <2>2, <2>3 DEF Late
  <1> QED BY <1>7, <1>8 DEF Agrees

\* The tick brings one row and the engine together.  What it knows of the
\* download may be late by then, but a download it saw stopped has not started.
LEMMA SyncTaskAgrees ==
    ASSUME Agreement, Reliable, NEW t \in Tasks, SyncTask(t)
    PROVE  \A u \in Tasks : Agrees(u)'
  <1> DEFINE g == row[t].gid
  <1>1. /\ backend = "up" /\ pc = "sync" /\ t \in todo /\ SameEngine
        /\ todo' = todo \ {t} /\ UNCHANGED <<pc, snap, confirmed, revoked>>
    BY DEF SyncTask
  <1>2. /\ Seen(t) \notin Running => RunsIn(dl, t) = {}
        /\ proc = "on" => Suits(row[t], RunsIn(dl, t))
        /\ g \in Own(t) \cup {NoGid}
    BY <1>1, TaskParts DEF Agrees, Late
  <1>3. row[t].state \in Queued \cup {"pausado"} => Revocation(t)'
    BY <1>1, TaskParts DEF Revocation, Queued, Absent
  <1> DEFINE Fine == Agrees(t)' /\ \A u \in Tasks \ {t} : row'[u] = row[u]
  <1>4. ASSUME UNCHANGED row, StaysUp, RunsIn(dl', t) \subseteq RunsIn(dl, t) PROVE Fine
    <2>1. InCharge' => InCharge
      BY <1>1, <1>4 DEF InCharge, SameEngine
    <2> QED BY <1>1, <1>4, <2>1, TaskParts, Bystander
  <1>5. ASSUME row[t].state \in Queued \cup {"pausado"}, NEW w, Persist(t, w),
               w.gid \in Own(t) \cup {NoGid},
               proc # "on" => RunsIn(dl', t) \subseteq RunsIn(dl, t),
               proc = "on" => Suits(w, RunsIn(dl', t))
        PROVE  Fine
    <2>1. proc' = "on" => Suits(w, RunsIn(dl', t))
      BY <1>1, <1>5 DEF SameEngine
    <2>2. \/ RunsIn(dl', t) \subseteq RunsIn(dl, t)
          \/ \E x : RunsIn(dl', t) \subseteq {x}
      BY <1>5 DEF Suits
    <2> QED BY <1>1, <1>3, <1>5, <2>1, <2>2, TaskParts, WrittenReliable, Actor
  <1>6. ASSUME SyncSettled(t) PROVE Fine
    BY <1>4, <1>6 DEF SyncSettled
  <1>7. ASSUME SyncAbsent(t) PROVE Fine
    <2> DEFINE s == IF ShouldRun(t) THEN "waiting" ELSE "paused"
               why == IF row[t].state = "pausado" THEN row[t].reason ELSE "sistema"
               after(h) == IF ShouldRun(t) THEN MkRow("aguardando", "none", h)
                           ELSE MkRow("pausado", why, h)
    <2>1. PICK r \in Submit(proc, dl, t, s) :
             /\ dl' = r.dl
             /\ IF r.ok THEN Persist(t, after(r.gid)) ELSE UNCHANGED row /\ StaysUp
      BY <1>7 DEF SyncAbsent
    <2>2. row[t].state \in Queued \cup {"pausado"} /\ Seen(t) = "none"
      BY <1>7 DEF SyncAbsent
    <2>3. s \in Status \ Halting
      BY DEF Status, Halting
    <2>4. Conversed(proc, dl, t, r)
      BY <1>2, <2>1, <2>3, TaskParts, SubmitRuns DEF Reliable
    <2>5. proc = "on" => /\ RunsIn(r.dl, t) \subseteq RunsIn(dl, t) \cup {r.gid}
                         /\ s \notin Running => RunsIn(r.dl, t) \subseteq RunsIn(dl, t)
      BY <1>2, <2>1, <2>3, TaskParts, SubmitRuns DEF Reliable
    <2>6. RunsIn(dl, t) = {}
      BY <1>2, <2>2 DEF Running
    <2>7. proc # "on" => RunsIn(dl', t) \subseteq RunsIn(dl, t)
      BY <2>1, <2>4 DEF Conversed
    <2>8. CASE r.ok
      <3> DEFINE w == after(r.gid)
      <3>1. w.gid = r.gid /\ w.state = IF ShouldRun(t) THEN "aguardando" ELSE "pausado"
        BY DEF MkRow
      <3>2. proc = "on" => Suits(w, RunsIn(dl', t))
        BY <2>1, <2>5, <2>6, <3>1 DEF Suits, Queued, Running
      <3>3. Persist(t, w) /\ w.gid \in Own(t) \cup {NoGid}
        BY <2>1, <2>4, <2>8, <3>1 DEF Conversed
      <3> HIDE DEF w
      <3> QED BY <1>5, <2>2, <2>7, <3>2, <3>3
    <2>9. CASE ~r.ok
      <3>1. proc # "on"
        BY <2>4, <2>9 DEF Conversed
      <3> QED BY <1>4, <2>1, <2>7, <2>9, <3>1
    <2> QED BY <2>8, <2>9
  <1>8. ASSUME SyncRelease(t) PROVE Fine
    <2> DEFINE w == MkRow("aguardando", "none", g)
    <2>1. \/ dl' = dl
          \/ proc = "on" /\ dl' = Unpaused(dl, g)
      BY <1>8, SentReliable DEF SyncRelease, Reliable
    <2>2. RunsIn(dl', t) \subseteq RunsIn(dl, t) \cup {g}
      BY <2>1, TaskParts DEF RunsIn, Unpaused, Downloads
    <2>3. w.gid = g /\ w.state = "aguardando"
      BY DEF MkRow
    <2>4. proc = "on" => Suits(w, RunsIn(dl', t))
      BY <1>2, <2>2, <2>3 DEF Suits, Queued
    <2>5. Persist(t, w) /\ row[t].state \in Queued \cup {"pausado"}
      BY <1>8 DEF SyncRelease
    <2>6. w.gid \in Own(t) \cup {NoGid}
      BY <1>2, <2>3
    <2> HIDE DEF w
    <2> QED BY <1>5, <2>1, <2>4, <2>5, <2>6
  <1>9. ASSUME SyncHold(t) PROVE Fine
    <2> DEFINE w == MkRow("pausado", "sistema", g)
    <2>1. dl' = IF proc = "on" THEN Paused(dl, {g}) ELSE dl
      BY <1>9, SentReliable DEF SyncHold, Reliable
    <2>2. proc = "on" => RunsIn(dl', t) = {}
      <3>1. Quiet(dl, Paused(dl, {g})) /\ (g \in Gid => Paused(dl, {g})[g] \notin Running)
        BY TaskParts, EffectsQuiet, EffectsStill
      <3>2. proc = "on" => RunsIn(dl, t) \subseteq {g}
        BY <1>2 DEF Suits
      <3> HIDE DEF g
      <3> QED BY <2>1, <3>1, <3>2 DEF RunsIn, Quiet
    <2>3. w.gid = g
      BY DEF MkRow
    <2>4. Persist(t, w) /\ row[t].state \in Queued \cup {"pausado"}
      BY <1>9 DEF SyncHold
    <2>5. (proc = "on" => Suits(w, RunsIn(dl', t))) /\ w.gid \in Own(t) \cup {NoGid}
      BY <1>2, <2>2, <2>3 DEF Suits
    <2> HIDE DEF w
    <2> QED BY <1>5, <2>1, <2>4, <2>5
  <1>10. ASSUME SyncFollow(t) PROVE Fine
    <2> DEFINE w == Followed(t)
    <2>1. Persist(t, w) /\ row[t].state \in Queued \cup {"pausado"} /\ Seen(t) # "none"
      BY <1>10 DEF SyncFollow
    <2>2. dl' \in {dl, Forgot(dl, {g})}
      BY <1>10, SentReliable DEF SyncFollow, Reliable
    <2>3. RunsIn(dl', t) \subseteq RunsIn(dl, t)
      <3>1. Quiet(dl, Forgot(dl, {g}))
        BY TaskParts, EffectsQuiet
      <3> QED BY <2>2, <3>1 DEF RunsIn, Quiet
    <2>4. Seen(t) \in {"waiting", "active", "paused", "complete", "error", "removed"}
      BY <2>1, TaskParts, RowGidType DEF Seen, TypeOK, Reports, Status, GidOrNone
    <2>5. w.gid = g /\ (Seen(t) \in Running => w.state \in Queued)
      BY <2>4 DEF Followed, MkRow, Queued, Running
    <2>6. (proc = "on" => Suits(w, RunsIn(dl', t))) /\ w.gid \in Own(t) \cup {NoGid}
      BY <1>2, <2>3, <2>5 DEF Suits, Queued
    <2> HIDE DEF w
    <2> QED BY <1>5, <2>1, <2>3, <2>6
  <1>11. Fine
    BY <1>6, <1>7, <1>8, <1>9, <1>10 DEF SyncTask
  <1>12. Only(t, dl, dl')
    BY TalksOfTick
  <1> HIDE DEF Fine
  <1>13. todo' \subseteq todo
    BY <1>1
  <1> QED BY <1>1, <1>11, <1>12, <1>13, OthersAgree DEF SameEngine, Fine

\* A hash job finds the task as it left it, or leaves it alone.
LEMMA VerificationDoneAgrees ==
    ASSUME Agreement, Reliable, NEW t \in Tasks, VerificationDone(t)
    PROVE  \A u \in Tasks : Agrees(u)'
  <1>1. /\ Free /\ SameEngine /\ UNCHANGED <<dl, pc, snap, todo, confirmed, revoked>>
    BY DEF VerificationDone, tickVars
  <1>2. CASE row[t].state = "verificando"
    <2>1. PICK s \in {"concluido", "erro"} : Persist(t, [row[t] EXCEPT !.state = s])
      BY <1>2 DEF VerificationDone
    <2> DEFINE w == [row[t] EXCEPT !.state = s]
    <2>2. w.gid = row[t].gid /\ w.state = s
      BY TaskParts, RowGidType DEF Row
    <2>3. proc = "on" => RunsIn(dl, t) = {}
      BY <1>1, <1>2, TaskParts DEF Suits, Free, Queued
    <2>4. proc' = "on" => Suits(w, RunsIn(dl', t))
      BY <1>1, <2>3 DEF SameEngine, Suits
    <2>5. Revocation(t)'
      BY <1>1, <1>2, TaskParts DEF Revocation, Absent
    <2>6. Persist(t, w) /\ w.gid \in Own(t) \cup {NoGid}
      BY <2>1, <2>2, TaskParts
    <2> HIDE DEF w
    <2>7. Agrees(t)' /\ \A u \in Tasks \ {t} : row'[u] = row[u]
      BY <1>1, <2>4, <2>5, <2>6, TaskParts, Actor, WrittenReliable DEF Free
    <2>8. Only(t, dl, dl')
      BY <1>1 DEF Only
    <2> QED BY <1>1, <2>7, <2>8, OthersAgree DEF Free, SameEngine
  <1>3. CASE row[t].state # "verificando"
    <2>1. UNCHANGED row /\ StaysUp
      BY <1>3 DEF VerificationDone
    <2>2. Quiet(dl, dl') /\ (InCharge' => InCharge)
      BY <1>1, <2>1 DEF Quiet, InCharge, SameEngine, StaysUp
    <2> QED BY <1>1, <2>1, <2>2, QuietAgree DEF Free, StaysUp
  <1> QED BY <1>2, <1>3

-----------------------------------------------------------------------------
(* The theorems.                                                           *)

LEMMA AgreementInit == Init => Agreement
  <1> SUFFICES ASSUME Init, TypeOK PROVE Agreement
    BY InitTyped
  <1>1. EngineSound
    BY DEF Init, EngineInit, EngineSound, Gone, Owned, Prompt, Polled, NoDownloads, Halting
  <1>2. ASSUME NEW t \in Tasks PROVE Agrees(t)
    <2>1. RunsIn(dl, t) = {}
      BY DEF Init, EngineInit, NoDownloads, RunsIn, Running
    <2>2. row[t].gid = NoGid
      BY DEF Init, MkRow
    <2> QED BY <2>1, <2>2
            DEF Init, Agrees, OwnGid, OneRuns, Matched, Suits, Revocation, Late
  <1> QED BY <1>1, <1>2 DEF Agreement

LEMMA AgreementStep ==
    ASSUME Agreement, ResumingPaused, Reliable, TypeOK', [Next]_vars
    PROVE  Agreement'
  <1>1. EngineSound'
    BY StepSound
  <1>2. \A u \in Tasks : Agrees(u)'
    <2>1. CASE Operation
      BY <2>1, AddAgrees, StoppedAgrees, ResumeAgrees, RetryAgrees, CancelByRequestKeyAgrees,
         ChangeConnectionsAgrees, PauseAllAgrees, EnsuringAgrees, SilentAgrees, ShutdownAgrees
         DEF Operation
    <2>2. ASSUME NEW t \in Tasks, ResumeAllTask(t) PROVE \A u \in Tasks : Agrees(u)'
      <3>1. row[t].state = "pausado"
        BY <2>2 DEF ResumingPaused, ResumeAllTask
      <3> QED BY <2>2, <3>1, ResumeAllTaskAgrees
    <2>3. CASE Tick
      BY <2>2, <2>3, EnsuringAgrees, SilentAgrees, EnvironmentAgrees, TellStoppedAgrees,
         SyncTaskAgrees DEF Tick
    <2>4. CASE \E t \in Tasks : VerificationDone(t)
      BY <2>4, VerificationDoneAgrees
    <2>5. CASE EngineMoves \/ EngineDies \/ BackendDies \/ BackendStart \/ UNCHANGED vars
      BY <2>5, EnvironmentAgrees, SilentAgrees
    <2> QED BY <2>1, <2>3, <2>4, <2>5 DEF Next
  <1> QED BY <1>1, <1>2 DEF Agreement

\* Rows and engine agree in every execution in which aria2 answers every call
\* and does not move between the lists of one tick, and SQLite takes every
\* statement; deaths of either process, failed starts of aria2c and slow pauses
\* are all allowed.
THEOREM RowsAndEngineAgree ==
    ASSUME Reliable PROVE Spec => []Agreement
  <1>1. Agreement /\ ResumingPaused /\ TypeOK' /\ [Next]_vars => Agreement'
    BY AgreementStep
  <1> QED BY <1>1, AgreementInit, TypeCorrect, ResumingInvariant, PTL DEF Spec

\* No task is ever transferred twice at once: add, the tick's resubmissions,
\* retry and the GIDs aria2 chooses never add up to two transfers of one task
\* (Service::submit, Service::tick).
THEOREM NeverTwice ==
    ASSUME Reliable PROVE Spec => []OneTransfer
  <1>1. Agreement => OneTransfer
    BY DEF Agreement, Agrees, OneRuns, RunsIn, OneTransfer, RunningGids
  <1> QED BY <1>1, RowsAndEngineAgree, PTL

\* What the engine runs for a task is the download its row names, so pause,
\* cancel and change_connections, which go by aria2_gid, reach it.
THEOREM RowsReachDownloads ==
    ASSUME Reliable PROVE Spec => []RunningIsMapped
  <1>1. Agreement => RunningIsMapped
    BY DEF Agreement, Agrees, Matched, Suits, RunsIn, RunningIsMapped, RunningGids
  <1> QED BY <1>1, RowsAndEngineAgree, PTL

\* Nothing is transferred for a task shown as finished, cancelled, failed or
\* deleted, or whose file is being hashed (cancel, remove_from_history, the
\* tick's reading of "complete", spawn_verification).
THEOREM SettledRunNothing ==
    ASSUME Reliable PROVE Spec => []SettledStopped
  <1>1. (Terminal \cup Absent \cup {"verificando"}) \cap (Queued \cup {"pausado"}) = {}
    BY DEF Terminal, Absent, Queued
  <1>2. Agreement => SettledStopped
    BY <1>1 DEF Agreement, Agrees, Matched, Suits, RunsIn, SettledStopped, RunningGids
  <1> QED BY <1>2, RowsAndEngineAgree, PTL

\* Once cancel_by_request_key told Firefox that the handoff is revoked, the
\* engine transfers nothing for it, through ticks, deaths and restarts, until
\* the user retries it; aria2c must start when asked to, or the process a dead
\* backend left behind goes on unseen.
THEOREM RevokedStaysStopped ==
    ASSUME Reliable, ~SpawnFails PROVE Spec => []ConfirmedStopped
  <1>1. Agreement => ConfirmedStopped
    BY DEF Agreement, TypeOK, Agrees, Revocation, RunsIn, ConfirmedStopped, RunningGids
  <1> QED BY <1>1, RowsAndEngineAgree, PTL

\* A paused task is not transferred, when aria2 stops a download before it
\* answers the pause.
THEOREM PausedRunNothing ==
    ASSUME Reliable, ~SlowHalt PROVE Spec => []PausedStopped
  <1>1. Agreement => PausedStopped
    BY DEF Agreement, Agrees, Matched, Suits, RunsIn, PausedStopped, RunningGids
  <1> QED BY <1>1, RowsAndEngineAgree, PTL

\* Only the tick's own handling of a task changes a row while it goes through
\* them.
LEMMA TickKeepsPause ==
    ASSUME Agreement, ~SlowHalt, [Next]_vars, NEW t \in Tasks,
           pc = "sync", row[t].state = "pausado", row[t].reason = "usuario"
    PROVE  \/ row'[t].state = "pausado" /\ row'[t].reason = "usuario"
           \/ row'[t].state \in Terminal \cup {"verificando"}
  <1>1. ~Operation /\ \A u \in Tasks : ~VerificationDone(u) /\ ~ResumeAllTask(u)
    BY DEF Operation, Add, Pause, Resume, Cancel, Retry, CancelByRequestKey,
           RemoveFromHistory, ChangeConnections, PauseAll, ResumeAll, SetAutoResume,
           RestartEngine, Shutdown, Free, VerificationDone, ResumeAllTask
  <1>2. CASE \E u \in Tasks : SyncTask(u)
    <2>1. PICK u \in Tasks : SyncTask(u)
      BY <1>2
    <2>2. CASE u # t
      <3>1. UNCHANGED row \/ \E r : Persist(u, r)
        BY <2>1 DEF SyncTask, SyncSettled, SyncAbsent, SyncRelease, SyncHold, SyncFollow
      <3> QED BY <2>2, <3>1 DEF Persist, PersistRows, Agreement, TypeOK
    <2>3. CASE u = t
      <3>1. ~ShouldRun(t) /\ ~WantsRun(t)
        BY DEF ShouldRun, WantsRun
      <3>2. Seen(t) \notin Running
        BY <2>1, <2>3 DEF Agreement, Agrees, Late, SyncTask
      <3>3. CASE SyncAbsent(t)
        <4>1. UNCHANGED row \/ \E g : Persist(t, MkRow("pausado", "usuario", g))
          BY <3>1, <3>3 DEF SyncAbsent
        <4> QED BY <4>1 DEF Persist, PersistRows, MkRow, Agreement, TypeOK
      <3>4. CASE SyncFollow(t)
        <4>1. Seen(t) \in {"paused", "complete", "error", "removed"}
          BY <3>2, <3>4, RowGidType
             DEF SyncFollow, Seen, Agreement, TypeOK, Reports, Status, GidOrNone, Running
        <4>2. \/ Followed(t).state = "pausado" /\ Followed(t).reason = "usuario"
              \/ Followed(t).state \in Terminal \cup {"verificando"}
          BY <4>1 DEF Followed, MkRow, Terminal
        <4>3. Persist(t, Followed(t))
          BY <3>4 DEF SyncFollow
        <4> QED BY <4>2, <4>3 DEF Persist, PersistRows, Agreement, TypeOK
      <3>5. ~SyncRelease(t) /\ ~SyncHold(t)
        BY <3>1 DEF SyncRelease, SyncHold, Queued
      <3> QED BY <2>1, <2>3, <3>3, <3>4, <3>5 DEF SyncTask, SyncSettled
    <2> QED BY <2>2, <2>3
  <1>3. CASE UNCHANGED row
    BY <1>3
  <1>4. ASSUME Tick, ~\E u \in Tasks : SyncTask(u) PROVE UNCHANGED row
    BY <1>1, <1>4 DEF Tick, TickBegin, TellActive, TellWaiting, TellStopped, PollFails,
                      ListTasksFails, Release
  <1>5. ASSUME EngineMoves \/ EngineDies \/ BackendDies \/ BackendStart \/ UNCHANGED vars
        PROVE  UNCHANGED row
    BY <1>5 DEF EngineMoves, EngineDies, BackendDies, BackendStart, serviceVars, vars
  <1> QED BY <1>1, <1>2, <1>3, <1>4, <1>5 DEF Next

\* No tick puts a task the user paused back in the queue or makes the pause one
\* of the system's, when aria2 stops a download before it answers the pause
\* (Service::tick; "pausas do usuario sao sempre respeitadas").
THEOREM UserPauseRespected ==
    ASSUME Reliable, ~SlowHalt PROVE Spec => UserPauseKept
  <1> DEFINE Kept == \A t \in Tasks :
                 pc = "sync" /\ row[t].state = "pausado" /\ row[t].reason = "usuario" =>
                     \/ row'[t].state = "pausado" /\ row'[t].reason = "usuario"
                     \/ row'[t].state \in Terminal \cup {"verificando"}
  <1>1. Agreement /\ [Next]_vars => [Kept]_vars
    BY TickKeepsPause
  <1>2. UserPauseKept <=> [][Kept]_vars
    BY DEF UserPauseKept
  <1> HIDE DEF Kept
  <1> QED BY <1>1, <1>2, RowsAndEngineAgree, PTL DEF Spec

-----------------------------------------------------------------------------
(* What "resume automatically" off holds back.                             *)
(*                                                                         *)
(* A held task rests in the engine, in what the tick has collected of it   *)
(* and in the session; and while its row is in the queue, the reconciling  *)
(* that will pause that row is still to come (Awaits), so no tick submits  *)
(* it to run.                                                              *)

Rest == {"none", "paused"} \cup Stopped

Resting(d, t) == \A g \in Own(t) : d[g] \in Rest

Awaits(t) == IF pc = "sync" THEN reconcile /\ t \in todo ELSE needsReconcile

HeldFits(t) ==
    /\ row[t].state # "novo"
    /\ Resting(dl, t)
    /\ backend = "up" => Resting(snap, t)
    /\ InCharge /\ row[t].state \in Queued => Awaits(t)

HeldInv ==
    /\ held \subseteq Tasks
    /\ autoResume => held = {}
    /\ \A t \in held : HeldFits(t)

\* A row that exists goes on existing, and only one of the queue is in the queue.
NoNewQueued(t) ==
    /\ row[t].state # "novo" => row'[t].state # "novo"
    /\ row'[t].state \in Queued => row[t].state \in Queued

\* What rested in d rests in d2.
Rests(d, d2, t) == \A g \in Own(t) : d[g] \in Rest => d2[g] \in Rest

LEMMA EffectsRest ==
    ASSUME NEW d \in Downloads, NEW G, NEW t \in Tasks
    PROVE  /\ Rests(d, Paused(d, G), t) /\ Rests(d, Removed(d, G), t)
           /\ Rests(d, Forgot(d, G), t) /\ Rests(d, Halted(d, G), t)
           /\ Resting(Restored(G), t) /\ Resting(NoDownloads, t)
  <1>1. \A s \in Rest : /\ AfterPause(s) \in Rest /\ AfterRemove(s) \in Rest
                        /\ AfterForget(s) \in Rest /\ AfterHalt(s) \in Rest
    BY DEF Rest, Stopped, AfterPause, AfterRemove, AfterForget, AfterHalt
  <1>2. Rests(d, Paused(d, G), t) /\ Rests(d, Removed(d, G), t)
    BY <1>1 DEF Rests, Paused, Removed, OnGids, Own
  <1>3. Rests(d, Forgot(d, G), t) /\ Rests(d, Halted(d, G), t)
    BY <1>1 DEF Rests, Forgot, Halted, OnGids, Own
  <1>4. Resting(Restored(G), t) /\ Resting(NoDownloads, t)
    BY DEF Resting, Restored, NoDownloads, Rest, Own
  <1> QED BY <1>2, <1>3, <1>4

\* A step that neither puts the row of a held task in the queue nor starts its
\* download, and leaves the tick where it is.
LEMMA Undisturbed ==
    ASSUME NEW u \in Tasks, HeldFits(u), Rests(dl, dl', u), NoNewQueued(u),
           proc' = "on" => proc = "on",
           backend' = "up" => backend = "up",
           UNCHANGED <<snap, pc, reconcile, needsReconcile>>,
           pc = "sync" /\ u \in todo => u \in todo' \/ ~InCharge' \/ row'[u].state \notin Queued
    PROVE  HeldFits(u)'
  <1>1. Resting(dl', u)
    BY DEF HeldFits, Resting, Rests
  <1>2. backend' = "up" => Resting(snap', u)
    BY DEF HeldFits
  <1>3. InCharge' /\ row'[u].state \in Queued => Awaits(u)'
    BY DEF HeldFits, InCharge, NoNewQueued, Awaits
  <1> QED BY <1>1, <1>2, <1>3 DEF HeldFits, NoNewQueued

LEMMA WrittenNotQueued ==
    ASSUME TypeOK, NEW t \in Tasks, NEW r, Persist(t, r), r.state \notin Queued \cup {"novo"},
           NEW u \in Tasks
    PROVE  NoNewQueued(u)
  BY DEF Persist, PersistRows, TypeOK, NoNewQueued

LEMMA OnlyRests ==
    ASSUME NEW t \in Tasks, NEW u \in Tasks \ {t}, NEW d, NEW d2, Only(t, d, d2)
    PROVE  Rests(d, d2, u)
  BY DEF Only, Rests, Own

\* The operations on one task that do not run it.
LEMMA HeldThroughOne ==
    ASSUME Agreement, Reliable, NEW t \in Tasks, NEW u \in Tasks, HeldFits(u),
           Add(t) \/ Pause(t) \/ Cancel(t) \/ CancelByRequestKey(t) \/ RemoveFromHistory(t)
             \/ ChangeConnections(t)
    PROVE  HeldFits(u)'
  <1>1. TypeOK /\ dl \in Downloads /\ RpcFaults = {} /\ OwnGid(t)
    BY DEF Agreement, TypeOK, EngineTypeOK, Reliable, Agrees
  <1>2. UNCHANGED <<snap, pc, reconcile, todo>> /\ SameEngine /\ Free
    BY DEF Add, Pause, Cancel, CancelByRequestKey, RemoveFromHistory, ChangeConnections,
           Unrelated, opFrame, tickVars
  <1>3. NoNewQueued(u)
    <2>1. ASSUME Add(t) PROVE NoNewQueued(u)
      <3>1. u # t
        BY <2>1 DEF Add, HeldFits
      <3>2. row'[u] = row[u]
        BY <1>1, <2>1, <3>1 DEF Add, PersistRows, TypeOK
      <3> QED BY <3>2 DEF NoNewQueued
    <2>2. ASSUME UNCHANGED row PROVE NoNewQueued(u)
      BY <2>2 DEF NoNewQueued
    <2>3. ASSUME NEW s \in {"pausado", "cancelado", "apagado"}, NEW w, NEW g,
                 Persist(t, MkRow(s, w, g))
          PROVE  NoNewQueued(u)
      <3>1. MkRow(s, w, g).state \notin Queued \cup {"novo"}
        BY DEF MkRow, Queued
      <3> QED BY <1>1, <2>3, <3>1, WrittenNotQueued
    <2>4. ASSUME Pause(t) \/ Cancel(t) \/ RemoveFromHistory(t) PROVE NoNewQueued(u)
      BY <2>3, <2>4 DEF Pause, Cancel, RemoveFromHistory
    <2>5. ASSUME CancelByRequestKey(t) PROVE NoNewQueued(u)
      BY <2>2, <2>3, <2>5 DEF CancelByRequestKey, CancelAbsent, CancelCompleted,
                              CancelUnsubmitted, CancelInEngine, ConfirmCancelled
    <2>6. ASSUME ChangeConnections(t) PROVE NoNewQueued(u)
      BY <2>2, <2>6 DEF ChangeConnections
    <2> QED BY <2>1, <2>4, <2>5, <2>6
  <1>4. Rests(dl, dl', u)
    <2>1. CASE u # t
      <3>1. Only(t, dl, dl')
        BY TalksOfOne
      <3> QED BY <2>1, <3>1, OnlyRests
    <2>2. CASE u = t
      <3> DEFINE g == row[t].gid
      <3>1. \A d2 : \A x \in Sent(proc, dl, d2) : x = dl \/ x = d2
        BY <1>1, SentReliable
      <3>2. Rests(dl, dl, t)
        BY DEF Rests
      <3>3. ~Add(t)
        BY <2>2 DEF Add, HeldFits
      <3>4. ASSUME Pause(t) \/ Cancel(t) \/ RemoveFromHistory(t) PROVE Rests(dl, dl', t)
        <4>1. dl' \in {dl, Paused(dl, {g}), Removed(dl, {g}), Forgot(dl, {g})}
          BY <3>1, <3>4 DEF Pause, Cancel, RemoveFromHistory
        <4> QED BY <1>1, <3>2, <4>1, EffectsRest
      <3>5. ASSUME CancelByRequestKey(t) PROVE Rests(dl, dl', t)
        <4>1. CASE UNCHANGED dl
          BY <3>2, <4>1
        <4>2. CASE CancelInEngine(t)
          <5>1. PICK d1 \in Sent(proc, dl, Removed(dl, {g})) : dl' \in {d1, Halted(d1, {g})}
            BY <4>2 DEF CancelInEngine
          <5>2. d1 \in Downloads /\ Rests(dl, d1, t)
            BY <1>1, <3>1, <3>2, EffectsRest, EffectsType
          <5>3. Rests(d1, dl', t)
            BY <5>1, <5>2, EffectsRest DEF Rests
          <5> QED BY <5>2, <5>3 DEF Rests
        <4> QED BY <3>5, <4>1, <4>2
                DEF CancelByRequestKey, CancelAbsent, CancelCompleted, CancelUnsubmitted
      <3>6. ~ChangeConnections(t)
        <4>1. g # NoGid => dl[g] \in Rest
          BY <1>1, <2>2 DEF HeldFits, Resting, OwnGid
        <4>2. \A s \in Rest : Reported(s) # "active"
          BY DEF Rest, Stopped, Reported
        <4> QED BY <4>1, <4>2 DEF ChangeConnections
      <3> QED BY <2>2, <3>3, <3>4, <3>5, <3>6
    <2> QED BY <2>1, <2>2
  <1> QED BY <1>2, <1>3, <1>4, Undisturbed DEF SameEngine, Free, HeldFits

\* What ensure_engine leaves of the downloads that rest.
LEMMA EnsuredRests ==
    ASSUME TypeOK, NEW e \in Ensured, NEW u \in Tasks
    PROVE  \/ proc = "on" /\ e.proc = "on" /\ e.dl = dl /\ e.reconcile = needsReconcile
           \/ proc # "on" /\ e.proc = "on" /\ Resting(e.dl, u) /\ e.reconcile
           \/ proc # "on" /\ e.proc # "on" /\ Rests(dl, e.dl, u)
  <1> DEFINE same == [proc |-> proc, dl |-> dl, session |-> session, reconcile |-> needsReconcile]
             saved == IF proc = "orphan" THEN Unfinished(dl) ELSE session
             started == [proc |-> "on", dl |-> Restored(saved), session |-> saved, reconcile |-> TRUE]
             noBinary == [same EXCEPT !.proc = IF proc = "dead" THEN "off" ELSE proc]
             notReady == [same EXCEPT !.proc = "off", !.dl = NoDownloads, !.session = saved]
  <1>1. e \in IF proc = "on" THEN {same} ELSE {started, noBinary, notReady}
    BY DEF Ensured
  <1>2. dl \in Downloads /\ Rests(dl, dl, u)
    BY DEF TypeOK, EngineTypeOK, Rests
  <1>3. Resting(Restored(saved), u) /\ Resting(NoDownloads, u)
    BY <1>2, EffectsRest
  <1>4. CASE e = same /\ proc = "on"
    BY <1>4
  <1>5. CASE e = started /\ proc # "on"
    BY <1>3, <1>5
  <1>6. CASE e = noBinary /\ proc # "on"
    BY <1>2, <1>6
  <1>7. CASE e = notReady /\ proc # "on"
    BY <1>3, <1>7 DEF Rests, Resting
  <1> QED BY <1>1, <1>4, <1>5, <1>6, <1>7

\* u is held: since earlier, or because this step starts the engine.
Holding(u) == IF EngineStarted THEN row[u].state \notin Absent ELSE HeldFits(u)

LEMMA HeldAfterEnsured ==
    ASSUME Agreement, NEW u \in Tasks, Holding(u), NEW e \in Ensured, Engine(e),
           Rests(e.dl, dl', u), NoNewQueued(u), backend = "up",
           pc \in {"boot", "idle"}, pc' # "sync", UNCHANGED snap
    PROVE  HeldFits(u)'
  <1>1. TypeOK /\ snap = NoDownloads
    BY DEF Agreement, EngineSound, Polled
  <1>2. Resting(snap', u)
    BY <1>1, EffectsRest DEF TypeOK, EngineTypeOK
  <1>3. CASE proc = "on" /\ e.proc = "on" /\ e.dl = dl /\ e.reconcile = needsReconcile
    <2>1. HeldFits(u)
      BY <1>3 DEF Holding, EngineStarted
    <2>2. Resting(dl', u)
      BY <1>3, <2>1 DEF HeldFits, Resting, Rests
    <2>3. row'[u].state \in Queued => Awaits(u)'
      BY <1>3, <2>1 DEF HeldFits, InCharge, NoNewQueued, Awaits, Engine
    <2> QED BY <1>2, <2>1, <2>2, <2>3 DEF HeldFits, NoNewQueued
  <1>4. CASE proc # "on" /\ e.proc = "on" /\ Resting(e.dl, u) /\ e.reconcile
    <2>1. row[u].state \notin Absent
      BY <1>4 DEF Holding, EngineStarted, Engine
    <2>2. Resting(dl', u)
      BY <1>4 DEF Resting, Rests
    <2>3. Awaits(u)'
      BY <1>4 DEF Awaits, Engine
    <2> QED BY <1>2, <2>1, <2>2, <2>3 DEF HeldFits, NoNewQueued, Absent
  <1>5. CASE proc # "on" /\ e.proc # "on" /\ Rests(dl, e.dl, u)
    <2>1. HeldFits(u)
      BY <1>5 DEF Holding, EngineStarted, Engine
    <2>2. Resting(dl', u)
      BY <1>5, <2>1 DEF HeldFits, Resting, Rests
    <2>3. ~InCharge'
      BY <1>5 DEF InCharge, Engine
    <2> QED BY <1>2, <2>1, <2>2, <2>3 DEF HeldFits, NoNewQueued
  <1> QED BY <1>1, <1>3, <1>4, <1>5, EnsuredRests

\* The steps in which the engine may be started.
LEMMA HeldThroughStart ==
    ASSUME Agreement, Reliable, NEW u \in Tasks, Holding(u), ~AskedFor(u),
           \/ \E t \in Tasks : Resume(t) \/ Retry(t)
           \/ ResumeAll \/ RestartEngine \/ TickBegin
    PROVE  HeldFits(u)'
  <1>1. TypeOK /\ RpcFaults = {}
    BY DEF Agreement, Reliable
  <1>2. CASE ResumeAll \/ RestartEngine \/ TickBegin
    <2>1. PICK e \in Ensured : Engine(e) /\ dl' = e.dl
      BY <1>2 DEF ResumeAll, RestartEngine, TickBegin
    <2>2. /\ UNCHANGED <<row, snap>> /\ backend = "up"
          /\ pc \in {"boot", "idle"} /\ pc' # "sync"
      BY <1>2 DEF ResumeAll, RestartEngine, TickBegin, Free, Unrelated, opFrame, tickVars
    <2>3. NoNewQueued(u) /\ Rests(e.dl, dl', u)
      BY <2>1, <2>2 DEF NoNewQueued, Rests
    <2> QED BY <2>1, <2>2, <2>3, HeldAfterEnsured
  <1>3. ASSUME NEW t \in Tasks, Resume(t) \/ Retry(t) PROVE HeldFits(u)'
    <2>1. u # t
      BY <1>3 DEF AskedFor
    <2>2. PICK e \in Ensured :
             \E r \in ResumeInEngine(e.proc, e.dl, t) \cup Submit(e.proc, e.dl, t, "waiting") :
               /\ Engine(e) /\ dl' = r.dl
               /\ UNCHANGED row \/ Persist(t, MkRow("aguardando", "none", r.gid))
      BY <1>3 DEF Resume, Retry
    <2>3. PICK r \in ResumeInEngine(e.proc, e.dl, t) \cup Submit(e.proc, e.dl, t, "waiting") :
               /\ Engine(e) /\ dl' = r.dl
               /\ UNCHANGED row \/ Persist(t, MkRow("aguardando", "none", r.gid))
      BY <2>2
    <2>4. e.dl \in Downloads /\ row[t].gid \in Own(t) \cup {NoGid}
      BY <1>1, EnsuredType DEF Agreement, Agrees, OwnGid
    <2>5. Conversed(e.proc, e.dl, t, r)
      BY <1>1, <2>3, <2>4, ResumeRuns, QueueRuns
    <2>6. Rests(e.dl, dl', u)
      BY <2>1, <2>3, <2>5, OnlyRests DEF Conversed
    <2>7. row'[u] = row[u]
      BY <1>1, <2>1, <2>3 DEF Persist, PersistRows, TypeOK
    <2>8. Free /\ UNCHANGED <<snap, pc>>
      BY <1>3 DEF Resume, Retry, Unrelated, opFrame, tickVars
    <2>9. NoNewQueued(u)
      BY <2>7 DEF NoNewQueued
    <2> QED BY <2>3, <2>6, <2>8, <2>9, HeldAfterEnsured DEF Free
  <1> QED BY <1>2, <1>3

\* The operations on all tasks, and the hash jobs.
LEMMA HeldThroughAll ==
    ASSUME Agreement, Reliable, NEW u \in Tasks, HeldFits(u),
           PauseAll \/ Shutdown \/ SetAutoResume \/ \E t \in Tasks : VerificationDone(t)
    PROVE  HeldFits(u)'
  <1>1. TypeOK /\ dl \in Downloads /\ RpcFaults = {}
    BY DEF Agreement, TypeOK, EngineTypeOK, Reliable
  <1>2. UNCHANGED <<snap, pc, reconcile, todo, needsReconcile>> /\ Free
    BY DEF PauseAll, Shutdown, SetAutoResume, VerificationDone, SameEngine, Unrelated, opFrame,
           tickVars
  <1>3. \A S \in SUBSET Tasks : \A w :
           row' = PausedRows(S, w) => NoNewQueued(u)
    BY DEF PausedRows, MkRow, NoNewQueued, Queued
  <1>4. UNCHANGED row => NoNewQueued(u)
    BY DEF NoNewQueued
  <1>5. \A x \in Sent(proc, dl, Paused(dl, Gid)) : Rests(dl, x, u)
    <2>1. Rests(dl, dl, u)
      BY DEF Rests
    <2> QED BY <1>1, <2>1, EffectsRest, SentReliable
  <1>6. UNCHANGED dl => Rests(dl, dl', u)
    BY DEF Rests
  <1>7. CASE PauseAll
    <2>1. NoNewQueued(u)
      BY <1>3, <1>4, <1>7 DEF PauseAll, PersistRows
    <2> QED BY <1>2, <1>5, <1>7, <2>1, Undisturbed DEF PauseAll, SameEngine, Free, HeldFits
  <1>8. CASE Shutdown
    <2>1. PICK d \in Sent(proc, dl, Paused(dl, Gid)) : StopEngine(d)
      BY <1>8 DEF Shutdown
    <2>2. Resting(dl', u)
      BY <1>1, <1>5, <2>1, EffectsRest DEF StopEngine, HeldFits, Resting, Rests
    <2>3. NoNewQueued(u) /\ backend' = "down"
      BY <1>3, <1>8 DEF Shutdown
    <2> QED BY <2>2, <2>3 DEF HeldFits, InCharge, NoNewQueued
  <1>9. CASE SetAutoResume
    BY <1>2, <1>4, <1>6, <1>9, Undisturbed DEF SetAutoResume, engineVars, Free, HeldFits
  <1>10. ASSUME NEW t \in Tasks, VerificationDone(t) PROVE HeldFits(u)'
    <2>1. ASSUME NEW q \in {"concluido", "erro"}, Persist(t, [row[t] EXCEPT !.state = q])
          PROVE  NoNewQueued(u)
      <3>1. [row[t] EXCEPT !.state = q].state \notin Queued \cup {"novo"}
        BY <1>1 DEF TypeOK, Row, Queued
      <3> QED BY <1>1, <2>1, <3>1, WrittenNotQueued
    <2>2. NoNewQueued(u)
      BY <1>4, <1>10, <2>1 DEF VerificationDone
    <2> QED BY <1>2, <1>6, <1>10, <2>2, Undisturbed
            DEF VerificationDone, SameEngine, Free, HeldFits
  <1> QED BY <1>7, <1>8, <1>9, <1>10

LEMMA ListedRests ==
    ASSUME NEW u \in Tasks, Resting(dl, u), Resting(snap, u), NEW statuses
    PROVE  Resting(Listed(dl, statuses), u)
  BY DEF Resting, Listed, Own, Reported, Rest, Stopped

\* The rest of the tick, other than its way through the tasks.
LEMMA HeldThroughPoll ==
    ASSUME Agreement, Reliable, ~ReadFails, NEW u \in Tasks, HeldFits(u),
           TellActive \/ TellWaiting \/ TellStopped \/ PollFails \/ ListTasksFails \/ Release
    PROVE  HeldFits(u)'
  <1>1. TypeOK /\ dl \in Downloads /\ RpcFaults = {}
    BY DEF Agreement, TypeOK, EngineTypeOK, Reliable
  <1>2. CASE TellActive \/ TellWaiting
    <2>1. /\ UNCHANGED <<engineVars, row, backend, needsReconcile>>
          /\ backend = "up" /\ pc # "sync" /\ pc' # "sync"
      BY <1>2 DEF TellActive, TellWaiting
    <2>2. Resting(snap', u)
      BY <1>2, <2>1, ListedRests DEF TellActive, TellWaiting, HeldFits
    <2> QED BY <2>1, <2>2 DEF HeldFits, InCharge, Awaits, engineVars
  <1>3. CASE TellStopped
    <2>1. PICK S : dl' \in Sent(proc, dl, Paused(dl, S))
      BY <1>3 DEF TellStopped
    <2>2. dl' = Paused(dl, S)
      BY <1>1, <1>3, <2>1, SentReliable DEF TellStopped
    <2>3. Resting(dl', u)
      BY <1>1, <2>2, EffectsRest DEF HeldFits, Resting, Rests
    <2>4. Resting(snap', u)
      BY <1>3, ListedRests DEF TellStopped, HeldFits
    <2>5. row[u].state \in Queued => Awaits(u)'
      BY <1>3 DEF TellStopped, HeldFits, InCharge, Awaits, Queued, Absent
    <2> QED BY <1>3, <2>3, <2>4, <2>5 DEF TellStopped, HeldFits
  <1>4. CASE PollFails
    <2>1. proc # "on" /\ proc' # "on"
      BY <1>1, <1>4 DEF PollFails, engineVars, StopEngine
    <2>2. Resting(dl', u)
      BY <1>1, <1>4, EffectsRest DEF PollFails, engineVars, StopEngine, HeldFits
    <2>3. Resting(snap', u)
      BY <1>1, <1>4, EffectsRest DEF PollFails
    <2> QED BY <1>4, <2>1, <2>2, <2>3 DEF PollFails, HeldFits, InCharge
  <1>5. CASE Release
    <2>1. Resting(snap', u)
      BY <1>1, <1>5, EffectsRest DEF Release
    <2> QED BY <1>5, <2>1 DEF Release, HeldFits, InCharge, Awaits, engineVars
  <1>6. ~ListTasksFails
    BY DEF ListTasksFails
  <1> QED BY <1>2, <1>3, <1>4, <1>5, <1>6

\* A tick deals with a held task, or with another one.
LEMMA HeldThroughSync ==
    ASSUME Agreement, Reliable, NEW t \in Tasks, NEW u \in Tasks, HeldFits(u), ~autoResume,
           SyncTask(t)
    PROVE  HeldFits(u)'
  <1> DEFINE g == row[t].gid
  <1>1. TypeOK /\ dl \in Downloads /\ RpcFaults = {} /\ OwnGid(t)
    BY DEF Agreement, TypeOK, EngineTypeOK, Reliable, Agrees
  <1>2. /\ UNCHANGED <<snap, pc, reconcile>> /\ SameEngine
        /\ backend = "up" /\ pc = "sync" /\ t \in todo /\ todo' = todo \ {t}
    BY DEF SyncTask
  <1>3. CASE u # t
    <2>1. Rests(dl, dl', u)
      <3>1. Only(t, dl, dl')
        BY TalksOfTick
      <3> QED BY <1>3, <3>1, OnlyRests
    <2>2. row'[u] = row[u]
      BY <1>1, <1>3 DEF SyncTask, SyncSettled, SyncAbsent, SyncRelease, SyncHold, SyncFollow,
                        Persist, PersistRows, TypeOK
    <2>3. NoNewQueued(u)
      BY <2>2 DEF NoNewQueued
    <2>4. u \in todo => u \in todo'
      BY <1>2, <1>3
    <2> QED BY <1>2, <2>1, <2>3, <2>4, Undisturbed DEF SameEngine
  <1>4. CASE u = t
    <2>1. InCharge /\ row[t].state \in Queued => reconcile
      BY <1>2, <1>4 DEF HeldFits, Awaits
    <2>2. Rests(dl, dl, t)
      BY DEF Rests
    <2> DEFINE Fine == /\ Rests(dl, dl', t)
                       /\ row'[t].state # "novo"
                       /\ InCharge' => row'[t].state \notin Queued
    <2>3. ASSUME NEW w, Persist(t, w), w.state \notin Queued \cup {"novo"}
          PROVE  row'[t].state # "novo" /\ (InCharge' => row'[t].state \notin Queued)
      BY <1>1, <1>4, <2>3, WrittenReliable DEF HeldFits, InCharge
    <2>4. ASSUME SyncSettled(t) PROVE Fine
      BY <2>2, <2>4 DEF SyncSettled, Terminal, Queued
    <2>5. ASSUME SyncAbsent(t) PROVE Fine
      <3> DEFINE s == IF ShouldRun(t) THEN "waiting" ELSE "paused"
                 why == IF row[t].state = "pausado" THEN row[t].reason ELSE "sistema"
                 after(h) == IF ShouldRun(t) THEN MkRow("aguardando", "none", h)
                             ELSE MkRow("pausado", why, h)
      <3>1. PICK r \in Submit(proc, dl, t, s) :
               /\ dl' = r.dl
               /\ IF r.ok THEN Persist(t, after(r.gid)) ELSE UNCHANGED row /\ StaysUp
        BY <2>5 DEF SyncAbsent
      <3>2. row[t].state \in Queued \cup {"pausado"}
        BY <2>5 DEF SyncAbsent
      <3>3. CASE proc = "on"
        <4>1. ~ShouldRun(t)
          BY <1>2, <2>1, <3>2, <3>3 DEF ShouldRun, InCharge
        <4>2. Entered(Forgot(dl, {Det(t)}), t, "paused", r)
          BY <1>1, <3>1, <3>3, <4>1, SubmitReliable
        <4>3. Rests(dl, dl', t)
          <5>1. Rests(dl, Forgot(dl, {Det(t)}), t)
            BY <1>1, EffectsRest
          <5> QED BY <3>1, <4>2, <5>1
                  DEF Entered, Answer, Rests, Rest, Forgot, OnGids, Own
        <4>4. after(r.gid).state = "pausado" /\ r.ok
          BY <4>1, <4>2 DEF MkRow, Entered, Answer
        <4>5. after(r.gid).state \notin Queued \cup {"novo"}
          BY <4>4 DEF Queued
        <4>6. Persist(t, after(r.gid))
          BY <3>1, <4>4
        <4> HIDE DEF after
        <4> QED BY <2>3, <4>3, <4>5, <4>6
      <3>4. CASE proc # "on"
        <4>1. dl' = dl
          <5>1. Unreached(dl, t, r)
            BY <1>1, <3>1, <3>4, SubmitReliable
          <5> QED BY <3>1, <5>1 DEF Unreached
        <4>2. ~InCharge'
          BY <1>2, <3>4 DEF InCharge, SameEngine
        <4>3. after(r.gid).state # "novo"
          BY DEF MkRow
        <4>4. row'[t].state # "novo"
          BY <1>1, <1>4, <3>1, <4>3, WrittenReliable DEF HeldFits
        <4> QED BY <2>2, <4>1, <4>2, <4>4
      <3> QED BY <3>3, <3>4
    <2>6. ~SyncRelease(t)
      BY DEF SyncRelease, WantsRun
    <2>7. ASSUME SyncHold(t) PROVE Fine
      <3>1. Rests(dl, dl', t)
        BY <1>1, <2>2, <2>7, EffectsRest, SentReliable DEF SyncHold
      <3>2. MkRow("pausado", "sistema", g).state \notin Queued \cup {"novo"}
        BY DEF MkRow, Queued
      <3> QED BY <2>3, <2>7, <3>1, <3>2 DEF SyncHold
    <2>8. ASSUME SyncFollow(t) PROVE Fine
      <3>1. dl' \in {dl, Forgot(dl, {g})}
        BY <1>1, <2>8, SentReliable DEF SyncFollow
      <3>2. Rests(dl, dl', t)
        BY <1>1, <2>2, <3>1, EffectsRest
      <3>3. Seen(t) \in Rest \ {"none"}
        BY <1>1, <1>2, <1>4, <2>8 DEF SyncFollow, Seen, HeldFits, Resting, OwnGid
      <3>4. Followed(t).state \notin Queued \cup {"novo"}
        BY <3>3 DEF Rest, Stopped, Followed, MkRow, Queued
      <3> QED BY <2>3, <2>8, <3>2, <3>4 DEF SyncFollow
    <2>9. Fine
      BY <2>4, <2>5, <2>6, <2>7, <2>8 DEF SyncTask
    <2> HIDE DEF Fine
    <2>10. Resting(dl', t) /\ Resting(snap', t)
      BY <1>2, <1>4, <2>9 DEF Fine, HeldFits, Resting, Rests
    <2> QED BY <1>4, <2>9, <2>10 DEF Fine, HeldFits
  <1> QED BY <1>3, <1>4

\* resume_all is about another task: one it takes is no longer held.
LEMMA HeldThroughResumeAll ==
    ASSUME Agreement, Reliable, NEW t \in Tasks, NEW u \in Tasks \ {t}, HeldFits(u),
           ResumeAllTask(t)
    PROVE  HeldFits(u)'
  <1>1. Rests(dl, dl', u)
    <2>1. Only(t, dl, dl')
      BY TalksOfTick
    <2> QED BY <2>1, OnlyRests
  <1>2. row'[u] = row[u]
    BY DEF ResumeAllTask, Persist, PersistRows, Agreement, TypeOK
  <1>3. NoNewQueued(u)
    BY <1>2 DEF NoNewQueued
  <1> QED BY <1>1, <1>3, Undisturbed DEF ResumeAllTask, SameEngine

\* What nobody asked for: aria2 runs only what waits, and both may die.
LEMMA HeldThroughEnvironment ==
    ASSUME Agreement, NEW u \in Tasks, HeldFits(u),
           EngineMoves \/ EngineDies \/ BackendDies \/ BackendStart \/ UNCHANGED vars
    PROVE  HeldFits(u)'
  <1>1. TypeOK /\ dl \in Downloads
    BY DEF Agreement, TypeOK, EngineTypeOK
  <1>2. UNCHANGED row
    BY DEF EngineMoves, EngineDies, BackendDies, BackendStart, serviceVars, vars
  <1>3. NoNewQueued(u) /\ Rests(dl, dl, u)
    BY <1>2 DEF NoNewQueued, Rests
  <1>4. CASE EngineMoves
    <2>1. ASSUME NEW h \in Gid, Promote(h) \/ Finish(h) PROVE Rests(dl, dl', u)
      BY <1>1, <2>1 DEF Promote, Finish, Rests, Rest, Stopped, Downloads, Own
    <2>2. ASSUME NEW h \in Gid, Halt(h) PROVE Rests(dl, dl', u)
      BY <1>1, <2>2, EffectsRest DEF Halt
    <2>3. Rests(dl, dl', u) /\ UNCHANGED proc
      BY <1>3, <1>4, <2>1, <2>2 DEF EngineMoves, EngineStep, SaveSession, Promote, Finish, Halt
    <2> QED BY <1>3, <1>4, <2>3, Undisturbed DEF EngineMoves, serviceVars
  <1>5. CASE EngineDies
    <2>1. Rests(dl, dl', u) /\ proc' # "on"
      BY <1>1, <1>5, EffectsRest DEF EngineDies, Rests, Resting
    <2> QED BY <1>3, <1>5, <2>1, Undisturbed DEF EngineDies, tickVars
  <1>6. CASE BackendDies \/ UNCHANGED vars
    BY <1>3, <1>6, Undisturbed
       DEF BackendDies, Die, engineVars, tickVars, serviceVars, vars
  <1>7. CASE BackendStart
    <2>1. proc' # "on" /\ dl' = dl /\ snap' = NoDownloads
      BY <1>7 DEF BackendStart
    <2>2. Resting(snap', u)
      BY <1>1, <2>1, EffectsRest
    <2> QED BY <1>2, <2>1, <2>2 DEF HeldFits, InCharge
  <1> QED BY <1>4, <1>5, <1>6, <1>7

\* Only ensure_engine starts the engine.
LEMMA StartedByEnsured ==
    ASSUME EngineStarted, Next
    PROVE  \/ \E t \in Tasks : Resume(t) \/ Retry(t)
           \/ ResumeAll \/ RestartEngine \/ TickBegin
  <1>1. ASSUME NEW t \in Tasks,
               \/ Add(t) \/ Pause(t) \/ Cancel(t) \/ CancelByRequestKey(t)
               \/ RemoveFromHistory(t) \/ ChangeConnections(t) \/ VerificationDone(t)
               \/ SyncTask(t) \/ ResumeAllTask(t)
        PROVE  FALSE
    BY <1>1 DEF Add, Pause, Cancel, CancelByRequestKey, RemoveFromHistory, ChangeConnections,
                VerificationDone, SyncTask, ResumeAllTask, SameEngine, EngineStarted
  <1>2. ~PauseAll /\ ~SetAutoResume /\ ~Shutdown
    BY DEF PauseAll, SetAutoResume, Shutdown, StopEngine, SameEngine, engineVars, EngineStarted
  <1>3. ~TellActive /\ ~TellWaiting /\ ~TellStopped /\ ~PollFails /\ ~ListTasksFails /\ ~Release
    BY DEF TellActive, TellWaiting, TellStopped, PollFails, ListTasksFails, Release,
           StopEngine, engineVars, EngineStarted
  <1>4. ~EngineMoves /\ ~EngineDies /\ ~BackendDies /\ ~BackendStart
    BY DEF EngineMoves, EngineStep, Promote, Finish, Halt, SaveSession, EngineDies, BackendDies,
           BackendStart, engineVars, EngineStarted
  <1> QED BY <1>1, <1>2, <1>3, <1>4 DEF Next, Operation, Tick

LEMMA HeldThroughNext ==
    ASSUME Agreement, Reliable, ~ReadFails, Next, NEW u \in Tasks, ~AskedFor(u),
           Holding(u), EngineStarted \/ ~autoResume
    PROVE  HeldFits(u)'
  <1>1. ASSUME \/ \E t \in Tasks : Resume(t) \/ Retry(t)
               \/ ResumeAll \/ RestartEngine \/ TickBegin
        PROVE  HeldFits(u)'
    BY <1>1, HeldThroughStart
  <1>2. CASE EngineStarted
    BY <1>1, <1>2, StartedByEnsured
  <1>3. CASE ~EngineStarted
    <2>1. HeldFits(u) /\ ~autoResume
      BY <1>3 DEF Holding
    <2>2. CASE Operation
      BY <1>1, <2>1, <2>2, HeldThroughOne, HeldThroughAll DEF Operation
    <2>3. ASSUME NEW t \in Tasks, ResumeAllTask(t) PROVE HeldFits(u)'
      <3>1. u # t
        BY <2>3 DEF AskedFor
      <3> QED BY <2>1, <2>3, <3>1, HeldThroughResumeAll
    <2>4. CASE Tick
      BY <1>1, <2>1, <2>3, <2>4, HeldThroughPoll, HeldThroughSync DEF Tick
    <2> QED BY <2>1, <2>2, <2>4, HeldThroughAll, HeldThroughEnvironment DEF Next
  <1> QED BY <1>2, <1>3

LEMMA HeldStep ==
    ASSUME HeldInv, Agreement, Reliable, ~ReadFails, [HeldNext]_heldVars
    PROVE  HeldInv'
  <1>1. CASE HeldNext
    <2>1. held' \subseteq Tasks /\ (autoResume' => held' = {})
      BY <1>1 DEF HeldNext, HeldInv, Stored
    <2>2. ASSUME NEW u \in held' PROVE HeldFits(u)'
      <3>1. ~autoResume' /\ ~AskedFor(u) /\ u \in Tasks
            /\ u \in IF EngineStarted THEN Stored ELSE held
        BY <1>1, <2>1, <2>2 DEF HeldNext
      <3>2. Holding(u) /\ (EngineStarted \/ ~autoResume)
        BY <3>1 DEF Holding, HeldInv, Stored
      <3> QED BY <1>1, <3>1, <3>2, HeldThroughNext DEF HeldNext
    <2> QED BY <2>1, <2>2 DEF HeldInv
  <1>2. CASE UNCHANGED heldVars
    <2>1. \A u \in held : HeldFits(u)'
      BY <1>2, HeldThroughEnvironment DEF HeldInv, heldVars
    <2> QED BY <1>2, <2>1 DEF HeldInv, heldVars, vars, serviceVars
  <1> QED BY <1>1, <1>2

\* With "resume automatically" off, what a start of the engine found in the
\* queue is not transferred before the user resumes or retries it, in no tick
\* that follows (Service::ensure_engine, Service::tick), when the calls are
\* answered, SQLite takes every statement and the list of tasks can be read:
\* each of these is needed (the runs of the README break it without).
THEOREM HeldStayHeld ==
    ASSUME Reliable, ~ReadFails PROVE HeldSpec => []HeldAfterRestart
  <1>1. HeldSpec => Spec
    <2>1. HeldInit => Init
      BY DEF HeldInit
    <2>2. [HeldNext]_heldVars => [Next]_vars
      BY DEF HeldNext, heldVars
    <2> QED BY <2>1, <2>2, PTL DEF HeldSpec, Spec
  <1>2. HeldInit => HeldInv
    BY DEF HeldInit, HeldInv
  <1>3. HeldInv /\ Agreement /\ [HeldNext]_heldVars => HeldInv'
    BY HeldStep
  <1>4. HeldInv => HeldAfterRestart
    <2>1. Rest \cap Running = {}
      BY DEF Rest, Stopped, Running
    <2> QED BY <2>1 DEF HeldInv, HeldFits, Resting, Own, HeldAfterRestart, RunningGids
  <1> QED BY <1>1, <1>2, <1>3, <1>4, RowsAndEngineAgree, PTL DEF HeldSpec

=============================================================================
