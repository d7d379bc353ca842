---------------------------- MODULE HeldDownloads ----------------------------
(***************************************************************************)
(* What "resume automatically" off promises (settings.rs: on, tasks        *)
(* paused by the system resume when the service starts): what a start of   *)
(* the engine finds in the queue stays where it is until the user asks for *)
(* it.                                                                     *)
(*                                                                         *)
(* DownloadService with one auxiliary variable, which no action reads: the *)
(* tasks that the last start of aria2c found and that nobody has asked for *)
(* since.                                                                  *)
(***************************************************************************)
EXTENDS DownloadService

VARIABLE held

heldVars == <<vars, held>>

\* ensure_engine has started aria2c.
EngineStarted == proc # "on" /\ proc' = "on"

Stored == {t \in Tasks : row[t].state \notin Absent}

\* The operations by which the user has a task run again.
AskedFor(t) == Resume(t) \/ Retry(t) \/ ResumeAllTask(t)

HeldInit == Init /\ held = {}

\* Turning the setting on gives everything free.
HeldNext ==
    /\ Next
    /\ held' = IF autoResume' THEN {}
               ELSE (IF EngineStarted THEN Stored ELSE held) \ {t \in Tasks : AskedFor(t)}

HeldSpec == HeldInit /\ [][HeldNext]_heldVars

HeldLiveSpec == HeldSpec /\ Fairness

\* With "resume automatically" off, what was in the queue when the engine was
\* started is not transferred before the user resumes or retries it: not in the
\* tick that follows the start and not in any later one ("o backend decide o que
\* retomar, conforme a preferencia 'Retomar automaticamente' e a intencao do
\* usuario", ARCHITECTURE.md; Service::tick decides it only while needs_reconcile
\* is set).
HeldAfterRestart == \A t \in held : RunningGids(t) = {}
=============================================================================
