-------------------------- MODULE EngineSupervisor --------------------------
(***************************************************************************)
(* How the backend keeps one aria2c alive and no more than one: the restart *)
(* limiter of Service::ensure_engine, the failure count of engine_statuses  *)
(* (crates/lyra-downloads-backend/src/service.rs), and starting, stopping   *)
(* and reaping the process by its pid file                                  *)
(* (crates/lyra-downloads-aria2/src/process.rs).                            *)
(*                                                                          *)
(* DownloadService takes the outcome of all this in one step (Ensured);     *)
(* here every wait is a step of its own, so that processes may exit, pids   *)
(* be reused, time pass and the backend die in between.                     *)
(***************************************************************************)
EXTENDS Naturals, Sequences, FiniteSets

CONSTANTS
    Pids,         \* process numbers of the machine
    NoPid,        \* no handle, or no pid file
    MaxRestarts,  \* MAX_ENGINE_RESTARTS
    Window,       \* RESTART_WINDOW, in steps of Elapse
    MaxFailures,  \* failed polls in a row that stop the engine (3)
    MaxTries,     \* ports one start tries (3)
    Faults,       \* subset of FaultKinds that happen
    MaxFaults     \* bound: how many of them, exits and failed starts included

\* "slowExit": a process outlives the wait for its exit.  "startCrash": the
\* backend dies between the start of aria2c and the write of the pid file.
\* "pidWrite": the pid file cannot be written.
FaultKinds == {"slowExit", "startCrash", "pidWrite"}

ASSUME SupervisorAssumption ==
    /\ NoPid \notin Pids
    /\ {MaxRestarts, Window, MaxFailures, MaxTries} \subseteq Nat \ {0}
    /\ Faults \subseteq FaultKinds
    /\ MaxFaults \in Nat

VARIABLES
    table,     \* what runs under every pid
    pidFile,   \* aria2.pid
    up,        \* a backend runs
    pc,        \* where the holder of the service's mutex is
    caller,    \* what the holder was asked for
    engine,    \* Service::engine
    child,     \* the process being started or stopped
    restarts,  \* Service::restarts, as ages, oldest first
    tries,     \* ports tried in this start
    failures,  \* Service::engine_failures
    attempts,  \* history: starts within the window since the user's last action
    faults     \* faults so far (bounded by MaxFaults)

vars == <<table, pidFile, up, pc, caller, engine, child, restarts, tries,
          failures, attempts, faults>>

\* aria2c started by a backend.  "hung" answers no call; "ending" was asked to
\* exit; "zombie" has exited and its parent has not noticed yet.
Live == {"starting", "ready", "hung", "ending"}
Kind == Live \cup {"zombie", "foreign", "free"}

Location == {"idle", "poll", "reap", "reapWait", "spawn", "wait", "stop", "stopWait"}
Age == 0..(Window + 1)

TypeOK ==
    /\ table \in [Pids -> Kind]
    /\ {pidFile, engine, child} \subseteq Pids \cup {NoPid}
    /\ up \in BOOLEAN
    /\ pc \in Location
    /\ caller \in {"tick", "user", "shutdown"}
    /\ restarts \in Seq(Age) /\ Len(restarts) <= MaxRestarts
    /\ tries \in 0..(MaxTries - 1)
    /\ failures \in 0..MaxFailures
    /\ attempts \in Seq(Age)
    /\ faults \in 0..MaxFaults

Init ==
    /\ table \in [Pids -> {"free", "foreign"}]
    /\ pidFile \in Pids \cup {NoPid}
    /\ up = TRUE
    /\ pc = "idle"
    /\ caller = "tick"
    /\ engine = NoPid
    /\ child = NoPid
    /\ restarts = <<>>
    /\ tries = 0
    /\ failures = 0
    /\ attempts = <<>>
    /\ faults = 0

Fault == faults < MaxFaults /\ faults' = faults + 1
At(l) == up /\ pc = l

-----------------------------------------------------------------------------
(* ensure_engine up to the start of the process.                           *)

\* A try_wait that finds the child gone frees its pid.
Waited(t, p) == IF p # NoPid /\ t[p] = "zombie" THEN [t EXCEPT ![p] = "free"] ELSE t

\* Broken variant: restarts that left the window still count.
KeptAll(s) == {s}

\* The restarts still within the window: those at the front are popped.
Kept(s) ==
    {SubSeq(s, n + 1, Len(s)) :
        n \in {k \in 0..Len(s) : /\ \A i \in 1..k : s[i] > Window
                                 /\ k < Len(s) => s[k + 1] <= Window}}

\* No engine: start one unless the limiter forbids it.
Start(history, starts) ==
    /\ engine' = NoPid
    /\ table' = Waited(table, engine)
    /\ \E kept \in Kept(history) :
         IF Len(kept) >= MaxRestarts
         THEN restarts' = kept /\ attempts' = starts /\ pc' = "idle"
         ELSE restarts' = Append(kept, 0) /\ attempts' = Append(starts, 0) /\ pc' = "reap"

Alive == engine # NoPid /\ table[engine] \in Live

\* tick
Tick ==
    /\ At("idle")
    /\ caller' = "tick"
    /\ tries' = 0
    /\ IF Alive
       THEN pc' = "poll" /\ UNCHANGED <<table, engine, restarts, attempts>>
       ELSE Start(restarts, attempts)
    /\ UNCHANGED <<pidFile, up, child, failures, faults>>

\* resume, retry, resume_all and restart_engine: reset_engine_backoff forgets
\* the restarts, but only when the handle is already gone.
UserStart ==
    /\ At("idle")
    /\ caller' = "user"
    /\ tries' = 0
    /\ IF Alive
       THEN /\ attempts' = <<>>
            /\ UNCHANGED <<pc, table, engine, restarts>>
       ELSE Start(IF engine = NoPid THEN <<>> ELSE restarts, <<>>)
    /\ UNCHANGED <<pidFile, up, child, failures, faults>>

-----------------------------------------------------------------------------
(* Aria2Process::spawn                                                     *)

IsOurs(p) == p # NoPid /\ table[p] \in Live

\* Broken variant: the process is told to end, and not waited for.
ReapTermNoWait ==
    /\ At("reap")
    /\ IsOurs(pidFile)
    /\ table' = [table EXCEPT ![pidFile] = "ending"]
    /\ pc' = "spawn"
    /\ UNCHANGED <<pidFile, up, caller, engine, child, restarts, tries, failures,
                   attempts, faults>>

\* Broken variant: any process with that pid is ended.
ReapAnyone ==
    /\ At("reap")
    /\ pidFile # NoPid /\ table[pidFile] # "free"
    /\ table' = [table EXCEPT ![pidFile] = "ending"]
    /\ pc' = "reapWait"
    /\ UNCHANGED <<pidFile, up, caller, engine, child, restarts, tries, failures,
                   attempts, faults>>

\* reap_stale_instance: the pid in the file is an aria2c over our session.
ReapTerm ==
    /\ At("reap")
    /\ IsOurs(pidFile)
    /\ table' = [table EXCEPT ![pidFile] = "ending"]
    /\ pc' = "reapWait"
    /\ UNCHANGED <<pidFile, up, caller, engine, child, restarts, tries, failures,
                   attempts, faults>>

ReapNothing ==
    /\ At("reap")
    /\ ~IsOurs(pidFile)
    /\ pidFile' = NoPid
    /\ pc' = "spawn"
    /\ UNCHANGED <<table, up, caller, engine, child, restarts, tries, failures,
                   attempts, faults>>

\* The wait for its exit is over, or given up after five seconds.
ReapDone ==
    /\ At("reapWait")
    /\ \/ ~IsOurs(pidFile) /\ UNCHANGED faults
       \/ IsOurs(pidFile) /\ "slowExit" \in Faults /\ Fault
    /\ pidFile' = NoPid
    /\ pc' = "spawn"
    /\ UNCHANGED <<table, up, caller, engine, child, restarts, tries, failures, attempts>>

\* No aria2c to be found, or the process or its files cannot be created.
StartFails ==
    /\ At("reap") \/ At("spawn")
    /\ Fault
    /\ pc' = "idle"
    /\ UNCHANGED <<table, pidFile, up, caller, engine, child, restarts, tries,
                   failures, attempts>>

Fork(p) ==
    /\ At("spawn")
    /\ table[p] = "free"
    /\ table' = [table EXCEPT ![p] = "starting"]
    /\ child' = p
    /\ pc' = "wait"
    /\ UNCHANGED <<pidFile, up, caller, engine, restarts, tries, failures, attempts, faults>>

\* Broken variant: a successful start clears the limiter.
ReadyClears ==
    /\ At("wait")
    /\ table[child] = "ready"
    /\ engine' = child
    /\ child' = NoPid
    /\ pidFile' = child
    /\ failures' = 0
    /\ restarts' = <<>>
    /\ pc' = IF caller = "tick" THEN "poll" ELSE "idle"
    /\ UNCHANGED <<table, up, caller, tries, attempts, faults>>

\* wait_ready: get_version was answered; the pid file is written.
Ready ==
    /\ At("wait")
    /\ table[child] = "ready"
    /\ engine' = child
    /\ child' = NoPid
    /\ \/ pidFile' = child /\ UNCHANGED faults
       \/ "pidWrite" \in Faults /\ Fault /\ UNCHANGED pidFile
    /\ failures' = 0
    /\ pc' = IF caller = "tick" THEN "poll" ELSE "idle"
    /\ UNCHANGED <<table, up, caller, restarts, tries, attempts>>

\* It exited, or did not answer for five seconds: it is killed and waited for,
\* and another port is tried.
NotReady ==
    /\ At("wait")
    /\ \/ table[child] \in {"zombie", "hung"} /\ UNCHANGED faults
       \/ table[child] = "starting" /\ Fault
    /\ table' = [table EXCEPT ![child] = "free"]
    /\ child' = NoPid
    /\ IF tries + 1 < MaxTries
       THEN tries' = tries + 1 /\ pc' = "spawn"
       ELSE pc' = "idle" /\ UNCHANGED tries
    /\ UNCHANGED <<pidFile, up, caller, engine, restarts, failures, attempts>>

-----------------------------------------------------------------------------
(* engine_statuses, and Aria2Process::shutdown                             *)

PollOk ==
    /\ At("poll")
    /\ table[engine] = "ready"
    /\ failures' = 0
    /\ pc' = "idle"
    /\ UNCHANGED <<table, pidFile, up, caller, engine, child, restarts, tries,
                   attempts, faults>>

\* Broken variant: one failure too many is tolerated.
PollFailsLate ==
    /\ At("poll")
    /\ table[engine] # "ready"
    /\ failures' = failures + 1
    /\ IF failures' > MaxFailures
       THEN pc' = "stop" /\ child' = engine /\ engine' = NoPid
       ELSE pc' = "idle" /\ UNCHANGED <<engine, child>>
    /\ UNCHANGED <<table, pidFile, up, caller, restarts, tries, attempts, faults>>

\* A list call fails; the last failure that is tolerated takes the engine down.
PollFails ==
    /\ At("poll")
    /\ table[engine] # "ready"
    /\ failures' = failures + 1
    /\ IF failures' >= MaxFailures
       THEN pc' = "stop" /\ child' = engine /\ engine' = NoPid
       ELSE pc' = "idle" /\ UNCHANGED <<engine, child>>
    /\ UNCHANGED <<table, pidFile, up, caller, restarts, tries, attempts, faults>>

\* Service::shutdown takes the engine; without one the backend just ends.
Shutdown ==
    /\ At("idle")
    /\ caller' = "shutdown"
    /\ child' = engine
    /\ engine' = NoPid
    /\ pc' = "stop"
    /\ UNCHANGED <<table, pidFile, up, restarts, tries, failures, attempts, faults>>

\* aria2.shutdown, or SIGTERM for a process that does not answer.
StopAsk ==
    /\ At("stop")
    /\ table' = IF IsOurs(child) THEN [table EXCEPT ![child] = "ending"] ELSE table
    /\ pc' = "stopWait"
    /\ UNCHANGED <<pidFile, up, caller, engine, child, restarts, tries, failures,
                   attempts, faults>>

\* The child has exited, or the wait is given up and the handle dropped.
StopDone ==
    /\ At("stopWait")
    /\ \/ ~IsOurs(child) /\ UNCHANGED faults
       \/ IsOurs(child) /\ "slowExit" \in Faults /\ Fault
    /\ table' = Waited(table, child)
    /\ child' = NoPid
    /\ pc' = "idle"
    /\ up' = (caller # "shutdown")
    /\ UNCHANGED <<pidFile, caller, engine, restarts, tries, failures, attempts>>

-----------------------------------------------------------------------------
(* The environment.                                                        *)

\* aria2c opens its RPC port.
BecomeReady(p) ==
    /\ table[p] = "starting"
    /\ table' = [table EXCEPT ![p] = "ready"]
    /\ UNCHANGED <<pidFile, up, pc, caller, engine, child, restarts, tries,
                   failures, attempts, faults>>

Hang(p) ==
    /\ table[p] \in {"starting", "ready"}
    /\ Fault
    /\ table' = [table EXCEPT ![p] = "hung"]
    /\ UNCHANGED <<pidFile, up, pc, caller, engine, child, restarts, tries,
                   failures, attempts>>

\* The pid of a child stays taken until its parent has waited for it.
Gone(p) == IF up /\ p \in {engine, child} THEN "zombie" ELSE "free"

Exit(p) ==
    /\ \/ table[p] = "ending" /\ UNCHANGED faults
       \/ table[p] \in Live \ {"ending"} /\ Fault
    /\ table' = [table EXCEPT ![p] = Gone(p)]
    /\ UNCHANGED <<pidFile, up, pc, caller, engine, child, restarts, tries,
                   failures, attempts>>

\* Another program gets a free pid, or gives one back.
Foreign(p) ==
    /\ \/ table[p] = "free" /\ table' = [table EXCEPT ![p] = "foreign"]
       \/ table[p] = "foreign" /\ table' = [table EXCEPT ![p] = "free"]
    /\ UNCHANGED <<pidFile, up, pc, caller, engine, child, restarts, tries,
                   failures, attempts, faults>>

\* The backend is killed.  aria2c is not (kill_on_drop(false)); init waits for
\* what has exited.
BackendDies ==
    /\ up
    /\ pc = "wait" => "startCrash" \in Faults
    /\ Fault
    /\ up' = FALSE
    /\ table' = [p \in Pids |-> IF table[p] = "zombie" THEN "free" ELSE table[p]]
    /\ UNCHANGED <<pidFile, pc, caller, engine, child, restarts, tries, failures, attempts>>

\* Service::new
BackendStart ==
    /\ ~up
    /\ up' = TRUE
    /\ pc' = "idle"
    /\ engine' = NoPid
    /\ child' = NoPid
    /\ restarts' = <<>>
    /\ tries' = 0
    /\ failures' = 0
    /\ attempts' = <<>>
    /\ UNCHANGED <<table, pidFile, caller, faults>>

Older(s) == [i \in 1..Len(s) |-> IF s[i] <= Window THEN s[i] + 1 ELSE s[i]]

\* One unit of time passes.  Starts that left the window are dropped from the
\* history, which nothing reads.
Elapse ==
    /\ restarts # <<>>
    /\ restarts' = Older(restarts)
    /\ attempts' \in Kept(Older(attempts))
    /\ UNCHANGED <<table, pidFile, up, pc, caller, engine, child, tries, failures, faults>>

-----------------------------------------------------------------------------

Supervise ==
    \/ ReapTerm \/ ReapNothing \/ ReapDone
    \/ \E p \in Pids : Fork(p)
    \/ Ready \/ NotReady
    \/ PollOk \/ PollFails \/ StopAsk \/ StopDone

Next ==
    \/ Tick \/ UserStart \/ Shutdown
    \/ Supervise \/ StartFails
    \/ \E p \in Pids : BecomeReady(p) \/ Hang(p) \/ Exit(p) \/ Foreign(p)
    \/ BackendDies \/ BackendStart \/ Elapse

Spec == Init /\ [][Next]_vars

\* The ticker gets the mutex, the holder goes on, time passes, a process that
\* can start starts and one that was told to end ends.  A free pid turns up
\* for a fork as often as other programs exit.
Fairness ==
    /\ SF_vars(Tick)
    /\ WF_vars(ReapTerm \/ ReapNothing \/ ReapDone \/ Ready \/ NotReady
                 \/ PollOk \/ PollFails \/ StopAsk \/ StopDone)
    /\ SF_vars(\E p \in Pids : Fork(p))
    /\ WF_vars(Elapse)
    /\ \A p \in Pids : /\ WF_vars(BecomeReady(p))
                       /\ WF_vars(table[p] = "ending" /\ Exit(p))
                       /\ WF_vars(table[p] = "foreign" /\ Foreign(p))

LiveSpec == Spec /\ Fairness

-----------------------------------------------------------------------------
(* Properties.                                                             *)

Ours == {p \in Pids : table[p] \in Live}

\* Two aria2c never run over the same session file: not after a crash of the
\* backend, a stop that takes its time, or a start that had to try again.
\* Needs Faults = {}: each of the three faults breaks it.
OneEngine == \A p, q \in Ours : p = q

\* Without the user, aria2c is started at most MaxRestarts times in any window
\* (ensure_engine: "evita loops"), successful starts that crash included.
RestartBudget == Len(attempts) <= MaxRestarts

\* Reaping a stale aria2c never ends somebody else's process that got its pid
\* (process.rs: "nunca instancias de aria2 de terceiros").
OnlyOursKilled ==
    [][\A p \in Pids : table[p] = "foreign" => table'[p] \in {"foreign", "free"}]_vars

\* Once the faults are over, an engine answers again and again while the
\* backend is up: the limiter delays a restart and never prevents it.
EngineReturns ==
    []<>(~up \/ (Alive /\ table[engine] = "ready"))

=============================================================================
