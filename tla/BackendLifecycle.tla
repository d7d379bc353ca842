-------------------------- MODULE BackendLifecycle --------------------------
(***************************************************************************)
(* One backend at a time behind one socket, started by whoever needs it:    *)
(* the life of a backend process (run and acquire_instance_lock in          *)
(* crates/lyra-downloads-backend/src/lib.rs, server.rs) and a call of a     *)
(* client (connect_or_spawn, request_raw and call in                        *)
(* crates/lyra-downloads-ipc/src/client.rs; quit_service in                 *)
(* crates/lyra-downloads-gtk/src/backend.rs).                               *)
(*                                                                          *)
(* A request is only "the change the caller wants": what it does to the     *)
(* downloads is DownloadService.  What matters here is which process        *)
(* executes it, how often, and what the caller is told.                     *)
(***************************************************************************)
EXTENDS Naturals, FiniteSets

CONSTANTS
    Backends,  \* processes that may ever be started (bound)
    Clients,   \* calls that may ever be made (bound)
    NoBackend, \* no lock holder, no socket file, no connection
    MaxFaults  \* bound: crashes and expired timeouts together

ASSUME LifecycleAssumption ==
    /\ NoBackend \notin Backends
    /\ MaxFaults \in Nat

VARIABLES
    life,     \* where each backend process is
    lock,     \* the process that holds the instance lock
    socket,   \* the process whose listener the socket's path leads to
    call,     \* where each call is
    conn,     \* the process each call is connected to
    started,  \* the call has started a backend
    done,     \* history: how often the change of a call was executed
    faults,   \* crashes and expired timeouts so far (bounded by MaxFaults)
    quits     \* history: some backend was asked to shut down

processVars == <<life, lock, socket>>
callVars == <<call, conn, started>>
vars == <<processVars, callVars, done, faults, quits>>

\* stopping: Service::shutdown holds the mutex.  closing: it has finished and
\* run has not woken up.  closed: the socket is removed.  exiting: run has
\* returned and dropped the lock; the tasks of the runtime are not dropped yet.
Lives == {"unborn", "starting", "booting", "serving", "stopping", "closing",
          "closed", "exiting", "gone"}
Listening == {"serving", "stopping", "closing"}

\* Processes whose connection tasks can take the service's mutex: aborting the
\* accept loop does not end them.
Handling == {"serving", "closing", "closed", "exiting"}

\* "late": the client gave up with its request still in the backend.
Connected == {"health", "ready", "sent", "late", "answered", "quit"}
Calls == Connected \cup {"idle", "connect", "start", "ok", "unavailable", "over"}
Ended == {"late", "ok", "unavailable", "over"}

TypeOK ==
    /\ life \in [Backends -> Lives]
    /\ {lock, socket} \subseteq Backends \cup {NoBackend}
    /\ call \in [Clients -> Calls]
    /\ conn \in [Clients -> Backends \cup {NoBackend}]
    /\ \A c \in Clients : call[c] \in Connected => conn[c] # NoBackend
    /\ started \in [Clients -> BOOLEAN]
    /\ done \in [Clients -> Nat]
    /\ faults \in 0..MaxFaults
    /\ quits \in BOOLEAN

Init ==
    /\ life = [b \in Backends |-> "unborn"]
    /\ lock = NoBackend
    /\ socket = NoBackend
    /\ call = [c \in Clients |-> "idle"]
    /\ conn = [c \in Clients |-> NoBackend]
    /\ started = [c \in Clients |-> FALSE]
    /\ done = [c \in Clients |-> 0]
    /\ faults = 0
    /\ quits = FALSE

Fault == faults < MaxFaults /\ faults' = faults + 1
Become(b, stage) == life' = [life EXCEPT ![b] = stage]
Goto(c, place) == call' = [call EXCEPT ![c] = place]

\* The call ends; its connection is of no interest any more.
Return(c, result) ==
    /\ Goto(c, result)
    /\ conn' = [conn EXCEPT ![c] = NoBackend]
    /\ started' = [started EXCEPT ![c] = FALSE]

-----------------------------------------------------------------------------
(* The backend process.                                                    *)

\* acquire_instance_lock; without the lock the process ends (Ok(false))
TakeLock(b) ==
    /\ life[b] = "starting"
    /\ IF lock = NoBackend
       THEN lock' = b /\ Become(b, "booting")
       ELSE UNCHANGED lock /\ Become(b, "gone")
    /\ UNCHANGED <<socket, callVars, done, faults, quits>>

\* After the first tick: bind removes whatever the path leads to.
Bind(b) ==
    /\ life[b] = "booting"
    /\ Become(b, "serving")
    /\ socket' = b
    /\ UNCHANGED <<lock, callVars, done, faults, quits>>

\* SIGTERM or SIGINT
Signal(b) ==
    /\ life[b] = "serving"
    /\ Become(b, "stopping")
    /\ quits' = TRUE
    /\ UNCHANGED <<lock, socket, callVars, done, faults>>

\* Service::shutdown returns: the engine has stopped, the mutex is free.
Stopped(b) ==
    /\ life[b] = "stopping"
    /\ Become(b, "closing")
    /\ UNCHANGED <<lock, socket, callVars, done, faults, quits>>

\* run wakes up: the accept loop is aborted and the path removed.
Unlink(b) ==
    /\ life[b] = "closing"
    /\ Become(b, "closed")
    /\ socket' = NoBackend
    /\ UNCHANGED <<lock, callVars, done, faults, quits>>

\* run returns and drops the lock ...
Unlock(b) ==
    /\ life[b] = "closed"
    /\ Become(b, "exiting")
    /\ lock' = NoBackend
    /\ UNCHANGED <<socket, callVars, done, faults, quits>>

\* Broken variant: the path is removed after the lock is gone.
ExitUnlinks(b) ==
    /\ life[b] = "exiting"
    /\ Become(b, "gone")
    /\ socket' = NoBackend
    /\ UNCHANGED <<lock, callVars, done, faults, quits>>

\* ... and the runtime drops the tasks that are left.
Exit(b) ==
    /\ life[b] = "exiting"
    /\ Become(b, "gone")
    /\ UNCHANGED <<lock, socket, callVars, done, faults, quits>>

\* The kernel releases the lock; the socket's path stays.
Crash(b) ==
    /\ life[b] \notin {"unborn", "gone"}
    /\ Fault
    /\ Become(b, "gone")
    /\ lock' = IF lock = b THEN NoBackend ELSE lock
    /\ UNCHANGED <<socket, callVars, done, quits>>

-----------------------------------------------------------------------------
(* A call.                                                                 *)

Alive(b) == b # NoBackend /\ life[b] \notin {"unborn", "gone"}
Accepts(b) == b # NoBackend /\ life[b] \in Listening

\* connect_or_spawn
Begin(c) ==
    /\ call[c] = "idle"
    /\ Goto(c, "connect")
    /\ UNCHANGED <<processVars, conn, started, done, faults, quits>>

\* connect, and the health request of connect_ready
Connect(c) ==
    /\ call[c] = "connect" /\ Accepts(socket)
    /\ conn' = [conn EXCEPT ![c] = socket]
    /\ Goto(c, "health")
    /\ UNCHANGED <<processVars, started, done, faults, quits>>

ConnectFails(c) ==
    /\ call[c] = "connect" /\ ~Accepts(socket) /\ ~started[c]
    /\ Goto(c, "start")
    /\ UNCHANGED <<processVars, conn, started, done, faults, quits>>

\* Processes that were never started are alike: which one comes next is immaterial.
Unborn == {b \in Backends : life[b] = "unborn"}

\* spawn_backend_detached, once per call; it may fail.
StartBackend(c) ==
    /\ call[c] = "start"
    /\ \/ /\ Unborn # {}
          /\ Become(CHOOSE b \in Unborn : TRUE, "starting")
          /\ started' = [started EXCEPT ![c] = TRUE]
          /\ Goto(c, "connect") /\ UNCHANGED <<conn, faults>>
       \/ /\ Fault /\ Return(c, "unavailable") /\ UNCHANGED life
    /\ UNCHANGED <<lock, socket, done, quits>>

\* Broken variant: the client does not wait for the backend it started.
DeadlineAtOnce(c) ==
    /\ call[c] = "connect" /\ started[c] /\ ~Accepts(socket)
    /\ Return(c, "unavailable")
    /\ UNCHANGED <<processVars, done, faults, quits>>

\* Broken variant: the client waits for ever.
DeadlineNever(c) == FALSE

\* The 10 s after the start are over.  With a backend on its way that is a slow
\* start, and counts as an expired timeout.
Deadline(c) ==
    /\ call[c] = "connect" /\ started[c] /\ ~Accepts(socket)
    /\ Return(c, "unavailable")
    /\ IF \E b \in Backends : life[b] \in {"starting", "booting"}
       THEN Fault ELSE UNCHANGED faults
    /\ UNCHANGED <<processVars, done, quits>>

\* Health takes the mutex and answers, whatever shutting_down says.
Health(c) ==
    /\ call[c] = "health" /\ life[conn[c]] \in Handling
    /\ Goto(c, "ready")
    /\ UNCHANGED <<processVars, conn, started, done, faults, quits>>

\* Dropping the listener resets the connections it has not accepted yet.
Ends(b) == ~Alive(b) \/ life[b] \in {"closed", "exiting"}

\* Broken variant: connect_ready ignores the outcome of its request.
HealthIgnored(c) ==
    /\ call[c] = "health" /\ Ends(conn[c])
    /\ Goto(c, "ready")
    /\ conn' = [conn EXCEPT ![c] = NoBackend]
    /\ UNCHANGED <<processVars, started, done, faults, quits>>

\* The connection ends, or nothing is read for 30 s: connect_ready fails.  A
\* slow answer after the start is past the deadline, and ends the call.
HealthFails(c) ==
    /\ call[c] = "health"
    /\ conn' = [conn EXCEPT ![c] = NoBackend]
    /\ \/ /\ Ends(conn[c])
          /\ Goto(c, IF started[c] THEN "connect" ELSE "start")
          /\ UNCHANGED <<started, faults>>
       \/ /\ Alive(conn[c]) /\ Fault
          /\ IF started[c] THEN Return(c, "unavailable") ELSE Goto(c, "start") /\ UNCHANGED started
    /\ UNCHANGED <<processVars, done, quits>>

\* request_raw writes the caller's request, once.
Send(c) ==
    /\ call[c] = "ready"
    /\ IF Alive(conn[c]) THEN Goto(c, "sent") /\ UNCHANGED <<conn, started>>
                         ELSE Return(c, "unavailable")
    /\ UNCHANGED <<processVars, done, faults, quits>>

\* The backend executes the request, also one nobody waits for any more.
Execute(c) ==
    /\ call[c] \in {"sent", "late"} /\ life[conn[c]] \in Handling
    /\ done' = [done EXCEPT ![c] = @ + 1]
    /\ IF call[c] = "sent" THEN Goto(c, "answered") /\ UNCHANGED <<conn, started>>
                           ELSE Return(c, "over")
    /\ UNCHANGED <<processVars, faults, quits>>

\* Nothing came for 30 s; the request stays in the backend.
ReadTimeout(c) ==
    /\ call[c] = "sent" /\ Alive(conn[c])
    /\ Fault
    /\ Goto(c, "late")
    /\ UNCHANGED <<processVars, conn, started, done, quits>>

\* The connection ended without an answer; the request is not repeated.
Broken(c) ==
    /\ call[c] = "sent" /\ ~Alive(conn[c])
    /\ Return(c, "unavailable")
    /\ UNCHANGED <<processVars, done, faults, quits>>

\* Broken variant: a lost answer makes the client ask again.
ReceiveAgain(c) ==
    /\ call[c] = "answered"
    /\ IF Alive(conn[c]) THEN Return(c, "ok") ELSE Goto(c, "connect") /\ UNCHANGED <<conn, started>>
    /\ UNCHANGED <<processVars, done, faults, quits>>

\* The answer is read, unless the process died before it was written.
Receive(c) ==
    /\ call[c] = "answered"
    /\ \/ Return(c, "ok")
       \/ ~Alive(conn[c]) /\ Return(c, "unavailable")
    /\ UNCHANGED <<processVars, done, faults, quits>>

\* quit_service: connect only, and ask the backend to shut down
Quit(c) ==
    /\ call[c] = "idle"
    /\ IF Accepts(socket)
       THEN Goto(c, "quit") /\ conn' = [conn EXCEPT ![c] = socket]
       ELSE Goto(c, "over") /\ UNCHANGED conn
    /\ UNCHANGED <<processVars, started, done, faults, quits>>

\* Op::Shutdown takes the mutex; a second one returns at once.  The caller does
\* not look at the outcome.
QuitExecutes(c) ==
    /\ call[c] = "quit"
    /\ \/ /\ life[conn[c]] = "serving"
          /\ Become(conn[c], "stopping") /\ quits' = TRUE
       \/ /\ life[conn[c]] \in Handling \ {"serving"} \/ Ends(conn[c])
          /\ UNCHANGED <<life, quits>>
    /\ Return(c, "over")
    /\ UNCHANGED <<lock, socket, done, faults>>

-----------------------------------------------------------------------------
Process(b) ==
    \/ TakeLock(b) \/ Bind(b) \/ Stopped(b) \/ Unlink(b) \/ Unlock(b) \/ Exit(b)

Caller(c) ==
    \/ Connect(c) \/ ConnectFails(c) \/ StartBackend(c) \/ Deadline(c) \/ Health(c) \/ HealthFails(c)
    \/ Send(c) \/ Execute(c) \/ Broken(c) \/ Receive(c) \/ QuitExecutes(c)

\* Every backend may be gone and every call have ended.
Over ==
    /\ \A c \in Clients : call[c] \in Ended
    /\ UNCHANGED vars

Next ==
    \/ \E b \in Backends : Process(b) \/ Signal(b) \/ Crash(b)
    \/ \E c \in Clients : Caller(c) \/ Begin(c) \/ Quit(c) \/ ReadTimeout(c)
    \/ Over

Spec == Init /\ [][Next]_vars

\* The processes and the threads of the clients are scheduled; nobody has to
\* call, to quit, to send a signal or to crash.
FairSpec ==
    /\ Spec
    /\ \A b \in Backends : WF_vars(Process(b))
    /\ \A c \in Clients : WF_vars(Caller(c))

-----------------------------------------------------------------------------
(* Properties.                                                             *)

\* The path always leads to the backend that serves: nothing an older or a
\* losing process does on its way out removes it (bind, the remove_file at the
\* end of run, and the lock that orders them).
Reachable == \A b \in Backends : life[b] \in Listening => socket = b

\* "never retry the caller's mutating request": whatever fails on the way, the
\* change of a call is executed at most once, and a caller that was told it
\* succeeded had it executed.
ExecutedOnce ==
    \A c \in Clients : done[c] <= 1 /\ (call[c] = "ok" => done[c] = 1)

\* Callers that find no backend all at once start several; the lock lets one
\* live, and it serves them all: without a shutdown, a crash or an expired
\* timeout nobody is told that the service is unavailable.
CallsServed ==
    (faults = 0 /\ ~quits) => \A c \in Clients : call[c] # "unavailable"

\* Every call of connect_or_spawn and request_raw ends, whatever dies.
CallEnds == \A c \in Clients : call[c] = "connect" ~> call[c] \in Ended
=============================================================================
