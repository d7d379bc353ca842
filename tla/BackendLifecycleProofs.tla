----------------------- MODULE BackendLifecycleProofs -----------------------
(***************************************************************************)
(* Proofs about BackendLifecycle, for any backends, clients and faults: the *)
(* types, that the socket's path leads to the backend that listens, that a  *)
(* change is executed at most once, and that a healthy service turns nobody *)
(* away.                                                                    *)
(***************************************************************************)
EXTENDS BackendLifecycle, TLAPS

-----------------------------------------------------------------------------
(* Types.                                                                  *)

\* The three parts of TypeOK: places, numbers and the history of shutdowns.
Placed ==
    /\ life \in [Backends -> Lives]
    /\ lock \in Backends \cup {NoBackend} /\ socket \in Backends \cup {NoBackend}
    /\ call \in [Clients -> Calls]
    /\ conn \in [Clients -> Backends \cup {NoBackend}]
    /\ \A c \in Clients : call[c] \in Connected => conn[c] # NoBackend
    /\ started \in [Clients -> BOOLEAN]

Counted == done \in [Clients -> Nat] /\ faults \in 0..MaxFaults

LEMMA PlacedStep ==
    ASSUME Placed, [Next]_vars
    PROVE  Placed'
<1> USE DEF Placed
<1>1. ASSUME NEW b \in Backends, Process(b)
      PROVE  Placed'
  BY <1>1 DEF Process, TakeLock, Bind, Stopped, Unlink, Unlock, Exit, Become, Lives, callVars
<1>2. ASSUME NEW b \in Backends, Signal(b) \/ Crash(b)
      PROVE  Placed'
  BY <1>2 DEF Signal, Crash, Become, Lives, callVars
<1>3. ASSUME NEW c \in Clients, Caller(c)
      PROVE  Placed'
  <2> USE DEF Connected, Calls, Goto, Return, processVars
  <2>1. CASE Connect(c) \/ ConnectFails(c)
    BY <2>1 DEF Connect, ConnectFails, Accepts
  <2>2. CASE StartBackend(c)
    <3>1. Unborn # {} => (CHOOSE b \in Unborn : TRUE) \in Backends
      BY DEF Unborn
    <3>2. QED
      BY <2>2, <3>1 DEF StartBackend, Become, Lives
  <2>3. CASE Deadline(c)
    BY <2>3 DEF Deadline
  <2>4. CASE Health(c) \/ HealthFails(c)
    BY <2>4 DEF Health, HealthFails
  <2>5. CASE Send(c) \/ Execute(c)
    BY <2>5 DEF Send, Execute
  <2>6. CASE Broken(c) \/ Receive(c)
    BY <2>6 DEF Broken, Receive
  <2>7. CASE QuitExecutes(c)
    BY <2>7 DEF QuitExecutes, Become, Lives
  <2>8. QED
    BY <1>3, <2>1, <2>2, <2>3, <2>4, <2>5, <2>6, <2>7 DEF Caller
<1>4. ASSUME NEW c \in Clients, Begin(c) \/ Quit(c) \/ ReadTimeout(c)
      PROVE  Placed'
  BY <1>4 DEF Begin, Quit, ReadTimeout, Accepts, Connected, Calls, Goto, processVars
<1>5. CASE UNCHANGED vars
  BY <1>5 DEF vars, processVars, callVars
<1>6. QED
  BY <1>1, <1>2, <1>3, <1>4, <1>5 DEF Next, Over

LEMMA CountedStep ==
    ASSUME Counted, [Next]_vars
    PROVE  Counted'
<1>1. faults' \in 0..MaxFaults
  <2>1. Fault => faults' \in 0..MaxFaults
    BY LifecycleAssumption DEF Counted, Fault
  <2>2. faults' = faults \/ Fault
    BY DEF Next, Over, vars, callVars, Process, TakeLock, Bind, Stopped, Unlink, Unlock, Exit, Signal,
       Crash, Caller, Connect, ConnectFails, StartBackend, Deadline, Health, HealthFails, Send,
       Execute, Broken, Receive, QuitExecutes, Begin, Quit, ReadTimeout
  <2>3. QED
    BY <2>1, <2>2 DEF Counted
<1>2. done' \in [Clients -> Nat]
  <2>1. done' = done \/ \E c \in Clients : done' = [done EXCEPT ![c] = @ + 1]
    BY DEF Next, Over, vars, callVars, Process, TakeLock, Bind, Stopped, Unlink, Unlock, Exit, Signal,
       Crash, Caller, Connect, ConnectFails, StartBackend, Deadline, Health, HealthFails, Send,
       Execute, Broken, Receive, QuitExecutes, Begin, Quit, ReadTimeout
  <2>2. QED
    BY <2>1 DEF Counted
<1>3. QED
  BY <1>1, <1>2 DEF Counted

LEMMA QuitsStep ==
    ASSUME quits \in BOOLEAN, [Next]_vars
    PROVE  quits' \in BOOLEAN
<1>1. quits' = quits \/ quits' = TRUE
  <2>1. ASSUME NEW b \in Backends, Process(b) \/ Signal(b) \/ Crash(b)
        PROVE  quits' = quits \/ quits' = TRUE
    BY <2>1 DEF Process, TakeLock, Bind, Stopped, Unlink, Unlock, Exit, Signal, Crash
  <2>2. ASSUME NEW c \in Clients, Caller(c) \/ Begin(c) \/ Quit(c) \/ ReadTimeout(c)
        PROVE  quits' = quits \/ quits' = TRUE
    BY <2>2 DEF Caller, Connect, ConnectFails, StartBackend, Deadline, Health, HealthFails, Send,
         Execute, Broken, Receive, QuitExecutes, Begin, Quit, ReadTimeout
  <2>3. QED
    BY <2>1, <2>2 DEF Next, Over, vars
<1>2. QED
  BY <1>1

LEMMA TypeInit == Init => TypeOK
<1> SUFFICES ASSUME Init PROVE TypeOK
  OBVIOUS
<1>1. Placed
  BY DEF Init, Placed, Lives, Calls, Connected
<1>2. faults \in 0..MaxFaults
  BY LifecycleAssumption DEF Init
<1>3. done \in [Clients -> Nat]
  BY DEF Init
<1>4. quits \in BOOLEAN
  BY DEF Init
<1>5. QED
  BY <1>1, <1>2, <1>3, <1>4 DEF TypeOK, Placed

LEMMA TypeStep ==
    ASSUME TypeOK, [Next]_vars
    PROVE  TypeOK'
<1>1. Placed /\ Counted
  BY DEF TypeOK, Placed, Counted
<1>2. quits' \in BOOLEAN
  BY QuitsStep DEF TypeOK
<1>3. Placed' /\ Counted'
  BY <1>1, PlacedStep, CountedStep
<1>4. QED
  BY <1>2, <1>3 DEF TypeOK, Placed, Counted

\* Every reachable state is of the declared type: no call is answered by, and
\* no lock or path belongs to, anything but a backend.
THEOREM LifecycleTypeCorrect == Spec => []TypeOK
BY TypeInit, TypeStep, PTL DEF Spec

-----------------------------------------------------------------------------
(* The path and the lock.                                                  *)

\* The processes between acquire_instance_lock and the end of run.
Holding == {"booting", "serving", "stopping", "closing", "closed"}

\* The lock is held by exactly the process that is on its way through run.
LockIsHeld == \A b \in Backends : life[b] \in Holding <=> lock = b

LEMMA PathStep ==
    ASSUME TypeOK, LockIsHeld, Reachable, [Next]_vars
    PROVE  LockIsHeld' /\ Reachable'
<1> USE LifecycleAssumption DEF TypeOK, LockIsHeld, Reachable, Holding, Listening
<1>1. ASSUME NEW b \in Backends, Process(b)
      PROVE  LockIsHeld' /\ Reachable'
  BY <1>1 DEF Process, TakeLock, Bind, Stopped, Unlink, Unlock, Exit, Become
<1>2. ASSUME NEW b \in Backends, Signal(b) \/ Crash(b)
      PROVE  LockIsHeld' /\ Reachable'
  BY <1>2 DEF Signal, Crash, Become
<1>3. ASSUME NEW c \in Clients, StartBackend(c)
      PROVE  LockIsHeld' /\ Reachable'
  <2>1. Unborn # {} => (CHOOSE b \in Unborn : TRUE) \in Unborn
    OBVIOUS
  <2>2. QED
    BY <1>3, <2>1 DEF StartBackend, Become, Unborn
<1>4. ASSUME NEW c \in Clients, QuitExecutes(c)
      PROVE  LockIsHeld' /\ Reachable'
  BY <1>4 DEF QuitExecutes, Become
<1>5. CASE UNCHANGED processVars
  BY <1>5 DEF processVars
<1>6. ASSUME NEW c \in Clients, Caller(c) \/ Begin(c) \/ Quit(c) \/ ReadTimeout(c)
      PROVE  LockIsHeld' /\ Reachable'
  BY <1>3, <1>4, <1>5, <1>6
  DEF Caller, Connect, ConnectFails, Deadline, Health, HealthFails, Send, Execute, Broken,
      Receive, Begin, Quit, ReadTimeout
<1>7. QED
  BY <1>1, <1>2, <1>5, <1>6 DEF Next, Over, vars

\* The socket's path always leads to the backend that listens: the lock orders
\* what one process removes after what its successor binds.
THEOREM PathServes == Spec => []Reachable
<1>1. Init => TypeOK /\ LockIsHeld /\ Reachable
  BY LifecycleAssumption, TypeInit DEF Init, LockIsHeld, Reachable, Holding, Listening
<1>2. TypeOK /\ LockIsHeld /\ Reachable /\ [Next]_vars => (TypeOK /\ LockIsHeld /\ Reachable)'
  BY TypeStep, PathStep
<1>3. QED
  BY <1>1, <1>2, PTL DEF Spec

-----------------------------------------------------------------------------
(* At most one execution.                                                  *)

\* A call whose request was not executed yet, and one whose answer is known.
Pending == {"idle", "connect", "start", "health", "ready", "sent", "late", "quit"}

OnceInv ==
    \A c \in Clients :
        /\ call[c] \in Pending => done[c] = 0
        /\ call[c] \in {"answered", "ok"} => done[c] = 1
        /\ done[c] <= 1

LEMMA OnceStep ==
    ASSUME TypeOK, OnceInv, [Next]_vars
    PROVE  OnceInv'
<1> USE DEF TypeOK, OnceInv, Pending, Goto, Return
<1>1. CASE UNCHANGED <<call, done>>
  BY <1>1
<1>2. ASSUME NEW c \in Clients, Caller(c)
      PROVE  OnceInv'
  <2>1. CASE Connect(c) \/ ConnectFails(c) \/ StartBackend(c) \/ Deadline(c)
    BY <2>1 DEF Connect, ConnectFails, StartBackend, Deadline
  <2>2. CASE Health(c) \/ HealthFails(c) \/ Send(c)
    BY <2>2 DEF Health, HealthFails, Send
  <2>3. CASE Execute(c)
    BY <2>3 DEF Execute
  <2>4. CASE Broken(c) \/ Receive(c) \/ QuitExecutes(c)
    BY <2>4 DEF Broken, Receive, QuitExecutes
  <2>5. QED
    BY <1>2, <2>1, <2>2, <2>3, <2>4 DEF Caller
<1>3. ASSUME NEW c \in Clients, Begin(c) \/ Quit(c) \/ ReadTimeout(c)
      PROVE  OnceInv'
  BY <1>3 DEF Begin, Quit, ReadTimeout
<1>4. QED
  BY <1>1, <1>2, <1>3
  DEF Next, Over, vars, callVars, Process, TakeLock, Bind, Stopped, Unlink, Unlock, Exit, Signal, Crash

\* Whatever dies, times out or is started again, the change of a call is
\* executed at most once, and a caller that was told so had it executed.
THEOREM ChangesExecutedOnce == Spec => []ExecutedOnce
<1>1. Init => TypeOK /\ OnceInv
  BY TypeInit DEF Init, OnceInv, Pending
<1>2. TypeOK /\ OnceInv /\ [Next]_vars => (TypeOK /\ OnceInv)'
  BY TypeStep, OnceStep
<1>3. OnceInv => ExecutedOnce
  BY DEF OnceInv, ExecutedOnce
<1>4. QED
  BY <1>1, <1>2, <1>3, PTL DEF Spec

-----------------------------------------------------------------------------
(* A healthy service serves everyone.                                      *)

Calm == faults = 0 /\ ~quits

\* As long as nothing crashes, expires or is told to end: once a process was
\* started one is on its way or serves, and every connection leads to it.
CalmInv ==
    Calm =>
      /\ \A b \in Backends : life[b] \in {"unborn", "starting", "booting", "serving", "gone"}
      /\ (\E b \in Backends : life[b] # "unborn")
           => lock # NoBackend \/ \E b \in Backends : life[b] = "starting"
      /\ \A c \in Clients :
           /\ started[c] => \E b \in Backends : life[b] # "unborn"
           /\ call[c] \in {"health", "ready", "sent", "answered"}
                => conn[c] \in Backends /\ life[conn[c]] = "serving"
           /\ call[c] # "unavailable"

LEMMA CalmStep ==
    ASSUME TypeOK, LockIsHeld, Reachable, CalmInv, [Next]_vars
    PROVE  CalmInv'
<1> USE LifecycleAssumption DEF TypeOK, LockIsHeld, Reachable, CalmInv, Calm, Holding, Listening
<1>1. ASSUME NEW b \in Backends, Process(b)
      PROVE  CalmInv'
  <2>1. CASE TakeLock(b)
    BY <2>1 DEF TakeLock, Become, callVars
  <2>2. CASE Bind(b)
    BY <2>2 DEF Bind, Become, callVars
  <2>3. CASE Stopped(b) \/ Unlink(b) \/ Unlock(b) \/ Exit(b)
    BY <2>3 DEF Stopped, Unlink, Unlock, Exit
  <2>4. QED
    BY <1>1, <2>1, <2>2, <2>3 DEF Process
<1>2. ASSUME NEW b \in Backends, Signal(b) \/ Crash(b)
      PROVE  CalmInv'
  BY <1>2 DEF Signal, Crash, Fault
<1>3. ASSUME NEW c \in Clients, Caller(c)
      PROVE  CalmInv'
  <2> USE DEF Goto, Return, processVars, Fault
  <2>1. CASE Connect(c) \/ ConnectFails(c)
    BY <2>1 DEF Connect, ConnectFails, Accepts
  <2>2. CASE StartBackend(c)
    <3>1. Unborn # {} => (CHOOSE b \in Unborn : TRUE) \in Unborn
      OBVIOUS
    <3>2. CASE Fault
      BY <3>2
    <3>3. CASE ~Fault
      <4>1. PICK b \in Backends :
                /\ life[b] = "unborn" /\ life' = [life EXCEPT ![b] = "starting"]
                /\ call' = [call EXCEPT ![c] = "connect"] /\ started' = [started EXCEPT ![c] = TRUE]
                /\ UNCHANGED <<conn, faults, quits, lock>>
        BY <2>2, <3>1, <3>3 DEF StartBackend, Become, Unborn
      <4>2. life'[b] = "starting"
        BY <4>1
      <4>3. QED
        BY <4>1, <4>2
    <3>4. QED
      BY <3>2, <3>3
  <2>3. CASE Deadline(c)
    <3>1. ASSUME Calm, \A b \in Backends : life[b] \notin {"starting", "booting"}
          PROVE  FALSE
      <4>1. lock \in Backends /\ life[lock] = "serving"
        BY <2>3, <3>1 DEF Deadline
      <4>2. QED
        BY <2>3, <4>1 DEF Deadline, Accepts
    <3>2. QED
      BY <2>3, <3>1 DEF Deadline
  <2>4. CASE Health(c) \/ HealthFails(c)
    BY <2>4 DEF Health, HealthFails, Ends, Alive
  <2>5. CASE Send(c) \/ Execute(c)
    BY <2>5 DEF Send, Execute, Alive
  <2>6. CASE Broken(c) \/ Receive(c)
    BY <2>6 DEF Broken, Receive, Alive
  <2>7. CASE QuitExecutes(c)
    BY <2>7 DEF QuitExecutes, Become, Ends, Alive
  <2>8. QED
    BY <1>3, <2>1, <2>2, <2>3, <2>4, <2>5, <2>6, <2>7 DEF Caller
<1>4. ASSUME NEW c \in Clients, Begin(c) \/ Quit(c) \/ ReadTimeout(c)
      PROVE  CalmInv'
  BY <1>4 DEF Begin, Quit, ReadTimeout, Goto, processVars, Fault
<1>5. CASE UNCHANGED vars
  BY <1>5 DEF vars, processVars, callVars
<1>6. QED
  BY <1>1, <1>2, <1>3, <1>4, <1>5 DEF Next, Over

\* Without a shutdown, a crash or an expired timeout no caller is told that the
\* service is unavailable, however many processes the callers started at once.
THEOREM HealthyServesAll == Spec => []CallsServed
<1> DEFINE Inv == TypeOK /\ LockIsHeld /\ Reachable /\ CalmInv
<1>1. Init => Inv
  BY LifecycleAssumption, TypeInit
  DEF Init, LockIsHeld, Reachable, Holding, Listening, CalmInv, Calm
<1>2. Inv /\ [Next]_vars => Inv'
  BY TypeStep, PathStep, CalmStep
<1>3. Inv => CallsServed
  BY DEF CalmInv, Calm, CallsServed
<1>4. QED
  BY <1>1, <1>2, <1>3, PTL DEF Spec
=============================================================================
