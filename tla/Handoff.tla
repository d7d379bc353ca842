------------------------------ MODULE Handoff ------------------------------
(***************************************************************************)
(* The automatic handoff of a download from Firefox to Lyra: the native     *)
(* host that forwards the messages of the extension                         *)
(* (crates/lyra-downloads-nativehost/src/lib.rs and main.rs), the part of   *)
(* Service::add and Service::cancel_by_request_key that goes by the request *)
(* key (crates/lyra-downloads-backend/src/service.rs), and the extension    *)
(* itself, which is not in this repository, as docs/PROTOCOL.md section 3   *)
(* describes it.                                                            *)
(*                                                                          *)
(* A message may wait in its host for as long as it likes, so messages      *)
(* overtake each other and reach the backend after the extension has given  *)
(* up on them; an answer may be lost, or replaced by a transport error.     *)
(* What the engine does is reduced to whether it transfers the task; that a *)
(* confirmed cancellation has stopped it is DownloadService's               *)
(* ConfirmedStopped.                                                        *)
(***************************************************************************)
EXTENDS Naturals

CONSTANTS
    Keys,          \* request ids of the extension, one per download it hands off
    EngineForgets, \* aria2 may lose the end of a transfer before the tick reads
                   \* it: it dies, or moves the download between its lists
    MaxCalls       \* bound: messages the extension sends about one download

ASSUME HandoffAssumption ==
    /\ EngineForgets \in BOOLEAN
    /\ MaxCalls \in Nat

VARIABLES
    ext,      \* state of the handoff in the extension
    made,     \* messages sent about each download
    host,     \* messages in a native host, not yet with the backend
    reply,    \* the answer to the last message about each download
    task,     \* the task of each key
    revoked,  \* keys in cancelled_requests
    engine,   \* what aria2 does for each task
    created,  \* history: tasks ever created for each key
    revived   \* history: the user has started again a task its browser had revoked

extVars == <<ext, made>>
lyraVars == <<task, revoked, engine, created, revived>>
vars == <<extVars, host, reply, lyraVars>>

\* enviando (first message, second message, cancel_handoff), repassado,
\* mantido_no_firefox, repasse_incerto; "firefox": not offered
Waiting == {"sent", "resent", "cancelling"}
ExtState == Waiting \cup {"firefox", "handed", "kept", "uncertain"}

\* handoff: accepted, refused (invalid_url, invalid_destination,
\* invalid_request).  cancel_handoff: stopped (revoked and not completed),
\* completed.  error: backend_error or app_unavailable.
Replies == {"accepted", "refused", "stopped", "completed", "error"}

\* "deleted": the task is gone and its key is still in request_keys.
TaskState == {"none", "active", "done", "failed", "cancelled", "deleted"}

Message == [key : Keys, op : {"handoff", "cancel_handoff"}, n : 1..MaxCalls]

TypeOK ==
    /\ ext \in [Keys -> ExtState]
    /\ made \in [Keys -> 0..MaxCalls]
    /\ host \in SUBSET Message
    /\ reply \in [Keys -> Replies \cup {"none"}]
    /\ task \in [Keys -> TaskState]
    /\ revoked \in SUBSET Keys
    /\ engine \in [Keys -> {"absent", "running", "complete"}]
    /\ created \in [Keys -> Nat]
    /\ revived \in SUBSET Keys
    /\ \A k \in Keys : engine[k] # "absent" => task[k] \in {"active", "cancelled"}

Init ==
    /\ ext = [k \in Keys |-> "firefox"]
    /\ made = [k \in Keys |-> 0]
    /\ host = {}
    /\ reply = [k \in Keys |-> "none"]
    /\ task = [k \in Keys |-> "none"]
    /\ revoked = {}
    /\ engine = [k \in Keys |-> "absent"]
    /\ created = [k \in Keys |-> 0]
    /\ revived = {}

-----------------------------------------------------------------------------
(* The extension.                                                          *)

\* The next message about a download; answers to earlier ones are ignored.
Ask(k, state, op) ==
    /\ made[k] < MaxCalls
    /\ made' = [made EXCEPT ![k] = @ + 1]
    /\ host' = host \cup {[key |-> k, op |-> op, n |-> made[k] + 1]}
    /\ ext' = [ext EXCEPT ![k] = state]
    /\ reply' = [reply EXCEPT ![k] = "none"]

Conclude(k, state) ==
    /\ ext' = [ext EXCEPT ![k] = state]
    /\ reply' = [reply EXCEPT ![k] = "none"]
    /\ UNCHANGED <<made, host>>

\* The download is paused and offered.
Offer(k) ==
    /\ ext[k] = "firefox"
    /\ Ask(k, "sent", "handoff")
    /\ UNCHANGED lyraVars

\* There is no native host: the download goes on.
HostMissing(k) ==
    /\ ext[k] = "firefox"
    /\ Conclude(k, "kept")
    /\ UNCHANGED lyraVars

\* Broken variant: nothing limits the wait for the answer to cancel_handoff.
TimeoutPatient(k) ==
    /\ ext[k] \in Waiting /\ reply[k] = "none"
    /\ \/ ext[k] = "sent" /\ Ask(k, "resent", "handoff")
       \/ ext[k] = "resent" /\ Ask(k, "cancelling", "cancel_handoff")
    /\ UNCHANGED lyraVars

\* 8 s without an answer: one more try with the same id, then cancel_handoff
Timeout(k) ==
    /\ ext[k] \in Waiting /\ reply[k] = "none"
    /\ \/ ext[k] = "sent" /\ Ask(k, "resent", "handoff")
       \/ ext[k] = "resent" /\ Ask(k, "cancelling", "cancel_handoff")
       \/ ext[k] = "cancelling" /\ Conclude(k, "uncertain")
    /\ UNCHANGED lyraVars

\* A refusal of the first message leaves nothing behind; any other failure is
\* settled by cancel_handoff, and only its confirmation lets Firefox go on.
Answered(k) ==
    /\ ext[k] \in Waiting
    /\ \/ reply[k] \in {"accepted", "completed"} /\ Conclude(k, "handed")
       \/ reply[k] = "stopped" /\ Conclude(k, "kept")
       \/ reply[k] = "refused" /\ ext[k] = "sent" /\ Conclude(k, "kept")
       \/ /\ \/ reply[k] = "error" /\ ext[k] # "cancelling"
             \/ reply[k] = "refused" /\ ext[k] = "resent"
          /\ Ask(k, "cancelling", "cancel_handoff")
       \/ reply[k] = "error" /\ ext[k] = "cancelling" /\ Conclude(k, "uncertain")
    /\ UNCHANGED lyraVars

\* "Recuperar no Firefox"
Recover(k) ==
    /\ ext[k] = "uncertain"
    /\ Ask(k, "cancelling", "cancel_handoff")
    /\ UNCHANGED lyraVars

\* The background page is created anew; an interrupted entry is uncertain.
ExtensionRestarts(k) ==
    /\ ext[k] \in Waiting
    /\ Conclude(k, "uncertain")
    /\ UNCHANGED lyraVars

-----------------------------------------------------------------------------
(* The native host and the backend.                                        *)

\* The answer to a message.  The host turns every failure of the connection
\* into app_unavailable, and may be gone with its answer.
Respond(m, answer) ==
    /\ host' = host \ {m}
    /\ IF ext[m.key] \in Waiting /\ m.n = made[m.key]
       THEN \E seen \in {answer, "error", "none"} : reply' = [reply EXCEPT ![m.key] = seen]
       ELSE UNCHANGED reply

\* The message never reaches a backend.
Unavailable(m) ==
    /\ Respond(m, "error")
    /\ UNCHANGED <<extVars, lyraVars>>

SetTask(k, state) == task' = [task EXCEPT ![k] = state]

\* The address or the destination is not valid, or the task cannot be stored.
Refuse(m) ==
    /\ \E refusal \in {"refused", "error"} : Respond(m, refusal)
    /\ UNCHANGED <<task, created>>

\* Broken variant: a new task is accepted before it is stored.
AcceptUnstored(m) ==
    /\ Respond(m, "accepted")
    /\ UNCHANGED <<task, created>>

\* The task and its key are stored in one transaction before the engine is told.
Accept(m) ==
    /\ SetTask(m.key, "active")
    /\ created' = [created EXCEPT ![m.key] = @ + 1]
    /\ Respond(m, "accepted")

\* Service::add, by the key: a revoked one is refused, a known one names its
\* task (whatever became of it), and one whose task is gone is an error.
AddDownload(m) ==
    LET k == m.key IN
    /\ \/ /\ k \in revoked \/ task[k] = "deleted"
          /\ Respond(m, "error") /\ UNCHANGED <<task, created>>
       \/ /\ k \notin revoked /\ task[k] \notin {"none", "deleted"}
          /\ Respond(m, "accepted") /\ UNCHANGED <<task, created>>
       \/ /\ k \notin revoked /\ task[k] = "none"
          /\ Refuse(m) \/ Accept(m)
    /\ UNCHANGED <<extVars, revoked, engine, revived>>

\* HostOp::Handoff
ForwardHandoff(m) == m.op = "handoff" /\ AddDownload(m)

\* Broken variant: a key without a task is not revoked.
RevokedIfFound(k) == IF task[k] = "none" THEN revoked ELSE revoked \cup {k}

Revoked(k) == revoked \cup {k}

\* The cancellation is confirmed: the engine does not know the download, or
\* has stopped it, and the row is saved.
ConfirmStopped(m) ==
    LET k == m.key IN
    /\ engine[k] # "complete"
    /\ engine' = [engine EXCEPT ![k] = "absent"]
    /\ SetTask(k, "cancelled")
    /\ revived' = revived \ {k}
    /\ Respond(m, "stopped")

\* The engine cannot be asked, does not confirm, or the row cannot be saved.
Unconfirmed(m) ==
    LET k == m.key IN
    /\ \E e \in {engine[k], IF engine[k] = "running" THEN "absent" ELSE engine[k]} :
         engine' = [engine EXCEPT ![k] = e]
    /\ Respond(m, "error")
    /\ UNCHANGED <<task, revived>>

\* The row says so, or the engine does and the row does not know it yet.
Transferred(k) ==
    task[k] = "done" \/ (engine[k] = "complete" /\ task[k] \in {"active", "cancelled"})

\* Service::cancel_by_request_key
CancelByRequestKey(m) ==
    LET k == m.key IN
    /\ revoked' = Revoked(k)
    /\ \/ /\ task[k] \in {"none", "deleted"}
          /\ Respond(m, "stopped") /\ UNCHANGED <<task, engine, revived>>
       \/ /\ Transferred(k)
          /\ Respond(m, "completed") /\ UNCHANGED <<task, engine, revived>>
       \/ task[k] \in {"active", "failed", "cancelled"} /\ ConfirmStopped(m)
       \/ task[k] \in {"active", "failed", "cancelled"} /\ Unconfirmed(m)
    /\ UNCHANGED <<extVars, created>>

\* The revocation itself cannot be stored.
CancelFails(m) ==
    /\ Respond(m, "error")
    /\ UNCHANGED <<extVars, lyraVars>>

\* HostOp::CancelHandoff
ForwardCancel(m) == m.op = "cancel_handoff" /\ (CancelByRequestKey(m) \/ CancelFails(m))

-----------------------------------------------------------------------------
(* What else happens to the task in Lyra.                                  *)

SetEngine(k, state) == engine' = [engine EXCEPT ![k] = state]
Elsewhere == UNCHANGED <<extVars, host, reply, revoked, created>>

\* submit, resume, or a tick
Starts(k) ==
    /\ task[k] = "active" /\ engine[k] = "absent"
    /\ SetEngine(k, "running")
    /\ Elsewhere /\ UNCHANGED <<task, revived>>

\* The end of the transfer, a pause, or the end of aria2
Stops(k) ==
    /\ \/ engine[k] = "running" /\ SetEngine(k, "complete")
       \/ engine[k] = "running" /\ SetEngine(k, "absent")
       \/ EngineForgets /\ engine[k] = "complete" /\ SetEngine(k, "absent")
    /\ Elsewhere /\ UNCHANGED <<task, revived>>

\* A tick reads the end of the transfer from the engine.
Settles(k) ==
    /\ task[k] = "active"
    /\ \/ engine[k] = "complete" /\ SetTask(k, "done")
       \/ engine[k] = "running" /\ SetTask(k, "failed")
    /\ SetEngine(k, "absent")
    /\ Elsewhere /\ UNCHANGED revived

\* Started by the user again, and not stopped for the browser since.
Revived(k) == IF k \in revoked THEN revived \cup {k} ELSE revived

\* Service::resume, of a row that was paused after aria2 had finished and before
\* a tick read it: submit drops the result and adds the download anew, or fails.
UserResumes(k) ==
    /\ task[k] = "active" /\ engine[k] = "complete"
    /\ \E e \in {"running", "absent"} : SetEngine(k, e)
    /\ revived' = Revived(k)
    /\ Elsewhere /\ UNCHANGED task

UserCancels(k) ==
    /\ task[k] = "active"
    /\ SetTask(k, "cancelled")
    /\ SetEngine(k, IF engine[k] = "running" THEN "absent" ELSE engine[k])
    /\ Elsewhere /\ UNCHANGED revived

\* Service::retry does not look at the revocation.
UserRetries(k) ==
    /\ task[k] \in {"failed", "cancelled"}
    /\ SetTask(k, "active")
    /\ SetEngine(k, "absent")
    /\ revived' = Revived(k)
    /\ Elsewhere

\* Broken variant: the request key goes with its task.
UserRemovesKey(k) ==
    /\ task[k] \in {"done", "failed", "cancelled"}
    /\ SetTask(k, "none")
    /\ SetEngine(k, "absent")
    /\ Elsewhere /\ UNCHANGED revived

\* Broken variant: aria2 keeps the result of the removed task.
UserRemovesRow(k) ==
    /\ task[k] \in {"done", "failed", "cancelled"}
    /\ SetTask(k, "deleted")
    /\ Elsewhere /\ UNCHANGED <<engine, revived>>

\* remove_from_history keeps the row of request_keys.
UserRemoves(k) ==
    /\ task[k] \in {"done", "failed", "cancelled"}
    /\ SetTask(k, "deleted")
    /\ SetEngine(k, "absent")
    /\ Elsewhere /\ UNCHANGED revived

-----------------------------------------------------------------------------
Extension(k) == Timeout(k) \/ Answered(k)

Next ==
    \/ \E k \in Keys :
         \/ Offer(k) \/ HostMissing(k) \/ Extension(k) \/ Recover(k) \/ ExtensionRestarts(k)
         \/ Starts(k) \/ Stops(k) \/ Settles(k)
         \/ UserResumes(k) \/ UserCancels(k) \/ UserRetries(k) \/ UserRemoves(k)
    \/ \E m \in host :
         Unavailable(m) \/ ForwardHandoff(m) \/ ForwardCancel(m)

Spec == Init /\ [][Next]_vars

\* The extension's timers run and it reads its answers.  The user, the hosts
\* and the engine owe nothing.
FairSpec == Spec /\ \A k \in Keys : WF_vars(Extension(k))

-----------------------------------------------------------------------------
(* Properties.                                                             *)

FirefoxCopy(k) == ext[k] \in {"firefox", "kept"}

\* "evita duas transferências": while Firefox transfers a download, at its
\* start or after it took it back, Lyra does not, whatever messages are still
\* under way; unless the user started the revoked task again.
OneCopy ==
    \A k \in Keys : FirefoxCopy(k) /\ engine[k] = "running" => k \in revived

\* "Reenviar a mesma chave devolve a mesma tarefa": two messages with the same
\* key create one task, also after the user has removed it.
OneTask == \A k \in Keys : created[k] <= 1

\* A download whose copy Firefox gives up was accepted durably, and no
\* cancel_handoff that is still under way takes it from Lyra.  The exception is
\* a task the user has started again in spite of its revocation: retried, or
\* paused and resumed when aria2 had finished and no tick had read it yet.
HandedStays ==
    [][\A k \in Keys : ext[k] = "handed" =>
          /\ created[k] = 1
          /\ task[k] = "active" /\ task'[k] = "cancelled" => host' = host \/ k \in revived]_vars

\* Every handoff ends, with an owner or as one the user is asked about.
HandoffEnds ==
    \A k \in Keys : ext[k] = "sent" ~> ext[k] \in {"handed", "kept", "uncertain"}

\* The handoff keeps the promise of HandoffOwner.
Owner == INSTANCE HandoffOwner WITH
    owner <- [k \in Keys |-> CASE ext[k] = "firefox" -> "firefox"
                               [] ext[k] = "kept" -> "kept"
                               [] ext[k] = "handed" -> "lyra"
                               [] OTHER -> "undecided"],
    copies <- [k \in Keys |-> (IF FirefoxCopy(k) THEN {"firefox"} ELSE {})
                               \cup (IF engine[k] = "running" THEN {"lyra"} ELSE {})],
    revived <- revived

OwnerSpec == Owner!Spec
=============================================================================
