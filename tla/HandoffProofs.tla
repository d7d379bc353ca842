---------------------------- MODULE HandoffProofs ----------------------------
(***************************************************************************)
(* Proofs about Handoff, for any keys and any number of messages: the       *)
(* types, that no download is transferred twice behind the user's back,     *)
(* that a key makes one task, that a download Lyra was given stays with it, *)
(* and that every step is one HandoffOwner allows.                          *)
(***************************************************************************)
EXTENDS Handoff, TLAPS

-----------------------------------------------------------------------------
(* Types.                                                                  *)

\* What a step of the extension or an answer does to the messages and replies.
LEMMA AskTypes ==
    ASSUME TypeOK, NEW k \in Keys, NEW state \in ExtState, NEW op \in {"handoff", "cancel_handoff"},
           Ask(k, state, op)
    PROVE  /\ ext' \in [Keys -> ExtState] /\ made' \in [Keys -> 0..MaxCalls]
           /\ host' \in SUBSET Message /\ reply' \in [Keys -> Replies \cup {"none"}]
<1>1. made[k] + 1 \in 1..MaxCalls
  BY HandoffAssumption DEF TypeOK, Ask
<1>2. [key |-> k, op |-> op, n |-> made[k] + 1] \in Message
  BY <1>1 DEF Message
<1>3. QED
  BY <1>1, <1>2 DEF TypeOK, Ask

LEMMA RespondTypes ==
    ASSUME TypeOK, NEW m \in host, NEW answer \in Replies, Respond(m, answer)
    PROVE  host' \in SUBSET Message /\ reply' \in [Keys -> Replies \cup {"none"}]
BY DEF TypeOK, Respond, Replies

LEMMA ExtensionTypes ==
    ASSUME TypeOK, NEW k \in Keys,
           Offer(k) \/ HostMissing(k) \/ Extension(k) \/ Recover(k) \/ ExtensionRestarts(k)
    PROVE  TypeOK'
<1>1. ASSUME NEW state \in ExtState, NEW op \in {"handoff", "cancel_handoff"},
             Ask(k, state, op), UNCHANGED lyraVars
      PROVE  TypeOK'
  BY <1>1, AskTypes DEF TypeOK, lyraVars
<1>2. ASSUME NEW state \in ExtState, Conclude(k, state), UNCHANGED lyraVars
      PROVE  TypeOK'
  BY <1>2 DEF TypeOK, lyraVars, Conclude
<1>3. QED
  BY <1>1, <1>2 DEF Offer, HostMissing, Extension, Timeout, Answered, Recover, ExtensionRestarts,
     ExtState, Waiting

LEMMA MessageTypes ==
    ASSUME TypeOK, NEW m \in host, Unavailable(m) \/ ForwardHandoff(m) \/ ForwardCancel(m)
    PROVE  TypeOK'
<1>1. m.key \in Keys
  BY DEF TypeOK, Message
<1>2. /\ host' \in SUBSET Message
      /\ reply' \in [Keys -> Replies \cup {"none"}]
  BY RespondTypes DEF Replies, Unavailable, ForwardHandoff, AddDownload, Refuse, Accept,
     ForwardCancel, CancelFails, CancelByRequestKey, ConfirmStopped, Unconfirmed
<1>3. UNCHANGED extVars
  BY DEF Unavailable, ForwardHandoff, AddDownload, ForwardCancel, CancelFails, CancelByRequestKey
<1>4. CASE Unavailable(m) \/ (ForwardCancel(m) /\ CancelFails(m))
  BY <1>2, <1>4 DEF Unavailable, CancelFails, TypeOK, extVars, lyraVars
<1>5. CASE ForwardHandoff(m)
  BY <1>1, <1>2, <1>5 DEF ForwardHandoff, AddDownload, Refuse, Accept, SetTask, TypeOK, TaskState, extVars
<1>6. CASE CancelByRequestKey(m)
  BY <1>1, <1>2, <1>6 DEF CancelByRequestKey, ConfirmStopped, Unconfirmed, Revoked, SetTask, TypeOK,
     TaskState, extVars
<1>7. QED
  BY <1>4, <1>5, <1>6 DEF ForwardCancel

LEMMA TaskTypes ==
    ASSUME TypeOK, NEW k \in Keys,
           \/ Starts(k) \/ Stops(k) \/ Settles(k)
           \/ UserResumes(k) \/ UserCancels(k) \/ UserRetries(k) \/ UserRemoves(k)
    PROVE  TypeOK'
BY DEF TypeOK, TaskState, Starts, Stops, Settles, UserResumes, UserCancels, UserRetries, UserRemoves,
   Revived, SetTask, SetEngine, Elsewhere, extVars

LEMMA TypeStep ==
    ASSUME TypeOK, [Next]_vars
    PROVE  TypeOK'
<1>1. CASE UNCHANGED vars
  BY <1>1 DEF vars, extVars, lyraVars, TypeOK
<1>2. QED
  BY <1>1, ExtensionTypes, MessageTypes, TaskTypes DEF Next

LEMMA TypeInit == Init => TypeOK
BY HandoffAssumption DEF Init, TypeOK, ExtState, TaskState

\* Every reachable state is of the declared type; in particular the engine has
\* only downloads of tasks that were not settled.
THEOREM HandoffTypeCorrect == Spec => []TypeOK
BY TypeInit, TypeStep, PTL DEF Spec

-----------------------------------------------------------------------------
(* What holds of each key.                                                 *)

Unsent(k) == \A m \in host : m.key # k
Untouched(k) == task[k] = "none" /\ Unsent(k)
Uncancelled(k) == \A m \in host : m.key = k => m.op = "handoff"

\* Lyra does not transfer the task, unless the user has started it again.
Safe(k) == k \in revoked /\ (task[k] = "active" => k \in revived)

\* No cancellation can take the task from Lyra, with the same exception.
Settled(k) == k \in revoked /\ (task[k] = "active" => engine[k] = "complete" \/ k \in revived)

\* Messages about a download are told apart by their numbers.
HostInv ==
    /\ \A m \in host : m.n <= made[m.key]
    /\ \A m, q \in host : m.key = q.key /\ m.n = q.n => m = q

\* Who may transfer a download, by the place of its handoff.
KeyInv(k) ==
    /\ engine[k] = "running" => task[k] = "active"
    /\ created[k] = IF task[k] = "none" THEN 0 ELSE 1
    /\ ext[k] = "firefox" => made[k] = 0 /\ k \notin revoked /\ Untouched(k)
    /\ ext[k] = "sent" => made[k] = 1
    /\ ext[k] = "kept" => Safe(k) \/ Untouched(k)
    /\ reply[k] # "none" => ext[k] \in Waiting /\ \A m \in host : m.key = k => m.n # made[k]
    /\ reply[k] = "stopped" => Safe(k)
    /\ reply[k] = "refused" /\ ext[k] = "sent" => Untouched(k)

Inv == TypeOK /\ HostInv /\ \A k \in Keys : KeyInv(k)

\* What a step about another key leaves as it was.
Same(j) ==
    /\ ext'[j] = ext[j] /\ made'[j] = made[j] /\ reply'[j] = reply[j]
    /\ task'[j] = task[j] /\ engine'[j] = engine[j] /\ created'[j] = created[j]
    /\ j \in revoked' <=> j \in revoked
    /\ j \in revived' <=> j \in revived
    /\ \A m \in host' : m.key = j => m \in host

LEMMA SameKeeps ==
    ASSUME NEW j \in Keys, KeyInv(j), Same(j)
    PROVE  KeyInv(j)'
BY DEF KeyInv, Same, Untouched, Unsent, Safe

ExtensionOf(k) == Offer(k) \/ HostMissing(k) \/ Extension(k) \/ Recover(k) \/ ExtensionRestarts(k)
MessageOf(m) == Unavailable(m) \/ ForwardHandoff(m) \/ ForwardCancel(m)
TaskOf(k) == Starts(k) \/ Stops(k) \/ Settles(k)
             \/ UserResumes(k) \/ UserCancels(k) \/ UserRetries(k) \/ UserRemoves(k)

LEMMA ExtensionLocal ==
    ASSUME TypeOK, NEW k \in Keys, ExtensionOf(k), NEW j \in Keys \ {k}
    PROVE  Same(j)
<1>1. ASSUME NEW state, NEW op, Ask(k, state, op), UNCHANGED lyraVars
      PROVE  Same(j)
  BY <1>1 DEF Ask, TypeOK, Same, lyraVars
<1>2. ASSUME NEW state, Conclude(k, state), UNCHANGED lyraVars
      PROVE  Same(j)
  BY <1>2 DEF Conclude, TypeOK, Same, lyraVars
<1>3. QED
  BY <1>1, <1>2 DEF ExtensionOf, Offer, HostMissing, Extension, Timeout, Answered, Recover, ExtensionRestarts

LEMMA RespondLocal ==
    ASSUME TypeOK, NEW m \in host, NEW answer, Respond(m, answer), NEW j \in Keys \ {m.key}
    PROVE  reply'[j] = reply[j] /\ \A q \in host' : q \in host
BY DEF TypeOK, Respond, Message

LEMMA MessageLocal ==
    ASSUME TypeOK, NEW m \in host, MessageOf(m), NEW j \in Keys \ {m.key}
    PROVE  Same(j)
<1>1. m.key \in Keys
  BY DEF TypeOK, Message
<1>2. reply'[j] = reply[j] /\ \A q \in host' : q \in host
  BY RespondLocal DEF MessageOf, Unavailable, ForwardHandoff, AddDownload, Refuse, Accept,
     ForwardCancel, CancelFails, CancelByRequestKey, ConfirmStopped, Unconfirmed
<1>3. QED
  BY <1>1, <1>2 DEF TypeOK, Same, extVars, lyraVars, MessageOf, Unavailable, ForwardHandoff, AddDownload,
     Refuse, Accept, SetTask, Revoked, ForwardCancel, CancelFails, CancelByRequestKey, ConfirmStopped,
     Unconfirmed

LEMMA TaskLocal ==
    ASSUME TypeOK, NEW k \in Keys, TaskOf(k), NEW j \in Keys \ {k}
    PROVE  Same(j)
BY DEF TypeOK, Same, TaskOf, Starts, Stops, Settles, UserResumes, UserCancels, UserRetries, UserRemoves,
   Revived, SetTask, SetEngine, Elsewhere, extVars

-----------------------------------------------------------------------------
(* The step of the invariant.                                              *)

\* A new message about k, and an end of its handoff.
LEMMA AskKeeps ==
    ASSUME Inv, NEW k \in Keys, NEW state \in Waiting, NEW op \in {"handoff", "cancel_handoff"},
           Ask(k, state, op), UNCHANGED lyraVars,
           state = "sent" => ext[k] = "firefox"
    PROVE  HostInv' /\ KeyInv(k)'
<1> DEFINE new == [key |-> k, op |-> op, n |-> made[k] + 1]
<1>1. /\ made' = [made EXCEPT ![k] = @ + 1] /\ host' = host \cup {new}
      /\ ext' = [ext EXCEPT ![k] = state] /\ reply' = [reply EXCEPT ![k] = "none"]
  BY DEF Ask
<1>2. made[k] \in Nat /\ \A m \in host : m.n \in Nat /\ m.key \in Keys
  BY HandoffAssumption DEF Inv, TypeOK, Message
<1>3. HostInv'
  <2>1. \A m \in host' : m.n <= made'[m.key]
    BY <1>1, <1>2 DEF Inv, HostInv, TypeOK
  <2>2. \A m \in host : m.key = new.key => m.n # new.n
    BY <1>2 DEF Inv, HostInv
  <2>3. \A m, q \in host' : m.key = q.key /\ m.n = q.n => m = q
    BY <1>1, <2>2 DEF Inv, HostInv
  <2>4. QED
    BY <2>1, <2>3 DEF HostInv
<1>4. KeyInv(k)'
  BY <1>1, <1>2 DEF Inv, TypeOK, KeyInv, lyraVars, Waiting
<1>5. QED
  BY <1>3, <1>4

LEMMA ConcludeKeeps ==
    ASSUME Inv, NEW k \in Keys, NEW state \in {"handed", "kept", "uncertain"},
           Conclude(k, state), UNCHANGED lyraVars,
           state = "kept" => Safe(k) \/ Untouched(k)
    PROVE  HostInv' /\ KeyInv(k)'
BY DEF Inv, TypeOK, Conclude, HostInv, KeyInv, lyraVars, Safe, Untouched, Unsent

LEMMA ExtensionKeeps ==
    ASSUME Inv, NEW k \in Keys, ExtensionOf(k)
    PROVE  HostInv' /\ KeyInv(k)'
<1> USE DEF Waiting
<1>1. CASE Offer(k) \/ Timeout(k) \/ Recover(k) \/ ExtensionRestarts(k)
  BY <1>1, AskKeeps, ConcludeKeeps DEF Offer, Timeout, Recover, ExtensionRestarts
<1>2. CASE HostMissing(k)
  BY <1>2, ConcludeKeeps DEF HostMissing, Inv, KeyInv
<1>3. CASE Answered(k)
  <2>1. reply[k] = "stopped" \/ (reply[k] = "refused" /\ ext[k] = "sent") => Safe(k) \/ Untouched(k)
    BY DEF Inv, KeyInv
  <2>2. QED
    BY <1>3, <2>1, AskKeeps, ConcludeKeeps DEF Answered
<1>4. QED
  BY <1>1, <1>2, <1>3 DEF ExtensionOf, Extension

\* An answer makes the number of its message free of messages.
LEMMA RespondKeeps ==
    ASSUME Inv, NEW m \in host, NEW answer \in Replies, Respond(m, answer), UNCHANGED extVars
    PROVE  /\ HostInv'
           /\ reply'[m.key] # "none"
                => ext[m.key] \in Waiting /\ \A q \in host' : q.key = m.key => q.n # made[m.key]
           /\ \/ reply'[m.key] = reply[m.key]
              \/ /\ reply'[m.key] \in {answer, "error", "none"}
                 /\ ext[m.key] \in Waiting /\ m.n = made[m.key]
           /\ \A q \in host' : q \in host
<1>1. m.key \in Keys
  BY DEF Inv, TypeOK, Message
<1>2. host' = host \ {m} /\ UNCHANGED <<ext, made>>
  BY DEF Respond, extVars
<1>3. HostInv'
  BY <1>2 DEF Inv, HostInv
<1>4. CASE ext[m.key] \in Waiting /\ m.n = made[m.key]
  <2>1. PICK seen \in {answer, "error", "none"} : reply' = [reply EXCEPT ![m.key] = seen]
    BY <1>4 DEF Respond
  <2>2. \A q \in host' : q.key = m.key => q.n # made[m.key]
    BY <1>2, <1>4 DEF Inv, HostInv
  <2>3. QED
    BY <1>1, <1>2, <1>3, <1>4, <2>1, <2>2 DEF Inv, TypeOK
<1>5. CASE ~(ext[m.key] \in Waiting /\ m.n = made[m.key])
  BY <1>1, <1>2, <1>3, <1>5 DEF Respond, Inv, KeyInv
<1>6. QED
  BY <1>4, <1>5

LEMMA MessageKeeps ==
    ASSUME Inv, NEW m \in host, MessageOf(m)
    PROVE  HostInv' /\ KeyInv(m.key)'
<1> DEFINE k == m.key
<1>1. k \in Keys /\ m.n \in 1..MaxCalls
  BY DEF Inv, TypeOK, Message
<1>2. PICK answer \in Replies : Respond(m, answer) /\ UNCHANGED extVars
  BY DEF Replies, MessageOf, Unavailable, ForwardHandoff, AddDownload, Refuse, Accept,
     ForwardCancel, CancelFails, CancelByRequestKey, ConfirmStopped, Unconfirmed
<1>3. HostInv'
  BY <1>2, RespondKeeps
<1>4. /\ ext[k] # "firefox"
      /\ ext[k] = "kept" => Safe(k)
      /\ ~Untouched(k)
  BY <1>1 DEF Inv, KeyInv, Untouched, Unsent
<1> USE DEF extVars
<1>5. CASE Unavailable(m) \/ CancelFails(m)
  <2>1. Respond(m, "error") /\ UNCHANGED <<extVars, lyraVars>>
    BY <1>5 DEF Unavailable, CancelFails
  <2>2. QED
    BY <1>1, <1>4, <2>1, RespondKeeps DEF Inv, KeyInv, Safe, lyraVars, Replies
<1>6. CASE ForwardHandoff(m)
  <2> USE DEF ForwardHandoff, AddDownload
  <2>1. CASE UNCHANGED <<task, created>> /\ (Respond(m, "error") \/ Respond(m, "accepted"))
    BY <1>1, <1>4, <1>6, <2>1, RespondKeeps DEF Inv, KeyInv, Safe, Replies
  <2>2. CASE task[k] = "none" /\ Refuse(m)
    <3>1. PICK refusal \in {"refused", "error"} : Respond(m, refusal) /\ UNCHANGED <<task, created>>
      BY <2>2 DEF Refuse
    <3>2. reply'[k] = "refused" /\ ext[k] = "sent" => \A q \in host' : q.key # k
      <4>1. ASSUME reply'[k] = "refused", ext[k] = "sent", NEW q \in host', q.key = k
            PROVE  FALSE
        <5>1. q.n # made[k] /\ q.n <= made[k] /\ q.n \in 1..MaxCalls
          BY <1>6, <3>1, <4>1, RespondKeeps DEF Replies, Inv, HostInv, TypeOK, Message
        <5>2. made[k] = 1
          BY <1>1, <4>1 DEF Inv, KeyInv
        <5>3. QED
          BY <5>1, <5>2, HandoffAssumption
      <4>2. QED
        BY <4>1
    <3>3. QED
      BY <1>1, <1>4, <1>6, <2>2, <3>1, <3>2, RespondKeeps DEF Inv, KeyInv, Safe, Untouched, Unsent, Replies
  <2>3. CASE task[k] = "none" /\ k \notin revoked /\ Accept(m)
    <3>1. /\ task'[k] = "active" /\ created'[k] = created[k] + 1 /\ created[k] = 0
          /\ Respond(m, "accepted")
      BY <1>1, <2>3 DEF Accept, SetTask, Inv, TypeOK, KeyInv
    <3>2. reply'[k] # "stopped" /\ (ext[k] = "sent" => reply'[k] # "refused")
      BY <1>1, <1>4, <1>6, <2>3, <3>1, RespondKeeps DEF Replies, Inv, KeyInv, Safe
    <3>3. QED
      BY <1>1, <1>4, <1>6, <2>3, <3>1, <3>2, RespondKeeps DEF Inv, KeyInv, Safe, Replies
  <2>4. QED
    BY <1>6, <2>1, <2>2, <2>3
<1>7. CASE CancelByRequestKey(m)
  <2>1. k \in revoked' /\ UNCHANGED <<extVars, created>>
    BY <1>7 DEF CancelByRequestKey, Revoked
  <2>2. CASE UNCHANGED <<task, engine, revived>> /\ task[k] \in {"none", "deleted"} /\ Respond(m, "stopped")
    BY <1>1, <1>4, <2>1, <2>2, RespondKeeps DEF Inv, KeyInv, Safe, Replies
  <2>3. CASE UNCHANGED <<task, engine, revived>> /\ Respond(m, "completed")
    BY <1>1, <1>4, <2>1, <2>3, RespondKeeps DEF Inv, KeyInv, Safe, Replies
  <2>4. CASE ConfirmStopped(m) /\ task[k] # "none"
    <3>1. /\ task'[k] = "cancelled" /\ engine'[k] = "absent" /\ Respond(m, "stopped")
      BY <1>1, <2>4 DEF ConfirmStopped, SetTask, Inv, TypeOK
    <3>2. QED
      BY <1>1, <1>4, <2>1, <2>4, <3>1, RespondKeeps DEF Inv, KeyInv, Safe, Replies
  <2>5. CASE Unconfirmed(m)
    <3>1. /\ engine'[k] \in {engine[k], "absent"} /\ UNCHANGED <<task, revived>> /\ Respond(m, "error")
      BY <1>1, <2>5 DEF Unconfirmed, Inv, TypeOK
    <3>2. QED
      BY <1>1, <1>4, <2>1, <3>1, RespondKeeps DEF Inv, KeyInv, Safe, Replies
  <2>6. QED
    BY <1>7, <2>2, <2>3, <2>4, <2>5 DEF CancelByRequestKey
<1>8. QED
  BY <1>3, <1>5, <1>6, <1>7 DEF MessageOf, ForwardCancel

LEMMA TaskKeeps ==
    ASSUME Inv, NEW k \in Keys, TaskOf(k)
    PROVE  HostInv' /\ KeyInv(k)'
<1>1. HostInv' /\ UNCHANGED <<extVars, host, reply, revoked, created>>
  BY DEF Inv, HostInv, TaskOf, Starts, Stops, Settles, UserResumes, UserCancels, UserRetries, UserRemoves,
     Elsewhere, extVars
<1>2. KeyInv(k)'
  <2> USE <1>1 DEF Inv, TypeOK, KeyInv, Safe, Untouched, Unsent, SetTask, SetEngine, extVars
  <2>1. CASE Starts(k) \/ Stops(k)
    BY <2>1 DEF Starts, Stops
  <2>2. CASE Settles(k) \/ UserCancels(k)
    BY <2>2 DEF Settles, UserCancels
  <2>3. CASE UserResumes(k) \/ UserRetries(k) \/ UserRemoves(k)
    BY <2>3 DEF UserResumes, UserRetries, UserRemoves, Revived
  <2>4. QED
    BY <2>1, <2>2, <2>3 DEF TaskOf
<1>3. QED
  BY <1>1, <1>2

LEMMA InvStep ==
    ASSUME Inv, [Next]_vars
    PROVE  Inv'
<1>1. TypeOK'
  BY TypeStep DEF Inv
<1>2. ASSUME NEW k \in Keys, HostInv', KeyInv(k)', \A j \in Keys \ {k} : Same(j)
      PROVE  Inv'
  BY <1>1, <1>2, SameKeeps DEF Inv
<1>3. ASSUME NEW k \in Keys, ExtensionOf(k) \/ TaskOf(k)
      PROVE  Inv'
  BY <1>2, <1>3, ExtensionKeeps, ExtensionLocal, TaskKeeps, TaskLocal DEF Inv
<1>4. ASSUME NEW m \in host, MessageOf(m)
      PROVE  Inv'
  BY <1>2, <1>4, MessageKeeps, MessageLocal DEF Inv, TypeOK, Message
<1>5. CASE UNCHANGED vars
  BY <1>1, <1>5 DEF Inv, HostInv, KeyInv, Safe, Untouched, Unsent, vars, extVars, lyraVars
<1>6. QED
  BY <1>3, <1>4, <1>5 DEF Next, ExtensionOf, TaskOf, MessageOf

LEMMA InvInit == Init => Inv
BY TypeInit DEF Init, Inv, HostInv, KeyInv, Untouched, Unsent

\* While Firefox transfers a download Lyra does not, whatever messages are lost,
\* late or overtaken, unless the user has started the revoked task again.
THEOREM NoSecondCopy == Spec => []OneCopy
<1>1. Inv => OneCopy
  BY DEF Inv, KeyInv, Safe, Untouched, OneCopy, FirefoxCopy
<1>2. QED
  BY <1>1, InvInit, InvStep, PTL DEF Spec

\* However often its message is sent, a key creates one task.
THEOREM KeyMakesOneTask == Spec => []OneTask
<1>1. Inv => OneTask
  <2>1. ASSUME Inv, NEW k \in Keys
        PROVE  created[k] <= 1
    <3>1. created[k] = 0 \/ created[k] = 1
      BY <2>1 DEF Inv, KeyInv
    <3>2. QED
      BY <3>1
  <2>2. QED
    BY <2>1 DEF OneTask
<1>2. QED
  BY <1>1, InvInit, InvStep, PTL DEF Spec

-----------------------------------------------------------------------------
(* A download Lyra was given stays with it.                                *)

\* What the extension may rely on.  Until it asks for a cancellation none is
\* under way; an "accepted" answers a handoff and not a cancellation, and after
\* a "completed" nothing is left to cancel.
HandedInv(k) ==
    /\ ext[k] \in {"sent", "resent"} => k \notin revoked /\ Uncancelled(k)
    /\ ext[k] = "cancelling" =>
          \A m \in host : m.key = k /\ m.n = made[k] => m.op = "cancel_handoff"
    /\ reply[k] = "accepted" => ext[k] \in {"sent", "resent"} /\ task[k] # "none"
    /\ reply[k] = "completed" => task[k] # "none" /\ Settled(k)
    /\ ext[k] = "handed" => task[k] # "none" /\ (Uncancelled(k) \/ Settled(k))

FullInv == Inv /\ \A k \in Keys : HandedInv(k)

LEMMA SameKeepsHanded ==
    ASSUME NEW j \in Keys, HandedInv(j), Same(j)
    PROVE  HandedInv(j)'
BY DEF HandedInv, Same, Uncancelled, Settled

LEMMA AskKeepsHanded ==
    ASSUME Inv, NEW k \in Keys, NEW state \in Waiting, NEW op \in {"handoff", "cancel_handoff"},
           Ask(k, state, op), UNCHANGED lyraVars,
           state = "cancelling" => op = "cancel_handoff",
           state # "cancelling" => op = "handoff" /\ k \notin revoked /\ Uncancelled(k)
    PROVE  HandedInv(k)'
<1> DEFINE new == [key |-> k, op |-> op, n |-> made[k] + 1]
<1>1. /\ ext'[k] = state /\ reply'[k] = "none" /\ host' = host \cup {new}
      /\ made'[k] = made[k] + 1 /\ revoked' = revoked
  BY DEF Ask, Inv, TypeOK, lyraVars
<1>2. ASSUME NEW m \in host', m.key = k, m.n = made'[k]
      PROVE  m.op = op
  <2>1. made[k] \in Nat /\ (m \in host => m.n \in Nat /\ m.n <= made[k])
    BY <1>2, HandoffAssumption DEF Inv, TypeOK, HostInv, Message
  <2>2. m = new
    BY <1>1, <1>2, <2>1
  <2>3. QED
    BY <2>2
<1>3. state # "cancelling" => Uncancelled(k)'
  BY <1>1 DEF Uncancelled
<1>4. QED
  BY <1>1, <1>2, <1>3 DEF HandedInv, Waiting

LEMMA ExtensionKeepsHanded ==
    ASSUME FullInv, NEW k \in Keys, ExtensionOf(k)
    PROVE  HandedInv(k)'
<1>1. UNCHANGED lyraVars /\ (ext[k] = "firefox" => k \notin revoked /\ Uncancelled(k))
  BY DEF ExtensionOf, Offer, HostMissing, Extension, Timeout, Answered, Recover, ExtensionRestarts,
     FullInv, Inv, KeyInv, Untouched, Unsent, Uncancelled
<1>2. ASSUME Ask(k, "sent", "handoff"), ext[k] = "firefox"
      PROVE  HandedInv(k)'
  BY <1>1, <1>2, AskKeepsHanded DEF FullInv, Waiting
<1>3. ASSUME Ask(k, "resent", "handoff"), ext[k] = "sent"
      PROVE  HandedInv(k)'
  BY <1>1, <1>3, AskKeepsHanded DEF FullInv, HandedInv, Waiting
<1>4. ASSUME Ask(k, "cancelling", "cancel_handoff")
      PROVE  HandedInv(k)'
  BY <1>1, <1>4, AskKeepsHanded DEF FullInv, Waiting
<1>5. ASSUME NEW state \in {"kept", "uncertain"}, Conclude(k, state)
      PROVE  HandedInv(k)'
  BY <1>5 DEF Conclude, HandedInv, FullInv, Inv, TypeOK
<1>6. ASSUME Conclude(k, "handed"), reply[k] \in {"accepted", "completed"}
      PROVE  HandedInv(k)'
  BY <1>1, <1>6 DEF Conclude, HandedInv, FullInv, Inv, TypeOK, lyraVars, Settled, Uncancelled
<1>7. QED
  BY <1>2, <1>3, <1>4, <1>5, <1>6 DEF ExtensionOf, Offer, HostMissing, Extension, Timeout, Answered,
     Recover, ExtensionRestarts

\* A message leaves a settled task settled, and "accepted" and "completed" are
\* answered in good faith.
LEMMA MessageKeepsHanded ==
    ASSUME FullInv, NEW m \in host, MessageOf(m)
    PROVE  HandedInv(m.key)'
<1> DEFINE k == m.key
<1>1. k \in Keys
  BY DEF FullInv, Inv, TypeOK, Message
<1>2. PICK answer \in Replies : Respond(m, answer) /\ UNCHANGED extVars
  BY DEF Replies, MessageOf, Unavailable, ForwardHandoff, AddDownload, Refuse, Accept,
     ForwardCancel, CancelFails, CancelByRequestKey, ConfirmStopped, Unconfirmed
<1>3. \A q \in host' : q \in host
  BY <1>2, RespondKeeps DEF FullInv
<1>4. Uncancelled(k) => Uncancelled(k)'
  BY <1>3 DEF Uncancelled
<1>5. task[k] # "none" => task'[k] # "none"
  BY <1>1 DEF FullInv, Inv, TypeOK, MessageOf, Unavailable, ForwardHandoff, AddDownload, Refuse, Accept,
     ForwardCancel, CancelFails, CancelByRequestKey, ConfirmStopped, Unconfirmed, SetTask, lyraVars
<1>6. Settled(k) => Settled(k)'
  BY <1>1 DEF FullInv, Inv, TypeOK, MessageOf, Unavailable, ForwardHandoff, AddDownload, Refuse, Accept,
     ForwardCancel, CancelFails, CancelByRequestKey, ConfirmStopped, Unconfirmed, SetTask, lyraVars,
     Settled, Revoked
<1>7. m.op = "handoff" \/ Unavailable(m) \/ CancelFails(m) => revoked' = revoked
  BY DEF MessageOf, Unavailable, ForwardHandoff, AddDownload, ForwardCancel, CancelFails, lyraVars
<1>8. ext[k] \in {"sent", "resent"} => m.op = "handoff"
  BY <1>1 DEF FullInv, HandedInv, Uncancelled
<1>9. reply'[k] = "accepted" => ext[k] \in {"sent", "resent"} /\ task'[k] # "none"
  <2>1. CASE reply'[k] = reply[k]
    BY <1>1, <1>5, <2>1 DEF FullInv, HandedInv
  <2>2. CASE reply'[k] # reply[k] /\ reply'[k] = "accepted"
    <3>1. ForwardHandoff(m)
      BY <1>1, <2>2, RespondKeeps DEF FullInv, Replies, MessageOf, Unavailable, ForwardCancel, CancelFails,
         CancelByRequestKey, ConfirmStopped, Unconfirmed, extVars
    <3>2. ext[k] \in Waiting /\ m.n = made[k]
      BY <1>2, <2>2, RespondKeeps DEF FullInv
    <3>3. ext[k] \in {"sent", "resent"}
      BY <1>1, <3>1, <3>2 DEF FullInv, HandedInv, Waiting, ForwardHandoff
    <3>4. task'[k] # "none"
      BY <1>1, <2>2, <3>1, RespondKeeps DEF FullInv, Inv, TypeOK, Replies, ForwardHandoff, AddDownload,
         Refuse, Accept, SetTask
    <3>5. QED
      BY <3>3, <3>4
  <2>3. QED
    BY <2>1, <2>2
<1>10. reply'[k] = "completed" => task'[k] # "none" /\ Settled(k)'
  <2>1. CASE reply'[k] = reply[k]
    BY <1>1, <1>5, <1>6, <2>1 DEF FullInv, HandedInv
  <2>2. CASE reply'[k] # reply[k] /\ reply'[k] = "completed"
    <3>1. CancelByRequestKey(m) /\ UNCHANGED <<task, engine, revived>> /\ Transferred(k)
      BY <1>1, <2>2, RespondKeeps DEF FullInv, Replies, MessageOf, Unavailable, ForwardHandoff, AddDownload,
         Refuse, Accept, ForwardCancel, CancelFails, CancelByRequestKey, ConfirmStopped, Unconfirmed, extVars
    <3>2. QED
      BY <3>1 DEF CancelByRequestKey, Revoked, Transferred, Settled
  <2>3. QED
    BY <2>1, <2>2
<1>11. ext[k] = "cancelling" =>
          \A q \in host' : q.key = k /\ q.n = made[k] => q.op = "cancel_handoff"
  BY <1>1, <1>3 DEF FullInv, HandedInv
<1>12. UNCHANGED <<ext, made>>
  BY <1>2 DEF extVars
<1>13. QED
  BY <1>1, <1>4, <1>5, <1>6, <1>7, <1>8, <1>9, <1>10, <1>11, <1>12
  DEF FullInv, HandedInv, MessageOf, ForwardCancel, ForwardHandoff

\* The engine keeps the end of a transfer until a tick has read it.
LEMMA TaskKeepsHanded ==
    ASSUME EngineForgets = FALSE, FullInv, NEW k \in Keys, TaskOf(k)
    PROVE  HandedInv(k)'
<1>1. UNCHANGED <<extVars, host, reply, revoked>>
  BY DEF TaskOf, Starts, Stops, Settles, UserResumes, UserCancels, UserRetries, UserRemoves, Elsewhere
<1>2. (task[k] # "none" => task'[k] # "none") /\ (Settled(k) => Settled(k)')
  <2> USE <1>1 DEF FullInv, Inv, TypeOK, Settled, SetTask, SetEngine
  <2>1. CASE Starts(k) \/ Stops(k)
    BY <2>1 DEF Starts, Stops
  <2>2. CASE Settles(k) \/ UserCancels(k)
    BY <2>2 DEF Settles, UserCancels
  <2>3. CASE UserResumes(k) \/ UserRetries(k) \/ UserRemoves(k)
    BY <2>3 DEF UserResumes, UserRetries, UserRemoves, Revived
  <2>4. QED
    BY <2>1, <2>2, <2>3 DEF TaskOf
<1>3. QED
  BY <1>1, <1>2 DEF FullInv, HandedInv, Uncancelled, extVars

LEMMA FullInvStep ==
    ASSUME EngineForgets = FALSE, FullInv, [Next]_vars
    PROVE  FullInv'
<1>1. Inv'
  BY InvStep DEF FullInv
<1>2. ASSUME NEW k \in Keys, ExtensionOf(k) \/ TaskOf(k)
      PROVE  FullInv'
  <2>1. HandedInv(k)'
    BY <1>2, ExtensionKeepsHanded, TaskKeepsHanded
  <2>2. \A j \in Keys \ {k} : HandedInv(j)'
    BY <1>2, ExtensionLocal, TaskLocal, SameKeepsHanded DEF FullInv, Inv
  <2>3. QED
    BY <1>1, <2>1, <2>2 DEF FullInv
<1>3. ASSUME NEW m \in host, MessageOf(m)
      PROVE  FullInv'
  <2>1. HandedInv(m.key)'
    BY <1>3, MessageKeepsHanded
  <2>2. \A j \in Keys \ {m.key} : HandedInv(j)'
    BY <1>3, MessageLocal, SameKeepsHanded DEF FullInv, Inv
  <2>3. QED
    BY <1>1, <2>1, <2>2 DEF FullInv
<1>4. CASE UNCHANGED vars
  BY <1>1, <1>4 DEF FullInv, HandedInv, Settled, Uncancelled, vars, extVars, lyraVars
<1>5. QED
  BY <1>2, <1>3, <1>4 DEF Next, ExtensionOf, TaskOf, MessageOf

\* A download whose copy Firefox gives up has its task, and no cancellation that
\* is still under way takes it from Lyra, as long as aria2 does not lose the end
\* of a transfer.
THEOREM HandedDownloadsStay ==
    ASSUME EngineForgets = FALSE
    PROVE  Spec => HandedStays
<1> DEFINE Stays == \A k \in Keys : ext[k] = "handed" =>
              /\ created[k] = 1
              /\ task[k] = "active" /\ task'[k] = "cancelled" => host' = host \/ k \in revived
<1>1. Init => FullInv
  BY InvInit DEF Init, FullInv, HandedInv, Uncancelled
<1>2. FullInv /\ [Next]_vars => FullInv'
  BY FullInvStep
<1>3. FullInv /\ [Next]_vars => [Stays]_vars
  <2> SUFFICES ASSUME FullInv, Next, NEW k \in Keys, ext[k] = "handed"
               PROVE  /\ created[k] = 1
                      /\ task[k] = "active" /\ task'[k] = "cancelled" => host' = host \/ k \in revived
    OBVIOUS
  <2>1. created[k] = 1
    BY DEF FullInv, HandedInv, Inv, KeyInv
  <2>2. ASSUME NEW m \in host, MessageOf(m), task[k] = "active", task'[k] = "cancelled", k \notin revived
        PROVE  FALSE
    <3>1. m.key = k
      BY <2>2, MessageLocal DEF FullInv, Inv, Same
    <3>2. ConfirmStopped(m) /\ ForwardCancel(m)
      BY <2>2, <3>1 DEF FullInv, Inv, TypeOK, MessageOf, Unavailable, ForwardHandoff, AddDownload, Refuse,
         Accept, ForwardCancel, CancelFails, CancelByRequestKey, Unconfirmed, SetTask, lyraVars
    <3>3. Settled(k) /\ engine[k] # "complete"
      BY <3>1, <3>2 DEF FullInv, HandedInv, Uncancelled, ForwardCancel, ConfirmStopped
    <3>4. QED
      BY <2>2, <3>3 DEF Settled
  <2>3. (\E j \in Keys : TaskOf(j) \/ ExtensionOf(j)) => task'[k] = task[k] \/ host' = host
    BY DEF TaskOf, Starts, Stops, Settles, UserResumes, UserCancels, UserRetries, UserRemoves, Elsewhere,
       ExtensionOf, Offer, HostMissing, Extension, Timeout, Answered, Recover, ExtensionRestarts, lyraVars
  <2>4. QED
    BY <2>1, <2>2, <2>3 DEF Next, ExtensionOf, TaskOf, MessageOf
<1>4. HandedStays <=> [][Stays]_vars
  BY DEF HandedStays
<1> HIDE DEF Stays
<1>5. QED
  BY <1>1, <1>2, <1>3, <1>4, PTL DEF Spec

-----------------------------------------------------------------------------
(* The refinement of HandoffOwner.                                         *)

\* The refinement mapping, as Handoff has it.
TheOwner == [k \in Keys |-> CASE ext[k] = "firefox" -> "firefox"
                              [] ext[k] = "kept" -> "kept"
                              [] ext[k] = "handed" -> "lyra"
                              [] OTHER -> "undecided"]
TheCopies == [k \in Keys |-> (IF FirefoxCopy(k) THEN {"firefox"} ELSE {})
                              \cup (IF engine[k] = "running" THEN {"lyra"} ELSE {})]

\* A step about k changes the mapping at k only.
LEMMA MapsLocally ==
    ASSUME NEW k \in Keys, \A j \in Keys \ {k} : Same(j)
    PROVE  /\ TheOwner' = [TheOwner EXCEPT ![k] = TheOwner'[k]]
           /\ TheCopies' = [TheCopies EXCEPT ![k] = TheCopies'[k]]
<1>1. ASSUME NEW j \in Keys \ {k}
      PROVE  TheOwner'[j] = TheOwner[j]
  BY <1>1 DEF Same, TheOwner
<1>2. ASSUME NEW j \in Keys \ {k}
      PROVE  TheCopies'[j] = TheCopies[j]
  BY <1>2 DEF Same, TheCopies, FirefoxCopy
<1>3. /\ TheOwner = [j \in Keys |-> TheOwner[j]] /\ TheOwner' = [j \in Keys |-> TheOwner'[j]]
      /\ TheCopies = [j \in Keys |-> TheCopies[j]] /\ TheCopies' = [j \in Keys |-> TheCopies'[j]]
  BY DEF TheOwner, TheCopies
<1>4. TheOwner' = [TheOwner EXCEPT ![k] = TheOwner'[k]]
  BY <1>1, <1>3
<1>5. TheCopies' = [TheCopies EXCEPT ![k] = TheCopies'[k]]
  BY <1>2, <1>3
<1>6. QED
  BY <1>4, <1>5

OwnerStep == Owner!Next \/ UNCHANGED <<TheOwner, TheCopies, revived>>

\* Lyra stops, or does not run, and the owner stays.
LEMMA StopMaps ==
    ASSUME NEW k \in Keys, \A j \in Keys \ {k} : Same(j),
           ext'[k] = ext[k], engine'[k] # "running",
           revived' \in {revived, revived \ {k}}
    PROVE  OwnerStep
<1>1. TheOwner'[k] = TheOwner[k] /\ TheCopies'[k] = TheCopies[k] \ {"lyra"}
  BY DEF TheOwner, TheCopies, FirefoxCopy
<1>2. TheOwner = [TheOwner EXCEPT ![k] = TheOwner[k]]
  BY DEF TheOwner
<1>3. Owner!LyraStops(k)
  <2>1. TheOwner' = TheOwner
    BY <1>1, <1>2, MapsLocally
  <2>2. TheCopies' = [TheCopies EXCEPT ![k] = TheCopies[k] \ {"lyra"}]
    BY <1>1, MapsLocally
  <2>3. QED
    BY <2>1, <2>2 DEF Owner!LyraStops, TheOwner, TheCopies
<1>4. QED
  BY <1>3 DEF OwnerStep, Owner!Next

LEMMA StutterMaps ==
    ASSUME NEW k \in Keys, \A j \in Keys \ {k} : Same(j),
           TheOwner'[k] = TheOwner[k], TheCopies'[k] = TheCopies[k], revived' = revived
    PROVE  OwnerStep
<1>1. /\ TheOwner = [TheOwner EXCEPT ![k] = TheOwner[k]]
      /\ TheCopies = [TheCopies EXCEPT ![k] = TheCopies[k]]
  BY DEF TheOwner, TheCopies
<1>2. QED
  BY <1>1, MapsLocally DEF OwnerStep

\* Lyra starts, at the user's request or not.
LEMMA StartMaps ==
    ASSUME NEW k \in Keys, \A j \in Keys \ {k} : Same(j),
           ext'[k] = ext[k], engine'[k] = "running",
           revived' \in {revived, revived \cup {k}},
           ext[k] # "firefox", ext[k] = "kept" => k \in revived'
    PROVE  OwnerStep
<1>1. /\ TheOwner[k] # "firefox" /\ TheOwner'[k] = TheOwner[k]
      /\ TheOwner[k] = "kept" => k \in revived'
      /\ TheCopies'[k] = TheCopies[k] \cup {"lyra"}
  BY DEF TheOwner, TheCopies, FirefoxCopy
<1>2. TheOwner = [TheOwner EXCEPT ![k] = TheOwner[k]]
  BY DEF TheOwner
<1>3. TheOwner' = TheOwner /\ TheCopies' = [TheCopies EXCEPT ![k] = TheCopies[k] \cup {"lyra"}]
  BY <1>1, <1>2, MapsLocally
<1>4. Owner!LyraStarts(k)
  BY <1>1, <1>3 DEF Owner!LyraStarts, TheOwner, TheCopies
<1>5. QED
  BY <1>4 DEF OwnerStep, Owner!Next

\* The user asks for what then does not run, or not yet.
LEMMA ReviveMaps ==
    ASSUME NEW k \in Keys, \A j \in Keys \ {k} : Same(j),
           ext'[k] = ext[k], engine[k] # "running", engine'[k] # "running",
           revived' \in {revived, revived \cup {k}}, ext[k] # "firefox"
    PROVE  OwnerStep
<1>1. /\ TheOwner[k] # "firefox" /\ TheOwner'[k] = TheOwner[k] /\ TheCopies'[k] = TheCopies[k]
      /\ TheCopies = [TheCopies EXCEPT ![k] = TheCopies[k]]
      /\ TheOwner = [TheOwner EXCEPT ![k] = TheOwner[k]]
  BY DEF TheOwner, TheCopies, FirefoxCopy
<1>2. CASE revived' = revived
  BY <1>1, <1>2, StutterMaps
<1>3. CASE revived' = revived \cup {k}
  <2>1. TheOwner' = TheOwner /\ TheCopies' = TheCopies
    BY <1>1, MapsLocally
  <2>2. Owner!Revive(k)
    BY <1>1, <1>3, <2>1 DEF Owner!Revive, TheOwner, TheCopies
  <2>3. QED
    BY <2>2 DEF OwnerStep, Owner!Next
<1>4. QED
  BY <1>2, <1>3

LEMMA KeptMaps ==
    ASSUME NEW k \in Keys, \A j \in Keys \ {k} : Same(j),
           ext[k] \in Waiting \cup {"firefox"}, ext'[k] = "kept",
           engine'[k] = engine[k], revived' = revived,
           engine[k] = "running" => k \in revived
    PROVE  OwnerStep
<1>1. /\ TheOwner[k] \in {"firefox", "undecided"} /\ TheOwner'[k] = "kept"
      /\ TheCopies'[k] = TheCopies[k] \cup {"firefox"}
      /\ "lyra" \in TheCopies[k] => k \in revived
  BY DEF TheOwner, TheCopies, FirefoxCopy, Waiting
<1>2. Owner!Keep(k)
  BY <1>1, MapsLocally DEF Owner!Keep, TheOwner, TheCopies
<1>3. QED
  BY <1>2 DEF OwnerStep, Owner!Next

LEMMA ExtensionMaps ==
    ASSUME Inv, NEW k \in Keys, ExtensionOf(k)
    PROVE  OwnerStep
<1>1. \A j \in Keys \ {k} : Same(j)
  BY ExtensionLocal DEF Inv
<1>2. UNCHANGED lyraVars
  BY DEF ExtensionOf, Offer, HostMissing, Extension, Timeout, Answered, Recover, ExtensionRestarts
<1>3. revived' = revived /\ engine' = engine
  BY <1>2 DEF lyraVars
<1>4. CASE Offer(k)
  <2>1. ext[k] = "firefox" /\ ext'[k] = "sent"
    BY <1>4 DEF Offer, Ask, Inv, TypeOK
  <2>2. engine[k] # "running"
    BY <2>1 DEF Inv, KeyInv, Untouched
  <2>3. TheOwner[k] = "firefox" /\ TheOwner'[k] = "undecided" /\ TheCopies'[k] = {}
    BY <1>3, <2>1, <2>2 DEF TheOwner, TheCopies, FirefoxCopy
  <2>4. Owner!Offer(k)
    BY <1>1, <1>3, <2>3, MapsLocally DEF Owner!Offer, TheOwner, TheCopies
  <2>5. QED
    BY <2>4 DEF OwnerStep, Owner!Next
<1>5. CASE /\ ext[k] \in Waiting \cup {"uncertain"}
           /\ ext'[k] \in Waiting \cup {"uncertain"}
  <2>1. TheOwner'[k] = TheOwner[k] /\ TheCopies'[k] = TheCopies[k]
    BY <1>3, <1>5 DEF TheOwner, TheCopies, FirefoxCopy, Waiting
  <2>2. QED
    BY <1>1, <1>3, <2>1, StutterMaps
<1>6. CASE ext[k] \in Waiting /\ ext'[k] = "handed"
  <2>1. /\ TheOwner[k] = "undecided" /\ TheOwner'[k] = "lyra"
        /\ TheCopies'[k] = TheCopies[k] /\ TheCopies = [TheCopies EXCEPT ![k] = TheCopies[k]]
    BY <1>3, <1>6 DEF TheOwner, TheCopies, FirefoxCopy, Waiting
  <2>2. TheOwner' = [TheOwner EXCEPT ![k] = "lyra"] /\ TheCopies' = TheCopies
    BY <1>1, <2>1, MapsLocally
  <2>3. Owner!Hand(k)
    BY <1>3, <2>1, <2>2 DEF Owner!Hand, TheOwner, TheCopies
  <2>4. QED
    BY <2>3 DEF OwnerStep, Owner!Next
<1>7. CASE HostMissing(k)
  <2>1. ext[k] = "firefox" /\ ext'[k] = "kept"
    BY <1>7 DEF HostMissing, Conclude, Inv, TypeOK
  <2>2. engine[k] # "running"
    BY <2>1 DEF Inv, KeyInv, Untouched
  <2>3. QED
    BY <1>1, <1>3, <2>1, <2>2, KeptMaps
<1>8. CASE Answered(k) /\ ext'[k] = "kept"
  <2>1. ext[k] \in Waiting /\ (reply[k] = "stopped" \/ (reply[k] = "refused" /\ ext[k] = "sent"))
    BY <1>8 DEF Answered, Conclude, Ask, Inv, TypeOK
  <2>2. engine[k] = "running" => k \in revived
    BY <2>1 DEF Inv, KeyInv, Safe, Untouched
  <2>3. QED
    BY <1>1, <1>3, <1>8, <2>1, <2>2, KeptMaps
<1>9. QED
  BY <1>4, <1>5, <1>6, <1>7, <1>8
  DEF ExtensionOf, Extension, Timeout, Answered, Recover, ExtensionRestarts, Ask, Conclude, Inv, TypeOK, Waiting

LEMMA MessageMaps ==
    ASSUME Inv, NEW m \in host, MessageOf(m)
    PROVE  OwnerStep
<1>1. m.key \in Keys /\ \A j \in Keys \ {m.key} : Same(j)
  BY MessageLocal DEF Inv, TypeOK, Message
<1>2. UNCHANGED ext
  BY DEF MessageOf, Unavailable, ForwardHandoff, AddDownload, ForwardCancel, CancelFails,
     CancelByRequestKey, extVars
<1>3. CASE UNCHANGED <<engine, revived>>
  BY <1>1, <1>2, <1>3, StutterMaps DEF TheOwner, TheCopies, FirefoxCopy
<1>4. CASE ConfirmStopped(m)
  <2>1. engine'[m.key] = "absent" /\ revived' = revived \ {m.key}
    BY <1>1, <1>4 DEF ConfirmStopped, Inv, TypeOK
  <2>2. QED
    BY <1>1, <1>2, <2>1, StopMaps
<1>5. CASE Unconfirmed(m)
  <2>1. engine'[m.key] \in {engine[m.key], "absent"} /\ revived' = revived
    BY <1>1, <1>5 DEF Unconfirmed, Inv, TypeOK
  <2>2. CASE engine'[m.key] = "absent"
    BY <1>1, <1>2, <2>1, <2>2, StopMaps
  <2>3. CASE engine'[m.key] = engine[m.key]
    BY <1>1, <1>2, <2>1, <2>3, StutterMaps DEF TheOwner, TheCopies, FirefoxCopy
  <2>4. QED
    BY <2>1, <2>2, <2>3
<1>6. QED
  BY <1>3, <1>4, <1>5 DEF MessageOf, Unavailable, ForwardHandoff, AddDownload, ForwardCancel, CancelFails,
     CancelByRequestKey, lyraVars

LEMMA TaskMaps ==
    ASSUME Inv, NEW k \in Keys, TaskOf(k)
    PROVE  OwnerStep
<1>1. \A j \in Keys \ {k} : Same(j)
  BY TaskLocal DEF Inv
<1>2. UNCHANGED ext
  BY DEF TaskOf, Starts, Stops, Settles, UserResumes, UserCancels, UserRetries, UserRemoves,
     Elsewhere, extVars
<1>3. task[k] # "none" => ext[k] # "firefox"
  BY DEF Inv, KeyInv, Untouched
<1>4. CASE Starts(k)
  <2>1. engine'[k] = "running" /\ task[k] = "active" /\ revived' = revived
    BY <1>4 DEF Starts, SetEngine, Inv, TypeOK
  <2>2. ext[k] = "kept" => k \in revived
    BY <2>1 DEF Inv, KeyInv, Safe, Untouched
  <2>3. QED
    BY <1>1, <1>2, <1>3, <2>1, <2>2, StartMaps
<1>5. CASE Stops(k) \/ Settles(k) \/ UserCancels(k) \/ UserRemoves(k)
  <2>1. engine'[k] # "running" /\ revived' = revived
    BY <1>5 DEF Stops, Settles, UserCancels, UserRemoves, SetEngine, Inv, TypeOK
  <2>2. QED
    BY <1>1, <1>2, <2>1, StopMaps
<1>6. CASE UserRetries(k)
  <2>1. engine[k] # "running" /\ engine'[k] # "running" /\ task[k] # "none"
    BY <1>6 DEF UserRetries, SetEngine, Inv, TypeOK, KeyInv
  <2>2. QED
    BY <1>1, <1>2, <1>3, <1>6, <2>1, ReviveMaps DEF UserRetries, Revived
<1>7. CASE UserResumes(k)
  <2>1. /\ engine[k] # "running" /\ task[k] = "active" /\ revived' \in {revived, revived \cup {k}}
        /\ engine'[k] \in {"running", "absent"}
    BY <1>7 DEF UserResumes, Revived, SetEngine, Inv, TypeOK
  <2>2. CASE engine'[k] = "running"
    <3>1. ext[k] = "kept" => k \in revived'
      BY <1>7, <2>1 DEF UserResumes, Revived, Inv, KeyInv, Safe, Untouched
    <3>2. QED
      BY <1>1, <1>2, <1>3, <2>1, <2>2, <3>1, StartMaps
  <2>3. CASE engine'[k] = "absent"
    BY <1>1, <1>2, <1>3, <2>1, <2>3, ReviveMaps
  <2>4. QED
    BY <2>1, <2>2, <2>3
<1>8. QED
  BY <1>4, <1>5, <1>6, <1>7 DEF TaskOf

\* Every handoff keeps HandoffOwner's promise: each step of the extension, the
\* host, the service, the engine or the user is one of the owner's or none.
THEOREM HandoffImplementsOwner == Spec => OwnerSpec
<1>1. Init => Owner!Init
  <2> SUFFICES ASSUME Init
               PROVE  Owner!Init
    OBVIOUS
  <2>1. TheOwner = [k \in Keys |-> "firefox"]
    BY DEF Init, TheOwner
  <2>2. TheCopies = [k \in Keys |-> {"firefox"}]
    BY DEF Init, TheCopies, FirefoxCopy
  <2>3. QED
    BY <2>1, <2>2 DEF Init, Owner!Init, TheOwner, TheCopies
<1>2. Inv /\ [Next]_vars => [Owner!Next]_(Owner!vars)
  <2> SUFFICES ASSUME Inv, [Next]_vars
               PROVE  [Owner!Next]_(Owner!vars)
    OBVIOUS
  <2>1. CASE UNCHANGED vars
    BY <2>1 DEF vars, extVars, lyraVars, Owner!vars, FirefoxCopy
  <2>2. CASE Next
    <3>1. OwnerStep
      BY <2>2, ExtensionMaps, MessageMaps, TaskMaps DEF Next, ExtensionOf, MessageOf, TaskOf
    <3>2. QED
      BY <3>1 DEF OwnerStep, Owner!vars, TheOwner, TheCopies
  <2>3. QED
    BY <2>1, <2>2
<1>3. QED
  BY <1>1, <1>2, InvInit, InvStep, PTL DEF Spec, OwnerSpec, Owner!Spec

-----------------------------------------------------------------------------
(* What the promise itself is worth: whoever keeps it never has a download  *)
(* transferred twice behind the user's back.  Here owner and copies are     *)
(* anything that behaves as HandoffOwner says.                              *)

VARIABLES owner, copies

Promise == INSTANCE HandoffOwner

\* While nobody or Lyra owns a download Firefox does not transfer it, and Lyra
\* does not touch one it was never offered.
PromiseInv ==
    /\ Promise!TypeOK
    /\ \A k \in Keys :
         /\ owner[k] \in {"undecided", "lyra"} => "firefox" \notin copies[k]
         /\ {"firefox", "lyra"} \subseteq copies[k] => k \in revived

LEMMA PromiseStep ==
    ASSUME PromiseInv, [Promise!Next]_(Promise!vars)
    PROVE  PromiseInv'
<1> USE DEF PromiseInv, Promise!TypeOK, Promise!Owners, Promise!Sides
<1>1. ASSUME NEW k \in Keys, Promise!Offer(k) \/ Promise!Hand(k) \/ Promise!Keep(k) \/ Promise!Revive(k)
      PROVE  PromiseInv'
  BY <1>1 DEF Promise!Offer, Promise!Hand, Promise!Keep, Promise!Revive
<1>2. ASSUME NEW k \in Keys, Promise!LyraStarts(k)
      PROVE  PromiseInv'
  BY <1>2 DEF Promise!LyraStarts
<1>3. ASSUME NEW k \in Keys, Promise!LyraStops(k)
      PROVE  PromiseInv'
  BY <1>3 DEF Promise!LyraStops
<1>4. CASE UNCHANGED Promise!vars
  BY <1>4 DEF Promise!vars
<1>5. QED
  BY <1>1, <1>2, <1>3, <1>4 DEF Promise!Next

\* Two copies of a download are transferred only if the user asked for the
\* second one.
THEOREM OwnerHasOneCopy == Promise!Spec => []Promise!OneCopy
<1>1. Promise!Init => PromiseInv
  BY DEF Promise!Init, PromiseInv, Promise!TypeOK, Promise!Owners, Promise!Sides
<1>2. PromiseInv => Promise!OneCopy
  BY DEF PromiseInv, Promise!OneCopy, Promise!Sides
<1>3. QED
  BY <1>1, <1>2, PromiseStep, PTL DEF Promise!Spec
=============================================================================
