---------------------------- MODULE Aria2Engine ----------------------------
(***************************************************************************)
(* The aria2c process as the download service sees it through JSON-RPC     *)
(* (crates/lyra-downloads-aria2).  aria2c itself is not in the repository: *)
(* what it does is modelled from the way client.rs, process.rs and         *)
(* service.rs use it.                                                      *)
(*                                                                         *)
(* A download is named by its GID.  <<t, 0>> is the deterministic GID of   *)
(* task t, <<t, n>> with n > 0 is a GID aria2 chose itself for a download  *)
(* of t.  The environment parameters say how well-behaved the engine is,   *)
(* so that a run can name the weakest engine under which a property holds. *)
(***************************************************************************)
EXTENDS Naturals, FiniteSets

CONSTANTS
    Tasks,        \* task identities (Task.id, a fresh UUID per task)
    NoGid,        \* the NULL of the column aria2_gid
    MaxFresh,     \* bound: GIDs aria2 can choose itself, per task
    MaxActive,    \* settings.max_concurrent_downloads
    SlowHalt,     \* TRUE: an active download stops some time after the RPC
                  \* that pauses or removes it was answered
    RpcFaults     \* subset of {"lost", "noreply"}: calls that time out
                  \* before they reached aria2, or after aria2 applied them

Gid == Tasks \X (0..MaxFresh)

ASSUME EngineAssumption ==
    /\ NoGid \notin Gid
    /\ MaxFresh \in Nat
    /\ MaxActive \in Nat \ {0}
    /\ SlowHalt \in BOOLEAN
    /\ RpcFaults \subseteq {"lost", "noreply"}

VARIABLES
    proc,     \* the service's handle and the process behind it
    dl,       \* status of every download inside the process
    session   \* GIDs in session.aria2, the file a new process restores

engineVars == <<proc, dl, session>>

\* "none": aria2 does not know the GID.  "pausing" and "removing" are active
\* downloads that were asked to stop and have not stopped yet.
Status == {"none", "waiting", "active", "pausing", "removing", "paused",
           "complete", "error", "removed"}

Running == {"waiting", "active"}
Stopped == {"complete", "error", "removed"}

\* "off": no handle.  "on": handle to a live process.  "dead": handle to a
\* process that has exited.  "orphan": a live process whose backend died.
ProcState == {"off", "on", "dead", "orphan"}

Downloads == [Gid -> Status]

NoDownloads == [g \in Gid |-> "none"]

EngineTypeOK ==
    /\ proc \in ProcState
    /\ dl \in Downloads
    /\ session \subseteq Gid

EngineInit ==
    /\ proc = "off"
    /\ dl = NoDownloads
    /\ session = {}

Det(t) == <<t, 0>>

\* The status aria2 reports: a download that is still stopping is "active".
Reported(s) == IF s \in {"pausing", "removing"} THEN "active" ELSE s

-----------------------------------------------------------------------------
(* What a call does to the downloads once it reaches the process.          *)

AfterPause(s) ==
    CASE s = "waiting" -> "paused"
      [] s = "active"  -> IF SlowHalt THEN "pausing" ELSE "paused"
      [] OTHER         -> s

AfterRemove(s) ==
    CASE s \in {"waiting", "paused"}  -> "removed"
      [] s \in {"active", "pausing"}  -> IF SlowHalt THEN "removing" ELSE "removed"
      [] OTHER                        -> s

AfterForget(s) == IF s \in Stopped THEN "none" ELSE s

AfterHalt(s) ==
    CASE s = "pausing"  -> "paused"
      [] s = "removing" -> "removed"
      [] OTHER          -> s

\* d with the effect Op on the downloads of G.
OnGids(d, G, Op(_)) == [g \in Gid |-> IF g \in G THEN Op(d[g]) ELSE d[g]]

Paused(d, G)  == OnGids(d, G, AfterPause)
Removed(d, G) == OnGids(d, G, AfterRemove)
Forgot(d, G)  == OnGids(d, G, AfterForget)
Halted(d, G)  == OnGids(d, G, AfterHalt)
Unpaused(d, g) == [d EXCEPT ![g] = "waiting"]

\* The outcomes of one JSON-RPC call to the process p that turns d into d2 and
\* is answered by answer ("ok", or "rpc" for an error object).  When the
\* process is gone or the call times out the client reports "transport".
Call(p, d, d2, answer) ==
    IF p # "on"
    THEN {[dl |-> d, reply |-> "transport"]}
    ELSE {[dl |-> d2, reply |-> answer]}
         \cup {[dl |-> d2, reply |-> "transport"] : f \in RpcFaults \cap {"noreply"}}
         \cup {[dl |-> d, reply |-> "transport"] : f \in RpcFaults \cap {"lost"}}

\* The downloads after a call whose answer the service ignores.
Sent(p, d, d2) == {r.dl : r \in Call(p, d, d2, "ok")}

\* What aria2 writes to session.aria2: unfinished and failed downloads.
Unfinished(d) == {g \in Gid : d[g] \in {"waiting", "active", "pausing", "paused", "error"}}

\* Everything restored from the session starts paused (--pause=true).
Restored(S) == [g \in Gid |-> IF g \in S THEN "paused" ELSE "none"]

-----------------------------------------------------------------------------
(* Steps of the process that nobody asked for.                             *)

Alive == proc \in {"on", "orphan"}

\* A free slot lets a waiting download start.
Promote(g) ==
    /\ Alive
    /\ dl[g] = "waiting"
    /\ Cardinality({h \in Gid : Reported(dl[h]) = "active"}) < MaxActive
    /\ dl' = [dl EXCEPT ![g] = "active"]
    /\ UNCHANGED <<proc, session>>

\* A transfer ends, also while the engine is still pausing it.
Finish(g) ==
    /\ Alive
    /\ dl[g] \in {"active", "pausing"}
    /\ dl' \in {[dl EXCEPT ![g] = s] : s \in {"complete", "error"}}
    /\ UNCHANGED <<proc, session>>

\* A download that was asked to stop stops.
Halt(g) ==
    /\ Alive
    /\ dl[g] \in {"pausing", "removing"}
    /\ dl' = Halted(dl, {g})
    /\ UNCHANGED <<proc, session>>

\* --save-session-interval
SaveSession ==
    /\ Alive
    /\ session' = Unfinished(dl)
    /\ UNCHANGED <<proc, dl>>

EngineStep ==
    \/ \E g \in Gid : Promote(g) \/ Finish(g) \/ Halt(g)
    \/ SaveSession

=============================================================================
