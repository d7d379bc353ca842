---------------------------- MODULE HandoffOwner ----------------------------
(***************************************************************************)
(* What the automatic handoff promises (docs/PROTOCOL.md, section 3): every *)
(* download a browser starts has one owner.  It begins with Firefox, is     *)
(* nobody's while the handoff is undecided, and ends with Lyra or with      *)
(* Firefox.  Each side transfers only what is its own; Lyra may transfer    *)
(* what is undecided, and its copy then counts only if Firefox gives up.    *)
(***************************************************************************)
CONSTANT Keys  \* the handoffs, one request id each

VARIABLES
    owner,    \* whose download it is
    copies,   \* who transfers it
    revived   \* those the user has started again in Lyra

vars == <<owner, copies, revived>>

Owners == {"firefox", "undecided", "lyra", "kept"}
Sides == {"firefox", "lyra"}

TypeOK ==
    /\ owner \in [Keys -> Owners]
    /\ copies \in [Keys -> SUBSET Sides]
    /\ revived \in SUBSET Keys

Init ==
    /\ owner = [k \in Keys |-> "firefox"]
    /\ copies = [k \in Keys |-> {"firefox"}]
    /\ revived = {}

\* Firefox pauses its copy and offers the download.
Offer(k) ==
    /\ owner[k] = "firefox"
    /\ owner' = [owner EXCEPT ![k] = "undecided"]
    /\ copies' = [copies EXCEPT ![k] = {}]
    /\ UNCHANGED revived

\* Lyra transfers, on its own or because the user starts the task again.
LyraStarts(k) ==
    /\ owner[k] # "firefox"
    /\ revived' \in {revived, revived \cup {k}}
    /\ owner[k] = "kept" => k \in revived'
    /\ copies' = [copies EXCEPT ![k] = @ \cup {"lyra"}]
    /\ UNCHANGED owner

LyraStops(k) ==
    /\ copies' = [copies EXCEPT ![k] = @ \ {"lyra"}]
    /\ revived' \in {revived, revived \ {k}}
    /\ UNCHANGED owner

\* Firefox gives its copy up.
Hand(k) ==
    /\ owner[k] = "undecided"
    /\ owner' = [owner EXCEPT ![k] = "lyra"]
    /\ UNCHANGED <<copies, revived>>

\* Firefox goes on with its copy, which is then the only one.
Keep(k) ==
    /\ owner[k] \in {"firefox", "undecided"}
    /\ "lyra" \in copies[k] => k \in revived
    /\ owner' = [owner EXCEPT ![k] = "kept"]
    /\ copies' = [copies EXCEPT ![k] = @ \cup {"firefox"}]
    /\ UNCHANGED revived

\* The user starts the task again after the browser asked to have it stopped.
Revive(k) ==
    /\ owner[k] # "firefox"
    /\ revived' = revived \cup {k}
    /\ UNCHANGED <<owner, copies>>

Next ==
    \E k \in Keys :
        Offer(k) \/ LyraStarts(k) \/ LyraStops(k) \/ Hand(k) \/ Keep(k) \/ Revive(k)

Spec == Init /\ [][Next]_vars

\* Two copies are transferred only if the user asked for the second one.
OneCopy == \A k \in Keys : copies[k] = Sides => k \in revived
=============================================================================
