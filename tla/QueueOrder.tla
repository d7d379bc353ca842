----------------------------- MODULE QueueOrder -----------------------------
(***************************************************************************)
(* The order of the queue: queue_position of the rows                      *)
(* (crates/lyra-downloads-core/src/db.rs), move_task and                   *)
(* mirror_queue_order of the service, which carry an order over to aria2   *)
(* call by call, and the moves a drag in the window sends                  *)
(* (crates/lyra-downloads-gtk/ui/js/main.js).                              *)
(*                                                                         *)
(* aria2 keeps one queue of the downloads that do not run; it starts the   *)
(* first one that is not paused whenever a slot is free, between any two   *)
(* calls of the service.  A download is named by its task here: GIDs,      *)
(* pause reasons and the races of the tick belong to DownloadService.      *)
(***************************************************************************)
EXTENDS Integers, FiniteSets, SequencesExt

CONSTANTS
    Tasks,      \* task identities
    Nobody,     \* no task
    MaxActive,  \* settings.max_concurrent_downloads
    Lost,       \* TRUE: a submission or a call of the mirror may be lost
    MaxActs     \* bound: operations, drags and restarts of the engine

ASSUME QueueAssumption ==
    /\ IsFiniteSet(Tasks)
    /\ Nobody \notin Tasks
    /\ MaxActive \in Nat \ {0}
    /\ Lost \in BOOLEAN
    /\ MaxActs \in Nat

VARIABLES
    row,        \* state of each row
    pos,        \* queue_position
    born,       \* rank of created_at; 0: no row
    queue,      \* aria2: downloads that do not run, in order
    held,       \* those of them that are paused
    active,     \* aria2: downloads that run
    halting,    \* active downloads that were asked to pause
    ended,      \* downloads aria2 reports as complete
    reconcile,  \* Service::needs_reconcile
    asked,      \* move_task: the task and the direction at hand
    order,      \* mirror_queue_order: the downloads it places, in order
    turn,       \* the one whose turn it is; 0: the mutex is free
    placed,     \* those whose changePosition aria2 has applied, since a
                \* paused download last joined the front of its queue
    drag,       \* the page: the drag under way
    acts        \* operations, drags and restarts so far

engineVars == <<queue, held, active, halting, ended>>
mirrorVars == <<asked, order, turn, placed>>
vars == <<row, pos, born, engineVars, reconcile, mirrorVars, drag, acts>>

N == Cardinality(Tasks)
Live == {"aguardando", "baixando", "pausado"}
\* "novo": not added yet.  "fim": any terminal state.  "apagado": no row.
RowState == Live \cup {"novo", "fim", "apagado"}
Direction == {"up", "down", "top", "bottom"}

Rows == {t \in Tasks : row[t] \notin {"novo", "apagado"}}
Waiting == {t \in Tasks : row[t] = "aguardando"}
Engine == ToSet(queue) \cup active

NoMove == [id |-> Nobody, direction |-> "up"]
NoDrag == [step |-> "none", id |-> Nobody, drawn |-> {}, seen |-> <<>>,
           target |-> Nobody, direction |-> "up", left |-> 0, calm |-> FALSE]

\* Sequences of tasks without repetition.
Lines == {s \in Seq(Tasks) : IsInjective(s)}

TypeOK ==
    /\ row \in [Tasks -> RowState]
    /\ pos \in [Tasks -> 0..N]
    /\ born \in [Tasks -> 0..N]
    /\ queue \in Lines
    /\ held \subseteq ToSet(queue)
    /\ halting \subseteq active /\ active \subseteq Tasks \ ToSet(queue)
    /\ Cardinality(active) <= MaxActive
    /\ ended \subseteq Tasks \ Engine
    /\ reconcile \in BOOLEAN
    /\ asked \in [id : Tasks \cup {Nobody}, direction : Direction]
    /\ order \in Lines
    /\ turn \in 0..(N + 1)
    /\ placed \subseteq ToSet(order)
    /\ drag \in [step : {"none", "held", "moving"}, id : Tasks \cup {Nobody},
                 drawn : SUBSET Tasks, seen : Lines, target : Tasks \cup {Nobody},
                 direction : Direction, left : 0..N, calm : BOOLEAN]
    /\ acts \in 0..MaxActs

\* Index of t in s counted from 0; -1 when it is not there, as findIndex has it.
IndexIn(s, t) == SelectInSeq(s, LAMBDA u : u = t) - 1

\* Some tasks have been added, one after the other, and nothing else happened.
Init ==
    /\ \E S \in SUBSET Tasks : queue \in SetToSeqs(S)
    /\ row = [t \in Tasks |-> IF t \in ToSet(queue) THEN "aguardando" ELSE "novo"]
    /\ pos = [t \in Tasks |-> IndexIn(queue, t) + 1]
    /\ born = pos
    /\ held = {} /\ active = {} /\ halting = {} /\ ended = {}
    /\ reconcile = FALSE
    /\ asked = NoMove /\ order = <<>> /\ turn = 0 /\ placed = {}
    /\ drag = NoDrag
    /\ acts = 0

-----------------------------------------------------------------------------
(* Reading the rows.                                                       *)

\* S as a sequence; before[t]: the members of S that come before t.
Sorted(S, before) ==
    [i \in 1..Cardinality(S) |-> CHOOSE t \in S : Cardinality(before[t]) = i - 1]

\* list_tasks: ORDER BY queue_position ASC, created_at ASC
Listed(S) == Sorted(S, [t \in S |-> {u \in S : \/ pos[u] < pos[t]
                                               \/ pos[u] = pos[t] /\ born[u] < born[t]}])

\* The elements of s that S has, as s has them.
Picked(s, S) ==
    LET T == ToSet(s) \cap S
    IN  Sorted(T, [t \in T |-> {u \in T : IndexIn(s, u) < IndexIn(s, t)}])

\* next_queue_position: MAX over the rows of every state, or 0, and 1 more.
NextPosition == 1 + Max({0} \cup {pos[t] : t \in Rows})

-----------------------------------------------------------------------------
(* aria2.                                                                  *)

\* A free slot starts the first download that is not paused.
Promote ==
    /\ Cardinality(active) < MaxActive
    /\ \E i \in DOMAIN queue :
         /\ queue[i] \notin held
         /\ \A j \in 1..(i - 1) : queue[j] \in held
         /\ active' = active \cup {queue[i]}
         /\ queue' = RemoveAt(queue, i)
    /\ UNCHANGED <<row, pos, born, held, halting, ended, reconcile, mirrorVars, drag>>

Finish ==
    /\ \E t \in active :
         /\ active' = active \ {t}
         /\ halting' = halting \ {t}
         /\ ended' = ended \cup {t}
    /\ UNCHANGED <<row, pos, born, queue, held, reconcile, mirrorVars, drag>>

\* A download that ran and was paused goes back to the front of the queue,
\* some time after the call was answered: what was placed is no longer where
\* it was put.
Halt ==
    /\ \E t \in halting :
         /\ active' = active \ {t}
         /\ halting' = halting \ {t}
         /\ queue' = <<t>> \o queue
         /\ held' = held \cup {t}
    /\ placed' = {}
    /\ UNCHANGED <<row, pos, born, ended, reconcile, asked, order, turn, drag>>

\* The engine pauses S, un-pauses freed, and takes added (the ones in H
\* paused) at the end of the queue.
Rearranged(S, freed, added, H) ==
    /\ queue' = queue \o added
    /\ held' = (held \ freed) \cup (S \cap ToSet(queue)) \cup H
    /\ halting' = halting \cup (S \cap active)
    /\ UNCHANGED active

\* changePosition(t, p, POS_SET): p past the end means the end.
Repositioned(t, p) ==
    LET rest == RemoveFirst(queue, t)
    IN  InsertAt(rest, Min({p, Len(rest)}) + 1, t)

-----------------------------------------------------------------------------
(* Operations that let a task join or leave the queue.                     *)

Free == turn = 0

\* A drag counts on the list it saw until somebody else changes that list.
Watched == drag' = [drag EXCEPT !.calm = @ /\ Listed(Waiting)' = Listed(Waiting)]

\* addUri appends; a call that is lost changes nothing.
Submitted(t) == {Append(queue, t)} \cup (IF Lost THEN {queue} ELSE {})

\* Service::add.  The row stays queued when the submission is lost.
Add(t) ==
    /\ Free /\ row[t] = "novo"
    /\ row' = [row EXCEPT ![t] = "aguardando"]
    /\ pos' = [pos EXCEPT ![t] = NextPosition]
    /\ born' = [born EXCEPT ![t] = 1 + Max({born[u] : u \in Tasks})]
    /\ queue' \in Submitted(t)
    /\ UNCHANGED <<held, active, halting, ended, reconcile, mirrorVars>>
    /\ Watched

\* Service::pause
Pause(t) ==
    /\ Free /\ row[t] \in {"aguardando", "baixando"}
    /\ row' = [row EXCEPT ![t] = "pausado"]
    /\ Rearranged({t}, {}, <<>>, {})
    /\ UNCHANGED <<pos, born, ended, reconcile, mirrorVars>>
    /\ Watched

\* Broken variant: a download the engine has is submitted again.
ResumeSubmits(t) ==
    /\ Free /\ row[t] = "pausado"
    /\ queue' = Append(queue, t)
    /\ held' = held \ {t}
    /\ ended' = ended \ {t}
    /\ row' = [row EXCEPT ![t] = "aguardando"]
    /\ UNCHANGED <<pos, born, active, halting, reconcile, mirrorVars>>
    /\ Watched

\* Service::resume.  The task keeps its position and, in the engine, its
\* place; a download the engine does not have is submitted.
Resume(t) ==
    /\ Free /\ row[t] = "pausado"
    /\ IF t \in Engine THEN UNCHANGED queue ELSE queue' = Append(queue, t)
    /\ held' = held \ {t}
    /\ ended' = ended \ {t}
    /\ row' = [row EXCEPT ![t] = "aguardando"]
    /\ UNCHANGED <<pos, born, active, halting, reconcile, mirrorVars>>
    /\ Watched

\* Service::retry.  The task keeps its position; the engine appends it.
Retry(t) ==
    /\ Free /\ row[t] = "fim"
    /\ queue' = Append(queue, t)
    /\ ended' = ended \ {t}
    /\ row' = [row EXCEPT ![t] = "aguardando"]
    /\ UNCHANGED <<pos, born, held, active, halting, reconcile, mirrorVars>>
    /\ Watched

\* Service::cancel
Cancel(t) ==
    /\ Free /\ row[t] \in Live
    /\ row' = [row EXCEPT ![t] = "fim"]
    /\ queue' = RemoveFirst(queue, t)
    /\ held' = held \ {t} /\ active' = active \ {t}
    /\ halting' = halting \ {t} /\ ended' = ended \ {t}
    /\ UNCHANGED <<pos, born, reconcile, mirrorVars>>
    /\ Watched

\* Service::remove_from_history
RemoveFromHistory(t) ==
    /\ Free /\ row[t] = "fim"
    /\ row' = [row EXCEPT ![t] = "apagado"]
    /\ pos' = [pos EXCEPT ![t] = 0]
    /\ born' = [born EXCEPT ![t] = 0]
    /\ UNCHANGED <<engineVars, reconcile, mirrorVars>>
    /\ Watched

-----------------------------------------------------------------------------
(* The tick, and an engine that is replaced.                               *)

\* The tasks the tick wants to run.  After a restart of the engine that is
\* up to the settings and the pause reasons.
Wanted ==
    LET alive == {t \in Tasks : row[t] \in Live}
        going == {t \in alive : row[t] # "pausado"}
    IN  IF reconcile THEN {{}} \cup {R \in SUBSET alive : going \subseteq R} ELSE {going}

\* One row after the tick; run: the tasks that shall run.
Ticked(t, run, sent, missing) ==
    IF row[t] \notin Live \/ t \in missing \ sent THEN row[t]
    ELSE IF t \in sent THEN IF t \in run THEN "aguardando" ELSE "pausado"
    ELSE IF t \in ended THEN "fim"
    ELSE IF reconcile /\ t \in held /\ t \in run THEN "aguardando"
    ELSE IF reconcile /\ t \notin run THEN "pausado"
    ELSE IF t \in active THEN "baixando"
    ELSE IF t \in held THEN "pausado" ELSE "aguardando"

\* service.rs: tick.  It goes through the tasks as list_tasks has them.
Tick ==
    LET missing == {t \in Tasks : row[t] \in Live} \ (Engine \cup ended) IN
    /\ Free
    /\ \E run \in Wanted : \E sent \in IF Lost THEN SUBSET missing ELSE {missing} :
         /\ row' = [t \in Tasks |-> Ticked(t, run, sent, missing)]
         /\ Rearranged(IF reconcile THEN {t \in Engine : row[t] \in Live \ {"pausado"}} \ run ELSE {},
                       IF reconcile THEN run \cap held ELSE {},
                       Listed(sent), sent \ run)
    /\ ended' = {t \in ended : row[t] \notin Live}
    /\ reconcile' = FALSE
    /\ UNCHANGED <<pos, born, mirrorVars>>
    /\ Watched

\* aria2c ends and is started again: what its session file has comes back
\* paused, the downloads that ran first.
EngineRestarts ==
    /\ Free
    /\ \E kept \in SUBSET Engine : \E s \in SetToSeqs(active \cap kept) :
         /\ queue' = s \o Picked(queue, kept)
         /\ held' = kept
    /\ active' = {} /\ halting' = {} /\ ended' = {}
    /\ reconcile' = TRUE
    /\ UNCHANGED <<row, pos, born, mirrorVars, drag>>

-----------------------------------------------------------------------------
(* move_task.                                                              *)

\* The list of queued tasks after t was moved.
Moved(list, t, direction) ==
    LET i == IndexIn(list, t)
        rest == RemoveFirst(list, t)
        to == CASE direction = "up" -> Max({i - 1, 0})
                [] direction = "down" -> Min({i + 1, Len(rest)})
                [] direction = "top" -> 0
                [] direction = "bottom" -> Len(rest)
    IN  InsertAt(rest, to + 1, t)

\* Broken variant: only the task that moves gets a new number.
RenumberOne(list, t) == pos' = [pos EXCEPT ![t] = IndexIn(list, t)]

\* reorder_waiting
Renumber(list, t) ==
    pos' = [u \in Tasks |-> IF u \in ToSet(list) THEN IndexIn(list, u) ELSE pos[u]]

\* move_task up to tell_waiting, whose failure ends the mirror at once.
StartMove(t, direction) ==
    LET list == Moved(Listed(Waiting), t, direction)
        known == ToSet(queue) \ held
    IN  /\ Free /\ row[t] = "aguardando"
        /\ asked' = [id |-> t, direction |-> direction]
        /\ Renumber(list, t)
        /\ order' \in {Picked(list, known)} \cup (IF Lost THEN {<<>>} ELSE {})
        /\ turn' = 1
        /\ placed' = {}
        /\ UNCHANGED <<row, born, engineVars, reconcile>>

\* Broken variant: the position is not advanced.
MirrorAtFront ==
    /\ turn \in DOMAIN order
    /\ order[turn] \in ToSet(queue)
    /\ queue' = Repositioned(order[turn], 0)
    /\ placed' = placed \cup {order[turn]}
    /\ turn' = turn + 1
    /\ UNCHANGED <<row, pos, born, held, active, halting, ended, reconcile, asked, order, drag>>

\* One call of mirror_queue_order.  Its answer is ignored: a download that
\* meanwhile runs is no longer in the queue, but counts.
Mirror ==
    /\ turn \in DOMAIN order
    /\ LET t == order[turn] IN
         \/ /\ t \in ToSet(queue)
            /\ queue' = Repositioned(t, turn - 1)
            /\ placed' = placed \cup {t}
         \/ /\ t \notin ToSet(queue) \/ Lost
            /\ UNCHANGED <<queue, placed>>
    /\ turn' = turn + 1
    /\ UNCHANGED <<row, pos, born, held, active, halting, ended, reconcile, asked, order, drag>>

\* move_task answers.
EndMove ==
    /\ turn = Len(order) + 1
    /\ asked' = NoMove /\ order' = <<>> /\ turn' = 0 /\ placed' = {}
    /\ UNCHANGED <<row, pos, born, engineVars, reconcile, drag>>

MoveTask(t, direction) == StartMove(t, direction) /\ Watched

-----------------------------------------------------------------------------
(* The page: main.js, dragReorder.                                         *)

queueVars == <<row, pos, born, engineVars, reconcile, mirrorVars>>

\* A row of the queue is picked up.  drawn: the rows that take a drop.
DragStart(t) ==
    /\ Free /\ drag.step = "none" /\ t \in Waiting
    /\ drag' = [NoDrag EXCEPT !.step = "held", !.id = t, !.drawn = Waiting, !.seen = Listed(Waiting)]
    /\ UNCHANGED queueVars

\* The poll of the page: snap changes, the rows stay while one is dragged.
PageRefresh ==
    /\ Free /\ drag.step = "held"
    /\ drag' = [drag EXCEPT !.seen = Listed(Waiting)]
    /\ UNCHANGED queueVars

\* Broken variant: a move down does not make up for the dragged row itself.
StepsUncorrected(from, to) == to - from

\* The single steps, down if positive, from the snapshot at the drop.
Steps(from, to) == to - from - (IF to > from THEN 1 ELSE 0)

Drop(target) ==
    LET steps == Steps(IndexIn(drag.seen, drag.id), IndexIn(drag.seen, target)) IN
    /\ drag.step = "held" /\ target \in drag.drawn \ {drag.id}
    /\ drag' = [drag EXCEPT !.step = "moving", !.target = target, !.drawn = {}, !.seen = <<>>,
                            !.direction = IF steps < 0 THEN "up" ELSE "down",
                            !.left = IF steps < 0 THEN -steps ELSE steps,
                            !.calm = /\ drag.seen = Listed(Waiting)
                                     /\ {drag.id, target} \subseteq ToSet(drag.seen)]
    /\ UNCHANGED queueVars

\* One awaited call of the loop.
DragMove ==
    /\ drag.step = "moving" /\ drag.left > 0
    /\ StartMove(drag.id, drag.direction)
    /\ drag' = [drag EXCEPT !.left = @ - 1]

\* The service refuses a task that is no longer queued, and the loop breaks;
\* or all steps are done.
DragEnd ==
    /\ Free /\ drag.step = "moving"
    /\ drag.left = 0 \/ row[drag.id] # "aguardando"
    /\ drag' = NoDrag
    /\ UNCHANGED queueVars

-----------------------------------------------------------------------------

Operation(t) ==
    \/ Add(t) \/ Pause(t) \/ Resume(t) \/ Retry(t) \/ Cancel(t) \/ RemoveFromHistory(t)
    \/ \E d \in Direction : MoveTask(t, d)
    \/ DragStart(t)

Act == acts < MaxActs /\ acts' = acts + 1

Next ==
    \/ Act /\ \E t \in Tasks : Operation(t)
    \/ Act /\ EngineRestarts
    \/ /\ \/ Promote \/ Finish \/ Halt
          \/ Tick \/ Mirror \/ EndMove
          \/ PageRefresh \/ DragMove \/ DragEnd
          \/ \E t \in Tasks : Drop(t)
       /\ UNCHANGED acts

Spec == Init /\ [][Next]_vars

-----------------------------------------------------------------------------
(* Properties.                                                             *)

Precedes(s, t, u) == IndexIn(s, t) < IndexIn(s, u)

\* move_task moves the one task it was asked to move, one place or to an end,
\* and leaves the others as they were listed, whatever positions the rows had
\* and shared before (service.rs:620, db.rs:263).
MoveAsAsked ==
    [][turn = 0 /\ turn' = 1 =>
        LET before == Listed(Waiting)
            after == Listed(Waiting)'
            t == asked'.id
            shift == IndexIn(after, t) - IndexIn(before, t)
        IN  /\ RemoveFirst(after, t) = RemoveFirst(before, t)
            /\ CASE asked'.direction = "up" -> shift = IF t = Head(before) THEN 0 ELSE -1
                 [] asked'.direction = "down" -> shift = IF t = Last(before) THEN 0 ELSE 1
                 [] asked'.direction = "top" -> t = Head(after)
                 [] asked'.direction = "bottom" -> t = Last(after)]_vars

\* What mirror_queue_order has placed stands in aria2's queue in the listed
\* order at every point of the mirror, though aria2 starts downloads between
\* its calls and calls get lost.  Only a download that is still stopping and
\* joins the queue during the mirror may spoil it (service.rs:661).
MoveIsMirrored ==
    \A i, j \in DOMAIN order :
        i < j /\ {order[i], order[j]} \subseteq placed \cap ToSet(queue)
            => Precedes(queue, order[i], order[j])

\* A drag puts the task right before the row it was dropped on, if the list
\* was the one the page showed and nobody else changes it (main.js:314).
DragLands ==
    drag.step = "moving" /\ drag.left = 0 /\ drag.calm
        => IndexIn(Listed(Waiting), drag.target) = IndexIn(Listed(Waiting), drag.id) + 1

=============================================================================
