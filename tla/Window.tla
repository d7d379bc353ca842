------------------------------- MODULE Window -------------------------------
(***************************************************************************)
(* Downloads the browser sends to the window: the launches of the          *)
(* application (crates/lyra-downloads-gtk/src/launch.rs, main.rs), the     *)
(* start of the page and its sheet "New download"                          *)
(* (crates/lyra-downloads-gtk/ui/js/main.js), and the tasks the service    *)
(* keeps under the keys the sheet sends.                                   *)
(*                                                                         *)
(* The extension may send a request again; every send_download of the      *)
(* native host starts a process.  The first one becomes the window, the    *)
(* others hand their arguments to it and end.  The page listens some time  *)
(* after the window runs.  The user edits the list of addresses, submits   *)
(* it, submits it again after an error or while it is still being worked   *)
(* off, and closes the sheet or the window at any time.                    *)
(*                                                                         *)
(* The address of a request is named by its id.                            *)
(***************************************************************************)
EXTENDS Integers, FiniteSets, SequencesExt

CONSTANTS
    Requests,   \* ids of the browser's requests
    Others,     \* addresses the user may type besides
    NoOne,      \* no request, no task
    MaxSends,   \* bound: requests sent, repetitions included
    MaxList,    \* bound: addresses in a sheet
    SameList,   \* TRUE: the user submits one and the same list for a request
    MaxLoops,   \* bound: submissions of a sheet under way
    Used        \* bound: requests whose sheet the user works with

ASSUME WindowAssumption ==
    /\ IsFiniteSet(Requests \cup Others)
    /\ NoOne \notin Requests \cup Others
    /\ {MaxSends, MaxList, MaxLoops} \subseteq Nat \ {0}
    /\ SameList \in BOOLEAN
    /\ Used \subseteq Requests

VARIABLES
    sends,    \* requests sent so far
    argv,     \* processes started for it that have not met the window yet
    app,      \* the window's process, and how far the page's start() is
    first,    \* Pending::first
    seen,     \* Pending::seen
    missed,   \* accepted before the page listened
    opening,  \* openNewDownload waits for the settings
    shown,    \* sheets opened for each request by this process
    sheet,    \* the sheet of each request
    task,     \* the service: address of the task stored under each key
    tried     \* the list last submitted for each request: <<>> for none

pageVars == <<opening, shown, sheet>>
vars == <<sends, argv, app, first, seen, missed, pageVars, task, tried>>

Urls == Requests \cup Others
\* What the sheet of r may list: its own address and those the user types.
Lists(r) == {s \in UNION {[1..n -> {r} \cup Others] : n \in 1..MaxList} : IsInjective(s)}

\* "firefox:<id>" is <<id, 0>>, "firefox:<id>-<i>" is <<id, i + 1>>.
Keys == Requests \X (0..MaxList)

\* enabled: the button.  loops: the submissions that are being worked off.
NoSheet == [state |-> "none", list |-> <<>>, enabled |-> FALSE, loops |-> <<>>]

Typed == UNION {[1..n -> Urls] : n \in 0..MaxList}
Loop == [list : Typed, next : 1..(MaxList + 1), failed : BOOLEAN]
Sheet == [state : {"none", "open", "closed"}, list : Typed, enabled : BOOLEAN, loops : Seq(Loop)]

TypeOK ==
    /\ sends \in 0..MaxSends
    /\ argv \in [Requests -> 0..MaxSends]
    /\ app \in {"off", "loading", "listening", "ready"}
    /\ first \in Requests \cup {NoOne}
    /\ seen \in SUBSET Requests
    /\ missed \in SUBSET seen
    /\ opening \in SUBSET Requests
    /\ shown \in [Requests -> 0..MaxSends]
    /\ sheet \in [Requests -> Sheet]
    /\ \A r \in Requests : Len(sheet[r].loops) <= MaxLoops
    /\ task \in [Keys -> Urls \cup {NoOne}]
    /\ tried \in [Requests -> Typed]

Init ==
    /\ sends = 0
    /\ argv = [r \in Requests |-> 0]
    /\ app = "off" /\ first = NoOne /\ seen = {} /\ missed = {} /\ opening = {}
    /\ shown = [r \in Requests |-> 0]
    /\ sheet = [r \in Requests |-> NoSheet]
    /\ task = [k \in Keys |-> NoOne]
    /\ tried = [r \in Requests |-> <<>>]

-----------------------------------------------------------------------------
(* Launches.                                                               *)

\* The host's send_download starts a process and answers dialog_opened.
SendDownload(r) ==
    /\ sends < MaxSends
    /\ sends' = sends + 1
    /\ argv' = [argv EXCEPT ![r] = @ + 1]
    /\ UNCHANGED <<app, first, seen, missed, pageVars, task, tried>>

\* Broken variant: requests that were presented are not told apart.
AcceptsAll(r) == TRUE

\* Pending::accept
Accepts(r) == r \notin seen

\* The process meets no other: it becomes the window (Pending::new).
FirstLaunch(r) ==
    /\ argv[r] > 0 /\ app = "off"
    /\ argv' = [argv EXCEPT ![r] = @ - 1]
    /\ app' = "loading"
    /\ first' = IF Accepts(r) THEN r ELSE NoOne
    /\ seen' = {r}
    /\ UNCHANGED <<sends, missed, pageVars, task, tried>>

\* The application is started by hand, or by the host's open_app.
OpenApp ==
    /\ app = "off"
    /\ app' = "loading"
    /\ UNCHANGED <<sends, argv, first, seen, missed, pageVars, task, tried>>

\* tauri_plugin_single_instance: the callback in the window's process.  The
\* event reaches the listeners of this moment.
SecondLaunch(r) ==
    /\ argv[r] > 0 /\ app # "off"
    /\ argv' = [argv EXCEPT ![r] = @ - 1]
    /\ seen' = seen \cup {r}
    /\ IF Accepts(r) /\ app # "loading"
       THEN opening' = opening \cup {r} /\ UNCHANGED missed
       ELSE /\ missed' = missed \cup {q \in {r} : Accepts(r)}
            /\ UNCHANGED opening
    /\ UNCHANGED <<sends, app, first, shown, sheet, task, tried>>

\* The last window is closed, or quit_service exits.
CloseWindow ==
    /\ app # "off"
    /\ app' = "off" /\ first' = NoOne /\ seen' = {} /\ missed' = {} /\ opening' = {}
    /\ shown' = [r \in Requests |-> 0]
    /\ sheet' = [r \in Requests |-> NoSheet]
    /\ UNCHANGED <<sends, argv, task, tried>>

-----------------------------------------------------------------------------
(* The page.                                                               *)

\* start() up to on("add-url").
Listen ==
    /\ app = "loading"
    /\ app' = "listening"
    /\ UNCHANGED <<sends, argv, first, seen, missed, pageVars, task, tried>>

\* Broken variant: the request of the first launch is not taken.
StartWithoutTaking ==
    /\ app = "listening"
    /\ app' = "ready"
    /\ UNCHANGED <<sends, argv, first, seen, missed, pageVars, task, tried>>

\* Broken variant: an empty answer is not told apart.
TakeUnchecked ==
    /\ app = "listening"
    /\ app' = "ready"
    /\ first' = NoOne
    /\ opening' = opening \cup {first}
    /\ UNCHANGED <<sends, argv, seen, missed, shown, sheet, task, tried>>

\* The rest of start(), which ends with take_launch_request.
TakeLaunchRequest ==
    /\ app = "listening"
    /\ app' = "ready"
    /\ first' = NoOne
    /\ opening' = opening \cup ({first} \ {NoOne})
    /\ UNCHANGED <<sends, argv, seen, missed, shown, sheet, task, tried>>

\* openNewDownload has the settings, or has failed to get them.
OpenSheet(r) ==
    /\ r \in opening
    /\ opening' = opening \ {r}
    /\ shown' = [shown EXCEPT ![r] = @ + 1]
    /\ sheet' = [sheet EXCEPT ![r] = [NoSheet EXCEPT !.state = "open", !.list = <<r>>, !.enabled = TRUE]]
    /\ UNCHANGED <<sends, argv, app, first, seen, missed, task, tried>>

\* The list or another field is edited: refreshForm enables the button,
\* whatever is under way.
Edit(r) ==
    /\ r \in Used /\ sheet[r].state = "open"
    /\ \E list \in Lists(r) : sheet' = [sheet EXCEPT ![r].list = list, ![r].enabled = TRUE]
    /\ UNCHANGED <<sends, argv, app, first, seen, missed, opening, shown, task, tried>>

\* The sheet is closed; what it has submitted goes on.
Dismiss(r) ==
    /\ sheet[r].state = "open"
    /\ sheet' = [sheet EXCEPT ![r].state = "none"]
    /\ UNCHANGED <<sends, argv, app, first, seen, missed, opening, shown, task, tried>>

\* "Download" is pressed.
Submit(r) ==
    LET s == sheet[r] IN
    /\ r \in Used /\ s.state = "open" /\ s.enabled /\ Len(s.loops) < MaxLoops
    /\ SameList => tried[r] \in {<<>>, s.list}
    /\ sheet' = [sheet EXCEPT
         ![r].loops = Append(@, [list |-> s.list, next |-> 1, failed |-> FALSE]),
         ![r].enabled = FALSE]
    /\ tried' = [tried EXCEPT ![r] = s.list]
    /\ UNCHANGED <<sends, argv, app, first, seen, missed, opening, shown, task>>

\* Broken variant: one key for the whole sheet.
KeyOfSheet(r, list, i) == <<r, 0>>

\* The key of the i-th address.
KeyOf(r, list, i) == <<r, IF Len(list) = 1 THEN 0 ELSE i>>

\* One add_download of the loop.  Service::add looks at the key alone.  The
\* call may be refused, or its answer may be lost: both are failures.
AddOne(r, n) ==
    LET loop == sheet[r].loops[n]
        key == KeyOf(r, loop.list, loop.next)
        stored == [task EXCEPT ![key] = IF @ = NoOne THEN loop.list[loop.next] ELSE @]
        went(ok) == sheet' = [sheet EXCEPT ![r].loops[n] =
                                [loop EXCEPT !.next = @ + 1, !.failed = @ \/ ~ok]]
    IN  /\ loop.next \in DOMAIN loop.list
        /\ \/ task' = stored /\ went(TRUE)
           \/ task' = stored /\ went(FALSE)
           \/ UNCHANGED task /\ went(FALSE)
        /\ UNCHANGED <<sends, argv, app, first, seen, missed, opening, shown, tried>>

\* After its loop a submission shows its failures, or closes the sheet.
EndSubmit(r, n) ==
    LET loop == sheet[r].loops[n] IN
    /\ loop.next = Len(loop.list) + 1
    /\ sheet' = [sheet EXCEPT ![r].loops = RemoveAt(@, n), ![r].enabled = TRUE,
                              ![r].state = IF loop.failed THEN @ ELSE "closed"]
    /\ UNCHANGED <<sends, argv, app, first, seen, missed, opening, shown, task, tried>>

-----------------------------------------------------------------------------

Launch(r) == SendDownload(r) \/ FirstLaunch(r) \/ SecondLaunch(r)
Page(r) == OpenSheet(r) \/ \E n \in DOMAIN sheet[r].loops : AddOne(r, n) \/ EndSubmit(r, n)
User(r) == Edit(r) \/ Dismiss(r) \/ Submit(r)

Next ==
    \/ \E r \in Requests : Launch(r) \/ Page(r) \/ User(r)
    \/ OpenApp \/ Listen \/ TakeLaunchRequest \/ CloseWindow

\* The page's event loop runs, and the calls it waits for return or time out;
\* nobody need send, submit or close anything.
Fairness ==
    /\ WF_vars(Listen)
    /\ WF_vars(TakeLaunchRequest)
    /\ \A r \in Requests : WF_vars(OpenSheet(r))

Spec == Init /\ [][Next]_vars /\ Fairness

-----------------------------------------------------------------------------
(* Properties.                                                             *)

\* A request that is sent again, or whose process comes late, opens no second
\* sheet in the window that has shown it (launch.rs:32).
OneSheet == \A r \in Requests : shown[r] <= 1

\* If the user submits one and the same list for a request (SameList), then
\* whatever failed, was repeated or submitted twice at a time, was sent again
\* by the browser or met a new window: no address has two tasks, no task has
\* another address, and once the sheet closes as done every address has one
\* (main.js:456, service.rs:264).
OneTaskEach ==
    \A r \in Requests :
        LET made == {k \in Keys : k[1] = r /\ task[k] # NoOne}
            done == {task[k] : k \in made}
        IN  /\ Cardinality(made) = Cardinality(done)
            /\ done \subseteq ToSet(tried[r])
            /\ sheet[r].state = "closed" => done = ToSet(tried[r])

\* A request the window accepts is shown, also when it was the launch itself
\* or arrived while the page was starting, unless the window is closed; only
\* what arrives before the page listens is lost (main.js:935, main.rs:33).
AcceptedIsShown ==
    \A r \in Requests : r \in seen \ missed ~> shown[r] > 0 \/ app = "off"

=============================================================================
