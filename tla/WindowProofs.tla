---------------------------- MODULE WindowProofs ----------------------------
(***************************************************************************)
(* Proofs about Window, for any requests, addresses and bounds: the types,  *)
(* that no request opens two sheets in a window, and that no address        *)
(* becomes two tasks while the user keeps to one list.                      *)
(***************************************************************************)
EXTENDS Window, FiniteSetTheorems, SequenceTheorems, TLAPS

-----------------------------------------------------------------------------
(* The actions, by what they leave alone.                                  *)

\* The list, and what has been submitted of it.
Stay == UNCHANGED <<sheet, task, tried>>

\* No launch is under way in these.
Typing(r) ==
    \/ User(r)
    \/ \E n \in DOMAIN sheet[r].loops : AddOne(r, n) \/ EndSubmit(r, n)

LEMMA TypingStays ==
    ASSUME NEW r \in Requests, Typing(r)
    PROVE  UNCHANGED <<sends, argv, app, first, seen, missed, opening, shown>>
BY DEF Typing, User, Edit, Dismiss, Submit, AddOne, EndSubmit

LEMMA LaunchStays ==
    ASSUME \/ \E r \in Requests : Launch(r)
           \/ OpenApp \/ Listen \/ TakeLaunchRequest
    PROVE  Stay
BY DEF Launch, SendDownload, FirstLaunch, SecondLaunch, OpenApp, Listen, TakeLaunchRequest, pageVars, Stay

-----------------------------------------------------------------------------
(* Sheets are opened once.                                                 *)

LaunchTypes ==
    /\ sends \in 0..MaxSends
    /\ argv \in [Requests -> Nat] /\ \A r \in Requests : argv[r] <= sends
    /\ app \in {"off", "loading", "listening", "ready"}
    /\ first \in Requests \cup {NoOne}
    /\ seen \in SUBSET Requests /\ missed \in SUBSET seen /\ opening \in SUBSET Requests
    /\ shown \in [Requests -> {0, 1}]

\* A request the window has accepted is at one place of its way to a sheet.
Once(r) ==
    /\ shown[r] = 1 => r \in seen /\ r \notin opening /\ first # r
    /\ r \in opening => r \in seen /\ first # r
    /\ first = r => r \in seen

LaunchInv ==
    /\ LaunchTypes
    /\ app = "off" => first = NoOne /\ seen = {} /\ opening = {} /\ shown = [r \in Requests |-> 0]
    /\ \A r \in Requests : Once(r)

LEMMA LaunchInit == Init => LaunchInv
BY WindowAssumption DEF Init, LaunchInv, LaunchTypes, Once

LEMMA LaunchStep ==
    ASSUME LaunchInv, [Next]_vars
    PROVE  LaunchInv'
<1> USE WindowAssumption DEF LaunchInv, LaunchTypes, Once
<1>1. ASSUME NEW r \in Requests, SendDownload(r)
      PROVE  LaunchInv'
  BY <1>1 DEF SendDownload, pageVars
<1>2. ASSUME NEW r \in Requests, FirstLaunch(r)
      PROVE  LaunchInv'
  BY <1>2 DEF FirstLaunch, Accepts, pageVars
<1>3. ASSUME NEW r \in Requests, SecondLaunch(r)
      PROVE  LaunchInv'
  BY <1>3 DEF SecondLaunch, Accepts
<1>4. ASSUME NEW r \in Requests, OpenSheet(r)
      PROVE  LaunchInv'
  BY <1>4 DEF OpenSheet
<1>5. CASE OpenApp \/ Listen \/ TakeLaunchRequest
  BY <1>5 DEF OpenApp, Listen, TakeLaunchRequest, pageVars
<1>6. CASE CloseWindow
  BY <1>6 DEF CloseWindow
<1>7. ASSUME NEW r \in Requests, Typing(r)
      PROVE  LaunchInv'
  BY <1>7, TypingStays
<1>8. CASE UNCHANGED vars
  BY <1>8 DEF vars, pageVars
<1>9. QED
  BY <1>1, <1>2, <1>3, <1>4, <1>5, <1>6, <1>7, <1>8 DEF Next, Launch, Page, Typing

\* A request that is sent again, or whose process comes late, opens no second
\* sheet in the window that has shown it.
THEOREM SheetOpensOnce == Spec => []OneSheet
<1>1. LaunchInv => OneSheet
  <2>1. ASSUME LaunchInv, NEW r \in Requests
        PROVE  shown[r] <= 1
    <3>1. shown[r] = 0 \/ shown[r] = 1
      BY <2>1 DEF LaunchInv, LaunchTypes
    <3>2. QED
      BY <3>1
  <2>2. QED
    BY <2>1 DEF OneSheet
<1>2. QED
  BY <1>1, LaunchInit, LaunchStep, PTL DEF Spec

-----------------------------------------------------------------------------
(* Types.                                                                  *)

PageTypes ==
    /\ sheet \in [Requests -> Sheet]
    /\ \A r \in Requests : Len(sheet[r].loops) <= MaxLoops
    /\ task \in [Keys -> Urls \cup {NoOne}]
    /\ tried \in [Requests -> Typed]

\* A list is a sequence of addresses, within the bound.
LEMMA ListsTyped ==
    ASSUME NEW r \in Requests, NEW list \in Lists(r)
    PROVE  /\ list \in Typed /\ list # <<>> /\ IsInjective(list)
           /\ \E n \in 1..MaxList : list \in [1..n -> {r} \cup Others]
BY WindowAssumption DEF Lists, Typed, Urls

LEMMA TypedLists ==
    ASSUME NEW list \in Typed
    PROVE  /\ list \in Seq(Urls) /\ Len(list) \in 0..MaxList
           /\ DOMAIN list = 1..Len(list) /\ \A i \in DOMAIN list : list[i] \in Urls
<1>1. PICK n \in 0..MaxList : list \in [1..n -> Urls]
  BY DEF Typed
<1>2. list \in Seq(Urls) /\ Len(list) = n
  BY <1>1, WindowAssumption
<1>3. QED
  BY <1>1, <1>2, WindowAssumption

\* What is left of the submissions when one of them ends.
LEMMA LoopsLeft ==
    ASSUME NEW S, NEW s \in Seq(S), NEW n \in DOMAIN s
    PROVE  /\ RemoveAt(s, n) \in Seq(S) /\ Len(RemoveAt(s, n)) <= Len(s)
           /\ \A i \in DOMAIN RemoveAt(s, n) : \E j \in DOMAIN s : RemoveAt(s, n)[i] = s[j]
<1> DEFINE a == SubSeq(s, 1, n - 1)
           b == SubSeq(s, n + 1, Len(s))
<1>1. n \in 1..Len(s) /\ Len(s) \in Nat
  OBVIOUS
<1>2. a \in Seq(S) /\ Len(a) = n - 1 /\ \A i \in 1..(n - 1) : a[i] = s[i]
  BY <1>1
<1>3. b \in Seq(S) /\ Len(b) = Len(s) - n /\ \A i \in 1..(Len(s) - n) : b[i] = s[i + n]
  BY <1>1
<1>4. RemoveAt(s, n) = a \o b
  BY DEF RemoveAt
<1> HIDE DEF a, b
<1>5. /\ a \o b \in Seq(S) /\ Len(a \o b) = Len(s) - 1
      /\ \A i \in 1..(Len(s) - 1) : (a \o b)[i] = IF i <= n - 1 THEN a[i] ELSE b[i - (n - 1)]
  <2>1. /\ a \o b \in Seq(S) /\ Len(a \o b) = Len(a) + Len(b)
        /\ \A i \in 1..(Len(a) + Len(b)) : (a \o b)[i] = IF i <= Len(a) THEN a[i] ELSE b[i - Len(a)]
    BY <1>2, <1>3, ConcatProperties, Zenon
  <2>2. Len(a) = n - 1 /\ Len(a) + Len(b) = Len(s) - 1
    BY <1>1, <1>2, <1>3
  <2>3. QED
    BY <2>1, <2>2
<1>6. ASSUME NEW i \in DOMAIN (a \o b)
      PROVE  \E j \in DOMAIN s : (a \o b)[i] = s[j]
  <2>1. i \in 1..(Len(s) - 1)
    BY <1>5
  <2>2. CASE i <= n - 1
    BY <1>1, <1>2, <1>5, <2>1, <2>2
  <2>3. CASE ~(i <= n - 1)
    <3>1. (a \o b)[i] = s[i - (n - 1) + n] /\ i - (n - 1) + n \in DOMAIN s
      BY <1>1, <1>3, <1>5, <2>1, <2>3
    <3>2. QED
      BY <3>1
  <2>4. QED
    BY <2>2, <2>3
<1>7. QED
  BY <1>1, <1>4, <1>5, <1>6

LEMMA PageInit == Init => PageTypes
BY WindowAssumption DEF Init, PageTypes, NoSheet, Sheet, Typed, Urls, Lists

LEMMA KeyTyped ==
    ASSUME NEW r \in Requests, NEW list \in Typed, NEW i \in DOMAIN list
    PROVE  KeyOf(r, list, i) \in Keys
BY TypedLists, WindowAssumption DEF KeyOf, Keys

\* A step that changes the sheet of one request.
LEMMA SheetTyped ==
    ASSUME PageTypes, NEW r \in Requests, NEW s \in Sheet, Len(s.loops) <= MaxLoops,
           sheet' = [sheet EXCEPT ![r] = s],
           task' \in [Keys -> Urls \cup {NoOne}], tried' \in [Requests -> Typed]
    PROVE  PageTypes'
BY DEF PageTypes

LEMMA PageStep ==
    ASSUME PageTypes, [Next]_vars
    PROVE  PageTypes'
<1> USE DEF PageTypes
<1>1. CASE \/ \E r \in Requests : Launch(r)
           \/ OpenApp \/ Listen \/ TakeLaunchRequest
  BY <1>1, LaunchStays DEF Stay
<1>2. NoSheet \in Sheet /\ NoSheet.loops = <<>>
  <2>1. <<>> \in [1..0 -> Urls] /\ 0 \in 0..MaxList
    BY WindowAssumption
  <2>2. <<>> \in Typed
    BY <2>1, Zenon DEF Typed
  <2>3. <<>> \in Seq(Loop)
    OBVIOUS
  <2>4. QED
    BY <2>2, <2>3 DEF NoSheet, Sheet
<1>3. CASE CloseWindow
  BY <1>2, <1>3, WindowAssumption DEF CloseWindow
<1>4. ASSUME NEW r \in Requests, OpenSheet(r)
      PROVE  PageTypes'
  <2> DEFINE s == [NoSheet EXCEPT !.state = "open", !.list = <<r>>, !.enabled = TRUE]
  <2>1. <<r>> \in [1..1 -> Urls] /\ 1 \in 0..MaxList
    BY WindowAssumption DEF Urls
  <2>2. s \in Sheet /\ s.loops = <<>>
    BY <1>2, <2>1 DEF Sheet, NoSheet, Typed
  <2>3. sheet' = [sheet EXCEPT ![r] = s] /\ UNCHANGED <<task, tried>>
    BY <1>4 DEF OpenSheet
  <2> HIDE DEF s
  <2>4. QED
    BY <2>2, <2>3, SheetTyped, WindowAssumption
<1>5. ASSUME NEW r \in Requests, Edit(r) \/ Dismiss(r)
      PROVE  PageTypes'
  <2>1. sheet[r] \in Sheet /\ UNCHANGED <<task, tried>>
    BY <1>5 DEF Edit, Dismiss
  <2>2. CASE Edit(r)
    <3>1. PICK list \in Lists(r) : sheet' = [sheet EXCEPT ![r].list = list, ![r].enabled = TRUE]
      BY <2>2 DEF Edit
    <3> DEFINE s == [sheet[r] EXCEPT !.list = list, !.enabled = TRUE]
    <3>2. s \in Sheet /\ s.loops = sheet[r].loops
      BY <2>1, ListsTyped DEF Sheet
    <3>3. sheet' = [sheet EXCEPT ![r] = s]
      BY <2>1, <3>1 DEF Sheet
    <3> HIDE DEF s
    <3>4. QED
      BY <2>1, <3>2, <3>3, SheetTyped
  <2>3. CASE Dismiss(r)
    <3> DEFINE s == [sheet[r] EXCEPT !.state = "none"]
    <3>1. s \in Sheet /\ s.loops = sheet[r].loops
      BY <2>1 DEF Sheet
    <3>2. sheet' = [sheet EXCEPT ![r] = s]
      BY <2>1, <2>3 DEF Dismiss, Sheet
    <3> HIDE DEF s
    <3>3. QED
      BY <2>1, <3>1, <3>2, SheetTyped
  <2>4. QED
    BY <1>5, <2>2, <2>3
<1>6. ASSUME NEW r \in Requests, Submit(r)
      PROVE  PageTypes'
  <2>1. [list |-> sheet[r].list, next |-> 1, failed |-> FALSE] \in Loop
    BY WindowAssumption DEF Loop, Sheet
  <2> DEFINE s == [sheet[r] EXCEPT
         !.loops = Append(@, [list |-> sheet[r].list, next |-> 1, failed |-> FALSE]), !.enabled = FALSE]
  <2>2. /\ sheet[r] \in Sheet /\ sheet[r].loops \in Seq(Loop) /\ sheet[r].list \in Typed
        /\ Len(sheet[r].loops) < MaxLoops
    BY <1>6 DEF Submit, Sheet
  <2> DEFINE more == Append(sheet[r].loops, [list |-> sheet[r].list, next |-> 1, failed |-> FALSE])
  <2>3. more \in Seq(Loop) /\ Len(more) = Len(sheet[r].loops) + 1
    BY <2>1, <2>2
  <2>4. s = [sheet[r] EXCEPT !.loops = more, !.enabled = FALSE]
    BY <2>2
  <2>5. sheet' = [sheet EXCEPT ![r] = s] /\ UNCHANGED task
    BY <1>6, <2>2 DEF Submit, Sheet
  <2> HIDE DEF more
  <2>6. s \in Sheet /\ s.loops = more
    BY <2>2, <2>3, <2>4 DEF Sheet
  <2>7. Len(more) <= MaxLoops
    <3>1. Len(sheet[r].loops) \in Nat
      BY <2>2
    <3>2. QED
      BY <2>2, <2>3, <3>1, WindowAssumption
  <2>8. tried' \in [Requests -> Typed]
    BY <1>6, <2>2 DEF Submit
  <2> HIDE DEF s
  <2>9. QED
    BY <2>5, <2>6, <2>7, <2>8, SheetTyped
<1>7. ASSUME NEW r \in Requests, NEW n \in DOMAIN sheet[r].loops, AddOne(r, n)
      PROVE  PageTypes'
  <2> DEFINE loop == sheet[r].loops[n]
  <2>1. loop \in Loop /\ sheet[r] \in Sheet /\ loop.next \in DOMAIN loop.list
    <3>1. sheet[r] \in Sheet
      BY <1>7
    <3>2. sheet[r].loops \in Seq(Loop)
      BY <3>1 DEF Sheet
    <3>3. loop \in Loop
      BY <1>7, <3>2
    <3>4. QED
      BY <1>7, <3>1, <3>3, Zenon DEF AddOne
  <2>2. /\ KeyOf(r, loop.list, loop.next) \in Keys /\ loop.list[loop.next] \in Urls
        /\ loop.next + 1 \in 1..(MaxList + 1)
    BY <2>1, TypedLists, KeyTyped, WindowAssumption DEF Loop
  <2>3. task' \in [Keys -> Urls \cup {NoOne}]
    BY <1>7, <2>2 DEF AddOne
  <2>4. PICK ok \in BOOLEAN :
          sheet' = [sheet EXCEPT ![r].loops[n] = [loop EXCEPT !.next = @ + 1, !.failed = @ \/ ~ok]]
    BY <1>7 DEF AddOne
  <2>5. [loop EXCEPT !.next = @ + 1, !.failed = @ \/ ~ok] \in Loop
    BY <2>1, <2>2 DEF Loop
  <2> DEFINE s == [sheet[r] EXCEPT !.loops[n] = [loop EXCEPT !.next = @ + 1, !.failed = @ \/ ~ok]]
  <2> DEFINE went == [loop EXCEPT !.next = @ + 1, !.failed = @ \/ ~ok]
  <2>6. /\ sheet[r].loops \in Seq(Loop)
        /\ s = [sheet[r] EXCEPT !.loops = [sheet[r].loops EXCEPT ![n] = went]]
    BY <2>1 DEF Sheet
  <2>7. went \in Loop
    BY <2>5
  <2> HIDE DEF went
  <2>8. [sheet[r].loops EXCEPT ![n] = went] \in Seq(Loop)
        /\ Len([sheet[r].loops EXCEPT ![n] = went]) = Len(sheet[r].loops)
    BY <2>6, <2>7
  <2>9. s \in Sheet /\ Len(s.loops) = Len(sheet[r].loops)
    BY <2>1, <2>6, <2>8 DEF Sheet
  <2>10. sheet' = [sheet EXCEPT ![r] = s] /\ UNCHANGED tried
    BY <1>7, <2>1, <2>4 DEF AddOne, Sheet
  <2> HIDE DEF s
  <2>11. QED
    BY <2>3, <2>9, <2>10, SheetTyped
<1>8. ASSUME NEW r \in Requests, NEW n \in DOMAIN sheet[r].loops, EndSubmit(r, n)
      PROVE  PageTypes'
  <2>1. sheet[r] \in Sheet /\ sheet[r].loops \in Seq(Loop)
    BY DEF Sheet
  <2>2. RemoveAt(sheet[r].loops, n) \in Seq(Loop) /\ Len(RemoveAt(sheet[r].loops, n)) <= Len(sheet[r].loops)
    BY <2>1, LoopsLeft
  <2>3. PICK state \in {"none", "open", "closed"} :
          sheet' = [sheet EXCEPT ![r].loops = RemoveAt(@, n), ![r].enabled = TRUE, ![r].state = state]
    BY <1>8, <2>1 DEF EndSubmit, Sheet
  <2> DEFINE s == [sheet[r] EXCEPT !.loops = RemoveAt(@, n), !.enabled = TRUE, !.state = state]
  <2>4. s \in Sheet /\ s.loops = RemoveAt(sheet[r].loops, n)
    BY <2>1, <2>2 DEF Sheet
  <2>5. sheet' = [sheet EXCEPT ![r] = s] /\ UNCHANGED <<task, tried>>
    BY <1>8, <2>1, <2>3 DEF EndSubmit, Sheet
  <2>6. Len(RemoveAt(sheet[r].loops, n)) <= MaxLoops
    <3>1. Len(sheet[r].loops) <= MaxLoops /\ Len(sheet[r].loops) \in Nat /\ Len(RemoveAt(sheet[r].loops, n)) \in Nat
      BY <2>1, <2>2
    <3>2. QED
      BY <2>2, <3>1, WindowAssumption
  <2> HIDE DEF s
  <2>7. QED
    BY <2>4, <2>5, <2>6, SheetTyped
<1>9. CASE UNCHANGED vars
  BY <1>9 DEF vars, pageVars
<1>10. QED
  BY <1>1, <1>3, <1>4, <1>5, <1>6, <1>7, <1>8, <1>9 DEF Next, Page, User

\* Every reachable state is of the declared type.
THEOREM WindowTypeCorrect == Spec => []TypeOK
<1>1. LaunchInv /\ PageTypes => TypeOK
  <2>1. ASSUME LaunchInv
        PROVE  /\ argv \in [Requests -> 0..MaxSends] /\ shown \in [Requests -> 0..MaxSends]
    BY <2>1, WindowAssumption DEF LaunchInv, LaunchTypes
  <2>2. QED
    BY <2>1 DEF LaunchInv, LaunchTypes, PageTypes, TypeOK
<1>2. QED
  BY <1>1, LaunchInit, LaunchStep, PageInit, PageStep, PTL DEF Spec

-----------------------------------------------------------------------------
(* One task for each address, while the user keeps to one list.            *)

\* The addresses before m have their tasks.
Added(r, m) ==
    \A j \in DOMAIN tried[r] : j < m => task[KeyOf(r, tried[r], j)] = tried[r][j]

AddedAfter(r, m) ==
    \A j \in DOMAIN tried'[r] : j < m => task'[KeyOf(r, tried'[r], j)] = tried'[r][j]

\* All submissions of r are of one list, and the tasks under its keys are those
\* of that list, each at its place; a submission without failures has added
\* what it has passed.
Kept(r) ==
    /\ tried[r] \in Lists(r) \cup {<<>>}
    /\ sheet[r].state = "open" => sheet[r].list \in Lists(r)
    /\ \A k \in Keys : k[1] = r /\ task[k] # NoOne =>
          \E j \in DOMAIN tried[r] : k = KeyOf(r, tried[r], j) /\ task[k] = tried[r][j]
    /\ \A n \in DOMAIN sheet[r].loops :
          /\ sheet[r].loops[n].list = tried[r] /\ tried[r] # <<>>
          /\ ~sheet[r].loops[n].failed => Added(r, sheet[r].loops[n].next)
    /\ sheet[r].state = "closed" => tried[r] # <<>> /\ Added(r, Len(tried[r]) + 1)

KeptInv == PageTypes /\ \A r \in Requests : Kept(r)

\* Keys are told apart by their places.
LEMMA KeysDiffer ==
    ASSUME NEW r \in Requests, NEW list \in Typed, NEW i \in DOMAIN list, NEW j \in DOMAIN list,
           KeyOf(r, list, i) = KeyOf(r, list, j)
    PROVE  i = j
BY TypedLists DEF KeyOf

\* What a step about another request leaves as it was.
Same(q) ==
    /\ sheet'[q] = sheet[q] /\ tried'[q] = tried[q]
    /\ \A k \in Keys : k[1] = q => task'[k] = task[k]

LEMMA SameKept ==
    ASSUME PageTypes, NEW q \in Requests, Kept(q), Same(q)
    PROVE  Kept(q)'
<1>1. \A j \in DOMAIN tried[q] : KeyOf(q, tried[q], j) \in Keys /\ KeyOf(q, tried[q], j)[1] = q
  BY KeyTyped DEF PageTypes, KeyOf
<1>2. \A m : Added(q, m) => AddedAfter(q, m)
  BY <1>1 DEF Added, AddedAfter, Same
<1>3. QED
  BY <1>2 DEF Kept, Same, Added, AddedAfter

LEMMA KeptInit == Init => KeptInv
<1> SUFFICES ASSUME Init
             PROVE  KeptInv
  OBVIOUS
<1>1. \A r \in Requests : sheet[r] = NoSheet /\ tried[r] = <<>>
  BY DEF Init
<1>2. \A k \in Keys : task[k] = NoOne
  BY DEF Init
<1>3. QED
  BY <1>1, <1>2, PageInit DEF KeptInv, Kept, NoSheet

\* The sheet of r is opened, edited, closed or submitted.
LEMMA UserKept ==
    ASSUME SameList, KeptInv, NEW r \in Requests, User(r) \/ OpenSheet(r)
    PROVE  Kept(r)'
<1>1. sheet[r] \in Sheet /\ sheet[r].loops \in Seq(Loop) /\ UNCHANGED task
  BY DEF KeptInv, PageTypes, Sheet, User, Edit, Dismiss, Submit, OpenSheet
<1>2. CASE OpenSheet(r)
  <2>1. <<r>> \in Lists(r)
    <3>1. <<r>> \in [1..1 -> {r} \cup Others] /\ 1 \in 1..MaxList
      BY WindowAssumption
    <3>2. IsInjective(<<r>>)
      BY DEF IsInjective
    <3>3. QED
      BY <3>1, <3>2 DEF Lists
  <2>2. sheet'[r].state = "open" /\ sheet'[r].list = <<r>> /\ sheet'[r].loops = <<>> /\ tried' = tried
    BY <1>2 DEF OpenSheet, NoSheet, KeptInv, PageTypes
  <2>3. QED
    BY <1>1, <2>1, <2>2 DEF KeptInv, Kept
<1>3. CASE Edit(r)
  <2>1. PICK list \in Lists(r) : sheet' = [sheet EXCEPT ![r].list = list, ![r].enabled = TRUE]
    BY <1>3 DEF Edit
  <2>2. sheet'[r].state = "open" /\ sheet'[r].list = list /\ sheet'[r].loops = sheet[r].loops /\ tried' = tried
    BY <1>1, <1>3, <2>1 DEF Edit, KeptInv, PageTypes, Sheet
  <2>3. QED
    BY <1>1, <2>2 DEF KeptInv, Kept, Added
<1>4. CASE Dismiss(r)
  <2>1. sheet'[r].state = "none" /\ sheet'[r].loops = sheet[r].loops /\ tried' = tried
    BY <1>1, <1>4 DEF Dismiss, KeptInv, PageTypes, Sheet
  <2>2. QED
    BY <1>1, <2>1 DEF KeptInv, Kept, Added
<1>5. CASE Submit(r)
  <2> DEFINE new == [list |-> sheet[r].list, next |-> 1, failed |-> FALSE]
  <2>1. /\ sheet[r].state = "open" /\ tried[r] \in {<<>>, sheet[r].list}
        /\ sheet'[r].state = "open" /\ sheet'[r].list = sheet[r].list
        /\ sheet'[r].loops = Append(sheet[r].loops, new) /\ tried'[r] = sheet[r].list
    BY <1>1, <1>5 DEF Submit, KeptInv, PageTypes, Sheet
  <2>2. sheet[r].list \in Lists(r) /\ sheet[r].list # <<>>
    BY <2>1, ListsTyped DEF KeptInv, Kept
  <2>3. tried[r] = <<>> => sheet[r].loops = <<>> /\ \A k \in Keys : k[1] = r => task[k] = NoOne
    BY <1>1 DEF KeptInv, Kept
  <2>4. AddedAfter(r, 1)
    <3>1. \A j \in DOMAIN tried'[r] : ~(j < 1)
      BY <2>1, <2>2, ListsTyped, TypedLists
    <3>2. QED
      BY <3>1 DEF AddedAfter
  <2>5. ASSUME NEW n \in DOMAIN sheet'[r].loops
        PROVE  /\ sheet'[r].loops[n].list = tried'[r]
               /\ ~sheet'[r].loops[n].failed => AddedAfter(r, sheet'[r].loops[n].next)
    <3>1. CASE n \in DOMAIN sheet[r].loops
      <4>1. sheet'[r].loops[n] = sheet[r].loops[n] /\ tried'[r] = tried[r]
        BY <1>1, <2>1, <2>3, <3>1
      <4>2. QED
        BY <1>1, <3>1, <4>1 DEF KeptInv, Kept, Added, AddedAfter
    <3>2. CASE n \notin DOMAIN sheet[r].loops
      <4>1. sheet'[r].loops[n] = new
        BY <1>1, <2>1, <2>5, <3>2
      <4>2. QED
        BY <2>1, <2>4, <4>1
    <3>3. QED
      BY <3>1, <3>2
  <2>6. \A k \in Keys : k[1] = r /\ task'[k] # NoOne =>
          \E j \in DOMAIN tried'[r] : k = KeyOf(r, tried'[r], j) /\ task'[k] = tried'[r][j]
    BY <1>1, <2>1, <2>3 DEF KeptInv, Kept
  <2>7. QED
    BY <2>1, <2>2, <2>5, <2>6 DEF Kept, Added, AddedAfter
<1>6. QED
  BY <1>2, <1>3, <1>4, <1>5 DEF User

\* One address of a submission: whatever the answer says, the key has no other
\* address.
LEMMA AddKept ==
    ASSUME KeptInv, NEW r \in Requests, NEW n \in DOMAIN sheet[r].loops, AddOne(r, n)
    PROVE  Kept(r)'
<1> DEFINE loop == sheet[r].loops[n]
           t == tried[r]
           key == KeyOf(r, t, loop.next)
<1>1. /\ sheet[r] \in Sheet /\ sheet[r].loops \in Seq(Loop) /\ loop \in Loop
      /\ t \in Typed /\ loop.list = t /\ loop.next \in DOMAIN t
      /\ \A j \in DOMAIN t : t[j] \in Urls /\ KeyOf(r, t, j) \in Keys
  <2>1. sheet[r] \in Sheet /\ t \in Typed
    BY DEF KeptInv, PageTypes
  <2>2. sheet[r].loops \in Seq(Loop)
    BY <2>1 DEF Sheet
  <2>3. loop \in Loop
    BY <2>2
  <2>4. loop.list = t
    BY DEF KeptInv, Kept
  <2>5. loop.next \in DOMAIN t
    BY <2>4, Zenon DEF AddOne
  <2>6. \A j \in DOMAIN t : t[j] \in Urls /\ KeyOf(r, t, j) \in Keys
    BY <2>1, TypedLists, KeyTyped
  <2>7. QED
    BY <2>1, <2>2, <2>3, <2>4, <2>5, <2>6
<1>2. NoOne \notin Urls
  BY WindowAssumption DEF Urls
<1>3. PICK ok \in BOOLEAN :
        /\ sheet' = [sheet EXCEPT ![r].loops[n] = [loop EXCEPT !.next = @ + 1, !.failed = @ \/ ~ok]]
        /\ \/ task' = [task EXCEPT ![key] = IF @ = NoOne THEN t[loop.next] ELSE @]
           \/ ~ok /\ task' = task
  BY <1>1 DEF AddOne
<1>4. /\ sheet'[r].state = sheet[r].state /\ sheet'[r].list = sheet[r].list
      /\ DOMAIN sheet'[r].loops = DOMAIN sheet[r].loops /\ tried' = tried
      /\ \A i \in DOMAIN sheet[r].loops :
            sheet'[r].loops[i] = IF i = n THEN [loop EXCEPT !.next = @ + 1, !.failed = @ \/ ~ok]
                                 ELSE sheet[r].loops[i]
  BY <1>1, <1>3 DEF AddOne, KeptInv, PageTypes, Sheet
<1>5. task[key] \in {NoOne, t[loop.next]}
  <2>1. CASE task[key] # NoOne
    <3>1. PICK j \in DOMAIN t : key = KeyOf(r, t, j) /\ task[key] = t[j]
      BY <1>1, <2>1 DEF KeptInv, Kept, KeyOf
    <3>2. QED
      BY <1>1, <3>1, KeysDiffer
  <2>2. QED
    BY <2>1
<1>6. /\ \A k \in Keys \ {key} : task'[k] = task[k]
      /\ task'[key] \in {task[key], t[loop.next]}
      /\ ok => task'[key] = t[loop.next]
  BY <1>1, <1>3, <1>5 DEF KeptInv, PageTypes
<1>7. \A k \in Keys : k[1] = r /\ task'[k] # NoOne =>
        \E j \in DOMAIN t : k = KeyOf(r, t, j) /\ task'[k] = t[j]
  BY <1>1, <1>5, <1>6 DEF KeptInv, Kept
<1>8. \A m : Added(r, m) => AddedAfter(r, m)
  BY <1>1, <1>2, <1>4, <1>5, <1>6 DEF Added, AddedAfter
<1>9. ok /\ Added(r, loop.next) => AddedAfter(r, loop.next + 1)
  <2> SUFFICES ASSUME ok, Added(r, loop.next), NEW j \in DOMAIN t, j < loop.next + 1
               PROVE  task'[KeyOf(r, t, j)] = t[j]
    BY <1>4 DEF AddedAfter
  <2>1. CASE j = loop.next
    BY <1>6, <2>1
  <2>2. CASE j # loop.next
    <3>1. j < loop.next
      BY <1>1, <2>2, TypedLists DEF Loop
    <3>2. QED
      BY <1>4, <1>8, <3>1 DEF AddedAfter
  <2>3. QED
    BY <2>1, <2>2
<1>10. ASSUME NEW i \in DOMAIN sheet'[r].loops
       PROVE  /\ sheet'[r].loops[i].list = t
              /\ ~sheet'[r].loops[i].failed => AddedAfter(r, sheet'[r].loops[i].next)
  <2>1. CASE i # n
    BY <1>4, <1>8, <1>10, <2>1 DEF KeptInv, Kept
  <2>2. CASE i = n
    BY <1>1, <1>4, <1>9, <2>2 DEF KeptInv, Kept, Loop
  <2>3. QED
    BY <2>1, <2>2
<1>11. t # <<>>
  BY DEF KeptInv, Kept
<1>12. QED
  <2>1. sheet'[r].state = "closed" => AddedAfter(r, Len(t) + 1)
    BY <1>4, <1>8 DEF KeptInv, Kept
  <2>2. QED
    BY <1>4, <1>7, <1>10, <1>11, <2>1 DEF KeptInv, Kept, Added, AddedAfter

\* A submission ends; the sheet closes only when nothing of it failed.
LEMMA EndKept ==
    ASSUME KeptInv, NEW r \in Requests, NEW n \in DOMAIN sheet[r].loops, EndSubmit(r, n)
    PROVE  Kept(r)'
<1>1. sheet[r] \in Sheet /\ sheet[r].loops \in Seq(Loop) /\ sheet[r].loops[n] \in Loop
  BY DEF KeptInv, PageTypes, Sheet
<1>2. /\ sheet'[r].list = sheet[r].list /\ sheet'[r].loops = RemoveAt(sheet[r].loops, n)
      /\ sheet'[r].state = IF sheet[r].loops[n].failed THEN sheet[r].state ELSE "closed"
      /\ UNCHANGED <<task, tried>>
  BY <1>1 DEF EndSubmit, KeptInv, PageTypes, Sheet
<1>3. \A m : AddedAfter(r, m) <=> Added(r, m)
  BY <1>2 DEF Added, AddedAfter
<1>4. sheet'[r].state = "closed" => tried[r] # <<>> /\ Added(r, Len(tried[r]) + 1)
  BY <1>2 DEF KeptInv, Kept, EndSubmit
<1>5. \A i \in DOMAIN sheet'[r].loops : \E j \in DOMAIN sheet[r].loops :
        sheet'[r].loops[i] = sheet[r].loops[j]
  BY <1>1, <1>2, LoopsLeft
<1>6. QED
  BY <1>2, <1>3, <1>4, <1>5 DEF KeptInv, Kept, Added, AddedAfter

\* What the steps about r leave alone.
LEMMA OthersSame ==
    ASSUME PageTypes, NEW r \in Requests, Typing(r) \/ OpenSheet(r), NEW q \in Requests \ {r}
    PROVE  Same(q)
<1>1. CASE User(r) \/ OpenSheet(r)
  BY <1>1 DEF PageTypes, Same, User, Edit, Dismiss, Submit, OpenSheet
<1>2. ASSUME NEW n \in DOMAIN sheet[r].loops, AddOne(r, n)
      PROVE  Same(q)
  <2>1. KeyOf(r, sheet[r].loops[n].list, sheet[r].loops[n].next)[1] = r
    BY DEF KeyOf
  <2>2. \A k \in Keys : k[1] = q => task'[k] = task[k]
    BY <1>2, <2>1 DEF PageTypes, AddOne
  <2>3. QED
    BY <1>2, <2>2 DEF PageTypes, Same, AddOne
<1>3. ASSUME NEW n \in DOMAIN sheet[r].loops, EndSubmit(r, n)
      PROVE  Same(q)
  BY <1>3 DEF PageTypes, Same, EndSubmit
<1>4. QED
  BY <1>1, <1>2, <1>3 DEF Typing

LEMMA KeptStep ==
    ASSUME SameList, KeptInv, [Next]_vars
    PROVE  KeptInv'
<1>1. PageTypes'
  BY PageStep DEF KeptInv
<1>2. ASSUME NEW r \in Requests, Typing(r) \/ OpenSheet(r)
      PROVE  KeptInv'
  <2>1. Kept(r)'
    BY <1>2, UserKept, AddKept, EndKept DEF Typing
  <2>2. \A q \in Requests \ {r} : Kept(q)'
    BY <1>2, OthersSame, SameKept DEF KeptInv
  <2>3. QED
    BY <1>1, <2>1, <2>2 DEF KeptInv
<1>3. CASE UNCHANGED <<task, tried>> /\ (UNCHANGED sheet \/ sheet' = [r \in Requests |-> NoSheet])
  <2>1. ASSUME NEW r \in Requests
        PROVE  Kept(r)'
    <3>1. CASE UNCHANGED sheet
      BY <1>3, <3>1, SameKept DEF KeptInv, Same
    <3>2. CASE sheet'[r] = NoSheet
      BY <1>3, <3>2 DEF KeptInv, Kept, NoSheet
    <3>3. QED
      BY <1>3, <3>1, <3>2
  <2>2. QED
    BY <1>1, <2>1 DEF KeptInv
<1>4. QED
  BY <1>2, <1>3, LaunchStays DEF Next, Page, Typing, Stay, CloseWindow, vars, pageVars

\* While the user submits one and the same list for a request: whatever failed,
\* was repeated or was submitted twice at a time, no address has two tasks, and
\* when the sheet closes as done every address has one.
THEOREM AddressesMakeOneTask ==
    ASSUME SameList
    PROVE  Spec => []OneTaskEach
<1>1. KeptInv => OneTaskEach
  <2> SUFFICES ASSUME KeptInv, NEW r \in Requests
               PROVE  LET made == {k \in Keys : k[1] = r /\ task[k] # NoOne}
                          done == {task[k] : k \in made}
                      IN  /\ Cardinality(made) = Cardinality(done)
                          /\ done \subseteq ToSet(tried[r])
                          /\ sheet[r].state = "closed" => done = ToSet(tried[r])
    BY DEF OneTaskEach
  <2> DEFINE t == tried[r]
             made == {k \in Keys : k[1] = r /\ task[k] # NoOne}
             done == {task[k] : k \in made}
             f == [k \in made |-> task[k]]
  <2>1. t \in Typed /\ ToSet(t) = {t[j] : j \in DOMAIN t} /\ IsInjective(t)
    BY ListsTyped DEF KeptInv, Kept, PageTypes, ToSet, IsInjective
  <2>2. \A k \in made : \E j \in DOMAIN t : k = KeyOf(r, t, j) /\ task[k] = t[j]
    BY DEF KeptInv, Kept
  <2>3. IsFiniteSet(made)
    <3>1. IsFiniteSet(Requests)
      BY FS_Subset, WindowAssumption
    <3>2. IsFiniteSet(0..MaxList)
      BY FS_Interval, WindowAssumption
    <3>3. IsFiniteSet(Keys)
      BY <3>1, <3>2, FS_Product DEF Keys
    <3>4. QED
      BY <3>3, FS_Subset
  <2>4. Cardinality(made) = Cardinality(done)
    <3>1. f \in Surjection(made, done)
      BY DEF Surjection
    <3>2. IsInjective(f)
      <4>1. ASSUME NEW k \in made, NEW l \in made, task[k] = task[l]
            PROVE  k = l
        BY <2>1, <2>2, <4>1 DEF IsInjective
      <4>2. QED
        BY <4>1 DEF IsInjective
    <3>3. f \in Bijection(made, done)
      BY <3>1, <3>2 DEF Bijection, Injection
    <3>4. QED
      BY <2>3, <3>3, FS_Bijection DEF ExistsBijection
  <2>5. done \subseteq ToSet(t)
    BY <2>1, <2>2
  <2>6. ASSUME sheet[r].state = "closed", NEW j \in DOMAIN t
        PROVE  t[j] \in done
    <3>1. task[KeyOf(r, t, j)] = t[j]
      BY <2>1, <2>6, TypedLists DEF KeptInv, Kept, Added
    <3>2. KeyOf(r, t, j) \in Keys /\ KeyOf(r, t, j)[1] = r /\ t[j] # NoOne
      BY <2>1, KeyTyped, TypedLists, WindowAssumption DEF KeyOf, Urls
    <3>3. QED
      BY <3>1, <3>2
  <2>7. QED
    BY <2>1, <2>4, <2>5, <2>6
<1>2. QED
  BY <1>1, KeptInit, KeptStep, PTL DEF Spec
=============================================================================
