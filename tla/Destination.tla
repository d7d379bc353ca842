---------------------------- MODULE Destination ----------------------------
(***************************************************************************)
(* Where downloads are stored: the names the service gives its tasks       *)
(* (Service::add with core::build_task), the files and control files aria2 *)
(* keeps under them, their removal (Service::delete_file), and the other   *)
(* parties that use the same folder: Firefox, which holds on to the name   *)
(* of a download it handed over, and the user's programs.                  *)
(*                                                                         *)
(* One folder is modelled; a path is a name.  Whether a task runs is       *)
(* DownloadService's subject, here the engine opens, ends or fails it.     *)
(***************************************************************************)
EXTENDS FileName, FiniteSets

CONSTANTS
  Tasks,       \* tasks that may be created
  Characters,  \* what names are made of, the numerals of FileName included
  RawNames,    \* names as requests, URLs and headers give them
  MaxNameLen,  \* MAX_NAME_LEN
  Intruders,   \* other programs create files under names of tasks
  ListFails,   \* the statement that lists the tasks may fail
  MaxOutside   \* bound on what other programs do

ASSUME DestinationAssumption ==
  /\ IsFiniteSet(Tasks) /\ "firefox" \notin Tasks /\ "other" \notin Tasks
  /\ {"_", " ", "(", ")", "download"} \subseteq Characters
  /\ \A raw \in RawNames : raw \in Seq(Characters)
  /\ MaxNameLen \in Nat \ {0} /\ MaxOutside \in Nat
  /\ Intruders \in BOOLEAN /\ ListFails \in BOOLEAN

VARIABLES
  row,      \* the task's state, as far as files go, and its name
  disk,     \* the files: name -> who wrote to it
  control,  \* the control files of aria2: name -> whose they are
  browser,  \* Firefox's side of the task's handoff
  outside   \* how often other programs acted
vars == <<row, disk, control, browser, outside>>

States == {"unused", "waiting", "active", "done", "failed", "removed"}
Exists(t) == row[t].state \notin {"unused", "removed"}
Terminal(t) == row[t].state \in {"done", "failed"}
Claimed == {row[t].name : t \in {u \in Tasks : Exists(u)}}

Without(f, name) == [x \in DOMAIN f \ {name} |-> f[x]]
With(f, name, value) ==
  [x \in DOMAIN f \cup {name} |-> IF x = name THEN value ELSE f[x]]

Init ==
  /\ row = [t \in Tasks |-> [state |-> "unused", name |-> <<>>]]
  /\ disk = << >>
  /\ control = << >>
  /\ browser = [t \in Tasks |-> [state |-> "none", name |-> <<>>]]
  /\ outside = 0

-----------------------------------------------------------------------------
(* The service                                                             *)

Sanitize(raw) == SanitizeTo(MaxNameLen, raw)

\* A failed list leaves nothing reserved (unwrap_or_default).
ReservedPaths == {Claimed} \cup (IF ListFails THEN {{}} ELSE {})

TakenNoControl(reserved) == DOMAIN disk \cup reserved

Taken(reserved) == DOMAIN disk \cup DOMAIN control \cup reserved

\* The tail of add and build_task.  The name is sanitized once more there.
Create(t, filename, browserNames) ==
  \E reserved \in ReservedPaths :
    /\ row[t].state = "unused"
    /\ row' = [row EXCEPT ![t] =
         [state |-> "waiting",
          name |-> ResolveNonColliding(Sanitize(filename), Taken(reserved \cup browserNames))]]
    /\ UNCHANGED <<disk, control, browser, outside>>

AddManual(t) ==
  /\ browser[t].state = "none"
  /\ \E raw \in RawNames : Create(t, Sanitize(raw), {})

AddHandoffUnreserved(t) ==
  /\ browser[t].state = "held"
  /\ Create(t, Sanitize(browser[t].name), {})

\* The name Firefox uses is reserved, but only while this task is added.
AddHandoff(t) ==
  /\ browser[t].state = "held"
  /\ LET filename == Sanitize(browser[t].name) IN Create(t, filename, {filename})

\* A new task under the name of the old one.
RetryWithNewUrl(t) ==
  /\ browser[t].state = "none"
  /\ \E old \in Tasks : Exists(old) /\ Create(t, Sanitize(row[old].name), {})

Retry(t) ==
  /\ row[t].state = "failed"
  /\ row' = [row EXCEPT ![t].state = "waiting"]
  /\ UNCHANGED <<disk, control, browser, outside>>

Removed == [state |-> "removed", name |-> <<>>]

RemoveFromHistory(t) ==
  /\ Terminal(t)
  /\ row' = [row EXCEPT ![t] = Removed]
  /\ UNCHANGED <<disk, control, browser, outside>>

Deletable(t) == Sanitize(row[t].name) = row[t].name

DeleteFileAny(t) ==
  /\ Exists(t) /\ Deletable(t)
  /\ disk' = Without(disk, row[t].name)
  /\ \/ UNCHANGED <<control, row>>
     \/ /\ control' = Without(control, row[t].name)
        /\ row' \in {row, [row EXCEPT ![t] = Removed]}
  /\ UNCHANGED <<browser, outside>>

\* The file goes first, then the control file, then the row; a step that
\* fails ends the operation with an error and the steps before it stay done.
DeleteFile(t) ==
  /\ Terminal(t) /\ Deletable(t)
  /\ disk' = Without(disk, row[t].name)
  /\ \/ UNCHANGED <<control, row>>
     \/ /\ control' = Without(control, row[t].name)
        /\ row' \in {row, [row EXCEPT ![t] = Removed]}
  /\ UNCHANGED <<browser, outside>>

-----------------------------------------------------------------------------
(* aria2, Firefox and the user's other programs                            *)

\* --continue=true: what is there is taken for the beginning of the download.
EngineOpens(t) ==
  LET name == row[t].name
      before == IF name \in DOMAIN disk THEN disk[name] ELSE {}
  IN /\ row[t].state = "waiting"
     /\ row' = [row EXCEPT ![t].state = "active"]
     /\ disk' = With(disk, name, before \cup {t})
     /\ control' = With(control, name, IF name \in DOMAIN control THEN control[name] ELSE t)
     /\ UNCHANGED <<browser, outside>>

EngineFinishes(t) ==
  /\ row[t].state = "active"
  /\ row' = [row EXCEPT ![t].state = "done"]
  /\ control' = Without(control, row[t].name)
  /\ UNCHANGED <<disk, browser, outside>>

\* An error or a cancellation; partial data and control file stay.
EngineStops(t) ==
  /\ row[t].state \in {"waiting", "active"}
  /\ row' = [row EXCEPT ![t].state = "failed"]
  /\ UNCHANGED <<disk, control, browser, outside>>

FreeOnDisk(name) == name \notin DOMAIN disk /\ (Intruders \/ name \notin Claimed)

\* Firefox begins a download under a name that is free on the disk ...
FirefoxStarts(t) ==
  /\ row[t].state = "unused" /\ browser[t].state = "none"
  /\ \E raw \in RawNames :
       LET name == Sanitize(raw) IN
       /\ FreeOnDisk(name)
       /\ browser' = [browser EXCEPT ![t] = [state |-> "held", name |-> name]]
       /\ disk' = With(disk, name, {"firefox"})
  /\ UNCHANGED <<row, control, outside>>

\* ... its pause may remove the placeholder ...
FirefoxPauses(t) ==
  /\ browser[t].state = "held"
  /\ browser[t].name \in DOMAIN disk /\ disk[browser[t].name] = {"firefox"}
  /\ disk' = Without(disk, browser[t].name)
  /\ UNCHANGED <<row, control, browser, outside>>

\* ... and cancelling it after the handoff unlinks whatever has the name.
FirefoxCleans(t) ==
  /\ browser[t].state = "held" /\ row[t].state # "unused"
  /\ browser' = [browser EXCEPT ![t] = [state |-> "cleaned", name |-> <<>>]]
  /\ disk' = Without(disk, browser[t].name)
  /\ UNCHANGED <<row, control, outside>>

OtherCreates(name) ==
  /\ outside < MaxOutside /\ FreeOnDisk(name)
  /\ disk' = With(disk, name, {"other"})
  /\ outside' = outside + 1
  /\ UNCHANGED <<row, control, browser>>

\* Files only: nobody tidies up control files.
OtherRemoves(name) ==
  /\ outside < MaxOutside
  /\ ~ \E t \in Tasks : row[t].state = "active" /\ row[t].name = name
  /\ disk' = Without(disk, name)
  /\ outside' = outside + 1
  /\ UNCHANGED <<row, control, browser>>

Service(t) ==
  \/ AddManual(t) \/ AddHandoff(t) \/ RetryWithNewUrl(t)
  \/ Retry(t) \/ RemoveFromHistory(t) \/ DeleteFile(t)

Outside(t) ==
  \/ EngineOpens(t) \/ EngineFinishes(t) \/ EngineStops(t)
  \/ FirefoxStarts(t) \/ FirefoxPauses(t) \/ FirefoxCleans(t)

Next ==
  \/ \E t \in Tasks : Service(t) \/ Outside(t)
  \/ \E raw \in RawNames : OtherCreates(Sanitize(raw))
  \/ \E name \in DOMAIN disk : OtherRemoves(name)

Spec == Init /\ [][Next]_vars

-----------------------------------------------------------------------------
(* Properties                                                              *)

\* Every variable has its type, a name belongs to every task that exists and
\* to no other, and exactly the unfinished attempts may have a control file:
\* it is there while the task is active and gone once the task is done.
TypeOK ==
  /\ \A t \in Tasks :
       /\ row[t].state \in States /\ row[t].name \in Seq(Characters)
       /\ Exists(t) <=> row[t].name # <<>>
       /\ row[t].state = "active" => row[t].name \in DOMAIN control
       /\ row[t].state = "done" => row[t].name \notin DOMAIN control
       /\ browser[t].state \in {"none", "held", "cleaned"}
  /\ \A name \in DOMAIN disk : disk[name] \in SUBSET (Tasks \cup {"firefox", "other"})
  /\ \A name \in DOMAIN control : control[name] \in Tasks
  /\ outside \in 0..MaxOutside

\* Two tasks never share a path, and what lies at a task's path, data or
\* control file, is its own: no file that was there before is overwritten
\* (sanitize.rs: "nunca sobrescreve um arquivo existente silenciosamente") and
\* no partial of another link is continued (docs/ARCHITECTURE.md, "Erros e
\* novo link"), whatever was added, retried, removed and deleted before.
OwnPath ==
  \A t \in Tasks : Exists(t) =>
    /\ row[t].name \in DOMAIN disk => disk[row[t].name] = {t}
    /\ row[t].name \in DOMAIN control => control[row[t].name] = t
    /\ \A u \in Tasks \ {t} : Exists(u) => row[u].name # row[t].name

\* No name is cut so that sanitizing it again changes it: Firefox's name for a
\* download arrives at the reservation as it is.
NamesKept == \A raw \in RawNames : Sanitize(Sanitize(raw)) = Sanitize(raw)

\* Firefox's late clean-up never unlinks the file of the task it handed over
\* (service.rs, the comment in add).
CleanupSparesOwn ==
  [][\A t \in Tasks :
       browser[t].state = "held" /\ browser'[t].state = "cleaned"
         /\ browser[t].name \in DOMAIN disk => t \notin disk[browser[t].name]]_vars

\* delete_file refuses a task whose name is not its own sanitized form; add
\* numbers names after sanitizing them, and yet gives no task such a name, as
\* long as the number fits under the limit.
EveryFileDeletable == \A t \in Tasks : Exists(t) => Deletable(t)
=============================================================================
