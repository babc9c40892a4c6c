----------------------------- MODULE UserClient -----------------------------
(***************************************************************************)
(* The user clients (user-impl.go) on several machines, each with its      *)
(* whiteboard directory, over one FileStore.                               *)
(*                                                                         *)
(* A process has three threads: the commands its driver reads one after    *)
(* the other, the goroutine that monitors the directory, and the one that  *)
(* walks down the classes after a login.  They share the working directory *)
(* of the process, under wdChangeMutex.                                    *)
(***************************************************************************)
EXTENDS FileStore, SequencesExt

CONSTANTS
  Machine,
  Nobody,       \* the Username of a client that is not logged in
  Folders,      \* the directories of a new class, in the order of dirArray
  MaxSessions,  \* bound on the logins at one machine
  MaxEdits      \* bound on the user's own changes to one directory

VARIABLES
  user,       \* uc.user: the name, and the classes as this client knows them
  cmd,        \* where the command is; out and idle are between commands
  monitor,    \* where iMonitorLocalChanges is
  walker,     \* where iInitialFileCheck is, and the keys it has yet to visit
  wd,         \* who has wdChangeMutex; nobody will ever return it if leaked
  cwd,        \* the working directory, from the whiteboard directory down
  known,      \* fileKeyMap: the key of each local path
  permkey,    \* the file .permkey
  canRecord,  \* whether this session has .permkey open for writing
  disk,       \* what is in the whiteboard directory
  watched,    \* the directories the watcher watches
  events,     \* its create events
  sessions,   \* how many logins there have been
  edits       \* how many changes of the user

procVars == <<user, cmd, monitor, walker>>
lockVars == <<wd, cwd>>
mapVars  == <<known, permkey, canRecord>>
fsVars   == <<disk, watched, events>>
bounds   == <<sessions, edits>>
clientVars == <<procVars, lockVars, mapVars, fsVars, bounds>>
vars == <<storeVars, clientVars>>

(* Paths go down from the whiteboard directory, home.  A process is        *)
(* started next to it, where none of its paths leads anywhere.             *)
Home == << >>
Outside == <<"..">>
Directory == {Home} \cup (Path \ Document)
IsDir(p) == p \notin Document
Parent(p) == Front(p)

ClientAssumption ==
  /\ Nobody \notin Name
  /\ Folders \in Seq(STRING)
  /\ MaxSessions \in Nat /\ MaxEdits \in Nat
  /\ \A p \in Path : p # Home /\ Parent(p) \in Directory /\ Head(p) # ".."
  /\ \A p \in Path : Len(p) = 1 =>
       IsDir(p) /\ \A i \in DOMAIN Folders :
         Append(p, Folders[i]) \in Path \ Document
ASSUME ClientAssumption

Classes == {p \in Path : Len(p) = 1}

Session == [name : Name \cup {Nobody}, classes : Seq(Key)]
LoggedOut == [name |-> Nobody, classes |-> << >>]

Command ==
  [at : {"out", "idle", "enter", "enterNew", "permkey"}]
  \cup [at : {"store"}, name : Name]
  \cup [at : {"make", "append", "save"}, class : Classes]
  \cup [at : {"down", "mkdir"}, class : Classes, left : Seq(STRING)]
Monitor ==
  [at : {"off", "idle"}]
  \cup [at : {"wait", "open", "get", "push", "parent", "finish", "stuck"}, path : Path]
  \cup [at : {"list"}, path : Path, dir : Key, copy : SyncFile]
Walker ==
  [at : {"off"}] \cup [at : {"visit"}, todo : Seq(Key)]
  \cup [at : {"look", "make"}, key : Key, files : Seq(Key), todo : Seq(Key)]

TypeOK ==
  /\ StoreTypeOK
  /\ user \in [Machine -> Session]
  /\ cmd \in [Machine -> Command]
  /\ monitor \in [Machine -> Monitor]
  /\ walker \in [Machine -> Walker]
  /\ wd \in [Machine -> {"free", "command", "monitor", "leaked"}]
  /\ cwd \in [Machine -> Directory \cup {Outside}]
  /\ \A m \in Machine : \A f \in {known[m], permkey[m]} :
       DOMAIN f \subseteq Path /\ \A p \in DOMAIN f : f[p] \in Key
  /\ canRecord \in [Machine -> BOOLEAN]
  /\ disk \in [Machine -> SUBSET Path]
  /\ watched \in [Machine -> SUBSET Directory]
  /\ events \in [Machine -> Seq(Path)]
  /\ sessions \in [Machine -> 0..MaxSessions]
  /\ edits \in [Machine -> 0..MaxEdits]

Init ==
  /\ StoreInit
  /\ user = [m \in Machine |-> LoggedOut]
  /\ cmd = [m \in Machine |-> [at |-> "out"]]
  /\ monitor = [m \in Machine |-> [at |-> "off"]]
  /\ walker = [m \in Machine |-> [at |-> "off"]]
  /\ wd = [m \in Machine |-> "free"]
  /\ cwd = [m \in Machine |-> Outside]
  /\ known = [m \in Machine |-> Nothing]
  /\ permkey = [m \in Machine |-> Nothing]
  /\ canRecord = [m \in Machine |-> FALSE]
  /\ disk = [m \in Machine |-> {}]
  /\ watched = [m \in Machine |-> {}]
  /\ events = [m \in Machine |-> << >>]
  /\ sessions = [m \in Machine |-> 0]
  /\ edits = [m \in Machine |-> 0]

-----------------------------------------------------------------------------
(* Idioms of the actions.                                                  *)

LoggedIn(m) == user[m].name # Nobody
KeyOf(m, p) == [owner |-> user[m].name, path |-> p]

(* A relative path means what it means in the working directory.           *)
At(m, p) == cwd[m] \o p
Exists(m, p) == At(m, p) \in disk[m]

CommandGoes(m, next) == cmd' = [cmd EXCEPT ![m] = next]
MonitorGoes(m, next) == monitor' = [monitor EXCEPT ![m] = next]
WalkerGoes(m, next)  == walker' = [walker EXCEPT ![m] = next]
Lock(m, who)   == wd[m] = "free" /\ wd' = [wd EXCEPT ![m] = who]
KeepLock(m)    == UNCHANGED wd
Unlock(m)      == wd' = [wd EXCEPT ![m] = "free"]
Leak(m)        == wd' = [wd EXCEPT ![m] = "leaked"]
ChangeDir(m, d) == cwd' = [cwd EXCEPT ![m] = d]
StayDown(m)    == UNCHANGED cwd
GoUp(m)        == ChangeDir(m, Front(cwd[m]))

(* A new entry of the directory is an event if its parent is watched.      *)
Appears(m, p) ==
  /\ disk' = [disk EXCEPT ![m] = @ \cup {p}]
  /\ events' = [events EXCEPT ![m] =
                  IF Parent(p) \in watched[m] THEN Append(@, p) ELSE @]
Watch(m, d) == watched' = [watched EXCEPT ![m] = @ \cup {d}]

(* iPush, for a file that is Synced, and whether iGet has an answer.       *)
Push(m, k, f) == PutFile(k, user[m].name, f)
Has(m, k) == CanGet(k, user[m].name)

-----------------------------------------------------------------------------
(* iCreateUser and iAuthenticateUser.  A password is typed right or the    *)
(* attempt changes nothing, as when a name is taken or unknown.            *)

LookUpName(m, n) ==
  /\ cmd[m].at = "out" /\ sessions[m] < MaxSessions
  /\ n \notin DOMAIN userMap
  /\ CommandGoes(m, [at |-> "store", name |-> n])
  /\ UNCHANGED <<storeVars, user, monitor, walker, lockVars, mapVars, fsVars, bounds>>

(* The session begins: the goroutine that monitors is started and home is  *)
(* watched, while the working directory is still the one outside.          *)
Begin(m, n, classes) ==
  /\ user' = [user EXCEPT ![m] = [name |-> n, classes |-> classes]]
  /\ MonitorGoes(m, [at |-> "idle"])
  /\ Watch(m, Home)
  /\ sessions' = [sessions EXCEPT ![m] = @ + 1]
  /\ UNCHANGED <<walker, lockVars, permkey, canRecord, disk, events, edits>>

StoreUser(m) ==
  /\ cmd[m].at = "store"
  /\ PutUser(cmd[m].name, << >>)
  /\ Begin(m, cmd[m].name, << >>)
  /\ CommandGoes(m, [at |-> "enterNew"])
  /\ UNCHANGED <<fileMap, deleting, deletes, deleted, known>>

EnterNew(m) ==
  /\ cmd[m].at = "enterNew"
  /\ ChangeDir(m, Home)
  /\ CommandGoes(m, [at |-> "permkey"])
  /\ UNCHANGED <<storeVars, user, monitor, walker, wd, mapVars, fsVars, bounds>>

(* .permkey is created, or emptied, and permkeyFileMutex is made last.     *)
MakePermkey(m) ==
  /\ cmd[m].at = "permkey"
  /\ permkey' = [permkey EXCEPT ![m] = Nothing]
  /\ canRecord' = [canRecord EXCEPT ![m] = TRUE]
  /\ CommandGoes(m, [at |-> "idle"])
  /\ UNCHANGED <<storeVars, user, monitor, walker, lockVars, known, fsVars, bounds>>

PermkeyMutexMade(m) == cmd[m].at \notin {"enterNew", "permkey"}

(* A login opens .permkey for reading only.                                *)
Authenticate(m, n) ==
  /\ cmd[m].at = "out" /\ sessions[m] < MaxSessions
  /\ n \in DOMAIN userMap
  /\ Begin(m, n, userMap[n])
  /\ known' = [known EXCEPT ![m] = permkey[m]]
  /\ CommandGoes(m, [at |-> "enter"])
  /\ UNCHANGED storeVars

Enter(m) ==
  /\ cmd[m].at = "enter"
  /\ ChangeDir(m, Home)
  /\ WalkerGoes(m, [at |-> "visit", todo |-> user[m].classes])
  /\ CommandGoes(m, [at |-> "idle"])
  /\ UNCHANGED <<storeVars, user, monitor, wd, mapVars, fsVars, bounds>>

-----------------------------------------------------------------------------
(* iMakeClass.                                                             *)

(* The test for the class comes before the mutex.                          *)
SeekClass(m, c) ==
  /\ cmd[m].at = "idle" /\ ~Exists(m, c)
  /\ CommandGoes(m, [at |-> "make", class |-> c])
  /\ UNCHANGED <<storeVars, user, monitor, walker, lockVars, mapVars, fsVars, bounds>>

MakeClass(m) ==
  LET c == cmd[m].class
  IN /\ cmd[m].at = "make"
     /\ Lock(m, "command")
     /\ ~Exists(m, c) /\ Appears(m, At(m, c)) /\ Watch(m, At(m, c))
     /\ CommandGoes(m, [at |-> "down", class |-> c, left |-> Folders])
     /\ UNCHANGED <<storeVars, user, monitor, walker, cwd, mapVars, bounds>>

(* Mkdir fails if the directory has come to exist: iMakeClass returns.     *)
ClassAppeared(m) ==
  /\ cmd[m].at = "make" /\ wd[m] = "free" /\ Exists(m, cmd[m].class)
  /\ Leak(m)
  /\ CommandGoes(m, [at |-> "idle"])
  /\ UNCHANGED <<storeVars, user, monitor, walker, cwd, mapVars, fsVars, bounds>>

GoDown(m) ==
  /\ cmd[m].at = "down" /\ cmd[m].left # << >>
  /\ ChangeDir(m, At(m, cmd[m].class))
  /\ CommandGoes(m, [cmd[m] EXCEPT !.at = "mkdir"])
  /\ UNCHANGED <<storeVars, user, monitor, walker, wd, mapVars, fsVars, bounds>>

(* One folder: made, or found to exist, which ends iMakeClass.             *)
MakeFolder(m) ==
  LET p == Append(cwd[m], Head(cmd[m].left))
  IN /\ cmd[m].at = "mkdir"
     /\ GoUp(m) /\ Watch(m, p)
     /\ \/ /\ p \notin disk[m] /\ Appears(m, p)
           /\ CommandGoes(m, [cmd[m] EXCEPT !.at = "down", !.left = Tail(@)])
           /\ UNCHANGED wd
        \/ /\ p \in disk[m] /\ UNCHANGED <<disk, events>>
           /\ CommandGoes(m, [at |-> "idle"])
           /\ Leak(m)
     /\ UNCHANGED <<storeVars, user, monitor, walker, mapVars, bounds>>

FoldersMade(m) ==
  /\ cmd[m].at = "down" /\ cmd[m].left = << >>
  /\ Unlock(m)
  /\ CommandGoes(m, [at |-> "append", class |-> cmd[m].class])
  /\ UNCHANGED <<storeVars, user, monitor, walker, cwd, mapVars, fsVars, bounds>>

AppendClass(m) ==
  /\ cmd[m].at = "append"
  /\ user' = [user EXCEPT ![m].classes = Append(@, KeyOf(m, cmd[m].class))]
  /\ CommandGoes(m, [cmd[m] EXCEPT !.at = "save"])
  /\ UNCHANGED <<storeVars, monitor, walker, lockVars, mapVars, fsVars, bounds>>

(* The whole user record replaces the stored one.                          *)
SaveUser(m) ==
  /\ cmd[m].at = "save"
  /\ PutUser(user[m].name, user[m].classes)
  /\ CommandGoes(m, [at |-> "idle"])
  /\ UNCHANGED <<fileMap, deleting, deletes, deleted, user, monitor, walker, lockVars,
                 mapVars, fsVars, bounds>>

-----------------------------------------------------------------------------
(* iMonitorLocalChanges: one create event.                                 *)

MonitorUnchanged == <<user, cmd, walker, disk, watched, bounds>>
MonitorAt(m, stage) == monitor[m].at = stage
MonitorTo(m, stage) == MonitorGoes(m, [at |-> stage, path |-> monitor[m].path])

TakeEvent(m) ==
  /\ MonitorAt(m, "idle") /\ events[m] # << >>
  /\ MonitorGoes(m, [at |-> "wait", path |-> Head(events[m])])
  /\ events' = [events EXCEPT ![m] = Tail(@)]
  /\ UNCHANGED <<storeVars, user, cmd, walker, lockVars, mapVars, disk, watched, bounds>>

LockWd(m) ==
  /\ MonitorAt(m, "wait") /\ Lock(m, "monitor")
  /\ MonitorTo(m, "open")
  /\ UNCHANGED <<MonitorUnchanged, storeVars, cwd, mapVars, events>>

OpenEntry(m) ==
  /\ MonitorAt(m, "open") /\ Exists(m, monitor[m].path)
  /\ ChangeDir(m, At(m, Parent(monitor[m].path)))
  /\ MonitorTo(m, "get")
  /\ UNCHANGED <<MonitorUnchanged, storeVars, wd, mapVars, events>>

(* What cannot be opened, as nothing can from outside, is given up, with   *)
(* the mutex and without the way back.                                     *)
OpenFails(m) ==
  /\ MonitorAt(m, "open") /\ ~Exists(m, monitor[m].path)
  /\ ChangeDir(m, At(m, Parent(monitor[m].path)))
  /\ Leak(m)
  /\ MonitorGoes(m, [at |-> "idle"])
  /\ UNCHANGED <<MonitorUnchanged, storeVars, mapVars, events>>

GetEntry(m) ==
  /\ MonitorAt(m, "get")
  /\ MonitorTo(m, IF Has(m, KeyOf(m, monitor[m].path))
                  THEN "finish" ELSE "push")
  /\ UNCHANGED <<MonitorUnchanged, storeVars, lockVars, mapVars, events>>

(* Receiving from permkeyFileMutex before it is made waits for ever.       *)
Stuck(m) ==
  /\ monitor[m].at \in {"push", "finish"} /\ ~PermkeyMutexMade(m)
  /\ MonitorTo(m, "stuck")
  /\ UNCHANGED <<MonitorUnchanged, storeVars, lockVars, mapVars, events>>

NewFile(m) == [owner |-> user[m].name, files |-> << >>, allowed |-> {user[m].name}]

PushEntry(m) ==
  /\ MonitorAt(m, "push") /\ PermkeyMutexMade(m)
  /\ Push(m, KeyOf(m, monitor[m].path), NewFile(m))
  /\ MonitorTo(m, "parent")
  /\ UNCHANGED <<MonitorUnchanged, userMap, deleting, deletes, lockVars, mapVars, events>>

(* The parent is looked up under the name its own event would have if it   *)
(* were an entry of home: only classes are found.                          *)
ParentKnown(m, p) == Parent(p) \in Classes /\ Parent(p) \in DOMAIN known[m]

GetParent(m) ==
  LET p == monitor[m].path
      k == known[m][Parent(p)]
  IN /\ MonitorAt(m, "parent")
     /\ IF ParentKnown(m, p) /\ Has(m, k)
        THEN MonitorGoes(m, [at |-> "list", path |-> p, dir |-> k, copy |-> fileMap[k]])
        ELSE MonitorTo(m, "finish")
     /\ UNCHANGED <<MonitorUnchanged, storeVars, lockVars, mapVars, events>>

OnlyEntry(f, k) == [f EXCEPT !.files = <<k>>]
WithEntry(f, k) == [f EXCEPT !.files = Append(@, k)]

PushParent(m) ==
  /\ MonitorAt(m, "list")
  /\ Push(m, monitor[m].dir,
          WithEntry(monitor[m].copy, KeyOf(m, monitor[m].path)))
  /\ MonitorTo(m, "finish")
  /\ UNCHANGED <<MonitorUnchanged, userMap, deleting, deletes, lockVars, mapVars, events>>

RecordedIfFile(m) ==
  IF IsDir(monitor[m].path) THEN known[m]
  ELSE With(known[m], monitor[m].path, KeyOf(m, monitor[m].path))
Recorded(m) == With(known[m], monitor[m].path, KeyOf(m, monitor[m].path))
UpOnce(m) == Front(cwd[m])
UpAgain(m) == SubSeq(cwd[m], 1, Len(cwd[m]) - Len(Parent(monitor[m].path)))

FinishEvent(m) ==
  /\ MonitorAt(m, "finish") /\ PermkeyMutexMade(m)
  /\ ChangeDir(m, UpAgain(m)) /\ Unlock(m)
  /\ known' = [known EXCEPT ![m] = Recorded(m)]
  /\ permkey' = [permkey EXCEPT ![m] = IF canRecord[m]
                   THEN With(@, monitor[m].path, KeyOf(m, monitor[m].path)) ELSE @]
  /\ MonitorGoes(m, [at |-> "idle"])
  /\ UNCHANGED <<MonitorUnchanged, storeVars, canRecord, events>>

Monitoring(m) ==
  \/ TakeEvent(m) \/ LockWd(m) \/ OpenEntry(m) \/ OpenFails(m) \/ GetEntry(m) \/ Stuck(m)
  \/ PushEntry(m) \/ GetParent(m) \/ PushParent(m) \/ FinishEvent(m)

-----------------------------------------------------------------------------
(* iInitialFileCheck and iWalkDownClass: the keys to visit, depth first.   *)

WalkerUnchanged == <<storeVars, user, cmd, monitor, mapVars, bounds>>

Visit(m) ==
  LET k == Head(walker[m].todo)
  IN /\ walker[m].at = "visit" /\ walker[m].todo # << >>
     /\ WalkerGoes(m, IF Has(m, k)
          THEN [at |-> "look", key |-> k, files |-> fileMap[k].files,
                todo |-> Tail(walker[m].todo)]
          ELSE [at |-> "visit", todo |-> Tail(walker[m].todo)])
     /\ UNCHANGED <<WalkerUnchanged, lockVars, fsVars>>

WalkEnds(m) ==
  /\ walker[m].at = "visit" /\ walker[m].todo = << >>
  /\ WalkerGoes(m, [at |-> "off"])
  /\ UNCHANGED <<WalkerUnchanged, lockVars, fsVars>>

PassOver(m) == [at |-> "visit", todo |-> walker[m].todo]
Descend(m) == [at |-> "visit", todo |-> walker[m].files \o walker[m].todo]

(* The test for the entry is made without the mutex, in whatever directory *)
(* the process is.                                                         *)
LookForEntry(m) ==
  /\ walker[m].at = "look"
  /\ WalkerGoes(m, IF Exists(m, walker[m].key.path) THEN Descend(m)
                   ELSE [walker[m] EXCEPT !.at = "make"])
  /\ UNCHANGED <<WalkerUnchanged, lockVars, fsVars>>

(* MkdirAll makes the directory unless it is there, and Watch follows.     *)
MakeDirectory(m) ==
  LET p == At(m, walker[m].key.path)
  IN /\ walker[m].at = "make" /\ IsDir(walker[m].key.path) /\ wd[m] = "free"
     /\ IF p \in disk[m] THEN UNCHANGED <<disk, events>> ELSE Appears(m, p)
     /\ Watch(m, p)
     /\ WalkerGoes(m, Descend(m))
     /\ UNCHANGED <<WalkerUnchanged, lockVars>>

(* A file is created by its whole path inside its own directory, where     *)
(* that path leads nowhere: this call returns, with the mutex.             *)
CreateFileFails(m) ==
  /\ walker[m].at = "make" /\ ~IsDir(walker[m].key.path) /\ wd[m] = "free"
  /\ Leak(m)
  /\ ChangeDir(m, At(m, Parent(walker[m].key.path)))
  /\ WalkerGoes(m, [at |-> "visit", todo |-> walker[m].todo])
  /\ UNCHANGED <<WalkerUnchanged, fsVars>>

Walking(m) ==
  \/ Visit(m) \/ WalkEnds(m) \/ LookForEntry(m)
  \/ MakeDirectory(m) \/ CreateFileFails(m)

-----------------------------------------------------------------------------
(* The user and the process.                                               *)

ByUser(m) ==
  /\ LoggedIn(m) /\ edits[m] < MaxEdits
  /\ edits' = [edits EXCEPT ![m] = @ + 1]
  /\ UNCHANGED <<storeVars, procVars, lockVars, mapVars, watched, sessions>>

AddEntry(m, p) ==
  /\ ByUser(m) /\ p \notin disk[m] /\ Parent(p) \in disk[m] \cup {Home}
  /\ Appears(m, p)

RemoveFile(m, p) ==
  /\ ByUser(m) /\ p \in disk[m] \cap Document
  /\ disk' = [disk EXCEPT ![m] = @ \ {p}]
  /\ UNCHANGED events

(* The process ends: the disk stays.                                       *)
Stop(m) ==
  /\ LoggedIn(m)
  /\ user' = [user EXCEPT ![m] = LoggedOut]
  /\ CommandGoes(m, [at |-> "out"])
  /\ MonitorGoes(m, [at |-> "off"]) /\ WalkerGoes(m, [at |-> "off"])
  /\ Unlock(m) /\ ChangeDir(m, Outside)
  /\ known' = [known EXCEPT ![m] = Nothing]
  /\ canRecord' = [canRecord EXCEPT ![m] = FALSE]
  /\ watched' = [watched EXCEPT ![m] = {}]
  /\ events' = [events EXCEPT ![m] = << >>]
  /\ UNCHANGED <<storeVars, permkey, disk, bounds>>

(* iToggleSync: a file the servers do not have ends the process, another   *)
(* one is fetched and nothing is pushed, since it is no longer Synced.     *)
ToggleSync(m, p) ==
  /\ cmd[m].at = "idle"
  /\ p \in DOMAIN known[m] => ~Has(m, known[m][p])
  /\ Stop(m)

(* iEditPermissions looks for "WhiteBoard" in the working directory and    *)
(* takes what follows it; in "whiteboard" there is nothing, and it panics. *)
EditPermissions(m) == cmd[m].at = "idle" /\ Stop(m)

GoesOn(m) ==
  \/ StoreUser(m) \/ EnterNew(m) \/ MakePermkey(m) \/ Enter(m)
  \/ MakeClass(m) \/ ClassAppeared(m) \/ GoDown(m) \/ MakeFolder(m)
  \/ FoldersMade(m) \/ AppendClass(m) \/ SaveUser(m)

Next ==
  \/ \E m \in Machine :
       \/ GoesOn(m) \/ Monitoring(m) \/ Walking(m)
       \/ \E n \in Name : LookUpName(m, n) \/ Authenticate(m, n)
       \/ \E c \in Classes : SeekClass(m, c)
       \/ \E p \in Path : AddEntry(m, p) \/ RemoveFile(m, p) \/ ToggleSync(m, p)
       \/ Stop(m) \/ EditPermissions(m)
  \/ Delete /\ UNCHANGED clientVars

Spec == Init /\ [][Next]_vars

(* The goroutines of a running process run; a command that has begun goes  *)
(* on.  Nothing makes a user type one.                                     *)
Fairness == \A m \in Machine :
  WF_vars(GoesOn(m)) /\ WF_vars(Monitoring(m)) /\ WF_vars(Walking(m))

FairSpec == Spec /\ Fairness

-----------------------------------------------------------------------------
(* Properties.                                                             *)

(* Whoever gets wdChangeMutex finds the process at home once its command   *)
(* has changed to it: all that went elsewhere came back before they        *)
(* released it, or never did.  Until then, which the monitor need not      *)
(* await, the process is where it was started.                             *)
ChangedToHome(m) == cmd[m].at \notin {"out", "store", "enterNew", "enter"}
WdAtHome == \A m \in Machine :
  wd[m] = "free" => cwd[m] = IF ChangedToHome(m) THEN Home ELSE Outside

(* While one client works in its first session, the server lists whatever  *)
(* lies directly in a class under the class, once its event is handled.    *)
EntriesListed == \A m \in Machine, k \in DOMAIN fileMap :
  LET class == [k EXCEPT !.path = Parent(k.path)]
  IN /\ LoggedIn(m) /\ sessions[m] = 1 /\ \A j \in Machine \ {m} : sessions[j] = 0
     /\ monitor[m].at \in {"off", "idle"}
     /\ class.path \in Classes /\ class \in DOMAIN fileMap
     => k \in Range(fileMap[class].files)

(* What a client has in fileKeyMap, read from .permkey included, is on the *)
(* servers, unless it has been deleted there and not pushed again.         *)
KnownIsStored == \A m \in Machine : \A p \in DOMAIN known[m] :
  known[m][p] \in DOMAIN fileMap \cup deleted

(* Between two commands a client knows the classes of the account: what    *)
(* one user does at one machine at a time is all in the account.           *)
ClassesAgree == \A m \in Machine :
  cmd[m].at \in {"idle", "make", "down", "mkdir"} =>
    user[m].classes = userMap[user[m].name]

(* A class once in an account stays in it, whoever stores the user record. *)
ClassesKept == [][\A n \in DOMAIN userMap :
  n \in DOMAIN userMap' /\ Range(userMap[n]) \subseteq Range(userMap'[n])]_vars

(* The servers as their users see them.                                    *)
IsUnder(k, d) == k.owner = d.owner /\ Parent(k.path) = d.path
Users == INSTANCE Repository WITH
  accounts   <- [n \in DOMAIN userMap |-> Range(userMap[n])],
  listing    <- [k \in DOMAIN fileMap |-> Range(fileMap[k].files)],
  ClassKey   <- {k \in Key : k.path \in Classes},
  Under      <- {e \in Key \X Key : IsUnder(e[1], e[2])},
  Disposable <- {k \in Key : k.path \in Deletable}

(* All that one machine does to the servers, whoever logs in there and     *)
(* however often the process ends in the middle of something, is what      *)
(* Repository allows: nothing stored is replaced by an older or empty copy.*)
RepositorySpec == Users!Spec

(* The create events of a machine are all taken and handled in the end,    *)
(* unless the session ends or the mutex is lost: the threads never wait    *)
(* for one another.                                                        *)
EventsTaken == \A m \in Machine :
  events[m] # << >> ~>
    \/ events[m] = << >> /\ monitor[m].at \in {"off", "idle"}
    \/ wd[m] = "leaked" \/ monitor[m].at = "stuck"

(* A command that has begun comes to its end, on the same terms.           *)
CommandsEnd == \A m \in Machine :
  cmd[m].at \notin {"out", "idle"} ~>
    cmd[m].at \in {"out", "idle"} \/ wd[m] = "leaked" \/ monitor[m].at = "stuck"

(* The keys a login may walk to: the classes and what they list.           *)
Offered(m) == LET stored == {k \in Range(user[m].classes) : Has(m, k)}
              IN stored \cup UNION {Range(fileMap[k].files) : k \in stored}

(* A directory that the account leads to when its user logs in is made on  *)
(* that machine, unless the session ends or the mutex is lost.             *)
DirectoriesArrive == \A m \in Machine, k \in Key :
  (cmd[m].at = "enter" /\ k \in Offered(m) /\ Has(m, k) /\ IsDir(k.path))
    ~> (k.path \in disk[m] \/ ~LoggedIn(m) \/ wd[m] = "leaked")

(* Whatever is added on a machine is reflected in the servers.             *)
AddedFilesReflected == \A m \in Machine, p \in Path :
  p \in Range(events[m])
    ~> (\E n \in Name : [owner |-> n, path |-> p] \in DOMAIN fileMap) \/ ~LoggedIn(m)

(* A file is only deleted by its owner.                                    *)
OnlyOwnerDeletes == [][\A k \in DOMAIN fileMap \ DOMAIN fileMap' :
  \E d \in deleting \ deleting' : d.key = k /\ fileMap[k].owner = d.by]_vars
=============================================================================
