-------------------------- MODULE UserClientProofs --------------------------
(***************************************************************************)
(* Theorems about UserClient, for any names, paths, folders and machines.  *)
(***************************************************************************)
EXTENDS UserClient, SequenceTheorems, TLAPS

(* What belongs to a machine.  An action of a machine changes nothing of   *)
(* another one, so that it is enough to look at the machine that acts.     *)
Local(m) == <<user[m], cmd[m], monitor[m], walker[m], wd[m], cwd[m], known[m],
              permkey[m], canRecord[m], disk[m], watched[m], events[m],
              sessions[m], edits[m]>>

Shape ==
  /\ user = [m \in Machine |-> user[m]] /\ cmd = [m \in Machine |-> cmd[m]]
  /\ monitor = [m \in Machine |-> monitor[m]]
  /\ walker = [m \in Machine |-> walker[m]]
  /\ wd = [m \in Machine |-> wd[m]] /\ cwd = [m \in Machine |-> cwd[m]]
  /\ known = [m \in Machine |-> known[m]] /\ permkey = [m \in Machine |-> permkey[m]]
  /\ canRecord = [m \in Machine |-> canRecord[m]]
  /\ disk = [m \in Machine |-> disk[m]] /\ watched = [m \in Machine |-> watched[m]]
  /\ events = [m \in Machine |-> events[m]]
  /\ sessions = [m \in Machine |-> sessions[m]]
  /\ edits = [m \in Machine |-> edits[m]]

KeyMap(f) == DOMAIN f \subseteq Path /\ \A p \in DOMAIN f : f[p] \in Key

(* The folders a command has left are folders.                             *)
FoldersLeft(c) ==
  c.at \in {"down", "mkdir"} =>
    /\ \A i \in DOMAIN c.left : c.left[i] \in Range(Folders)
    /\ c.at = "mkdir" => c.left # << >>

ThreadsTyped(m) ==
  /\ user[m] \in Session /\ cmd[m] \in Command
  /\ monitor[m] \in Monitor /\ walker[m] \in Walker
  /\ FoldersLeft(cmd[m])

FilesTyped(m) ==
  /\ KeyMap(known[m]) /\ KeyMap(permkey[m]) /\ canRecord[m] \in BOOLEAN
  /\ disk[m] \subseteq Path /\ watched[m] \subseteq Directory
  /\ events[m] \in Seq(Path)
  /\ sessions[m] \in 0..MaxSessions /\ edits[m] \in 0..MaxEdits

(* A thread at work works for somebody.                                    *)
SomebodyIn(m) ==
  cmd[m].at \notin {"out", "store"} \/ monitor[m].at # "off" => LoggedIn(m)

Handling == {"open", "get", "push", "parent", "list", "finish", "stuck"}

(* Where the process is unless somebody has taken it elsewhere.            *)
Base(m) == IF ChangedToHome(m) THEN Home ELSE Outside

(* Who has the mutex, and where that thread has taken the process.         *)
Holder(m) ==
  /\ wd[m] \in {"free", "command", "monitor", "leaked"}
  /\ cwd[m] \in Directory \cup {Outside}
  /\ wd[m] = "command" <=> cmd[m].at \in {"down", "mkdir"}
  /\ wd[m] = "monitor" <=> monitor[m].at \in Handling
  /\ wd[m] = "free" => cwd[m] = Base(m)
  /\ wd[m] = "command" => cwd[m] = IF cmd[m].at = "mkdir" THEN cmd[m].class ELSE Home
  /\ wd[m] = "monitor" =>
       cwd[m] = IF monitor[m].at = "open" THEN Base(m) ELSE Parent(monitor[m].path)

(* As long as the command has not changed to home, only home is watched,   *)
(* the monitor has opened nothing and nobody walks.                        *)
InHome(p) == Parent(p) = Home
Waits(m) ==
  /\ walker[m].at = "off" /\ watched[m] \subseteq {Home}
  /\ \A i \in DOMAIN events[m] : InHome(events[m][i])
  /\ monitor[m].at \in {"off", "idle", "wait", "open"}
  /\ monitor[m].at \in {"wait", "open"} => InHome(monitor[m].path)

(* Before the session there is no monitor.                                 *)
Begins(m) ==
  /\ ChangedToHome(m) \/ Waits(m)
  /\ cmd[m].at \in {"out", "store"} => monitor[m].at = "off"
  /\ cmd[m].at = "store" => sessions[m] < MaxSessions

MachineInv(m) ==
  ThreadsTyped(m) /\ FilesTyped(m) /\ SomebodyIn(m) /\ Holder(m) /\ Begins(m)

ClientInv == Shape /\ StoreTypeOK /\ \A m \in Machine : MachineInv(m)

-----------------------------------------------------------------------------
(* Paths.                                                                  *)
(* From outside no path leads to an entry.                                 *)
LEMMA OutsideFacts ==
  /\ Outside \o Home = Outside /\ Outside # Home
  /\ \A p \in Path : Outside \o p \notin Path
<1>1. Outside \in Seq({".."}) /\ Len(Outside) = 1
  BY DEF Outside
<1>2. Outside \o Home = Outside /\ Outside # Home
  BY <1>1, ConcatEmptySeq DEF Home
<1>3. ASSUME NEW p \in Path, Outside \o p \in Path PROVE FALSE
  <2>1. p \in Seq(STRING)
    BY StoreAssumption
  <2>2. Head(Outside \o p) = ".."
    BY <2>1 DEF Outside
  <2>3. Head(Outside \o p) # ".."
    BY <1>3, ClientAssumption DEF ClientAssumption
  <2>4. QED
    BY <2>2, <2>3
<1>4. QED
  BY <1>2, <1>3

LEMMA DirectoryFacts ==
  ASSUME NEW d \in Directory
  PROVE  d \in Seq(STRING) /\ Home \o d = d /\ SubSeq(d, 1, Len(d) - Len(d)) = Home
<1>1. d \in Seq(STRING)
  <2>1. << >> \in Seq(STRING)
    OBVIOUS
  <2>2. CASE d \in Path
    BY <2>2, StoreAssumption
  <2>3. QED
    BY <2>1, <2>2 DEF Directory, Home
<1>2. Home \o d = d
  BY <1>1, ConcatEmptySeq DEF Home
<1>3. SubSeq(d, 1, 0) = << >>
  BY <1>1
<1>4. QED
  BY <1>1, <1>2, <1>3, LenProperties DEF Home

LEMMA PathFacts ==
  ASSUME NEW p \in Path
  PROVE  /\ p \in Seq(STRING) /\ Home \o p = p
         /\ Parent(p) \in Directory /\ Home \o Parent(p) = Parent(p)
         /\ IsDir(p) => p \in Directory
<1>1. p \in Seq(STRING) /\ Parent(p) \in Directory
  BY StoreAssumption, ClientAssumption DEF ClientAssumption
<1>2. Home \o p = p
  BY <1>1, ConcatEmptySeq DEF Home
<1>3. Home \o Parent(p) = Parent(p)
  BY <1>1, DirectoryFacts
<1>4. QED
  BY <1>1, <1>2, <1>3 DEF Directory, IsDir

LEMMA ClassFacts ==
  ASSUME NEW c \in Classes
  PROVE  /\ c \in Path /\ c \in Directory /\ IsDir(c) /\ Front(c) = Home
         /\ \A name \in Range(Folders) : /\ Append(c, name) \in Path \ Document
                                        /\ Append(c, name) \in Directory
<1>1. c \in Path /\ Len(c) = 1 /\ IsDir(c)
  BY ClientAssumption DEF ClientAssumption, Classes
<1>2. c \in Seq(STRING)
  BY <1>1, StoreAssumption
<1>3. SubSeq(c, 1, Len(c) - 1) = << >>
  BY <1>1, <1>2
<1>4. \A i \in DOMAIN Folders : Append(c, Folders[i]) \in Path \ Document
  BY <1>1, ClientAssumption DEF ClientAssumption
<1>5. QED
  BY <1>1, <1>3, <1>4 DEF Front, Home, Directory, IsDir, Range

(* What the threads remember.                                              *)
LEMMA CommandFacts ==
  ASSUME NEW c \in Command
  PROVE  /\ c.at = "store" => c.name \in Name
         /\ c.at \in {"make", "append", "save", "down", "mkdir"} => c.class \in Classes
         /\ c.at \in {"down", "mkdir"} => c.left \in Seq(STRING)
  BY DEF Command

LEMMA CommandGoesOn ==
  ASSUME NEW c \in Command
  PROVE  /\ c.at = "append" =>
              /\ [c EXCEPT !.at = "save"] \in Command
              /\ [c EXCEPT !.at = "save"].at = "save"
              /\ [c EXCEPT !.at = "save"].class = c.class
         /\ c.at = "down" =>
              /\ [c EXCEPT !.at = "mkdir"] \in Command
              /\ [c EXCEPT !.at = "mkdir"].at = "mkdir"
              /\ [c EXCEPT !.at = "mkdir"].class = c.class
              /\ [c EXCEPT !.at = "mkdir"].left = c.left
         /\ c.at = "mkdir" /\ c.left # << >> =>
              /\ [c EXCEPT !.at = "down", !.left = Tail(@)] \in Command
              /\ [c EXCEPT !.at = "down", !.left = Tail(@)].at = "down"
              /\ [c EXCEPT !.at = "down", !.left = Tail(@)].left = Tail(c.left)
<1>1. CASE c.at = "append"
  <2>1. c \in [at : {"make", "append", "save"}, class : Classes]
    BY <1>1 DEF Command
  <2>2. QED
    BY <1>1, <2>1 DEF Command
<1>2. CASE c.at \in {"down", "mkdir"}
  <2>1. c \in [at : {"down", "mkdir"}, class : Classes, left : Seq(STRING)]
    BY <1>2 DEF Command
  <2>2. CASE c.at = "down"
    BY <2>1, <2>2 DEF Command
  <2>3. CASE c.at = "mkdir" /\ c.left # << >>
    <3>1. Tail(c.left) \in Seq(STRING)
      BY <2>1, <2>3
    <3> DEFINE n == [c EXCEPT !.at = "down", !.left = Tail(c.left)]
    <3>2. /\ n \in [at : {"down", "mkdir"}, class : Classes, left : Seq(STRING)]
          /\ n.at = "down" /\ n.left = Tail(c.left)
      BY <2>1, <3>1
    <3>3. QED
      BY <2>3, <3>2 DEF Command
  <2>4. QED
    BY <1>2, <2>2, <2>3
<1>3. QED
  BY <1>1, <1>2

LEMMA MonitorFacts ==
  ASSUME NEW n \in Monitor
  PROVE  /\ n.at \in Handling \cup {"wait"} => n.path \in Path
         /\ n.at \in {"off", "idle", "wait"} \cup Handling
         /\ n.at = "list" => n.dir \in Key /\ n.copy \in SyncFile
  BY DEF Monitor, Handling

LEMMA WalkerFacts ==
  ASSUME NEW w \in Walker
  PROVE  /\ w.at \in {"visit", "look", "make"} => w.todo \in Seq(Key)
         /\ w.at \in {"look", "make"} => w.key \in Key /\ w.files \in Seq(Key)
         /\ w.at = "look" => [w EXCEPT !.at = "make"] \in Walker
<1>1. CASE w.at \in {"look", "make"}
  <2>1. w \in [at : {"look", "make"}, key : Key, files : Seq(Key), todo : Seq(Key)]
    BY <1>1 DEF Walker
  <2>2. [w EXCEPT !.at = "make"]
          \in [at : {"look", "make"}, key : Key, files : Seq(Key), todo : Seq(Key)]
    BY <2>1
  <2>3. QED
    BY <2>1, <2>2 DEF Walker
<1>2. CASE w.at \notin {"look", "make"}
  BY <1>2 DEF Walker
<1>3. QED
  BY <1>1, <1>2

(* A function at a new argument.                                           *)
LEMMA WithTyped ==
  ASSUME NEW f, KeyMap(f), NEW p \in Path, NEW k \in Key
  PROVE  KeyMap(With(f, p, k))
<1> DEFINE g == With(f, p, k)
<1>1. /\ DOMAIN g = DOMAIN f \cup {p} /\ g[p] = k
      /\ \A y \in DOMAIN f \ {p} : g[y] = f[y]
  BY DEF With
<1> HIDE DEF g
<1>2. KeyMap(g)
  BY <1>1 DEF KeyMap
<1>3. QED
  BY <1>2 DEF g

-----------------------------------------------------------------------------
(* One machine acts at a time.                                             *)
Elsewhere(m) == Shape' /\ \A j \in Machine \ {m} : Local(j)' = Local(j)

LEMMA SessionElsewhere ==
  ASSUME Shape, NEW m \in Machine,
         \/ \E n \in Name : LookUpName(m, n) \/ Authenticate(m, n)
         \/ StoreUser(m) \/ EnterNew(m) \/ MakePermkey(m) \/ Enter(m)
         \/ Stop(m)
  PROVE  Elsewhere(m)
<1> USE DEF Shape, Elsewhere, Local, CommandGoes, MonitorGoes, WalkerGoes, Begin,
            Watch, ChangeDir, GoUp, Lock, Unlock, Leak, Appears, procVars, lockVars,
            mapVars, fsVars, bounds
<1>1. ASSUME NEW n \in Name, LookUpName(m, n) PROVE Elsewhere(m)
  BY <1>1 DEF LookUpName
<1>2. ASSUME NEW n \in Name, Authenticate(m, n) PROVE Elsewhere(m)
  BY <1>2 DEF Authenticate
<1>3. CASE StoreUser(m)
  BY <1>3 DEF StoreUser
<1>4. CASE EnterNew(m)
  BY <1>4 DEF EnterNew
<1>5. CASE MakePermkey(m)
  BY <1>5 DEF MakePermkey
<1>6. CASE Enter(m)
  BY <1>6 DEF Enter
<1>7. CASE Stop(m)
  BY <1>7 DEF Stop
<1>8. QED
  BY <1>1, <1>2, <1>3, <1>4, <1>5, <1>6, <1>7

LEMMA ClassElsewhere ==
  ASSUME Shape, NEW m \in Machine,
         \/ \E c \in Classes : SeekClass(m, c)
         \/ MakeClass(m) \/ ClassAppeared(m) \/ GoDown(m) \/ MakeFolder(m)
         \/ FoldersMade(m) \/ AppendClass(m) \/ SaveUser(m)
  PROVE  Elsewhere(m)
<1> USE DEF Shape, Elsewhere, Local, CommandGoes, MonitorGoes, WalkerGoes,
            Watch, ChangeDir, GoUp, Lock, Unlock, Leak, Appears, procVars, lockVars,
            mapVars, fsVars, bounds
<1>1. ASSUME NEW c \in Classes, SeekClass(m, c) PROVE Elsewhere(m)
  BY <1>1 DEF SeekClass
<1>2. CASE MakeClass(m)
  BY <1>2 DEF MakeClass
<1>3. CASE ClassAppeared(m)
  BY <1>3 DEF ClassAppeared
<1>4. CASE GoDown(m)
  BY <1>4 DEF GoDown
<1>5. CASE MakeFolder(m)
  BY <1>5 DEF MakeFolder
<1>6. CASE FoldersMade(m)
  BY <1>6 DEF FoldersMade
<1>7. CASE AppendClass(m)
  BY <1>7 DEF AppendClass
<1>8. CASE SaveUser(m)
  BY <1>8 DEF SaveUser
<1>9. QED
  BY <1>1, <1>2, <1>3, <1>4, <1>5, <1>6, <1>7, <1>8

LEMMA MonitorElsewhere ==
  ASSUME Shape, NEW m \in Machine, Monitoring(m)
  PROVE  Elsewhere(m)
<1> USE DEF Shape, Elsewhere, Local, MonitorTo, MonitorGoes, MonitorUnchanged,
            ChangeDir, Lock, Unlock, Leak, lockVars, mapVars, bounds
<1>1. CASE TakeEvent(m) \/ LockWd(m)
  BY <1>1 DEF TakeEvent, LockWd
<1>2. CASE OpenEntry(m) \/ OpenFails(m)
  BY <1>2 DEF OpenEntry, OpenFails
<1>3. CASE GetEntry(m) \/ Stuck(m) \/ PushEntry(m)
  BY <1>3 DEF GetEntry, Stuck, PushEntry
<1>4. CASE GetParent(m) \/ PushParent(m)
  BY <1>4 DEF GetParent, PushParent
<1>5. CASE FinishEvent(m)
  BY <1>5 DEF FinishEvent
<1>6. QED
  BY <1>1, <1>2, <1>3, <1>4, <1>5 DEF Monitoring

LEMMA WalkerElsewhere ==
  ASSUME Shape, NEW m \in Machine,
         \/ Walking(m)
         \/ \E p \in Path : AddEntry(m, p) \/ RemoveFile(m, p)
  PROVE  Elsewhere(m)
<1> USE DEF Shape, Elsewhere, Local, WalkerGoes, WalkerUnchanged, Watch,
            ChangeDir, Leak, Appears, procVars, lockVars, mapVars, fsVars, bounds
<1>1. CASE Visit(m) \/ WalkEnds(m) \/ LookForEntry(m)
  BY <1>1 DEF Visit, WalkEnds, LookForEntry
<1>2. CASE MakeDirectory(m)
  BY <1>2 DEF MakeDirectory
<1>3. CASE CreateFileFails(m)
  BY <1>3 DEF CreateFileFails
<1>4. ASSUME NEW p \in Path, AddEntry(m, p) PROVE Elsewhere(m)
  BY <1>4 DEF AddEntry, ByUser
<1>5. ASSUME NEW p \in Path, RemoveFile(m, p) PROVE Elsewhere(m)
  BY <1>5 DEF RemoveFile, ByUser
<1>6. QED
  BY <1>1, <1>2, <1>3, <1>4, <1>5 DEF Walking

LEMMA NotDisturbed ==
  ASSUME NEW j \in Machine, MachineInv(j), Local(j)' = Local(j)
  PROVE  MachineInv(j)'
  BY DEF Local, MachineInv, ThreadsTyped, FilesTyped, SomebodyIn, LoggedIn, Holder, Begins,
     Base, Waits, ChangedToHome


-----------------------------------------------------------------------------
(* The actions of a session keep the invariant of the machine.             *)
LEMMA SessionStep ==
  ASSUME ClientInv, NEW m \in Machine,
         \/ \E n \in Name : LookUpName(m, n) \/ Authenticate(m, n)
         \/ StoreUser(m) \/ EnterNew(m) \/ MakePermkey(m) \/ Enter(m)
         \/ Stop(m)
  PROVE  MachineInv(m)'
<1>0. /\ Shape /\ ThreadsTyped(m) /\ FilesTyped(m) /\ SomebodyIn(m) /\ Holder(m)
      /\ Begins(m) /\ Home \in Directory /\ Nobody \notin Name
  BY ClientAssumption DEF ClientInv, MachineInv, Directory, ClientAssumption
<1>1. cmd[m].at = "store" => cmd[m].name \in Name
  BY <1>0, CommandFacts DEF ThreadsTyped
<1> USE DEF CommandGoes, MonitorGoes, WalkerGoes, Watch, ChangeDir, Unlock, Shape,
            procVars, lockVars, mapVars, fsVars, bounds, Base, ChangedToHome, Waits
<1>2. ASSUME NEW n \in Name, LookUpName(m, n) PROVE MachineInv(m)'
  <2>1. cmd'[m] = [at |-> "store", name |-> n] /\ cmd[m].at = "out"
    BY <1>0, <1>2 DEF LookUpName
  <2>2. cmd'[m] \in Command /\ cmd'[m].at = "store"
    BY <2>1 DEF Command
  <2>3. ThreadsTyped(m)'
    BY <1>0, <1>2, <2>2 DEF LookUpName, ThreadsTyped, FoldersLeft
  <2>4. FilesTyped(m)' /\ SomebodyIn(m)' /\ Holder(m)' /\ Begins(m)'
    BY <1>0, <1>2, <2>1, <2>2
       DEF LookUpName, FilesTyped, SomebodyIn, LoggedIn, Holder, Begins
  <2>5. QED
    BY <2>3, <2>4 DEF MachineInv
<1>3. ASSUME NEW n \in Name, NEW classes \in Seq(Key), Begin(m, n, classes),
             cmd[m].at \in {"out", "store"}, sessions[m] < MaxSessions,
             NEW stage \in {"enter", "enterNew"}, CommandGoes(m, [at |-> stage]),
             known'[m] \in {known[m], permkey[m]}
      PROVE  MachineInv(m)'
  <2>1. cmd'[m] = [at |-> stage] /\ monitor'[m] = [at |-> "idle"]
    BY <1>0, <1>3 DEF Begin
  <2>2. /\ cmd'[m] \in Command /\ cmd'[m].at = stage
        /\ monitor'[m] \in Monitor /\ monitor'[m].at = "idle"
    BY <2>1 DEF Command, Monitor
  <2>3. /\ user'[m] = [name |-> n, classes |-> classes] /\ user'[m] \in Session
        /\ user'[m].name = n /\ walker'[m] = walker[m]
    BY <1>0, <1>3 DEF Begin, Session
  <2>4. ThreadsTyped(m)'
    BY <1>0, <2>2, <2>3 DEF ThreadsTyped, FoldersLeft
  <2>5. FilesTyped(m)'
    BY <1>0, <1>3, ClientAssumption DEF Begin, FilesTyped, ClientAssumption
  <2>6. SomebodyIn(m)' /\ Begins(m)'
    BY <1>0, <1>3, <2>2, <2>3 DEF Begin, SomebodyIn, LoggedIn, Begins
  <2>7. Holder(m)'
    BY <1>0, <1>3, <2>2 DEF Begin, Begins, Holder, Handling
  <2>8. QED
    BY <2>4, <2>5, <2>6, <2>7 DEF MachineInv
<1>4. ASSUME NEW n \in Name, Authenticate(m, n) PROVE MachineInv(m)'
  <2>1. userMap[n] \in Seq(Key)
    BY <1>4 DEF Authenticate, ClientInv, StoreTypeOK
  <2>2. known'[m] = permkey[m]
    BY <1>0, <1>4 DEF Authenticate
  <2>3. QED
    BY <1>3, <1>4, <2>1, <2>2 DEF Authenticate
<1>5. CASE StoreUser(m)
  <2>1. << >> \in Seq(Key)
    OBVIOUS
  <2>2. cmd[m].at = "store" /\ sessions[m] < MaxSessions /\ known'[m] = known[m]
    BY <1>0, <1>5 DEF StoreUser, Begins
  <2>3. QED
    BY <1>1, <1>3, <1>5, <2>1, <2>2 DEF StoreUser
<1>6. CASE EnterNew(m)
  <2>1. cmd'[m] = [at |-> "permkey"] /\ cmd[m].at = "enterNew"
    BY <1>0, <1>6 DEF EnterNew
  <2>2. cmd'[m] \in Command /\ cmd'[m].at = "permkey"
    BY <2>1 DEF Command
  <2>3. ThreadsTyped(m)'
    BY <1>0, <1>6, <2>2 DEF EnterNew, ThreadsTyped, FoldersLeft
  <2>4. FilesTyped(m)' /\ SomebodyIn(m)' /\ Begins(m)'
    BY <1>0, <1>6, <2>1, <2>2
       DEF EnterNew, FilesTyped, SomebodyIn, LoggedIn, Begins
  <2>5. Holder(m)'
    BY <1>0, <1>6, <2>1, <2>2, OutsideFacts DEF EnterNew, Holder, Begins, Handling
  <2>6. QED
    BY <2>3, <2>4, <2>5 DEF MachineInv
<1>7. CASE MakePermkey(m)
  <2>1. cmd'[m] = [at |-> "idle"] /\ cmd[m].at = "permkey"
    BY <1>0, <1>7 DEF MakePermkey
  <2>2. cmd'[m] \in Command /\ cmd'[m].at = "idle"
    BY <2>1 DEF Command
  <2>3. ThreadsTyped(m)'
    BY <1>0, <1>7, <2>2 DEF MakePermkey, ThreadsTyped, FoldersLeft
  <2>4. SomebodyIn(m)' /\ Begins(m)' /\ Holder(m)'
    BY <1>0, <1>7, <2>1, <2>2 DEF MakePermkey, SomebodyIn, LoggedIn, Begins, Holder
  <2>5. FilesTyped(m)'
    BY <1>0, <1>7 DEF MakePermkey, FilesTyped, KeyMap, Nothing
  <2>6. QED
    BY <2>3, <2>4, <2>5 DEF MachineInv
<1>8. CASE Enter(m)
  <2>1. /\ cmd'[m] = [at |-> "idle"] /\ cmd[m].at = "enter"
        /\ walker'[m] = [at |-> "visit", todo |-> user[m].classes]
    BY <1>0, <1>8 DEF Enter
  <2>2. cmd'[m] \in Command /\ cmd'[m].at = "idle" /\ walker'[m] \in Walker
    BY <1>0, <2>1 DEF Command, Walker, ThreadsTyped, Session
  <2>3. ThreadsTyped(m)'
    BY <1>0, <1>8, <2>2 DEF Enter, ThreadsTyped, FoldersLeft
  <2>4. FilesTyped(m)' /\ SomebodyIn(m)' /\ Begins(m)'
    BY <1>0, <1>8, <2>1, <2>2 DEF Enter, FilesTyped, SomebodyIn, LoggedIn, Begins
  <2>5. Holder(m)'
    BY <1>0, <1>8, <2>1, <2>2 DEF Enter, Holder, Begins, Handling
  <2>6. QED
    BY <2>3, <2>4, <2>5 DEF MachineInv
<1>9. CASE Stop(m)
  <2>1. /\ cmd'[m] = [at |-> "out"] /\ monitor'[m] = [at |-> "off"]
        /\ walker'[m] = [at |-> "off"] /\ user'[m] = LoggedOut
    BY <1>0, <1>9 DEF Stop
  <2>2. /\ cmd'[m] \in Command /\ cmd'[m].at = "out"
        /\ monitor'[m] \in Monitor /\ monitor'[m].at = "off"
        /\ walker'[m] \in Walker /\ user'[m] \in Session
    BY <2>1 DEF Command, Monitor, Walker, Session, LoggedOut
  <2>3. ThreadsTyped(m)'
    BY <2>2 DEF ThreadsTyped, FoldersLeft
  <2>4. SomebodyIn(m)' /\ Begins(m)'
    BY <1>0, <1>9, <2>2 DEF Stop, SomebodyIn, Begins
  <2>5. Holder(m)'
    BY <1>0, <1>9, <2>2 DEF Stop, Holder, Handling
  <2>6. FilesTyped(m)'
    BY <1>0, <1>9 DEF Stop, FilesTyped, KeyMap, Nothing
  <2>7. QED
    BY <2>3, <2>4, <2>5, <2>6 DEF MachineInv
<1>10. QED
  BY <1>2, <1>4, <1>5, <1>6, <1>7, <1>8, <1>9


(* A new entry, and perhaps its event.                                     *)
LEMMA AppearsTyped ==
  ASSUME Shape, NEW m \in Machine, FilesTyped(m), NEW p \in Path, Appears(m, p)
  PROVE  disk'[m] \subseteq Path /\ events'[m] \in Seq(Path)
<1>1. disk'[m] = disk[m] \cup {p} /\ events'[m] \in {Append(events[m], p), events[m]}
  BY DEF Shape, Appears
<1>2. disk[m] \subseteq Path /\ events[m] \in Seq(Path)
  BY DEF FilesTyped
<1>3. Append(events[m], p) \in Seq(Path)
  BY <1>2
<1>4. QED
  BY <1>1, <1>2, <1>3

LEMMA WatchTyped ==
  ASSUME Shape, NEW m \in Machine, FilesTyped(m), NEW d \in Directory, Watch(m, d)
  PROVE  watched'[m] \subseteq Directory
  BY DEF Shape, Watch, FilesTyped

(* The actions of MakeClass.                                               *)
LEMMA ClassStep ==
  ASSUME ClientInv, NEW m \in Machine,
         \/ \E c \in Classes : SeekClass(m, c)
         \/ MakeClass(m) \/ ClassAppeared(m) \/ GoDown(m) \/ MakeFolder(m)
         \/ FoldersMade(m) \/ AppendClass(m) \/ SaveUser(m)
  PROVE  MachineInv(m)'
<1>0. /\ Shape /\ ThreadsTyped(m) /\ FilesTyped(m) /\ SomebodyIn(m) /\ Holder(m)
      /\ Begins(m) /\ Home \in Directory
  BY DEF ClientInv, MachineInv, Directory
<1> DEFINE c == cmd[m]
<1>1. /\ c \in Command /\ FoldersLeft(c)
      /\ c.at \in {"make", "append", "save", "down", "mkdir"} => c.class \in Classes
      /\ c.at \in {"down", "mkdir"} => c.left \in Seq(STRING)
  BY <1>0, CommandFacts DEF ThreadsTyped
<1> USE DEF CommandGoes, Lock, Unlock, Leak, ChangeDir, Shape, procVars, lockVars,
            mapVars, fsVars, bounds, Base, ChangedToHome, Waits
(* What changes nothing but the command.                                   *)
<1>2. ASSUME NEW d \in Command, cmd' = [cmd EXCEPT ![m] = d],
             d.at \notin {"down", "mkdir", "out", "store", "enter", "enterNew"},
             c.at \notin {"down", "mkdir", "out", "store", "enter", "enterNew"},
             UNCHANGED <<user, monitor, walker, lockVars, mapVars, fsVars, bounds>>
      PROVE  MachineInv(m)'
  <2>1. cmd'[m] = d
    BY <1>0, <1>2
  <2>2. ThreadsTyped(m)'
    BY <1>0, <1>2, <2>1 DEF ThreadsTyped, FoldersLeft
  <2>3. FilesTyped(m)' /\ SomebodyIn(m)' /\ Holder(m)' /\ Begins(m)'
    BY <1>0, <1>2, <2>1 DEF FilesTyped, SomebodyIn, LoggedIn, Holder, Begins
  <2>4. QED
    BY <2>2, <2>3 DEF MachineInv
<1>3. ASSUME NEW class \in Classes, SeekClass(m, class) PROVE MachineInv(m)'
  <2> DEFINE d == [at |-> "make", class |-> class]
  <2>1. d \in Command /\ d.at = "make"
    BY DEF Command
  <2>2. QED
    BY <1>2, <1>3, <2>1 DEF SeekClass
<1>4. CASE MakeClass(m)
  <2> DEFINE d == [at |-> "down", class |-> c.class, left |-> Folders]
  <2>1. c.at = "make" /\ c.class \in Classes /\ cwd[m] = Home /\ wd[m] = "free"
    BY <1>0, <1>1, <1>4 DEF MakeClass, Holder
  <2>2. /\ cmd'[m] = d /\ d \in Command /\ d.at = "down" /\ d.left = Folders
        /\ wd'[m] = "command"
    BY <1>0, <1>4, <2>1, ClientAssumption DEF MakeClass, Command, ClientAssumption
  <2>3. At(m, c.class) = c.class /\ c.class \in Path /\ c.class \in Directory
    BY <2>1, ClassFacts, PathFacts DEF At
  <2>4. ThreadsTyped(m)'
    BY <1>0, <1>4, <2>2 DEF MakeClass, ThreadsTyped, FoldersLeft, Range
  <2>5. disk'[m] \subseteq Path /\ events'[m] \in Seq(Path) /\ watched'[m] \subseteq Directory
    BY <1>0, <1>4, <2>3, AppearsTyped, WatchTyped DEF MakeClass
  <2>6. FilesTyped(m)'
    BY <1>0, <1>4, <2>5 DEF MakeClass, FilesTyped
  <2>7. SomebodyIn(m)' /\ Holder(m)' /\ Begins(m)'
    BY <1>0, <1>4, <2>1, <2>2
       DEF MakeClass, SomebodyIn, LoggedIn, Holder, Begins, Handling
  <2>8. QED
    BY <2>4, <2>6, <2>7 DEF MachineInv
<1>5. CASE ClassAppeared(m)
  <2>1. /\ cmd'[m] = [at |-> "idle"] /\ wd'[m] = "leaked"
        /\ c.at = "make" /\ wd[m] = "free"
    BY <1>0, <1>5 DEF ClassAppeared
  <2>2. cmd'[m] \in Command /\ cmd'[m].at = "idle"
    BY <2>1 DEF Command
  <2>3. ThreadsTyped(m)'
    BY <1>0, <1>5, <2>2 DEF ClassAppeared, ThreadsTyped, FoldersLeft
  <2>4. FilesTyped(m)' /\ SomebodyIn(m)' /\ Holder(m)' /\ Begins(m)'
    BY <1>0, <1>5, <2>1, <2>2
       DEF ClassAppeared, FilesTyped, SomebodyIn, LoggedIn, Holder, Begins
  <2>5. QED
    BY <2>3, <2>4 DEF MachineInv
<1>6. CASE GoDown(m)
  <2> DEFINE d == [c EXCEPT !.at = "mkdir"]
  <2>1. c.at = "down" /\ c.left # << >> /\ c.class \in Classes /\ cwd[m] = Home
    BY <1>0, <1>1, <1>6 DEF GoDown, Holder
  <2>2. d \in Command /\ d.at = "mkdir" /\ d.class = c.class /\ d.left = c.left
    BY <1>1, <2>1, CommandGoesOn
  <2>3. cmd'[m] = d
    BY <1>0, <1>6 DEF GoDown
  <2> HIDE DEF d
  <2>4. At(m, c.class) = c.class /\ c.class \in Directory
    BY <2>1, ClassFacts, PathFacts DEF At
  <2>5. cwd'[m] = c.class
    BY <1>0, <1>6, <2>4 DEF GoDown
  <2>6. ThreadsTyped(m)'
    BY <1>0, <1>1, <1>6, <2>1, <2>2, <2>3 DEF GoDown, ThreadsTyped, FoldersLeft
  <2>7. FilesTyped(m)' /\ SomebodyIn(m)' /\ Begins(m)'
    BY <1>0, <1>6, <2>1, <2>2, <2>3
       DEF GoDown, FilesTyped, SomebodyIn, LoggedIn, Begins
  <2>8. Holder(m)'
    BY <1>0, <1>6, <2>1, <2>2, <2>3, <2>4, <2>5 DEF GoDown, Holder
  <2>9. QED
    BY <2>6, <2>7, <2>8 DEF MachineInv
<1>7. CASE MakeFolder(m)
  <2> DEFINE p == Append(cwd[m], Head(c.left))
             d == [c EXCEPT !.at = "down", !.left = Tail(@)]
  <2>1. /\ c.at = "mkdir" /\ c.class \in Classes /\ c.left # << >>
        /\ c.left \in Seq(STRING) /\ cwd[m] = c.class /\ wd[m] = "command"
    BY <1>0, <1>1, <1>7 DEF MakeFolder, Holder, FoldersLeft
  <2>2. 1 \in DOMAIN c.left /\ Head(c.left) = c.left[1]
    BY <2>1
  <2>3. p \in Path /\ p \in Directory
    BY <1>1, <2>1, <2>2, ClassFacts DEF FoldersLeft
  <2>4. cwd'[m] = Home
    BY <1>0, <1>7, <2>1, ClassFacts DEF MakeFolder, GoUp
  <2>5. watched'[m] \subseteq Directory
    BY <1>0, <1>7, <2>3, WatchTyped DEF MakeFolder
  <2>6. d \in Command /\ d.at = "down" /\ d.left = Tail(c.left)
    BY <1>1, <2>1, CommandGoesOn
  <2>7. FoldersLeft(d)
    <3>1. \A i \in DOMAIN Tail(c.left) : Tail(c.left)[i] \in Range(Folders)
      <4>1. \A i \in DOMAIN Tail(c.left) :
              i + 1 \in DOMAIN c.left /\ Tail(c.left)[i] = c.left[i + 1]
        BY <2>1
      <4>2. QED
        BY <1>1, <2>1, <4>1 DEF FoldersLeft
    <3>2. QED
      BY <2>6, <3>1 DEF FoldersLeft
  <2>8. UNCHANGED <<user, monitor, walker, known, permkey, canRecord, sessions, edits>>
    BY <1>7 DEF MakeFolder
  <2>9. CASE p \notin disk[m] /\ Appears(m, p) /\ CommandGoes(m, d) /\ UNCHANGED wd
    <3>1. cmd'[m] = d /\ wd'[m] = "command"
      BY <1>0, <2>1, <2>9
    <3> HIDE DEF d, p
    <3>2. disk'[m] \subseteq Path /\ events'[m] \in Seq(Path)
      BY <1>0, <2>3, <2>9, AppearsTyped
    <3>3. ThreadsTyped(m)'
      BY <1>0, <2>6, <2>7, <2>8, <3>1 DEF ThreadsTyped
    <3>4. FilesTyped(m)'
      BY <1>0, <2>5, <2>8, <3>2 DEF FilesTyped
    <3>5. SomebodyIn(m)' /\ Holder(m)' /\ Begins(m)'
      BY <1>0, <2>1, <2>4, <2>6, <2>8, <3>1
         DEF SomebodyIn, LoggedIn, Holder, Begins
    <3>6. QED
      BY <3>3, <3>4, <3>5 DEF MachineInv
  <2>10. CASE UNCHANGED <<disk, events>> /\ CommandGoes(m, [at |-> "idle"]) /\ Leak(m)
    <3>1. cmd'[m] = [at |-> "idle"] /\ wd'[m] = "leaked"
      BY <1>0, <2>10
    <3>2. cmd'[m] \in Command /\ cmd'[m].at = "idle"
      BY <3>1 DEF Command
    <3>3. ThreadsTyped(m)' /\ FilesTyped(m)'
      BY <1>0, <2>5, <2>8, <2>10, <3>2 DEF ThreadsTyped, FoldersLeft, FilesTyped
    <3>4. SomebodyIn(m)' /\ Holder(m)' /\ Begins(m)'
      BY <1>0, <2>1, <2>4, <2>8, <3>1, <3>2
         DEF SomebodyIn, LoggedIn, Holder, Begins
    <3>5. QED
      BY <3>3, <3>4 DEF MachineInv
  <2>11. QED
    BY <1>7, <2>9, <2>10 DEF MakeFolder
<1>8. CASE FoldersMade(m)
  <2> DEFINE d == [at |-> "append", class |-> c.class]
  <2>1. c.at = "down" /\ c.class \in Classes /\ cwd[m] = Home /\ wd[m] = "command"
    BY <1>0, <1>1, <1>8 DEF FoldersMade, Holder
  <2>2. cmd'[m] = d /\ d \in Command /\ d.at = "append" /\ wd'[m] = "free"
    BY <1>0, <1>8, <2>1 DEF FoldersMade, Command
  <2>3. ThreadsTyped(m)'
    BY <1>0, <1>8, <2>2 DEF FoldersMade, ThreadsTyped, FoldersLeft
  <2>4. FilesTyped(m)' /\ SomebodyIn(m)' /\ Holder(m)' /\ Begins(m)'
    BY <1>0, <1>8, <2>1, <2>2
       DEF FoldersMade, FilesTyped, SomebodyIn, LoggedIn, Holder, Begins
  <2>5. QED
    BY <2>3, <2>4 DEF MachineInv
<1>9. CASE AppendClass(m)
  <2> DEFINE d == [c EXCEPT !.at = "save"]
  <2>1. c.at = "append" /\ c.class \in Path
    BY <1>1, <1>9, ClassFacts DEF AppendClass
  <2>2. d \in Command /\ d.at = "save"
    BY <1>1, <2>1, CommandGoesOn
  <2>3. cmd'[m] = d
    BY <1>0, <1>9 DEF AppendClass
  <2> HIDE DEF d
  <2>4. user[m] \in Session /\ user[m].name \in Name /\ user[m].classes \in Seq(Key)
    BY <1>0, <2>1 DEF ThreadsTyped, Session, SomebodyIn, LoggedIn
  <2>5. KeyOf(m, c.class) \in Key
    BY <2>1, <2>4 DEF KeyOf, Key
  <2>6. Append(user[m].classes, KeyOf(m, c.class)) \in Seq(Key)
    BY <2>4, <2>5
  <2>7. /\ user'[m] = [user[m] EXCEPT !.classes = Append(@, KeyOf(m, c.class))]
        /\ UNCHANGED <<monitor, walker, wd, cwd, known, permkey, canRecord, disk,
                       watched, events, sessions, edits>>
    BY <1>0, <1>9 DEF AppendClass
  <2>8. user'[m] \in Session /\ user'[m].name = user[m].name
    BY <2>4, <2>6, <2>7 DEF Session
  <2>9. ThreadsTyped(m)'
    BY <1>0, <2>2, <2>3, <2>7, <2>8 DEF ThreadsTyped, FoldersLeft
  <2>10. FilesTyped(m)' /\ SomebodyIn(m)' /\ Holder(m)' /\ Begins(m)'
    BY <1>0, <2>1, <2>2, <2>3, <2>7, <2>8
       DEF FilesTyped, SomebodyIn, LoggedIn, Holder, Begins
  <2>11. QED
    BY <2>9, <2>10 DEF MachineInv
<1>10. CASE SaveUser(m)
  <2> DEFINE d == [at |-> "idle"]
  <2>1. d \in Command /\ d.at = "idle"
    BY DEF Command
  <2>2. QED
    BY <1>2, <1>10, <2>1 DEF SaveUser
<1>11. QED
  BY <1>3, <1>4, <1>5, <1>6, <1>7, <1>8, <1>9, <1>10

(* The actions of the goroutine that monitors.                             *)
LEMMA MonitorStep ==
  ASSUME ClientInv, NEW m \in Machine, Monitoring(m)
  PROVE  MachineInv(m)'
<1>0. /\ Shape /\ ThreadsTyped(m) /\ FilesTyped(m) /\ SomebodyIn(m) /\ Holder(m)
      /\ Begins(m) /\ Home \in Directory
  BY DEF ClientInv, MachineInv, Directory
<1>1. /\ monitor[m].at \in Handling \cup {"wait"} => monitor[m].path \in Path
      /\ monitor[m].at \in Handling => user[m].name \in Name
      /\ monitor[m].at = "list" => monitor[m].dir \in Key /\ monitor[m].copy \in SyncFile
  BY <1>0, MonitorFacts
     DEF ThreadsTyped, SomebodyIn, LoggedIn, Session, Handling
<1> DEFINE p == monitor[m].path
<1> USE DEF MonitorGoes, Lock, Unlock, Leak, ChangeDir, MonitorUnchanged, Shape,
            lockVars, mapVars, fsVars, bounds, Base, ChangedToHome, Waits
<1>2. ASSUME NEW stage \in (Handling \cup {"wait"}) \ {"list"}, NEW q \in Path
      PROVE  /\ [at |-> stage, path |-> q] \in Monitor
             /\ [at |-> stage, path |-> q].at = stage
             /\ [at |-> stage, path |-> q].path = q
  BY DEF Monitor, Handling
<1>3. /\ [at |-> "idle"] \in Monitor /\ [at |-> "idle"].at = "idle"
      /\ "idle" \notin Handling
  BY DEF Monitor, Handling
(* What only brings the event further.                                     *)
<1>4. ASSUME NEW n \in Monitor, monitor' = [monitor EXCEPT ![m] = n],
             n.at \in Handling \ {"open"}, monitor[m].at \in Handling \ {"open"},
             n.path = p,
             UNCHANGED <<user, cmd, walker, lockVars, mapVars, fsVars, bounds>>
      PROVE  MachineInv(m)'
  <2>1. monitor'[m] = n
    BY <1>0, <1>4
  <2> HIDE DEF p
  <2>2. ThreadsTyped(m)'
    BY <1>0, <1>4, <2>1 DEF ThreadsTyped
  <2>3. FilesTyped(m)' /\ SomebodyIn(m)'
    BY <1>0, <1>4, <2>1 DEF FilesTyped, SomebodyIn, LoggedIn, Handling
  <2>4. Holder(m)'
    BY <1>0, <1>4, <2>1 DEF Holder, p
  <2>5. Begins(m)'
    BY <1>0, <1>4, <2>1 DEF Begins, Handling
  <2>6. QED
    BY <2>2, <2>3, <2>4, <2>5 DEF MachineInv
<1>5. CASE TakeEvent(m)
  <2> DEFINE q == Head(events[m])
  <2>1. /\ monitor[m].at = "idle" /\ events[m] # << >>
        /\ monitor'[m] = [at |-> "wait", path |-> q]
        /\ events'[m] = Tail(events[m])
    BY <1>0, <1>5 DEF TakeEvent, MonitorAt
  <2>2. q \in Path /\ events'[m] \in Seq(Path)
    BY <1>0, <2>1 DEF FilesTyped
  <2>3. /\ monitor'[m] \in Monitor /\ monitor'[m].at = "wait" /\ monitor'[m].path = q
    BY <1>2, <2>1, <2>2 DEF Handling
  <2>4. /\ q = events[m][1] /\ 1 \in DOMAIN events[m]
        /\ \A i \in DOMAIN events'[m] :
             i + 1 \in DOMAIN events[m] /\ events'[m][i] = events[m][i + 1]
    BY <1>0, <2>1 DEF FilesTyped
  <2> HIDE DEF q
  <2>5. ThreadsTyped(m)' /\ FilesTyped(m)'
    BY <1>0, <1>5, <2>2, <2>3 DEF TakeEvent, ThreadsTyped, FilesTyped
  <2>6. SomebodyIn(m)'
    BY <1>0, <1>5, <2>1, <2>3 DEF TakeEvent, SomebodyIn, LoggedIn
  <2>7. Begins(m)'
    BY <1>0, <1>5, <2>1, <2>3, <2>4 DEF TakeEvent, Begins
  <2>8. Holder(m)'
    BY <1>0, <1>5, <2>1, <2>3 DEF TakeEvent, Holder, Handling
  <2>9. QED
    BY <2>5, <2>6, <2>7, <2>8 DEF MachineInv
<1>6. CASE LockWd(m)
  <2>1. /\ monitor[m].at = "wait" /\ p \in Path /\ wd[m] = "free"
        /\ monitor'[m] = [at |-> "open", path |-> p] /\ wd'[m] = "monitor"
    BY <1>0, <1>1, <1>6 DEF LockWd, MonitorAt, MonitorTo
  <2>2. monitor'[m] \in Monitor /\ monitor'[m].at = "open" /\ monitor'[m].path = p
    BY <1>2, <2>1 DEF Handling
  <2> HIDE DEF p
  <2>3. ThreadsTyped(m)' /\ FilesTyped(m)'
    BY <1>0, <1>6, <2>2 DEF LockWd, ThreadsTyped, FilesTyped
  <2>4. SomebodyIn(m)' /\ Begins(m)'
    BY <1>0, <1>6, <2>1, <2>2 DEF LockWd, SomebodyIn, LoggedIn, Begins, p
  <2>5. Holder(m)'
    BY <1>0, <1>6, <2>1, <2>2 DEF LockWd, Holder, Handling
  <2>6. QED
    BY <2>3, <2>4, <2>5 DEF MachineInv
(* What can be opened is opened at home, from where the paths lead.        *)
<1>7. CASE OpenEntry(m)
  <2>1. /\ monitor[m].at = "open" /\ p \in Path /\ wd[m] = "monitor"
        /\ cwd[m] = Base(m) /\ cwd[m] \o p \in Path
    BY <1>0, <1>1, <1>7
       DEF OpenEntry, MonitorAt, Handling, Holder, Exists, At, FilesTyped
  <2>2. ChangedToHome(m) /\ cwd[m] = Home
    BY <2>1, OutsideFacts
  <2>3. monitor'[m] = [at |-> "get", path |-> p]
    BY <1>0, <1>7 DEF OpenEntry, MonitorTo
  <2>4. monitor'[m] \in Monitor /\ monitor'[m].at = "get" /\ monitor'[m].path = p
    BY <1>2, <2>1, <2>3 DEF Handling
  <2>5. cwd'[m] = Parent(p) /\ Parent(p) \in Directory
    BY <1>0, <1>7, <2>1, <2>2, PathFacts DEF OpenEntry, At
  <2> HIDE DEF p
  <2>6. ThreadsTyped(m)' /\ FilesTyped(m)'
    BY <1>0, <1>7, <2>4 DEF OpenEntry, ThreadsTyped, FilesTyped
  <2>7. SomebodyIn(m)' /\ Begins(m)'
    BY <1>0, <1>7, <2>1, <2>2, <2>4 DEF OpenEntry, SomebodyIn, LoggedIn, Begins
  <2>8. Holder(m)'
    BY <1>0, <1>7, <2>1, <2>4, <2>5 DEF OpenEntry, Holder, Handling
  <2>9. QED
    BY <2>6, <2>7, <2>8 DEF MachineInv
<1>8. CASE OpenFails(m)
  <2>1. /\ monitor[m].at = "open" /\ p \in Path /\ wd[m] = "monitor"
        /\ cwd[m] = Base(m) /\ (ChangedToHome(m) \/ Parent(p) = Home)
    BY <1>0, <1>1, <1>8
       DEF OpenFails, MonitorAt, Handling, Holder, Begins, InHome
  <2>2. monitor'[m] = [at |-> "idle"] /\ wd'[m] = "leaked"
    BY <1>0, <1>8 DEF OpenFails
  <2>3. cwd'[m] \in Directory \cup {Outside}
    <3>1. cwd'[m] = cwd[m] \o Parent(p)
      BY <1>0, <1>8 DEF OpenFails, At
    <3>2. CASE ChangedToHome(m)
      <4>1. cwd[m] = Home
        BY <2>1, <3>2
      <4>2. Parent(p) \in Directory /\ Home \o Parent(p) = Parent(p)
        BY <2>1, PathFacts
      <4>3. QED
        BY <3>1, <4>1, <4>2
    <3>3. CASE ~ChangedToHome(m)
      BY <2>1, <3>1, <3>3, OutsideFacts
    <3>4. QED
      BY <3>2, <3>3
  <2>4. ThreadsTyped(m)' /\ FilesTyped(m)'
    BY <1>0, <1>3, <1>8, <2>2 DEF OpenFails, ThreadsTyped, FilesTyped
  <2>5. SomebodyIn(m)' /\ Begins(m)'
    BY <1>0, <1>3, <1>8, <2>1, <2>2 DEF OpenFails, SomebodyIn, LoggedIn, Begins
  <2>6. Holder(m)'
    BY <1>0, <1>3, <1>8, <2>1, <2>2, <2>3 DEF OpenFails, Holder
  <2>7. QED
    BY <2>4, <2>5, <2>6 DEF MachineInv
<1>9. CASE GetEntry(m) \/ Stuck(m) \/ PushEntry(m) \/ PushParent(m)
  <2>1. monitor[m].at \in Handling \ {"open"} /\ p \in Path
    BY <1>1, <1>9 DEF GetEntry, Stuck, PushEntry, PushParent, MonitorAt, Handling
  <2>2. PICK stage \in Handling \ {"list", "open"} :
          monitor' = [monitor EXCEPT ![m] = [at |-> stage, path |-> p]]
    BY <1>9 DEF GetEntry, Stuck, PushEntry, PushParent, MonitorTo, Handling
  <2> DEFINE n == [at |-> stage, path |-> p]
  <2>3. n \in Monitor /\ n.at = stage /\ n.path = p
    BY <1>2, <2>1
  <2>4. UNCHANGED <<user, cmd, walker, lockVars, mapVars, fsVars, bounds>>
    BY <1>9 DEF GetEntry, Stuck, PushEntry, PushParent
  <2>5. monitor' = [monitor EXCEPT ![m] = n] /\ n.at \in Handling \ {"open"}
    BY <2>2, <2>3
  <2> HIDE DEF n, p
  <2>6. QED
    BY <1>4, <2>1, <2>3, <2>4, <2>5
<1>10. CASE GetParent(m)
  <2> DEFINE k == known[m][Parent(p)]
             l == [at |-> "list", path |-> p, dir |-> k, copy |-> fileMap[k]]
             f == [at |-> "finish", path |-> p]
  <2>1. monitor[m].at = "parent" /\ p \in Path
    BY <1>1, <1>10 DEF GetParent, MonitorAt, Handling
  <2>2. UNCHANGED <<user, cmd, walker, lockVars, mapVars, fsVars, bounds>>
    BY <1>10 DEF GetParent
  <2>3. CASE ParentKnown(m, p) /\ Has(m, k) /\ monitor' = [monitor EXCEPT ![m] = l]
    <3>1. k \in Key /\ fileMap[k] \in SyncFile
      BY <1>0, <2>3
         DEF ParentKnown, FilesTyped, KeyMap, Has, CanGet, ClientInv, StoreTypeOK
    <3>2. l \in Monitor /\ l.at = "list" /\ l.path = p
      BY <2>1, <3>1 DEF Monitor
    <3> HIDE DEF l, p, k
    <3>3. QED
      BY <1>4, <2>1, <2>2, <2>3, <3>2 DEF Handling
  <2>4. CASE monitor' = [monitor EXCEPT ![m] = f]
    <3>1. f \in Monitor /\ f.at = "finish" /\ f.path = p
      BY <1>2, <2>1 DEF Handling
    <3> HIDE DEF f, p
    <3>2. QED
      BY <1>4, <2>1, <2>2, <2>4, <3>1 DEF Handling
  <2>5. QED
    BY <1>10, <2>3, <2>4 DEF GetParent, MonitorTo
<1>11. CASE FinishEvent(m)
  <2>1. /\ monitor[m].at = "finish" /\ p \in Path /\ wd[m] = "monitor"
        /\ cwd[m] = Parent(p)
    BY <1>0, <1>1, <1>11 DEF FinishEvent, MonitorAt, Handling, Holder
  <2>2. monitor'[m] = [at |-> "idle"] /\ wd'[m] = "free" /\ cwd'[m] = UpAgain(m)
    BY <1>0, <1>11 DEF FinishEvent
  <2>3. cwd'[m] = Home
    BY <2>1, <2>2, PathFacts, DirectoryFacts DEF UpAgain
  <2>4. KeyOf(m, p) \in Key
    BY <1>1, <2>1 DEF KeyOf, Key, Handling
  <2>5. ASSUME NEW f, KeyMap(f) PROVE KeyMap(With(f, p, KeyOf(m, p)))
    BY <2>1, <2>4, <2>5, WithTyped
  <2>6. /\ known'[m] = With(known[m], p, KeyOf(m, p))
        /\ permkey'[m] \in {permkey[m], With(permkey[m], p, KeyOf(m, p))}
        /\ UNCHANGED <<user, cmd, walker, canRecord, disk, watched, events, bounds>>
    BY <1>0, <1>11 DEF FinishEvent, Recorded
  <2> HIDE DEF p
  <2>7. FilesTyped(m)'
    BY <1>0, <2>5, <2>6 DEF FilesTyped, KeyMap
  <2>8. ThreadsTyped(m)'
    BY <1>0, <1>3, <2>2, <2>6 DEF ThreadsTyped
  <2>9. SomebodyIn(m)' /\ Begins(m)'
    <3>1. ChangedToHome(m) /\ cmd[m].at \notin {"out", "store"}
      BY <1>0, <2>1 DEF Begins
    <3>2. QED
      BY <1>0, <1>3, <2>1, <2>2, <2>6, <3>1 DEF SomebodyIn, LoggedIn, Begins
  <2>10. Holder(m)'
    <3>1. ChangedToHome(m) /\ monitor'[m].at = "idle" /\ cmd' = cmd
      BY <1>0, <1>3, <2>1, <2>2, <2>6 DEF Begins
    <3>2. QED
      BY <1>0, <2>1, <2>2, <2>3, <3>1 DEF Holder, Handling
  <2>11. QED
    BY <2>7, <2>8, <2>9, <2>10 DEF MachineInv
<1>12. QED
  BY <1>5, <1>6, <1>7, <1>8, <1>9, <1>10, <1>11 DEF Monitoring

(* The goroutine that walks down, and the user.                            *)
LEMMA WalkerStep ==
  ASSUME ClientInv, NEW m \in Machine,
         \/ Walking(m)
         \/ \E p \in Path : AddEntry(m, p) \/ RemoveFile(m, p)
  PROVE  MachineInv(m)'
<1>0. /\ Shape /\ ThreadsTyped(m) /\ FilesTyped(m) /\ SomebodyIn(m) /\ Holder(m)
      /\ Begins(m) /\ Home \in Directory
  BY DEF ClientInv, MachineInv, Directory
<1> DEFINE w == walker[m]
<1>1. /\ w.at \in {"visit", "look", "make"} => w.todo \in Seq(Key)
      /\ w.at \in {"look", "make"} => w.key \in Key /\ w.files \in Seq(Key)
      /\ w.at = "look" => [w EXCEPT !.at = "make"] \in Walker
  BY <1>0, WalkerFacts DEF ThreadsTyped
<1>2. ASSUME NEW todo \in Seq(Key) PROVE [at |-> "visit", todo |-> todo] \in Walker
  BY DEF Walker
<1>3. w.at \in {"look", "make"} =>
        Descend(m) \in Walker /\ w.key.path \in Path
  BY <1>1, <1>2, ConcatProperties DEF Descend, Key
<1> USE DEF WalkerGoes, Leak, ChangeDir, WalkerUnchanged, Shape, procVars, lockVars,
            mapVars, fsVars, bounds, Base, ChangedToHome, Waits
<1>4. ASSUME NEW n \in Walker, walker' = [walker EXCEPT ![m] = n], w.at # "off",
             UNCHANGED <<user, cmd, monitor, mapVars, lockVars, bounds>>,
             disk'[m] \subseteq Path, events'[m] \in Seq(Path),
             watched'[m] \subseteq Directory
      PROVE  MachineInv(m)'
  <2>1. walker'[m] = n /\ ChangedToHome(m)
    BY <1>0, <1>4 DEF Begins
  <2> HIDE DEF w
  <2>2. ThreadsTyped(m)'
    BY <1>0, <1>4, <2>1 DEF ThreadsTyped
  <2>3. FilesTyped(m)'
    BY <1>0, <1>4 DEF FilesTyped
  <2>4. SomebodyIn(m)' /\ Holder(m)' /\ Begins(m)'
    BY <1>0, <1>4, <2>1 DEF SomebodyIn, LoggedIn, Holder, Begins
  <2>5. QED
    BY <2>2, <2>3, <2>4 DEF MachineInv
<1>5. ASSUME NEW n \in Walker, walker' = [walker EXCEPT ![m] = n], w.at # "off",
             UNCHANGED <<user, cmd, monitor, mapVars, lockVars, fsVars, bounds>>
      PROVE  MachineInv(m)'
  BY <1>0, <1>4, <1>5 DEF FilesTyped
<1>6. CASE Visit(m)
  <2> DEFINE k == Head(w.todo)
             l == [at |-> "look", key |-> k, files |-> fileMap[k].files,
                   todo |-> Tail(w.todo)]
             v == [at |-> "visit", todo |-> Tail(w.todo)]
  <2>1. w.at = "visit" /\ w.todo # << >> /\ w.todo \in Seq(Key)
    BY <1>1, <1>6 DEF Visit
  <2>2. k \in Key /\ Tail(w.todo) \in Seq(Key)
    BY <2>1
  <2>3. UNCHANGED <<user, cmd, monitor, mapVars, lockVars, fsVars, bounds>>
    BY <1>6 DEF Visit
  <2>4. CASE Has(m, k) /\ walker' = [walker EXCEPT ![m] = l]
    <3>1. fileMap[k].files \in Seq(Key)
      BY <2>4 DEF Has, CanGet, ClientInv, StoreTypeOK, SyncFile
    <3>2. l \in Walker
      BY <2>2, <3>1 DEF Walker
    <3> HIDE DEF l
    <3>3. QED
      BY <1>5, <2>1, <2>3, <2>4, <3>2
  <2>5. CASE walker' = [walker EXCEPT ![m] = v]
    <3>1. v \in Walker
      BY <1>2, <2>2
    <3> HIDE DEF v
    <3>2. QED
      BY <1>5, <2>1, <2>3, <2>5, <3>1
  <2>6. QED
    BY <1>6, <2>4, <2>5 DEF Visit
<1>7. CASE WalkEnds(m)
  <2> DEFINE n == [at |-> "off"]
  <2>1. n \in Walker
    BY DEF Walker
  <2> HIDE DEF n
  <2>2. QED
    BY <1>5, <1>7, <2>1 DEF WalkEnds, n
<1>8. CASE LookForEntry(m)
  <2> DEFINE n == [w EXCEPT !.at = "make"]
  <2>1. w.at = "look" /\ n \in Walker /\ Descend(m) \in Walker
    BY <1>1, <1>3, <1>8 DEF LookForEntry
  <2>2. walker' = [walker EXCEPT ![m] = Descend(m)] \/ walker' = [walker EXCEPT ![m] = n]
    BY <1>8 DEF LookForEntry
  <2>3. UNCHANGED <<user, cmd, monitor, mapVars, lockVars, fsVars, bounds>>
    BY <1>8 DEF LookForEntry
  <2> HIDE DEF n
  <2>4. QED
    BY <1>5, <2>1, <2>2, <2>3
<1>9. CASE MakeDirectory(m)
  <2> DEFINE p == At(m, w.key.path)
  <2>1. /\ w.at = "make" /\ wd[m] = "free" /\ cwd[m] = Home /\ IsDir(w.key.path)
        /\ Descend(m) \in Walker /\ w.key.path \in Path
    BY <1>0, <1>3, <1>9 DEF MakeDirectory, Holder, Begins
  <2>2. p \in Path /\ p \in Directory
    BY <2>1, PathFacts DEF At
  <2> HIDE DEF p
  <2>3. watched'[m] \subseteq Directory
    BY <1>0, <1>9, <2>2, WatchTyped DEF MakeDirectory, p
  <2>4. disk'[m] \subseteq Path /\ events'[m] \in Seq(Path)
    <3>1. CASE Appears(m, p)
      BY <1>0, <2>2, <3>1, AppearsTyped
    <3>2. CASE UNCHANGED <<disk, events>>
      BY <1>0, <3>2 DEF FilesTyped
    <3>3. QED
      BY <1>9, <3>1, <3>2 DEF MakeDirectory, p
  <2>5. /\ walker' = [walker EXCEPT ![m] = Descend(m)]
        /\ UNCHANGED <<user, cmd, monitor, mapVars, lockVars, bounds>>
    BY <1>9 DEF MakeDirectory
  <2>6. QED
    BY <1>4, <2>1, <2>3, <2>4, <2>5
<1>10. CASE CreateFileFails(m)
  <2>1. w.at = "make" /\ wd[m] = "free" /\ cwd[m] = Home /\ ChangedToHome(m)
    BY <1>0, <1>10 DEF CreateFileFails, Holder, Begins
  <2>2. cwd'[m] \in Directory /\ wd'[m] = "leaked"
    BY <1>0, <1>3, <1>10, <2>1, PathFacts DEF CreateFileFails, At
  <2>3. walker'[m] \in Walker
    BY <1>0, <1>1, <1>2, <1>10, <2>1 DEF CreateFileFails
  <2> HIDE DEF w
  <2>4. ThreadsTyped(m)' /\ FilesTyped(m)'
    BY <1>0, <1>10, <2>3 DEF CreateFileFails, ThreadsTyped, FilesTyped
  <2>5. SomebodyIn(m)' /\ Begins(m)'
    BY <1>0, <1>10, <2>1 DEF CreateFileFails, SomebodyIn, LoggedIn, Begins
  <2>6. Holder(m)'
    BY <1>0, <1>10, <2>1, <2>2 DEF CreateFileFails, Holder
  <2>7. QED
    BY <2>4, <2>5, <2>6 DEF MachineInv
<1>11. ASSUME ByUser(m), disk'[m] \subseteq Path, events'[m] \in Seq(Path),
              \/ ChangedToHome(m)
              \/ \A i \in DOMAIN events'[m] : InHome(events'[m][i])
       PROVE  MachineInv(m)'
  <2>1. edits'[m] \in 0..MaxEdits
    BY <1>0, <1>11, ClientAssumption DEF ByUser, FilesTyped, ClientAssumption
  <2>2. ThreadsTyped(m)' /\ FilesTyped(m)'
    BY <1>0, <1>11, <2>1 DEF ByUser, ThreadsTyped, FilesTyped
  <2>3. SomebodyIn(m)' /\ Holder(m)' /\ Begins(m)'
    BY <1>0, <1>11 DEF ByUser, SomebodyIn, LoggedIn, Holder, Begins
  <2>4. QED
    BY <2>2, <2>3 DEF MachineInv
<1>12. ASSUME NEW p \in Path, AddEntry(m, p) PROVE MachineInv(m)'
  <2>1. disk'[m] \subseteq Path /\ events'[m] \in Seq(Path)
    BY <1>0, <1>12, AppearsTyped DEF AddEntry
  <2>2. ASSUME ~ChangedToHome(m)
        PROVE  \A i \in DOMAIN events'[m] : InHome(events'[m][i])
    <3>1. watched[m] \subseteq {Home} /\ \A i \in DOMAIN events[m] : InHome(events[m][i])
      BY <1>0, <2>2 DEF Begins
    <3>2. CASE events'[m] = events[m]
      BY <3>1, <3>2
    <3>3. CASE events'[m] = Append(events[m], p) /\ Parent(p) \in watched[m]
      <4>1. \A i \in DOMAIN events'[m] :
              \/ i \in DOMAIN events[m] /\ events'[m][i] = events[m][i]
              \/ events'[m][i] = p
        BY <1>0, <3>3 DEF FilesTyped
      <4>2. InHome(p)
        BY <3>1, <3>3 DEF InHome
      <4>3. QED
        BY <3>1, <4>1, <4>2
    <3>4. QED
      BY <1>0, <1>12, <3>2, <3>3 DEF AddEntry, Appears
  <2>3. QED
    BY <1>11, <1>12, <2>1, <2>2 DEF AddEntry
<1>13. ASSUME NEW p \in Path, RemoveFile(m, p) PROVE MachineInv(m)'
  <2>1. /\ disk'[m] \subseteq Path /\ events'[m] \in Seq(Path)
        /\ events'[m] = events[m]
    BY <1>0, <1>13 DEF RemoveFile, FilesTyped
  <2>2. QED
    BY <1>0, <1>11, <1>13, <2>1 DEF RemoveFile, Begins
<1>14. QED
  BY <1>6, <1>7, <1>8, <1>9, <1>10, <1>12, <1>13 DEF Walking

-----------------------------------------------------------------------------
(* The steps of one machine.                                               *)
MachineStep(m) ==
  \/ GoesOn(m) \/ Monitoring(m) \/ Walking(m)
  \/ \E n \in Name : LookUpName(m, n) \/ Authenticate(m, n)
  \/ \E c \in Classes : SeekClass(m, c)
  \/ \E p \in Path : AddEntry(m, p) \/ RemoveFile(m, p) \/ ToggleSync(m, p)
  \/ Stop(m) \/ EditPermissions(m)

LEMMA NextSteps ==
  Next <=> (\E m \in Machine : MachineStep(m)) \/ (Delete /\ UNCHANGED clientVars)
  BY DEF Next, MachineStep

(* ToggleSync and EditPermissions end in Stop.                             *)
LEMMA MachineSteps ==
  ASSUME NEW m \in Machine, MachineStep(m)
  PROVE  \/ \/ \E n \in Name : LookUpName(m, n) \/ Authenticate(m, n)
            \/ StoreUser(m) \/ EnterNew(m) \/ MakePermkey(m) \/ Enter(m) \/ Stop(m)
         \/ \/ \E c \in Classes : SeekClass(m, c)
            \/ MakeClass(m) \/ ClassAppeared(m) \/ GoDown(m) \/ MakeFolder(m)
            \/ FoldersMade(m) \/ AppendClass(m) \/ SaveUser(m)
         \/ Monitoring(m)
         \/ Walking(m) \/ \E p \in Path : AddEntry(m, p) \/ RemoveFile(m, p)
  BY DEF MachineStep, GoesOn, ToggleSync, EditPermissions

(* Only these actions of a client reach the servers' maps.                 *)
LEMMA StoreSteps ==
  ASSUME NEW m \in Machine, MachineStep(m)
  PROVE  \/ UNCHANGED storeVars
         \/ StoreUser(m) \/ SaveUser(m) \/ PushEntry(m) \/ PushParent(m)
<1>1. CASE \/ \E n \in Name : LookUpName(m, n) \/ Authenticate(m, n)
           \/ EnterNew(m) \/ MakePermkey(m) \/ Enter(m) \/ Stop(m)
  BY <1>1 DEF LookUpName, Authenticate, EnterNew, MakePermkey, Enter, Stop
<1>2. CASE \/ \E c \in Classes : SeekClass(m, c)
           \/ MakeClass(m) \/ ClassAppeared(m) \/ GoDown(m) \/ MakeFolder(m)
           \/ FoldersMade(m) \/ AppendClass(m)
  BY <1>2 DEF SeekClass, MakeClass, ClassAppeared, GoDown, MakeFolder, FoldersMade,
              AppendClass
<1>3. CASE \/ TakeEvent(m) \/ LockWd(m) \/ OpenEntry(m) \/ OpenFails(m)
           \/ GetEntry(m) \/ Stuck(m) \/ GetParent(m) \/ FinishEvent(m)
  BY <1>3 DEF TakeEvent, LockWd, OpenEntry, OpenFails, GetEntry, Stuck, GetParent, FinishEvent
<1>4. CASE Walking(m) \/ \E p \in Path : AddEntry(m, p) \/ RemoveFile(m, p)
  BY <1>4 DEF Walking, WalkerUnchanged, Visit, WalkEnds, LookForEntry, MakeDirectory,
              CreateFileFails, AddEntry, RemoveFile, ByUser
<1>5. QED
  BY MachineSteps, <1>1, <1>2, <1>3, <1>4 DEF Monitoring

(* The maps after a put or a deletion.                                     *)
LEMMA PutFileTyped ==
  ASSUME StoreTypeOK, NEW k \in Key, NEW n \in Name, NEW f \in SyncFile,
         PutFile(k, n, f), UNCHANGED <<userMap, deleting, deletes>>
  PROVE  StoreTypeOK'
<1>1. /\ fileMap' = fileMap \/ fileMap' = With(fileMap, k, f)
      /\ deleted' \subseteq deleted
  BY DEF PutFile, StoreIf
<1>2. ASSUME fileMap' = With(fileMap, k, f) PROVE StoreTypeOK'
  <2>1. /\ DOMAIN fileMap' = DOMAIN fileMap \cup {k} /\ fileMap'[k] = f
        /\ \A j \in DOMAIN fileMap \ {k} : fileMap'[j] = fileMap[j]
    BY <1>2 DEF With
  <2>2. QED
    BY <1>1, <2>1 DEF StoreTypeOK
<1>3. QED
  BY <1>1, <1>2 DEF StoreTypeOK

LEMMA PutUserTyped ==
  ASSUME StoreTypeOK, NEW n \in Name, NEW classes \in Seq(Key), PutUser(n, classes),
         UNCHANGED <<fileMap, deleting, deletes, deleted>>
  PROVE  StoreTypeOK'
<1>1. /\ DOMAIN userMap' = DOMAIN userMap \cup {n} /\ userMap'[n] = classes
      /\ \A j \in DOMAIN userMap \ {n} : userMap'[j] = userMap[j]
  BY DEF PutUser, With
<1>2. QED
  BY <1>1 DEF StoreTypeOK

LEMMA DeleteTyped ==
  ASSUME StoreTypeOK, Delete
  PROVE  StoreTypeOK'
<1>1. ASSUME NEW n \in Name, NEW k \in {j \in Key : j.path \in Deletable}, CheckOwner(n, k)
      PROVE  StoreTypeOK'
  <2>1. [by |-> n, key |-> k] \in Deletion
    BY DEF Deletion
  <2>2. deletes' \in 0..MaxDeletes
    BY <1>1, StoreAssumption DEF CheckOwner, StoreTypeOK
  <2>3. QED
    BY <1>1, <2>1, <2>2 DEF CheckOwner, StoreTypeOK
<1>2. ASSUME NEW d \in deleting, DeleteFile(d) PROVE StoreTypeOK'
  <2>1. /\ DOMAIN fileMap' = DOMAIN fileMap \ {d.key}
        /\ \A j \in DOMAIN fileMap \ {d.key} : fileMap'[j] = fileMap[j]
        /\ deleted' \subseteq deleted \cup DOMAIN fileMap
    BY <1>2 DEF DeleteFile, Without
  <2>2. QED
    BY <1>2, <2>1 DEF DeleteFile, StoreTypeOK
<1>3. QED
  BY <1>1, <1>2 DEF Delete

(* A monitor at work has an entry of its user, and its parent's copy.      *)
LEMMA EntryTyped ==
  ASSUME NEW m \in Machine, MachineInv(m), monitor[m].at \in Handling
  PROVE  /\ monitor[m].path \in Path /\ user[m].name \in Name
         /\ KeyOf(m, monitor[m].path) \in Key
         /\ NewFile(m) \in SyncFile
         /\ monitor[m].at = "list" =>
              /\ monitor[m].dir \in Key /\ monitor[m].copy \in SyncFile
              /\ WithEntry(monitor[m].copy, KeyOf(m, monitor[m].path)) \in SyncFile
<1>1. monitor[m].path \in Path /\ user[m].name \in Name
  BY MonitorFacts DEF MachineInv, ThreadsTyped, SomebodyIn, LoggedIn, Session, Handling
<1>2. KeyOf(m, monitor[m].path) \in Key
  BY <1>1 DEF KeyOf, Key
<1>3. NewFile(m) \in SyncFile
  <2>1. << >> \in Seq(Key)
    OBVIOUS
  <2>2. QED
    BY <1>1, <2>1 DEF NewFile, SyncFile
<1>4. ASSUME NEW f \in SyncFile, NEW k \in Key PROVE WithEntry(f, k) \in SyncFile
  <2>1. Append(f.files, k) \in Seq(Key)
    BY DEF SyncFile
  <2>2. QED
    BY <2>1 DEF WithEntry, SyncFile
<1>5. QED
  BY <1>1, <1>2, <1>3, <1>4, MonitorFacts DEF MachineInv, ThreadsTyped

LEMMA StoreStep ==
  ASSUME ClientInv, NEW m \in Machine, MachineStep(m)
  PROVE  StoreTypeOK'
<1>1. StoreTypeOK /\ MachineInv(m)
  BY DEF ClientInv
<1>2. CASE UNCHANGED storeVars
  BY <1>1, <1>2 DEF storeVars, StoreTypeOK
<1>3. CASE StoreUser(m)
  <2>1. cmd[m].name \in Name
    BY <1>1, <1>3, CommandFacts DEF StoreUser, MachineInv, ThreadsTyped
  <2>2. << >> \in Seq(Key)
    OBVIOUS
  <2>3. QED
    BY <1>1, <1>3, <2>1, <2>2, PutUserTyped DEF StoreUser
<1>4. CASE SaveUser(m)
  <2>1. user[m].name \in Name /\ user[m].classes \in Seq(Key)
    BY <1>1, <1>4
       DEF SaveUser, MachineInv, ThreadsTyped, SomebodyIn, LoggedIn, Session
  <2>2. QED
    BY <1>1, <1>4, <2>1, PutUserTyped DEF SaveUser
<1>5. CASE PushEntry(m)
  <2>1. monitor[m].at \in Handling
    BY <1>5 DEF PushEntry, MonitorAt, Handling
  <2>2. QED
    BY <1>1, <1>5, <2>1, EntryTyped, PutFileTyped DEF PushEntry, Push
<1>6. CASE PushParent(m)
  <2>1. monitor[m].at \in Handling /\ monitor[m].at = "list"
    BY <1>6 DEF PushParent, MonitorAt, Handling
  <2>2. QED
    BY <1>1, <1>6, <2>1, EntryTyped, PutFileTyped DEF PushParent, Push
<1>7. QED
  BY StoreSteps, <1>2, <1>3, <1>4, <1>5, <1>6

-----------------------------------------------------------------------------
LEMMA ClientInit == Init => ClientInv
<1> SUFFICES ASSUME Init PROVE ClientInv
  OBVIOUS
<1>1. StoreTypeOK
  BY StoreAssumption DEF Init, StoreInit, StoreTypeOK, Nothing
<1>2. Shape
  BY DEF Init, Shape
<1>3. ASSUME NEW m \in Machine PROVE MachineInv(m)
  <2>1. /\ user[m] = LoggedOut /\ cmd[m] = [at |-> "out"] /\ monitor[m] = [at |-> "off"]
        /\ walker[m] = [at |-> "off"] /\ wd[m] = "free" /\ cwd[m] = Outside
        /\ known[m] = Nothing /\ permkey[m] = Nothing /\ canRecord[m] = FALSE
        /\ disk[m] = {} /\ watched[m] = {} /\ events[m] = << >>
        /\ sessions[m] = 0 /\ edits[m] = 0
    BY DEF Init
  <2>2. LoggedOut \in Session
    <3>1. << >> \in Seq(Key)
      OBVIOUS
    <3>2. QED
      BY <3>1 DEF LoggedOut, Session
  <2>3. /\ cmd[m] \in Command /\ cmd[m].at = "out"
        /\ monitor[m] \in Monitor /\ monitor[m].at = "off" /\ walker[m] \in Walker
    BY <2>1 DEF Command, Monitor, Walker
  <2>4. ThreadsTyped(m)
    BY <2>1, <2>2, <2>3 DEF ThreadsTyped, FoldersLeft
  <2>5. FilesTyped(m)
    <3>1. events[m] \in Seq(Path)
      BY <2>1
    <3>2. KeyMap(Nothing)
      BY DEF KeyMap, Nothing
    <3>3. 0 \in 0..MaxSessions /\ 0 \in 0..MaxEdits
      BY ClientAssumption DEF ClientAssumption
    <3>4. QED
      BY <2>1, <3>1, <3>2, <3>3 DEF FilesTyped
  <2>6. SomebodyIn(m) /\ Begins(m)
    BY <2>1, <2>3 DEF SomebodyIn, Begins, Waits
  <2>7. Holder(m)
    BY <2>1, <2>3 DEF Holder, Handling, Directory, Base, ChangedToHome
  <2>8. QED
    BY <2>4, <2>5, <2>6, <2>7 DEF MachineInv
<1>4. QED
  BY <1>1, <1>2, <1>3 DEF ClientInv

LEMMA ClientStep == ClientInv /\ [Next]_vars => ClientInv'
<1> SUFFICES ASSUME ClientInv, [Next]_vars PROVE ClientInv'
  OBVIOUS
<1>1. ASSUME NEW m \in Machine, MachineStep(m) PROVE ClientInv'
  <2>1. Shape /\ \A j \in Machine : MachineInv(j)
    BY DEF ClientInv
  <2>2. Elsewhere(m)
    BY <1>1, <2>1, MachineSteps, SessionElsewhere, ClassElsewhere, MonitorElsewhere,
       WalkerElsewhere
  <2>3. MachineInv(m)'
    BY <1>1, MachineSteps, SessionStep, ClassStep, MonitorStep, WalkerStep
  <2>4. ASSUME NEW j \in Machine PROVE MachineInv(j)'
    <3>1. CASE j = m
      BY <2>3, <3>1
    <3>2. CASE j # m
      BY <2>1, <2>2, <3>2, NotDisturbed DEF Elsewhere
    <3>3. QED
      BY <3>1, <3>2
  <2>5. StoreTypeOK'
    BY <1>1, StoreStep
  <2>6. QED
    BY <2>2, <2>4, <2>5 DEF ClientInv, Elsewhere
<1>2. ASSUME UNCHANGED clientVars PROVE Shape' /\ \A j \in Machine : MachineInv(j)'
  <2>1. Shape'
    BY <1>2 DEF ClientInv, Shape, clientVars, procVars, lockVars, mapVars, fsVars, bounds
  <2>2. ASSUME NEW j \in Machine PROVE MachineInv(j)'
    <3>1. Local(j)' = Local(j)
      BY <1>2 DEF Local, clientVars, procVars, lockVars, mapVars, fsVars, bounds
    <3>2. QED
      BY <3>1, NotDisturbed DEF ClientInv
  <2>3. QED
    BY <2>1, <2>2
<1>3. CASE Delete /\ UNCHANGED clientVars
  BY <1>2, <1>3, DeleteTyped DEF ClientInv
<1>4. CASE UNCHANGED vars
  <2>1. UNCHANGED clientVars /\ StoreTypeOK'
    BY <1>4 DEF vars, storeVars, ClientInv, StoreTypeOK
  <2>2. QED
    BY <1>2, <2>1 DEF ClientInv
<1>5. QED
  BY NextSteps, <1>1, <1>3, <1>4

LEMMA ClientInvariant == Spec => []ClientInv
  BY ClientInit, ClientStep, PTL DEF Spec

(* Types, of the servers' maps, of what the threads of a client remember,  *)
(* and of its files (user-impl.go).                                        *)
THEOREM TypeCorrect == Spec => []TypeOK
<1>1. ClientInv => TypeOK
  <2> SUFFICES ASSUME ClientInv PROVE TypeOK
    OBVIOUS
  <2>1. Shape /\ StoreTypeOK
    BY DEF ClientInv
  <2>2. \A m \in Machine :
          /\ ThreadsTyped(m) /\ FilesTyped(m) /\ cwd[m] \in Directory \cup {Outside}
          /\ wd[m] \in {"free", "command", "monitor", "leaked"}
    BY DEF ClientInv, MachineInv, Holder
  <2>3. /\ user \in [Machine -> Session] /\ cmd \in [Machine -> Command]
        /\ monitor \in [Machine -> Monitor] /\ walker \in [Machine -> Walker]
    BY <2>1, <2>2 DEF Shape, ThreadsTyped
  <2>4. /\ wd \in [Machine -> {"free", "command", "monitor", "leaked"}]
        /\ cwd \in [Machine -> Directory \cup {Outside}]
    BY <2>1, <2>2 DEF Shape
  <2>5. /\ canRecord \in [Machine -> BOOLEAN] /\ disk \in [Machine -> SUBSET Path]
        /\ watched \in [Machine -> SUBSET Directory]
        /\ events \in [Machine -> Seq(Path)]
        /\ sessions \in [Machine -> 0..MaxSessions]
        /\ edits \in [Machine -> 0..MaxEdits]
    BY <2>1, <2>2 DEF Shape, FilesTyped
  <2>6. \A m \in Machine : \A f \in {known[m], permkey[m]} : KeyMap(f)
    BY <2>2 DEF FilesTyped
  <2>7. QED
    BY <2>1, <2>3, <2>4, <2>5, <2>6 DEF TypeOK, KeyMap
<1>2. QED
  BY <1>1, ClientInvariant, PTL

(* Whoever takes wdChangeMutex finds the process in the whiteboard         *)
(* directory, though every thread changes the working directory under it,  *)
(* or, before the command has changed to it, where the process was started *)
(* (user-impl.go:98-105, 223-231, 277).                                    *)
THEOREM MutexGuardsDirectory == Spec => []WdAtHome
<1>1. ClientInv => WdAtHome
  BY DEF ClientInv, MachineInv, Holder, WdAtHome, Base
<1>2. QED
  BY <1>1, ClientInvariant, PTL

-----------------------------------------------------------------------------
(* What a client knows is on the servers.                                  *)
Kept(k) == k \in DOMAIN fileMap \cup deleted

AfterPush == {"parent", "list", "finish"}

KnowsStored(m) ==
  /\ \A f \in {known[m], permkey[m]} : \A p \in DOMAIN f : Kept(f[p])
  /\ monitor[m].at \in AfterPush => Kept(KeyOf(m, monitor[m].path))

StoredInv == \A m \in Machine : KnowsStored(m)

-----------------------------------------------------------------------------
(* A user who works at one machine, and deletes nothing but files.         *)
OneMachine == \A a, b \in Machine : a = b
OnlyFiles == Deletable \subseteq Document

OnlyDeletable ==
  /\ \A d \in deleting : d.key.path \in Deletable
  /\ \A k \in deleted : k.path \in Deletable

OpensOnce(m) == cmd[m].at = "store" => cmd[m].name \notin DOMAIN userMap

Account(m) ==
  LET name == user[m].name
  IN LoggedIn(m) =>
       /\ name \in DOMAIN userMap
       /\ IF cmd[m].at = "save"
          THEN user[m].classes = Append(userMap[name], KeyOf(m, cmd[m].class))
          ELSE user[m].classes = userMap[name]

Private == \A k \in DOMAIN fileMap : fileMap[k].allowed = {k.owner}

Places(m) == \A f \in {known[m], permkey[m]} : \A p \in DOMAIN f : f[p].path = p

CopyCurrent(m) ==
  /\ monitor[m].at = "push" => KeyOf(m, monitor[m].path) \notin DOMAIN fileMap
  /\ monitor[m].at = "list" =>
       LET dir == monitor[m].dir
       IN /\ dir \in DOMAIN fileMap /\ monitor[m].copy = fileMap[dir]
          /\ dir.owner = user[m].name
          /\ dir.path = Parent(monitor[m].path) /\ dir.path \in Classes

AloneInv ==
  /\ OnlyDeletable /\ Private
  /\ \A m \in Machine : OpensOnce(m) /\ Account(m) /\ Places(m) /\ CopyCurrent(m)

-----------------------------------------------------------------------------
(* What the invariants below read of a machine.                            *)
SameSession(m) == UNCHANGED <<user[m].name, known[m]>>
                  /\ permkey'[m] \in {permkey[m], Nothing}

(* A step of an event in hand, a step that begins or ends a session or an  *)
(* event, or one that does neither.                                        *)
LEMMA StepKinds ==
  ASSUME ClientInv, NEW m \in Machine, MachineStep(m)
  PROVE  \/ GetEntry(m) \/ PushEntry(m) \/ GetParent(m) \/ PushParent(m)
         \/ FinishEvent(m)
         \/ /\ monitor'[m].at \in {"off", "idle", "wait", "open", "get", "stuck"}
            /\ {known'[m], permkey'[m]} \subseteq {known[m], permkey[m], Nothing}
         \/ monitor'[m] = monitor[m] /\ SameSession(m)
<1>0. Shape /\ MachineInv(m)
  BY DEF ClientInv
<1> USE DEF Shape, procVars, lockVars, mapVars, fsVars, bounds
<1>1. ASSUME \/ \E n \in Name : Authenticate(m, n)
             \/ StoreUser(m) \/ Stop(m) \/ TakeEvent(m) \/ LockWd(m)
             \/ OpenEntry(m) \/ OpenFails(m) \/ Stuck(m)
      PROVE  monitor'[m].at \in {"off", "idle", "wait", "open", "get", "stuck"}
  <2>1. CASE (\E n \in Name : Authenticate(m, n)) \/ StoreUser(m) \/ OpenFails(m)
    <3>1. monitor'[m] = [at |-> "idle"]
      BY <1>0, <2>1 DEF Authenticate, StoreUser, Begin, OpenFails, MonitorGoes
    <3>2. QED
      BY <3>1
  <2>2. CASE Stop(m)
    <3>1. monitor'[m] = [at |-> "off"]
      BY <1>0, <2>2 DEF Stop, MonitorGoes
    <3>2. QED
      BY <3>1
  <2>3. CASE TakeEvent(m) \/ LockWd(m) \/ OpenEntry(m) \/ Stuck(m)
    <3>1. PICK stage \in {"wait", "open", "get", "stuck"} :
            \E entry : monitor'[m] = [at |-> stage, path |-> entry]
      <4>1. CASE TakeEvent(m)
        BY <1>0, <4>1 DEF TakeEvent, MonitorGoes
      <4>2. CASE LockWd(m) \/ OpenEntry(m) \/ Stuck(m)
        <5>1. \/ monitor'[m] = [at |-> "open", path |-> monitor[m].path]
              \/ monitor'[m] = [at |-> "get", path |-> monitor[m].path]
              \/ monitor'[m] = [at |-> "stuck", path |-> monitor[m].path]
          BY <1>0, <4>2 DEF LockWd, OpenEntry, Stuck, MonitorGoes, MonitorTo
        <5>2. QED
          BY <5>1
      <4>3. QED
        BY <2>3, <4>1, <4>2
    <3>2. QED
      BY <3>1
  <2>4. QED
    BY <1>1, <2>1, <2>2, <2>3
<1>2. ASSUME \/ \E n \in Name : Authenticate(m, n)
             \/ StoreUser(m) \/ Stop(m) \/ TakeEvent(m) \/ LockWd(m)
             \/ OpenEntry(m) \/ OpenFails(m) \/ Stuck(m)
      PROVE  {known'[m], permkey'[m]} \subseteq {known[m], permkey[m], Nothing}
  BY <1>0, <1>2 DEF Authenticate, StoreUser, Begin, Stop, TakeEvent, LockWd,
     OpenEntry, OpenFails, Stuck, MonitorUnchanged
<1>3. ASSUME \/ \E n \in Name : LookUpName(m, n)
             \/ EnterNew(m) \/ MakePermkey(m) \/ Enter(m)
      PROVE  monitor'[m] = monitor[m] /\ SameSession(m)
  BY <1>0, <1>3 DEF LookUpName, EnterNew, MakePermkey, Enter, SameSession
<1>4. ASSUME \/ \E c \in Classes : SeekClass(m, c)
             \/ MakeClass(m) \/ ClassAppeared(m) \/ GoDown(m) \/ MakeFolder(m)
             \/ FoldersMade(m) \/ SaveUser(m)
      PROVE  monitor'[m] = monitor[m] /\ SameSession(m)
  BY <1>0, <1>4 DEF SeekClass, MakeClass, ClassAppeared, GoDown, MakeFolder,
     FoldersMade, SaveUser, SameSession
<1>5. ASSUME AppendClass(m) PROVE monitor'[m] = monitor[m] /\ SameSession(m)
  <2>1. user'[m] = [user[m] EXCEPT !.classes = Append(@, KeyOf(m, cmd[m].class))]
    BY <1>0, <1>5 DEF AppendClass
  <2>2. user[m] \in Session
    BY <1>0 DEF MachineInv, ThreadsTyped
  <2>3. user'[m].name = user[m].name
    BY <2>1, <2>2 DEF Session
  <2>4. QED
    BY <1>5, <2>3 DEF AppendClass, SameSession
<1>6. ASSUME Walking(m) \/ \E p \in Path : AddEntry(m, p) \/ RemoveFile(m, p)
      PROVE  monitor'[m] = monitor[m] /\ SameSession(m)
  BY <1>0, <1>6 DEF Walking, WalkerUnchanged, Visit, WalkEnds, LookForEntry,
     MakeDirectory, CreateFileFails, AddEntry, RemoveFile, ByUser, SameSession
<1>7. QED
  BY MachineSteps, <1>1, <1>2, <1>3, <1>4, <1>5, <1>6 DEF Monitoring

(* What a client does to the files leaves all the others there.            *)
LEMMA FilesStay ==
  ASSUME ClientInv, NEW m \in Machine, MachineStep(m)
  PROVE  /\ DOMAIN fileMap \subseteq DOMAIN fileMap' /\ deleting' = deleting
         /\ deleted' \subseteq deleted /\ \A k : Kept(k) => Kept(k)'
<1>1. CASE UNCHANGED storeVars
  BY <1>1 DEF storeVars, Kept
<1>2. CASE StoreUser(m) \/ SaveUser(m)
  BY <1>2 DEF StoreUser, SaveUser, Kept
<1>3. CASE PushEntry(m) \/ PushParent(m)
  BY <1>3 DEF PushEntry, PushParent, Push, PutFile, StoreIf, With, Kept
<1>4. QED
  BY StoreSteps, <1>1, <1>2, <1>3

(* A deletion takes what may be deleted.                                   *)
LEMMA Deletes ==
  ASSUME StoreTypeOK, OnlyDeletable, Delete
  PROVE  /\ OnlyDeletable' /\ userMap' = userMap
         /\ \/ fileMap' = fileMap
            \/ \E k \in Key : k.path \in Deletable /\ fileMap' = Without(fileMap, k)
<1>1. ASSUME NEW n \in Name, NEW k \in {j \in Key : j.path \in Deletable}, CheckOwner(n, k)
      PROVE  OnlyDeletable' /\ userMap' = userMap /\ fileMap' = fileMap
  <2>1. [by |-> n, key |-> k].key = k
    OBVIOUS
  <2>2. QED
    BY <1>1, <2>1 DEF CheckOwner, OnlyDeletable
<1>2. ASSUME NEW d \in deleting, DeleteFile(d)
      PROVE  /\ OnlyDeletable' /\ userMap' = userMap
             /\ \E k \in Key : k.path \in Deletable /\ fileMap' = Without(fileMap, k)
  <2>1. d.key \in Key
    BY DEF StoreTypeOK, Deletion
  <2>2. QED
    BY <1>2, <2>1 DEF DeleteFile, OnlyDeletable
<1>3. QED
  BY <1>1, <1>2 DEF Delete

LEMMA KeepsKnowing ==
  ASSUME ClientInv, StoredInv, NEW m \in Machine, MachineStep(m)
  PROVE  KnowsStored(m)'
<1>0. /\ Shape /\ MachineInv(m) /\ KnowsStored(m)
      /\ \A x : x \in DOMAIN fileMap \cup deleted => x \in DOMAIN fileMap' \cup deleted'
      /\ DOMAIN fileMap \subseteq DOMAIN fileMap'
  BY FilesStay DEF ClientInv, StoredInv, Kept
<1> DEFINE Still(x) == x \in DOMAIN fileMap' \cup deleted'
<1>1. PICK k, p : k = KeyOf(m, monitor[m].path) /\ p = monitor[m].path
  OBVIOUS
<1>2. ASSUME \A f \in {known'[m], permkey'[m]} : \A q \in DOMAIN f : Still(f[q]),
             monitor'[m].at \in AfterPush =>
               /\ monitor'[m].path = monitor[m].path /\ user'[m].name = user[m].name
               /\ Still(k)
      PROVE  KnowsStored(m)'
  BY <1>1, <1>2 DEF KnowsStored, Kept, KeyOf
<1>3. ASSUME {known'[m], permkey'[m]} \subseteq {known[m], permkey[m], Nothing}
      PROVE  \A f \in {known'[m], permkey'[m]} : \A q \in DOMAIN f : Still(f[q])
  <2>1. \A q \in DOMAIN Nothing : FALSE
    BY DEF Nothing
  <2>2. QED
    BY <1>0, <1>3, <2>1 DEF KnowsStored, Kept
<1>4. monitor[m].at \in AfterPush => Still(k)
  BY <1>0, <1>1 DEF KnowsStored, Kept
<1> USE DEF Shape, MonitorGoes, MonitorUnchanged, mapVars
<1>5. ASSUME NEW stage, monitor'[m] = [at |-> stage, path |-> monitor[m].path]
      PROVE  monitor'[m].at = stage /\ monitor'[m].path = monitor[m].path
  BY <1>5
<1>6. CASE GetEntry(m)
  <2>1. PICK stage \in {"finish", "push"} :
          /\ monitor'[m] = [at |-> stage, path |-> monitor[m].path]
          /\ stage = "finish" => Has(m, k)
    BY <1>0, <1>1, <1>6 DEF GetEntry, MonitorTo
  <2>2. stage = "finish" => k \in DOMAIN fileMap'
    BY <1>0, <2>1 DEF Has, CanGet
  <2>3. UNCHANGED <<user, known, permkey>>
    BY <1>6 DEF GetEntry
  <2>4. QED
    BY <1>2, <1>3, <1>5, <2>1, <2>2, <2>3 DEF AfterPush
<1>7. CASE PushEntry(m)
  <2>1. user[m].name \in NewFile(m).allowed
    BY DEF NewFile
  <2>2. fileMap' = With(fileMap, k, NewFile(m))
    BY <1>1, <1>7, <2>1 DEF PushEntry, Push, PutFile, StoreIf
  <2>3. k \in DOMAIN fileMap'
    BY <2>2 DEF With
  <2>4. monitor'[m] = [at |-> "parent", path |-> monitor[m].path]
    BY <1>0, <1>7 DEF PushEntry, MonitorTo
  <2>5. UNCHANGED <<user, known, permkey>>
    BY <1>7 DEF PushEntry
  <2>6. QED
    BY <1>2, <1>3, <1>5, <2>3, <2>4, <2>5
<1>8. CASE GetParent(m)
  <2> DEFINE dir == known[m][Parent(monitor[m].path)]
             list == [at |-> "list", path |-> monitor[m].path, dir |-> dir,
                      copy |-> fileMap[dir]]
  <2>1. monitor[m].at \in AfterPush
    BY <1>8 DEF GetParent, MonitorAt, AfterPush
  <2>2. \/ monitor'[m] = [at |-> "finish", path |-> monitor[m].path]
        \/ monitor'[m] = list
    BY <1>0, <1>8 DEF GetParent, MonitorTo
  <2>3. monitor'[m].path = monitor[m].path
    <3>1. list.path = monitor[m].path
      OBVIOUS
    <3>2. QED
      BY <1>5, <2>2, <3>1
  <2>4. UNCHANGED <<user, known, permkey>>
    BY <1>8 DEF GetParent
  <2>5. QED
    BY <1>2, <1>3, <1>4, <2>1, <2>3, <2>4
<1>9. CASE PushParent(m)
  <2>1. monitor[m].at \in AfterPush
    BY <1>9 DEF PushParent, MonitorAt, AfterPush
  <2>2. monitor'[m] = [at |-> "finish", path |-> monitor[m].path]
    BY <1>0, <1>9 DEF PushParent, MonitorTo
  <2>3. UNCHANGED <<user, known, permkey>>
    BY <1>9 DEF PushParent
  <2>4. QED
    BY <1>2, <1>3, <1>4, <1>5, <2>1, <2>2, <2>3
<1>10. CASE FinishEvent(m)
  <2>1. monitor[m].at \in AfterPush
    BY <1>10 DEF FinishEvent, MonitorAt, AfterPush
  <2>2. known'[m] = With(known[m], p, k)
    BY <1>0, <1>1, <1>10 DEF FinishEvent, Recorded
  <2>3. permkey'[m] \in {permkey[m], With(permkey[m], p, k)}
    BY <1>0, <1>1, <1>10 DEF FinishEvent
  <2>4. ASSUME NEW f \in {known[m], permkey[m]}, NEW q \in DOMAIN With(f, p, k)
        PROVE  Still(With(f, p, k)[q])
    <3>1. DOMAIN With(f, p, k) = DOMAIN f \cup {p}
      BY DEF With
    <3>2. CASE q = p
      <4>1. With(f, p, k)[q] = k
        BY <3>2 DEF With
      <4>2. QED
        BY <1>4, <2>1, <4>1 DEF Kept
    <3>3. CASE q # p
      <4>1. With(f, p, k)[q] = f[q] /\ q \in DOMAIN f
        BY <3>1, <3>3 DEF With
      <4>2. QED
        BY <1>0, <4>1 DEF KnowsStored, Kept
    <3>4. QED
      BY <3>2, <3>3
  <2>5. \A q \in DOMAIN permkey[m] : Still(permkey[m][q])
    BY <1>0 DEF KnowsStored, Kept
  <2>6. monitor'[m].at = "idle"
    <3>1. monitor'[m] = [at |-> "idle"]
      BY <1>0, <1>10 DEF FinishEvent
    <3>2. QED
      BY <3>1
  <2>7. \A f \in {known'[m], permkey'[m]} : \A q \in DOMAIN f : Still(f[q])
    BY <2>2, <2>3, <2>4, <2>5
  <2>8. QED
    BY <1>2, <2>6, <2>7 DEF AfterPush
<1>11. CASE /\ monitor'[m].at \in {"off", "idle", "wait", "open", "get", "stuck"}
            /\ {known'[m], permkey'[m]} \subseteq {known[m], permkey[m], Nothing}
  BY <1>2, <1>3, <1>11 DEF AfterPush
<1>12. CASE monitor'[m] = monitor[m] /\ SameSession(m)
  BY <1>2, <1>3, <1>4, <1>12 DEF SameSession
<1>13. QED
  BY StepKinds, <1>6, <1>7, <1>8, <1>9, <1>10, <1>11, <1>12

LEMMA StoredStep == ClientInv /\ StoredInv /\ [Next]_vars => StoredInv'
<1> SUFFICES ASSUME ClientInv, StoredInv, [Next]_vars PROVE StoredInv'
  OBVIOUS
<1>1. ASSUME NEW j \in Machine, Local(j)' = Local(j),
             \A k : Kept(k) => Kept(k)'
      PROVE  KnowsStored(j)'
  <2>1. KnowsStored(j)
    BY DEF StoredInv
  <2>2. UNCHANGED <<user[j], known[j], permkey[j], monitor[j]>>
    BY <1>1 DEF Local
  <2>3. PICK k : k = KeyOf(j, monitor[j].path)
    OBVIOUS
  <2>4. KeyOf(j, monitor[j].path)' = k
    BY <2>2, <2>3 DEF KeyOf
  <2>5. monitor'[j].at \in AfterPush => Kept(k)'
    BY <1>1, <2>1, <2>2, <2>3 DEF KnowsStored
  <2>6. \A f \in {known[j], permkey[j]}' : \A p \in DOMAIN f : Kept(f[p])'
    BY <1>1, <2>1, <2>2 DEF KnowsStored
  <2>7. QED
    BY <2>4, <2>5, <2>6 DEF KnowsStored, Kept
<1>2. ASSUME NEW m \in Machine, MachineStep(m) PROVE StoredInv'
  <2>1. Shape /\ \A k : Kept(k) => Kept(k)'
    BY <1>2, FilesStay DEF ClientInv
  <2>2. Elsewhere(m)
    BY <1>2, <2>1, MachineSteps, SessionElsewhere, ClassElsewhere, MonitorElsewhere,
       WalkerElsewhere
  <2>3. ASSUME NEW j \in Machine PROVE KnowsStored(j)'
    <3>1. CASE j = m
      BY <1>2, <3>1, KeepsKnowing
    <3>2. CASE j # m
      BY <1>1, <2>1, <2>2, <3>2 DEF Elsewhere
    <3>3. QED
      BY <3>1, <3>2
  <2>4. QED
    BY <2>3 DEF StoredInv
<1>3. CASE Delete /\ UNCHANGED clientVars
  <2>1. \A k : Kept(k) => Kept(k)'
    BY <1>3 DEF Delete, CheckOwner, DeleteFile, Kept, Without
  <2>2. \A j \in Machine : Local(j)' = Local(j)
    BY <1>3 DEF Local, clientVars, procVars, lockVars, mapVars, fsVars, bounds
  <2>3. QED
    BY <1>1, <2>1, <2>2 DEF StoredInv
<1>4. CASE UNCHANGED vars
  <2>1. \A k : Kept(k) => Kept(k)'
    BY <1>4 DEF vars, storeVars, Kept
  <2>2. \A j \in Machine : Local(j)' = Local(j)
    BY <1>4 DEF vars, Local, clientVars, procVars, lockVars, mapVars, fsVars, bounds
  <2>3. QED
    BY <1>1, <2>1, <2>2 DEF StoredInv
<1>5. QED
  BY NextSteps, <1>2, <1>3, <1>4

LEMMA StoredInvariant == Spec => []StoredInv
<1>1. Init => StoredInv
  <2> SUFFICES ASSUME Init PROVE StoredInv
    OBVIOUS
  <2>1. ASSUME NEW m \in Machine PROVE KnowsStored(m)
    <3>1. /\ known[m] = Nothing /\ permkey[m] = Nothing
          /\ monitor[m] = [at |-> "off"]
      BY DEF Init
    <3>2. monitor[m].at \notin AfterPush
      BY <3>1 DEF AfterPush
    <3>3. QED
      BY <3>1, <3>2 DEF KnowsStored, Nothing
  <2>2. QED
    BY <2>1 DEF StoredInv
<1>2. QED
  BY <1>1, ClientInvariant, StoredStep, PTL DEF Spec

(* However many machines and sessions there are, and whoever stops in the  *)
(* middle of an event: what is in fileKeyMap is on the servers, unless it  *)
(* was deleted there, since the monitor records an entry after its iPush   *)
(* (user-impl.go:331, 363) and no other Put takes a file away.             *)
THEOREM KnownKeysAreStored == Spec => []KnownIsStored
<1>1. StoredInv => KnownIsStored
  BY DEF StoredInv, KnowsStored, Kept, KnownIsStored
<1>2. QED
  BY <1>1, StoredInvariant, PTL

-----------------------------------------------------------------------------
(* One machine: nobody else comes between what a client reads and what it  *)
(* then stores.                                                            *)

(* What a step does to the command, the session and the accounts.          *)
LEMMA CommandKinds ==
  ASSUME ClientInv, NEW m \in Machine, MachineStep(m)
  PROVE  \/ \E n \in Name : LookUpName(m, n) \/ Authenticate(m, n)
         \/ StoreUser(m) \/ AppendClass(m) \/ SaveUser(m) \/ Stop(m)
         \/ UNCHANGED <<user, userMap, cmd>>
         \/ /\ UNCHANGED <<user, userMap>>
            /\ cmd[m].at # "save" /\ cmd'[m].at \notin {"save", "store"}
<1>0. Shape /\ cmd[m] \in Command
  BY DEF ClientInv, MachineInv, ThreadsTyped
<1> USE DEF Shape, CommandGoes
<1>1. ASSUME \/ EnterNew(m) \/ MakePermkey(m) \/ Enter(m)
             \/ \E c \in Classes : SeekClass(m, c)
             \/ MakeClass(m) \/ ClassAppeared(m) \/ GoDown(m) \/ MakeFolder(m)
             \/ FoldersMade(m)
      PROVE  UNCHANGED <<user, userMap>> /\ cmd[m].at # "save"
  BY <1>0, <1>1 DEF EnterNew, MakePermkey, Enter, SeekClass, MakeClass, ClassAppeared,
     GoDown, MakeFolder, FoldersMade, storeVars
<1>2. ASSUME EnterNew(m) \/ MakePermkey(m) \/ Enter(m) \/ ClassAppeared(m)
      PROVE  cmd'[m].at \notin {"save", "store"}
  <2>1. cmd'[m] = [at |-> "permkey"] \/ cmd'[m] = [at |-> "idle"]
    BY <1>0, <1>2 DEF EnterNew, MakePermkey, Enter, ClassAppeared
  <2>2. QED
    BY <2>1
<1>3. ASSUME NEW c \in Classes, SeekClass(m, c) PROVE cmd'[m].at \notin {"save", "store"}
  <2>1. cmd'[m] = [at |-> "make", class |-> c]
    BY <1>0, <1>3 DEF SeekClass
  <2>2. QED
    BY <2>1
<1>4. ASSUME MakeClass(m) PROVE cmd'[m].at \notin {"save", "store"}
  <2>1. cmd'[m] = [at |-> "down", class |-> cmd[m].class, left |-> Folders]
    BY <1>0, <1>4 DEF MakeClass
  <2>2. QED
    BY <2>1
<1>5. ASSUME GoDown(m) PROVE cmd'[m].at \notin {"save", "store"}
  <2>1. cmd'[m] = [cmd[m] EXCEPT !.at = "mkdir"] /\ cmd[m].at = "down"
    BY <1>0, <1>5 DEF GoDown
  <2>2. QED
    BY <1>0, <2>1, CommandGoesOn
<1>6. ASSUME MakeFolder(m) PROVE cmd'[m].at \notin {"save", "store"}
  <2> DEFINE d == [cmd[m] EXCEPT !.at = "down", !.left = Tail(@)]
             i == [at |-> "idle"]
  <2>1. /\ cmd[m].at = "mkdir" /\ cmd[m].left # << >>
        /\ cmd'[m] = d \/ cmd'[m] = i
    BY <1>0, <1>6 DEF MakeFolder, ClientInv, MachineInv, ThreadsTyped, FoldersLeft
  <2>2. d.at = "down" /\ i.at = "idle"
    BY <1>0, <2>1, CommandGoesOn
  <2> HIDE DEF d, i
  <2>3. QED
    BY <2>1, <2>2
<1>7. ASSUME FoldersMade(m) PROVE cmd'[m].at \notin {"save", "store"}
  <2>1. cmd'[m] = [at |-> "append", class |-> cmd[m].class]
    BY <1>0, <1>7 DEF FoldersMade
  <2>2. QED
    BY <2>1
<1>8. ASSUME Monitoring(m) PROVE UNCHANGED <<user, userMap, cmd>>
  BY <1>8 DEF Monitoring, TakeEvent, LockWd, OpenEntry, OpenFails, GetEntry, Stuck, PushEntry,
     GetParent, PushParent, FinishEvent, MonitorUnchanged, storeVars
<1>9. ASSUME Walking(m) \/ \E p \in Path : AddEntry(m, p) \/ RemoveFile(m, p)
      PROVE  UNCHANGED <<user, userMap, cmd>>
  BY <1>9 DEF Walking, WalkerUnchanged, Visit, WalkEnds, LookForEntry, MakeDirectory,
     CreateFileFails, AddEntry, RemoveFile, ByUser, storeVars, procVars
<1>10. QED
  BY MachineSteps, <1>1, <1>2, <1>3, <1>4, <1>5, <1>6, <1>7, <1>8, <1>9

LEMMA AccountStep ==
  ASSUME ClientInv, NEW m \in Machine, MachineStep(m), OpensOnce(m), Account(m)
  PROVE  OpensOnce(m)' /\ Account(m)'
<1>0. /\ Shape /\ user[m] \in Session /\ cmd[m] \in Command
      /\ cmd[m].at \notin {"out", "store"} => LoggedIn(m)
  BY DEF ClientInv, MachineInv, ThreadsTyped, SomebodyIn
<1> USE DEF Shape, CommandGoes
<1>1. ASSUME NEW n \in Name, LookUpName(m, n) PROVE OpensOnce(m)' /\ Account(m)'
  <2>1. cmd'[m] = [at |-> "store", name |-> n] /\ cmd[m].at = "out"
    BY <1>0, <1>1 DEF LookUpName
  <2>2. cmd'[m].at = "store" /\ cmd'[m].name = n
    BY <2>1
  <2>3. n \notin DOMAIN userMap /\ UNCHANGED <<user, userMap>>
    BY <1>1 DEF LookUpName, storeVars
  <2>4. QED
    BY <2>1, <2>2, <2>3 DEF OpensOnce, Account, LoggedIn
<1>2. ASSUME NEW n, NEW classes, user'[m] = [name |-> n, classes |-> classes],
             n \in DOMAIN userMap', userMap'[n] = classes,
             cmd'[m].at \notin {"save", "store"}
      PROVE  OpensOnce(m)' /\ Account(m)'
  <2>1. user'[m].name = n /\ user'[m].classes = classes
    BY <1>2
  <2>2. QED
    BY <1>2, <2>1 DEF OpensOnce, Account
<1>3. ASSUME NEW n \in Name, Authenticate(m, n) PROVE OpensOnce(m)' /\ Account(m)'
  <2>1. /\ cmd'[m] = [at |-> "enter"] /\ n \in DOMAIN userMap /\ userMap' = userMap
        /\ user'[m] = [name |-> n, classes |-> userMap[n]]
    BY <1>0, <1>3 DEF Authenticate, Begin, storeVars
  <2>2. cmd'[m].at = "enter"
    BY <2>1
  <2>3. QED
    BY <1>2, <2>1, <2>2
<1>4. CASE StoreUser(m)
  <2> DEFINE n == cmd[m].name
  <2>1. /\ cmd'[m] = [at |-> "enterNew"] /\ userMap' = With(userMap, n, << >>)
        /\ user'[m] = [name |-> n, classes |-> << >>]
    BY <1>0, <1>4 DEF StoreUser, Begin, PutUser
  <2>2. n \in DOMAIN userMap' /\ userMap'[n] = << >>
    BY <2>1 DEF With
  <2>3. cmd'[m].at = "enterNew"
    BY <2>1
  <2> HIDE DEF n
  <2>4. QED
    BY <1>2, <2>1, <2>2, <2>3
<1>5. CASE AppendClass(m)
  <2> DEFINE d == [cmd[m] EXCEPT !.at = "save"]
  <2>1. /\ cmd[m].at = "append" /\ cmd'[m] = d
        /\ user'[m] = [user[m] EXCEPT !.classes = Append(@, KeyOf(m, cmd[m].class))]
        /\ userMap' = userMap
    BY <1>0, <1>5 DEF AppendClass, storeVars
  <2>2. cmd'[m].at = "save" /\ cmd'[m].class = cmd[m].class
    <3>1. d.at = "save" /\ d.class = cmd[m].class
      BY <1>0, <2>1, CommandGoesOn
    <3> HIDE DEF d
    <3>2. QED
      BY <2>1, <3>1
  <2>3. /\ user'[m].name = user[m].name
        /\ user'[m].classes = Append(user[m].classes, KeyOf(m, cmd[m].class))
    BY <1>0, <2>1 DEF Session
  <2>4. user[m].name \in DOMAIN userMap /\ user[m].classes = userMap[user[m].name]
    BY <1>0, <2>1 DEF Account
  <2>5. KeyOf(m, cmd[m].class)' = KeyOf(m, cmd[m].class)
    BY <2>2, <2>3 DEF KeyOf
  <2>6. QED
    BY <2>1, <2>2, <2>3, <2>4, <2>5 DEF OpensOnce, Account
<1>6. CASE SaveUser(m)
  <2>1. /\ cmd'[m] = [at |-> "idle"] /\ user' = user
        /\ userMap' = With(userMap, user[m].name, user[m].classes)
    BY <1>0, <1>6 DEF SaveUser, PutUser
  <2>2. /\ user[m].name \in DOMAIN userMap'
        /\ userMap'[user[m].name] = user[m].classes
    BY <2>1 DEF With
  <2>3. cmd'[m].at = "idle"
    BY <2>1
  <2>4. QED
    BY <2>1, <2>2, <2>3 DEF OpensOnce, Account
<1>7. CASE Stop(m)
  <2>1. cmd'[m] = [at |-> "out"] /\ user'[m] = LoggedOut
    BY <1>0, <1>7 DEF Stop
  <2>2. cmd'[m].at = "out" /\ user'[m].name = Nobody
    BY <2>1 DEF LoggedOut
  <2>3. QED
    BY <2>2 DEF OpensOnce, Account, LoggedIn
<1>8. CASE UNCHANGED <<user, userMap, cmd>>
  BY <1>8 DEF OpensOnce, Account, LoggedIn, KeyOf
<1>9. CASE /\ UNCHANGED <<user, userMap>>
           /\ cmd[m].at # "save" /\ cmd'[m].at \notin {"save", "store"}
  BY <1>9 DEF OpensOnce, Account, LoggedIn
<1>10. QED
  BY CommandKinds, <1>1, <1>3, <1>4, <1>5, <1>6, <1>7, <1>8, <1>9

LEMMA PrivateStep ==
  ASSUME ClientInv, NEW m \in Machine, MachineStep(m), Private, CopyCurrent(m)
  PROVE  Private'
<1>1. ASSUME NEW k, NEW f, fileMap' = With(fileMap, k, f), f.allowed = {k.owner}
      PROVE  Private'
  <2>1. /\ DOMAIN fileMap' = DOMAIN fileMap \cup {k} /\ fileMap'[k] = f
        /\ \A j \in DOMAIN fileMap \ {k} : fileMap'[j] = fileMap[j]
    BY <1>1 DEF With
  <2>2. QED
    BY <1>1, <2>1 DEF Private
<1>2. CASE fileMap' = fileMap
  BY <1>2 DEF Private
<1>3. CASE PushEntry(m)
  <2> DEFINE k == KeyOf(m, monitor[m].path)
             f == NewFile(m)
  <2>1. f.allowed = {user[m].name} /\ k.owner = user[m].name
    BY DEF NewFile, KeyOf
  <2> HIDE DEF f, k
  <2>2. fileMap' = With(fileMap, k, f)
    BY <1>3, <2>1 DEF PushEntry, Push, PutFile, StoreIf, f, k
  <2>3. QED
    BY <1>1, <2>1, <2>2
<1>4. CASE PushParent(m)
  <2> DEFINE k == monitor[m].dir
             f == WithEntry(monitor[m].copy, KeyOf(m, monitor[m].path))
  <2>1. monitor[m].at = "list" /\ monitor[m].at \in Handling
    BY <1>4 DEF PushParent, MonitorAt, Handling
  <2>2. monitor[m].copy = fileMap[k] /\ k \in DOMAIN fileMap
    BY <2>1 DEF CopyCurrent
  <2>3. f.allowed = monitor[m].copy.allowed
    <3>1. monitor[m].copy \in SyncFile
      BY <2>1, EntryTyped DEF ClientInv
    <3>2. QED
      BY <3>1 DEF WithEntry, SyncFile
  <2>4. f.allowed = {k.owner}
    BY <2>2, <2>3 DEF Private
  <2> HIDE DEF f, k
  <2>5. fileMap' = With(fileMap, k, f) \/ fileMap' = fileMap
    BY <1>4 DEF PushParent, Push, PutFile, StoreIf, f, k
  <2>6. QED
    BY <1>1, <1>2, <2>4, <2>5
<1>5. QED
  BY StoreSteps, <1>2, <1>3, <1>4 DEF StoreUser, SaveUser, storeVars

LEMMA PlacesStep ==
  ASSUME ClientInv, NEW m \in Machine, MachineStep(m), Places(m)
  PROVE  Places(m)'
<1>0. Shape
  BY DEF ClientInv
<1> USE DEF Shape, mapVars
<1>1. ASSUME {known'[m], permkey'[m]} \subseteq {known[m], permkey[m], Nothing}
      PROVE  Places(m)'
  <2>1. \A p \in DOMAIN Nothing : FALSE
    BY DEF Nothing
  <2>2. QED
    BY <1>1, <2>1 DEF Places
<1>2. CASE GetEntry(m) \/ PushEntry(m) \/ GetParent(m) \/ PushParent(m)
  BY <1>1, <1>2 DEF GetEntry, PushEntry, GetParent, PushParent
<1>3. CASE FinishEvent(m)
  <2>1. PICK k, p : k = KeyOf(m, monitor[m].path) /\ p = monitor[m].path
    OBVIOUS
  <2>2. k.path = p
    BY <2>1 DEF KeyOf
  <2>3. /\ known'[m] = With(known[m], p, k)
        /\ permkey'[m] \in {permkey[m], With(permkey[m], p, k)}
    BY <1>0, <1>3, <2>1 DEF FinishEvent, Recorded
  <2>4. ASSUME NEW f \in {known[m], permkey[m]}, NEW q \in DOMAIN With(f, p, k)
        PROVE  With(f, p, k)[q].path = q
    <3>1. With(f, p, k)[q] = IF q = p THEN k ELSE f[q]
      BY DEF With
    <3>2. q # p => q \in DOMAIN f
      BY DEF With
    <3>3. q # p => f[q].path = q
      BY <3>2 DEF Places
    <3>4. QED
      BY <2>2, <3>1, <3>3
  <2>5. QED
    BY <2>3, <2>4 DEF Places
<1>4. QED
  BY <1>0, StepKinds, <1>1, <1>2, <1>3 DEF SameSession

LEMMA CopyStep ==
  ASSUME ClientInv, NEW m \in Machine, MachineStep(m), Private, Places(m), CopyCurrent(m)
  PROVE  CopyCurrent(m)'
<1>0. Shape
  BY DEF ClientInv
<1>1. PICK k, p : k = KeyOf(m, monitor[m].path) /\ p = monitor[m].path
  OBVIOUS
<1>2. k.owner = user[m].name
  BY <1>1 DEF KeyOf
<1> USE DEF Shape, MonitorGoes, MonitorUnchanged
<1>3. ASSUME NEW stage, stage \notin {"push", "list"}, monitor'[m] = [at |-> stage, path |-> p]
      PROVE  CopyCurrent(m)'
  <2>1. monitor'[m].at = stage
    BY <1>3
  <2>2. QED
    BY <1>3, <2>1 DEF CopyCurrent
<1>4. CASE GetEntry(m)
  <2>1. UNCHANGED <<user, fileMap>>
    BY <1>4 DEF GetEntry, storeVars
  <2>2. CASE Has(m, k) /\ monitor'[m] = [at |-> "finish", path |-> p]
    BY <1>3, <2>2
  <2>3. CASE ~Has(m, k) /\ monitor'[m] = [at |-> "push", path |-> p]
    <3>1. k \notin DOMAIN fileMap
      BY <1>2, <2>3 DEF Has, CanGet, Private
    <3>2. monitor'[m].at = "push" /\ monitor'[m].path = p
      BY <2>3
    <3>3. QED
      BY <1>1, <2>1, <3>1, <3>2 DEF CopyCurrent, KeyOf
  <2>4. QED
    BY <1>0, <1>1, <1>4, <2>2, <2>3 DEF GetEntry, MonitorTo
<1>5. CASE PushEntry(m) \/ PushParent(m)
  <2>1. PICK stage \in {"parent", "finish"} : monitor'[m] = [at |-> stage, path |-> p]
    BY <1>0, <1>1, <1>5 DEF PushEntry, PushParent, MonitorTo
  <2>2. QED
    BY <1>3, <2>1
<1>6. CASE GetParent(m)
  <2>1. PICK dir : dir = known[m][Parent(p)]
    OBVIOUS
  <2>2. UNCHANGED <<user, fileMap>>
    BY <1>6 DEF GetParent, storeVars
  <2>3. CASE monitor'[m] = [at |-> "finish", path |-> p]
    BY <1>3, <2>3
  <2>4. CASE /\ ParentKnown(m, p) /\ Has(m, dir)
             /\ monitor'[m] = [at |-> "list", path |-> p, dir |-> dir,
                               copy |-> fileMap[dir]]
    <3>1. /\ monitor'[m].at = "list" /\ monitor'[m].path = p
          /\ monitor'[m].dir = dir /\ monitor'[m].copy = fileMap[dir]
      BY <2>4
    <3>2. dir.path = Parent(p) /\ Parent(p) \in Classes
      BY <2>1, <2>4 DEF ParentKnown, Places
    <3>3. dir \in DOMAIN fileMap /\ dir.owner = user[m].name
      BY <2>4 DEF Has, CanGet, Private
    <3>4. QED
      BY <2>2, <3>1, <3>2, <3>3 DEF CopyCurrent
  <2>5. QED
    BY <1>0, <1>1, <1>6, <2>1, <2>3, <2>4 DEF GetParent, MonitorTo
<1>7. CASE FinishEvent(m)
  <2>1. monitor'[m] = [at |-> "idle"]
    BY <1>0, <1>7 DEF FinishEvent
  <2>2. monitor'[m].at = "idle"
    BY <2>1
  <2>3. QED
    BY <2>2 DEF CopyCurrent
<1>8. CASE monitor'[m].at \in {"off", "idle", "wait", "open", "get", "stuck"}
  BY <1>8 DEF CopyCurrent
<1>9. CASE monitor'[m] = monitor[m] /\ SameSession(m)
  <2>1. CASE PushEntry(m) \/ PushParent(m)
    BY <1>5, <2>1
  <2>2. CASE fileMap' = fileMap
    BY <1>9, <2>2 DEF CopyCurrent, SameSession, KeyOf
  <2>3. QED
    BY StoreSteps, <2>1, <2>2 DEF StoreUser, SaveUser, storeVars
<1>10. QED
  BY StepKinds, <1>4, <1>5, <1>6, <1>7, <1>8, <1>9

LEMMA AloneStep ==
  ASSUME OneMachine, OnlyFiles, ClientInv, AloneInv, [Next]_vars
  PROVE  AloneInv'
<1>1. CASE UNCHANGED vars
  BY <1>1 DEF AloneInv, OnlyDeletable, Private, OpensOnce, Account, LoggedIn, Places,
     CopyCurrent, KeyOf, vars, storeVars, clientVars, procVars, mapVars
<1>2. ASSUME NEW m \in Machine, MachineStep(m) PROVE AloneInv'
  <2>1. /\ Private /\ OpensOnce(m) /\ Account(m) /\ Places(m) /\ CopyCurrent(m)
        /\ OnlyDeletable /\ \A j \in Machine : j = m
    BY DEF AloneInv, OneMachine
  <2>2. OnlyDeletable'
    BY <1>2, <2>1, FilesStay DEF OnlyDeletable
  <2>3. /\ Private' /\ OpensOnce(m)' /\ Account(m)' /\ Places(m)' /\ CopyCurrent(m)'
    BY <1>2, <2>1, PrivateStep, AccountStep, PlacesStep, CopyStep
  <2>4. QED
    BY <2>1, <2>2, <2>3 DEF AloneInv
<1>3. ASSUME Delete, UNCHANGED clientVars PROVE AloneInv'
  <2>1. /\ OnlyDeletable' /\ userMap' = userMap
        /\ \/ fileMap' = fileMap
           \/ \E k \in Key : k.path \in Deletable /\ fileMap' = Without(fileMap, k)
    BY <1>3, Deletes DEF ClientInv, AloneInv
  <2>2. UNCHANGED <<user, cmd, monitor, known, permkey>>
    BY <1>3 DEF clientVars, procVars, mapVars
  <2>3. Private'
    BY <2>1 DEF AloneInv, Private, Without
  <2>4. ASSUME NEW m \in Machine
        PROVE  OpensOnce(m)' /\ Account(m)' /\ Places(m)' /\ CopyCurrent(m)'
    <3>1. OpensOnce(m)' /\ Account(m)' /\ Places(m)'
      BY <2>1, <2>2 DEF AloneInv, OpensOnce, Account, LoggedIn, KeyOf, Places
    <3>2. CASE fileMap' = fileMap
      BY <2>2, <3>1, <3>2 DEF AloneInv, CopyCurrent, KeyOf
    <3>3. ASSUME NEW k \in Key, k.path \in Deletable, fileMap' = Without(fileMap, k)
          PROVE  CopyCurrent(m)'
      <4>1. k.path \notin Classes
        BY <3>3, ClassFacts DEF OnlyFiles, IsDir
      <4>2. /\ DOMAIN fileMap' = DOMAIN fileMap \ {k}
            /\ \A j \in DOMAIN fileMap \ {k} : fileMap'[j] = fileMap[j]
        BY <3>3 DEF Without
      <4>3. QED
        BY <2>2, <4>1, <4>2 DEF AloneInv, CopyCurrent, KeyOf
    <3>4. QED
      BY <2>1, <3>1, <3>2, <3>3
  <2>5. QED
    BY <2>1, <2>3, <2>4 DEF AloneInv
<1>4. QED
  BY NextSteps, <1>1, <1>2, <1>3

LEMMA AloneInit == Init => AloneInv
<1> SUFFICES ASSUME Init PROVE AloneInv
  OBVIOUS
<1>1. OnlyDeletable /\ Private
  BY DEF Init, StoreInit, Nothing, OnlyDeletable, Private
<1>2. ASSUME NEW m \in Machine
      PROVE  OpensOnce(m) /\ Account(m) /\ Places(m) /\ CopyCurrent(m)
  <2>1. /\ known[m] = Nothing /\ permkey[m] = Nothing /\ user[m] = LoggedOut
        /\ cmd[m] = [at |-> "out"] /\ monitor[m] = [at |-> "off"]
    BY DEF Init
  <2>2. user[m].name = Nobody /\ cmd[m].at = "out" /\ monitor[m].at = "off"
    BY <2>1 DEF LoggedOut
  <2>3. QED
    BY <2>1, <2>2 DEF OpensOnce, Account, LoggedIn, Places, CopyCurrent, Nothing
<1>3. QED
  BY <1>1, <1>2 DEF AloneInv

LEMMA AloneInvariant ==
  ASSUME OneMachine, OnlyFiles
  PROVE  Spec => []AloneInv
<1>1. ClientInv /\ AloneInv /\ [Next]_vars => AloneInv'
  BY AloneStep
<1>2. QED
  BY <1>1, AloneInit, ClientInvariant, PTL DEF Spec

(* Between two commands a client has the classes of the account: nobody    *)
(* else stores the user record, and whatever ends a session in the middle  *)
(* of iMakeClass leaves nothing but the record of the servers behind       *)
(* (user-impl.go:415-424).                                                 *)
THEOREM ClientsKnowTheirClasses ==
  ASSUME OneMachine, OnlyFiles
  PROVE  Spec => []ClassesAgree
<1>1. ClientInv /\ AloneInv => ClassesAgree
  BY DEF ClientInv, MachineInv, SomebodyIn, AloneInv, Account, ClassesAgree
<1>2. QED
  BY <1>1, AloneInvariant, ClientInvariant, PTL

-----------------------------------------------------------------------------
(* The servers, as Repository sees them.                                   *)
Accounts == [n \in DOMAIN userMap |-> Range(userMap[n])]
Listing == [k \in DOMAIN fileMap |-> Range(fileMap[k].files)]

LEMMA RangeAppend ==
  ASSUME NEW S, NEW s \in Seq(S), NEW x
  PROVE  Range(Append(s, x)) = Range(s) \cup {x}
<1>1. DOMAIN Append(s, x) = 1..(Len(s) + 1) /\ DOMAIN s = 1..Len(s)
  OBVIOUS
<1>2. \A i \in 1..Len(s) : Append(s, x)[i] = s[i]
  OBVIOUS
<1>3. Append(s, x)[Len(s) + 1] = x /\ Len(s) \in Nat
  OBVIOUS
<1>4. QED
  BY <1>1, <1>2, <1>3 DEF Range

(* A put at a name or a key is seen as one there.                          *)
LEMMA SeenUser ==
  ASSUME NEW n, NEW classes, userMap' = With(userMap, n, classes)
  PROVE  Accounts' = Users!Extend(Accounts, n, Range(classes))
  BY DEF Accounts, With, Users!Extend

LEMMA SeenFile ==
  ASSUME NEW k, NEW f, fileMap' = With(fileMap, k, f)
  PROVE  Listing' = Users!Extend(Listing, k, Range(f.files))
  BY DEF Listing, With, Users!Extend

LEMMA MachineMaps ==
  ASSUME ClientInv, AloneInv, NEW m \in Machine, MachineStep(m)
  PROVE  Users!RepositoryNext \/ UNCHANGED <<Accounts, Listing>>
<1>0. /\ StoreTypeOK /\ MachineInv(m) /\ OpensOnce(m) /\ Account(m) /\ CopyCurrent(m)
  BY DEF ClientInv, AloneInv
<1>1. CASE UNCHANGED storeVars
  BY <1>1 DEF storeVars, Accounts, Listing
<1>2. CASE StoreUser(m)
  <2>1. cmd[m].name \in Name /\ cmd[m].name \notin DOMAIN userMap
    BY <1>0, <1>2, CommandFacts DEF StoreUser, MachineInv, ThreadsTyped, OpensOnce
  <2>2. Range(<< >>) = {}
    BY DEF Range
  <2>3. Accounts' = Users!Extend(Accounts, cmd[m].name, {}) /\ UNCHANGED Listing
    BY <1>2, <2>2, SeenUser DEF StoreUser, PutUser, Listing
  <2>4. Users!OpenAccount(cmd[m].name)
    BY <2>1, <2>3 DEF Users!OpenAccount, Accounts, Listing
  <2>5. QED
    BY <2>1, <2>4 DEF Users!RepositoryNext
<1>3. CASE SaveUser(m)
  <2>1. PICK n, k : n = user[m].name /\ k = KeyOf(m, cmd[m].class)
    OBVIOUS
  <2>2. /\ n \in Name /\ cmd[m].class \in Classes /\ cmd[m].class \in Path
    BY <1>0, <1>3, <2>1, CommandFacts, ClassFacts
       DEF SaveUser, MachineInv, ThreadsTyped, SomebodyIn, LoggedIn, Session
  <2>3. k \in Key /\ k.owner = n /\ k.path \in Classes
    BY <2>1, <2>2 DEF KeyOf, Key
  <2>4. n \in DOMAIN userMap /\ user[m].classes = Append(userMap[n], k)
    BY <1>0, <1>3, <2>1 DEF SaveUser, Account, SomebodyIn, MachineInv
  <2>5. Range(user[m].classes) = Range(userMap[n]) \cup {k}
    BY <1>0, <2>4, RangeAppend DEF StoreTypeOK
  <2>6. /\ Accounts' = Users!Extend(Accounts, n, Accounts[n] \cup {k})
        /\ UNCHANGED Listing
    <3>1. PICK classes : classes = user[m].classes
      OBVIOUS
    <3>2. userMap' = With(userMap, n, classes) /\ fileMap' = fileMap
      BY <1>3, <2>1, <3>1 DEF SaveUser, PutUser
    <3>3. Accounts' = Users!Extend(Accounts, n, Range(classes))
      BY <3>2, SeenUser
    <3>4. Range(classes) = Accounts[n] \cup {k}
      BY <2>4, <2>5, <3>1 DEF Accounts
    <3>5. QED
      BY <3>2, <3>3, <3>4 DEF Listing
  <2>7. Users!AddClass(n, k)
    BY <2>3, <2>4, <2>6 DEF Users!AddClass, Accounts, Listing
  <2>8. QED
    BY <2>2, <2>3, <2>7 DEF Users!RepositoryNext
<1>4. CASE PushEntry(m)
  <2>1. PICK k, f : k = KeyOf(m, monitor[m].path) /\ f = NewFile(m)
    OBVIOUS
  <2>2. monitor[m].at = "push" /\ monitor[m].at \in Handling
    BY <1>4 DEF PushEntry, MonitorAt, Handling
  <2>3. k \in Key /\ k \notin DOMAIN fileMap /\ k.owner = user[m].name
    BY <1>0, <2>1, <2>2, EntryTyped DEF CopyCurrent, KeyOf
  <2>4. k.owner \in DOMAIN userMap
    BY <1>0, <2>2, <2>3 DEF Account, MachineInv, SomebodyIn, Handling
  <2>5. f.files = << >> /\ user[m].name \in f.allowed
    BY <2>1 DEF NewFile
  <2>6. Range(f.files) = {}
    BY <2>5 DEF Range
  <2>7. fileMap' = With(fileMap, k, f) /\ userMap' = userMap
    BY <1>4, <2>1, <2>5 DEF PushEntry, Push, PutFile, StoreIf
  <2>8. Listing' = Users!Extend(Listing, k, {}) /\ UNCHANGED Accounts
    BY <2>6, <2>7, SeenFile DEF Accounts
  <2>9. Users!AddEntry(k)
    BY <2>3, <2>4, <2>8 DEF Users!AddEntry, Accounts, Listing
  <2>10. QED
    BY <2>3, <2>9 DEF Users!RepositoryNext
<1>5. CASE PushParent(m)
  <2>1. PICK k, d, f : /\ k = KeyOf(m, monitor[m].path) /\ d = monitor[m].dir
                       /\ f = WithEntry(monitor[m].copy, k)
    OBVIOUS
  <2>2. monitor[m].at = "list" /\ monitor[m].at \in Handling
    BY <1>5 DEF PushParent, MonitorAt, Handling
  <2>3. k \in Key /\ d \in Key /\ monitor[m].copy \in SyncFile
    BY <1>0, <2>1, <2>2, EntryTyped
  <2>4. /\ d \in DOMAIN fileMap /\ monitor[m].copy = fileMap[d]
        /\ k.owner = d.owner /\ Parent(k.path) = d.path
    BY <1>0, <2>1, <2>2 DEF CopyCurrent, KeyOf
  <2>5. f.files = Append(fileMap[d].files, k) /\ fileMap[d].files \in Seq(Key)
    BY <2>1, <2>3, <2>4 DEF WithEntry, SyncFile
  <2>6. Range(f.files) = Listing[d] \cup {k}
    BY <2>4, <2>5, RangeAppend DEF Listing
  <2>7. userMap' = userMap /\ (fileMap' = With(fileMap, d, f) \/ fileMap' = fileMap)
    BY <1>5, <2>1 DEF PushParent, Push, PutFile, StoreIf
  <2>8. ASSUME fileMap' = With(fileMap, d, f) PROVE Users!List(d, k)
    <3>1. Listing' = Users!Extend(Listing, d, Listing[d] \cup {k}) /\ UNCHANGED Accounts
      BY <2>6, <2>7, <2>8, SeenFile DEF Accounts
    <3>2. <<k, d>> \in {e \in Key \X Key : IsUnder(e[1], e[2])}
      BY <2>3, <2>4 DEF IsUnder
    <3>3. QED
      BY <2>4, <3>1, <3>2 DEF Users!List, Accounts, Listing
  <2>9. QED
    BY <2>3, <2>7, <2>8 DEF Users!RepositoryNext, Accounts, Listing
<1>6. QED
  BY StoreSteps, <1>1, <1>2, <1>3, <1>4, <1>5

LEMMA StepMaps ==
  ASSUME ClientInv, AloneInv, [Next]_vars
  PROVE  Users!RepositoryNext \/ UNCHANGED <<Accounts, Listing>>
<1>1. CASE UNCHANGED vars
  BY <1>1 DEF vars, storeVars, Accounts, Listing
<1>2. ASSUME Delete, UNCHANGED clientVars
      PROVE  Users!RepositoryNext \/ UNCHANGED <<Accounts, Listing>>
  <2>1. /\ userMap' = userMap
        /\ \/ fileMap' = fileMap
           \/ \E k \in Key : k.path \in Deletable /\ fileMap' = Without(fileMap, k)
    BY <1>2, Deletes DEF ClientInv, AloneInv
  <2>2. ASSUME NEW k \in Key, k.path \in Deletable, fileMap' = Without(fileMap, k)
        PROVE  Users!Delete(k)
    <3>1. Listing' = [j \in DOMAIN Listing \ {k} |-> Listing[j]]
      BY <2>2 DEF Listing, Without
    <3>2. QED
      BY <2>1, <2>2, <3>1 DEF Users!Delete, Listing
  <2>3. QED
    BY <2>1, <2>2 DEF Users!RepositoryNext, Accounts, Listing
<1>3. QED
  BY NextSteps, MachineMaps, <1>1, <1>2

(* One user's work at one machine, with any names, classes and folders,    *)
(* any number of sessions, and stops at any moment: what the servers hold  *)
(* only grows, except for files deleted on purpose.                        *)
THEOREM ImplementsRepository ==
  ASSUME OneMachine, OnlyFiles
  PROVE  Spec => RepositorySpec
<1>1. Init => Users!RepositoryInit
  BY DEF Init, StoreInit, Nothing, Users!RepositoryInit
<1>2. ClientInv /\ AloneInv /\ [Next]_vars
        => [Users!RepositoryNext]_<<Accounts, Listing>>
  BY StepMaps
<1>3. QED
  BY <1>1, <1>2, AloneInvariant, ClientInvariant, PTL
     DEF Spec, RepositorySpec, Users!Spec, Accounts, Listing

-----------------------------------------------------------------------------
(* The first session.  A directory's create event comes before those of    *)
(* what it holds, so that an entry finds its class in fileKeyMap.          *)

Between(m) ==
  /\ cmd[m].at \in {"out", "store"} => ~LoggedIn(m)
  /\ ~LoggedIn(m) =>
       /\ DOMAIN known[m] = {} /\ events[m] = << >> /\ watched[m] = {}
       /\ walker[m].at = "off"
  /\ sessions[m] = 0 =>
       ~LoggedIn(m) /\ DOMAIN userMap = {} /\ DOMAIN fileMap = {}

InHand == Handling \cup {"wait"}

(* The event of class c is handled, in hand, among the next i, or lost.    *)
Announced(m, c, i) ==
  \/ c \in DOMAIN known[m]
  \/ monitor[m].at \in InHand /\ monitor[m].path = c
  \/ \E j \in 1..i : events[m][j] = c
  \/ wd[m] = "leaked"

EventsOrdered(m) ==
  /\ walker[m].at = "off" /\ cmd[m].at # "enter" /\ Home \in watched[m]
  /\ \A c \in Classes \cap watched[m] : Announced(m, c, Len(events[m]))
  /\ \A i \in 1..Len(events[m]) : Parent(events[m][i]) \in Classes =>
       Announced(m, Parent(events[m][i]), i - 1)
  /\ monitor[m].at \in InHand /\ Parent(monitor[m].path) \in Classes =>
       Parent(monitor[m].path) \in DOMAIN known[m] \/ wd[m] = "leaked"

ClassOf(k) == [k EXCEPT !.path = Parent(k.path)]

Listed(m) ==
  /\ \A p \in DOMAIN known[m] : known[m][p].owner = user[m].name
  /\ \A k \in DOMAIN fileMap :
       /\ k.owner = user[m].name
       /\ Parent(k.path) \in Classes =>
            /\ Parent(k.path) \in DOMAIN known[m]
            /\ ClassOf(k) \in DOMAIN fileMap =>
                 \/ k \in Range(fileMap[ClassOf(k)].files)
                 \/ monitor[m].at \in {"parent", "list"} /\ k = KeyOf(m, monitor[m].path)

FirstSession(m) ==
  LoggedIn(m) /\ sessions[m] = 1 => EventsOrdered(m) /\ Listed(m)

FirstInv == \A m \in Machine : Between(m) /\ FirstSession(m)

(* What a running session does besides stopping and monitoring.            *)
Works(m) ==
  \/ EnterNew(m) \/ MakePermkey(m) \/ Enter(m)
  \/ \E c \in Classes : SeekClass(m, c)
  \/ MakeClass(m) \/ ClassAppeared(m) \/ GoDown(m) \/ MakeFolder(m)
  \/ FoldersMade(m) \/ AppendClass(m) \/ SaveUser(m)
  \/ Walking(m) \/ \E p \in Path : AddEntry(m, p) \/ RemoveFile(m, p)

LEMMA SessionCases ==
  ASSUME ClientInv, NEW m \in Machine, MachineStep(m), Between(m)
  PROVE  \/ /\ ~LoggedIn(m)
            /\ (\E n \in Name : LookUpName(m, n) \/ Authenticate(m, n)) \/ StoreUser(m)
         \/ LoggedIn(m) /\ (Stop(m) \/ Monitoring(m) \/ Works(m))
<1>1. /\ SomebodyIn(m) /\ Begins(m) /\ monitor[m] \in Monitor
      /\ LoggedIn(m) => cmd[m].at \notin {"out", "store"}
  BY DEF ClientInv, MachineInv, ThreadsTyped, Between
<1>2. CASE LoggedIn(m)
  <2>1. /\ \A n \in Name : ~LookUpName(m, n) /\ ~Authenticate(m, n)
        /\ ~StoreUser(m)
    BY <1>1, <1>2 DEF LookUpName, Authenticate, StoreUser
  <2>2. QED
    BY <1>2, <2>1, MachineSteps DEF Works
<1>3. CASE ~LoggedIn(m)
  <2>1. cmd[m].at \in {"out", "store"} /\ monitor[m].at = "off" /\ walker[m].at = "off"
    BY <1>1, <1>3 DEF SomebodyIn, Between
  <2>2. ~Walking(m)
    BY <2>1 DEF Walking, Visit, WalkEnds, LookForEntry, MakeDirectory, CreateFileFails
  <2>3. ~Monitoring(m)
    BY <2>1 DEF Monitoring, MonitorAt, TakeEvent, LockWd, OpenEntry, OpenFails, GetEntry, Stuck,
       PushEntry, GetParent, PushParent, FinishEvent
  <2>4. /\ ~Stop(m) /\ \A p \in Path : ~AddEntry(m, p) /\ ~RemoveFile(m, p)
    BY <1>3 DEF Stop, AddEntry, RemoveFile, ByUser
  <2>5. /\ ~EnterNew(m) /\ ~MakePermkey(m) /\ ~Enter(m)
        /\ \A c \in Classes : ~SeekClass(m, c)
    BY <2>1 DEF EnterNew, MakePermkey, Enter, SeekClass
  <2>6. /\ ~MakeClass(m) /\ ~ClassAppeared(m) /\ ~GoDown(m) /\ ~MakeFolder(m)
        /\ ~FoldersMade(m) /\ ~AppendClass(m) /\ ~SaveUser(m)
    BY <2>1 DEF MakeClass, ClassAppeared, GoDown, MakeFolder, FoldersMade, AppendClass,
       SaveUser
  <2>7. QED
    BY <1>3, <2>2, <2>3, <2>4, <2>5, <2>6, MachineSteps
<1>4. QED
  BY <1>2, <1>3

(* A session that goes on is the same user's.                              *)
LEMMA SessionGoesOn ==
  ASSUME ClientInv, NEW m \in Machine, LoggedIn(m), Between(m),
         MachineStep(m), Monitoring(m) \/ Works(m)
  PROVE  /\ user'[m].name = user[m].name /\ sessions'[m] = sessions[m]
         /\ cmd'[m].at \notin {"out", "store"}
         /\ cmd'[m].at = "enter" => cmd[m].at = "enter"
<1>0. /\ Shape /\ user[m] \in Session /\ cmd[m] \in Command
      /\ cmd[m].at \notin {"out", "store"} /\ FoldersLeft(cmd[m])
  BY DEF ClientInv, MachineInv, ThreadsTyped, Between
<1>1. sessions'[m] = sessions[m]
  <2>1. CASE Monitoring(m)
    BY <2>1 DEF Monitoring, TakeEvent, LockWd, OpenEntry, OpenFails, GetEntry, Stuck, PushEntry,
       GetParent, PushParent, FinishEvent, MonitorUnchanged, bounds
  <2>2. CASE Walking(m) \/ \E p \in Path : AddEntry(m, p) \/ RemoveFile(m, p)
    BY <2>2 DEF Walking, WalkerUnchanged, Visit, WalkEnds, LookForEntry, MakeDirectory,
       CreateFileFails, AddEntry, RemoveFile, ByUser, bounds
  <2>3. CASE ~Monitoring(m) /\ ~(Walking(m) \/ \E p \in Path : AddEntry(m, p) \/ RemoveFile(m, p))
    BY <2>3 DEF Works, EnterNew, MakePermkey, Enter, SeekClass, MakeClass, ClassAppeared,
       GoDown, MakeFolder, FoldersMade, AppendClass, SaveUser, bounds
  <2>4. QED
    BY <2>1, <2>2, <2>3
<1>2. /\ user'[m].name = user[m].name /\ cmd'[m].at \notin {"out", "store"}
      /\ cmd'[m].at = "enter" => cmd[m].at = "enter"
  <2>1. CASE AppendClass(m)
    <3> DEFINE d == [cmd[m] EXCEPT !.at = "save"]
    <3>1. /\ user'[m] = [user[m] EXCEPT !.classes = Append(@, KeyOf(m, cmd[m].class))]
          /\ cmd'[m] = d /\ cmd[m].at = "append"
      BY <1>0, <2>1 DEF AppendClass, Shape, CommandGoes
    <3>2. d.at = "save"
      BY <1>0, <3>1, CommandGoesOn
    <3> HIDE DEF d
    <3>3. user'[m].name = user[m].name
      BY <1>0, <3>1 DEF Session
    <3>4. QED
      BY <3>1, <3>2, <3>3
  <2>2. CASE SaveUser(m) \/ EnterNew(m) \/ MakePermkey(m) \/ Enter(m) \/ ClassAppeared(m)
    <3>1. /\ user' = user
          /\ cmd'[m] = [at |-> "idle"] \/ cmd'[m] = [at |-> "permkey"]
      BY <1>0, <2>2 DEF SaveUser, EnterNew, MakePermkey, Enter, ClassAppeared, Shape,
         CommandGoes
    <3>2. QED
      BY <3>1
  <2>3. CASE UNCHANGED <<user, cmd>>
    BY <1>0, <2>3
  <2>4. CASE (\E c \in Classes : SeekClass(m, c)) \/ MakeClass(m) \/ FoldersMade(m)
    <3>1. ASSUME NEW c \in Classes, SeekClass(m, c) PROVE cmd'[m].at = "make"
      <4>1. cmd'[m] = [at |-> "make", class |-> c]
        BY <1>0, <3>1 DEF SeekClass, Shape, CommandGoes
      <4>2. QED
        BY <4>1
    <3>2. ASSUME MakeClass(m) PROVE cmd'[m].at = "down"
      <4>1. cmd'[m] = [at |-> "down", class |-> cmd[m].class, left |-> Folders]
        BY <1>0, <3>2 DEF MakeClass, Shape, CommandGoes
      <4>2. QED
        BY <4>1
    <3>3. ASSUME FoldersMade(m) PROVE cmd'[m].at = "append"
      <4>1. cmd'[m] = [at |-> "append", class |-> cmd[m].class]
        BY <1>0, <3>3 DEF FoldersMade, Shape, CommandGoes
      <4>2. QED
        BY <4>1
    <3>4. user' = user
      BY <2>4 DEF SeekClass, MakeClass, FoldersMade
    <3>5. QED
      BY <2>4, <3>1, <3>2, <3>3, <3>4
  <2>5. CASE GoDown(m)
    <3> DEFINE d == [cmd[m] EXCEPT !.at = "mkdir"]
    <3>1. cmd'[m] = d /\ user' = user /\ cmd[m].at = "down"
      BY <1>0, <2>5 DEF GoDown, Shape, CommandGoes
    <3>2. d.at = "mkdir"
      BY <1>0, <3>1, CommandGoesOn
    <3> HIDE DEF d
    <3>3. QED
      BY <3>1, <3>2
  <2>6. CASE MakeFolder(m)
    <3> DEFINE d == [cmd[m] EXCEPT !.at = "down", !.left = Tail(@)]
               i == [at |-> "idle"]
    <3>1. /\ cmd[m].at = "mkdir" /\ cmd[m].left # << >> /\ user' = user
          /\ cmd'[m] = d \/ cmd'[m] = i
      BY <1>0, <2>6 DEF MakeFolder, FoldersLeft, Shape, CommandGoes
    <3>2. d.at = "down" /\ i.at = "idle"
      BY <1>0, <3>1, CommandGoesOn
    <3> HIDE DEF d, i
    <3>3. QED
      BY <3>1, <3>2
  <2>7. CASE Monitoring(m)
    BY <2>3, <2>7 DEF Monitoring, TakeEvent, LockWd, OpenEntry, OpenFails, GetEntry, Stuck,
       PushEntry, GetParent, PushParent, FinishEvent, MonitorUnchanged
  <2>8. CASE Walking(m) \/ \E p \in Path : AddEntry(m, p) \/ RemoveFile(m, p)
    BY <2>3, <2>8 DEF Walking, WalkerUnchanged, Visit, WalkEnds, LookForEntry,
       MakeDirectory, CreateFileFails, AddEntry, RemoveFile, ByUser, procVars
  <2>9. QED
    BY <2>1, <2>2, <2>4, <2>5, <2>6, <2>7, <2>8 DEF Works
<1>3. QED
  BY <1>1, <1>2

LEMMA BetweenStep ==
  ASSUME ClientInv, NEW m \in Machine, MachineStep(m), Between(m)
  PROVE  Between(m)'
<1>0. /\ Shape /\ Nobody \notin Name /\ sessions[m] \in Nat
      /\ cmd[m].at = "store" => cmd[m].name \in Name
  BY ClientAssumption, CommandFacts
     DEF ClientInv, ClientAssumption, MachineInv, ThreadsTyped, FilesTyped
<1>1. ASSUME NEW n \in Name, LookUpName(m, n), ~LoggedIn(m) PROVE Between(m)'
  BY <1>1 DEF LookUpName, Between, LoggedIn, mapVars, fsVars, bounds, storeVars
<1>2. ASSUME NEW n \in Name, NEW classes, Begin(m, n, classes),
             cmd'[m].at \notin {"out", "store"}
      PROVE  Between(m)'
  <2>1. /\ user'[m] = [name |-> n, classes |-> classes]
        /\ sessions'[m] = sessions[m] + 1
    BY <1>0, <1>2 DEF Begin, Shape
  <2>2. user'[m].name = n
    BY <2>1
  <2>3. QED
    BY <1>0, <1>2, <2>1, <2>2 DEF Between, LoggedIn
<1>3. ASSUME NEW n \in Name, Authenticate(m, n) PROVE Between(m)'
  <2>1. cmd'[m] = [at |-> "enter"]
    BY <1>0, <1>3 DEF Authenticate, Shape, CommandGoes
  <2>2. cmd'[m].at = "enter"
    BY <2>1
  <2>3. QED
    BY <1>2, <1>3, <2>2 DEF Authenticate
<1>4. CASE StoreUser(m)
  <2>1. cmd'[m] = [at |-> "enterNew"]
    BY <1>0, <1>4 DEF StoreUser, Shape, CommandGoes
  <2>2. cmd'[m].at = "enterNew"
    BY <2>1
  <2>3. QED
    BY <1>0, <1>2, <1>4, <2>2 DEF StoreUser
<1>5. CASE LoggedIn(m) /\ Stop(m)
  <2>1. /\ user'[m] = LoggedOut /\ walker'[m] = [at |-> "off"] /\ known'[m] = Nothing
        /\ watched'[m] = {} /\ events'[m] = << >> /\ sessions'[m] = sessions[m]
    BY <1>0, <1>5 DEF Stop, Shape, MonitorGoes, WalkerGoes, bounds
  <2>2. user'[m].name = Nobody /\ walker'[m].at = "off" /\ DOMAIN known'[m] = {}
    BY <2>1 DEF LoggedOut, Nothing
  <2>3. QED
    BY <1>5, <2>1, <2>2 DEF Between, LoggedIn
<1>6. CASE LoggedIn(m) /\ (Monitoring(m) \/ Works(m))
  BY <1>6, SessionGoesOn DEF Between, LoggedIn
<1>7. QED
  BY SessionCases, <1>1, <1>3, <1>4, <1>5, <1>6

(* A step that takes no event, forgets no key and loses no mutex that is   *)
(* not lost already.                                                       *)
Forward(m) ==
  /\ DOMAIN known[m] \subseteq DOMAIN known'[m]
  /\ wd[m] = "leaked" => wd'[m] = "leaked"
  /\ monitor[m].at \in InHand =>
       \/ monitor'[m].at \in InHand /\ monitor'[m].path = monitor[m].path
       \/ monitor[m].path \in DOMAIN known'[m]
       \/ wd'[m] = "leaked"
  /\ monitor'[m].at \in InHand =>
       monitor[m].at \in InHand /\ monitor'[m].path = monitor[m].path

LEMMA ForwardKeeps ==
  ASSUME NEW m \in Machine, EventsOrdered(m), events[m] \in Seq(Path), Forward(m),
         walker'[m].at = "off", cmd'[m].at # "enter", Home \in watched'[m],
         \/ events'[m] = events[m]
         \/ \E p \in Path : /\ events'[m] = Append(events[m], p)
                            /\ Parent(p) \in watched[m],
         \A c \in Classes \cap watched'[m] :
           c \in watched[m] \/ events'[m] = Append(events[m], c)
  PROVE  EventsOrdered(m)'
<1>0. PICK es : es = events'[m]
  OBVIOUS
<1>1. Len(events[m]) \in Nat
  OBVIOUS
<1>2. \A e \in Path : /\ Len(Append(events[m], e)) = Len(events[m]) + 1
                      /\ Append(events[m], e)[Len(events[m]) + 1] = e
                      /\ \A j \in 1..Len(events[m]) :
                           Append(events[m], e)[j] = events[m][j]
  OBVIOUS
<1>3. /\ \A j \in 1..Len(events[m]) : es[j] = events[m][j]
      /\ Len(es) \in Nat /\ Len(es) >= Len(events[m])
  BY <1>0, <1>1, <1>2
<1>4. ASSUME NEW c, NEW i \in 0..Len(events[m]), NEW n \in Nat, n >= i,
             Announced(m, c, i)
      PROVE  Announced(m, c, n)'
  <2>1. CASE \E j \in 1..i : events[m][j] = c
    <3>1. PICK j \in 1..i : events[m][j] = c
      BY <2>1
    <3>2. j \in 1..n /\ es[j] = c
      BY <1>1, <1>3, <1>4, <3>1
    <3>3. QED
      BY <1>0, <3>2 DEF Announced
  <2>2. CASE ~\E j \in 1..i : events[m][j] = c
    BY <1>4, <2>2 DEF Announced, Forward
  <2>3. QED
    BY <2>1, <2>2
<1>5. ASSUME NEW c \in Classes \cap watched'[m]
      PROVE  Announced(m, c, Len(es))'
  <2>1. CASE c \in watched[m]
    <3>1. Announced(m, c, Len(events[m]))
      BY <2>1 DEF EventsOrdered
    <3>2. QED
      BY <1>1, <1>3, <1>4, <3>1
  <2>2. CASE es = Append(events[m], c)
    <3>1. c \in Path
      BY ClassFacts
    <3>2. /\ Len(es) \in 1..Len(es)
          /\ es[Len(es)] = c
      BY <1>1, <1>2, <2>2, <3>1
    <3>3. QED
      BY <1>0, <3>2 DEF Announced
  <2>3. QED
    BY <1>0, <2>1, <2>2
<1>6. ASSUME NEW i \in 1..Len(es), NEW d \in Classes, d = Parent(es[i])
      PROVE  Announced(m, d, i - 1)'
  <2>1. CASE i \in 1..Len(events[m])
    <3>1. Announced(m, d, i - 1)
      BY <1>3, <1>6, <2>1 DEF EventsOrdered
    <3>2. QED
      BY <1>1, <1>3, <1>4, <2>1, <3>1
  <2>2. CASE i \notin 1..Len(events[m])
    <3>1. PICK p \in Path : /\ es = Append(events[m], p)
                            /\ Parent(p) \in watched[m]
      BY <1>0, <2>2
    <3>2. i = Len(events[m]) + 1 /\ es[i] = p
      BY <1>1, <1>2, <2>2, <3>1
    <3>3. Announced(m, d, Len(events[m]))
      BY <1>6, <3>1, <3>2 DEF EventsOrdered
    <3>4. i - 1 \in Nat /\ i - 1 >= Len(events[m])
      BY <1>1, <3>2
    <3>5. QED
      BY <1>1, <1>4, <3>3, <3>4
  <2>3. QED
    BY <2>1, <2>2
<1>7. monitor'[m].at \in InHand /\ Parent(monitor'[m].path) \in Classes
        => Parent(monitor'[m].path) \in DOMAIN known'[m] \/ wd'[m] = "leaked"
  BY DEF EventsOrdered, Forward
<1>8. QED
  BY <1>0, <1>5, <1>6, <1>7 DEF EventsOrdered

LEMMA TakeKeeps ==
  ASSUME ClientInv, NEW m \in Machine, EventsOrdered(m), TakeEvent(m)
  PROVE  EventsOrdered(m)'
<1>0. /\ Shape /\ events[m] \in Seq(Path) /\ events[m] # << >>
      /\ monitor[m].at = "idle"
  BY DEF ClientInv, MachineInv, FilesTyped, TakeEvent, MonitorAt
<1>1. PICK p, es : p = Head(events[m]) /\ es = Tail(events[m])
  OBVIOUS
<1>2. /\ p = events[m][1] /\ Len(events[m]) \in Nat \ {0}
      /\ Len(es) = Len(events[m]) - 1
      /\ \A j \in 1..Len(es) : es[j] = events[m][j + 1]
  BY <1>0, <1>1
<1>3. /\ events'[m] = es /\ monitor'[m] = [at |-> "wait", path |-> p]
      /\ UNCHANGED <<known, watched, walker, cmd, wd>>
  BY <1>0, <1>1
     DEF TakeEvent, Shape, MonitorGoes, mapVars, lockVars
<1>4. monitor'[m].at = "wait" /\ monitor'[m].path = p
  BY <1>3
<1>5. ASSUME NEW c, NEW i \in 1..Len(events[m]), NEW n \in Nat, n = i - 1,
             Announced(m, c, i)
      PROVE  Announced(m, c, n)'
  <2>1. \/ c \in DOMAIN known[m] \/ wd[m] = "leaked"
        \/ \E j \in 1..i : events[m][j] = c
    BY <1>0, <1>5 DEF Announced, InHand, Handling
  <2>2. CASE c \in DOMAIN known[m] \/ wd[m] = "leaked"
    BY <1>3, <2>2 DEF Announced
  <2>3. CASE \E j \in 1..i : events[m][j] = c
    <3>1. PICK j \in 1..i : events[m][j] = c
      BY <2>3
    <3>2. CASE j = 1
      BY <1>2, <1>4, <3>1, <3>2 DEF Announced, InHand
    <3>3. CASE j # 1
      <4>1. j - 1 \in 1..n /\ j - 1 \in 1..Len(es)
        BY <1>2, <1>5, <3>3
      <4>2. es[j - 1] = c
        <5>1. (j - 1) + 1 = j
          OBVIOUS
        <5>2. QED
          BY <1>2, <3>1, <4>1, <5>1
      <4>3. QED
        BY <1>3, <4>1, <4>2 DEF Announced
    <3>4. QED
      BY <3>2, <3>3
  <2>4. QED
    BY <2>1, <2>2, <2>3
<1>6. ASSUME NEW c \in Classes \cap watched'[m]
      PROVE  Announced(m, c, Len(es))'
  <2>1. Announced(m, c, Len(events[m]))
    BY <1>3 DEF EventsOrdered
  <2>2. Len(events[m]) \in 1..Len(events[m]) /\ Len(es) \in Nat
    BY <1>2
  <2>3. QED
    BY <1>2, <1>5, <2>1, <2>2
<1>7. ASSUME NEW i \in 1..Len(es), NEW d \in Classes, d = Parent(es[i])
      PROVE  Announced(m, d, i - 1)'
  <2>1. i + 1 \in 1..Len(events[m]) /\ d = Parent(events[m][i + 1])
    BY <1>2, <1>7
  <2>2. Announced(m, d, (i + 1) - 1)
    BY <2>1 DEF EventsOrdered
  <2>3. (i + 1) - 1 = i /\ i \in 1..Len(events[m]) /\ i - 1 \in Nat
    BY <1>2
  <2>4. QED
    BY <1>5, <2>2, <2>3
<1>8. Parent(p) \in Classes => Parent(p) \in DOMAIN known'[m] \/ wd'[m] = "leaked"
  <2>1. ASSUME Parent(p) \in Classes PROVE Announced(m, Parent(p), 1 - 1)
    BY <1>2, <2>1 DEF EventsOrdered
  <2>2. QED
    BY <1>0, <1>3, <2>1 DEF Announced, InHand, Handling
<1>9. QED
  BY <1>3, <1>4, <1>6, <1>7, <1>8 DEF EventsOrdered

LEMMA EventsStep ==
  ASSUME ClientInv, NEW m \in Machine, MachineStep(m), Monitoring(m) \/ Works(m),
         LoggedIn(m), Between(m), EventsOrdered(m)
  PROVE  EventsOrdered(m)'
<1>0. /\ Shape /\ Holder(m) /\ MachineInv(m) /\ events[m] \in Seq(Path)
      /\ FilesTyped(m) /\ walker[m].at = "off" /\ cmd[m].at # "enter"
      /\ Home \in watched[m] /\ cmd'[m].at # "enter"
  BY SessionGoesOn DEF ClientInv, MachineInv, FilesTyped, EventsOrdered
<1> USE DEF Shape
<1>1. CASE TakeEvent(m)
  BY <1>1, TakeKeeps
<1>2. ASSUME Forward(m), UNCHANGED <<walker, watched, events>>
      PROVE  EventsOrdered(m)'
  BY <1>0, <1>2, ForwardKeeps
<1>3. ASSUME NEW stage \in InHand, monitor[m].at \in InHand,
             monitor'[m] = [at |-> stage, path |-> monitor[m].path],
             UNCHANGED known, wd[m] = "leaked" => wd'[m] = "leaked"
      PROVE  Forward(m)
  <2>1. monitor'[m].at = stage /\ monitor'[m].path = monitor[m].path
    BY <1>3
  <2>2. QED
    BY <1>3, <2>1 DEF Forward
<1>4. CASE OpenEntry(m) \/ GetEntry(m) \/ Stuck(m) \/ PushEntry(m) \/ PushParent(m)
  <2>1. PICK stage \in Handling :
          monitor'[m] = [at |-> stage, path |-> monitor[m].path]
    BY <1>0, <1>4 DEF OpenEntry, GetEntry, Stuck, PushEntry, PushParent, MonitorGoes,
       MonitorTo, Handling
  <2>2. monitor[m].at \in InHand /\ stage \in InHand
    BY <1>4 DEF OpenEntry, GetEntry, Stuck, PushEntry, PushParent, MonitorAt, InHand,
       Handling
  <2>3. UNCHANGED <<wd, known, walker, watched, events>>
    BY <1>4 DEF OpenEntry, GetEntry, Stuck, PushEntry, PushParent, MonitorUnchanged,
       lockVars, mapVars
  <2>4. QED
    BY <1>2, <1>3, <2>1, <2>2, <2>3
<1>5. CASE GetParent(m)
  <2>1. UNCHANGED <<wd, known, walker, watched, events>>
    BY <1>5 DEF GetParent, MonitorUnchanged, lockVars, mapVars
  <2>2. monitor[m].at \in InHand
    BY <1>5 DEF GetParent, MonitorAt, InHand, Handling
  <2>3. PICK p, dir : p = monitor[m].path /\ dir = known[m][Parent(p)]
    OBVIOUS
  <2>4. CASE monitor'[m] = [at |-> "finish", path |-> p]
    BY <1>2, <1>3, <2>1, <2>2, <2>3, <2>4 DEF InHand, Handling
  <2>5. CASE monitor'[m] = [at |-> "list", path |-> p, dir |-> dir, copy |-> fileMap[dir]]
    <3>1. monitor'[m].at = "list" /\ monitor'[m].path = p
      BY <2>5
    <3>2. Forward(m)
      BY <2>1, <2>2, <2>3, <3>1 DEF Forward, InHand, Handling
    <3>3. QED
      BY <1>2, <2>1, <3>2
  <2>6. QED
    BY <1>0, <1>5, <2>3, <2>4, <2>5 DEF GetParent, MonitorGoes, MonitorTo
<1>6. ASSUME monitor'[m] = [at |-> "idle"] PROVE monitor'[m].at \notin InHand
  <2>1. monitor'[m].at = "idle"
    BY <1>6
  <2>2. QED
    BY <2>1 DEF InHand, Handling
<1>7. CASE OpenFails(m)
  <2>1. /\ monitor'[m] = [at |-> "idle"] /\ wd'[m] = "leaked"
        /\ UNCHANGED <<known, walker, watched, events>>
    BY <1>0, <1>7 DEF OpenFails, MonitorGoes, Leak, MonitorUnchanged, mapVars
  <2>2. QED
    BY <1>2, <1>6, <2>1 DEF Forward
<1>8. CASE FinishEvent(m)
  <2>1. /\ monitor'[m] = [at |-> "idle"] /\ UNCHANGED <<walker, watched, events>>
        /\ known'[m] = With(known[m], monitor[m].path, KeyOf(m, monitor[m].path))
    BY <1>0, <1>8 DEF FinishEvent, MonitorGoes, MonitorUnchanged, Recorded
  <2>2. DOMAIN known'[m] = DOMAIN known[m] \cup {monitor[m].path}
    BY <2>1 DEF With
  <2>3. wd[m] # "leaked"
    BY <1>0, <1>8 DEF FinishEvent, MonitorAt, Holder, Handling
  <2>4. QED
    BY <1>2, <1>6, <2>1, <2>2, <2>3 DEF Forward
<1>9. ASSUME UNCHANGED <<monitor, walker, known>>, wd[m] = "leaked" => wd'[m] = "leaked"
      PROVE  Forward(m)
  BY <1>9 DEF Forward
<1>10. CASE \/ EnterNew(m) \/ MakePermkey(m) \/ ClassAppeared(m) \/ GoDown(m)
            \/ FoldersMade(m) \/ AppendClass(m) \/ SaveUser(m)
            \/ \E c \in Classes : SeekClass(m, c)
            \/ \E p \in Path : RemoveFile(m, p)
  <2>1. UNCHANGED <<monitor, walker, known, watched, events>>
    BY <1>10 DEF EnterNew, MakePermkey, ClassAppeared, GoDown, FoldersMade, AppendClass,
       SaveUser, SeekClass, RemoveFile, ByUser, procVars, mapVars, fsVars
  <2>2. wd[m] = "leaked" => wd'[m] = "leaked"
    BY <1>0, <1>10 DEF EnterNew, MakePermkey, ClassAppeared, GoDown, FoldersMade,
       AppendClass, SaveUser, SeekClass, RemoveFile, ByUser, lockVars, Leak, Holder
  <2>3. QED
    BY <1>2, <1>9, <2>1, <2>2
<1>11. ASSUME NEW p \in Path, AddEntry(m, p) PROVE EventsOrdered(m)'
  <2>1. /\ UNCHANGED <<monitor, walker, known, watched, wd>>
        /\ events'[m] = IF Parent(p) \in watched[m] THEN Append(events[m], p) ELSE events[m]
    BY <1>0, <1>11 DEF AddEntry, ByUser, Appears, procVars, mapVars, lockVars
  <2>2. Forward(m)
    BY <1>9, <2>1
  <2>3. QED
    BY <1>0, <2>1, <2>2, ForwardKeeps
<1>12. CASE MakeClass(m)
  <2>1. PICK c \in Classes : c = cmd[m].class
    BY <1>12, CommandFacts DEF MakeClass, ClientInv, MachineInv, ThreadsTyped
  <2>2. cwd[m] = Home /\ wd[m] = "free"
    BY <1>0, <1>12 DEF MakeClass, Lock, Holder, Base, ChangedToHome
  <2>3. At(m, c) = c /\ Parent(c) = Home /\ c \in Path
    BY <2>2, ClassFacts, PathFacts DEF At, Parent
  <2>4. /\ events'[m] = Append(events[m], c) /\ watched'[m] = watched[m] \cup {c}
        /\ UNCHANGED <<monitor, walker, known>>
    BY <1>0, <1>12, <2>1, <2>3 DEF MakeClass, Appears, Watch, mapVars
  <2>5. Forward(m)
    BY <1>9, <2>2, <2>4
  <2>6. QED
    BY <1>0, <2>3, <2>4, <2>5, ForwardKeeps
<1>13. CASE MakeFolder(m)
  <2>1. PICK p : p = Append(cwd[m], Head(cmd[m].left))
    OBVIOUS
  <2>2. p \in Path /\ p \notin Classes
    <3>1. PICK c, left : c = cmd[m].class /\ left = cmd[m].left
      OBVIOUS
    <3>2. /\ c \in Classes /\ left \in Seq(STRING) /\ left # << >> /\ cwd[m] = c
          /\ \A i \in DOMAIN left : left[i] \in Range(Folders)
      BY <1>0, <1>13, <3>1, CommandFacts
         DEF MakeFolder, MachineInv, ThreadsTyped, FoldersLeft, Holder
    <3>3. 1 \in DOMAIN left /\ Head(left) = left[1] /\ Head(left) \in STRING
      BY <3>2
    <3>4. p = Append(c, Head(left)) /\ Head(left) \in Range(Folders)
      BY <2>1, <3>1, <3>2, <3>3
    <3>5. p \in Path
      BY <3>2, <3>4, ClassFacts
    <3>6. c \in Seq(STRING) /\ Len(c) = 1
      BY <3>2, StoreAssumption DEF Classes
    <3>7. Len(p) = 2
      <4>1. PICK x \in STRING : x = Head(left)
        BY <3>3
      <4>2. Len(Append(c, x)) = Len(c) + 1
        BY <3>6, AppendProperties
      <4>3. QED
        BY <3>4, <3>6, <4>1, <4>2
    <3>8. QED
      BY <3>5, <3>7 DEF Classes
  <2>3. /\ UNCHANGED <<monitor, walker, known>> /\ watched'[m] = watched[m] \cup {p}
        /\ wd'[m] = wd[m] \/ wd'[m] = "leaked"
        /\ \/ events'[m] = events[m]
           \/ Parent(p) \in watched[m] /\ events'[m] = Append(events[m], p)
    BY <1>0, <1>13, <2>1 DEF MakeFolder, Appears, Watch, Leak, mapVars
  <2>4. Forward(m)
    BY <1>9, <2>3
  <2>5. QED
    BY <1>0, <2>2, <2>3, <2>4, ForwardKeeps
<1>14. CASE Walking(m) \/ Enter(m)
  BY <1>0, <1>14 DEF Walking, Visit, WalkEnds, LookForEntry, MakeDirectory,
     CreateFileFails, Enter
<1>15. CASE LockWd(m)
  <2>1. /\ monitor'[m] = [at |-> "open", path |-> monitor[m].path]
        /\ wd[m] = "free" /\ monitor[m].at = "wait"
        /\ UNCHANGED <<known, walker, watched, events>>
    BY <1>0, <1>15 DEF LockWd, Lock, MonitorAt, MonitorTo, MonitorGoes, MonitorUnchanged,
       mapVars
  <2>2. monitor[m].at \in InHand /\ "open" \in InHand
    BY <2>1 DEF InHand, Handling
  <2>3. QED
    BY <1>2, <1>3, <2>1, <2>2
<1>16. QED
  BY <1>1, <1>4, <1>5, <1>7, <1>8, <1>10, <1>11, <1>12, <1>13, <1>14, <1>15
     DEF Monitoring, Works

(* A class that is known is on the servers, under the name of the user.    *)
LEMMA KnownClass ==
  ASSUME OnlyFiles, ClientInv, AloneInv, StoredInv, NEW m \in Machine, Listed(m),
         NEW c \in Classes, c \in DOMAIN known[m]
  PROVE  /\ known[m][c] = KeyOf(m, c) /\ KeyOf(m, c) \in DOMAIN fileMap
         /\ Has(m, KeyOf(m, c))
<1>1. /\ known[m][c] \in Key /\ known[m][c].path = c
      /\ known[m][c].owner = user[m].name
  BY DEF ClientInv, MachineInv, FilesTyped, KeyMap, AloneInv, Places, Listed
<1>2. known[m][c] = KeyOf(m, c)
  BY <1>1 DEF Key, KeyOf
<1>3. c \notin Deletable
  BY ClassFacts DEF OnlyFiles, IsDir
<1>4. known[m][c] \in DOMAIN fileMap
  BY <1>1, <1>3 DEF StoredInv, KnowsStored, Kept, AloneInv, OnlyDeletable
<1>5. user[m].name \in fileMap[known[m][c]].allowed
  BY <1>1, <1>4 DEF AloneInv, Private
<1>6. QED
  BY <1>2, <1>4, <1>5 DEF Has, CanGet

(* The class of an entry that is on the servers.                           *)
LEMMA EntrysClass ==
  ASSUME ClientInv, NEW m \in Machine, Listed(m), NEW k \in DOMAIN fileMap
  PROVE  ClassOf(k) = KeyOf(m, Parent(k.path))
<1>1. k \in Key /\ k.owner = user[m].name
  BY DEF ClientInv, StoreTypeOK, Listed
<1>2. QED
  BY <1>1 DEF ClassOf, KeyOf, Key

LEMMA WorksElsewhere ==
  ASSUME NEW m \in Machine, Works(m)
  PROVE  UNCHANGED <<fileMap, monitor, known>>
<1>1. CASE \/ EnterNew(m) \/ MakePermkey(m) \/ Enter(m)
           \/ \E c \in Classes : SeekClass(m, c)
  BY <1>1 DEF EnterNew, MakePermkey, Enter, SeekClass, storeVars, mapVars
<1>2. CASE \/ MakeClass(m) \/ ClassAppeared(m) \/ GoDown(m) \/ MakeFolder(m)
           \/ FoldersMade(m) \/ AppendClass(m) \/ SaveUser(m)
  BY <1>2 DEF MakeClass, ClassAppeared, GoDown, MakeFolder, FoldersMade, AppendClass,
     SaveUser, storeVars, mapVars
<1>3. CASE Walking(m)
  BY <1>3 DEF Walking, WalkerUnchanged, Visit, WalkEnds, LookForEntry, MakeDirectory,
     CreateFileFails, storeVars, mapVars
<1>4. CASE \E p \in Path : AddEntry(m, p) \/ RemoveFile(m, p)
  BY <1>4 DEF AddEntry, RemoveFile, ByUser, storeVars, mapVars, procVars
<1>5. QED
  BY <1>1, <1>2, <1>3, <1>4 DEF Works

LEMMA ListedStep ==
  ASSUME OnlyFiles, ClientInv, AloneInv, StoredInv, NEW m \in Machine, LoggedIn(m),
         Between(m), MachineStep(m), Monitoring(m) \/ Works(m),
         EventsOrdered(m), Listed(m)
  PROVE  Listed(m)'
<1>0. /\ Shape /\ user'[m].name = user[m].name /\ CopyCurrent(m)
      /\ StoreTypeOK /\ MachineInv(m)
  BY SessionGoesOn DEF ClientInv, AloneInv
<1> USE DEF Shape
<1>1. PICK p, k : p = monitor[m].path /\ k = KeyOf(m, p)
  OBVIOUS
<1>2. /\ k.owner = user[m].name /\ k.path = p
      /\ monitor[m].at \in Handling => k \in Key
      /\ ClassOf(k) = KeyOf(m, Parent(p))
  <2>1. monitor[m].at \in Handling => k \in Key
    BY <1>0, <1>1, EntryTyped
  <2>2. k = [owner |-> user[m].name, path |-> p]
    BY <1>1 DEF KeyOf
  <2>3. ClassOf(k) = [owner |-> user[m].name, path |-> Parent(p)]
    BY <2>2 DEF ClassOf
  <2>4. QED
    BY <2>1, <2>2, <2>3 DEF KeyOf
<1>3. ASSUME fileMap' = fileMap, known' = known,
             monitor[m].at \in {"parent", "list"} =>
               \/ monitor'[m].at \in {"parent", "list"} /\ monitor'[m].path = p
               \/ Parent(p) \notin Classes
      PROVE  Listed(m)'
  <2>1. ASSUME NEW j \in DOMAIN fileMap, Parent(j.path) \in Classes,
               j = k, monitor[m].at \in {"parent", "list"}
        PROVE  monitor'[m].at \in {"parent", "list"} /\ j = KeyOf(m, monitor[m].path)'
    BY <1>0, <1>1, <1>2, <1>3, <2>1 DEF KeyOf
  <2>2. QED
    BY <1>0, <1>1, <1>3, <2>1 DEF Listed, ClassOf
<1>4. CASE Works(m)
  BY <1>1, <1>3, <1>4, WorksElsewhere
<1>5. CASE \/ TakeEvent(m) \/ LockWd(m) \/ OpenEntry(m) \/ OpenFails(m)
           \/ GetEntry(m) \/ Stuck(m)
  BY <1>3, <1>5 DEF TakeEvent, LockWd, OpenEntry, OpenFails, GetEntry, Stuck, MonitorAt,
     storeVars, mapVars
<1>6. CASE GetParent(m)
  <2>1. /\ fileMap' = fileMap /\ known' = known /\ monitor[m].at \in InHand
        /\ wd[m] = "monitor"
    BY <1>0, <1>6 DEF GetParent, storeVars, mapVars, MonitorAt, InHand, Handling,
       MachineInv, Holder
  <2>2. Parent(p) \in Classes => ParentKnown(m, p) /\ Has(m, known[m][Parent(p)])
    BY <1>1, <2>1, KnownClass DEF EventsOrdered, ParentKnown
  <2>3. ASSUME NEW dir, NEW copy,
               monitor'[m] = [at |-> "list", path |-> p, dir |-> dir, copy |-> copy]
        PROVE  monitor'[m].at \in {"parent", "list"} /\ monitor'[m].path = p
    BY <2>3
  <2>4. CASE Parent(p) \in Classes
    <3>1. PICK dir : dir = known[m][Parent(p)]
      OBVIOUS
    <3>2. monitor'[m] = [at |-> "list", path |-> p, dir |-> dir, copy |-> fileMap[dir]]
      BY <1>0, <1>1, <1>6, <2>2, <2>4, <3>1 DEF GetParent, MonitorGoes
    <3>3. QED
      BY <1>3, <2>1, <2>3, <3>2
  <2>5. QED
    BY <1>3, <2>1, <2>4
<1>7. CASE FinishEvent(m)
  <2>1. /\ fileMap' = fileMap /\ known'[m] = With(known[m], p, k)
        /\ monitor[m].at = "finish"
    BY <1>0, <1>1, <1>7 DEF FinishEvent, storeVars, MonitorAt, Recorded
  <2>2. /\ DOMAIN known'[m] = DOMAIN known[m] \cup {p}
        /\ \A q \in DOMAIN known'[m] : known'[m][q].owner = user[m].name
    BY <1>2, <2>1 DEF With, Listed
  <2>3. QED
    BY <1>0, <2>1, <2>2 DEF Listed, ClassOf
<1>8. CASE PushEntry(m)
  <2>1. PICK f : f = NewFile(m)
    OBVIOUS
  <2>2. fileMap' = With(fileMap, k, f) /\ known' = known
    BY <1>1, <1>8, <2>1 DEF PushEntry, Push, PutFile, StoreIf, NewFile, mapVars
  <2>3. monitor[m].at = "push" /\ monitor[m].at \in Handling /\ k \notin DOMAIN fileMap
    BY <1>0, <1>1, <1>8 DEF PushEntry, MonitorAt, Handling, CopyCurrent
  <2>4. /\ DOMAIN fileMap' = DOMAIN fileMap \cup {k}
        /\ \A j \in DOMAIN fileMap : fileMap'[j] = fileMap[j]
    BY <2>2, <2>3 DEF With
  <2>5. monitor'[m] = [at |-> "parent", path |-> p]
    BY <1>0, <1>1, <1>8 DEF PushEntry, MonitorTo, MonitorGoes
  <2>6. monitor'[m].at = "parent" /\ KeyOf(m, monitor[m].path)' = k
    BY <1>0, <1>1, <2>5 DEF KeyOf
  <2>7. ASSUME NEW j \in DOMAIN fileMap, Parent(j.path) \in Classes
        PROVE  /\ Parent(j.path) \in DOMAIN known[m]
               /\ ClassOf(j) \in DOMAIN fileMap /\ fileMap'[ClassOf(j)] = fileMap[ClassOf(j)]
               /\ j \in Range(fileMap[ClassOf(j)].files)
    <3>1. Parent(j.path) \in DOMAIN known[m]
      BY <2>7 DEF Listed
    <3>2. ClassOf(j) \in DOMAIN fileMap
      BY <2>7, <3>1, EntrysClass, KnownClass
    <3>3. QED
      BY <2>3, <2>4, <2>7, <3>1, <3>2 DEF Listed
  <2>8. Parent(p) \in Classes => Parent(p) \in DOMAIN known[m]
    BY <1>0, <1>1, <2>3 DEF EventsOrdered, InHand, MachineInv, Holder
  <2>9. QED
    BY <1>0, <1>2, <2>2, <2>4, <2>6, <2>7, <2>8 DEF Listed, ClassOf
<1>9. CASE PushParent(m)
  <2>1. PICK d, f : d = monitor[m].dir /\ f = WithEntry(monitor[m].copy, k)
    OBVIOUS
  <2>2. monitor[m].at = "list" /\ monitor[m].at \in Handling /\ known' = known
    BY <1>9 DEF PushParent, MonitorAt, Handling, mapVars
  <2>3. /\ d \in DOMAIN fileMap /\ monitor[m].copy = fileMap[d]
        /\ d.owner = user[m].name /\ d.path = Parent(p) /\ d.path \in Classes
        /\ d \in Key /\ fileMap[d] \in SyncFile
    BY <1>0, <1>1, <2>1, <2>2 DEF CopyCurrent, StoreTypeOK
  <2>4. d = ClassOf(k)
    BY <1>2, <2>3 DEF Key, KeyOf
  <2>5. f.files = Append(fileMap[d].files, k) /\ f.allowed = fileMap[d].allowed
    BY <2>1, <2>3 DEF WithEntry, SyncFile
  <2>6. Range(f.files) = Range(fileMap[d].files) \cup {k}
    BY <2>3, <2>5, RangeAppend DEF SyncFile
  <2>7. user[m].name \in f.allowed
    BY <2>3, <2>5 DEF AloneInv, Private
  <2>8. fileMap' = With(fileMap, d, f)
    BY <1>1, <1>9, <2>1, <2>7 DEF PushParent, Push, PutFile, StoreIf
  <2>9. /\ DOMAIN fileMap' = DOMAIN fileMap /\ fileMap'[d] = f
        /\ \A j \in DOMAIN fileMap \ {d} : fileMap'[j] = fileMap[j]
    BY <2>3, <2>8 DEF With
  <2>10. ASSUME NEW j \in DOMAIN fileMap, Parent(j.path) \in Classes,
                ClassOf(j) \in DOMAIN fileMap
         PROVE  j \in Range(fileMap'[ClassOf(j)].files)
    <3>1. j \in Range(fileMap[ClassOf(j)].files) \/ j = k
      BY <1>1, <2>10 DEF Listed
    <3>2. CASE ClassOf(j) = d
      BY <2>6, <2>9, <3>1, <3>2
    <3>3. CASE ClassOf(j) # d
      BY <2>4, <2>9, <2>10, <3>1, <3>3
    <3>4. QED
      BY <3>2, <3>3
  <2>11. QED
    BY <1>0, <2>2, <2>9, <2>10 DEF Listed, ClassOf
<1>10. QED
  BY <1>4, <1>5, <1>6, <1>7, <1>8, <1>9 DEF Monitoring

(* A session at a machine where there has been none before.                *)
LEMMA FirstStart ==
  ASSUME Shape, NEW m \in Machine, StoreUser(m), Between(m), ~LoggedIn(m),
         sessions[m] = 0
  PROVE  EventsOrdered(m)' /\ Listed(m)'
<1>1. /\ walker'[m].at = "off" /\ watched'[m] = {Home} /\ events'[m] = << >>
      /\ DOMAIN known'[m] = {} /\ DOMAIN fileMap' = {}
      /\ monitor'[m] = [at |-> "idle"] /\ cmd'[m] = [at |-> "enterNew"]
  BY DEF Shape, StoreUser, Begin, Between, Watch, MonitorGoes, CommandGoes
<1>2. monitor'[m].at \notin InHand /\ cmd'[m].at # "enter"
  <2>1. monitor'[m].at = "idle" /\ cmd'[m].at = "enterNew"
    BY <1>1
  <2>2. QED
    BY <2>1 DEF InHand, Handling
<1>3. Home \notin Classes
  BY ClientAssumption DEF ClientAssumption, Classes
<1>4. EventsOrdered(m)'
  BY <1>1, <1>2, <1>3 DEF EventsOrdered
<1>5. Listed(m)'
  BY <1>1 DEF Listed
<1>6. QED
  BY <1>4, <1>5

LEMMA FirstStep ==
  ASSUME OneMachine, OnlyFiles, ClientInv, AloneInv, StoredInv, FirstInv, [Next]_vars
  PROVE  FirstInv'
<1>1. CASE UNCHANGED vars
  <2>1. ASSUME NEW m \in Machine PROVE Between(m)' /\ FirstSession(m)'
    <3>1. Between(m) /\ FirstSession(m)
      BY DEF FirstInv
    <3>2. QED
      BY <1>1, <3>1 DEF Between, FirstSession, EventsOrdered, Announced, Listed, ClassOf,
         KeyOf, LoggedIn, vars, storeVars, clientVars, procVars, lockVars, mapVars,
         fsVars, bounds
  <2>2. QED
    BY <2>1 DEF FirstInv
<1>2. ASSUME NEW m \in Machine, MachineStep(m) PROVE FirstInv'
  <2>1. /\ Shape /\ Between(m) /\ FirstSession(m) /\ sessions[m] \in Nat
        /\ \A j \in Machine : j = m
    BY DEF ClientInv, MachineInv, FilesTyped, FirstInv, OneMachine
  <2>2. Between(m)'
    BY <1>2, <2>1, BetweenStep
  <2>3. ASSUME NEW n \in Name, NEW classes, Begin(m, n, classes), sessions'[m] = 1
        PROVE  sessions[m] = 0
    BY <2>1, <2>3 DEF Begin, Shape
  <2>4. ASSUME ~LoggedIn(m), \E n \in Name : LookUpName(m, n) \/ Authenticate(m, n)
        PROVE  FirstSession(m)'
    <3>1. ASSUME NEW n \in Name, LookUpName(m, n) PROVE FirstSession(m)'
      BY <2>4, <3>1 DEF LookUpName, LoggedIn, FirstSession
    <3>2. ASSUME NEW n \in Name, Authenticate(m, n) PROVE FirstSession(m)'
      BY <2>1, <2>3, <3>2 DEF Authenticate, Between, FirstSession
    <3>3. QED
      BY <2>4, <3>1, <3>2
  <2>5. ASSUME ~LoggedIn(m), StoreUser(m) PROVE FirstSession(m)'
    <3>1. cmd[m].name \in Name
      BY <2>5, CommandFacts DEF StoreUser, ClientInv, MachineInv, ThreadsTyped
    <3>2. sessions'[m] = 1 => sessions[m] = 0
      BY <2>3, <2>5, <3>1 DEF StoreUser
    <3>3. QED
      BY <2>1, <2>5, <3>2, FirstStart DEF FirstSession
  <2>6. ASSUME LoggedIn(m), Stop(m) PROVE FirstSession(m)'
    <3>1. user'[m] = LoggedOut
      BY <2>1, <2>6 DEF Stop, Shape
    <3>2. user'[m].name = Nobody
      BY <3>1 DEF LoggedOut
    <3>3. QED
      BY <3>2 DEF FirstSession, LoggedIn
  <2>7. ASSUME LoggedIn(m), Monitoring(m) \/ Works(m) PROVE FirstSession(m)'
    <3>1. sessions'[m] = sessions[m]
      BY <1>2, <2>1, <2>7, SessionGoesOn
    <3>2. CASE sessions[m] = 1
      <4>1. EventsOrdered(m) /\ Listed(m)
        BY <2>1, <2>7, <3>2 DEF FirstSession
      <4>2. QED
        BY <1>2, <2>1, <2>7, <4>1, EventsStep, ListedStep DEF FirstSession
    <3>3. QED
      BY <3>1, <3>2 DEF FirstSession
  <2>8. FirstSession(m)'
    BY <1>2, <2>1, <2>4, <2>5, <2>6, <2>7, SessionCases
  <2>9. QED
    BY <2>1, <2>2, <2>8 DEF FirstInv
<1>3. ASSUME Delete, UNCHANGED clientVars PROVE FirstInv'
  <2>1. /\ userMap' = userMap
        /\ \/ fileMap' = fileMap
           \/ \E k \in Key : k.path \in Deletable /\ fileMap' = Without(fileMap, k)
    BY <1>3, Deletes DEF ClientInv, AloneInv
  <2>2. UNCHANGED <<user, cmd, monitor, walker, wd, known, watched, events, sessions>>
    BY <1>3 DEF clientVars, procVars, lockVars, mapVars, fsVars, bounds
  <2>3. DOMAIN fileMap' \subseteq DOMAIN fileMap
    BY <2>1 DEF Without
  <2>4. \A j \in DOMAIN fileMap' : fileMap'[j] = fileMap[j]
    BY <2>1 DEF Without
  <2>5. ASSUME NEW m \in Machine PROVE Between(m)' /\ FirstSession(m)'
    <3>1. Between(m) /\ FirstSession(m)
      BY DEF FirstInv
    <3>2. Between(m)'
      BY <2>1, <2>2, <2>3, <3>1 DEF Between, LoggedIn
    <3>3. EventsOrdered(m) => EventsOrdered(m)'
      BY <2>2 DEF EventsOrdered, Announced
    <3>4. Listed(m) => Listed(m)'
      BY <2>2, <2>3, <2>4 DEF Listed, ClassOf, KeyOf
    <3>5. QED
      BY <2>2, <3>1, <3>2, <3>3, <3>4 DEF FirstSession, LoggedIn
  <2>6. QED
    BY <2>5 DEF FirstInv
<1>4. QED
  BY NextSteps, <1>1, <1>2, <1>3

(* In a user's first session, at the only machine, an entry directly in a  *)
(* class is listed under it as soon as its event is handled: the class's   *)
(* event is taken before, and what is fetched at user-impl.go:339 is still *)
(* what is stored when the longer list is pushed.                          *)
THEOREM EntriesAreListed ==
  ASSUME OneMachine, OnlyFiles
  PROVE  Spec => []EntriesListed
<1>1. Init => FirstInv
  <2> SUFFICES ASSUME Init, NEW m \in Machine PROVE Between(m) /\ FirstSession(m)
    BY DEF FirstInv
  <2>1. /\ user[m] = LoggedOut /\ known[m] = Nothing /\ walker[m] = [at |-> "off"]
        /\ watched[m] = {} /\ events[m] = << >> /\ userMap = Nothing /\ fileMap = Nothing
    BY DEF Init, StoreInit
  <2>2. user[m].name = Nobody /\ walker[m].at = "off" /\ DOMAIN Nothing = {}
    BY <2>1 DEF LoggedOut, Nothing
  <2>3. QED
    BY <2>1, <2>2 DEF Between, FirstSession, LoggedIn
<1>2. ClientInv /\ FirstInv => EntriesListed
  <2> SUFFICES ASSUME ClientInv, FirstInv, NEW m \in Machine, NEW k \in DOMAIN fileMap,
                      LoggedIn(m), sessions[m] = 1, monitor[m].at \in {"off", "idle"},
                      ClassOf(k).path \in Classes, ClassOf(k) \in DOMAIN fileMap
               PROVE  k \in Range(fileMap[ClassOf(k)].files)
    BY DEF EntriesListed, ClassOf
  <2>1. Listed(m)
    BY DEF FirstInv, FirstSession
  <2>2. ClassOf(k).path = Parent(k.path)
    BY <2>1, EntrysClass DEF KeyOf
  <2>3. QED
    BY <2>1, <2>2 DEF Listed
<1>3. ClientInv /\ AloneInv /\ StoredInv /\ FirstInv /\ [Next]_vars => FirstInv'
  BY FirstStep
<1>4. QED
  BY <1>1, <1>2, <1>3, ClientInvariant, AloneInvariant, StoredInvariant, PTL DEF Spec
=============================================================================
