# Project Whiteboard: a verification project

Project Whiteboard is a small file sharing system for classes, written in Go:
storage servers on a consistent-hashing ring keep users, files and directories;
a user client on each machine watches a directory and keeps it in step with
what the servers hold. This directory holds TLA+ models of it, the TLC
configurations that check them, and theorems about them checked by TLAPS.

Source paths are relative to `src/go/src/`; `storage-impl.go` is
`application/storage/storage-impl.go`, `user-impl.go` is
`application/userclient/user-impl.go`.

## 1. Inventory

| Component | State | Operations | Talks to |
|---|---|---|---|
| Storage server, ring | `nodeList` (sorted, by id), `nodeIndex`, `deadNodeList`, `connMap` (skip list: node id to RPC client), each with a mutex | `iNewStorageserver`, `RegisterServer`, `TransferData`, `dialNode`, `registerWithNode`, `iCalculateSkipList`, `collectBodies` | other storage servers, by blocking RPC; itself, by goroutines |
| Storage server, routing | reads the above | `checkServer`, the first half of `iGet`, `iPut`, `iDelete` | the server a request is forwarded to; marks nodes dead |
| Storage server, data | `userMap`, `fileMap`, each with a mutex | second half of `iGet`, `iPut`, `iDelete` | |
| Midclient | one connection to one "buddy" server, a cache nothing fills | `iGet`, `iPut`, `iDelete` | that server |
| User client | session (`user`), `fileKeyMap`, the working directory of its process, the file `.permkey`, a watcher, `wdChangeMutex` and three other mutexes | `iCreateUser`, `iAuthenticateUser`, `iMakeClass`, `iMonitorLocalChanges`, `iInitialFileCheck` and `iWalkDownClass`, `iEditPermissions`, `iToggleSync` | its midclient; the local file system, through fsnotify; itself, by two goroutines |
| RPC adapter (`storagerpc`), drivers (`testing/`), `lsplog` | none of their own | | |

Every RPC of the storage servers runs in a goroutine of its own, mutexes are
channels of capacity one, and a handler takes and releases several of them one
after the other. A server keeps everything in memory.

What is hard, component by component, and what would make it correct:

* **Ring.** A newcomer registers with a buddy, tells the nodes its buddy knows,
  collects the dead, fetches its keys and only then serves. Other servers
  register, rebuild skip lists and collect dead nodes in goroutines meanwhile,
  and any of them may crash. Correct means: the newcomer gets to serve; all
  servers end with the same list; every key is where the ownership test of
  `checkServer` looks for it; no key is duplicated, and none is lost unless its
  holder dies; only the dead are removed; skip lists lead to live servers.
* **Routing.** `checkServer` reads the list and the index after it has released
  their locks, and a request is forwarded, retried and counted against a node.
  Correct means: a request on a settled ring is answered by the key's owner
  after a bounded number of hops; a failure is held against the node that failed.
* **Data.** Permissions are checked in one critical section and used in another.
  Correct means: what is stored always has somebody who may write it, only its
  owner deletes it, and a change of permissions is not undone by an older copy.
* **User client.** A command, the monitor and the walker share one working
  directory and look up relative paths in it, partly without the mutex; early
  returns keep the mutex; the goroutines start before the session is set up; a
  process may end between any two calls to the servers. Correct means: whoever
  takes the mutex finds the process at home, once its command has gone there;
  threads do not wait for one another for ever; what is in `fileKeyMap` is on the servers; an entry is listed by its class;
  what a user added is not replaced by an older copy; a name belongs to one
  account; the directories of the account arrive on another machine.

`PROJECT.json` lists these hazards with the line where each one bites.

## 2. The modules

| Module | Models | Kind |
|---|---|---|
| `Ring` | the pure computations on node lists: adding, sorting, finding the own index, the ownership test, the hand-over test, removal in place, decoding in place, the skip list | operators |
| `NodeList` | one server's list under registrations and collections that do not overlap | specification |
| `StorageRing` | the whole ring: joining, hand-over, skip lists, collection, crashes, all interleaved | specification |
| `KeyPlacement` | where each key is, abstractly: held, moving, lost | abstract specification, implemented by `StorageRing` |
| `StorageRouting` | client requests, forwarded from server to server, on top of the whole ring | specification, composed with `StorageRing` |
| `FileStore` | the servers' `userMap` and `fileMap` and the second halves of `iGet`, `iPut`, `iDelete`, as one store | state and operations |
| `UserClient` | user clients on several machines, each with its threads, working directory, disk, watcher and events, over a `FileStore` | specification, extends `FileStore` |
| `Repository` | what users see: accounts and their classes, directories and what they list | abstract specification, implemented by `UserClient` |
| `MCStorageRing`, `MCStorageRouting`, `MCUserClient` | constants for TLC | instances |
| `RingProofs`, `NodeListProofs` | theorems on `Ring` and `NodeList` | proofs |
| `StorageRingProofs`, `PlacementProofs`, `JoinProofs` | theorems on `StorageRing`: with anything interleaved, as an implementation of `KeyPlacement`, and at rest after a join | proofs |
| `RoutingProofs`, `RequestProofs` | theorems on `StorageRouting`: on a settled ring, and on any ring | proofs |
| `UserClientProofs` | theorems on `UserClient` | proofs |

### How StorageRing corresponds to the code

| Code | Actions |
|---|---|
| `iNewStorageserver` | `Start`; `CallBuddy`; the loop over the nodes `CallNode`, `SkipNode`; `EveryoneTold` (its `collectBodies`); `CallTransfer`, `NobodyToFetchFrom`, `FetchPanics`, `Adopt`; `Open` |
| `RegisterServer`, at the peer | `RegisterAppend`, `RegisterSort`, `RegisterReply`: its three critical sections |
| `TransferData`, at the peer | `TransferIndex`, `TransferScan` |
| a peer that dies before it replies | `BuddyLost`, `NodeLost`, `TransferLost` |
| `iCalculateSkipList`: the clearing under `connMapM` (514-524); the reads of the list (527-562); each node | `ClearSkipList`; `ChooseNodes`; `DialNode`, `RecordConnection`, `EndSkipList` |
| `collectBodies` | `CollectBodies`, `Bury` (one dead node), `Resort` |
| a process dies | `Crash` |

`nodeList`, `nodeIndex`, `deadNodeList` and `connMap` are the fields of
`Storageserver`; `stored` is `userMap` and `fileMap` together, by the id of the
key. `life` tells a server that only listens (`starting`: the constructor opens
the listener, but nothing answers before `main` calls `http.Serve`) from one
that serves. `tasks` is the set of goroutines in the middle of a skip list or a
collection; `joinPC`, `told`, `call`, `peer` and `transit` are the program
counters and the reply of one newcomer's constructor and of the handler working
for it.

Three things of the code are easy to overlook and are kept:

* `append(list[:i], list[i+1])` in `collectBodies` keeps one node behind the
  removed one and drops the rest, and the range loop goes on over the old
  length (`RemoveDead`).
* Replies of later `RegisterServer` calls are decoded into a copy of the first
  reply, which shares its array with `nodeList` (`Overwrite`).
* In `TransferData` the giver looks up its own index, not the newcomer's, and
  the newcomer computes whom to ask from a `nodeIndex` that nothing has set
  (`FetchFrom`).

### How StorageRouting corresponds to the code

A handler of `iGet`, `iPut` or `iDelete` that is not at the right server calls
the same operation at another one and waits. A request is therefore a chain of
handlers (`hops`), of which only the last one runs; `phase` says where.

| Code | Actions |
|---|---|
| a midclient calls its buddy | `Ask` |
| `checkServer`, 664-692, under `nodeListM` | `SortAndIndex` |
| `checkServer`, 694-712, after the unlock | `TestClaim`, which may panic |
| `checkServer`, 717-750, the loop over the skip list | `SeekAbove`, one step for each entry the iteration may meet first; `NoneAbove` |
| `checkServer`, 752-785, the wrap-around | `SeekLowest` |
| the call to the other server | `Forward`, or `CallFails` when it has crashed |
| the error branch: append to `deadNodeList`, `collectBodies`, try again | `Blame`, `Collect`, `Retry` |
| the second half, on the maps | `Serve` |
| the reply | `Return` |
| `net/rpc` reports an error to whoever waits | `Break` |

`StorageRouting` extends `StorageRing`: requests read the lists that joins
extend, sort them, mark nodes dead and start a `collectBodies` among the other
goroutines. In the other direction, each step of the ring is taken together with
`Break` (`RingStep`). A chain breaks where a server crashes, and where
`iCalculateSkipList` closes the client a handler waits on: the handlers before
the break go on with an error, those after it go on with nobody waiting
(`Pieces`). `link` tells a client that is still in `connMap` (`open`) from one
that was replaced there by another goroutine, which nobody closes (`loose`).

### How UserClient corresponds to the code

| Code (`user-impl.go`) | Actions |
|---|---|
| `iCreateUser`: the Get of the name (69); the Put, the session, the goroutine, `Watch` (81-99); `Chdir` (105); `.permkey` and its mutex (111-121) | `LookUpName`, `StoreUser`, `EnterNew`, `MakePermkey` |
| `iAuthenticateUser`: up to `Watch`; `Chdir` and the walker (230-236) | `Authenticate`, `Enter` |
| `iMakeClass`: the test (381); the mutex, `Mkdir`, `Watch` (385-394); for each folder `Chdir` and `Mkdir`, `Chdir("..")`, `Watch` (397-410); the unlock (412); the append (415); the Put (424) | `SeekClass`; `MakeClass` or `ClassAppeared`; `GoDown`, `MakeFolder`; `FoldersMade`; `AppendClass`; `SaveUser` |
| `iMonitorLocalChanges`: the event (249-275); the mutex (277); `Chdir` and `Open` (278-292) | `TakeEvent`; `LockWd`; `OpenEntry` or `OpenFails` |
| the Get of the entry (295); the Put of a new one (331); the parent's Get (339) and Put (342) | `GetEntry`; `PushEntry`; `GetParent`, `PushParent` |
| back up, `.permkey`, `fileKeyMap`, the unlock (347-365) | `FinishEvent`; `Stuck` when `permkeyFileMutex` is nil |
| `iWalkDownClass`: the Get; `Open`; `MkdirAll` and `Watch`; `Create` | `Visit`, `WalkEnds`; `LookForEntry`; `MakeDirectory`; `CreateFileFails` |
| `iToggleSync` ends in `log.Fatal` or changes nothing; `iEditPermissions` panics (664) | `ToggleSync`, `EditPermissions` |
| the user copies a file in or deletes one; the process ends | `AddEntry`, `RemoveFile`; `Stop` |
| somebody deletes a file with the command line midclient | `Delete` of `FileStore`: `CheckOwner`, `DeleteFile` |

`cmd`, `monitor` and `walker` are the program counters of a process's three
threads with their local variables. `wd` is `wdChangeMutex`: free, held by a
thread, or `leaked` once a thread has left it behind. `cwd` is the working
directory as the path down from the whiteboard directory, and every
relative path is read in it (`At`). A process is started `Outside`, next to the
whiteboard directory, and changes to home in `EnterNew` and `Enter`, after the
monitor has been started: until then nothing that is looked up is found.
`known` is `fileKeyMap`, `permkey` the file of that name. A path is a sequence of
names below the whiteboard directory; none begins with `..`. `deleted` of
`FileStore` records, for the properties alone, which files have been deleted
and not stored again.

Things that are easy to overlook and are kept:

* The test for a class and the walker's test for an entry are made without the
  mutex, in whatever directory the monitor or `iMakeClass` has changed to.
* The monitor looks the parent of an entry up under the whiteboard directory
  joined to the path of the parent (333). The events of home carry such names,
  those of the directories below do not: only classes are found
  (`ParentKnown`), and only what lies directly in a class is listed.
* A login opens `.permkey` for reading, so that a session after the first adds
  nothing to it (`canRecord`), and watches the home directory only.
* A `break` inside `select` leaves the event, not the loop: the monitor goes on
  without giving the mutex back, in the directory where it was (`OpenFails`).
* The monitor waits for the mutex with an event in its hand, and need not wait
  for the command to change to home.

### Abstractions

Of the ring and the routing:

* Ids and key hashes are numbers, of which only the order matters. Hash
  collisions, of nodes or keys, are left out.
* A key's value is left out. In `StorageRing` the set of stored keys is what it
  was when the ring came up, and only moves; in `StorageRouting` requests put
  and delete keys, and the permission check of a file is a choice that may refuse
  any request that finds its key, and any `Put`.
* `dialNode` gives up after six attempts; that it succeeds, waits for ever or
  fails depends on `life` alone, so that a crash between two attempts is a crash
  before or after all of them.
* The two critical sections of `RegisterServer` that check for the node and
  append it are one step: no one else adds that node. The two transfer loops,
  over files and over users, are one step. The announcement that a server
  serves and `http.Serve` are one step.
* `iCalculateSkipList` clears `connMap` in one step and reads `nodeList` and
  `nodeIndex` without a lock in a later one (`ChooseNodes`). That step takes the
  list at that moment. The code reads its length and then each entry
  (527-562): that the array may change, or become shorter and be indexed out of
  range, between these reads is not modelled.
* A dead node is noticed by joins and by skip list calculations, in
  `StorageRouting` also by requests.
* Each loop of `checkServer` over `connMap` is one step, which reads the map as
  it is then: that the map may change under the iteration is not modelled.
  Where the iteration starts is a choice, as in Go.
* Handlers nobody waits for that are in the same state at the same places are
  one member of the set `chains`: they would take the same steps.
* A reply with status `zero` is one the handler never filled in. Its value is
  that of `storageproto.OK`, so that the client cannot tell.
* A handler that calls `collectBodies` waits for it and for the
  `iCalculateSkipList` it calls; the `collectBodies` that one spawns at its end
  goes on as a goroutine (`slot` names it).
* A crash is final and takes the memory with it, as in the code, which persists
  nothing. A handler that runs at a peer for a dead newcomer goes on.

Of the user clients:

* The servers are one reliable store: that requests reach the owner is the
  business of `StorageRouting`, and what crashes of servers do to keys that of
  `StorageRing`.
* The whiteboard directory is named `whiteboard`, the default of
  `userserver.go:28`, and its process may enter the directories it makes with
  mode `ModeDir` alone, as one of the superuser does.
* Passwords, contents, times and the `Class` of a file are left out. A password
  that is wrong changes nothing. Of permissions there is only `WRITE`, for the
  owner: nothing else is ever given, since `iEditPermissions` panics before.
* Names do not repeat inside a path. Users add files and directories and remove
  files; that they remove or rename directories is left out.
* The steps of a `Chdir` chain are one step, and so are a `Mkdir` and the
  `Watch` that follows: the watcher is taken to see what is made afterwards and
  not the rest. Events are delivered in order and none is lost.
* One user command runs at a time, as the driver reads them (`userserver.go`).
* The deletion of user data, which no program asks for, is left out.

## 3. What the runs check

| Run | Instance | Shows |
|---|---|---|
| `node_list` | seven possible nodes, keys between, at and beyond them | `ListIncreasing`, `IndexTracksSelf`, `OneOwner`: a list is always sorted, indexed, and gives each key one owner; `LastTwoRemoved`: removal is right at the end of the list |
| `join_first` | a server with the lowest id joins two, four keys, no crash, and with it the ring is a large one: that branch of `iCalculateSkipList` starts at 3 nodes instead of 7 | `NewcomerServes`; `NothingLost`; at the end `RingKnown`, and `SuccessorConnected`: whatever the arithmetic of positions asks for, each server ends up connected to the next one on the ring |
| `join_crash` | a server with the highest id joins two, up to two of the three crash, and the ring is small, so that everybody is dialled and a failed dial leaves a nil client | `NeverDuplicated` and the refinement of `KeyPlacement` (`PlacementSpec`); `OnlyTheDeadMarked`, `NilOnlyForDead`, `BodiesCollected`, `GoroutinesEnd`; `RegisteredServes`; at the end, if nobody has died, `SkipListComplete`: everybody is connected to everybody |
| `route` | two clients at the two ends of a settled ring of three, no crash | `ServedByOwner`, `RequestAnswered`: whichever way the map iterations send it, a request is answered, by the owner of its key |
| `route_crash` | one client, two requests, one of three servers crashes | `RoutingTypeOK`; `RequestAnswered`; `RequestsCollect`, `GoroutinesEnd`: whatever requests and goroutines mark dead is collected, and that ends |
| `session` | two users, one machine, two sessions, a class with a folder, a file in each, two edits, one deletion, the process stopped anywhere | `WdAtHome`, `KnownIsStored`, `ClassesAgree`, `EntriesListed`, the refinement of `Repository` (`RepositorySpec`); `EventsTaken`, `CommandsEnd`: events are handled and commands end unless the mutex is lost or the monitor is stuck |
| `machines` | one user at two machines at once | `KnownIsStored`; `DirectoriesArrive`: what the account leads to at a login is made on that machine |
| `misplaced_key` | violation of `KeysAtOwner` | the keys above the highest id, which wrap around to a newcomer with the lowest one, stay with the founder that had them, where `checkServer` no longer looks for them |
| `panic` | violation of `NoPanic` | a list shortened between the unlock and the reads after it is indexed out of range |
| `added_files` | violation of `AddedFilesReflected` | a class made a second time while the monitor is in a subdirectory: the test looks in the wrong directory, `Mkdir` fails, the mutex is lost and nothing is pushed any more |
| `lost_class` | violation of `ClassesKept` | two machines create one account, and the later Put takes the classes of the other out of it |
| `delete_race` | violation of `OnlyOwnerDeletes` | whoever asks to delete a file before it exists passes the test for the owner, and deletes it after its owner has stored it |

A violation run checks one thing a comment or document says and finds the
behaviour of the code that contradicts it; `findings` in `PROJECT.json` quotes
the line.

Further divergences were met while modelling. They are in the model, as the code
has them, and no run is kept for them. In the ring and the routing:

* a server whose id is the second lowest dials itself for its data, since 212
  reads a `nodeIndex` that registration never set, and never serves, against
  the comment at 209; `NewcomerServes` holds for the position of `join_first`,
  where the index is right by luck;
* collecting one dead node that is not last also drops live ones (378), against
  the comment at 205 and the declaration of `deadNodeList` (59);
* two servers that join through different buddies never learn of each other
  (186), against the comment at 183;
* in a ring of seven, servers 0 and 1 send a request for the highest server's
  key to each other for ever (752): `RequestAnswered` holds in `route`, where
  everybody is in everybody's skip list;
* a skip list rebuilt for a newcomer closes the client a request waits on (518),
  and the live server behind it is marked dead (866): `OnlyTheDeadMarked` is a
  theorem of `StorageRing`, where only joins and skip list calculations mark
  nodes, and fails as soon as requests do;
* in a large ring the server at index 0 puts its successor into its skip list
  twice and its predecessor never (`first = -(0 - 1)`,
  `storage-impl.go:549-551`), against "the two nodes on either side of us"
  (554). `SuccessorConnected` states that comment for the one side on which it
  is true; `SkipListComplete` takes the computed list for what should be there,
  and is run where that is everybody;
* a newcomer with the highest id takes keys that stay its neighbour's: it asks
  the node at index 1, and the test at 311 has no lower bound;
* two newcomers with one buddy that dial each other before either serves wait
  for each other for ever (189);
* `nodeIndex` of a newcomer stays 0 wherever it is in the list, against the
  declaration at 55, unless it found a node dead;
* a nil client recorded after another goroutine has collected its node stays in
  the skip list of a ring of at most six nodes (536-540): `NilOnlyForDead` says
  whose it may be, not that it goes away;
* a newcomer that outlives the two other servers can lose itself from its own
  list and dies on an index out of range at 219 (`FetchPanics`, which
  `join_crash` reaches);
* `checkServer` returns the client of the entry it met first with the node of
  the lowest entry above the key (717-749), so that a crash, too, can get a live
  server marked dead;
* a request for which `checkServer` finds a nil client returns with its reply
  untouched, which reads `OK` (859), with nothing done;
* a key equal to the id of a server other than the first, asked for at another
  one, may be passed on for ever, since 721 looks for entries strictly above it;
* a server whose skip list is empty for the moment serves any request itself
  (782-785), whoever's key it is;
* where the node of a skip list entry has left the list, `checkServer` returns
  the zero node with its client (731-747), and a call that fails then puts that
  on `deadNodeList` (864-867), though it is no server. `TypeOK` of `StorageRing`
  is therefore not an invariant of `StorageRouting`, and what is proved there
  rests on `Places`, which says less of the lists.

In the user client:

* `iEditPermissions` looks for `WhiteBoard` in the working directory, where the
  default is `whiteboard`, and panics on the missing second part (662-664), so
  that nobody can be given a permission; the test for the user at 706-709 that
  it would come to is inverted (an error counts as existing);
* `iToggleSync` clears `Synced` and calls `iPush`, which pushes only what is
  `Synced`: it has no effect, against its comment, and for a file that is not
  there ends the process (`log.Fatal`);
* what lies deeper than directly in a class is never listed by its directory:
  335 has "parent has to be in map", and only classes are found there;
* the walker creates a file by its whole path inside its own directory (497),
  which fails and returns with `wdChangeMutex` taken: files never arrive on a
  second machine, against "updates outdated file on local on login" (236);
* an event whose file is gone again leaves the mutex taken and the process in
  another directory (291);
* an event handled before the process has changed to home cannot be opened, and
  is given up with the mutex; one taken before `permkeyFileMutex` is made waits
  on a nil channel for ever (98, against 105 and 119);
* a later login watches the home directory and what the walker makes, not the
  directories that are there: new files in those are never pushed;
* two machines of one user that list an entry in the same class at once, or make
  a class at once, lose one of the two (336-342, 415-424); `EntriesListed`,
  `ClassesAgree` and `RepositorySpec` are stated of one machine for this reason;
* a process that ends between `Mkdir` and the Put of the user record leaves a
  class on the disk that is in no account, and that `iMakeClass` finds to exist.

### Bounds, and why they are enough

* **Servers.** The position of a newcomer matters, since the code treats index 0
  and the last index apart: it is at the front in `join_first` and
  `misplaced_key`, at the end in `join_crash`; in second place it never serves
  (see above). Three servers are enough for a crash of the buddy, of the giver
  and of a bystander, and for a loop that has somebody to tell besides the buddy.
* **Newcomers.** One joins at a time in the runs. Two newcomers, each with the
  goroutines it causes at every server, are beyond what TLC exhausts in
  reasonable time. What the theorems say holds for any number of concurrent
  newcomers, but for those of `JoinProofs`, which are about one newcomer in a
  ring of any size: two that join through different buddies never learn of each
  other.
* **Keys.** In `join_first` and `join_crash` the servers are 2, 4 and 6 and the
  keys 1, 3, 5 and 7: one below the lowest id, one in each gap, and one beyond the
  highest, which wraps around. `misplaced_key` has that one too, and fails because
  of it. `node_list` also has keys equal to ids, which only the ownership test
  tells apart. The routing runs have the keys their question needs: below,
  between and beyond in `route`, two in `route_crash`.
* **FullMesh** is 6 in the code, and in all runs but `join_first`. It is a
  constant so that the branch for larger rings is reached with few nodes (2 in
  `join_first`); the comparison is the same.
* **MaxCrash** bounds crashes; no other counter of the ring grows without bound,
  since `told` stops at the length of a list.
* **MaxCalls** bounds the requests of a client. One each is enough for two
  clients to meet; two in `route_crash`, so that the second request finds what
  the first one and the crash have left.
* **MaxHops** bounds the handlers of a chain. `route_crash` never reaches it.
  Where nothing can break a chain (no crash, no newcomer, as in `route`), a
  waiting handler only passes the reply on, and the oldest one is forgotten at
  the bound (`Forward`), so that a request that is passed on for ever is a cycle
  of the model. `panic` exhibits what it is for within it.
* **Keys of requests** lie between the ids and beyond the last one (see the
  divergence for a key equal to an id above).
* Requests during a join, and two clients with a crash, are exhausted by no run:
  on three servers they are beyond TLC.
* **Machines, sessions.** What a stopped process leaves behind is met by a
  second session (`MaxSessions` is 2 in `session`), by the same user or by
  another one at the same machine. What two machines do to one account needs
  two of them, `machines` and `lost_class`, with one session each.
* **Paths.** One class, one of its folders, and a file at each of the two
  depths that `ParentKnown` tells apart; `added_files` needs a second folder,
  so that the monitor is down in a class while the user types.
* **MaxEdits** lets a user add a file and take it away before its event is
  handled, or add both files. **MaxDeletes** is 1: a deletion removes a file and
  leaves nothing that a second one would meet. Only files are deleted.

`CHECK_DEADLOCK FALSE`: when joins, goroutines, crashes and the requests within
`MaxCalls` are over, the system has nothing left to do; a client within its
bounds waits for its user.

### Fairness

`FairSpec` assumes weak fairness of each newcomer's join (constructor and the
handlers that work for it) and of each server's goroutines: the Go scheduler
runs every goroutine that can run, and an RPC to a server that serves is
answered. Nothing is assumed about crashes or about a server being started. A
dial to a server that only listens is not enabled, so that fairness does not
make it end. `RegisteredServes` is conditional on at most one crash, because
the survivor of two dials itself.

`FairRoutingSpec` adds weak fairness of the chain each client waits for and of
those nobody waits for: a handler is a goroutine. A request may go back and forth
between two servers as long as the same entry of a skip list is met first
each time; Go starts the iteration of a map at a random entry, hence strong
fairness of each entry (`SeekAbove`).

`FairSpec` of `UserClient` assumes weak fairness of each process's command that
has begun, of its monitor and of its walker: they are goroutines, and the store
answers. It says nothing of what a user types, of edits, of deletions or of a
process that ends. Weak fairness is enough although the threads compete for
`wdChangeMutex`, for in the model a thread that waits for it is not overtaken
for ever: commands, events and keys to visit are all finite in number.

### Mutants

Every property of every passing run has a mutant in `PROJECT.json`: a plausible
bug (a strict comparison, a missing recalculation, a loop that ends one early, a
copy instead of a move) under which TLC finds that property violated. The
mutated operators stand next to the originals.

## 4. What is proved

The theorems on the ring are for any sets of servers, founders, buddies and keys
that satisfy `RingAssumption` (or `NodeAssumption`): ids and keys are natural
numbers, the servers are finitely many and the ring has a founder. Those on the
user clients are for any machines, names, paths, files, folders and bounds that
satisfy `StoreAssumption` and `ClientAssumption`: paths are sequences of names
whose parents are directories, and a class has room for its folders.

* `RingProofs` is about the operators. `ClaimsIsSuccessor`: in a sorted list
  without repetition, the test of `checkServer` holds at one position only, that
  of the key's successor. `SortedSorts`: sorting keeps the nodes and sorts; it
  rests on `RankBijective`, that the ranks of the positions are again the
  positions. `IncreasingIsUnique`: a set of servers has one sorted list, so that
  servers that know the same nodes have the same list and agree on every index.
  `ReindexFinds`: the search for the own index finds the server where its list
  has it. The other lemmas give each operator its type.
* `NodeListProofs`: the list stays increasing and of its type, the index right
  and the owner unique. The invariant `ListInv` is inductive because an addition only happens
  to a list without the node (`AddKeepsDifferent`) and because the removal in
  place, wrong as it is about which nodes it drops, keeps the rest in order
  (`RemoveDeadKeepsIncreasing`). `LastTwoAreRemoved`: of the last two nodes the
  removal takes out just the one that is dead, because no node is there twice
  (`RemoveDeadByPosition` says what remains for each position; for all positions
  before these two it is wrong).
* `StorageRingProofs`:
  * `TypeCorrect`. `TypeOK` alone is not inductive: that a newcomer reads its
    list within its bounds needs `Counting`, that the loop starts after the
    buddy's reply.
  * `KeysAreUnique`. `KeySteps` reduces every action to one of five effects on
    the keys (none, give, take, forget, die); `NeverDuplicated` is preserved by
    each.
  * `KeysSurvive`. A reply would be lost if its newcomer no longer waited for
    it, or if a second reply replaced it before it was adopted. `CallInv` excludes
    both: a pending call belongs to a constructor in the stage that made it,
    and a newcomer with keys in transit is about to adopt them.
  * `MarkedAreDead`. Crashes are final (`CrashIsFinal`), and every place that
    marks a node dead has just found it crashed.
  * `DeadAreCollected`. A dead node could be forgotten if whoever marks it were
    past its last look at `deadNodeList`. `CollectorDue` excludes that: a server
    with dead nodes has a constructor that has yet to spawn
    `iCalculateSkipList`, or a goroutine, and every goroutine leads to
    `collectBodies`, which ends only where it has found the list empty
    (`TaskGoesOnOrEnds`).
  * `NilClientsAreOfTheDead`, that `NilOnlyForDead` holds with any newcomers,
    crashes and `FullMesh`. The branch for small rings records what `dialNode`
    returned without looking whether it succeeded, and lets the other goroutines
    of the server clear and refill the map in between; `NilInv` says that the
    node it is about to record a nil client for is dead, which no step undoes.
* `JoinProofs`: the ring at rest after one newcomer has joined (`OneNewcomer`)
  and as long as nobody has died. The founders, their number, the position of
  the newcomer, its buddy, the threshold of the skip lists and the keys are
  arbitrary. The invariant, `RingInv`, has a part for each actor:
  * `FounderInv`: a founder knows the founders and has nothing to do, or it
    knows everybody; only between `RegisterAppend` and `RegisterSort` is its
    list complete but out of order (`Whole`). A list of everybody is final
    (`KnownStays`): adding finds the node, sorting changes nothing.
  * `JoinerInv`: the newcomer has the complete list from its buddy's reply on,
    later replies overwrite it with itself (`OverwriteItself`), and all founders
    at the positions it has been at know everybody (`HeardOf`). At the end of the
    loop that is all founders (`EverybodyHasHeard`).
  * `TaskInv`, `SkipInv`: goroutines dial only what belongs into a skip list;
    what belongs there is connected, or about to be dialled, or the whole list
    is about to be cleared again, unless a registration at that server is not
    over (`Limbo`), whose end spawns the goroutine that clears. This is why two
    goroutines that clear and fill one map in turn do no harm.

  `EverybodyIsKnown` and `SkipListsAreComplete` follow at rest, where no goroutine
  and no call is left (`AtRest`). `SuccessorsAreConnected` is about what the
  servers need, not about what they compute: the node after a server on the ring
  is in its skip list. It follows from the other two and from `NextIsDialled` of
  `RingProofs`, that from every position, the last one included, the arithmetic of
  `SkipTargets` finds the next node. It supposes that a server in a large ring has
  its own position right, as a newcomer need not (see the divergences). That
  every key ends up with its owner is not a theorem: a newcomer in front is not
  given the keys that wrap around (`misplaced_key`), one in the second place never
  serves, and one behind may take keys of its neighbour.
* `RoutingProofs`: `RequestsReachTheOwner`, that `ServedByOwner` holds on a ring
  nobody joins, of any size and with any threshold of the skip lists, until the
  first crash. The invariant `RouteInv` says that lists are in order and complete
  and indices right (`RingAtRest`), that a handler looks for another server only
  where the key does not belong, and that no request has met an error
  (`OnItsWay`). The test of `checkServer` is right by `ClaimsIsSuccessor`. The
  other way to serve a request is the fall-through at 782-785; it is never taken,
  because a server that does not own a key is not alone (`NotAlone`), a server
  that is not alone has somebody in its skip list (`SomebodyToDial`) and the
  lowest one in it is never above the last of the list (`LowestIsEntry`). That
  the request arrives at all is liveness, and false from seven servers on.
* `RequestProofs`: what holds of requests on any ring, with any number of joins,
  crashes and clients.
  * `RoutingTypes`, that `RoutingTypeOK` is an invariant: each client that waits
    has one chain. It is not inductive by itself, because a break cuts a chain
    into pieces (`Pieces`), of which the client must keep one or get an error,
    and the pieces of different chains must not run together into one member of
    the set. `ChainInv` says of each chain that its handlers run at servers that
    are up (`Alive`) and that each but the last waits on a client that leads to
    the next (`Linked`). The first piece is the one somebody waits for
    (`FirstPiece`), the last one goes on where the chain was (`LastPiece`), and
    what the client gets is settled by `BreakAwaited`. An instance where nothing
    breaks (`NothingBreaks`) may forget handlers and has no links to keep.
  * `RequestsAreCollected`. `CollectorThere` extends `CollectorDue`: a handler
    that has marked a node dead is itself about to collect (`Blaming`), and a
    break does not take that handler out of its chain (`BreakBlames`). The steps
    of the ring are those of `CollectorStep`, which needs no types, only
    `Places`.
* `PlacementProofs`: `ImplementsPlacement`, that `StorageRing` implements
  `KeyPlacement`. The mapping reads the place of a key off `stored` and
  `transit`, which determine it because keys are unique (`Mapping`); each of the
  five effects of `KeySteps` is then a step of `KeyPlacement` or a stutter.
* `UserClientProofs`:
  * `TypeCorrect` and `MutexGuardsDirectory`, from one invariant, `ClientInv`,
    with a part for each machine. The types need the rest: that the monitor
    comes back by going up as far as it went down is only right if nobody moved
    the process meanwhile, hence `Holder` (who has the mutex, and where that
    thread has taken the process). `Base` is where the process is when nobody
    has: outside until the command has changed to home. The monitor may take
    the mutex in that window, but then it has events of home only, whose `Chdir`
    goes nowhere, and finds nothing to open (`Waits`, `Begins`). An action
    changes one machine, which is proved once, for all of them (`Elsewhere`).
  * `KnownKeysAreStored`, with any machines and stops: `StoredInv` adds
    `.permkey` and the entry the monitor has pushed but not yet recorded. A key
    leaves the servers only by a deletion of that very key (`deleted`).
  * `ClientsKnowTheirClasses` and `ImplementsRepository`, for one machine
    (`OneMachine`) where only files are deleted (`OnlyFiles`); for two machines
    both are false. `AloneInv` says that what a client has fetched and is about
    to replace is still what is stored: the user record (`Account`), the
    parent's copy (`CopyCurrent`), that a new entry is not there yet; and that
    nobody but its owner may write a file (`Private`), so that no Put is
    refused. Each step of a client is then a step of `Repository` or a stutter
    (`MachineMaps`).
  * `EntriesAreListed`, under the same assumptions. A class must be in
    `fileKeyMap` when the event of its entry is handled. It is, because the
    class's own event was sent before (`EventsOrdered`), and that it stays so
    is shown for a step that appends an event or none (`ForwardKeeps`) and for
    one that takes an event (`TakeKeeps`).

Only model-checked, and why:

* all liveness (`NewcomerServes`, `RegisteredServes`, `GoroutinesEnd`,
  `RequestAnswered`, `EventsTaken`, `CommandsEnd`, `DirectoriesArrive`): TLAPS
  proves nothing that needs fairness or `ENABLED`;
* `RingKnown`, `SkipListComplete` and `SuccessorConnected` with several
  newcomers, where they are false for some instances;
* `NoPanic`, `KeysAtOwner`, `AddedFilesReflected`, `ClassesKept` and
  `OnlyOwnerDeletes`, which the code violates.

## 5. Not modelled, and the plan

The part of `iEditPermissions` behind its panic (669-731) is not modelled: it
is never reached. The command line drivers and `lsplog` keep no state, the RPC
adapter forwards calls. `net/rpc` and fsnotify are modelled from how the code
uses them. Left out for good are the contents of files, hash collisions, and the
composition of the user clients with the ring: a state space of both is beyond
TLC, and what they need of each other is stated at the border, `FileStore`.

The plan from here on is to prove more:

1. `RingKnown` and `SkipListComplete` for several newcomers with one buddy, if
   TLC finds no counterexample on the instances it can exhaust: `FounderInv` then
   has to say that a list holds the founders and those who have registered.
2. `ServedByOwner` beside a join: until the newcomer is told of, the founders
   route as on a settled ring.
3. The user clients on several machines: which part of `RepositorySpec` is left
   when two machines replace the same copy.
