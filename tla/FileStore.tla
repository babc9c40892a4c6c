------------------------------ MODULE FileStore ------------------------------
(***************************************************************************)
(* What the storage servers keep for the user clients: the accounts        *)
(* (userMap) and the files and directories (fileMap), with the second      *)
(* halves of iGet, iPut and iDelete in storage-impl.go.  The ring is one   *)
(* store here; that a request finds the server of its key is the business  *)
(* of StorageRouting.                                                      *)
(***************************************************************************)
EXTENDS Naturals, Sequences, FiniteSets

CONSTANTS
  Name,       \* user names
  Path,       \* places below the whiteboard directory, sequences of names
  Document,   \* those that are files; the others are directories
  Deletable,  \* the paths somebody deletes by the command line midclient
  MaxDeletes  \* bound on these deletions

(* "owner:class?folder?file"                                               *)
Key == [owner : Name, path : Path]

(* A SyncFile: files is what a directory lists.  The user client gives no  *)
(* permission but WRITE, which allowed names the users of.                 *)
SyncFile == [owner : Name, files : Seq(Key), allowed : SUBSET Name]

VARIABLES
  userMap,   \* the classes of each account
  fileMap,   \* the SyncFile at each key
  deleting,  \* deletions between their two critical sections
  deletes,   \* how many there have been
  deleted    \* history: the keys deleted and not stored again since

storeVars == <<userMap, fileMap, deleting, deletes, deleted>>

ASSUME StoreAssumption ==
  /\ Document \subseteq Path /\ Deletable \subseteq Path
  /\ \A p \in Path : p \in Seq(STRING)
  /\ MaxDeletes \in Nat

Deletion == [by : Name, key : Key]

StoreTypeOK ==
  /\ DOMAIN userMap \subseteq Name
  /\ \A n \in DOMAIN userMap : userMap[n] \in Seq(Key)
  /\ DOMAIN fileMap \subseteq Key
  /\ \A k \in DOMAIN fileMap : fileMap[k] \in SyncFile
  /\ deleting \subseteq Deletion
  /\ deletes \in 0..MaxDeletes
  /\ deleted \subseteq Key

Nothing == [x \in {} |-> {}]

StoreInit == /\ userMap = Nothing /\ fileMap = Nothing
             /\ deleting = {} /\ deletes = 0 /\ deleted = {}

With(f, x, v) == [y \in DOMAIN f \cup {x} |-> IF y = x THEN v ELSE f[y]]
Without(f, x) == [y \in DOMAIN f \ {x} |-> f[y]]

-----------------------------------------------------------------------------

(* iGet of a file by n finds it; otherwise the answer is empty.            *)
CanGet(k, n) == k \in DOMAIN fileMap /\ n \in fileMap[k].allowed

(* iPut of user data.                                                      *)
PutNewUser(n, classes) ==
  userMap' = IF n \in DOMAIN userMap THEN userMap ELSE With(userMap, n, classes)
PutUser(n, classes) == userMap' = With(userMap, n, classes)

(* iPut of a file: the permission that counts is the submitted one.        *)
StoreIf(allowed, k, f) ==
  /\ fileMap' = IF allowed THEN With(fileMap, k, f) ELSE fileMap
  /\ deleted' = IF allowed THEN deleted \ {k} ELSE deleted
PutOver(k, n, f) == StoreIf(k \in DOMAIN fileMap, k, f)
PutFile(k, n, f) == StoreIf(n \in f.allowed, k, f)

(* iDelete of a file: the owner is checked in one critical section, where  *)
(* what is not there may be deleted by anybody ...                         *)
MayDelete(k, n) == k \in DOMAIN fileMap => fileMap[k].owner = n

CheckOwner(n, k) ==
  /\ deletes < MaxDeletes /\ MayDelete(k, n)
  /\ deletes' = deletes + 1
  /\ deleting' = deleting \cup {[by |-> n, key |-> k]}
  /\ UNCHANGED <<userMap, fileMap, deleted>>

(* ... and the file is deleted in another.                                 *)
DeleteFile(d) ==
  /\ d \in deleting
  /\ deleting' = deleting \ {d}
  /\ fileMap' = Without(fileMap, d.key)
  /\ deleted' = deleted \cup ({d.key} \cap DOMAIN fileMap)
  /\ UNCHANGED <<userMap, deletes>>

Delete ==
  \/ \E n \in Name, k \in {j \in Key : j.path \in Deletable} : CheckOwner(n, k)
  \/ \E d \in deleting : DeleteFile(d)
=============================================================================
