----------------------------- MODULE Repository -----------------------------
(***************************************************************************)
(* What users see of the servers, and nothing else: an account and its     *)
(* classes, directories and what they list.  What one user adds, at one    *)
(* machine at a time and however often the process is stopped, is never    *)
(* taken back, except for files deleted on purpose.                        *)
(***************************************************************************)
EXTENDS FiniteSets

CONSTANTS
  Name, Key,
  ClassKey,    \* the keys of classes
  Under,       \* the keys of entries with that of their directory
  Disposable   \* the keys that may be deleted

VARIABLES
  accounts,  \* the classes of each account
  listing    \* what each stored file or directory lists

Extend(f, x, v) == [y \in DOMAIN f \cup {x} |-> IF y = x THEN v ELSE f[y]]

RepositoryInit == DOMAIN accounts = {} /\ DOMAIN listing = {}

OpenAccount(n) ==
  /\ n \notin DOMAIN accounts
  /\ accounts' = Extend(accounts, n, {})
  /\ UNCHANGED listing

AddClass(n, k) ==
  /\ n \in DOMAIN accounts /\ k \in ClassKey /\ k.owner = n
  /\ accounts' = Extend(accounts, n, accounts[n] \cup {k})
  /\ UNCHANGED listing

(* A new entry lists nothing.                                              *)
AddEntry(k) ==
  /\ k \notin DOMAIN listing /\ k.owner \in DOMAIN accounts
  /\ listing' = Extend(listing, k, {})
  /\ UNCHANGED accounts

(* A directory lists one more of its entries, of the same owner.           *)
List(d, k) ==
  /\ d \in DOMAIN listing /\ <<k, d>> \in Under
  /\ listing' = Extend(listing, d, listing[d] \cup {k})
  /\ UNCHANGED accounts

Delete(k) ==
  /\ k \in Disposable
  /\ listing' = [j \in DOMAIN listing \ {k} |-> listing[j]]
  /\ UNCHANGED accounts

RepositoryNext ==
  \/ \E n \in Name : OpenAccount(n) \/ \E k \in Key : AddClass(n, k)
  \/ \E k \in Key : AddEntry(k) \/ Delete(k) \/ \E d \in Key : List(d, k)

Spec == RepositoryInit /\ [][RepositoryNext]_<<accounts, listing>>
=============================================================================
