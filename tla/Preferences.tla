---------------------------- MODULE Preferences ----------------------------
(***************************************************************************)
(* The account preferences store (chat_db.go) and the requests that edit   *)
(* it: PUT /api/preferences (web_api.go), a block, a follow and a join's   *)
(* colour (websocket_server.go).  Every one of them reads an account's     *)
(* document, changes the part it owns and puts the whole of it back, with  *)
(* no lock held between.  A handle belongs to one account; the file holds  *)
(* what the last write that succeeded held.                                *)
(***************************************************************************)
EXTENDS FiniteSets, Naturals

CONSTANTS Account, Handle,
          NoHandle, NoOne,       \* ""
          Request                \* requests being handled at a time

VARIABLES
  accountPrefs,     \* db.accountPrefs: each account's document, or Absent
  handleOwners,     \* db.handleOwners
  file,             \* prefsPath
  request           \* each handler between its read and its write

vars == <<accountPrefs, handleOwners, file, request>>

(* lists: the accounts blocked and followed are other than none.           *)
Absent == [stored |-> FALSE, handle |-> NoHandle, lists |-> FALSE]
Idle   == [at |-> "idle", account |-> NoOne, next |-> Absent]

Init ==
  /\ accountPrefs = [a \in Account |-> Absent]
  /\ handleOwners = [h \in Handle |-> NoOne]
  /\ file = accountPrefs
  /\ request = [r \in Request |-> Idle]

Read(r, a, next) == request' = [request EXCEPT ![r] = [at |-> "read", account |-> a, next |-> next]]

(* The four handlers: what each reads and means to put.                    *)
HandlePreferences(r, a, h) == Read(r, a, [accountPrefs[a] EXCEPT !.stored = TRUE, !.handle = h])

PersistBlockedAccounts(r, a, lists) == Read(r, a, [accountPrefs[a] EXCEPT !.stored = TRUE, !.lists = lists])

SubmitFollow(r, a, lists) == Read(r, a, [accountPrefs[a] EXCEPT !.stored = TRUE, !.lists = lists])

(* The colour becomes the document of an account that has none.            *)
ResolveAccountPlayerColor(r, a) == ~accountPrefs[a].stored /\ Read(r, a, [Absent EXCEPT !.stored = TRUE])

Begin(r) ==
  /\ request[r].at = "idle"
  /\ \E a \in Account :
       \/ \E h \in Handle \cup {NoHandle} : HandlePreferences(r, a, h)
       \/ \E l \in BOOLEAN : PersistBlockedAccounts(r, a, l) \/ SubmitFollow(r, a, l)
       \/ ResolveAccountPlayerColor(r, a)
  /\ UNCHANGED <<accountPrefs, handleOwners, file>>

Taken(a, h) == h # NoHandle /\ handleOwners[h] \notin {NoOne, a}

(* handleOwners once account a has handle h.                               *)
Owned(a, h) ==
  [g \in Handle |-> IF g = h THEN a
                    ELSE IF g = accountPrefs[a].handle THEN NoOne ELSE handleOwners[g]]

(* A bug: the old handle is let go before the new one is found to be taken.*)
PutReleasingFirst(r) ==
  LET a == request[r].account
      next == request[r].next
  IN /\ request[r].at = "read"
     /\ request' = [request EXCEPT ![r] = Idle]
     /\ IF Taken(a, next.handle)
        THEN /\ handleOwners' =
                 [g \in Handle |-> IF g = accountPrefs[a].handle THEN NoOne ELSE handleOwners[g]]
             /\ UNCHANGED <<accountPrefs, file>>
        ELSE /\ accountPrefs' = [accountPrefs EXCEPT ![a] = next]
             /\ handleOwners' = Owned(a, next.handle)
             /\ file' = accountPrefs' \/ UNCHANGED file

(* PutAccountPreferences: a handle that is someone else's is refused, and  *)
(* nothing changes; the store in memory keeps what the file would not take.*)
PutAccountPreferences(r) ==
  LET a == request[r].account
      next == request[r].next
  IN /\ request[r].at = "read"
     /\ request' = [request EXCEPT ![r] = Idle]
     /\ IF Taken(a, next.handle)
        THEN UNCHANGED <<accountPrefs, handleOwners, file>>
        ELSE /\ accountPrefs' = [accountPrefs EXCEPT ![a] = next]
             /\ handleOwners' = Owned(a, next.handle)
             /\ file' = accountPrefs' \/ UNCHANGED file

(* A restart: loadAccountPreferences, and the owners from the documents.   *)
OwnerIn(docs, h) ==
  IF \E a \in Account : docs[a].handle = h THEN CHOOSE a \in Account : docs[a].handle = h ELSE NoOne

Restart ==
  /\ accountPrefs' = file /\ UNCHANGED file
  /\ handleOwners' = [h \in Handle |-> OwnerIn(file, h)]
  /\ request' = [r \in Request |-> Idle]

Next == (\E r \in Request : Begin(r) \/ PutAccountPreferences(r)) \/ Restart
Spec == Init /\ [][Next]_vars

-----------------------------------------------------------------------------
(* A handle names one account, in memory and in the file a restart reads,  *)
(* and the index agrees with the documents, whatever requests overlap, are *)
(* refused or fail to be written: a handle nobody holds can be claimed, and*)
(* a claim never takes one away.                                           *)
HandlesUnique ==
  /\ \A h \in Handle, a \in Account : (handleOwners[h] = a) <=> (accountPrefs[a].handle = h)
  /\ \A a, b \in Account : file[a].handle # NoHandle /\ file[a].handle = file[b].handle => a = b
=============================================================================
