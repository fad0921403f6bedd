----------------------------- MODULE EditMembers -----------------------------
(***************************************************************************)
(* Who is a member of an editor session, what each may do, and who holds   *)
(* which lease: entry with a reconnect token, displaced connections, rights*)
(* read from the world's access record, invitations, leases on boards and  *)
(* on stats, and the writes they guard.                                    *)
(*                                                                         *)
(* What runs under EditorSession.mu is one action; the access record is a  *)
(* file, read and written with no lock at all, so the entry, the invitation*)
(* and the publication of a world are several actions each.                *)
(*                                                                         *)
(* Abstracted: a token and the presence it stands for are a seat's number; *)
(* a browser may present any token that was given out.  A board has one    *)
(* stat, whose program is known by who wrote it.  How edits reach the other*)
(* members is EditFan's subject; the files of a published world other than *)
(* its access record are PublishedWorlds'.                                 *)
(***************************************************************************)
EXTENDS Naturals, FiniteSets

CONSTANTS
  Client,    \* connections, each made once
  Account,   \* accounts that sign in
  Nobody,    \* no account, no client
  AccountOf, \* a connection's account, or Nobody
  MAX_BOARD,
  MaxSeats   \* Bound: memberships begun

ASSUME MembersAssumption ==
  /\ Nobody \notin Client \cup Account
  /\ AccountOf \in [Client -> Account \cup {Nobody}]
  /\ MAX_BOARD \in Nat /\ MaxSeats \in Nat

Board == 0 .. MAX_BOARD
Seat  == 1 .. MaxSeats

VARIABLES
  members, readOnly,
  seat,        \* memberToken, 0 for none
  tokenMember, \* tokenMember, Nobody for none
  nextMember,
  leases,      \* leases, Nobody for none
  boardCount,
  access,      \* the world's access record; without one it has no owner
  conn,        \* where a connection's goroutine is, and the record it read
  invited,     \* history: the accounts whose invitation was accepted
  raced        \* history: the record was used while someone was changing it

sessionVars == <<members, readOnly, seat, tokenMember, nextMember>>
workVars    == <<leases, boardCount>>
vars == <<sessionVars, workVars, access, conn, invited, raced>>

NoRecord == [owner |-> Nobody, guests |-> {}]

Init ==
  /\ members = {} /\ readOnly = {}
  /\ seat = [c \in Client |-> 0]
  /\ tokenMember = [t \in Seat |-> Nobody] /\ nextMember = 0
  /\ leases = [b \in Board |-> Nobody]
  /\ boardCount \in Board
  /\ access \in {NoRecord} \cup {[owner |-> a, guests |-> {}] : a \in Account}
  /\ conn = [c \in Client |-> [pc |-> "new", record |-> NoRecord, guest |-> Nobody]]
  /\ invited = {} /\ raced = FALSE

-----------------------------------------------------------------------------
(* WorldAccess.                                                            *)

CanEdit(record, a) ==
  record.owner = Nobody \/ (a # Nobody /\ a \in {record.owner} \cup record.guests)

IsOwner(record, a) == record.owner # Nobody /\ a = record.owner

AddCollaborator(record, a) ==
  IF a = record.owner THEN record ELSE [record EXCEPT !.guests = @ \cup {a}]

(* The session's own checks.                                               *)
MayEdit(c) == c \in members \ readOnly

Dropped(S, held) == [b \in Board |-> IF held[b] \in S THEN Nobody ELSE held[b]]

(* Whoever is alone needs no lease.                                        *)
HasLease(c, b) == MayEdit(c) /\ (Cardinality(members) <= 1 \/ leases[b] = c)

At(c, pc) == conn[c].pc = pc
Goto(c, pc) == conn' = [conn EXCEPT ![c].pc = pc]

(* Taking its browser's next message.  A connection that was displaced goes*)
(* on until its read fails, but is a member no more.                       *)
Working(c) == At(c, "loop")

-----------------------------------------------------------------------------
(* Coming and going.                                                       *)

(* A bug: the leases of the displaced connection are let go of by nobody.  *)
MovedNot(old, c, held) == held

(* The leases move with the membership.                                    *)
Moved(old, c, held) == [b \in Board |-> IF held[b] = old THEN c ELSE held[b]]

(* A member without a token, or with one that is no good.                  *)
EnterFresh(c) ==
  LET t == nextMember + 1 IN
  /\ At(c, "new") /\ t \in Seat
  /\ nextMember' = t
  /\ members' = members \cup {c}
  /\ seat' = [seat EXCEPT ![c] = t]
  /\ tokenMember' = [tokenMember EXCEPT ![t] = c]
  /\ Goto(c, "entered")
  /\ UNCHANGED <<readOnly, workVars, access, invited>>

(* resumeMemberLocked: the token's account must be this connection's.  The *)
(* connection it is taken from is closed.                                  *)
EnterResuming(c) ==
  \E t \in 1 .. nextMember :
    LET old == tokenMember[t] IN
    /\ At(c, "new") /\ old # Nobody /\ AccountOf[old] = AccountOf[c]
    /\ members' = (members \ {old}) \cup {c}
    /\ readOnly' = IF old \in readOnly THEN (readOnly \ {old}) \cup {c} ELSE readOnly
    /\ seat' = [seat EXCEPT ![c] = t, ![old] = 0]
    /\ tokenMember' = [tokenMember EXCEPT ![t] = c]
    /\ leases' = Moved(old, c, leases)
    /\ Goto(c, "entered")
    /\ UNCHANGED <<nextMember, boardCount, access, invited>>

(* editorCanEdit reads the record, and SetMemberReadOnly uses it.          *)
ReadRights(c) ==
  /\ At(c, "entered")
  /\ conn' = [conn EXCEPT ![c].pc = "judged", ![c].record = access]
  /\ UNCHANGED <<sessionVars, workVars, access, invited>>

SetMemberReadOnly(c) ==
  LET refused == c \in members /\ ~CanEdit(conn[c].record, AccountOf[c]) IN
  /\ At(c, "judged")
  /\ readOnly' = IF refused THEN readOnly \cup {c} ELSE readOnly \ {c}
  /\ leases' = IF refused THEN Dropped({c}, leases) ELSE leases
  /\ conn' = [conn EXCEPT ![c].pc = "loop", ![c].record = NoRecord]
  /\ UNCHANGED <<members, seat, tokenMember, nextMember,
                 boardCount, access, invited>>

(* A bug: the token index forgets the seat whoever sits there now.         *)
ExitAndClear(c) ==
  /\ At(c, "loop")
  /\ members' = members \ {c} /\ readOnly' = readOnly \ {c}
  /\ tokenMember' = [t \in Seat |-> IF t = seat[c] THEN Nobody ELSE tokenMember[t]]
  /\ leases' = leases
  /\ Goto(c, "ended")
  /\ UNCHANGED <<seat, nextMember, boardCount, access, invited>>

(* The browser leaves, or its next read fails.                             *)
Exit(c) ==
  /\ At(c, "loop")
  /\ members' = members \ {c} /\ readOnly' = readOnly \ {c}
  /\ tokenMember' = [t \in Seat |-> IF tokenMember[t] = c THEN Nobody ELSE tokenMember[t]]
  /\ seat' = [seat EXCEPT ![c] = 0]
  /\ leases' = Dropped({c}, leases)
  /\ Goto(c, "ended")
  /\ UNCHANGED <<nextMember, boardCount, access, invited>>

-----------------------------------------------------------------------------
(* Leases, and what they guard.                                            *)

(* A lease is asked for by the name of a board that exists; the name of    *)
(* another stands for the member's own board.                              *)
AcquireLease(c) ==
  \E b \in Board :
    /\ Working(c) /\ MayEdit(c) /\ b <= boardCount
    /\ leases[b] \in {Nobody, c}
    /\ leases' = [leases EXCEPT ![b] = c]
    /\ UNCHANGED <<sessionVars, boardCount, access, conn, invited>>

ReleaseLease(c) ==
  \E b \in Board :
    /\ Working(c) /\ b <= boardCount /\ leases[b] = c
    /\ leases' = [leases EXCEPT ![b] = Nobody]
    /\ UNCHANGED <<sessionVars, boardCount, access, conn, invited>>

(* NewWorld: one empty board is left.  ClearBoard, ImportBoard, SetProperty,*)
(* SetStat, ProgramText and SaveProgram ask for a lease likewise.          *)
NewWorld(c) ==
  /\ Working(c) /\ \E b \in 0 .. boardCount : HasLease(c, b)
  /\ boardCount' = 0
  /\ UNCHANGED <<sessionVars, leases, access, conn, invited>>

AddBoard(c) ==
  /\ Working(c) /\ MayEdit(c) /\ boardCount + 1 \in Board
  /\ boardCount' = boardCount + 1
  /\ UNCHANGED <<sessionVars, leases, access, conn, invited>>

(* UploadWorld asks for no lease.                                          *)
UploadWorld(c) ==
  /\ Working(c) /\ MayEdit(c)
  /\ boardCount' \in Board
  /\ UNCHANGED <<sessionVars, leases, access, conn, invited>>

-----------------------------------------------------------------------------
(* Invitations and publication: read the record, write it, tell the session.*)

Invite(c) ==
  \E a \in Account :
    /\ Working(c) /\ MayEdit(c) /\ AccountOf[c] # Nobody
    /\ IsOwner(access, AccountOf[c])
    /\ conn' = [conn EXCEPT ![c].pc = "inviting", ![c].record = access, ![c].guest = a]
    /\ UNCHANGED <<sessionVars, workVars, access, invited>>

WriteInvitation(c) ==
  /\ At(c, "inviting")
  /\ access' = AddCollaborator(conn[c].record, conn[c].guest)
  /\ Goto(c, "telling")
  /\ UNCHANGED <<sessionVars, workVars, invited>>

(* SetAccountReadOnly: every connection of the account that is a member.   *)
TellAccount(c) ==
  /\ At(c, "telling")
  /\ readOnly' = readOnly \ {m \in members : AccountOf[m] = conn[c].guest}
  /\ invited' = invited \cup {conn[c].guest}
  /\ conn' = [conn EXCEPT ![c].pc = "loop", ![c].record = NoRecord, ![c].guest = Nobody]
  /\ UNCHANGED <<members, seat, tokenMember, nextMember, workVars, access>>

(* saveEditorWorld: a world nobody owns becomes its publisher's; the record*)
(* that was read is written back.                                          *)
Publish(c) ==
  LET a == AccountOf[c] IN
  /\ Working(c) /\ MayEdit(c) /\ CanEdit(access, a)
  /\ conn' = [conn EXCEPT ![c].pc = "publishing",
               ![c].record = IF access.owner = Nobody THEN [access EXCEPT !.owner = a] ELSE access]
  /\ UNCHANGED <<sessionVars, workVars, access, invited>>

(* The world is serialized by Apply, which refuses who is no member.       *)
WritePublished(c) ==
  /\ At(c, "publishing")
  /\ access' = IF c \in members /\ conn[c].record.owner # Nobody THEN conn[c].record ELSE access
  /\ conn' = [conn EXCEPT ![c].pc = "loop", ![c].record = NoRecord]
  /\ UNCHANGED <<sessionVars, workVars, invited>>

-----------------------------------------------------------------------------
(* The record is being changed by one connection while another uses it.    *)
Changing == {c \in Client : conn[c].pc \in {"inviting", "telling", "publishing"}}
Judging  == {c \in Client : conn[c].pc \in {"entered", "judged"}}

Overlap == Cardinality(Changing) > 1 \/ (Changing # {} /\ Judging # {})

(* serveEditor: in, judged, and out at the end of its loop.                *)
Serve(c) ==
  EnterFresh(c) \/ EnterResuming(c) \/ ReadRights(c) \/ SetMemberReadOnly(c) \/ Exit(c)

Step(c) ==
  \/ Serve(c)
  \/ AcquireLease(c) \/ ReleaseLease(c) \/ NewWorld(c) \/ AddBoard(c) \/ UploadWorld(c)
  \/ Invite(c) \/ WriteInvitation(c) \/ TellAccount(c) \/ Publish(c) \/ WritePublished(c)

Next == (\E c \in Client : Step(c)) /\ raced' = (raced \/ Overlap')

Spec == Init /\ [][Next]_vars

-----------------------------------------------------------------------------
Record == [owner : Account \cup {Nobody}, guests : SUBSET Account]

ConnRecord ==
  [pc : {"new", "entered", "judged", "loop", "inviting", "telling", "publishing", "ended"},
   record : Record, guest : Account \cup {Nobody}]

TypeOK ==
  /\ members \subseteq Client /\ readOnly \subseteq members
  /\ seat \in [Client -> 0 .. MaxSeats]
  /\ tokenMember \in [Seat -> Client \cup {Nobody}] /\ nextMember \in 0 .. MaxSeats
  /\ leases \in [Board -> Client \cup {Nobody}]
  /\ boardCount \in Board
  /\ access \in Record /\ conn \in [Client -> ConnRecord]
  /\ invited \subseteq Account /\ raced \in BOOLEAN

(* memberToken and tokenMember "are two views of one mapping"              *)
(* (editor_session.go:65), whatever order a displaced connection and the   *)
(* one that took over leave in: every member can come back, as nobody else.*)
TokensAgree ==
  /\ \A c \in Client : (c \in members) <=> (seat[c] # 0)
  /\ \A c \in Client, t \in Seat : seat[c] = t <=> tokenMember[t] = c

(* Nobody is kept from a board or a program by someone who has left, was   *)
(* displaced or may not edit.                                              *)
LeasesHeldByEditors == \A b \in Board : leases[b] # Nobody => MayEdit(leases[b])

(* No stat and no board is written past another member's lease, not even by*)
(* the shortcut of a member who is alone.                                  *)
WritesRespectLeases ==
  \A c \in Client, b \in Board : HasLease(c, b) => leases[b] \in {Nobody, c}

(* Someone invited is in the record, and is not left read-only in the      *)
(* session "until they leave and come back" (websocket_server.go:3055).    *)
InvitedMayEdit ==
  \A a \in invited :
    /\ Changing = {} => CanEdit(access, a)
    /\ \A c \in members : AccountOf[c] = a /\ At(c, "loop") => c \notin readOnly

(* That much holds as long as nobody uses the record while another changes *)
(* it: no entry, invitation or publication overlaps another's.             *)
InvitedMayEditUnraced == ~raced => InvitedMayEdit
=============================================================================
