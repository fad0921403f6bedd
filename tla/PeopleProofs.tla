---------------------------- MODULE PeopleProofs ----------------------------
(***************************************************************************)
(* Theorems about the modules that People puts together, for any members,  *)
(* accounts, operators and bounds.                                         *)
(***************************************************************************)
EXTENDS People, Sequences, FiniteSetTheorems, TLAPS

-----------------------------------------------------------------------------
(* The members of an editor session.                                       *)

(* Connections that have come; only finitely many ever have.               *)
Started == {c \in Client : conn[c].pc # "new"}

(* Whoever is in the session came, and has not left it; seats are given out*)
(* in order; an invitation is somebody's.                                  *)
MembersPresent ==
  /\ IsFiniteSet(Started)
  /\ \A c \in members : conn[c].pc \notin {"new", "ended"}
  /\ \A t \in Seat : t > nextMember => tokenMember[t] = Nobody
  /\ \A c \in Client : conn[c].pc \in {"inviting", "telling"} => conn[c].guest \in Account

MembersInv == TypeOK /\ MembersPresent /\ TokensAgree /\ LeasesHeldByEditors

LEMMA InitMembersInv == Init => MembersInv
<1> SUFFICES ASSUME Init PROVE MembersInv
  OBVIOUS
<1> USE MembersAssumption DEF Init
<1>1. TypeOK
  <2>1. access \in Record
    BY DEF Record, NoRecord
  <2>2. conn \in [Client -> ConnRecord]
    BY DEF ConnRecord, Record, NoRecord
  <2>3. nextMember \in 0 .. MaxSeats /\ seat \in [Client -> 0 .. MaxSeats]
    OBVIOUS
  <2> QED BY <2>1, <2>2, <2>3 DEF TypeOK
<1>2. Started = {}
  BY DEF Started
<1>3. MembersPresent
  BY <1>2, FS_EmptySet DEF MembersPresent, Seat
<1>4. TokensAgree
  BY DEF TokensAgree, Seat
<1>5. LeasesHeldByEditors
  BY DEF LeasesHeldByEditors
<1> QED BY <1>1, <1>3, <1>4, <1>5 DEF MembersInv

LEMMA NoRecordTyped == NoRecord \in Record
BY DEF NoRecord, Record

LEMMA StartedStaysFinite ==
  ASSUME IsFiniteSet(Started), NEW c \in Client,
         \A d \in Client \ {c} : conn'[d].pc = conn[d].pc
  PROVE  IsFiniteSet(Started')
<1>1. Started' \subseteq Started \cup {c}
  BY DEF Started
<1>2. IsFiniteSet(Started \cup {c})
  BY FS_AddElement
<1> QED BY <1>1, <1>2, FS_Subset

(* A new member gets a seat nobody has had.                                *)
LEMMA EnterFreshKeeps ==
  ASSUME MembersInv, NEW c \in Client, EnterFresh(c), raced' \in BOOLEAN
  PROVE  MembersInv'
<1> USE MembersAssumption DEF MembersInv, EnterFresh, Goto, At, workVars
<1> DEFINE t == nextMember + 1
<1>0. seat[c] = 0 /\ tokenMember[t] = Nobody /\ c \notin members /\ t # 0
  BY DEF TypeOK, MembersPresent, TokensAgree, Seat
<1>1. TypeOK'
  <2>1. conn' \in [Client -> ConnRecord]
    BY DEF TypeOK, ConnRecord
  <2> QED BY <2>1 DEF TypeOK, Seat
<1>2. MembersPresent'
  <2>1. IsFiniteSet(Started')
    BY StartedStaysFinite DEF TypeOK, MembersPresent
  <2> QED BY <2>1 DEF MembersPresent, TypeOK, ConnRecord, Seat
<1>3. TokensAgree'
  BY <1>0 DEF TokensAgree, TypeOK, Seat
<1>4. LeasesHeldByEditors'
  BY DEF LeasesHeldByEditors, MayEdit
<1> QED BY <1>1, <1>2, <1>3, <1>4

(* Whoever resumes takes the seat, the rights and the leases of another.    *)
LEMMA EnterResumingKeeps ==
  ASSUME MembersInv, NEW c \in Client, EnterResuming(c), raced' \in BOOLEAN
  PROVE  MembersInv'
<1> USE MembersAssumption DEF MembersInv, Goto, At, workVars
<1>0. PICK t \in 1 .. nextMember : EnterResuming(c)!(t)
  BY DEF EnterResuming
<1> DEFINE old == tokenMember[t]
<1>1. /\ t \in Seat /\ old \in members /\ seat[old] = t /\ old # c
      /\ c \notin members /\ seat[c] = 0 /\ c \notin readOnly
  BY <1>0 DEF TypeOK, MembersPresent, TokensAgree, Seat
<1>2. TypeOK'
  <2>1. conn' \in [Client -> ConnRecord]
    BY <1>0 DEF TypeOK, ConnRecord
  <2>2. leases' \in [Board -> Client \cup {Nobody}]
    BY <1>0 DEF TypeOK, Moved
  <2>3. members' \subseteq Client /\ readOnly' \subseteq members'
    BY <1>0, <1>1 DEF TypeOK
  <2>4. seat' \in [Client -> 0 .. MaxSeats] /\ tokenMember' \in [Seat -> Client \cup {Nobody}]
    BY <1>0, <1>1 DEF TypeOK, Seat
  <2> QED BY <1>0, <2>1, <2>2, <2>3, <2>4 DEF TypeOK
<1>3. MembersPresent'
  <2>1. IsFiniteSet(Started')
    BY <1>0, StartedStaysFinite DEF TypeOK, MembersPresent
  <2>2. \A m \in members' : conn'[m].pc \notin {"new", "ended"}
    BY <1>0, <1>1 DEF MembersPresent, TypeOK, ConnRecord
  <2>3. \A s \in Seat : s > nextMember' => tokenMember'[s] = Nobody
    BY <1>0, <1>1 DEF MembersPresent, TypeOK, Seat
  <2>4. conn'[c].pc = "entered" /\ \A d \in Client \ {c} : conn'[d] = conn[d]
    BY <1>0 DEF TypeOK
  <2> QED BY <2>1, <2>2, <2>3, <2>4 DEF MembersPresent
<1>4. TokensAgree'
  BY <1>0, <1>1 DEF TokensAgree, TypeOK, Seat
<1>5. LeasesHeldByEditors'
  BY <1>0, <1>1 DEF LeasesHeldByEditors, MayEdit, Moved, TypeOK
<1> QED BY <1>2, <1>3, <1>4, <1>5

(* What the record says decides, unless the connection was displaced.      *)
LEMMA JudgingKeeps ==
  ASSUME MembersInv, NEW c \in Client, ReadRights(c) \/ SetMemberReadOnly(c),
         raced' \in BOOLEAN
  PROVE  MembersInv'
<1> USE MembersAssumption, NoRecordTyped DEF MembersInv, ReadRights, SetMemberReadOnly, At, sessionVars, workVars
<1>1. TypeOK'
  <2>1. conn' \in [Client -> ConnRecord]
    BY SMTT(30) DEF TypeOK, ConnRecord
  <2>2. leases' \in [Board -> Client \cup {Nobody}] /\ readOnly' \subseteq members'
    BY DEF TypeOK, Dropped
  <2> QED BY <2>1, <2>2 DEF TypeOK
<1>2. MembersPresent'
  <2>1. IsFiniteSet(Started')
    <3>1. \A d \in Client \ {c} : conn'[d].pc = conn[d].pc
      BY DEF TypeOK
    <3> QED BY <3>1, StartedStaysFinite DEF MembersPresent
  <2>2. conn'[c].pc \in {"judged", "loop"} /\ \A d \in Client \ {c} : conn'[d] = conn[d]
    <3>1. CASE ReadRights(c)
      BY <3>1 DEF TypeOK
    <3>2. CASE SetMemberReadOnly(c)
      BY <3>2 DEF TypeOK
    <3> QED BY <3>1, <3>2
  <2>3. c \in members => conn'[c].pc \notin {"new", "ended"}
    BY <2>2
  <2>4. UNCHANGED <<members, tokenMember, nextMember>>
    OBVIOUS
  <2> QED BY <2>1, <2>2, <2>3, <2>4 DEF MembersPresent, TypeOK
<1>3. TokensAgree'
  BY DEF TokensAgree
<1>4. LeasesHeldByEditors'
  BY DEF LeasesHeldByEditors, MayEdit, Dropped, TypeOK
<1> QED BY <1>1, <1>2, <1>3, <1>4

LEMMA ExitKeeps ==
  ASSUME MembersInv, NEW c \in Client, Exit(c), raced' \in BOOLEAN
  PROVE  MembersInv'
<1> USE MembersAssumption DEF MembersInv, Exit, Goto, At
<1>1. TypeOK'
  <2>1. conn' \in [Client -> ConnRecord]
    BY DEF TypeOK, ConnRecord
  <2>2. /\ leases' \in [Board -> Client \cup {Nobody}]
        /\ tokenMember' \in [Seat -> Client \cup {Nobody}]
        /\ seat' \in [Client -> 0 .. MaxSeats]
    BY DEF TypeOK, Dropped
  <2> QED BY <2>1, <2>2 DEF TypeOK
<1>2. MembersPresent'
  <2>1. IsFiniteSet(Started')
    BY StartedStaysFinite DEF TypeOK, MembersPresent
  <2>2. conn'[c].pc = "ended" /\ \A d \in Client \ {c} : conn'[d] = conn[d]
    BY DEF TypeOK
  <2>3. \A m \in members' : conn'[m].pc \notin {"new", "ended"}
    BY <2>2 DEF MembersPresent, TypeOK
  <2>4. \A s \in Seat : s > nextMember' => tokenMember'[s] = Nobody
    BY DEF MembersPresent, TypeOK
  <2> QED BY <2>1, <2>2, <2>3, <2>4 DEF MembersPresent
<1>3. TokensAgree'
  BY DEF TokensAgree, TypeOK, Seat
<1>4. LeasesHeldByEditors'
  BY DEF LeasesHeldByEditors, MayEdit, Dropped, TypeOK
<1> QED BY <1>1, <1>2, <1>3, <1>4

(* At work, members touch the leases, the boards and the access record.    *)
LEMMA WorkKeeps ==
  ASSUME MembersInv, NEW c \in Client, raced' \in BOOLEAN,
         AcquireLease(c) \/ ReleaseLease(c) \/ NewWorld(c) \/ AddBoard(c) \/ UploadWorld(c)
  PROVE  MembersInv'
<1> USE MembersAssumption DEF MembersInv
<1>1. UNCHANGED <<members, readOnly, seat, tokenMember, nextMember, access, conn, invited>>
  BY DEF AcquireLease, ReleaseLease, NewWorld, AddBoard, UploadWorld, sessionVars
<1>2. boardCount' \in Board
  BY DEF AcquireLease, ReleaseLease, NewWorld, AddBoard, UploadWorld, TypeOK, Board
<1>3. /\ leases' \in [Board -> Client \cup {Nobody}]
      /\ \A b \in Board : leases'[b] # leases[b] => leases'[b] = Nobody \/ MayEdit(leases'[b])
  BY DEF AcquireLease, ReleaseLease, NewWorld, AddBoard, UploadWorld, TypeOK
<1>4. TypeOK'
  BY <1>1, <1>2, <1>3 DEF TypeOK
<1>5. MembersPresent' /\ TokensAgree'
  BY <1>1 DEF MembersPresent, TokensAgree, Started
<1>6. LeasesHeldByEditors'
  BY <1>1, <1>3 DEF LeasesHeldByEditors, MayEdit
<1> QED BY <1>4, <1>5, <1>6

(* An invitation or a publication is told to the session at its end.       *)
LEMMA RecordKeeps ==
  ASSUME MembersInv, NEW c \in Client, raced' \in BOOLEAN,
         Invite(c) \/ WriteInvitation(c) \/ TellAccount(c) \/ Publish(c) \/ WritePublished(c)
  PROVE  MembersInv'
<1> USE MembersAssumption DEF MembersInv, sessionVars, workVars
<1> DEFINE AtWork == {"loop", "inviting", "telling", "publishing"}
<1>0. /\ conn \in [Client -> ConnRecord] /\ access \in Record
      /\ conn[c].record \in Record /\ conn[c].guest \in Account \cup {Nobody}
  BY DEF TypeOK, ConnRecord
<1>1. UNCHANGED <<members, seat, tokenMember, nextMember, leases, boardCount>>
  BY DEF Invite, WriteInvitation, TellAccount, Publish, WritePublished
<1>2. readOnly' \subseteq readOnly
  BY DEF Invite, WriteInvitation, TellAccount, Publish, WritePublished
<1>3. /\ conn[c].pc \in AtWork /\ conn' \in [Client -> ConnRecord] /\ conn'[c].pc \in AtWork
      /\ \A d \in Client \ {c} : conn'[d] = conn[d]
      /\ conn'[c].pc \in {"inviting", "telling"} => conn'[c].guest \in Account
  <2> USE DEF At, Working, ConnRecord
  <2>1. CASE Invite(c)
    <3>1. PICK a \in Account : Invite(c)!(a)
      BY <2>1 DEF Invite
    <3> QED BY <1>0, <3>1, ZenonT(30)
  <2>2. CASE WriteInvitation(c)
    <3>1. conn[c].guest \in Account
      BY <2>2 DEF WriteInvitation, MembersPresent
    <3> QED BY <1>0, <2>2, <3>1 DEF WriteInvitation, Goto
  <2>3. CASE TellAccount(c)
    BY <1>0, <2>3, NoRecordTyped DEF TellAccount
  <2>4. CASE Publish(c)
    <3>1. [access EXCEPT !.owner = AccountOf[c]] \in Record
      BY <1>0 DEF Record
    <3> QED BY <1>0, <2>4, <3>1 DEF Publish
  <2>5. CASE WritePublished(c)
    BY <1>0, <2>5, NoRecordTyped DEF WritePublished
  <2> QED BY <2>1, <2>2, <2>3, <2>4, <2>5
<1>4. IsFiniteSet(Started')
  BY <1>3, StartedStaysFinite DEF MembersPresent
<1>5. invited' \subseteq Account
  <2>1. CASE TellAccount(c)
    BY <2>1 DEF TellAccount, At, MembersPresent, TypeOK
  <2> QED BY <2>1 DEF Invite, WriteInvitation, Publish, WritePublished, TypeOK
<1>6. access' \in Record
  <2>1. CASE WriteInvitation(c)
    BY <1>0, <2>1 DEF WriteInvitation, AddCollaborator, Record, At, MembersPresent
  <2> QED BY <1>0, <2>1 DEF Invite, TellAccount, Publish, WritePublished
<1>7. TypeOK'
  BY <1>1, <1>2, <1>3, <1>5, <1>6 DEF TypeOK
<1>8. MembersPresent'
  BY <1>1, <1>3, <1>4 DEF MembersPresent, TypeOK
<1>9. TokensAgree' /\ LeasesHeldByEditors'
  BY <1>1, <1>2 DEF TokensAgree, LeasesHeldByEditors, MayEdit
<1> QED BY <1>7, <1>8, <1>9

LEMMA NextMembersInv == MembersInv /\ [Next]_vars => MembersInv'
<1> SUFFICES ASSUME MembersInv, [Next]_vars PROVE MembersInv'
  OBVIOUS
<1>1. CASE UNCHANGED vars
  BY <1>1 DEF vars, sessionVars, workVars, MembersInv, TypeOK, MembersPresent, Started,
              TokensAgree, LeasesHeldByEditors, MayEdit
<1>2. CASE Next
  <2>1. PICK c \in Client : Step(c)
    BY <1>2 DEF Next
  <2>2. raced' \in BOOLEAN
    BY <1>2 DEF Next, Overlap, MembersInv, TypeOK
  <2> QED BY <2>1, <2>2, EnterFreshKeeps, EnterResumingKeeps, JudgingKeeps, ExitKeeps, WorkKeeps,
             RecordKeeps DEF Step, Serve
<1> QED BY <1>1, <1>2

LEMMA MembersInvariance == Spec => []MembersInv
BY InitMembersInv, NextMembersInv, PTL DEF Spec

(* memberToken and tokenMember are one mapping, whatever order a displaced *)
(* connection and the one that took over leave in.                         *)
THEOREM TokensAgreeAlways == Spec => []TokensAgree
<1>1. MembersInv => TokensAgree
  BY DEF MembersInv
<1> QED BY <1>1, MembersInvariance, PTL

LEMMA AtMostOne ==
  ASSUME NEW S, IsFiniteSet(S), ~(Cardinality(S) > 1)
  PROVE  \A x, y \in S : x = y
<1> SUFFICES ASSUME NEW x \in S, NEW y \in S, x # y PROVE FALSE
  OBVIOUS
<1>1. /\ IsFiniteSet(S \ {x}) /\ Cardinality(S \ {x}) = Cardinality(S) - 1
      /\ Cardinality(S) \in Nat /\ Cardinality(S \ {x}) \in Nat
  BY FS_RemoveElement, FS_CardinalityType
<1>2. Cardinality(S \ {x}) = 0
  BY <1>1
<1> QED BY <1>1, <1>2, FS_EmptySet

(* A member who is alone finds no lease in the way.                        *)
LEMMA WritesRespected == MembersInv => WritesRespectLeases
<1> SUFFICES ASSUME MembersInv, NEW c \in Client, NEW b \in Board, HasLease(c, b)
             PROVE  leases[b] \in {Nobody, c}
  BY DEF WritesRespectLeases
<1>1. IsFiniteSet(members)
  <2>1. members \subseteq Started
    BY DEF MembersInv, MembersPresent, TypeOK, Started
  <2> QED BY <2>1, FS_Subset DEF MembersInv, MembersPresent
<1>2. c \in members /\ (leases[b] = Nobody \/ leases[b] \in members)
  BY DEF HasLease, MembersInv, LeasesHeldByEditors, MayEdit
<1>3. CASE Cardinality(members) <= 1
  <2>1. ~(Cardinality(members) > 1)
    BY <1>1, <1>3, FS_CardinalityType
  <2> QED BY <1>1, <1>2, <2>1, AtMostOne
<1> QED BY <1>3 DEF HasLease

(* While no two connections used the access record at once: what each read *)
(* of it is still so, and whoever was invited is in it and may edit.       *)
AtRecord == {"inviting", "telling", "publishing"}

OneAtATime ==
  \A c, d \in Client : c # d /\ conn[c].pc \in AtRecord =>
                       conn[d].pc \notin AtRecord \cup {"entered", "judged"}

RecordUsed(c) ==
  /\ conn[c].pc \in {"judged", "inviting"} => conn[c].record = access
  /\ conn[c].pc \in {"inviting", "telling"} => access.owner # Nobody
  /\ conn[c].pc = "telling" => CanEdit(access, conn[c].guest)
  /\ conn[c].pc = "publishing" /\ access.owner # Nobody => conn[c].record = access

InvitedHold ==
  /\ \A a \in invited : access.owner # Nobody /\ CanEdit(access, a)
  /\ \A c \in members : conn[c].pc \in AtRecord \cup {"loop"} /\ AccountOf[c] \in invited
                        => c \notin readOnly

UnracedInv == ~raced => OneAtATime /\ InvitedHold /\ \A c \in Client : RecordUsed(c)

LEMMA InitUnracedInv == Init => UnracedInv
BY DEF Init, UnracedInv, OneAtATime, InvitedHold, RecordUsed, AtRecord

(* Overlap, which raced remembers, is anybody at the record with another.  *)
LEMMA OneUnlessOverlap ==
  ASSUME MembersInv', ~Overlap' PROVE OneAtATime'
<1>1. IsFiniteSet(Changing')
  <2>1. Changing' \subseteq Started'
    BY DEF Changing, Started
  <2> QED BY <2>1, FS_Subset DEF MembersInv, MembersPresent
<1>2. \A c, d \in Changing' : c = d
  BY <1>1, AtMostOne DEF Overlap
<1>3. Changing' = {} \/ Judging' = {}
  BY DEF Overlap
<1> QED BY <1>2, <1>3 DEF OneAtATime, Changing, Judging, AtRecord

(* What changes neither the record nor who was invited.                    *)
LEMMA ServeKeepsUnraced ==
  ASSUME MembersInv, NEW c \in Client, Serve(c),
         InvitedHold, \A d \in Client : RecordUsed(d)
  PROVE  InvitedHold' /\ \A d \in Client : RecordUsed(d)'
<1> USE DEF MembersInv, TypeOK, Goto, At, sessionVars, workVars
<1>1. /\ UNCHANGED <<access, invited>>
      /\ \A d \in Client \ {c} : conn'[d] = conn[d]
      /\ conn'[c].pc \in {"entered", "judged", "loop", "ended"}
      /\ conn'[c].pc = "judged" => conn'[c].record = access
  <2>1. CASE EnterFresh(c)
    BY <2>1 DEF EnterFresh
  <2>2. CASE EnterResuming(c)
    BY <2>2 DEF EnterResuming
  <2>3. CASE ReadRights(c)
    BY <2>3 DEF ReadRights
  <2>4. CASE SetMemberReadOnly(c)
    BY <2>4 DEF SetMemberReadOnly
  <2>5. CASE Exit(c)
    BY <2>5 DEF Exit
  <2> QED BY <2>1, <2>2, <2>3, <2>4, <2>5 DEF Serve
<1>2. \A d \in Client : RecordUsed(d)'
  <2> SUFFICES ASSUME NEW d \in Client PROVE RecordUsed(d)'
    OBVIOUS
  <2>1. CASE d = c
    BY <1>1, <2>1 DEF RecordUsed
  <2>2. CASE d # c
    BY <1>1, <2>2 DEF RecordUsed, CanEdit
  <2> QED BY <2>1, <2>2
<1>3. ASSUME NEW m \in members', conn'[m].pc \in AtRecord \cup {"loop"}, AccountOf[m] \in invited'
      PROVE  m \notin readOnly'
  <2> USE DEF InvitedHold, AtRecord
  <2>1. CASE EnterFresh(c)
    BY <1>1, <1>3, <2>1 DEF EnterFresh
  <2>2. CASE EnterResuming(c)
    <3>1. PICK t \in 1 .. nextMember : EnterResuming(c)!(t)
      BY <2>2 DEF EnterResuming
    <3>2. m # c
      BY <1>3, <3>1
    <3> QED BY <1>1, <1>3, <3>1, <3>2
  <2>3. CASE ReadRights(c)
    BY <1>1, <1>3, <2>3 DEF ReadRights
  <2>4. CASE SetMemberReadOnly(c)
    <3>1. conn[c].record = access
      BY <2>4 DEF SetMemberReadOnly, RecordUsed
    <3> QED BY <1>1, <1>3, <2>4, <3>1 DEF SetMemberReadOnly
  <2>5. CASE Exit(c)
    BY <1>1, <1>3, <2>5 DEF Exit
  <2> QED BY <2>1, <2>2, <2>3, <2>4, <2>5 DEF Serve
<1>4. InvitedHold'
  BY <1>1, <1>3 DEF InvitedHold, CanEdit
<1> QED BY <1>2, <1>4

LEMMA WorkKeepsUnraced ==
  ASSUME NEW c \in Client, InvitedHold, \A d \in Client : RecordUsed(d),
         AcquireLease(c) \/ ReleaseLease(c) \/ NewWorld(c) \/ AddBoard(c) \/ UploadWorld(c)
  PROVE  InvitedHold' /\ \A d \in Client : RecordUsed(d)'
<1>1. UNCHANGED <<members, readOnly, access, conn, invited>>
  BY DEF AcquireLease, ReleaseLease, NewWorld, AddBoard, UploadWorld, sessionVars
<1> QED BY <1>1 DEF InvitedHold, RecordUsed, CanEdit

(* Reading the record, to change it.                                       *)
LEMMA AskingKeepsUnraced ==
  ASSUME MembersInv, NEW c \in Client, Invite(c) \/ Publish(c),
         InvitedHold, \A d \in Client : RecordUsed(d)
  PROVE  InvitedHold' /\ \A d \in Client : RecordUsed(d)'
<1> USE DEF MembersInv, TypeOK, At, sessionVars, workVars, Working
<1>1. /\ UNCHANGED <<members, readOnly, access, invited>> /\ conn[c].pc = "loop"
      /\ \A d \in Client \ {c} : conn'[d] = conn[d]
      /\ conn'[c].pc \in {"inviting", "publishing"}
      /\ conn'[c].pc = "inviting" => conn'[c].record = access /\ access.owner # Nobody
      /\ conn'[c].pc = "publishing" /\ access.owner # Nobody => conn'[c].record = access
  <2>1. CASE Invite(c)
    <3>1. PICK a \in Account : Invite(c)!(a)
      BY <2>1 DEF Invite
    <3> QED BY <3>1 DEF IsOwner
  <2>2. CASE Publish(c)
    BY <2>2 DEF Publish
  <2> QED BY <2>1, <2>2
<1>2. \A d \in Client : RecordUsed(d)'
  BY <1>1 DEF RecordUsed, CanEdit
<1>3. InvitedHold'
  BY <1>1 DEF InvitedHold, CanEdit, AtRecord
<1> QED BY <1>2, <1>3

(* Changing the record, while nobody else has read it.                     *)
LEMMA ChangingKeepsUnraced ==
  ASSUME MembersInv, NEW c \in Client, WriteInvitation(c) \/ TellAccount(c) \/ WritePublished(c),
         OneAtATime, InvitedHold, \A d \in Client : RecordUsed(d)
  PROVE  InvitedHold' /\ \A d \in Client : RecordUsed(d)'
<1> USE DEF MembersInv, TypeOK, Goto, At, sessionVars, workVars
<1>0. /\ conn[c].pc \in AtRecord
      /\ \A d \in Client \ {c} : conn[d].pc \notin AtRecord \cup {"entered", "judged"}
  BY DEF OneAtATime, WriteInvitation, TellAccount, WritePublished, AtRecord
<1>1. /\ members' = members /\ \A d \in Client \ {c} : conn'[d] = conn[d]
      /\ conn'[c].pc \in {"telling", "loop"} /\ readOnly' \subseteq readOnly
  <2>1. CASE WriteInvitation(c)
    BY <2>1 DEF WriteInvitation
  <2>2. CASE TellAccount(c)
    BY <2>2 DEF TellAccount
  <2>3. CASE WritePublished(c)
    BY <2>3 DEF WritePublished
  <2> QED BY <2>1, <2>2, <2>3
<1>2. /\ access.owner # Nobody => access'.owner = access.owner /\ access.guests \subseteq access'.guests
      /\ conn'[c].pc = "telling" => access'.owner # Nobody /\ CanEdit(access', conn'[c].guest)
  <2>1. CASE WriteInvitation(c)
    <3>1. /\ conn[c].record = access /\ access.owner # Nobody
          /\ conn[c].guest \in Account /\ access \in Record
      BY <2>1 DEF WriteInvitation, RecordUsed, MembersPresent
    <3>2. /\ access'.owner = access.owner
          /\ access.guests \subseteq access'.guests
          /\ conn[c].guest \in {access.owner} \cup access'.guests
      BY <2>1, <3>1 DEF WriteInvitation, AddCollaborator, Record
    <3>3. conn'[c].guest = conn[c].guest
      BY <2>1 DEF WriteInvitation, ConnRecord
    <3> QED BY <3>1, <3>2, <3>3, MembersAssumption DEF CanEdit
  <2>2. CASE TellAccount(c)
    BY <2>2 DEF TellAccount
  <2>3. CASE WritePublished(c)
    <3>1. access.owner # Nobody => conn[c].record = access
      BY <2>3 DEF WritePublished, RecordUsed
    <3> QED BY <2>3, <3>1 DEF WritePublished
  <2> QED BY <2>1, <2>2, <2>3
<1>3. \A a \in invited' : access.owner # Nobody /\ CanEdit(access, a)
  <2>1. CASE TellAccount(c)
    BY <2>1 DEF TellAccount, InvitedHold, RecordUsed
  <2> QED BY <2>1 DEF WriteInvitation, WritePublished, InvitedHold
<1>4. \A a \in invited' : access'.owner # Nobody /\ CanEdit(access', a)
  BY <1>2, <1>3 DEF CanEdit
<1>5. \A m \in members' : conn'[m].pc \in AtRecord \cup {"loop"} /\ AccountOf[m] \in invited'
                          => m \notin readOnly'
  <2>1. \A m \in members : conn'[m].pc \in AtRecord \cup {"loop"} => conn[m].pc \in AtRecord \cup {"loop"}
    BY <1>0, <1>1
  <2>2. CASE TellAccount(c)
    BY <1>1, <2>1, <2>2 DEF TellAccount, InvitedHold
  <2> QED BY <1>1, <2>1, <2>2 DEF WriteInvitation, WritePublished, InvitedHold
<1>6. \A d \in Client : RecordUsed(d)'
  <2> SUFFICES ASSUME NEW d \in Client PROVE RecordUsed(d)'
    OBVIOUS
  <2>1. CASE d = c
    BY <1>1, <1>2, <2>1 DEF RecordUsed
  <2>2. CASE d # c
    BY <1>0, <1>1, <2>2 DEF RecordUsed, AtRecord
  <2> QED BY <2>1, <2>2
<1> QED BY <1>4, <1>5, <1>6 DEF InvitedHold

LEMMA NextUnracedInv == MembersInv /\ MembersInv' /\ UnracedInv /\ [Next]_vars => UnracedInv'
<1> SUFFICES ASSUME MembersInv, MembersInv', UnracedInv, [Next]_vars, ~raced' PROVE
      OneAtATime' /\ InvitedHold' /\ \A d \in Client : RecordUsed(d)'
  BY DEF UnracedInv
<1>1. CASE UNCHANGED vars
  BY <1>1 DEF vars, sessionVars, workVars, UnracedInv, OneAtATime, InvitedHold, RecordUsed, CanEdit
<1>2. CASE Next
  <2>1. PICK c \in Client : Step(c)
    BY <1>2 DEF Next
  <2>2. ~raced /\ ~Overlap'
    BY <1>2 DEF Next, Overlap, MembersInv, TypeOK
  <2>3. OneAtATime'
    BY <2>2, OneUnlessOverlap
  <2>4. OneAtATime /\ InvitedHold /\ \A d \in Client : RecordUsed(d)
    BY <2>2 DEF UnracedInv
  <2> QED BY <2>1, <2>3, <2>4, ServeKeepsUnraced, WorkKeepsUnraced, AskingKeepsUnraced,
             ChangingKeepsUnraced DEF Step
<1> QED BY <1>1, <1>2

LEMMA UnracedInvariance == Spec => []UnracedInv
<1>1. MembersInv /\ MembersInv' /\ UnracedInv /\ [Next]_vars => UnracedInv'
  BY NextUnracedInv
<1> QED BY <1>1, InitUnracedInv, MembersInvariance, PTL DEF Spec

(* Leases are held by those who may edit and respected by every write, and *)
(* whoever was invited may edit as long as no uses of the record overlap.  *)
THEOREM RightsKeptAlways == Spec => []RightsKept
<1>1. MembersInv /\ UnracedInv => RightsKept
  <2>1. MembersInv /\ UnracedInv => InvitedMayEditUnraced
    BY DEF UnracedInv, InvitedMayEditUnraced, InvitedMayEdit, InvitedHold, At
  <2> QED BY <2>1, WritesRespected DEF RightsKept, MembersInv
<1> QED BY <1>1, MembersInvariance, UnracedInvariance, PTL

-----------------------------------------------------------------------------
(* Operators and their sanctions.                                          *)

SanctionRequest ==
  [step : {"none", "act", "audit", "answer"},
   action : {"none", "mute", "unmute", "refuse", "lift"},
   conn : DoorConn \cup {0}, account : DoorAccount \cup {Guest}]

ModerationTypes ==
  /\ doorAt \in [DoorConn -> {"none", "door", "in"}]
  /\ doorOwner \in [DoorConn -> DoorAccount \cup {Guest}]
  /\ mutes \in [players : SUBSET (DoorConn \cup {0}), accounts : SUBSET DoorAccount]
  /\ refused \subseteq DoorAccount /\ document \subseteq DoorAccount
  /\ request \in [Operator -> SanctionRequest]
  /\ told \in [muted : SUBSET DoorAccount, refused : SUBSET DoorAccount]

(* A sanction that was carried out is in force until it is withdrawn, and  *)
(* on record by the time it is answered.                                   *)
Follows(o) ==
  LET a == request[o].account
      on == request[o].step \in {"audit", "answer"}
      recorded == request[o].step = "answer"
  IN /\ on /\ request[o].action = "refuse" => a \in document
     /\ on /\ request[o].action = "mute"   => a \in mutes.accounts \cup {Guest}
     /\ recorded /\ request[o].action = "refuse" => <<"refuse", a>> \in audit
     /\ recorded /\ request[o].action = "mute" /\ a # Guest => <<"mute", a>> \in audit

ToldHold ==
  /\ \A a \in told.refused : a \in document /\ <<"refuse", a>> \in audit
  /\ \A a \in told.muted : a \in mutes.accounts /\ <<"mute", a>> \in audit

SanctionsInv ==
  /\ ModerationTypes
  /\ document \subseteq refused
  /\ \A o \in Operator : Follows(o)
  /\ ToldHold

LEMMA InitSanctionsInv == Moderation!Init => SanctionsInv
BY DEF Moderation!Init, Moderation!NoRequest, SanctionsInv, ModerationTypes, SanctionRequest, Follows, ToldHold

(* Players come and go, and the server may start again.                    *)
LEMMA PlayersKeepSanctions ==
  ASSUME SanctionsInv, NEW c \in DoorConn,
         (\E a \in Moderation!Who : Moderation!Door(c, a)) \/ Moderation!Join(c) \/ Moderation!Leave(c)
  PROVE  SanctionsInv'
<1>1. /\ UNCHANGED <<refused, document, audit, request, told>>
      /\ mutes'.accounts = mutes.accounts
      /\ mutes' \in [players : SUBSET (DoorConn \cup {0}), accounts : SUBSET DoorAccount]
  BY DEF Moderation!Door, Moderation!Join, Moderation!Leave, Moderation!Forget, Moderation!Store,
         SanctionsInv, ModerationTypes
<1>2. /\ doorAt' \in [DoorConn -> {"none", "door", "in"}]
      /\ doorOwner' \in [DoorConn -> DoorAccount \cup {Guest}]
  BY DEF Moderation!Door, Moderation!Join, Moderation!Leave, Moderation!Who, SanctionsInv, ModerationTypes
<1> QED BY <1>1, <1>2 DEF SanctionsInv, ModerationTypes, Follows, ToldHold

LEMMA RestartKeepsSanctions ==
  ASSUME SanctionsInv, Moderation!Restart PROVE SanctionsInv'
BY DEF Moderation!Restart, Moderation!NoRequest, SanctionsInv, ModerationTypes, SanctionRequest, Follows, ToldHold

(* An operator's next request.                                             *)
LEMMA AskingKeepsSanctions ==
  ASSUME SanctionsInv, NEW o \in Operator,
         \/ \E a \in {"mute", "unmute", "refuse"}, c \in DoorConn : Moderation!Locate(o, a, c)
         \/ \E a \in DoorAccount : Moderation!AskLift(o, a)
  PROVE  SanctionsInv'
<1>1. PICK req \in SanctionRequest : req.step = "act" /\ request' = [request EXCEPT ![o] = req]
  BY DEF Moderation!Locate, Moderation!AskLift, Moderation!Step, SanctionsInv, ModerationTypes, SanctionRequest
<1>2. UNCHANGED <<doorAt, doorOwner, mutes, refused, document, audit, told>>
  BY DEF Moderation!Locate, Moderation!AskLift
<1>3. \A p \in Operator : Follows(p)'
  BY <1>1, <1>2 DEF SanctionsInv, ModerationTypes, Follows
<1> QED BY <1>1, <1>2, <1>3 DEF SanctionsInv, ModerationTypes, ToldHold

LEMMA NoRequestTyped == Moderation!NoRequest \in SanctionRequest
BY DEF Moderation!NoRequest, SanctionRequest

(* What Done and Withdrawn leave of the requests.                          *)
LEMMA RequestsAfter ==
  ASSUME SanctionsInv, NEW o \in Operator, NEW s \in {"mute", "refuse"}
  PROVE  /\ Moderation!Done(o) \in SanctionRequest
         /\ Moderation!Done(o).step = "audit"
         /\ Moderation!Done(o).action = request[o].action
         /\ Moderation!Done(o).account = request[o].account
         /\ Moderation!Withdrawn(o, s) \in [Operator -> SanctionRequest]
BY NoRequestTyped DEF Moderation!Done, Moderation!Withdrawn, SanctionsInv, ModerationTypes, SanctionRequest

LEMMA ActKeepsSanctions ==
  ASSUME SanctionsInv, NEW o \in Operator, Moderation!Act(o)
  PROVE  SanctionsInv'
<1> DEFINE a == request[o].account
<1>0. /\ request[o] \in SanctionRequest /\ a \in DoorAccount \cup {Guest}
      /\ UNCHANGED <<doorAt, doorOwner, audit>>
  BY DEF SanctionsInv, ModerationTypes, SanctionRequest, Moderation!Act
<1>1. CASE request[o].action = "mute" /\ Moderation!Mute(o)
  <2>1. /\ mutes'.accounts = mutes.accounts \cup ({a} \ {Guest})
        /\ mutes' \in [players : SUBSET (DoorConn \cup {0}), accounts : SUBSET DoorAccount]
        /\ UNCHANGED <<refused, document, told>>
    BY <1>0, <1>1 DEF Moderation!Mute, SanctionsInv, ModerationTypes, SanctionRequest
  <2>2. /\ request' \in [Operator -> SanctionRequest]
        /\ \A p \in Operator \ {o} : request'[p] = request[p]
        /\ request'[o].step = "audit" /\ request'[o].action = "mute" /\ request'[o].account = a
    BY <1>1, RequestsAfter DEF Moderation!Mute, Moderation!Step, SanctionsInv, ModerationTypes
  <2>3. \A p \in Operator : Follows(p)'
    BY <1>0, <2>1, <2>2 DEF SanctionsInv, Follows
  <2> QED BY <1>0, <2>1, <2>2, <2>3 DEF SanctionsInv, ModerationTypes, ToldHold
<1>2. CASE request[o].action = "unmute" /\ Moderation!Unmute(o)
  <2>1. /\ mutes'.accounts = mutes.accounts \ {a}
        /\ mutes' \in [players : SUBSET (DoorConn \cup {0}), accounts : SUBSET DoorAccount]
        /\ told'.muted = told.muted \ {a} /\ told'.refused = told.refused
        /\ told' \in [muted : SUBSET DoorAccount, refused : SUBSET DoorAccount]
        /\ UNCHANGED <<refused, document>>
    BY <1>0, <1>2 DEF Moderation!Unmute, SanctionsInv, ModerationTypes
  <2>2. request' \in [Operator -> SanctionRequest] /\ request' = Moderation!Withdrawn(o, "mute")
    BY <1>2, RequestsAfter DEF Moderation!Unmute
  <2>3. \A p \in Operator : Follows(p)'
    BY <1>0, <2>1, <2>2 DEF SanctionsInv, Follows, Moderation!Withdrawn, Moderation!NoRequest
  <2> QED BY <1>0, <2>1, <2>2, <2>3 DEF SanctionsInv, ModerationTypes, ToldHold
<1>3. CASE request[o].action = "refuse" /\ Moderation!Refuse(o)
  <2>1. /\ refused \subseteq refused' /\ refused' \subseteq DoorAccount
        /\ document \subseteq document' /\ document' \subseteq refused'
        /\ UNCHANGED <<mutes, told>>
    BY <1>0, <1>3 DEF Moderation!Refuse, SanctionsInv, ModerationTypes
  <2>2. /\ request' \in [Operator -> SanctionRequest]
        /\ \A p \in Operator \ {o} : request'[p] = request[p]
        /\ \/ request'[o].step = "none"
           \/ /\ request'[o].step = "audit" /\ request'[o].action = "refuse"
              /\ request'[o].account = a /\ a \in document'
    <3>1. CASE request' = [request EXCEPT ![o] = Moderation!NoRequest]
      BY <3>1, NoRequestTyped DEF Moderation!NoRequest, SanctionsInv, ModerationTypes
    <3>2. CASE document' = refused \cup {a} /\ request' = [request EXCEPT ![o] = Moderation!Done(o)]
      BY <1>3, <3>2, RequestsAfter DEF SanctionsInv, ModerationTypes
    <3> QED BY <1>3, <3>1, <3>2 DEF Moderation!Refuse, Moderation!Step
  <2>3. \A p \in Operator : Follows(p)'
    BY <1>0, <2>1, <2>2 DEF SanctionsInv, Follows
  <2> QED BY <1>0, <2>1, <2>2, <2>3 DEF SanctionsInv, ModerationTypes, ToldHold
<1>4. CASE UNCHANGED mutes /\ Moderation!Lifted(o)
  <2>1. /\ refused' = refused \ {a} /\ document' = refused \ {a}
        /\ told'.refused = told.refused \ {a} /\ told'.muted = told.muted
        /\ told' \in [muted : SUBSET DoorAccount, refused : SUBSET DoorAccount]
    BY <1>0, <1>4 DEF Moderation!Lifted, SanctionsInv, ModerationTypes
  <2>2. request' \in [Operator -> SanctionRequest] /\ request' = Moderation!Withdrawn(o, "refuse")
    BY <1>4, RequestsAfter DEF Moderation!Lifted
  <2>3. \A p \in Operator : Follows(p)'
    BY <1>0, <1>4, <2>1, <2>2 DEF SanctionsInv, Follows, Moderation!Withdrawn, Moderation!NoRequest
  <2>4. ToldHold' /\ document' \subseteq refused'
    BY <1>0, <1>4, <2>1 DEF ToldHold, SanctionsInv
  <2> QED BY <1>0, <1>4, <2>1, <2>2, <2>3, <2>4 DEF SanctionsInv, ModerationTypes
<1>5. CASE UNCHANGED mutes /\ Moderation!LiftFailed(o)
  <2>1. UNCHANGED <<refused, document, told>>
    BY <1>5 DEF Moderation!LiftFailed
  <2>2. request' \in [Operator -> SanctionRequest] /\ \A p \in Operator : Follows(p)'
    BY <1>0, <1>5, <2>1, NoRequestTyped DEF Moderation!LiftFailed, Moderation!Step, Moderation!NoRequest,
         SanctionsInv, ModerationTypes, Follows
  <2> QED BY <1>0, <1>5, <2>1, <2>2 DEF SanctionsInv, ModerationTypes, ToldHold
<1> QED BY <1>1, <1>2, <1>3, <1>4, <1>5 DEF Moderation!Act, Moderation!Lift

(* The audit is written, and only then the operator is told.               *)
LEMMA ReportingKeepsSanctions ==
  ASSUME SanctionsInv, NEW o \in Operator, Moderation!Record(o) \/ Moderation!Answer(o)
  PROVE  SanctionsInv'
<1> DEFINE a == request[o].account
<1>0. /\ request[o] \in SanctionRequest /\ a \in DoorAccount \cup {Guest}
      /\ UNCHANGED <<doorAt, doorOwner, mutes, refused, document>>
  BY DEF SanctionsInv, ModerationTypes, SanctionRequest, Moderation!Record, Moderation!Answer
<1>1. CASE Moderation!Record(o)
  <2>1. /\ audit \subseteq audit' /\ UNCHANGED told
        /\ a \in DoorAccount /\ request[o].action \in {"mute", "refuse"} => <<request[o].action, a>> \in audit'
    BY <1>1 DEF Moderation!Record, Moderation!Sanctions
  <2>2. /\ request' \in [Operator -> SanctionRequest]
        /\ \A p \in Operator \ {o} : request'[p] = request[p]
        /\ request'[o].action = request[o].action /\ request'[o].account = a
        /\ request[o].step = "audit"
    BY <1>0, <1>1 DEF Moderation!Record, Moderation!Step, SanctionsInv, ModerationTypes, SanctionRequest
  <2>3. \A p \in Operator : Follows(p)'
    BY <1>0, <2>1, <2>2 DEF SanctionsInv, ModerationTypes, Follows
  <2> QED BY <1>0, <2>1, <2>2, <2>3 DEF SanctionsInv, ModerationTypes, ToldHold
<1>2. CASE Moderation!Answer(o)
  <2>1. /\ UNCHANGED audit
        /\ told' \in [muted : SUBSET DoorAccount, refused : SUBSET DoorAccount]
        /\ \A b \in told'.muted   : b \in told.muted   \/ (b = a /\ b # Guest /\ request[o].action = "mute")
        /\ \A b \in told'.refused : b \in told.refused \/ (b = a /\ b # Guest /\ request[o].action = "refuse")
    BY <1>0, <1>2 DEF Moderation!Answer, SanctionsInv, ModerationTypes
  <2>2. request' \in [Operator -> SanctionRequest] /\ \A p \in Operator : Follows(p)'
    BY <1>0, <1>2, <2>1, NoRequestTyped DEF Moderation!Answer, Moderation!Step, Moderation!NoRequest,
         SanctionsInv, ModerationTypes, Follows
  <2>3. ToldHold'
    BY <1>0, <1>2, <2>1 DEF Moderation!Answer, SanctionsInv, Follows, ToldHold
  <2> QED BY <1>0, <2>1, <2>2, <2>3 DEF SanctionsInv, ModerationTypes
<1> QED BY <1>1, <1>2

LEMMA SanctionsInvariance == Moderation!Spec => []SanctionsInv
<1>1. SanctionsInv /\ [Moderation!Next]_(Moderation!vars) => SanctionsInv'
  <2> SUFFICES ASSUME SanctionsInv, [Moderation!Next]_(Moderation!vars) PROVE SanctionsInv'
    OBVIOUS
  <2>1. CASE UNCHANGED Moderation!vars
    BY <2>1 DEF Moderation!vars, SanctionsInv, ModerationTypes, Follows, ToldHold
  <2>2. CASE Moderation!Next
    BY <2>2, PlayersKeepSanctions, RestartKeepsSanctions, AskingKeepsSanctions, ActKeepsSanctions,
       ReportingKeepsSanctions DEF Moderation!Next
  <2> QED BY <2>1, <2>2
<1> QED BY <1>1, InitSanctionsInv, PTL DEF Moderation!Spec

(* A sanction an operator was told of holds until it is lifted, through    *)
(* restarts, failed writes and whatever the other operators do.            *)
THEOREM SanctionsStandAlways == Moderation!Spec => []SanctionsStand
<1>1. SanctionsInv => SanctionsStand
  BY DEF SanctionsInv, ToldHold, ModerationTypes, SanctionsStand, Moderation!SanctionsStand, Moderation!MaySay
<1> QED BY <1>1, SanctionsInvariance, PTL

-----------------------------------------------------------------------------
(* Accounts, their documents and the index of handles.                     *)

Document == [stored : BOOLEAN, handle : Handle \cup {NoHandle}, lists : BOOLEAN]

PreferencesTypes ==
  /\ accountPrefs \in [PrefAccount -> Document] /\ file \in [PrefAccount -> Document]
  /\ handleOwners \in [Handle -> PrefAccount \cup {Nobody}]
  /\ putting \in [Request -> [at : {"idle", "read"}, account : PrefAccount \cup {Nobody}, next : Document]]
  /\ \A r \in Request : putting[r].at = "read" => putting[r].account \in PrefAccount

HandlesInv == PreferencesTypes /\ HandlesUnique

LEMMA InitHandlesInv == Preferences!Init => HandlesInv
<1> SUFFICES ASSUME Preferences!Init PROVE HandlesInv
  OBVIOUS
<1> USE PeopleAssumption DEF Preferences!Init, Preferences!Absent
<1>1. PreferencesTypes
  BY DEF Preferences!Idle, PreferencesTypes, Document
<1>2. HandlesUnique
  BY DEF HandlesUnique, Preferences!HandlesUnique
<1> QED BY <1>1, <1>2 DEF HandlesInv

(* A request reads the account's document, and means to put another.       *)
LEMMA BeginKeepsHandles ==
  ASSUME HandlesInv, NEW r \in Request, Preferences!Begin(r) PROVE HandlesInv'
<1> USE DEF HandlesInv, PreferencesTypes
<1>0. UNCHANGED <<accountPrefs, handleOwners, file>>
  BY DEF Preferences!Begin
<1>1. PICK a \in PrefAccount, next \in Document :
        putting' = [putting EXCEPT ![r] = [at |-> "read", account |-> a, next |-> next]]
  <2>1. PICK a \in PrefAccount :
          \/ \E h \in Handle \cup {NoHandle} : Preferences!HandlePreferences(r, a, h)
          \/ \E l \in BOOLEAN : Preferences!PersistBlockedAccounts(r, a, l) \/ Preferences!SubmitFollow(r, a, l)
          \/ Preferences!ResolveAccountPlayerColor(r, a)
    BY DEF Preferences!Begin
  <2>2. accountPrefs[a] \in Document
    OBVIOUS
  <2> QED BY <2>1, <2>2 DEF Preferences!HandlePreferences, Preferences!PersistBlockedAccounts,
             Preferences!SubmitFollow, Preferences!ResolveAccountPlayerColor, Preferences!Read,
             Preferences!Absent, Document
<1>2. PreferencesTypes'
  BY <1>0, <1>1
<1> QED BY <1>0, <1>2 DEF HandlesUnique, Preferences!HandlesUnique

(* A put takes no handle from anyone, and lets go of the account's own.     *)
LEMMA PutKeepsHandles ==
  ASSUME HandlesInv, NEW r \in Request, Preferences!PutAccountPreferences(r) PROVE HandlesInv'
<1> USE PeopleAssumption DEF HandlesInv, PreferencesTypes
<1> DEFINE a == putting[r].account
           next == putting[r].next
<1>0. putting[r].at = "read" /\ a \in PrefAccount /\ next \in Document
  BY DEF Preferences!PutAccountPreferences
<1>1. /\ putting' \in [Request -> [at : {"idle", "read"}, account : PrefAccount \cup {Nobody}, next : Document]]
      /\ \A q \in Request : putting'[q].at = "read" => putting'[q].account \in PrefAccount
  BY DEF Preferences!PutAccountPreferences, Preferences!Idle, Preferences!Absent, Document
<1>2. CASE Preferences!Taken(a, next.handle)
  <2>1. UNCHANGED <<accountPrefs, handleOwners, file>>
    BY <1>2 DEF Preferences!PutAccountPreferences
  <2> QED BY <1>1, <2>1 DEF HandlesUnique, Preferences!HandlesUnique
<1>3. CASE ~Preferences!Taken(a, next.handle)
  <2>1. /\ accountPrefs' = [accountPrefs EXCEPT ![a] = next]
        /\ handleOwners' = Preferences!Owned(a, next.handle)
        /\ file' = accountPrefs' \/ UNCHANGED file
    BY <1>3 DEF Preferences!PutAccountPreferences
  <2>2. PreferencesTypes'
    BY <1>0, <1>1, <2>1 DEF Preferences!Owned
  <2>3. ASSUME NEW h \in Handle, NEW b \in PrefAccount
        PROVE  (handleOwners'[h] = b) <=> (accountPrefs'[b].handle = h)
    <3>1. handleOwners[h] = b <=> accountPrefs[b].handle = h
      BY DEF HandlesUnique, Preferences!HandlesUnique
    <3>2. handleOwners[h] = a <=> accountPrefs[a].handle = h
      BY <1>0 DEF HandlesUnique, Preferences!HandlesUnique
    <3>3. h = next.handle => handleOwners[h] \in {Nobody, a}
      BY <1>3 DEF Preferences!Taken
    <3>4. CASE b = a
      BY <1>0, <2>1, <3>2, <3>4 DEF Preferences!Owned
    <3>5. CASE b # a
      BY <1>0, <2>1, <3>1, <3>2, <3>3, <3>5 DEF Preferences!Owned
    <3> QED BY <3>4, <3>5
  <2>4. \A b, c \in PrefAccount :
          file'[b].handle # NoHandle /\ file'[b].handle = file'[c].handle => b = c
    <3>1. CASE file' = accountPrefs'
      BY <2>2, <2>3, <3>1 DEF Document
    <3>2. CASE UNCHANGED file
      BY <3>2 DEF HandlesUnique, Preferences!HandlesUnique
    <3> QED BY <2>1, <3>1, <3>2
  <2> QED BY <2>2, <2>3, <2>4 DEF HandlesUnique, Preferences!HandlesUnique
<1> QED BY <1>2, <1>3

(* The index that a restart builds from the file is the one it had.         *)
LEMMA RestartKeepsHandles ==
  ASSUME HandlesInv, Preferences!Restart PROVE HandlesInv'
<1> USE PeopleAssumption DEF HandlesInv, PreferencesTypes, Preferences!Restart
<1>1. \A h \in Handle, a \in PrefAccount : (Preferences!OwnerIn(file, h) = a) <=> (file[a].handle = h)
  BY DEF Preferences!OwnerIn, HandlesUnique, Preferences!HandlesUnique
<1>2. \A h \in Handle : Preferences!OwnerIn(file, h) \in PrefAccount \cup {Nobody}
  BY DEF Preferences!OwnerIn
<1>3. PreferencesTypes'
  BY <1>2 DEF Preferences!Idle, Preferences!Absent, Document
<1>4. HandlesUnique'
  BY <1>1 DEF HandlesUnique, Preferences!HandlesUnique
<1> QED BY <1>3, <1>4

(* A handle names one account, in memory and in the file, whatever requests*)
(* overlap, are refused or fail to be written.                             *)
THEOREM HandlesUniqueAlways == Preferences!Spec => []HandlesUnique
<1>1. HandlesInv /\ [Preferences!Next]_(Preferences!vars) => HandlesInv'
  <2> SUFFICES ASSUME HandlesInv, [Preferences!Next]_(Preferences!vars) PROVE HandlesInv'
    OBVIOUS
  <2>1. CASE UNCHANGED Preferences!vars
    BY <2>1 DEF Preferences!vars, HandlesInv, PreferencesTypes, HandlesUnique, Preferences!HandlesUnique
  <2> QED BY <2>1, BeginKeepsHandles, PutKeepsHandles, RestartKeepsHandles DEF Preferences!Next
<1>2. HandlesInv => HandlesUnique
  BY DEF HandlesInv
<1> QED BY <1>1, <1>2, InitHandlesInv, PTL DEF Preferences!Spec

-----------------------------------------------------------------------------
(* Chat, its history and the players' blocks.                              *)

ChatLine == [id : Speaker \cup {0}, account : ChatAccount \cup {Guest}]
BlockSet == [players : SUBSET Speaker, accounts : SUBSET ChatAccount]
Sending  == [line : Nat, to : SUBSET (Speaker \cup {0})]

ChatTypes ==
  /\ chatAt \in [Speaker -> {"none", "registered", "seeded", "in", "detached"}]
  /\ account \in [Speaker -> ChatAccount \cup {Guest}]
  /\ blocks \in [Speaker -> BlockSet]
  /\ stored \in [ChatAccount -> SUBSET ChatAccount]
  /\ lines \in Seq(ChatLine) /\ sending \in [Speaker -> Sending]
  /\ heard \in [Speaker -> SUBSET Nat] /\ spared \in [Speaker -> SUBSET Nat]
  /\ promised \in [Speaker -> SUBSET ChatAccount]

(* What a connection was told it will not hear is in its set of blocks, but*)
(* for one whose set an older socket's end took.                           *)
PromisesKept ==
  \A p \in Speaker :
    /\ chatAt[p] \in {"none", "detached"} => promised[p] = {}
    /\ p \notin forgotten => promised[p] \subseteq blocks[p].accounts

ChatInv == ChatTypes /\ PromisesKept /\ NothingMissed

LEMMA NothingTyped == Chat!NoBlocks \in BlockSet /\ Chat!NotSending \in Sending
BY DEF Chat!NoBlocks, Chat!NotSending, BlockSet, Sending

(* A line is on its way as long as it is being sent.                       *)
LEMMA OnTheWayStill ==
  ASSUME UNCHANGED sending PROVE \A q \in Speaker : UNCHANGED Chat!OnTheWay(q)
BY DEF Chat!OnTheWay

LEMMA OnTheWayMember ==
  \A q, i : i \in Chat!OnTheWay(q)
            <=> \E p \in Speaker : sending[p].line = i /\ (sending[p].to = {0} \/ q \in sending[p].to)
BY DEF Chat!OnTheWay

LEMMA OnTheWayMemberNext ==
  \A q, i : i \in Chat!OnTheWay(q)'
            <=> \E p \in Speaker : sending'[p].line = i /\ (sending'[p].to = {0} \/ q \in sending'[p].to)
BY DEF Chat!OnTheWay

LEMMA InitChatInv == Chat!Init => ChatInv
<1> SUFFICES ASSUME Chat!Init PROVE ChatInv
  OBVIOUS
<1> USE DEF Chat!Init, Chat!Who
<1>1. ChatTypes
  <2>1. lines \in Seq(ChatLine)
    OBVIOUS
  <2> QED BY <2>1, NothingTyped DEF ChatTypes
<1>2. PromisesKept
  BY DEF PromisesKept
<1>3. NothingMissed
  BY DEF NothingMissed, Chat!NothingMissed
<1> QED BY <1>1, <1>2, <1>3 DEF ChatInv

(* A block is asked for, or taken back.                                    *)
LEMMA BlockingKeepsChat ==
  ASSUME ChatInv, NEW p \in Speaker, NEW q \in Speaker,
         \/ Chat!SubmitChatBlock(p, q, Chat!Blocked(p, q))
         \/ Chat!SubmitChatBlock(p, q, Chat!Unblocked(p, q))
  PROVE  ChatInv'
<1> USE PeopleAssumption DEF ChatInv, ChatTypes
<1>1. PICK new \in {Chat!Blocked(p, q), Chat!Unblocked(p, q)} : Chat!SubmitChatBlock(p, q, new)
  OBVIOUS
<1> DEFINE a == account[q]
<1>2. /\ new \in BlockSet
      /\ blocks[p].accounts \ {a} \subseteq new.accounts
  BY DEF Chat!Blocked, Chat!Unblocked, BlockSet
<1>3. ChatTypes'
  <2>1. blocks' \in [Speaker -> BlockSet]
    BY <1>1, <1>2 DEF Chat!SubmitChatBlock
  <2>2. stored' \in [ChatAccount -> SUBSET ChatAccount]
    BY <1>1, <1>2 DEF Chat!SubmitChatBlock, BlockSet
  <2>3. promised' \in [Speaker -> SUBSET ChatAccount]
    BY <1>1, <1>2 DEF Chat!SubmitChatBlock, BlockSet
  <2> QED BY <1>1, <2>1, <2>2, <2>3 DEF Chat!SubmitChatBlock
<1>4. PromisesKept'
  BY <1>1, <1>2 DEF Chat!SubmitChatBlock, PromisesKept
<1>5. NothingMissed'
  BY <1>1, OnTheWayStill DEF Chat!SubmitChatBlock, NothingMissed, Chat!NothingMissed
<1> QED BY <1>3, <1>4, <1>5

(* A connection comes, is told its account's blocks and the backlog, goes, *)
(* or is found to have been replaced.                                      *)
LEMMA ComingKeepsChat ==
  ASSUME ChatInv, NEW p \in Speaker,
         Chat!Register(p) \/ Chat!Seed(p) \/ Chat!Replay(p) \/ Chat!Leave(p) \/ Chat!OlderLoopExits(p)
  PROVE  ChatInv'
<1> USE PeopleAssumption DEF ChatInv
<1>1. CASE Chat!Register(p)
  <2>1. ChatTypes'
    BY <1>1 DEF Chat!Register, Chat!Who, ChatTypes
  <2>2. PromisesKept'
    BY <1>1 DEF Chat!Register, PromisesKept, ChatTypes
  <2>3. NothingMissed'
    BY <1>1, OnTheWayStill DEF Chat!Register, NothingMissed, Chat!NothingMissed, ChatTypes
  <2> QED BY <2>1, <2>2, <2>3
<1>2. CASE Chat!Seed(p)
  <2>0. Chat!StoredFor(p) \subseteq ChatAccount
    BY DEF Chat!StoredFor, ChatTypes
  <2>1. ChatTypes'
    <3>1. [blocks[p] EXCEPT !.accounts = @ \cup Chat!StoredFor(p)] \in BlockSet
      BY <2>0 DEF ChatTypes, BlockSet
    <3>2. blocks' \in [Speaker -> BlockSet]
      BY <1>2, <3>1 DEF Chat!Seed, ChatTypes
    <3>3. promised' \in [Speaker -> SUBSET ChatAccount]
      BY <1>2, <2>0 DEF Chat!Seed, ChatTypes
    <3> QED BY <1>2, <3>2, <3>3 DEF Chat!Seed, ChatTypes
  <2>2. PromisesKept'
    BY <1>2, <2>0 DEF Chat!Seed, PromisesKept, ChatTypes, BlockSet
  <2>3. NothingMissed'
    BY <1>2, OnTheWayStill DEF Chat!Seed, NothingMissed, Chat!NothingMissed, ChatTypes
  <2> QED BY <2>1, <2>2, <2>3
<1>3. CASE Chat!Replay(p)
  <2>1. ChatTypes'
    BY <1>3 DEF Chat!Replay, ChatTypes
  <2>2. PromisesKept'
    BY <1>3 DEF Chat!Replay, PromisesKept, ChatTypes
  <2>3. NothingMissed'
    BY <1>3, OnTheWayStill DEF Chat!Replay, NothingMissed, Chat!NothingMissed, ChatTypes
  <2> QED BY <2>1, <2>2, <2>3
<1>4. CASE Chat!Leave(p)
  <2>1. ChatTypes'
    BY <1>4, NothingTyped DEF Chat!Leave, ChatTypes
  <2>2. PromisesKept'
    BY <1>4 DEF Chat!Leave, Chat!NoBlocks, PromisesKept, ChatTypes
  <2>3. NothingMissed'
    BY <1>4, OnTheWayStill DEF Chat!Leave, NothingMissed, Chat!NothingMissed, ChatTypes
  <2> QED BY <2>1, <2>2, <2>3
<1>5. CASE Chat!OlderLoopExits(p)
  <2>1. ChatTypes'
    BY <1>5, NothingTyped DEF Chat!OlderLoopExits, ChatTypes
  <2>2. PromisesKept'
    BY <1>5 DEF Chat!OlderLoopExits, Chat!NoBlocks, PromisesKept, ChatTypes
  <2>3. NothingMissed'
    BY <1>5, OnTheWayStill DEF Chat!OlderLoopExits, NothingMissed, Chat!NothingMissed
  <2> QED BY <2>1, <2>2, <2>3
<1> QED BY <1>1, <1>2, <1>3, <1>4, <1>5

(* A line is said, and reaches those there are, one after another.         *)
LEMMA SayingKeepsChat ==
  ASSUME ChatInv, NEW p \in Speaker, Chat!AddMessage(p) \/ Chat!Collect(p)
  PROVE  ChatInv'
<1> USE PeopleAssumption DEF ChatInv
<1>1. CASE Chat!AddMessage(p)
  <2>1. DOMAIN lines' = DOMAIN lines \cup {Len(lines) + 1} /\ Len(lines) + 1 \in Nat
    BY <1>1 DEF Chat!AddMessage, ChatTypes
  <2>2. ChatTypes'
    <3>1. lines' \in Seq(ChatLine)
      <4>1. [id |-> p, account |-> account[p]] \in ChatLine
        BY DEF ChatTypes, ChatLine
      <4> QED BY <1>1, <4>1 DEF Chat!AddMessage, ChatTypes
    <3>2. sending' \in [Speaker -> Sending]
      <4>1. [line |-> Len(lines) + 1, to |-> {0}] \in Sending
        BY <2>1 DEF Sending
      <4> QED BY <1>1, <4>1 DEF Chat!AddMessage, ChatTypes
    <3> QED BY <1>1, <3>1, <3>2 DEF Chat!AddMessage, ChatTypes
  <2>3. PromisesKept'
    BY <1>1 DEF Chat!AddMessage, PromisesKept
  <2>4. \A q \in Speaker : Chat!OnTheWay(q) \cup {Len(lines) + 1} \subseteq Chat!OnTheWay(q)'
    <3>1. /\ sending[p].to = {} /\ sending'[p].line = Len(lines) + 1 /\ sending'[p].to = {0}
          /\ \A r \in Speaker \ {p} : sending'[r] = sending[r]
      BY <1>1 DEF Chat!AddMessage, Chat!NotSending, ChatTypes
    <3>2. ASSUME NEW q \in Speaker, NEW i, i \in Chat!OnTheWay(q) \/ i = Len(lines) + 1
          PROVE  i \in Chat!OnTheWay(q)'
      <4>1. CASE i = Len(lines) + 1
        BY <3>1, <4>1, OnTheWayMemberNext
      <4>2. CASE i \in Chat!OnTheWay(q)
        <5>1. PICK r \in Speaker : sending[r].line = i /\ (sending[r].to = {0} \/ q \in sending[r].to)
          BY <4>2, OnTheWayMember
        <5>2. r # p
          BY <3>1, <5>1
        <5> QED BY <3>1, <5>1, <5>2, OnTheWayMemberNext
      <4> QED BY <3>2, <4>1, <4>2
    <3> QED BY <3>2
  <2>5. NothingMissed'
    BY <1>1, <2>1, <2>4 DEF Chat!AddMessage, NothingMissed, Chat!NothingMissed
  <2> QED BY <2>2, <2>3, <2>5
<1>2. CASE Chat!Collect(p)
  <2>1. ChatTypes'
    <3>1. [sending[p] EXCEPT !.to = Chat!Connected] \in Sending
      <4>1. sending[p] \in Sending /\ Chat!Connected \subseteq Speaker
        BY DEF ChatTypes, Chat!Connected
      <4> QED BY <4>1 DEF Sending
    <3> QED BY <1>2, <3>1 DEF Chat!Collect, ChatTypes
  <2>2. PromisesKept'
    BY <1>2 DEF Chat!Collect, PromisesKept
  <2>3. \A q \in Speaker : chatAt[q] = "in" => Chat!OnTheWay(q) \subseteq Chat!OnTheWay(q)'
    <3>1. sending'[p].line = sending[p].line /\ sending'[p].to = Chat!Connected
          /\ \A r \in Speaker \ {p} : sending'[r] = sending[r]
      BY <1>2 DEF Chat!Collect, ChatTypes, Sending
    <3> QED BY <3>1, OnTheWayMember, OnTheWayMemberNext DEF Chat!Connected
  <2>4. NothingMissed'
    BY <1>2, <2>3 DEF Chat!Collect, NothingMissed, Chat!NothingMissed
  <2> QED BY <2>1, <2>2, <2>4
<1> QED BY <1>1, <1>2

LEMMA DeliverKeepsChat ==
  ASSUME ChatInv, NEW p \in Speaker, NEW q \in Speaker, Chat!Deliver(p, q)
  PROVE  ChatInv'
<1> USE PeopleAssumption DEF ChatInv
<1> DEFINE i == sending[p].line
<1>1. /\ UNCHANGED <<chatAt, account, blocks, stored, lines, promised, older, forgotten>>
      /\ q \in sending[p].to /\ sending[p].to # {0}
  BY DEF Chat!Deliver
<1>0. sending' = [sending EXCEPT ![p] = IF sending[p].to = {q} THEN Chat!NotSending
                                        ELSE [line |-> i, to |-> sending[p].to \ {q}]]
  BY DEF Chat!Deliver
<1>2. sending' \in [Speaker -> Sending]
  <2>1. sending[p] \in Sending
    BY DEF ChatTypes
  <2>2. [line |-> i, to |-> sending[p].to \ {q}] \in Sending
    BY <2>1 DEF Sending
  <2> QED BY <1>0, <2>2, NothingTyped DEF ChatTypes
<1>3. ChatTypes'
  <2>1. i \in Nat
    BY DEF ChatTypes, Sending
  <2>2. heard' \in [Speaker -> SUBSET Nat] /\ spared' \in [Speaker -> SUBSET Nat]
    BY <2>1 DEF Chat!Deliver, ChatTypes
  <2> QED BY <1>1, <1>2, <2>2 DEF ChatTypes
<1>4. PromisesKept'
  BY <1>1 DEF PromisesKept
<1>5. /\ \A r \in Speaker : heard[r] \subseteq heard'[r] /\ spared[r] \subseteq spared'[r]
      /\ chatAt[q] = "in" => i \in heard'[q] \cup spared'[q]
  BY DEF Chat!Deliver, Chat!Connected, ChatTypes
<1>6. \A r \in Speaker \ {p} : sending'[r] = sending[r]
  BY DEF Chat!Deliver, ChatTypes
<1>7. sending[p].to # {q} => sending'[p].line = i /\ sending'[p].to = sending[p].to \ {q}
  <2>1. sending[p] \in Sending
    BY DEF ChatTypes
  <2> QED BY <1>0, <2>1 DEF Sending, ChatTypes
<1>8. \A r \in Speaker : Chat!OnTheWay(r) \subseteq Chat!OnTheWay(r)' \cup (IF r = q THEN {i} ELSE {})
  BY <1>1, <1>6, <1>7, OnTheWayMember, OnTheWayMemberNext
<1>9. NothingMissed'
  BY <1>1, <1>5, <1>8 DEF NothingMissed, Chat!NothingMissed
<1> QED BY <1>3, <1>4, <1>9

LEMMA RestartKeepsChat ==
  ASSUME ChatInv, Chat!Restart PROVE ChatInv'
<1> USE DEF ChatInv, Chat!Restart, Chat!NoBlocks, Chat!NotSending
<1>1. lines' \in Seq(ChatLine)
  <2>1. Len(lines) \in Nat /\ DOMAIN lines = 1 .. Len(lines)
    BY DEF ChatTypes
  <2>2. \A i \in DOMAIN lines : lines'[i] \in ChatLine
    <3> SUFFICES ASSUME NEW i \in DOMAIN lines PROVE lines'[i] \in ChatLine
      OBVIOUS
    <3>1. lines[i] \in ChatLine
      BY DEF ChatTypes
    <3>2. [lines[i] EXCEPT !.id = 0] \in ChatLine
      BY <3>1 DEF ChatLine
    <3> QED BY <3>2
  <2> QED BY <2>1, <2>2
<1>2. ChatTypes'
  BY <1>1 DEF ChatTypes, BlockSet, Sending
<1>3. PromisesKept' /\ NothingMissed'
  BY DEF PromisesKept, NothingMissed, Chat!NothingMissed
<1> QED BY <1>2, <1>3

LEMMA ChatInvariance == Chat!Spec => []ChatInv
<1>1. ChatInv /\ [Chat!Next]_(Chat!vars) => ChatInv'
  <2> SUFFICES ASSUME ChatInv, [Chat!Next]_(Chat!vars) PROVE ChatInv'
    OBVIOUS
  <2>1. CASE UNCHANGED Chat!vars
    <3>1. ChatTypes' /\ PromisesKept'
      BY <2>1 DEF Chat!vars, ChatInv, ChatTypes, PromisesKept
    <3>2. NothingMissed'
      BY <2>1, OnTheWayStill DEF Chat!vars, ChatInv, NothingMissed, Chat!NothingMissed
    <3> QED BY <3>1, <3>2 DEF ChatInv
  <2>2. CASE Chat!Next
    BY <2>2, BlockingKeepsChat, ComingKeepsChat, SayingKeepsChat, DeliverKeepsChat, RestartKeepsChat
       DEF Chat!Next
  <2> QED BY <2>1, <2>2
<1> QED BY <1>1, InitChatInv, PTL DEF Chat!Spec

(* Nobody who is in misses a line of the history, live or from the backlog.*)
THEOREM NothingMissedAlways == Chat!Spec => []NothingMissed
<1>1. ChatInv => NothingMissed
  BY DEF ChatInv
<1> QED BY <1>1, ChatInvariance, PTL

(* No line reaches a connection that was told its author is blocked.       *)
THEOREM BlocksHoldAlways == Chat!Spec => BlocksHold
<1> DEFINE Unheard == \A p \in Speaker \ forgotten : \A i \in heard'[p] \ heard[p] :
                        lines[i].account \in promised[p] => lines[i].id = p
<1>1. ChatInv /\ [Chat!Next]_(Chat!vars) => [Unheard]_(Chat!vars)
  <2> SUFFICES ASSUME ChatInv, Chat!Next,
                      NEW p \in Speaker \ forgotten, NEW i \in heard'[p] \ heard[p],
                      lines[i].account \in promised[p]
               PROVE  lines[i].id = p
    OBVIOUS
  <2>1. lines[i].account \in blocks[p].accounts /\ lines[i].account # Guest
    BY PeopleAssumption DEF ChatInv, ChatTypes, PromisesKept
  <2>2. ~Chat!Suppresses(p, lines[i]) => lines[i].id = p
    BY <2>1 DEF Chat!Suppresses
  <2>3. CASE \E q \in Speaker : Chat!Replay(q)
    BY <2>2, <2>3 DEF Chat!Replay, ChatInv, ChatTypes
  <2>4. CASE \E q, r \in Speaker : Chat!Deliver(q, r)
    BY <2>2, <2>4 DEF Chat!Deliver, ChatInv, ChatTypes
  <2>5. CASE Chat!Restart
    BY <2>5 DEF Chat!Restart
  <2>6. UNCHANGED heard \/ (\E q \in Speaker : Chat!Replay(q))
        \/ (\E q, r \in Speaker : Chat!Deliver(q, r)) \/ Chat!Restart
    BY DEF Chat!Next, Chat!Register, Chat!Seed, Chat!Leave, Chat!OlderLoopExits, Chat!AddMessage,
           Chat!Collect, Chat!SubmitChatBlock
  <2> QED BY <2>3, <2>4, <2>5, <2>6
<1> QED BY <1>1, ChatInvariance, PTL DEF Chat!Spec, BlocksHold, Chat!BlocksHold

-----------------------------------------------------------------------------
(* Each part does in People what its own specification lets it.             *)
LEMMA PartsAlone ==
  PeopleSpec => Spec /\ Chat!Spec /\ Moderation!Spec /\ Preferences!Spec
<1>1. PeopleInit => Init /\ Chat!Init /\ Moderation!Init /\ Preferences!Init
  BY DEF PeopleInit
<1>2. [PeopleNext]_peopleVars => /\ [Next]_vars /\ [Chat!Next]_(Chat!vars)
                                 /\ [Moderation!Next]_(Moderation!vars)
                                 /\ [Preferences!Next]_(Preferences!vars)
  BY DEF PeopleNext, peopleVars, EditTogether, Talk, Moderate, Prefer, chatVars, moderationVars,
         preferencesVars, Chat!vars, Moderation!vars, Preferences!vars
<1> QED BY <1>1, <1>2, PTL DEF PeopleSpec, Spec, Chat!Spec, Moderation!Spec, Preferences!Spec

(* What was shown of each part holds of all of them together.              *)
THEOREM PeopleSafe ==
  PeopleSpec => [](TokensAgree /\ RightsKept /\ NothingMissed /\ SanctionsStand /\ HandlesUnique)
                /\ BlocksHold
BY PartsAlone, TokensAgreeAlways, RightsKeptAlways, NothingMissedAlways, SanctionsStandAlways,
   HandlesUniqueAlways, BlocksHoldAlways, PTL
=============================================================================
