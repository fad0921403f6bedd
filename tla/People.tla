------------------------------- MODULE People -------------------------------
(***************************************************************************)
(* What the server knows of people, one part of it in each behavior: the   *)
(* members of an editor session and who they invite (EditMembers), the     *)
(* chat and who has blocked whom, the operators' sanctions, and the        *)
(* accounts' preferences.  The parts share no state.                       *)
(***************************************************************************)
EXTENDS EditMembers

CONSTANTS
  Speaker, ChatAccount, Guest, MaxLines,   \* of Chat
  DoorConn, DoorAccount, Operator,         \* of Moderation
  PrefAccount, Handle, NoHandle, Request   \* of Preferences

ASSUME PeopleAssumption ==
  /\ Nobody \notin PrefAccount /\ NoHandle \notin Handle
  /\ 0 \notin Speaker /\ Guest \notin ChatAccount

VARIABLES
  part,
  chatAt, account, blocks, stored, lines, sending, heard, older, spared, promised, forgotten,
  doorAt, doorOwner, mutes, refused, document, audit, request, told,
  accountPrefs, handleOwners, file, putting

Chat == INSTANCE Chat WITH Player <- Speaker, Account <- ChatAccount, at <- chatAt
Moderation == INSTANCE Moderation WITH
  Conn <- DoorConn, Account <- DoorAccount, at <- doorAt, account <- doorOwner
Preferences == INSTANCE Preferences WITH
  Account <- PrefAccount, NoOne <- Nobody, request <- putting

chatVars == <<chatAt, account, blocks, stored, lines, sending, heard, older, spared, promised, forgotten>>
moderationVars  == <<doorAt, doorOwner, mutes, refused, document, audit, request, told>>
preferencesVars == <<accountPrefs, handleOwners, file, putting>>
peopleVars == <<part, vars, chatVars, moderationVars, preferencesVars>>

(* The session that is there when nobody is in it.                         *)
Unvisited == boardCount = 0 /\ access = NoRecord

PeopleInit ==
  /\ part \in {"members", "chat", "moderation", "preferences"}
  /\ Init /\ (part = "members" \/ Unvisited)
  /\ Chat!Init /\ Moderation!Init /\ Preferences!Init

EditTogether ==
  part = "members" /\ Next /\ UNCHANGED <<part, chatVars, moderationVars, preferencesVars>>
Talk ==
  part = "chat" /\ Chat!Next /\ UNCHANGED <<part, vars, moderationVars, preferencesVars>>
Moderate ==
  part = "moderation" /\ Moderation!Next /\ UNCHANGED <<part, vars, chatVars, preferencesVars>>
Prefer ==
  part = "preferences" /\ Preferences!Next /\ UNCHANGED <<part, vars, chatVars, moderationVars>>

PeopleNext == EditTogether \/ Talk \/ Moderate \/ Prefer
PeopleSpec == PeopleInit /\ [][PeopleNext]_peopleVars

-----------------------------------------------------------------------------
(* Leases are held by those who may edit and nobody writes past another's; *)
(* whoever was invited may edit, unless uses of the record overlapped.     *)
RightsKept == LeasesHeldByEditors /\ WritesRespectLeases /\ InvitedMayEditUnraced

(* Nobody misses a line but those they asked not to hear.                  *)
NothingMissed == Chat!NothingMissed

(* What was blocked is not heard.                                          *)
BlocksHold == Chat!BlocksHold

(* What operators were told of holds.                                      *)
SanctionsStand == Moderation!SanctionsStand

(* A handle names one account.                                             *)
HandlesUnique == Preferences!HandlesUnique
=============================================================================
