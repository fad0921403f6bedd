----------------------------- MODULE Moderation -----------------------------
(***************************************************************************)
(* What operators do about players (moderation.go, websocket_server.go) and*)
(* what holds it: mutes, kept in memory by connection and by account; the  *)
(* refusals, kept in memory and in a document; the audit, written before   *)
(* the operator is answered.  Requests come from the operators' read loops *)
(* and from the console (web_api.go), one player's connection ends and     *)
(* another of the same account begins, and the server may restart between  *)
(* any two steps.                                                          *)
(***************************************************************************)
EXTENDS Naturals, FiniteSets

CONSTANTS Conn,              \* connections, each with a PlayerID of its own
          Account, Guest,    \* Guest: the empty accountID
          Operator           \* operators, whose requests run one at a time

VARIABLES
  at,          \* where each connection is
  account,     \* whose it is
  mutes,       \* moderationMutes
  refused,     \* RefusalStore.accounts
  document,    \* what a restart reads of it
  audit,       \* the sanctions on record: <<action, account>>
  request,     \* each operator's request, and how far it has come
  told         \* what operators were last told of each account

vars == <<at, account, mutes, refused, document, audit, request, told>>

Sanctions == {"mute", "refuse"} \X Account
Who     == Account \cup {Guest}
NoRequest == [step |-> "none", action |-> "none", conn |-> 0, account |-> Guest]

Init ==
  /\ at = [c \in Conn |-> "none"] /\ account = [c \in Conn |-> Guest]
  /\ mutes = [players |-> {}, accounts |-> {}]
  /\ refused = {} /\ document = {} /\ audit = {}
  /\ request = [o \in Operator |-> NoRequest]
  /\ told = [muted |-> {}, refused |-> {}]

Store  == <<mutes, refused, document, audit, request, told>>

-----------------------------------------------------------------------------
(* Players                                                                 *)

(* refusedAtTheDoor, before anything is joined or resumed.                 *)
Door(c, a) ==
  /\ at[c] = "none" /\ a \notin refused
  /\ at' = [at EXCEPT ![c] = "door"] /\ account' = [account EXCEPT ![c] = a]
  /\ UNCHANGED Store

Join(c) ==
  /\ at[c] = "door"
  /\ at' = [at EXCEPT ![c] = "in"] /\ UNCHANGED <<account, mutes, refused, document, audit, request, told>>

(* admitPlayerChatLikeText: a muted player's line goes no further.         *)
MaySay(c) == at[c] = "in" /\ ~(c \in mutes.players \/ account[c] \in mutes.accounts)

(* A bug: the whole of a player's mute goes with the connection.           *)
ForgetBoth(c) == [players |-> mutes.players \ {c}, accounts |-> mutes.accounts \ {account[c]}]
Forget(c)     == [mutes EXCEPT !.players = @ \ {c}]

(* handleReadLoopExit; a kicked or a refused player's socket is closed for *)
(* them by a goroutine of its own.                                         *)
Leave(c) ==
  /\ at[c] = "in" /\ at' = [at EXCEPT ![c] = "none"] /\ account' = [account EXCEPT ![c] = Guest]
  /\ mutes' = Forget(c)
  /\ UNCHANGED <<refused, document, audit, request, told>>

-----------------------------------------------------------------------------
(* Operators                                                               *)

Step(o, req) == request' = [request EXCEPT ![o] = req]

(* submitModeration: the target is found, wherever they play.              *)
Locate(o, action, c) ==
  /\ request[o].step = "none" /\ at[c] = "in"
  /\ Step(o, [step |-> "act", action |-> action, conn |-> c, account |-> account[c]])
  /\ UNCHANGED <<at, account, mutes, refused, document, audit, told>>

(* handleModerationLift names an account.                                  *)
AskLift(o, a) ==
  /\ request[o].step = "none"
  /\ Step(o, [step |-> "act", action |-> "lift", conn |-> 0, account |-> a])
  /\ UNCHANGED <<at, account, mutes, refused, document, audit, told>>

(* Done, and to be recorded and answered.  What is no sanction, or failed, *)
(* is not followed further.                                                *)
Done(o)   == [request[o] EXCEPT !.step = "audit", !.conn = 0]

(* Once a sanction is lifted, those who were told of it, or are about to   *)
(* be, no longer count on it.                                              *)
Withdrawn(o, sanction) ==
  [p \in Operator |->
     IF p = o \/ (request[p].account = request[o].account
                 /\ request[p].action = sanction /\ request[p].step # "act")
     THEN NoRequest ELSE request[p]]

Mute(o) ==
  /\ mutes' = [players |-> mutes.players \cup {request[o].conn},
               accounts |-> mutes.accounts \cup ({request[o].account} \ {Guest})]
  /\ Step(o, Done(o))
  /\ UNCHANGED <<refused, document, told>>

Unmute(o) ==
  /\ mutes' = [players |-> mutes.players \ {request[o].conn},
               accounts |-> mutes.accounts \ {request[o].account}]
  /\ request' = Withdrawn(o, "mute")
  /\ told' = [told EXCEPT !.muted = @ \ {request[o].account}]
  /\ UNCHANGED <<refused, document>>

(* Refuse: in force at once, and failed when the document is not written;  *)
(* a guest is kicked instead.                                              *)
Refuse(o) ==
  /\ \/ /\ request[o].account = Guest
        /\ Step(o, NoRequest) /\ UNCHANGED <<refused, document>>
     \/ /\ request[o].account # Guest
        /\ refused' = refused \cup {request[o].account}
        /\ \/ document' = refused' /\ Step(o, Done(o))
           \/ UNCHANGED document /\ Step(o, NoRequest)
  /\ UNCHANGED <<mutes, told>>

Lifted(o) ==
  /\ refused' = refused \ {request[o].account} /\ document' = refused'
  /\ request' = Withdrawn(o, "refuse")
  /\ told' = [told EXCEPT !.refused = @ \ {request[o].account}]

(* A failed write puts the entry back.                                     *)
LiftFailed(o) ==
  /\ request[o].account \in refused
  /\ Step(o, NoRequest) /\ UNCHANGED <<refused, document, told>>

Lift(o) == UNCHANGED mutes /\ (Lifted(o) \/ LiftFailed(o))

Act(o) ==
  /\ request[o].step = "act"
  /\ \/ request[o].action = "mute" /\ Mute(o)
     \/ request[o].action = "unmute" /\ Unmute(o)
     \/ request[o].action = "refuse" /\ Refuse(o)
     \/ request[o].action = "lift" /\ Lift(o)
  /\ UNCHANGED <<at, account, audit>>

(* The record is written, and only then the operator is answered.          *)
Record(o) ==
  /\ request[o].step = "audit"
  /\ audit' = audit \cup ({<<request[o].action, request[o].account>>} \cap Sanctions)
  /\ Step(o, [request[o] EXCEPT !.step = "answer"])
  /\ UNCHANGED <<at, account, mutes, refused, document, told>>

Answer(o) ==
  /\ request[o].step = "answer"
  /\ LET who == {request[o].account} \ {Guest}
     IN told' = [muted   |-> told.muted   \cup {a \in who : request[o].action = "mute"},
                 refused |-> told.refused \cup {a \in who : request[o].action = "refuse"}]
  /\ Step(o, NoRequest)
  /\ UNCHANGED <<at, account, mutes, refused, document, audit>>

(* Mutes end with the process; refusals are read back.                     *)
Restart ==
  /\ at' = [c \in Conn |-> "none"] /\ account' = [c \in Conn |-> Guest]
  /\ mutes' = [players |-> {}, accounts |-> {}]
  /\ refused' = document
  /\ request' = [o \in Operator |-> NoRequest]
  /\ told' = [told EXCEPT !.muted = {}]
  /\ UNCHANGED <<document, audit>>

Next ==
  \/ \E c \in Conn : (\E a \in Who : Door(c, a)) \/ Join(c) \/ Leave(c)
  \/ \E o \in Operator : \/ \E a \in {"mute", "unmute", "refuse"}, c \in Conn : Locate(o, a, c)
                         \/ \E a \in Account : AskLift(o, a)
                         \/ Act(o) \/ Record(o) \/ Answer(o)
  \/ Restart
Spec == Init /\ [][Next]_vars

-----------------------------------------------------------------------------
(* A sanction an operator was told of holds until it is lifted: a refused  *)
(* account is in the document and at no door, through restarts and failed  *)
(* lifts; a muted one says nothing on any connection until the process     *)
(* ends, however often it comes back; and each is on record.               *)
SanctionsStand ==
  /\ \A a \in told.refused : a \in refused /\ a \in document /\ <<"refuse", a>> \in audit
  /\ \A a \in told.muted   : (\A c \in Conn : MaySay(c) => account[c] # a) /\ <<"mute", a>> \in audit
=============================================================================
