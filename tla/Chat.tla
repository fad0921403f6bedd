-------------------------------- MODULE Chat --------------------------------
(***************************************************************************)
(* Global chat (websocket_server.go) with its history (chat_db.go) and the *)
(* players' blocks (chat_blocks.go).  A line is admitted, stored and sent  *)
(* to the clients there are by its author's read loop, while others join,  *)
(* come back, block and leave in theirs: a client is registered under its  *)
(* instance's lock, and its blocks are seeded and the backlog is written   *)
(* to it afterwards, under none.  PlayerIDs start over with the process.   *)
(***************************************************************************)
EXTENDS Naturals, Sequences, FiniteSets

CONSTANTS Player,              \* PlayerIDs
          Account, Guest,      \* Guest: the empty accountID
          MaxLines             \* lines said; no more than the backlog of 50

VARIABLES
  at,          \* where each PlayerID's newest connection is
  account,     \* whose it is
  blocks,      \* chatBlocks.blockers: [players, accounts]
  stored,      \* BlockedAccounts of each account's preferences
  lines,       \* the history: author's PlayerID, 0 when read back, and account
  sending,     \* each author's line and the clients it is still for
  heard,       \* which lines each connection's player has seen
  older,       \* those whose older socket's read loop has not ended yet
  spared,      \* ghost: which were kept from them by a block they had asked for
  promised,    \* ghost: the accounts a connection was told it will not hear
  forgotten    \* ghost: those whose older socket's end took the newer one's set

vars == <<at, account, blocks, stored, lines, sending, heard, older, spared, promised, forgotten>>

Who      == Account \cup {Guest}
NoBlocks == [players |-> {}, accounts |-> {}]
NotSending == [line |-> 0, to |-> {}]
Connected == {p \in Player : at[p] \in {"registered", "seeded", "in"}}

Init ==
  /\ at = [p \in Player |-> "none"] /\ account = [p \in Player |-> Guest]
  /\ blocks = [p \in Player |-> NoBlocks] /\ stored = [a \in Account |-> {}]
  /\ lines = <<>> /\ sending = [p \in Player |-> NotSending]
  /\ heard = [p \in Player |-> {}] /\ spared = [p \in Player |-> {}]
  /\ promised = [p \in Player |-> {}] /\ older = {} /\ forgotten = {}

-----------------------------------------------------------------------------
(* Blocks                                                                  *)

(* A bug: only the connection an author had when they were blocked.        *)
SuppressesPlayer(p, line) == line.id # p /\ line.id \in blocks[p].players

(* suppresses: nobody blocks themselves; an id of 0 and no account match   *)
(* no one.                                                                 *)
Suppresses(p, line) ==
  /\ line.id # p
  /\ \/ line.id # 0 /\ line.id \in blocks[p].players
     \/ line.account # Guest /\ line.account \in blocks[p].accounts

Blocked(p, q) ==
  [players |-> blocks[p].players \cup {q}, accounts |-> blocks[p].accounts \cup ({account[q]} \ {Guest})]
Unblocked(p, q) ==
  [players |-> blocks[p].players \ {q}, accounts |-> blocks[p].accounts \ {account[q]}]

(* submitChatBlock, and persistBlockedAccounts when both have an account:  *)
(* this connection's set is what the account's document then says.         *)
SubmitChatBlock(p, q, new) ==
  /\ at[p] = "in" /\ at[q] # "none" /\ q # p
  /\ blocks' = [blocks EXCEPT ![p] = new]
  /\ stored' = [a \in Account |-> IF a = account[p] /\ account[q] # Guest THEN new.accounts ELSE stored[a]]
  /\ promised' = [promised EXCEPT ![p] = IF account[q] \in new.accounts THEN @ \cup {account[q]}
                                         ELSE @ \ {account[q]}]
  /\ UNCHANGED <<at, account, lines, sending, heard, spared, older, forgotten>>

-----------------------------------------------------------------------------
(* Connections                                                             *)

(* The join's critical section, on a new PlayerID, or on the token of one  *)
(* that is detached or still connected: the older socket's read loop then  *)
(* ends later.                                                             *)
Register(p) ==
  /\ \/ /\ at[p] = "none"
        /\ \E a \in Who : account' = [account EXCEPT ![p] = a]
        /\ UNCHANGED older
     \/ at[p] = "detached" /\ UNCHANGED <<account, older>>
     \/ at[p] = "in" /\ p \notin older /\ sending[p] = NotSending
        /\ older' = older \cup {p} /\ UNCHANGED account
  /\ at' = [at EXCEPT ![p] = "registered"]
  /\ UNCHANGED <<blocks, stored, lines, sending, heard, spared, promised, forgotten>>

StoredFor(p) == IF account[p] = Guest THEN {} ELSE stored[account[p]]

(* seedAccountBlocks adds to what the connection's set already holds.      *)
Seed(p) ==
  /\ at[p] = "registered"
  /\ at' = [at EXCEPT ![p] = "seeded"]
  /\ blocks' = [blocks EXCEPT ![p].accounts = @ \cup StoredFor(p)]
  /\ promised' = [promised EXCEPT ![p] = StoredFor(p) \cup (IF p \in forgotten THEN {} ELSE @)]
  /\ forgotten' = forgotten \ {p}
  /\ UNCHANGED <<account, stored, lines, sending, heard, spared, older>>

(* The backlog, without what is blocked.                                   *)
Replay(p) ==
  /\ at[p] = "seeded"
  /\ at' = [at EXCEPT ![p] = "in"]
  /\ LET kept == {i \in DOMAIN lines : Suppresses(p, lines[i])}
     IN /\ heard' = [heard EXCEPT ![p] = @ \cup (DOMAIN lines \ kept)]
        /\ spared' = [spared EXCEPT ![p] = @ \cup kept]
  /\ UNCHANGED <<account, blocks, stored, lines, sending, promised, older, forgotten>>

(* handleReadLoopExit: the set is forgotten; the avatar stays a while.     *)
Leave(p) ==
  /\ at[p] = "in" /\ sending[p] = NotSending
  /\ at' = [at EXCEPT ![p] = "detached"]
  /\ blocks' = [blocks EXCEPT ![p] = NoBlocks]
  /\ promised' = [promised EXCEPT ![p] = {}] /\ forgotten' = forgotten \ {p}
  /\ UNCHANGED <<account, stored, lines, sending, heard, spared, older>>

(* The same, by a socket that a newer one has replaced.                    *)
OlderLoopExits(p) ==
  /\ p \in older /\ older' = older \ {p}
  /\ blocks' = [blocks EXCEPT ![p] = NoBlocks]
  /\ forgotten' = IF at[p] = "detached" THEN forgotten ELSE forgotten \cup {p}
  /\ UNCHANGED <<at, account, stored, lines, sending, heard, spared, promised>>

(* A restart: the history is read back without its PlayerIDs.              *)
Restart ==
  /\ at' = [p \in Player |-> "none"] /\ account' = [p \in Player |-> Guest]
  /\ blocks' = [p \in Player |-> NoBlocks] /\ promised' = [p \in Player |-> {}]
  /\ lines' = [i \in DOMAIN lines |-> [lines[i] EXCEPT !.id = 0]]
  /\ sending' = [p \in Player |-> NotSending]
  /\ heard' = [p \in Player |-> {}] /\ spared' = [p \in Player |-> {}]
  /\ older' = {} /\ forgotten' = {} /\ UNCHANGED stored

-----------------------------------------------------------------------------
(* Lines                                                                   *)

(* AddMessage, by an author whose line was admitted.                       *)
AddMessage(p) ==
  /\ at[p] = "in" /\ sending[p] = NotSending /\ Len(lines) < MaxLines
  /\ lines' = Append(lines, [id |-> p, account |-> account[p]])
  /\ sending' = [sending EXCEPT ![p] = [line |-> Len(lines) + 1, to |-> {0}]]
  /\ UNCHANGED <<at, account, blocks, stored, heard, spared, promised, older, forgotten>>

(* BroadcastGlobalChat: the clients there are, and then each in turn.      *)
Collect(p) ==
  /\ sending[p].to = {0}
  /\ sending' = [sending EXCEPT ![p].to = Connected]
  /\ UNCHANGED <<at, account, blocks, stored, lines, heard, spared, promised, older, forgotten>>

(* A bug: the first client a block keeps it from ends the loop.            *)
DeliverReturning(p, q) ==
  LET i == sending[p].line
      kept == Suppresses(q, lines[i])
  IN /\ q \in sending[p].to
     /\ sending' = [sending EXCEPT
                     ![p] = IF kept \/ @.to = {q} THEN NotSending ELSE [line |-> i, to |-> @.to \ {q}]]
     /\ heard' = [heard EXCEPT ![q] = IF kept \/ q \notin Connected THEN @ ELSE @ \cup {i}]
     /\ spared' = [spared EXCEPT ![q] = IF kept THEN @ \cup {i} ELSE @]
     /\ UNCHANGED <<at, account, blocks, stored, lines, promised, older, forgotten>>

Deliver(p, q) ==
  LET i == sending[p].line
      kept == Suppresses(q, lines[i])
  IN /\ q \in sending[p].to
     /\ sending' = [sending EXCEPT ![p] = IF @.to = {q} THEN NotSending ELSE [line |-> i, to |-> @.to \ {q}]]
     /\ heard' = [heard EXCEPT ![q] = IF kept \/ q \notin Connected THEN @ ELSE @ \cup {i}]
     /\ spared' = [spared EXCEPT ![q] = IF kept THEN @ \cup {i} ELSE @]
     /\ UNCHANGED <<at, account, blocks, stored, lines, promised, older, forgotten>>

Next ==
  \/ \E p \in Player : Register(p) \/ Seed(p) \/ Replay(p) \/ Leave(p) \/ OlderLoopExits(p)
                       \/ AddMessage(p) \/ Collect(p)
  \/ \E p, q \in Player : \/ Deliver(p, q)
                          \/ SubmitChatBlock(p, q, Blocked(p, q)) \/ SubmitChatBlock(p, q, Unblocked(p, q))
  \/ Restart
Spec == Init /\ [][Next]_vars

-----------------------------------------------------------------------------
(* Lines that are on their way to a player.                                *)
OnTheWay(q) == {sending[p].line : p \in {r \in Player : sending[r].to = {0} \/ q \in sending[r].to}}

(* Whoever is in hears every line of the history, live or from the backlog,*)
(* whatever joins, returns and restarts it fell between, but for what they *)
(* asked not to hear.                                                      *)
NothingMissed ==
  \A p \in Player : at[p] = "in" => DOMAIN lines \subseteq heard[p] \cup spared[p] \cup OnTheWay(p)

(* No line of an account reaches a connection that was told it is blocked, *)
(* live or from the backlog, under whichever PlayerID it was said, after a *)
(* return and after a restart, unless the end of an older socket took the  *)
(* newer one's blocks with it.                                             *)
BlocksHold ==
  [][\A p \in Player \ forgotten : \A i \in heard'[p] \ heard[p] :
       lines[i].account \in promised[p] => lines[i].id = p]_vars
=============================================================================
