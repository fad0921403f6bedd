--------------------------- MODULE PublishedWorlds ---------------------------
(***************************************************************************)
(* The worlds' directory and who writes into it by request: an editor who  *)
(* publishes (saveEditorWorld), a player who plays an archive of the Museum*)
(* (museum.go), and a test play, which is hosted without a file            *)
(* (startEditorTestPlay). Each looks, writes and hosts in steps of its own;*)
(* requests run at once and players come and go between the steps.         *)
(*                                                                         *)
(* A world's bytes are told apart by who wrote them. Collaborators are left*)
(* to EditMembers, dreams to Dreams.                                       *)
(***************************************************************************)
EXTENDS Naturals, FiniteSets

CONSTANTS Request, Account,
          Guest,              \* the empty account id
          Name, TestName,     \* names of worlds, and those of test plays
          Canonical,          \* the names no editor may replace
          None,               \* no file, no record, no instance
          Museum,             \* the author of what the Museum serves
          Broken              \* what a write that failed halfway leaves

VARIABLES
  file,      \* <NAME>.ZZT: who wrote it
  access,    \* the owner in <NAME>.access.json
  hosted,    \* the world an instance of the name was made from
  played,    \* whether that instance has clients
  cache,     \* whether the archive of a name is in .museum-cache
  req,       \* the requests being served
  raced      \* ghost: the names two requests worked on at once, or a player
             \* entered while one did

vars == <<file, access, hosted, played, cache, req, raced>>

NoRequest == [at |-> "rest", kind |-> None, by |-> Guest, name |-> None,
              claim |-> None, before |-> FALSE]

Init ==
  /\ file = [n \in Name |-> IF n \in Canonical THEN Museum ELSE None]
  /\ access = [n \in Name |-> None]
  /\ hosted = [n \in Name \union TestName |-> None]
  /\ played = [n \in Name \union TestName |-> FALSE]
  /\ cache = [n \in Name |-> FALSE]
  /\ req = [q \in Request |-> NoRequest]
  /\ raced = {}

AtWork(n) == {q \in Request : req[q].name = n}
Begins(q, r) ==
  /\ req[q] = NoRequest
  /\ req' = [req EXCEPT ![q] = r]
  /\ raced' = IF AtWork(r.name) = {} THEN raced ELSE raced \union {r.name}
Goes(q, r) == req' = [req EXCEPT ![q] = r] /\ UNCHANGED raced
Ends(q)    == Goes(q, NoRequest)

-----------------------------------------------------------------------------
(* hostGeneratedWorld: a new instance takes the place of one nobody plays. *)
MayHost(n) == ~played[n]
Hosts(n, world) == hosted' = [hosted EXCEPT ![n] = world]

(* WorldAccess.CanEdit, of the owner alone.                                *)
CanEdit(n, a) == access[n] \in {None, a}

(* saveEditorWorld looks: a world that is played, a classic, or one of     *)
(* another owner is refused; one without a record is the saver's to claim. *)
SaveAsked(q, a, n) ==
  /\ ~played[n] /\ n \notin Canonical /\ CanEdit(n, a)
  /\ Begins(q, [NoRequest EXCEPT !.at = "write", !.kind = "save", !.by = a, !.name = n,
                   !.claim = IF access[n] = None /\ a # Guest THEN a ELSE access[n]])
  /\ UNCHANGED <<file, access, hosted, played, cache>>

(* The world is written in place: a write that fails may have cut it off.  *)
WriteFails(q) ==
  \/ UNCHANGED file
  \/ file' = [file EXCEPT ![req[q].name] = Broken]

(* ... writes the world, then the record, and hosts; each may fail.        *)
SaveWrites(q) ==
  /\ req[q].at = "write" /\ req[q].kind = "save"
  /\ \/ file' = [file EXCEPT ![req[q].name] = req[q].by] /\ Goes(q, [req[q] EXCEPT !.at = "claim"])
     \/ WriteFails(q) /\ Ends(q)
  /\ UNCHANGED <<access, hosted, played, cache>>
SaveClaims(q) ==
  /\ req[q].at = "claim"
  /\ \/ /\ access' = IF req[q].claim = None THEN access
                     ELSE [access EXCEPT ![req[q].name] = req[q].claim]
        /\ Goes(q, [req[q] EXCEPT !.at = "host"])
     \/ UNCHANGED access /\ Ends(q)
  /\ UNCHANGED <<file, hosted, played, cache>>
SaveHosts(q) ==
  /\ req[q].at = "host" /\ req[q].kind = "save"
  /\ IF MayHost(req[q].name) THEN Hosts(req[q].name, req[q].by) ELSE UNCHANGED hosted
  /\ Ends(q)
  /\ UNCHANGED <<file, access, played, cache>>

-----------------------------------------------------------------------------
(* Play: the archive from the cache or from the Museum, at its pace. What  *)
(* holds no world is refused, one of several is asked to choose from, and  *)
(* a world that was chosen and is sound goes on to be hosted.              *)
PlayAsked(q, n) ==
  /\ Begins(q, [NoRequest EXCEPT !.at = "fetch", !.kind = "play", !.name = n])
  /\ UNCHANGED <<file, access, hosted, played, cache>>
PlayRefused(q) ==
  /\ req[q].at = "fetch"
  /\ Ends(q)
  /\ UNCHANGED <<file, access, hosted, played, cache>>
CommitCache(q) == cache' = [cache EXCEPT ![req[q].name] = TRUE]
PlayChoices(q) ==
  /\ req[q].at = "fetch"
  /\ CommitCache(q) /\ Ends(q)
  /\ UNCHANGED <<file, access, hosted, played>>
(* It is noted whether the file exists before it is written.               *)
PlayStats(q) ==
  /\ req[q].at = "fetch"
  /\ Goes(q, [req[q] EXCEPT !.at = "write", !.before = file[req[q].name] # None])
  /\ UNCHANGED <<file, access, hosted, played, cache>>

(* A bug: a request that fails removes a file that was there before it.    *)
RemovedAlways(q) == [file EXCEPT ![req[q].name] = None]

(* A request that fails removes the file that was not there before it.     *)
Removed(q) == [file EXCEPT ![req[q].name] = IF req[q].before THEN @ ELSE None]

PlayWrites(q) ==
  /\ req[q].at = "write" /\ req[q].kind = "play"
  /\ \/ /\ file' = [file EXCEPT ![req[q].name] = Museum]
        /\ Goes(q, [req[q] EXCEPT !.at = "host"])
     \/ /\ IF req[q].before THEN WriteFails(q) ELSE file' = Removed(q)
        /\ Ends(q)
  /\ UNCHANGED <<access, hosted, played, cache>>
PlayHosts(q) ==
  /\ req[q].at = "host" /\ req[q].kind = "play"
  /\ IF MayHost(req[q].name)
     THEN /\ Hosts(req[q].name, Museum)
          /\ CommitCache(q)
          /\ UNCHANGED file
     ELSE file' = Removed(q) /\ UNCHANGED <<hosted, cache>>
  /\ Ends(q)
  /\ UNCHANGED <<access, played>>

-----------------------------------------------------------------------------
(* A test play: a copy under a name nobody else draws, without a file.     *)
TestPlay(a, n) ==
  /\ MayHost(n) /\ Hosts(n, a)
  /\ UNCHANGED <<file, access, played, cache, req, raced>>

(* A player enters the instance of the name, or one made of its file.      *)
Enter(n) ==
  /\ ~played[n]
  /\ \/ hosted[n] # None /\ UNCHANGED hosted
     \/ /\ hosted[n] = None /\ n \in Name /\ file[n] \notin {None, Broken}
        /\ Hosts(n, file[n])
  /\ played' = [played EXCEPT ![n] = TRUE]
  /\ raced' = IF AtWork(n) = {} THEN raced ELSE raced \union {n}
  /\ UNCHANGED <<file, access, cache, req>>
Leave(n) ==
  /\ played[n] /\ played' = [played EXCEPT ![n] = FALSE]
  /\ UNCHANGED <<file, access, hosted, cache, req, raced>>
(* evictIdleInstances: an instance nobody plays is let go.                 *)
Evict(n) ==
  /\ hosted[n] # None /\ ~played[n]
  /\ hosted' = [hosted EXCEPT ![n] = None]
  /\ UNCHANGED <<file, access, played, cache, req, raced>>

Serve(q) ==
  \/ \E a \in Account, n \in Name : SaveAsked(q, a, n)
  \/ SaveWrites(q) \/ SaveClaims(q) \/ SaveHosts(q)
  \/ \E n \in Name : PlayAsked(q, n)
  \/ PlayRefused(q) \/ PlayChoices(q) \/ PlayStats(q) \/ PlayWrites(q) \/ PlayHosts(q)

Next ==
  \/ \E q \in Request : Serve(q)
  \/ \E a \in Account, n \in TestName : TestPlay(a, n)
  \/ \E n \in Name \union TestName : Enter(n) \/ Leave(n) \/ Evict(n)

Spec == Init /\ [][Next]_vars

-----------------------------------------------------------------------------
TypeOK ==
  /\ \A n \in Name : access[n] \in (Account \ {Guest}) \union {None}
  /\ \A n \in Name \union TestName : played[n] => hosted[n] # None
  /\ raced \subseteq Name

(* A world that was published stays: as long as its name was one request's  *)
(* at a time, a hosted world has a file to come back from, and the file an  *)
(* owner has is one they or the Museum wrote, though any step of a request  *)
(* may fail; it may be cut off, but is not removed or another's             *)
(* (museum.go:255-275, websocket_server.go:2922-3010).                      *)
PublishedStand ==
  \A n \in Name \ raced :
    /\ hosted[n] # None => file[n] # None
    /\ access[n] # None => file[n] \in {access[n], Museum, Broken}
=============================================================================
