------------------------------- MODULE Dreams -------------------------------
(***************************************************************************)
(* A dream: a player asks for a world, a job of the web API paints it with *)
(* the help of a model, and the world is saved and hosted (generation.go,  *)
(* world_title.go, web_api.go).  Several jobs run at once, players come    *)
(* into and leave the worlds, and a job whose world has stubs may be tried *)
(* again for them.                                                         *)
(*                                                                         *)
(* What the model paints is the module Painting's; here a world comes out  *)
(* of it with or without stubs, or not at all.  The pace of a client and   *)
(* the ceiling of a day are refusals that may happen at any time.          *)
(***************************************************************************)
EXTENDS Naturals, FiniteSets, Sequences

CONSTANTS Job, Account,
          Guest,          \* the zero account
          Nobody,         \* no access file
          Family,         \* the names around a title's stem, in minting order
          Canonical,      \* the names of the Museum's classics
          NoName,
          MaxConcurrent

Name == {Family[k] : k \in DOMAIN Family}

VARIABLES
  job,     \* each job and the goroutine that works on it
  sem,     \* how many more dreams may work
  held,    \* worldNameReservations
  saved,   \* the names with a world file
  owner,   \* the owner in each name's access record
  played   \* whether anybody plays the hosted world of a name

vars == <<job, sem, held, saved, owner, played>>

NoJob == [at |-> "rest", status |-> "none", account |-> Guest, typed |-> NoName, name |-> NoName,
          holds |-> FALSE, stubs |-> FALSE, resume |-> FALSE, landed |-> FALSE]

Init ==
  /\ job = [j \in Job |-> NoJob]
  /\ sem = MaxConcurrent /\ held = {}
  /\ saved = Canonical
  /\ owner = [n \in Name |-> Nobody] /\ played = [n \in Name |-> FALSE]

Set(j, r) == job' = [job EXCEPT ![j] = r]

-----------------------------------------------------------------------------
(* The job's bookkeeping                                                   *)

(* A bug: a minted name is kept when the dream fails.                      *)
ReleaseNothing(j) == held

ReleaseWorldName(j) == IF job[j].holds THEN held \ {job[j].name} ELSE held

(* A bug: only a first attempt gives its slot back.                        *)
ReleaseSlotOnce(j) == IF job[j].at = "admit" \/ job[j].landed THEN sem ELSE sem + 1

ReleaseSlot(j) == IF job[j].at = "admit" THEN sem ELSE sem + 1

(* generate or RetryBoard returns an error: what it deferred is undone, and*)
(* finishGenerationJob marks the job.  A failure leaves nothing to retry.  *)
Fails(j, r) ==
  /\ Set(j, [NoJob EXCEPT !.status = "failed", !.account = r.account, !.name = r.name,
                          !.landed = r.landed])
  /\ held' = ReleaseWorldName(j)
  /\ sem' = ReleaseSlot(j)

Fail(j) == Fails(j, job[j]) /\ UNCHANGED <<saved, owner, played>>

(* handleGenerate: an account asks, with a name of its own or none.        *)
Request(j, a, n) ==
  /\ job[j] = NoJob
  /\ Set(j, [NoJob EXCEPT !.at = "admit", !.status = "running", !.account = a, !.typed = n])
  /\ UNCHANGED <<sem, held, saved, owner, played>>

(* admit: too soon, too many today, or a slot when there is one.           *)
Refuse(j) == job[j].at = "admit" /\ Fail(j)

Admit(j) ==
  /\ job[j].at = "admit" /\ sem > 0
  /\ sem' = sem - 1
  /\ Set(j, [job[j] EXCEPT !.at = "plan"])
  /\ UNCHANGED <<held, saved, owner, played>>

(* A retry takes a slot too, and holds its name again if nobody does.      *)
ReAdmit(j) ==
  /\ job[j].at = "again" /\ sem > 0
  /\ sem' = sem - 1 /\ held' = held \cup {job[j].name}
  /\ Set(j, [job[j] EXCEPT !.at = "paint", !.holds = job[j].name \notin held])
  /\ UNCHANGED <<saved, owner, played>>

-----------------------------------------------------------------------------
(* Whose name it may be                                                    *)
RefuseIfOccupied(n)   == played[n]
RefuseIfNotOurs(n, a) == owner[n] \notin {Nobody, a}
Refused(n, a) == RefuseIfOccupied(n) \/ RefuseIfNotOurs(n, a) \/ n \in Canonical

WorldNameIsFree(n) ==
  n \notin held /\ n \notin Canonical /\ ~played[n] /\ n \notin saved /\ owner[n] = Nobody

Resolved(j, n, minted) ==
  /\ Set(j, [job[j] EXCEPT !.at = "paint", !.name = n, !.holds = minted])
  /\ held' = IF minted THEN held \cup {n} ELSE held
  /\ UNCHANGED <<sem, saved, owner, played>>

(* makePlan, which may exhaust its repairs, then resolveGeneratedName: a   *)
(* typed name is refused or taken, an untyped one is minted and held.      *)
PlanFails(j) == job[j].at = "plan" /\ Fail(j)

TakeTypedName(j) ==
  /\ job[j].at = "plan" /\ job[j].typed # NoName
  /\ IF Refused(job[j].typed, job[j].account) THEN Fail(j) ELSE Resolved(j, job[j].typed, FALSE)

MintWorldName(j) ==
  /\ job[j].at = "plan" /\ job[j].typed = NoName
  /\ LET free == {k \in DOMAIN Family : WorldNameIsFree(Family[k])}
     IN IF free = {} THEN Fail(j)
        ELSE Resolved(j, Family[CHOOSE k \in free : \A m \in free : k <= m], TRUE)

-----------------------------------------------------------------------------
(* paintAndFinish: the boards are painted, or it fails.                    *)
PaintingFails(j) == job[j].at = "paint" /\ Fail(j)

Paint(j) ==
  /\ job[j].at = "paint"
  /\ \E s \in BOOLEAN : Set(j, [job[j] EXCEPT !.at = "gate", !.stubs = s])
  /\ UNCHANGED <<sem, held, saved, owner, played>>

(* The last word before the first byte: whose name is it now?              *)
LastGate(j) ==
  /\ job[j].at = "gate"
  /\ IF Refused(job[j].name, job[j].account) THEN Fail(j)
     ELSE /\ Set(j, [job[j] EXCEPT !.at = "persist"])
          /\ UNCHANGED <<sem, held, saved, owner, played>>

-----------------------------------------------------------------------------
(* persistGeneratedWorld: the world saved, then three sidecars; any of them *)
(* may fail.                                                               *)
Wrote(j) == saved' = saved \cup {job[j].name}

Persist(j) ==
  /\ job[j].at = "persist"
  /\ Wrote(j)
  /\ Set(j, [job[j] EXCEPT !.at = "claim"])
  /\ UNCHANGED <<sem, held, owner, played>>

PersistFails(j) ==
  /\ job[j].at = "persist"
  /\ Wrote(j) \/ UNCHANGED saved
  /\ Fails(j, job[j]) /\ UNCHANGED <<owner, played>>

(* claimGeneratedWorld: a record that exists is kept.                      *)
Claim(j) ==
  LET r == job[j]
  IN /\ r.at = "claim"
     /\ owner' = IF r.account # Guest /\ owner[r.name] = Nobody
                 THEN [owner EXCEPT ![r.name] = r.account] ELSE owner
     /\ Set(j, [r EXCEPT !.at = "host"])
     /\ UNCHANGED <<sem, held, saved, played>>

(* HostGeneratedWorld refuses a world that is played; otherwise the dream  *)
(* is done, and can be tried again if it has stubs.                        *)
Host(j) ==
  LET r == job[j]
  IN /\ r.at = "host"
     /\ IF played[r.name] THEN Fail(j)
        ELSE /\ sem' = ReleaseSlot(j) /\ held' = ReleaseWorldName(j)
             /\ Set(j, [NoJob EXCEPT !.status = "complete", !.account = r.account, !.name = r.name,
                          !.resume = r.stubs, !.landed = TRUE])
             /\ UNCHANGED <<saved, owner, played>>

(* handleGenerationRetry: the job is running before the goroutine starts.  *)
Retry(j) ==
  /\ job[j].status \in {"failed", "complete"} /\ job[j].resume
  /\ Set(j, [job[j] EXCEPT !.at = "again", !.status = "running", !.resume = FALSE])
  /\ UNCHANGED <<sem, held, saved, owner, played>>

-----------------------------------------------------------------------------
(* Players come into a world that has a saved, and leave it.                *)
Enter(n) ==
  /\ n \in saved /\ played' = [played EXCEPT ![n] = TRUE]
  /\ UNCHANGED <<job, sem, held, saved, owner>>
Leave(n) ==
  /\ played' = [played EXCEPT ![n] = FALSE]
  /\ UNCHANGED <<job, sem, held, saved, owner>>

Work(j) ==
  \/ PlanFails(j) \/ TakeTypedName(j) \/ MintWorldName(j) \/ PaintingFails(j) \/ Paint(j)
  \/ LastGate(j) \/ Persist(j) \/ PersistFails(j) \/ Claim(j) \/ Host(j)

Next ==
  \/ \E j \in Job : \/ \E a \in Account, n \in Name \cup {NoName} : Request(j, a, n)
                    \/ Refuse(j) \/ Admit(j) \/ ReAdmit(j) \/ Work(j) \/ Retry(j)
  \/ \E n \in Name \ Canonical : Enter(n) \/ Leave(n)

(* A job's goroutine runs on; a call to the model ends by its client's     *)
(* timeout; those who wait for a slot are served in turn, as the senders on*)
(* a channel are.                                                          *)
Fairness == \A j \in Job : WF_vars(Work(j)) /\ SF_vars(Admit(j)) /\ SF_vars(ReAdmit(j))

Spec == Init /\ [][Next]_vars /\ Fairness

-----------------------------------------------------------------------------
Working == {j \in Job : job[j].at \notin {"rest", "admit", "again"}}

TypeOK ==
  /\ \A j \in Job : /\ job[j].name \in Name \cup {NoName}
                    /\ job[j].at = "rest" <=> job[j].status # "running"
                    /\ job[j].resume => job[j].landed
  /\ sem = MaxConcurrent - Cardinality(Working)
  /\ played \in [Name -> BOOLEAN] /\ owner \in [Name -> Account \cup {Nobody}]

(* Every name that is held is held for one dream at work, and dreams that  *)
(* minted theirs hold different ones: no name is lost to a failed dream or *)
(* given to two.                                                           *)
HeldByDreams ==
  /\ held = {job[j].name : j \in {i \in Job : job[i].holds}}
  /\ \A i, j \in Job : i # j /\ job[i].holds /\ job[j].holds => job[i].name # job[j].name
  /\ \A j \in Job : job[j].holds => j \in Working

(* Every job that was asked for comes to an end, whatever becomes of the   *)
(* others and however often they are tried again.                          *)
JobsEnd == \A j \in Job : (job[j].status = "running") ~> (job[j].status # "running")
=============================================================================
