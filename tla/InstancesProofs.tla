--------------------------- MODULE InstancesProofs ---------------------------
(***************************************************************************)
(* Instances for any worlds, connections and limits: the locals are set    *)
(* where they are used, a player has one avatar, avatars are attended to   *)
(* and can be reclaimed.                                                   *)
(*                                                                         *)
(* None of the three is inductive alone.  What makes them so is that an    *)
(* instance knows a player only in one place at a time: leaving wipes every*)
(* trace of the player before the destination hears of them.  Where nobody *)
(* walks between worlds, no dead connection is left in one either.         *)
(***************************************************************************)
EXTENDS Instances, TLAPS

USE WorldAssumption, LimitAssumption, NoneAssumption DEF Player, Inst

Reclaimable(r) == {p \in Player : r.token[p] # 0}
Known(r) == r.avatars \cup Connected(r) \cup Detached(r) \cup Reclaimable(r)

(* What holds of one instance between critical sections.                   *)
Sound(r) ==
  /\ r.avatars \subseteq Connected(r) \cup Detached(r)
  /\ Connected(r) \cap Detached(r) = {}
  /\ r.avatars \subseteq Reclaimable(r)

(* An instance that has forgotten something, and learnt nothing.           *)
Keeps(s, r) ==
  /\ s \in InstanceRecord /\ Sound(s)
  /\ Known(s) \subseteq Known(r)
  /\ \A p \in Player : s.token[p] = 0 \/ s.token[p] = r.token[p]

Apart ==
  /\ \A i \in Inst : Sound(inst[i])
  /\ \A i \in Inst : Known(inst[i]) \subseteq 1 .. minted
  /\ \A i, j \in Inst : i # j => Known(inst[i]) \cap Known(inst[j]) = {}
  /\ \A i \in Inst, p \in Player : inst[i].token[p] <= issued
  /\ \A i, j \in Inst, p, q \in Player :
       inst[i].token[p] # 0 /\ inst[i].token[p] = inst[j].token[q] => i = j /\ p = q

(* Between the two halves of a transit the player is known nowhere.        *)
InTransit ==
  step = "arriving" =>
    /\ gate.player \in 1 .. minted
    /\ \A i \in Inst : gate.player \notin Known(inst[i])

IInv == TypeOK /\ Apart /\ InTransit

-----------------------------------------------------------------------------
(* The handlers, one instance at a time.                                   *)

LEMMA UnplugTyped ==
  ASSUME NEW r \in InstanceRecord, NEW p \in Player
  PROVE  /\ Unplug(r, p) \in InstanceRecord
         /\ Unplug(r, p).avatars = r.avatars /\ Unplug(r, p).token = r.token
         /\ Unplug(r, p).detached = r.detached
         /\ Unplug(r, p).clients = [r.clients EXCEPT ![p] = None]
BY DEF Unplug, InstanceRecord

LEMMA ForgetTyped ==
  ASSUME NEW r \in InstanceRecord, NEW p \in Player
  PROVE  /\ Forget(r, p) \in InstanceRecord
         /\ Forget(r, p).avatars = r.avatars /\ Forget(r, p).clients = r.clients
         /\ Forget(r, p).token = [r.token EXCEPT ![p] = 0]
         /\ Forget(r, p).detached = [r.detached EXCEPT ![p] = 0]
<1>1. /\ [r.token EXCEPT ![p] = 0] \in [Player -> Nat]
      /\ [r.detached EXCEPT ![p] = 0] \in [Player -> 0 .. Grace]
  BY DEF InstanceRecord
<1>2. Forget(r, p) = [r EXCEPT !.token = [r.token EXCEPT ![p] = 0],
                               !.detached = [r.detached EXCEPT ![p] = 0]]
  BY DEF Forget
<1> QED BY <1>1, <1>2 DEF InstanceRecord

LEMMA RemoveTyped ==
  ASSUME NEW r \in InstanceRecord, NEW p \in Player
  PROVE  /\ Remove(r, p) \in InstanceRecord
         /\ Remove(r, p).avatars = r.avatars \ {p} /\ Remove(r, p).clients = r.clients
         /\ Remove(r, p).token = [r.token EXCEPT ![p] = 0]
         /\ Remove(r, p).detached = [r.detached EXCEPT ![p] = 0]
<1> DEFINE f == Forget(r, p)
<1>1. /\ f \in InstanceRecord /\ f.avatars = r.avatars /\ f.clients = r.clients
      /\ f.token = [r.token EXCEPT ![p] = 0] /\ f.detached = [r.detached EXCEPT ![p] = 0]
  BY ForgetTyped
<1>2. Remove(r, p) = [f EXCEPT !.avatars = @ \ {p}, !.pending = @ \ {p}]
  BY DEF Remove
<1> HIDE DEF f
<1>3. f.avatars \ {p} \in SUBSET Player /\ f.pending \ {p} \in SUBSET Player
  BY <1>1 DEF InstanceRecord
<1>4. Remove(r, p) \in InstanceRecord
  BY <1>1, <1>2, <1>3 DEF InstanceRecord
<1>5. Remove(r, p).avatars = f.avatars \ {p} /\ Remove(r, p).clients = f.clients
      /\ Remove(r, p).token = f.token /\ Remove(r, p).detached = f.detached
  BY <1>1, <1>2 DEF InstanceRecord
<1> QED BY <1>1, <1>4, <1>5

LEMMA ForgetKeeps ==
  ASSUME NEW r \in InstanceRecord, NEW p \in Player, Sound(r), p \notin r.avatars
  PROVE  Keeps(Forget(r, p), r)
<1> DEFINE s == Forget(r, p)
<1>1. /\ s \in InstanceRecord /\ s.avatars = r.avatars /\ s.clients = r.clients
      /\ s.token = [r.token EXCEPT ![p] = 0] /\ s.detached = [r.detached EXCEPT ![p] = 0]
  BY ForgetTyped
<1>2. r.token \in [Player -> Nat] /\ r.detached \in [Player -> 0 .. Grace] /\ r.avatars \subseteq Player
  BY DEF InstanceRecord
<1> HIDE DEF s
<1>3. Connected(s) = Connected(r) /\ Detached(s) = Detached(r) \ {p}
      /\ Reclaimable(s) = Reclaimable(r) \ {p}
  BY <1>1, <1>2, SMTT(30) DEF Connected, Detached, Reclaimable
<1>4. Sound(s) /\ Known(s) \subseteq Known(r)
  BY <1>1, <1>3 DEF Sound, Known
<1>5. \A q \in Player : s.token[q] = 0 \/ s.token[q] = r.token[q]
  BY <1>1, <1>2
<1> QED BY <1>1, <1>4, <1>5 DEF Keeps, s

LEMMA ReadLoopExitKeeps ==
  ASSUME NEW r \in InstanceRecord, NEW c \in Conn, NEW p \in Player, Sound(r)
  PROVE  Keeps(ReadLoopExit(r, c, p), r)
<1>0. r.token \in [Player -> Nat] /\ r.detached \in [Player -> 0 .. Grace] /\ r.avatars \subseteq Player
      /\ r.clients \in [Player -> Conn \cup {None}]
  BY DEF InstanceRecord
<1>1. CASE r.clients[p] # c
  <2>1. ReadLoopExit(r, c, p) = r
    BY <1>1 DEF ReadLoopExit
  <2>2. Keeps(r, r)
    <3>1. Known(r) \subseteq Known(r)
      OBVIOUS
    <3> QED BY <3>1 DEF Keeps
  <2> QED BY <2>1, <2>2
<1>2. CASE r.clients[p] = c /\ p \in r.avatars
  <2> DEFINE u == Unplug(r, p)
             s == [u EXCEPT !.detached[p] = Grace]
  <2>1. /\ u \in InstanceRecord /\ u.avatars = r.avatars /\ u.token = r.token
        /\ u.detached = r.detached /\ u.clients = [r.clients EXCEPT ![p] = None]
    BY UnplugTyped
  <2>2. ReadLoopExit(r, c, p) = s
    BY <1>2 DEF ReadLoopExit
  <2> HIDE DEF u
  <2>a. [u.detached EXCEPT ![p] = Grace] \in [Player -> 0 .. Grace]
    BY <2>1 DEF InstanceRecord
  <2>b. s = [u EXCEPT !.detached = [u.detached EXCEPT ![p] = Grace]]
    OBVIOUS
  <2>3. /\ s \in InstanceRecord /\ s.avatars = r.avatars /\ s.token = r.token
        /\ s.detached = [r.detached EXCEPT ![p] = Grace]
        /\ s.clients = [r.clients EXCEPT ![p] = None]
    BY <2>1, <2>a, <2>b DEF InstanceRecord
  <2> HIDE DEF s
  <2>4. /\ Connected(s) = Connected(r) \ {p} /\ Detached(s) = Detached(r) \cup {p}
        /\ Reclaimable(s) = Reclaimable(r)
    BY <1>0, <2>3, SMTT(30) DEF Connected, Detached, Reclaimable
  <2>5. Sound(s) /\ Known(s) \subseteq Known(r)
    BY <1>2, <2>3, <2>4 DEF Sound, Known
  <2> QED BY <2>2, <2>3, <2>5 DEF Keeps
<1>3. CASE r.clients[p] = c /\ p \notin r.avatars
  <2> DEFINE u == Unplug(r, p)
  <2>1. /\ u \in InstanceRecord /\ u.avatars = r.avatars /\ u.token = r.token
        /\ u.detached = r.detached /\ u.clients = [r.clients EXCEPT ![p] = None]
    BY UnplugTyped
  <2>2. ReadLoopExit(r, c, p) = Forget(u, p)
    BY <1>3 DEF ReadLoopExit
  <2> HIDE DEF u
  <2>3. /\ Connected(u) = Connected(r) \ {p} /\ Detached(u) = Detached(r)
        /\ Reclaimable(u) = Reclaimable(r)
    BY <1>0, <2>1 DEF Connected, Detached, Reclaimable
  <2>4. Sound(u) /\ Known(u) \subseteq Known(r)
    BY <1>3, <2>1, <2>3 DEF Sound, Known
  <2>5. Keeps(Forget(u, p), u)
    BY <1>3, <2>1, <2>4, ForgetKeeps
  <2> QED BY <2>1, <2>2, <2>4, <2>5 DEF Keeps
<1> QED BY <1>1, <1>2, <1>3

LEMMA RemoveKeeps ==
  ASSUME NEW r \in InstanceRecord, NEW p \in Player, Sound(r)
  PROVE  /\ Keeps(Remove(Unplug(r, p), p), r)
         /\ p \notin Known(Remove(Unplug(r, p), p))
<1> DEFINE u == Unplug(r, p)
           s == Remove(u, p)
<1>0. r.token \in [Player -> Nat] /\ r.detached \in [Player -> 0 .. Grace] /\ r.avatars \subseteq Player
      /\ r.clients \in [Player -> Conn \cup {None}]
  BY DEF InstanceRecord
<1>1. /\ u \in InstanceRecord /\ u.avatars = r.avatars /\ u.token = r.token
      /\ u.detached = r.detached /\ u.clients = [r.clients EXCEPT ![p] = None]
  BY UnplugTyped
<1> HIDE DEF u
<1>2. /\ s \in InstanceRecord /\ s.avatars = u.avatars \ {p} /\ s.clients = u.clients
      /\ s.token = [u.token EXCEPT ![p] = 0] /\ s.detached = [u.detached EXCEPT ![p] = 0]
  BY <1>1, RemoveTyped
<1> HIDE DEF s
<1>3. /\ Connected(s) = Connected(r) \ {p} /\ Detached(s) = Detached(r) \ {p}
      /\ Reclaimable(s) = Reclaimable(r) \ {p}
  BY <1>0, <1>1, <1>2, SMTT(30) DEF Connected, Detached, Reclaimable
<1>4. Sound(s) /\ Known(s) \subseteq Known(r) /\ p \notin Known(s)
  BY <1>1, <1>2, <1>3 DEF Sound, Known
<1>5. \A q \in Player : s.token[q] = 0 \/ s.token[q] = r.token[q]
  BY <1>0, <1>1, <1>2
<1> QED BY <1>2, <1>4, <1>5 DEF Keeps, s, u

LEMMA AttachKeeps ==
  ASSUME NEW r \in InstanceRecord, NEW c \in Conn, NEW p \in r.avatars, Sound(r)
  PROVE  Keeps(Attach(r, c, p), r)
<1> DEFINE s == Attach(r, c, p)
<1>0. r.token \in [Player -> Nat] /\ r.detached \in [Player -> 0 .. Grace] /\ r.avatars \subseteq Player
      /\ r.clients \in [Player -> Conn \cup {None}]
  BY DEF InstanceRecord
<1>1. /\ [r.clients EXCEPT ![p] = c] \in [Player -> Conn \cup {None}]
      /\ [r.detached EXCEPT ![p] = 0] \in [Player -> 0 .. Grace]
  BY <1>0
<1>2. s = [r EXCEPT !.clients = [r.clients EXCEPT ![p] = c], !.detached = [r.detached EXCEPT ![p] = 0]]
  BY DEF Attach
<1> HIDE DEF s
<1>3. /\ s \in InstanceRecord /\ s.avatars = r.avatars /\ s.token = r.token
      /\ s.clients = [r.clients EXCEPT ![p] = c] /\ s.detached = [r.detached EXCEPT ![p] = 0]
  BY <1>1, <1>2 DEF InstanceRecord
<1>4. /\ Connected(s) = Connected(r) \cup {p} /\ Detached(s) = Detached(r) \ {p}
      /\ Reclaimable(s) = Reclaimable(r)
  BY <1>0, <1>3 DEF Connected, Detached, Reclaimable
<1>5. Sound(s) /\ Known(s) \subseteq Known(r)
  BY <1>3, <1>4 DEF Sound, Known
<1> QED BY <1>3, <1>5 DEF Keeps, s

LEMMA ExpireKeeps ==
  ASSUME NEW r \in InstanceRecord, Sound(r)
  PROVE  Keeps(Expire(r), r)
<1> DEFINE due == {p \in Player : r.detached[p] = 1}
           left == [p \in Player |-> IF r.detached[p] = 0 THEN 0 ELSE r.detached[p] - 1]
           held == [p \in Player |-> IF p \in due THEN 0 ELSE r.token[p]]
           s == Expire(r)
<1>0. r.token \in [Player -> Nat] /\ r.detached \in [Player -> 0 .. Grace] /\ r.avatars \subseteq Player
      /\ r.pending \subseteq Player
  BY DEF InstanceRecord
<1>1. /\ left \in [Player -> 0 .. Grace] /\ held \in [Player -> Nat]
      /\ r.avatars \ due \in SUBSET Player /\ r.pending \ due \in SUBSET Player
  BY <1>0, SMTT(30)
<1>2. s = [r EXCEPT !.detached = left, !.token = held,
                    !.avatars = r.avatars \ due, !.pending = r.pending \ due]
  BY DEF Expire
<1>a. \A p \in Player : held[p] = 0 \/ held[p] = r.token[p]
  OBVIOUS
<1>b. {p \in Player : left[p] > 0} = Detached(r) \ due
  BY <1>0 DEF Detached
<1>c. {p \in Player : held[p] # 0} = Reclaimable(r) \ due
  BY <1>0 DEF Reclaimable
<1>d. due \subseteq Detached(r)
  BY DEF Detached
<1> HIDE DEF s, left, held, due
<1>3. /\ s \in InstanceRecord /\ s.avatars = r.avatars \ due /\ s.token = held
      /\ s.clients = r.clients /\ s.detached = left
  BY <1>1, <1>2 DEF InstanceRecord
<1>4. /\ Connected(s) = Connected(r) /\ Detached(s) = Detached(r) \ due
      /\ Reclaimable(s) = Reclaimable(r) \ due
  BY <1>3, <1>b, <1>c DEF Connected, Detached, Reclaimable
<1>5. Sound(s) /\ Known(s) \subseteq Known(r)
  BY <1>3, <1>4, <1>d DEF Sound, Known
<1> QED BY <1>3, <1>5, <1>a DEF Keeps, s

(* A record that differs in nothing the invariant looks at, or in fewer    *)
(* avatars.                                                                *)
LEMMA FewerAvatarsKeep ==
  ASSUME NEW r \in InstanceRecord, NEW s \in InstanceRecord, Sound(r),
         s.avatars \subseteq r.avatars, s.clients = r.clients,
         s.detached = r.detached, s.token = r.token
  PROVE  Keeps(s, r)
<1>1. Connected(s) = Connected(r) /\ Detached(s) = Detached(r) /\ Reclaimable(s) = Reclaimable(r)
  BY DEF Connected, Detached, Reclaimable
<1>2. Sound(s) /\ Known(s) \subseteq Known(r)
  BY <1>1 DEF Sound, Known
<1> QED BY <1>2 DEF Keeps

LEMMA JoinAsTyped ==
  ASSUME NEW r \in InstanceRecord, NEW c \in Conn, NEW p \in Player, Sound(r),
         p \notin Known(r), issued \in Nat
  PROVE  /\ JoinAs(r, c, p) \in InstanceRecord /\ Sound(JoinAs(r, c, p))
         /\ Known(JoinAs(r, c, p)) = Known(r) \cup {p}
         /\ JoinAs(r, c, p).token = [r.token EXCEPT ![p] = issued + 1]
<1> DEFINE s == JoinAs(r, c, p)
<1>0. r.token \in [Player -> Nat] /\ r.detached \in [Player -> 0 .. Grace] /\ r.avatars \subseteq Player
      /\ r.clients \in [Player -> Conn \cup {None}]
  BY DEF InstanceRecord
<1>1. r.token[p] = 0
  BY <1>0 DEF Known, Reclaimable
<1>2. /\ [r.clients EXCEPT ![p] = c] \in [Player -> Conn \cup {None}]
      /\ [r.token EXCEPT ![p] = issued + 1] \in [Player -> Nat]
      /\ r.avatars \cup {p} \in SUBSET Player
  BY <1>0
<1>3. s = [r EXCEPT !.avatars = r.avatars \cup {p}, !.clients = [r.clients EXCEPT ![p] = c],
                    !.token = [r.token EXCEPT ![p] = issued + 1]]
  BY <1>1 DEF JoinAs
<1> HIDE DEF s
<1>4. /\ s \in InstanceRecord /\ s.avatars = r.avatars \cup {p} /\ s.detached = r.detached
      /\ s.clients = [r.clients EXCEPT ![p] = c] /\ s.token = [r.token EXCEPT ![p] = issued + 1]
  BY <1>2, <1>3 DEF InstanceRecord
<1>5. /\ Connected(s) = Connected(r) \cup {p} /\ Detached(s) = Detached(r)
      /\ Reclaimable(s) = Reclaimable(r) \cup {p}
  BY <1>0, <1>4 DEF Connected, Detached, Reclaimable
<1>6. p \notin Detached(r)
  BY DEF Known
<1>7. Sound(s) /\ Known(s) = Known(r) \cup {p}
  BY <1>4, <1>5, <1>6 DEF Sound, Known
<1> QED BY <1>4, <1>7 DEF s

-----------------------------------------------------------------------------
(* The instances together.                                                 *)

LEMMA HandlerStep ==
  ASSUME WorldsTyped, Apart, NEW i \in Inst, NEW s, Keeps(s, inst[i]),
         inst' = [inst EXCEPT ![i] = s], minted' = minted, issued' = issued
  PROVE  /\ Apart' /\ inst' \in [Inst -> InstanceRecord]
         /\ \A j \in Inst : Known(inst'[j]) \subseteq Known(inst[j])
<1>1. inst \in [Inst -> InstanceRecord] /\ s \in InstanceRecord
  BY DEF WorldsTyped, Keeps
<1>2. inst'[i] = s /\ \A j \in Inst : j # i => inst'[j] = inst[j]
  BY <1>1
<1>3. \A j \in Inst : /\ Sound(inst'[j]) /\ Known(inst'[j]) \subseteq Known(inst[j])
                     /\ \A p \in Player : inst'[j].token[p] = 0 \/ inst'[j].token[p] = inst[j].token[p]
  BY <1>2 DEF Apart, Keeps
<1>4. issued \in Nat
  BY DEF WorldsTyped
<1>5. \A j \in Inst, p \in Player : inst'[j].token[p] <= issued
  BY <1>3, <1>4 DEF Apart
<1>6. \A j, k \in Inst, p, q \in Player :
        inst'[j].token[p] # 0 /\ inst'[j].token[p] = inst'[k].token[q] => j = k /\ p = q
  BY <1>3 DEF Apart
<1>7. \A j, k \in Inst : j # k => Known(inst'[j]) \cap Known(inst'[k]) = {}
  BY <1>3 DEF Apart
<1>8. \A j \in Inst : Known(inst'[j]) \subseteq 1 .. minted
  BY <1>3 DEF Apart
<1> QED BY <1>1, <1>3, <1>5, <1>6, <1>7, <1>8 DEF Apart

LEMMA JoinStep ==
  ASSUME WorldsTyped, Apart, NEW i \in Inst, NEW c \in Conn, NEW p \in Player,
         \A j \in Inst : p \notin Known(inst[j]),
         inst' = [inst EXCEPT ![i] = JoinAs(inst[i], c, p)], issued' = issued + 1,
         minted' \in Nat, minted <= minted', p <= minted'
  PROVE  /\ Apart' /\ inst' \in [Inst -> InstanceRecord]
         /\ \A j \in Inst : Known(inst'[j]) \subseteq Known(inst[j]) \cup {p}
<1> DEFINE s == JoinAs(inst[i], c, p)
<1>1. inst \in [Inst -> InstanceRecord] /\ issued \in Nat /\ minted \in Nat
  BY DEF WorldsTyped
<1>2. /\ s \in InstanceRecord /\ Sound(s) /\ Known(s) = Known(inst[i]) \cup {p}
      /\ s.token = [inst[i].token EXCEPT ![p] = issued + 1]
  BY <1>1, JoinAsTyped DEF Apart
<1> HIDE DEF s
<1>3. inst' = [inst EXCEPT ![i] = s] /\ inst'[i] = s /\ \A j \in Inst : j # i => inst'[j] = inst[j]
  BY <1>1 DEF s
<1>4. \A j \in Inst : inst[j].token \in [Player -> Nat]
  BY <1>1 DEF InstanceRecord
<1>5. \A j \in Inst, q \in Player :
        inst'[j].token[q] = IF j = i /\ q = p THEN issued + 1 ELSE inst[j].token[q]
  BY <1>2, <1>3, <1>4
<1>6. \A j \in Inst, q \in Player : inst'[j].token[q] <= issued + 1
  <2>1. \A j \in Inst, q \in Player : inst[j].token[q] <= issued /\ inst[j].token[q] \in Nat
    BY <1>4 DEF Apart
  <2>2. \A n \in Nat : n <= issued => n <= issued + 1
    BY <1>1
  <2>3. issued + 1 <= issued + 1
    BY <1>1
  <2> QED BY <1>5, <2>1, <2>2, <2>3
<1>7. \A j, k \in Inst, q, t \in Player :
        inst'[j].token[q] # 0 /\ inst'[j].token[q] = inst'[k].token[t] => j = k /\ q = t
  <2>1. \A j \in Inst, q \in Player : inst[j].token[q] # issued + 1
    BY <1>1, <1>4 DEF Apart
  <2> QED BY <1>5, <2>1 DEF Apart
<1>8. \A j \in Inst : Sound(inst'[j]) /\ Known(inst'[j]) \subseteq Known(inst[j]) \cup {p}
  BY <1>2, <1>3 DEF Apart
<1>9. \A j, k \in Inst : j # k => Known(inst'[j]) \cap Known(inst'[k]) = {}
  BY <1>2, <1>3 DEF Apart
<1>10. \A j \in Inst : Known(inst'[j]) \subseteq 1 .. minted'
  <2>1. 1 .. minted \subseteq 1 .. minted' /\ p \in 1 .. minted'
    BY <1>1
  <2> QED BY <1>8, <2>1 DEF Apart
<1> QED BY <1>1, <1>2, <1>3, <1>6, <1>7, <1>8, <1>9, <1>10 DEF Apart

LEMMA SameInstances ==
  ASSUME Apart, UNCHANGED <<inst, minted, issued>>
  PROVE  Apart'
BY SMTT(30) DEF Apart

-----------------------------------------------------------------------------
(* The connections, one at a time.                                         *)

Placed(k) ==
  /\ k.pc \in {"arrived", "fresh", "greeting", "leaving"} => k.inst \in Inst
  /\ k.pc # "new" => k.world \in World
  /\ k.pc \in {"greeting", "reading", "closing", "leaving"} => k.player \in Player

LEMMA ConnStep ==
  ASSUME ConnsTyped, NEW c \in Conn, NEW k \in ConnRecord, Placed(k),
         conn' = [conn EXCEPT ![c] = k]
  PROVE  ConnsTyped'
BY DEF ConnsTyped, Placed

LEMMA ArriveKeeps ==
  ASSUME IInv, NEW c \in Conn, NEW w \in World, Arrive(c, w)
  PROVE  IInv'
<1>1. PICK i \in Inst : Obtain(w, i) /\
        conn' = [conn EXCEPT ![c].pc = "arrived", ![c].inst = i, ![c].world = w]
  BY DEF Arrive
<1>2. UNCHANGED <<inst, minted, issued, step, queue, gate, blocking, saved>>
  BY DEF Arrive, tickVars, chatVars
<1>3. hosted' \in [World -> Inst \cup {None}] /\ made' \in Inst
  BY <1>1 DEF Obtain, IInv, TypeOK, WorldsTyped
<1>4. WorldsTyped'
  BY <1>2, <1>3 DEF IInv, TypeOK, WorldsTyped
<1>5. ConnsTyped'
  <2> DEFINE k == [conn[c] EXCEPT !.pc = "arrived", !.inst = i, !.world = w]
  <2>1. conn[c] \in ConnRecord
    BY DEF IInv, TypeOK, ConnsTyped
  <2>2. k \in ConnRecord /\ Placed(k)
    BY <2>1 DEF ConnRecord, PCs, Placed
  <2>3. conn' = [conn EXCEPT ![c] = k]
    BY <1>1 DEF IInv, TypeOK, ConnsTyped
  <2> QED BY <2>2, <2>3, ConnStep DEF IInv, TypeOK
<1>6. TickTyped' /\ ChatTyped'
  BY <1>2 DEF IInv, TypeOK, TickTyped, ChatTyped
<1>7. Apart' /\ InTransit'
  BY <1>2, SameInstances DEF IInv, InTransit
<1> QED BY <1>4, <1>5, <1>6, <1>7 DEF IInv, TypeOK

LEMMA TurnAwayKeeps ==
  ASSUME IInv, NEW c \in Conn, TurnAway(c)
  PROVE  IInv'
<1>1. UNCHANGED <<hosted, inst, made, minted, issued, step, queue, gate, blocking, saved>>
  BY DEF TurnAway, worldVars, tickVars, chatVars
<1>2. WorldsTyped' /\ TickTyped' /\ ChatTyped'
  BY <1>1 DEF IInv, TypeOK, WorldsTyped, TickTyped, ChatTyped
<1>3. ConnsTyped'
  <2> DEFINE k == [conn[c] EXCEPT !.pc = "ended", !.dead = TRUE]
  <2>1. conn[c] \in ConnRecord /\ Placed(conn[c])
    BY DEF IInv, TypeOK, ConnsTyped, Placed
  <2>2. k \in ConnRecord /\ Placed(k)
    BY <2>1 DEF TurnAway, ConnRecord, PCs, Placed, IInv, TypeOK, WorldsTyped
  <2>3. conn' = [conn EXCEPT ![c] = k]
    BY DEF TurnAway, IInv, TypeOK, ConnsTyped
  <2> QED BY <2>2, <2>3, ConnStep DEF IInv, TypeOK
<1>4. Apart' /\ InTransit'
  BY <1>1, SameInstances DEF IInv, InTransit
<1> QED BY <1>2, <1>3, <1>4 DEF IInv, TypeOK

LEMMA FailKeeps ==
  ASSUME IInv, NEW c \in Conn, Fail(c)
  PROVE  IInv'
<1>1. UNCHANGED <<hosted, inst, made, minted, issued, step, queue, gate, blocking, saved>>
  BY DEF Fail, worldVars, tickVars, chatVars
<1>2. WorldsTyped' /\ TickTyped' /\ ChatTyped'
  BY <1>1 DEF IInv, TypeOK, WorldsTyped, TickTyped, ChatTyped
<1>3. ConnsTyped'
  <2> DEFINE k == [conn[c] EXCEPT !.dead = TRUE]
  <2>1. conn[c] \in ConnRecord /\ Placed(conn[c])
    BY DEF IInv, TypeOK, ConnsTyped, Placed
  <2>2. k \in ConnRecord /\ Placed(k)
    BY <2>1 DEF Fail, ConnRecord, PCs, Placed, IInv, TypeOK, WorldsTyped
  <2>3. conn' = [conn EXCEPT ![c] = k]
    BY DEF Fail, IInv, TypeOK, ConnsTyped
  <2> QED BY <2>2, <2>3, ConnStep DEF IInv, TypeOK
<1>4. Apart' /\ InTransit'
  BY <1>1, SameInstances DEF IInv, InTransit
<1> QED BY <1>2, <1>3, <1>4 DEF IInv, TypeOK

LEMMA HearInVainKeeps ==
  ASSUME IInv, NEW c \in Conn, HearInVain(c)
  PROVE  IInv'
<1>1. UNCHANGED <<hosted, inst, made, minted, issued, step, queue, gate, blocking, saved>>
  BY DEF HearInVain, worldVars, tickVars, chatVars
<1>2. WorldsTyped' /\ TickTyped' /\ ChatTyped'
  BY <1>1 DEF IInv, TypeOK, WorldsTyped, TickTyped, ChatTyped
<1>3. ConnsTyped'
  <2> DEFINE k == [conn[c] EXCEPT !.pc = "closing"]
  <2>1. conn[c] \in ConnRecord /\ Placed(conn[c])
    BY DEF IInv, TypeOK, ConnsTyped, Placed
  <2>2. k \in ConnRecord /\ Placed(k)
    BY <2>1 DEF HearInVain, ConnRecord, PCs, Placed, IInv, TypeOK, WorldsTyped
  <2>3. conn' = [conn EXCEPT ![c] = k]
    BY DEF HearInVain, IInv, TypeOK, ConnsTyped
  <2> QED BY <2>2, <2>3, ConnStep DEF IInv, TypeOK
<1>4. Apart' /\ InTransit'
  BY <1>1, SameInstances DEF IInv, InTransit
<1> QED BY <1>2, <1>3, <1>4 DEF IInv, TypeOK

LEMMA StopKeeps ==
  ASSUME IInv, NEW c \in Conn, Stop(c)
  PROVE  IInv'
<1>1. UNCHANGED <<hosted, inst, made, minted, issued, step, queue, gate, blocking, saved>>
  BY DEF Stop, worldVars, tickVars, chatVars
<1>2. WorldsTyped' /\ TickTyped' /\ ChatTyped'
  BY <1>1 DEF IInv, TypeOK, WorldsTyped, TickTyped, ChatTyped
<1>3. ConnsTyped'
  <2> DEFINE k == [conn[c] EXCEPT !.pc = "ended", !.dead = TRUE]
  <2>1. conn[c] \in ConnRecord /\ Placed(conn[c])
    BY DEF IInv, TypeOK, ConnsTyped, Placed
  <2>2. k \in ConnRecord /\ Placed(k)
    BY <2>1 DEF Stop, ConnRecord, PCs, Placed, IInv, TypeOK, WorldsTyped
  <2>3. conn' = [conn EXCEPT ![c] = k]
    BY DEF Stop, IInv, TypeOK, ConnsTyped
  <2> QED BY <2>2, <2>3, ConnStep DEF IInv, TypeOK
<1>4. Apart' /\ InTransit'
  BY <1>1, SameInstances DEF IInv, InTransit
<1> QED BY <1>2, <1>3, <1>4 DEF IInv, TypeOK

LEMMA EndLoopKeeps ==
  ASSUME IInv, NEW c \in Conn, EndLoop(c)
  PROVE  IInv'
<1>1. UNCHANGED <<hosted, inst, made, minted, issued, step, queue, gate, blocking, saved>>
  BY DEF EndLoop, worldVars, tickVars, chatVars
<1>2. WorldsTyped' /\ TickTyped' /\ ChatTyped'
  BY <1>1 DEF IInv, TypeOK, WorldsTyped, TickTyped, ChatTyped
<1>3. ConnsTyped'
  <2> DEFINE k == [conn[c] EXCEPT !.pc = IF hosted[conn[c].world] = None THEN "stopping" ELSE "leaving",
                                       !.inst = hosted[conn[c].world]]
  <2>1. conn[c] \in ConnRecord /\ Placed(conn[c])
    BY DEF IInv, TypeOK, ConnsTyped, Placed
  <2>2. k \in ConnRecord /\ Placed(k)
    BY <2>1 DEF EndLoop, ConnRecord, PCs, Placed, IInv, TypeOK, WorldsTyped
  <2>3. conn' = [conn EXCEPT ![c] = k]
    BY DEF EndLoop, IInv, TypeOK, ConnsTyped
  <2> QED BY <2>2, <2>3, ConnStep DEF IInv, TypeOK
<1>4. Apart' /\ InTransit'
  BY <1>1, SameInstances DEF IInv, InTransit
<1> QED BY <1>2, <1>3, <1>4 DEF IInv, TypeOK

LEMMA SetInputKeeps ==
  ASSUME IInv, NEW c \in Conn, SetInput(c)
  PROVE  IInv'
<1> DEFINE i == hosted[conn[c].world]
           r == inst[i]
           s == [r EXCEPT !.inputs = @ \cup {conn[c].player}]
<1>1. UNCHANGED <<hosted, made, minted, issued, conn, step, queue, gate, blocking, saved>>
  BY DEF SetInput, tickVars, chatVars
<1>2. i \in Inst /\ conn[c].player \in Player
  BY DEF SetInput, Hearing, IInv, TypeOK, WorldsTyped, ConnsTyped
<1>3. r \in InstanceRecord /\ Sound(r)
  BY <1>2 DEF IInv, TypeOK, WorldsTyped, Apart
<1>4. inst' = [inst EXCEPT ![i] = s]
  BY <1>2 DEF SetInput, IInv, TypeOK, WorldsTyped
<1> HIDE DEF r, i
<1>5. s \in InstanceRecord /\ s.avatars = r.avatars /\ s.clients = r.clients
      /\ s.detached = r.detached /\ s.token = r.token
  BY <1>2, <1>3 DEF InstanceRecord
<1>6. Keeps(s, inst[i])
  BY <1>3, <1>5, FewerAvatarsKeep DEF r
<1>7. Apart' /\ inst' \in [Inst -> InstanceRecord] /\ \A j \in Inst : Known(inst'[j]) \subseteq Known(inst[j])
  <2> HIDE DEF s
  <2> QED BY <1>1, <1>2, <1>4, <1>6, HandlerStep DEF IInv, TypeOK
<1>8. TypeOK'
  BY <1>1, <1>7 DEF IInv, TypeOK, WorldsTyped, ConnsTyped, TickTyped, ChatTyped
<1>9. InTransit'
  BY <1>1, <1>7 DEF IInv, InTransit
<1> QED BY <1>7, <1>8, <1>9 DEF IInv

LEMMA SubmitQuitReplyKeeps ==
  ASSUME IInv, NEW c \in Conn, SubmitQuitReply(c)
  PROVE  IInv'
<1> DEFINE i == hosted[conn[c].world]
           r == inst[i]
           s == [r EXCEPT !.quitting = @ \cup {conn[c].player}]
<1>1. UNCHANGED <<hosted, made, minted, issued, conn, step, queue, gate, blocking, saved>>
  BY DEF SubmitQuitReply, tickVars, chatVars
<1>2. i \in Inst /\ conn[c].player \in Player
  BY DEF SubmitQuitReply, Hearing, IInv, TypeOK, WorldsTyped, ConnsTyped
<1>3. r \in InstanceRecord /\ Sound(r)
  BY <1>2 DEF IInv, TypeOK, WorldsTyped, Apart
<1>4. inst' = [inst EXCEPT ![i] = s]
  BY <1>2 DEF SubmitQuitReply, IInv, TypeOK, WorldsTyped
<1> HIDE DEF r, i
<1>5. s \in InstanceRecord /\ s.avatars = r.avatars /\ s.clients = r.clients
      /\ s.detached = r.detached /\ s.token = r.token
  BY <1>2, <1>3 DEF InstanceRecord
<1>6. Keeps(s, inst[i])
  BY <1>3, <1>5, FewerAvatarsKeep DEF r
<1>7. Apart' /\ inst' \in [Inst -> InstanceRecord] /\ \A j \in Inst : Known(inst'[j]) \subseteq Known(inst[j])
  <2> HIDE DEF s
  <2> QED BY <1>1, <1>2, <1>4, <1>6, HandlerStep DEF IInv, TypeOK
<1>8. TypeOK'
  BY <1>1, <1>7 DEF IInv, TypeOK, WorldsTyped, ConnsTyped, TickTyped, ChatTyped
<1>9. InTransit'
  BY <1>1, <1>7 DEF IInv, InTransit
<1> QED BY <1>7, <1>8, <1>9 DEF IInv

LEMMA RecordHighScoreKeeps ==
  ASSUME IInv, NEW c \in Conn, RecordHighScore(c)
  PROVE  IInv'
<1> DEFINE i == hosted[conn[c].world]
           r == inst[i]
           s == [r EXCEPT !.pending = @ \ {conn[c].player}]
<1>1. UNCHANGED <<hosted, made, minted, issued, conn, step, queue, gate, blocking, saved>>
  BY DEF RecordHighScore, tickVars, chatVars
<1>2. i \in Inst /\ conn[c].player \in Player
  BY DEF RecordHighScore, Hearing, IInv, TypeOK, WorldsTyped, ConnsTyped
<1>3. r \in InstanceRecord /\ Sound(r)
  BY <1>2 DEF IInv, TypeOK, WorldsTyped, Apart
<1>4. inst' = [inst EXCEPT ![i] = s]
  BY <1>2 DEF RecordHighScore, IInv, TypeOK, WorldsTyped
<1> HIDE DEF r, i
<1>5. s \in InstanceRecord /\ s.avatars = r.avatars /\ s.clients = r.clients
      /\ s.detached = r.detached /\ s.token = r.token
  BY <1>2, <1>3 DEF InstanceRecord
<1>6. Keeps(s, inst[i])
  BY <1>3, <1>5, FewerAvatarsKeep DEF r
<1>7. Apart' /\ inst' \in [Inst -> InstanceRecord] /\ \A j \in Inst : Known(inst'[j]) \subseteq Known(inst[j])
  <2> HIDE DEF s
  <2> QED BY <1>1, <1>2, <1>4, <1>6, HandlerStep DEF IInv, TypeOK
<1>8. TypeOK'
  BY <1>1, <1>7 DEF IInv, TypeOK, WorldsTyped, ConnsTyped, TickTyped, ChatTyped
<1>9. InTransit'
  BY <1>1, <1>7 DEF IInv, InTransit
<1> QED BY <1>7, <1>8, <1>9 DEF IInv

LEMMA SubmitChatBlockKeeps ==
  ASSUME IInv, NEW c \in Conn, SubmitChatBlock(c)
  PROVE  IInv'
<1>1. UNCHANGED <<hosted, inst, made, minted, issued, conn, step, queue, gate>>
  BY DEF SubmitChatBlock, worldVars, tickVars
<1>2. conn[c].player \in Player
  BY DEF SubmitChatBlock, Hearing, IInv, TypeOK, ConnsTyped
<1>3. ChatTyped'
  BY <1>2 DEF SubmitChatBlock, IInv, TypeOK, ChatTyped
<1>4. TypeOK'
  BY <1>1, <1>3 DEF IInv, TypeOK, WorldsTyped, ConnsTyped, TickTyped
<1> QED BY <1>1, <1>4, SameInstances DEF IInv, InTransit

LEMMA TryResumeKeeps ==
  ASSUME IInv, NEW c \in Conn, TryResume(c)
  PROVE  IInv'
<1> DEFINE i == conn[c].inst
<1>1. UNCHANGED <<hosted, made, minted, issued, step, queue, gate, blocking, saved>>
  BY DEF TryResume, tickVars, chatVars
<1>2. /\ i \in Inst /\ conn[c] \in ConnRecord /\ Placed(conn[c]) /\ conn[c].pc = "arrived"
      /\ inst[i] \in InstanceRecord /\ Sound(inst[i])
  BY DEF TryResume, IInv, TypeOK, ConnsTyped, WorldsTyped, Placed, Apart
<1>3. PICK t \in {conn[d].token : d \in Conn} \ {0} :
        LET named == {p \in Player : inst[i].token[p] = t} IN
        \/ /\ named = {}
           /\ conn' = [conn EXCEPT ![c].pc = "fresh"]
           /\ UNCHANGED inst
        \/ \E p \in named \ inst[i].avatars :
             /\ conn' = [conn EXCEPT ![c].pc = "fresh"]
             /\ inst' = [inst EXCEPT ![i] = Forget(@, p)]
        \/ \E p \in named \cap inst[i].avatars :
             /\ conn' = [conn EXCEPT ![c].pc = "greeting", ![c].player = p, ![c].offer = t]
             /\ inst' = [inst EXCEPT ![i] = Attach(@, c, p)]
  BY DEF TryResume
<1>4. t \in Nat
  BY DEF IInv, TypeOK, ConnsTyped, ConnRecord
<1> DEFINE fresh == [conn[c] EXCEPT !.pc = "fresh"]
<1>5. fresh \in ConnRecord /\ Placed(fresh)
  BY <1>2 DEF ConnRecord, PCs, Placed
<1>6. CASE UNCHANGED inst /\ conn' = [conn EXCEPT ![c].pc = "fresh"]
  <2>1. ConnsTyped'
    <3>1. conn' = [conn EXCEPT ![c] = fresh]
      BY <1>6 DEF IInv, TypeOK, ConnsTyped
    <3> QED BY <1>5, <3>1, ConnStep DEF IInv, TypeOK
  <2>2. TypeOK'
    BY <1>1, <1>6, <2>1 DEF IInv, TypeOK, WorldsTyped, TickTyped, ChatTyped
  <2> QED BY <1>1, <1>6, <2>2, SameInstances DEF IInv, InTransit
<1>7. ASSUME NEW p \in Player, p \notin inst[i].avatars,
             conn' = [conn EXCEPT ![c].pc = "fresh"], inst' = [inst EXCEPT ![i] = Forget(inst[i], p)]
      PROVE  IInv'
  <2>1. ConnsTyped'
    <3>1. conn' = [conn EXCEPT ![c] = fresh]
      BY <1>7 DEF IInv, TypeOK, ConnsTyped
    <3> QED BY <1>5, <3>1, ConnStep DEF IInv, TypeOK
  <2>2. Keeps(Forget(inst[i], p), inst[i])
    BY <1>2, <1>7, ForgetKeeps
  <2>3. Apart' /\ inst' \in [Inst -> InstanceRecord] /\ \A j \in Inst : Known(inst'[j]) \subseteq Known(inst[j])
    BY <1>1, <1>2, <1>7, <2>2, HandlerStep DEF IInv, TypeOK
  <2>4. TypeOK'
    BY <1>1, <2>1, <2>3 DEF IInv, TypeOK, WorldsTyped, TickTyped, ChatTyped
  <2> QED BY <1>1, <2>3, <2>4 DEF IInv, InTransit
<1>8. ASSUME NEW p \in inst[i].avatars, inst' = [inst EXCEPT ![i] = Attach(inst[i], c, p)],
             conn' = [conn EXCEPT ![c].pc = "greeting", ![c].player = p, ![c].offer = t]
      PROVE  IInv'
  <2>0. p \in Player
    BY <1>2 DEF InstanceRecord
  <2>1. ConnsTyped'
    <3> DEFINE k == [conn[c] EXCEPT !.pc = "greeting", !.player = p, !.offer = t]
    <3>1. k \in ConnRecord /\ Placed(k)
      BY <1>2, <1>4, <2>0 DEF ConnRecord, PCs, Placed
    <3>2. conn' = [conn EXCEPT ![c] = k]
      BY <1>8 DEF IInv, TypeOK, ConnsTyped
    <3> QED BY <3>1, <3>2, ConnStep DEF IInv, TypeOK
  <2>2. Keeps(Attach(inst[i], c, p), inst[i])
    BY <1>2, AttachKeeps
  <2>3. Apart' /\ inst' \in [Inst -> InstanceRecord] /\ \A j \in Inst : Known(inst'[j]) \subseteq Known(inst[j])
    BY <1>1, <1>2, <1>8, <2>2, HandlerStep DEF IInv, TypeOK
  <2>4. TypeOK'
    BY <1>1, <2>1, <2>3 DEF IInv, TypeOK, WorldsTyped, TickTyped, ChatTyped
  <2> QED BY <1>1, <2>3, <2>4 DEF IInv, InTransit
<1> QED BY <1>3, <1>6, <1>7, <1>8

LEMMA FreshJoinKeeps ==
  ASSUME IInv, NEW c \in Conn, FreshJoin(c)
  PROVE  IInv'
<1> DEFINE i == conn[c].inst
           p == minted + 1
<1>1. UNCHANGED <<hosted, made, step, queue, gate, blocking, saved>> /\ minted' = p /\ issued' = issued + 1
  BY DEF FreshJoin, tickVars, chatVars
<1>2. /\ i \in Inst /\ conn[c] \in ConnRecord /\ Placed(conn[c]) /\ conn[c].pc # "new"
      /\ p \in Player /\ minted \in Nat /\ issued + 1 \in Nat
  BY DEF FreshJoin, IInv, TypeOK, ConnsTyped, WorldsTyped, Placed
<1>3. \A j \in Inst : p \notin Known(inst[j])
  BY <1>2 DEF IInv, Apart
<1>4. inst' = [inst EXCEPT ![i] = JoinAs(inst[i], c, p)]
  BY DEF FreshJoin
<1>5. minted' \in Nat /\ minted <= minted' /\ p <= minted'
  BY <1>1, <1>2
<1>6. /\ Apart' /\ inst' \in [Inst -> InstanceRecord]
      /\ \A j \in Inst : Known(inst'[j]) \subseteq Known(inst[j]) \cup {p}
  <2> HIDE DEF p, i
  <2> QED BY <1>1, <1>2, <1>3, <1>4, <1>5, JoinStep DEF IInv, TypeOK
<1>7. ConnsTyped'
  <2> DEFINE k == [conn[c] EXCEPT !.pc = "greeting", !.player = p, !.offer = issued + 1]
  <2>1. k \in ConnRecord /\ Placed(k)
    BY <1>2 DEF ConnRecord, PCs, Placed
  <2>2. conn' = [conn EXCEPT ![c] = k]
    BY DEF FreshJoin, IInv, TypeOK, ConnsTyped
  <2> QED BY <2>1, <2>2, ConnStep DEF IInv, TypeOK
<1>8. WorldsTyped'
  BY <1>1, <1>2, <1>6 DEF IInv, TypeOK, WorldsTyped
<1>9. TickTyped' /\ ChatTyped'
  BY <1>1 DEF IInv, TypeOK, TickTyped, ChatTyped
<1>10. InTransit'
  <2>1. step = "arriving" => gate.player \in 1 .. minted /\ gate.player # p /\ gate.player \in 1 .. p
    BY <1>2 DEF IInv, InTransit
  <2> QED BY <1>1, <1>6, <2>1 DEF IInv, InTransit
<1> QED BY <1>6, <1>7, <1>8, <1>9, <1>10 DEF IInv, TypeOK

LEMMA GreetKeeps ==
  ASSUME IInv, NEW c \in Conn, Greet(c)
  PROVE  IInv'
<1> DEFINE i == conn[c].inst
           p == conn[c].player
<1>1. UNCHANGED <<hosted, made, minted, issued, saved, step, queue, gate>>
  BY DEF Greet, tickVars
<1>2. /\ i \in Inst /\ p \in Player /\ conn[c] \in ConnRecord /\ Placed(conn[c]) /\ conn[c].pc = "greeting"
      /\ inst[i] \in InstanceRecord /\ Sound(inst[i])
  BY DEF Greet, IInv, TypeOK, ConnsTyped, WorldsTyped, Placed, Apart
<1>3. TickTyped'
  BY <1>1 DEF IInv, TypeOK, TickTyped
<1>4. ChatTyped'
  BY <1>1, <1>2 DEF Greet, IInv, TypeOK, ChatTyped
<1>5. ConnsTyped'
  <2>1. CASE conn' = [conn EXCEPT ![c].pc = "reading", ![c].token = conn[c].offer]
    <3> DEFINE k == [conn[c] EXCEPT !.pc = "reading", !.token = conn[c].offer]
    <3>1. k \in ConnRecord /\ Placed(k)
      BY <1>2 DEF ConnRecord, PCs, Placed
    <3>2. conn' = [conn EXCEPT ![c] = k]
      BY <2>1 DEF IInv, TypeOK, ConnsTyped
    <3> QED BY <3>1, <3>2, ConnStep DEF IInv, TypeOK
  <2>2. CASE conn' = [conn EXCEPT ![c].pc = "stopping"]
    <3> DEFINE k == [conn[c] EXCEPT !.pc = "stopping"]
    <3>1. k \in ConnRecord /\ Placed(k)
      BY <1>2 DEF ConnRecord, PCs, Placed
    <3>2. conn' = [conn EXCEPT ![c] = k]
      BY <2>2 DEF IInv, TypeOK, ConnsTyped
    <3> QED BY <3>1, <3>2, ConnStep DEF IInv, TypeOK
  <2> QED BY <2>1, <2>2 DEF Greet
<1>6. /\ Apart' /\ inst' \in [Inst -> InstanceRecord]
      /\ \A j \in Inst : Known(inst'[j]) \subseteq Known(inst[j])
  <2>1. CASE UNCHANGED inst
    BY <1>1, <2>1, SameInstances DEF IInv, TypeOK, WorldsTyped
  <2>2. CASE inst' = [inst EXCEPT ![i] = ReadLoopExit(inst[i], c, p)]
    <3>1. Keeps(ReadLoopExit(inst[i], c, p), inst[i])
      BY <1>2, ReadLoopExitKeeps
    <3> QED BY <1>1, <1>2, <2>2, <3>1, HandlerStep DEF IInv, TypeOK
  <2> QED BY <2>1, <2>2 DEF Greet
<1>7. WorldsTyped' /\ InTransit'
  BY <1>1, <1>6 DEF IInv, TypeOK, WorldsTyped, InTransit
<1> QED BY <1>3, <1>4, <1>5, <1>6, <1>7 DEF IInv, TypeOK

LEMMA HandleReadLoopExitKeeps ==
  ASSUME IInv, NEW c \in Conn, HandleReadLoopExit(c)
  PROVE  IInv'
<1> DEFINE i == conn[c].inst
           p == conn[c].player
<1>1. UNCHANGED <<hosted, made, minted, issued, saved, step, queue, gate>>
  BY DEF HandleReadLoopExit, tickVars
<1>2. /\ i \in Inst /\ p \in Player /\ conn[c] \in ConnRecord /\ Placed(conn[c]) /\ conn[c].pc = "leaving"
      /\ inst[i] \in InstanceRecord /\ Sound(inst[i])
  BY DEF HandleReadLoopExit, IInv, TypeOK, ConnsTyped, WorldsTyped, Placed, Apart
<1>3. TickTyped' /\ ChatTyped'
  BY <1>1 DEF HandleReadLoopExit, IInv, TypeOK, TickTyped, ChatTyped
<1>4. ConnsTyped'
  <2> DEFINE k == [conn[c] EXCEPT !.pc = "stopping"]
  <2>1. k \in ConnRecord /\ Placed(k)
    BY <1>2 DEF ConnRecord, PCs, Placed
  <2>2. conn' = [conn EXCEPT ![c] = k]
    BY DEF HandleReadLoopExit, IInv, TypeOK, ConnsTyped
  <2> QED BY <2>1, <2>2, ConnStep DEF IInv, TypeOK
<1>5. /\ Apart' /\ inst' \in [Inst -> InstanceRecord]
      /\ \A j \in Inst : Known(inst'[j]) \subseteq Known(inst[j])
  <2>1. Keeps(ReadLoopExit(inst[i], c, p), inst[i])
    BY <1>2, ReadLoopExitKeeps
  <2>2. inst' = [inst EXCEPT ![i] = ReadLoopExit(inst[i], c, p)]
    BY DEF HandleReadLoopExit
  <2> QED BY <1>1, <1>2, <2>1, <2>2, HandlerStep DEF IInv, TypeOK
<1>6. WorldsTyped' /\ InTransit'
  BY <1>1, <1>5 DEF IInv, TypeOK, WorldsTyped, InTransit
<1> QED BY <1>3, <1>4, <1>5, <1>6 DEF IInv, TypeOK

-----------------------------------------------------------------------------
(* The ticker.                                                             *)

LEMMA HostedTyped == TypeOK => Hosted \subseteq Inst
BY DEF TypeOK, WorldsTyped, Hosted

LEMMA BeginTickKeeps == IInv /\ BeginTick => IInv'
<1> SUFFICES ASSUME IInv, BeginTick PROVE IInv'
  OBVIOUS
<1>1. UNCHANGED <<hosted, inst, made, minted, issued, conn, gate, blocking, saved>>
      /\ step' = "expire" /\ queue' = Hosted
  BY DEF BeginTick, worldVars, chatVars
<1>2. TypeOK'
  BY <1>1, HostedTyped DEF IInv, TypeOK, WorldsTyped, ConnsTyped, TickTyped, ChatTyped
<1> QED BY <1>1, <1>2, SameInstances DEF IInv, InTransit

LEMMA BeginStepsKeeps == IInv /\ BeginSteps => IInv'
<1> SUFFICES ASSUME IInv, BeginSteps PROVE IInv'
  OBVIOUS
<1>1. UNCHANGED <<hosted, inst, made, minted, issued, conn, gate, blocking, saved>>
      /\ step' = "step" /\ queue' = Hosted
  BY DEF BeginSteps, worldVars, chatVars
<1>2. TypeOK'
  BY <1>1, HostedTyped DEF IInv, TypeOK, WorldsTyped, ConnsTyped, TickTyped, ChatTyped
<1> QED BY <1>1, <1>2, SameInstances DEF IInv, InTransit

LEMMA ExpireDetachedKeeps == IInv /\ ExpireDetached => IInv'
<1> SUFFICES ASSUME IInv, ExpireDetached PROVE IInv'
  OBVIOUS
<1>1. PICK i \in queue : inst' = [inst EXCEPT ![i] = Expire(inst[i])] /\ queue' = queue \ {i}
  BY DEF ExpireDetached
<1>2. UNCHANGED <<hosted, made, minted, issued, conn, step, gate, blocking, saved>>
  BY DEF ExpireDetached, chatVars
<1>3. i \in Inst /\ inst[i] \in InstanceRecord /\ Sound(inst[i])
  BY DEF IInv, TypeOK, TickTyped, WorldsTyped, Apart
<1>4. Keeps(Expire(inst[i]), inst[i])
  BY <1>3, ExpireKeeps
<1>5. Apart' /\ inst' \in [Inst -> InstanceRecord] /\ \A j \in Inst : Known(inst'[j]) \subseteq Known(inst[j])
  BY <1>1, <1>2, <1>3, <1>4, HandlerStep DEF IInv, TypeOK
<1>6. TypeOK'
  BY <1>1, <1>2, <1>5 DEF IInv, TypeOK, WorldsTyped, ConnsTyped, TickTyped, ChatTyped
<1> QED BY <1>2, <1>5, <1>6 DEF IInv, InTransit

LEMMA TickInstanceKeeps == IInv /\ TickInstance => IInv'
<1> SUFFICES ASSUME IInv, TickInstance PROVE IInv'
  OBVIOUS
<1>1. PICK i \in queue :
        /\ \E lost \in SUBSET inst[i].avatars, ranked \in SUBSET Quitters(inst[i]) :
             inst' = [inst EXCEPT ![i] = Stepped(inst[i], lost, ranked)]
        /\ queue' = queue \ {i}
        /\ \/ UNCHANGED <<step, gate>>
           \/ /\ step' = "opening"
              /\ \E p \in inst[i].inputs \cap inst[i].avatars, w \in World \cup {Unhosted} :
                   gate' = [NoGate EXCEPT !.player = p, !.world = w, !.from = i]
  BY DEF TickInstance
<1>2. UNCHANGED <<hosted, made, minted, issued, conn, blocking, saved>>
  BY DEF TickInstance, chatVars
<1>3. step = "step"
  BY DEF TickInstance
<1>4. i \in Inst /\ inst[i] \in InstanceRecord /\ Sound(inst[i])
  BY DEF IInv, TypeOK, TickTyped, WorldsTyped, Apart
<1>5. PICK lost \in SUBSET inst[i].avatars, ranked \in SUBSET Quitters(inst[i]) :
        inst' = [inst EXCEPT ![i] = Stepped(inst[i], lost, ranked)]
  BY <1>1
<1> DEFINE s == Stepped(inst[i], lost, ranked)
<1>6. s \in InstanceRecord /\ s.avatars \subseteq inst[i].avatars /\ s.clients = inst[i].clients
      /\ s.detached = inst[i].detached /\ s.token = inst[i].token
  BY <1>4 DEF InstanceRecord, Stepped, Quitters
<1>7. inst' = [inst EXCEPT ![i] = s]
  BY <1>5
<1> HIDE DEF s
<1>8. Keeps(s, inst[i])
  BY <1>4, <1>6, FewerAvatarsKeep
<1>9. Apart' /\ inst' \in [Inst -> InstanceRecord] /\ \A j \in Inst : Known(inst'[j]) \subseteq Known(inst[j])
  BY <1>2, <1>4, <1>7, <1>8, HandlerStep DEF IInv, TypeOK
<1>10. TickTyped' /\ step' # "arriving"
  <2>1. CASE UNCHANGED <<step, gate>>
    BY <1>1, <1>3, <2>1 DEF IInv, TypeOK, TickTyped
  <2>2. CASE step' = "opening" /\ \E p \in inst[i].inputs \cap inst[i].avatars, w \in World \cup {Unhosted} :
                   gate' = [NoGate EXCEPT !.player = p, !.world = w, !.from = i]
    <3>1. PICK p \in Player, w \in World \cup {Unhosted} :
            gate' = [NoGate EXCEPT !.player = p, !.world = w, !.from = i]
      BY <1>4, <2>2 DEF InstanceRecord
    <3>2. gate' \in GateRecord /\ gate'.player = p /\ gate'.from = i /\ gate'.world = w
      BY <1>4, <3>1 DEF NoGate, GateRecord
    <3> QED BY <1>1, <1>4, <2>2, <3>2 DEF IInv, TypeOK, TickTyped
  <2> QED BY <1>1, <2>1, <2>2
<1>11. WorldsTyped' /\ ConnsTyped' /\ ChatTyped'
  BY <1>2, <1>9 DEF IInv, TypeOK, WorldsTyped, ConnsTyped, ChatTyped
<1> QED BY <1>9, <1>10, <1>11 DEF IInv, TypeOK, InTransit

LEMMA NoGateTyped == NoGate \in GateRecord
BY DEF NoGate, GateRecord

LEMMA OpenGateKeeps == IInv /\ OpenGate => IInv'
<1> SUFFICES ASSUME IInv, OpenGate PROVE IInv'
  OBVIOUS
<1>1. UNCHANGED <<inst, minted, issued, conn, queue, blocking, saved>> /\ step = "opening"
  BY DEF OpenGate, chatVars
<1>2. gate \in GateRecord /\ gate.player \in Player /\ gate.from \in Inst
  BY <1>1 DEF IInv, TypeOK, TickTyped
<1>3. CASE UNCHANGED <<hosted, made>> /\ TransitDone
  <2>1. TickTyped' /\ step' # "arriving"
    BY <1>1, <1>3, NoGateTyped DEF IInv, TypeOK, TickTyped, TransitDone
  <2> QED BY <1>1, <1>3, <2>1, SameInstances
          DEF IInv, TypeOK, WorldsTyped, ConnsTyped, ChatTyped, InTransit
<1>4. ASSUME NEW i \in Inst, gate.world # Unhosted, step' = "departing",
             Obtain(gate.world, i), gate' = [gate EXCEPT !.to = i]
      PROVE  IInv'
  <2>1. gate.world \in World \/ gate.world = None
    BY <1>2, <1>4 DEF GateRecord
  <2>2. hosted' \in [World -> Inst \cup {None}] /\ made' \in Inst
    BY <1>4 DEF Obtain, IInv, TypeOK, WorldsTyped
  <2>3. gate' \in GateRecord /\ gate'.to = i /\ gate'.player = gate.player /\ gate'.from = gate.from
        /\ gate'.world = gate.world
    BY <1>2, <1>4 DEF GateRecord
  <2>4. gate.world \in World
    BY <1>1, <1>4 DEF IInv, TypeOK, TickTyped
  <2>5. TickTyped'
    BY <1>1, <1>2, <1>4, <2>3, <2>4 DEF IInv, TypeOK, TickTyped
  <2> QED BY <1>1, <1>4, <2>2, <2>5, SameInstances
          DEF IInv, TypeOK, WorldsTyped, ConnsTyped, ChatTyped, InTransit
<1> QED BY <1>3, <1>4 DEF OpenGate

LEMMA LeaveSourceKeeps == IInv /\ LeaveSource => IInv'
<1> SUFFICES ASSUME IInv, LeaveSource PROVE IInv'
  OBVIOUS
<1> DEFINE p == gate.player
           i == gate.from
<1>1. UNCHANGED <<hosted, made, minted, issued, conn, queue, blocking, saved>> /\ step = "departing"
  BY DEF LeaveSource, chatVars
<1>2. /\ i \in Inst /\ p \in Player /\ gate \in GateRecord /\ gate.to \in Inst /\ gate.world \in World
      /\ inst[i] \in InstanceRecord /\ Sound(inst[i])
  BY <1>1 DEF IInv, TypeOK, TickTyped, WorldsTyped, Apart
<1>3. CASE UNCHANGED inst /\ TransitDone
  <2>1. TickTyped' /\ step' # "arriving"
    BY <1>1, <1>3, NoGateTyped DEF IInv, TypeOK, TickTyped, TransitDone
  <2> QED BY <1>1, <1>3, <2>1, SameInstances
          DEF IInv, TypeOK, WorldsTyped, ConnsTyped, ChatTyped, InTransit
<1>4. CASE /\ p \in Connected(inst[i]) \cap inst[i].avatars
           /\ inst' = [inst EXCEPT ![i] = Remove(Unplug(inst[i], p), p)]
           /\ gate' = [gate EXCEPT !.client = inst[i].clients[p]]
           /\ step' = "arriving"
  <2> DEFINE s == Remove(Unplug(inst[i], p), p)
  <2>1. Keeps(s, inst[i]) /\ p \notin Known(s)
    BY <1>2, RemoveKeeps
  <2>2. inst' = [inst EXCEPT ![i] = s]
    BY <1>4
  <2> HIDE DEF s
  <2>3. Apart' /\ inst' \in [Inst -> InstanceRecord] /\ \A j \in Inst : Known(inst'[j]) \subseteq Known(inst[j])
    BY <1>1, <1>2, <2>1, <2>2, HandlerStep DEF IInv, TypeOK
  <2>4. inst[i].clients[p] \in Conn
    BY <1>2, <1>4 DEF Connected, InstanceRecord
  <2>5. /\ gate' \in GateRecord /\ gate'.client \in Conn /\ gate'.player = p /\ gate'.from = i
        /\ gate'.to = gate.to /\ gate'.world = gate.world
    BY <1>2, <1>4, <2>4 DEF GateRecord
  <2>6. TickTyped'
    BY <1>1, <1>2, <1>4, <2>5 DEF IInv, TypeOK, TickTyped
  <2>7. p \in Known(inst[i])
    BY <1>4 DEF Known
  <2>8. \A j \in Inst : p \notin Known(inst'[j])
    <3>1. inst'[i] = s
      BY <1>2, <2>2 DEF IInv, TypeOK, WorldsTyped
    <3>2. \A j \in Inst : j # i => p \notin Known(inst[j])
      BY <1>2, <2>7 DEF IInv, Apart
    <3> QED BY <2>1, <2>3, <3>1, <3>2
  <2>9. p \in 1 .. minted
    BY <1>2, <2>7 DEF IInv, Apart
  <2>10. InTransit'
    BY <1>1, <2>5, <2>8, <2>9 DEF InTransit
  <2>11. WorldsTyped' /\ ConnsTyped' /\ ChatTyped'
    BY <1>1, <2>3 DEF IInv, TypeOK, WorldsTyped, ConnsTyped, ChatTyped
  <2> QED BY <2>3, <2>6, <2>10, <2>11 DEF IInv, TypeOK
<1> QED BY <1>3, <1>4 DEF LeaveSource

LEMMA JoinDestinationKeeps == IInv /\ JoinDestination => IInv'
<1> SUFFICES ASSUME IInv, JoinDestination PROVE IInv'
  OBVIOUS
<1> DEFINE p == gate.player
           i == gate.to
           c == gate.client
<1>1. UNCHANGED <<hosted, made, minted, queue, gate, blocking, saved>> /\ step = "arriving"
      /\ step' = "welcoming" /\ conn' = [conn EXCEPT ![c].world = gate.world]
  BY DEF JoinDestination, chatVars
<1>2. /\ i \in Inst /\ p \in Player /\ c \in Conn /\ gate.world \in World
      /\ conn[c] \in ConnRecord /\ Placed(conn[c]) /\ minted \in Nat /\ issued \in Nat
  BY <1>1 DEF IInv, TypeOK, TickTyped, WorldsTyped, ConnsTyped, Placed
<1>3. p \in 1 .. minted /\ \A j \in Inst : p \notin Known(inst[j])
  BY <1>1 DEF IInv, InTransit
<1>4. inst[i].token[p] = 0
  BY <1>2, <1>3 DEF Known, Reclaimable
<1>5. issued' = issued + 1 /\ inst' = [inst EXCEPT ![i] = JoinAs(inst[i], c, p)]
  BY <1>4 DEF JoinDestination
<1>6. minted' \in Nat /\ minted <= minted' /\ p <= minted'
  BY <1>1, <1>2, <1>3
<1>7. Apart' /\ inst' \in [Inst -> InstanceRecord]
  <2> HIDE DEF p, i, c
  <2> QED BY <1>2, <1>3, <1>5, <1>6, JoinStep DEF IInv, TypeOK
<1>8. ConnsTyped'
  <2> DEFINE k == [conn[c] EXCEPT !.world = gate.world]
  <2>1. k \in ConnRecord /\ Placed(k)
    BY <1>2 DEF ConnRecord, PCs, Placed
  <2>2. conn' = [conn EXCEPT ![c] = k]
    BY <1>1, <1>2 DEF IInv, TypeOK, ConnsTyped
  <2> QED BY <1>2, <2>1, <2>2, ConnStep DEF IInv, TypeOK
<1>9. TickTyped' /\ ChatTyped'
  BY <1>1, <1>2 DEF IInv, TypeOK, TickTyped, ChatTyped
<1>10. WorldsTyped' /\ InTransit'
  BY <1>1, <1>2, <1>5, <1>7 DEF IInv, TypeOK, WorldsTyped, InTransit
<1> QED BY <1>7, <1>8, <1>9, <1>10 DEF IInv, TypeOK

LEMMA WelcomeKeeps == IInv /\ Welcome => IInv'
<1> SUFFICES ASSUME IInv, Welcome PROVE IInv'
  OBVIOUS
<1> DEFINE p == gate.player
           i == gate.to
           c == gate.client
<1>1. UNCHANGED <<hosted, made, minted, issued, queue, saved>> /\ step = "welcoming" /\ TransitDone
  BY DEF Welcome
<1>2. /\ i \in Inst /\ p \in Player /\ c \in Conn /\ inst[i] \in InstanceRecord /\ Sound(inst[i])
      /\ conn[c] \in ConnRecord /\ Placed(conn[c])
  BY <1>1 DEF IInv, TypeOK, TickTyped, WorldsTyped, ConnsTyped, Placed, Apart
<1>3. TickTyped' /\ step' # "arriving"
  BY <1>1, NoGateTyped DEF IInv, TypeOK, TickTyped, TransitDone
<1>4. ChatTyped'
  BY <1>1 DEF Welcome, IInv, TypeOK, ChatTyped
<1>5. ConnsTyped'
  <2>1. CASE UNCHANGED conn
    BY <2>1 DEF IInv, TypeOK, ConnsTyped
  <2>2. CASE conn' = [conn EXCEPT ![c].token = inst[i].token[p]]
    <3> DEFINE k == [conn[c] EXCEPT !.token = inst[i].token[p]]
    <3>1. inst[i].token[p] \in Nat
      BY <1>2 DEF InstanceRecord
    <3>2. k \in ConnRecord /\ Placed(k)
      BY <1>2, <3>1 DEF ConnRecord, Placed
    <3>3. conn' = [conn EXCEPT ![c] = k]
      BY <1>2, <2>2 DEF IInv, TypeOK, ConnsTyped
    <3> QED BY <1>2, <3>2, <3>3, ConnStep DEF IInv, TypeOK
  <2> QED BY <2>1, <2>2 DEF Welcome
<1>6. Apart' /\ inst' \in [Inst -> InstanceRecord]
  <2>1. CASE UNCHANGED inst
    BY <1>1, <2>1, SameInstances DEF IInv, TypeOK, WorldsTyped
  <2>2. CASE inst' = [inst EXCEPT ![i] = ReadLoopExit(inst[i], c, p)]
    <3>1. Keeps(ReadLoopExit(inst[i], c, p), inst[i])
      BY <1>2, ReadLoopExitKeeps
    <3> QED BY <1>1, <1>2, <2>2, <3>1, HandlerStep DEF IInv, TypeOK
  <2> QED BY <2>1, <2>2 DEF Welcome
<1>7. WorldsTyped' /\ InTransit'
  BY <1>1, <1>3, <1>6 DEF IInv, TypeOK, WorldsTyped, InTransit
<1> QED BY <1>3, <1>4, <1>5, <1>6, <1>7 DEF IInv, TypeOK

LEMMA EvictIdleKeeps == IInv /\ EvictIdle => IInv'
<1> SUFFICES ASSUME IInv, EvictIdle PROVE IInv'
  OBVIOUS
<1>1. UNCHANGED <<made, minted, issued, conn, queue, gate, blocking, saved>> /\ step' = "rest"
  BY DEF EvictIdle, chatVars
<1>2. \A i \in Inst : inst[i] \in InstanceRecord /\ Sound(inst[i])
  BY DEF IInv, TypeOK, WorldsTyped, Apart
<1>3. PICK idle \in [Inst -> Nat] :
        inst' = [i \in Inst |-> [inst[i] EXCEPT !.idle = idle[i]]]
  <2> DEFINE was(i) == IF Evictable(inst[i]) THEN inst[i].idle + 1 ELSE 0
             swept == Hosted \ {hosted[Default]}
             now == [i \in Inst |-> IF i \in swept THEN was(i) ELSE inst[i].idle]
  <2>1. \A i \in Inst : inst[i].idle \in Nat
    BY <1>2 DEF InstanceRecord
  <2>2. now \in [Inst -> Nat]
    BY <2>1
  <2>3. inst' = [i \in Inst |-> IF i \in swept THEN [inst[i] EXCEPT !.idle = was(i)] ELSE inst[i]]
    BY DEF EvictIdle
  <2> HIDE DEF was, swept
  <2>4. \A i \in Inst : i \notin swept => inst[i] = [inst[i] EXCEPT !.idle = now[i]]
    BY <1>2 DEF InstanceRecord
  <2>5. inst' = [i \in Inst |-> [inst[i] EXCEPT !.idle = now[i]]]
    BY <2>3, <2>4
  <2> HIDE DEF now
  <2> QED BY <2>2, <2>5
<1>4. \A i \in Inst : /\ inst'[i] \in InstanceRecord
                     /\ inst'[i].avatars = inst[i].avatars /\ inst'[i].clients = inst[i].clients
                     /\ inst'[i].detached = inst[i].detached /\ inst'[i].token = inst[i].token
  BY <1>2, <1>3 DEF InstanceRecord
<1>a. \A i \in Inst : /\ Connected(inst'[i]) = Connected(inst[i])
                     /\ Detached(inst'[i]) = Detached(inst[i])
                     /\ Reclaimable(inst'[i]) = Reclaimable(inst[i])
  BY <1>4 DEF Connected, Detached, Reclaimable
<1>5. \A i \in Inst : Sound(inst'[i]) /\ Known(inst'[i]) = Known(inst[i])
  <2> SUFFICES ASSUME NEW i \in Inst PROVE Sound(inst'[i]) /\ Known(inst'[i]) = Known(inst[i])
    OBVIOUS
  <2>1. inst'[i].avatars = inst[i].avatars /\ Connected(inst'[i]) = Connected(inst[i])
        /\ Detached(inst'[i]) = Detached(inst[i]) /\ Reclaimable(inst'[i]) = Reclaimable(inst[i])
    BY <1>4, <1>a
  <2>2. Sound(inst[i])
    BY <1>2
  <2> QED BY <2>1, <2>2 DEF Sound, Known
<1>6. Apart'
  <2>1. \A i, j \in Inst : i # j => Known(inst'[i]) \cap Known(inst'[j]) = {}
    BY <1>5 DEF IInv, Apart
  <2>2. \A i \in Inst : Known(inst'[i]) \subseteq 1 .. minted'
    BY <1>1, <1>5 DEF IInv, Apart
  <2>3. \A i \in Inst, p \in Player : inst'[i].token[p] <= issued'
    BY <1>1, <1>4 DEF IInv, Apart
  <2>4. \A i, j \in Inst, p, q \in Player :
          inst'[i].token[p] # 0 /\ inst'[i].token[p] = inst'[j].token[q] => i = j /\ p = q
    BY <1>4 DEF IInv, Apart
  <2> QED BY <1>5, <2>1, <2>2, <2>3, <2>4 DEF Apart
<1>7. hosted' \in [World -> Inst \cup {None}]
  BY DEF EvictIdle, IInv, TypeOK, WorldsTyped
<1>8. inst' \in [Inst -> InstanceRecord]
  BY <1>3, <1>4
<1>9. TypeOK'
  BY <1>1, <1>7, <1>8 DEF IInv, TypeOK, WorldsTyped, ConnsTyped, TickTyped, ChatTyped
<1> QED BY <1>1, <1>6, <1>9 DEF IInv, InTransit

-----------------------------------------------------------------------------
(* Without transits, a client belongs to the connection that is in the     *)
(* client's goroutine, as long as the instance is hosted.                  *)

(* Of a connection k: where it has found the instance it is to join.       *)
Found(k) ==
  /\ k.inst # None => k.inst <= made
  /\ k.pc \in {"arrived", "fresh", "greeting"} /\ k.inst \in Hosted => hosted[k.world] = k.inst

(* Of a connection k that is player p's client in instance i: it is still  *)
(* to come to its exit, which will look in i if i is hosted by then.       *)
Holds(i, p, k) ==
  /\ i <= made /\ k.player = p /\ k.pc \notin {"new", "arrived", "fresh"}
  /\ i \in Hosted =>
       /\ k.pc \in {"greeting", "reading", "closing"} => hosted[k.world] = i
       /\ k.pc \in {"greeting", "leaving"} => k.inst = i
       /\ k.pc \notin {"stopping", "ended"}

HostsApart ==
  /\ \A w, v \in World : hosted[w] # None /\ hosted[w] = hosted[v] => w = v
  /\ \A w \in World : hosted[w] # None => hosted[w] <= made

(* No player walks through a gate.                                         *)
Calm == issued = minted /\ step \in {"rest", "expire", "step"}

ConnsFound == \A c \in Conn : Found(conn[c])

ClientsHeld ==
  \A i \in Inst, p \in Player :
    inst[i].clients[p] # None => Holds(i, p, conn[inst[i].clients[p]])

CalmInv == Calm /\ HostsApart /\ ConnsFound /\ ClientsHeld

LEMMA ClientsTyped ==
  ASSUME TypeOK
  PROVE  \A i \in Inst, p \in Player : inst[i].clients[p] \in Conn \cup {None}
<1>1. \A i \in Inst : inst[i].clients \in [Player -> Conn \cup {None}]
  BY DEF TypeOK, WorldsTyped, InstanceRecord
<1> QED BY <1>1

(* One connection moves, and a client goes or becomes its.                 *)
LEMMA HeldStep ==
  ASSUME TypeOK, CalmInv, Calm', UNCHANGED <<hosted, made>>, NEW c \in Conn, NEW k, Found(k),
         conn' = [conn EXCEPT ![c] = k],
         \A i \in Inst, p \in Player : inst'[i].clients[p] \in {inst[i].clients[p], None, c},
         \A i \in Inst, p \in Player : inst'[i].clients[p] = c => Holds(i, p, k)
  PROVE  CalmInv'
<1>1. conn'[c] = k /\ \A d \in Conn : d # c => conn'[d] = conn[d]
  BY DEF TypeOK, ConnsTyped
<1>2. HostsApart' /\ Hosted' = Hosted
  BY DEF CalmInv, HostsApart, Hosted
<1>3. ConnsFound'
  BY <1>1, <1>2 DEF CalmInv, ConnsFound, Found
<1>4. ClientsHeld'
  <2> SUFFICES ASSUME NEW i \in Inst, NEW p \in Player, inst'[i].clients[p] # None
               PROVE  Holds(i, p, conn[inst[i].clients[p]])'
    BY DEF ClientsHeld
  <2>1. CASE inst'[i].clients[p] = c
    BY <1>1, <1>2, <2>1 DEF Holds
  <2>2. CASE inst'[i].clients[p] # c
    <3>1. inst'[i].clients[p] = inst[i].clients[p]
      BY <2>2
    <3>2. inst[i].clients[p] \in Conn /\ Holds(i, p, conn[inst[i].clients[p]])
      BY <3>1, ClientsTyped DEF CalmInv, ClientsHeld
    <3> QED BY <1>1, <1>2, <2>2, <3>1, <3>2 DEF Holds
  <2> QED BY <2>1, <2>2
<1> QED BY <1>2, <1>3, <1>4 DEF CalmInv

(* No connection moves; worlds are released, clients go.                   *)
LEMMA ReleaseStep ==
  ASSUME TypeOK, TypeOK', CalmInv, Calm', UNCHANGED <<conn, made>>,
         \A w \in World : hosted'[w] \in {hosted[w], None},
         \A i \in Inst, p \in Player : inst'[i].clients[p] \in {inst[i].clients[p], None}
  PROVE  CalmInv'
<1>1. Hosted' \subseteq Hosted
  BY DEF Hosted
<1>2. HostsApart'
  BY DEF CalmInv, HostsApart
<1>a. \A w \in World : hosted[w] \in Hosted' => hosted'[w] = hosted[w]
  <2> SUFFICES ASSUME NEW w \in World, hosted[w] \in Hosted' PROVE hosted'[w] = hosted[w]
    OBVIOUS
  <2>1. PICK v \in World : hosted'[v] = hosted[w] /\ hosted[w] # None
    BY DEF Hosted
  <2>2. hosted[v] = hosted[w]
    BY <2>1
  <2> QED BY <2>1, <2>2 DEF CalmInv, HostsApart
<1>3. ConnsFound'
  <2> SUFFICES ASSUME NEW c \in Conn PROVE Found(conn[c])'
    BY DEF ConnsFound
  <2>1. Found(conn[c]) /\ (conn[c].pc # "new" => conn[c].world \in World)
    BY DEF CalmInv, ConnsFound, TypeOK, ConnsTyped
  <2> QED BY <1>1, <1>a, <2>1 DEF Found
<1>4. ClientsHeld'
  <2> SUFFICES ASSUME NEW i \in Inst, NEW p \in Player, inst'[i].clients[p] # None
               PROVE  Holds(i, p, conn[inst[i].clients[p]])'
    BY DEF ClientsHeld
  <2>1. inst'[i].clients[p] = inst[i].clients[p]
    OBVIOUS
  <2>2. inst[i].clients[p] \in Conn /\ Holds(i, p, conn[inst[i].clients[p]])
    BY <2>1, ClientsTyped DEF CalmInv, ClientsHeld
  <2>3. conn[inst[i].clients[p]].world \in World
    BY <2>2 DEF Holds, TypeOK, ConnsTyped
  <2> QED BY <1>1, <1>a, <2>1, <2>2, <2>3 DEF Holds
<1> QED BY <1>2, <1>3, <1>4 DEF CalmInv

LEMMA ExitReleases ==
  ASSUME NEW r \in InstanceRecord, NEW c \in Conn, NEW p \in Player, NEW q \in Player
  PROVE  ReadLoopExit(r, c, p).clients[q] =
           IF q = p /\ r.clients[p] = c THEN None ELSE r.clients[q]
<1> DEFINE u == Unplug(r, p)
<1>1. u \in InstanceRecord /\ u.clients = [r.clients EXCEPT ![p] = None]
  BY UnplugTyped
<1>2. r.clients \in [Player -> Conn \cup {None}]
  BY DEF InstanceRecord
<1>3. CASE r.clients[p] # c
  BY <1>3 DEF ReadLoopExit
<1>4. CASE r.clients[p] = c
  <2>1. CASE p \in r.avatars
    <3>1. ReadLoopExit(r, c, p) = [u EXCEPT !.detached[p] = Grace]
      BY <1>4, <2>1 DEF ReadLoopExit
    <3> HIDE DEF u
    <3>2. ReadLoopExit(r, c, p).clients = u.clients
      BY <1>1, <3>1 DEF InstanceRecord
    <3> QED BY <1>1, <1>2, <1>4, <3>2
  <2>2. CASE p \notin r.avatars
    <3>1. ReadLoopExit(r, c, p) = Forget(u, p)
      BY <1>4, <2>2 DEF ReadLoopExit
    <3> HIDE DEF u
    <3>2. Forget(u, p).clients = u.clients
      BY <1>1, ForgetTyped
    <3>3. ReadLoopExit(r, c, p).clients = u.clients
      BY <3>1, <3>2
    <3> QED BY <1>1, <1>2, <1>4, <3>3
  <2> QED BY <2>1, <2>2
<1> QED BY <1>3, <1>4

(* A connection's exit, in the instance its locals name.                   *)
LEMMA ExitCalm ==
  ASSUME TypeOK, CalmInv, Calm', UNCHANGED <<hosted, made>>, NEW c \in Conn,
         conn[c].pc \in {"greeting", "leaving"},
         inst' = [inst EXCEPT ![conn[c].inst] = ReadLoopExit(@, c, conn[c].player)],
         conn' = [conn EXCEPT ![c].pc = "stopping"]
  PROVE  CalmInv'
<1> DEFINE i == conn[c].inst
           k == [conn[c] EXCEPT !.pc = "stopping"]
<1>1. i \in Inst /\ conn[c].player \in Player /\ conn[c] \in ConnRecord /\ Found(conn[c])
  BY DEF TypeOK, ConnsTyped, CalmInv, ConnsFound
<1>2. conn' = [conn EXCEPT ![c] = k]
  BY DEF TypeOK, ConnsTyped
<1>3. k.pc = "stopping" /\ k.inst = i /\ k.player = conn[c].player /\ k.world = conn[c].world
  BY <1>1 DEF ConnRecord
<1>4. Found(k)
  BY <1>1, <1>3 DEF Found
<1>5. \A j \in Inst, p \in Player :
        inst'[j].clients[p] = IF j = i /\ p = conn[c].player /\ inst[j].clients[p] = c
                              THEN None ELSE inst[j].clients[p]
  BY <1>1, ExitReleases DEF TypeOK, WorldsTyped
<1>6. ASSUME NEW j \in Inst, NEW p \in Player, inst'[j].clients[p] = c PROVE Holds(j, p, k)
  <2>1. inst[j].clients[p] = c /\ ~(j = i /\ p = conn[c].player)
    BY <1>5, <1>6
  <2>2. Holds(j, p, conn[c])
    BY <2>1 DEF CalmInv, ClientsHeld
  <2> QED BY <1>3, <2>1, <2>2 DEF Holds
<1>7. \A j \in Inst, p \in Player : inst'[j].clients[p] \in {inst[j].clients[p], None, c}
  BY <1>5
<1>8. \A j \in Inst, p \in Player : inst'[j].clients[p] = c => Holds(j, p, k)
  BY <1>6
<1> HIDE DEF k, i
<1> QED BY <1>2, <1>4, <1>7, <1>8, HeldStep

(* A connection moves on, its client where it was.                         *)
LEMMA OnwardCalm ==
  ASSUME TypeOK, CalmInv, Calm', UNCHANGED <<hosted, made, inst>>, NEW c \in Conn, NEW k, Found(k),
         conn' = [conn EXCEPT ![c] = k],
         \A i \in Inst, p \in Player : Holds(i, p, conn[c]) => Holds(i, p, k)
  PROVE  CalmInv'
<1>1. \A i \in Inst, p \in Player : inst'[i].clients[p] = inst[i].clients[p]
  OBVIOUS
<1>2. \A i \in Inst, p \in Player : inst'[i].clients[p] = c => Holds(i, p, k)
  BY <1>1 DEF CalmInv, ClientsHeld
<1> QED BY <1>1, <1>2, HeldStep

LEMMA SameCalm ==
  ASSUME CalmInv, UNCHANGED <<issued, minted, step>>
  PROVE  Calm'
BY DEF CalmInv, Calm

LEMMA ArriveCalm ==
  ASSUME TypeOK, CalmInv, NEW c \in Conn, NEW w \in World, Arrive(c, w)
  PROVE  CalmInv'
<1>1. PICK i \in Inst : Obtain(w, i) /\
        conn' = [conn EXCEPT ![c].pc = "arrived", ![c].inst = i, ![c].world = w]
  BY DEF Arrive
<1> DEFINE k == [conn[c] EXCEPT !.pc = "arrived", !.inst = i, !.world = w]
<1>2. UNCHANGED <<inst, minted, issued, step>> /\ conn[c].pc = "new" /\ conn[c] \in ConnRecord
  BY DEF Arrive, tickVars, TypeOK, ConnsTyped
<1>3. conn'[c] = k /\ \A d \in Conn : d # c => conn'[d] = conn[d]
  BY <1>1 DEF TypeOK, ConnsTyped
<1>4. k.pc = "arrived" /\ k.inst = i /\ k.world = w
  BY <1>2 DEF ConnRecord
<1> HIDE DEF k
<1>5. made \in Nat /\ hosted \in [World -> Inst \cup {None}] /\ i \in Nat /\ i # None
  BY DEF TypeOK, WorldsTyped
<1>6. /\ hosted'[w] = i /\ i <= made' /\ made' \in Nat /\ made <= made'
      /\ \A v \in World : hosted[v] # None => hosted'[v] = hosted[v]
      /\ \A v \in World : v # w => hosted'[v] = hosted[v]
      /\ hosted[w] = None => made < i
  <2>1. CASE hosted[w] = i /\ UNCHANGED <<hosted, made>>
    BY <1>5, <2>1 DEF CalmInv, HostsApart
  <2>2. CASE hosted[w] = None /\ i = made + 1 /\ made' = i /\ hosted' = [hosted EXCEPT ![w] = i]
    BY <1>5, <2>2
  <2> QED BY <1>1, <2>1, <2>2 DEF Obtain
<1>a. \A v \in World : hosted'[v] \in Inst \cup {None}
  BY <1>5, <1>6
<1>7. HostsApart'
  <2>1. \A v \in World : hosted[v] # None => hosted[v] <= made /\ hosted[v] \in Nat
    BY <1>5 DEF CalmInv, HostsApart
  <2>2. \A v \in World : hosted'[v] # None => hosted'[v] <= made'
    BY <1>5, <1>6, <2>1
  <2>3. ASSUME NEW u \in World, NEW v \in World, hosted'[u] # None, hosted'[u] = hosted'[v]
        PROVE  u = v
    <3>1. CASE hosted[w] = None
      <4>1. \A x \in World : x # w => hosted'[x] # i
        BY <1>5, <1>6, <2>1, <3>1
      <4> QED BY <1>6, <2>3, <4>1 DEF CalmInv, HostsApart
    <3>2. CASE hosted[w] # None
      BY <1>6, <2>3, <3>2 DEF CalmInv, HostsApart
    <3> QED BY <3>1, <3>2
  <2> QED BY <2>2, <2>3 DEF HostsApart
<1>8. \A j \in Inst : j <= made => (j \in Hosted' <=> j \in Hosted)
  <2>1. \A j \in Inst : j \in Hosted => j \in Hosted'
    BY <1>6 DEF Hosted
  <2>2. ASSUME NEW j \in Inst, j <= made, j \in Hosted' PROVE j \in Hosted
    <3>1. PICK v \in World : hosted'[v] = j
      BY <2>2 DEF Hosted
    <3>2. hosted[v] = j
      BY <1>5, <1>6, <2>2, <3>1
    <3> QED BY <3>2, <2>2 DEF Hosted
  <2> QED BY <2>1, <2>2
<1>9. ASSUME NEW v \in World, NEW j \in Inst, j <= made, j \in Hosted, hosted[v] = j
      PROVE  hosted'[v] = j
  BY <1>6, <1>9
<1>10. ConnsFound'
  <2> SUFFICES ASSUME NEW d \in Conn PROVE Found(conn[d])'
    BY DEF ConnsFound
  <2>1. CASE d = c
    BY <1>3, <1>4, <1>6, <2>1 DEF Found
  <2>2. CASE d # c
    <3>1. conn'[d] = conn[d] /\ Found(conn[d]) /\ (conn[d].pc # "new" => conn[d].world \in World)
          /\ conn[d].inst \in Inst \cup {None}
      BY <1>3, <2>2 DEF CalmInv, ConnsFound, TypeOK, ConnsTyped, ConnRecord
    <3>2. conn[d].inst # None => conn[d].inst \in Inst /\ conn[d].inst <= made /\ conn[d].inst <= made'
      BY <1>5, <1>6, <3>1 DEF Found
    <3>3. conn[d].inst \in Hosted' => conn[d].inst \in Hosted
      BY <1>8, <3>1, <3>2 DEF Hosted
    <3> QED BY <1>9, <3>1, <3>2, <3>3 DEF Found, Hosted
  <2> QED BY <2>1, <2>2
<1>11. ClientsHeld'
  <2> SUFFICES ASSUME NEW j \in Inst, NEW p \in Player, inst'[j].clients[p] # None
               PROVE  Holds(j, p, conn[inst[j].clients[p]])'
    BY DEF ClientsHeld
  <2>1. PICK d \in Conn : d = inst[j].clients[p] /\ Holds(j, p, conn[d])
    BY <1>2, ClientsTyped DEF CalmInv, ClientsHeld
  <2>2. d # c /\ conn'[d] = conn[d] /\ inst'[j].clients[p] = d
    BY <1>2, <1>3, <2>1 DEF Holds
  <2>3. conn[d].world \in World /\ j <= made /\ j <= made'
    BY <1>5, <1>6, <2>1 DEF Holds, TypeOK, ConnsTyped
  <2>4. j \in Hosted' => j \in Hosted
    BY <1>8, <2>3
  <2>5. Holds(j, p, conn[d])'
    BY <1>9, <2>1, <2>2, <2>3, <2>4 DEF Holds
  <2> QED BY <2>2, <2>5
<1> QED BY <1>2, <1>7, <1>10, <1>11, SameCalm DEF CalmInv

LEMMA TryResumeCalm ==
  ASSUME TypeOK, CalmInv, NEW c \in Conn, TryResume(c)
  PROVE  CalmInv'
<1> DEFINE i == conn[c].inst
           fresh == [conn[c] EXCEPT !.pc = "fresh"]
<1>1. UNCHANGED <<hosted, made, minted, issued, step>> /\ conn[c].pc = "arrived"
  BY DEF TryResume, tickVars
<1>2. i \in Inst /\ conn[c] \in ConnRecord /\ inst[i] \in InstanceRecord /\ Found(conn[c])
  BY <1>1 DEF TypeOK, ConnsTyped, WorldsTyped, CalmInv, ConnsFound
<1>3. Calm'
  BY <1>1, SameCalm
<1>4. \A j \in Inst, p \in Player : inst[j].clients[p] # c
  BY <1>1 DEF CalmInv, ClientsHeld, Holds
<1>5. Found(fresh)
  BY <1>1, <1>2 DEF Found, ConnRecord
<1>a. ASSUME conn' = [conn EXCEPT ![c].pc = "fresh"],
             \A j \in Inst, p \in Player : inst'[j].clients[p] = inst[j].clients[p]
      PROVE  CalmInv'
  <2>1. conn' = [conn EXCEPT ![c] = fresh]
    BY <1>a DEF TypeOK, ConnsTyped
  <2>2. \A j \in Inst, p \in Player : inst'[j].clients[p] \in {inst[j].clients[p], None, c}
    BY <1>a
  <2>3. \A j \in Inst, p \in Player : inst'[j].clients[p] = c => Holds(j, p, fresh)
    BY <1>4, <1>a
  <2> HIDE DEF fresh, i
  <2> QED BY <1>1, <1>3, <1>5, <2>1, <2>2, <2>3, HeldStep
<1>6. CASE UNCHANGED inst /\ conn' = [conn EXCEPT ![c].pc = "fresh"]
  BY <1>6, <1>a
<1>7. ASSUME NEW p \in Player, conn' = [conn EXCEPT ![c].pc = "fresh"],
             inst' = [inst EXCEPT ![i] = Forget(inst[i], p)]
      PROVE  CalmInv'
  <2>1. Forget(inst[i], p).clients = inst[i].clients
    BY <1>2, ForgetTyped
  <2>2. \A j \in Inst, q \in Player : inst'[j].clients[q] = inst[j].clients[q]
    BY <1>2, <1>7, <2>1 DEF TypeOK, WorldsTyped
  <2> QED BY <1>7, <1>a, <2>2
<1>8. ASSUME NEW p \in Player, NEW t, inst' = [inst EXCEPT ![i] = Attach(inst[i], c, p)],
             conn' = [conn EXCEPT ![c].pc = "greeting", ![c].player = p, ![c].offer = t]
      PROVE  CalmInv'
  <2> DEFINE k == [conn[c] EXCEPT !.pc = "greeting", !.player = p, !.offer = t]
  <2>1. conn' = [conn EXCEPT ![c] = k]
    BY <1>8 DEF TypeOK, ConnsTyped
  <2>2. k.pc = "greeting" /\ k.player = p /\ k.inst = i /\ k.world = conn[c].world
    BY <1>2 DEF ConnRecord
  <2> HIDE DEF k
  <2>3. Attach(inst[i], c, p).clients = [inst[i].clients EXCEPT ![p] = c]
    BY <1>2 DEF Attach, InstanceRecord
  <2>4. \A j \in Inst, q \in Player :
          inst'[j].clients[q] = IF j = i /\ q = p THEN c ELSE inst[j].clients[q]
    BY <1>2, <1>8, <2>3 DEF TypeOK, WorldsTyped, InstanceRecord
  <2>5. i <= made /\ (i \in Hosted => hosted[conn[c].world] = i) /\ i # None
    BY <1>1, <1>2 DEF Found
  <2>6. Found(k) /\ Holds(i, p, k)
    BY <2>2, <2>5 DEF Found, Holds
  <2>7. \A j \in Inst, q \in Player : inst'[j].clients[q] \in {inst[j].clients[q], None, c}
    BY <2>4
  <2>8. \A j \in Inst, q \in Player : inst'[j].clients[q] = c => Holds(j, q, k)
    BY <1>4, <2>4, <2>6
  <2> HIDE DEF i
  <2> QED BY <1>1, <1>3, <2>1, <2>6, <2>7, <2>8, HeldStep
<1> QED BY <1>6, <1>7, <1>8 DEF TryResume

LEMMA FreshJoinCalm ==
  ASSUME TypeOK, CalmInv, NEW c \in Conn, FreshJoin(c)
  PROVE  CalmInv'
<1> DEFINE i == conn[c].inst
           p == minted + 1
           k == [conn[c] EXCEPT !.pc = "greeting", !.player = p, !.offer = issued + 1]
<1>1. /\ UNCHANGED <<hosted, made, step>> /\ minted' = minted + 1 /\ issued' = issued + 1
      /\ conn[c].pc \in {"arrived", "fresh"} /\ p \in Player
      /\ inst' = [inst EXCEPT ![i] = JoinAs(inst[i], c, p)]
  BY DEF FreshJoin, tickVars
<1>2. i \in Inst /\ conn[c] \in ConnRecord /\ inst[i] \in InstanceRecord /\ Found(conn[c])
  BY <1>1 DEF TypeOK, ConnsTyped, WorldsTyped, CalmInv, ConnsFound
<1>3. Calm'
  BY <1>1 DEF CalmInv, Calm
<1>4. \A j \in Inst, q \in Player : inst[j].clients[q] # c
  BY <1>1 DEF CalmInv, ClientsHeld, Holds
<1>5. conn' = [conn EXCEPT ![c] = k]
  BY DEF FreshJoin, TypeOK, ConnsTyped
<1>6. k.pc = "greeting" /\ k.player = p /\ k.inst = i /\ k.world = conn[c].world
  BY <1>2 DEF ConnRecord
<1> HIDE DEF k, p
<1>7. JoinAs(inst[i], c, p).clients = [inst[i].clients EXCEPT ![p] = c]
  BY <1>2 DEF JoinAs, InstanceRecord
<1>8. \A j \in Inst, q \in Player :
        inst'[j].clients[q] = IF j = i /\ q = p THEN c ELSE inst[j].clients[q]
  BY <1>1, <1>2, <1>7 DEF TypeOK, WorldsTyped, InstanceRecord
<1>9. i <= made /\ (i \in Hosted => hosted[conn[c].world] = i) /\ i # None
  BY <1>1, <1>2 DEF Found
<1>10. Found(k) /\ Holds(i, p, k)
  BY <1>6, <1>9 DEF Found, Holds
<1>11. \A j \in Inst, q \in Player : inst'[j].clients[q] \in {inst[j].clients[q], None, c}
  BY <1>8
<1>12. \A j \in Inst, q \in Player : inst'[j].clients[q] = c => Holds(j, q, k)
  BY <1>4, <1>8, <1>10
<1> HIDE DEF i
<1> QED BY <1>1, <1>3, <1>5, <1>10, <1>11, <1>12, HeldStep

(* The steps of a connection's own goroutine that touch no client.         *)
LEMMA OwnStepCalm ==
  ASSUME TypeOK, CalmInv, NEW c \in Conn,
         TurnAway(c) \/ Fail(c) \/ HearInVain(c) \/ EndLoop(c) \/ Stop(c)
  PROVE  CalmInv'
<1>1. UNCHANGED <<hosted, made, inst, minted, issued, step>>
  BY DEF TurnAway, Fail, HearInVain, EndLoop, Stop, worldVars, tickVars
<1>2. conn[c] \in ConnRecord /\ Found(conn[c]) /\ (conn[c].pc # "new" => conn[c].world \in World)
  BY DEF TypeOK, ConnsTyped, CalmInv, ConnsFound
<1>3. Calm'
  BY <1>1, SameCalm
<1>4. ASSUME NEW r, conn' = [conn EXCEPT ![c] = r], Found(r),
             \A j \in Inst, p \in Player : Holds(j, p, conn[c]) => Holds(j, p, r)
      PROVE  CalmInv'
  BY <1>1, <1>3, <1>4, OnwardCalm
<1>5. CASE TurnAway(c) \/ Stop(c)
  <2> DEFINE r == [conn[c] EXCEPT !.pc = "ended", !.dead = TRUE]
  <2>1. conn' = [conn EXCEPT ![c] = r] /\ conn[c].pc \in {"arrived", "stopping"}
    BY <1>5 DEF TurnAway, Stop, TypeOK, ConnsTyped
  <2>2. r.pc = "ended" /\ r.inst = conn[c].inst /\ r.player = conn[c].player /\ r.world = conn[c].world
    BY <1>2 DEF ConnRecord
  <2> HIDE DEF r
  <2>3. Found(r) /\ \A j \in Inst, p \in Player : Holds(j, p, conn[c]) => Holds(j, p, r)
    BY <1>2, <2>1, <2>2 DEF Found, Holds
  <2> QED BY <1>4, <2>1, <2>3
<1>6. CASE Fail(c)
  <2> DEFINE r == [conn[c] EXCEPT !.dead = TRUE]
  <2>1. conn' = [conn EXCEPT ![c] = r]
    BY <1>6 DEF Fail, TypeOK, ConnsTyped
  <2>2. r.pc = conn[c].pc /\ r.inst = conn[c].inst /\ r.player = conn[c].player /\ r.world = conn[c].world
    BY <1>2 DEF ConnRecord
  <2> HIDE DEF r
  <2>3. Found(r) /\ \A j \in Inst, p \in Player : Holds(j, p, conn[c]) => Holds(j, p, r)
    BY <1>2, <2>2 DEF Found, Holds
  <2> QED BY <1>4, <2>1, <2>3
<1>7. CASE HearInVain(c)
  <2> DEFINE r == [conn[c] EXCEPT !.pc = "closing"]
  <2>1. conn' = [conn EXCEPT ![c] = r] /\ conn[c].pc = "reading"
    BY <1>7 DEF HearInVain, TypeOK, ConnsTyped
  <2>2. r.pc = "closing" /\ r.inst = conn[c].inst /\ r.player = conn[c].player /\ r.world = conn[c].world
    BY <1>2 DEF ConnRecord
  <2> HIDE DEF r
  <2>3. Found(r) /\ \A j \in Inst, p \in Player : Holds(j, p, conn[c]) => Holds(j, p, r)
    BY <1>2, <2>1, <2>2 DEF Found, Holds
  <2> QED BY <1>4, <2>1, <2>3
<1>8. CASE EndLoop(c)
  <2> DEFINE i == hosted[conn[c].world]
             r == [conn[c] EXCEPT !.pc = IF i = None THEN "stopping" ELSE "leaving", !.inst = i]
  <2>1. conn' = [conn EXCEPT ![c] = r] /\ conn[c].pc \in {"reading", "closing"}
    BY <1>8 DEF EndLoop, TypeOK, ConnsTyped
  <2>2. /\ r.pc = (IF i = None THEN "stopping" ELSE "leaving") /\ r.inst = i
        /\ r.player = conn[c].player /\ r.world = conn[c].world
    BY <1>2 DEF ConnRecord
  <2>3. i # None => i <= made
    BY <1>2, <2>1 DEF CalmInv, HostsApart
  <2>4. None \notin Hosted
    BY DEF Hosted
  <2> HIDE DEF r
  <2>5. Found(r)
    BY <2>2, <2>3 DEF Found
  <2>6. \A j \in Inst, p \in Player : Holds(j, p, conn[c]) => Holds(j, p, r)
    BY <2>1, <2>2, <2>4 DEF Holds
  <2> QED BY <1>4, <2>1, <2>5, <2>6
<1> QED BY <1>5, <1>6, <1>7, <1>8

LEMMA GreetCalm ==
  ASSUME TypeOK, CalmInv, NEW c \in Conn, Greet(c)
  PROVE  CalmInv'
<1>1. UNCHANGED <<hosted, made, minted, issued, step>> /\ conn[c].pc = "greeting"
  BY DEF Greet, tickVars
<1>2. conn[c] \in ConnRecord /\ Found(conn[c])
  BY DEF TypeOK, ConnsTyped, CalmInv, ConnsFound
<1>3. Calm'
  BY <1>1, SameCalm
<1>4. CASE /\ conn' = [conn EXCEPT ![c].pc = "reading", ![c].token = conn[c].offer]
           /\ UNCHANGED inst
  <2> DEFINE k == [conn[c] EXCEPT !.pc = "reading", !.token = conn[c].offer]
  <2>1. conn' = [conn EXCEPT ![c] = k]
    BY <1>4 DEF TypeOK, ConnsTyped
  <2>2. k.pc = "reading" /\ k.inst = conn[c].inst /\ k.player = conn[c].player /\ k.world = conn[c].world
    BY <1>2 DEF ConnRecord
  <2> HIDE DEF k
  <2>3. Found(k) /\ \A j \in Inst, p \in Player : Holds(j, p, conn[c]) => Holds(j, p, k)
    BY <1>1, <1>2, <2>2 DEF Found, Holds
  <2> QED BY <1>1, <1>3, <1>4, <2>1, <2>3, OnwardCalm
<1>5. CASE /\ conn' = [conn EXCEPT ![c].pc = "stopping"]
           /\ inst' = [inst EXCEPT ![conn[c].inst] = ReadLoopExit(@, c, conn[c].player)]
  BY <1>1, <1>3, <1>5, ExitCalm
<1> QED BY <1>4, <1>5 DEF Greet

LEMMA HandleReadLoopExitCalm ==
  ASSUME TypeOK, CalmInv, NEW c \in Conn, HandleReadLoopExit(c)
  PROVE  CalmInv'
<1>1. UNCHANGED <<hosted, made, minted, issued, step>> /\ conn[c].pc = "leaving"
  BY DEF HandleReadLoopExit, tickVars
<1>2. /\ conn' = [conn EXCEPT ![c].pc = "stopping"]
      /\ inst' = [inst EXCEPT ![conn[c].inst] = ReadLoopExit(@, c, conn[c].player)]
  BY DEF HandleReadLoopExit
<1>3. Calm'
  BY <1>1, SameCalm
<1> QED BY <1>1, <1>2, <1>3, ExitCalm

(* The messages of a client, which leave all clients as they are.          *)
LEMMA MessageCalm ==
  ASSUME TypeOK, TypeOK', CalmInv, NEW c \in Conn,
         SetInput(c) \/ SubmitQuitReply(c) \/ RecordHighScore(c) \/ SubmitChatBlock(c)
  PROVE  CalmInv'
<1>1. UNCHANGED <<hosted, made, minted, issued, step, conn>>
  BY DEF SetInput, SubmitQuitReply, RecordHighScore, SubmitChatBlock, worldVars, tickVars
<1>2. \A i \in Inst : inst[i] \in InstanceRecord
  BY DEF TypeOK, WorldsTyped
<1>3. \A i \in Inst : inst'[i].clients = inst[i].clients
  <2>1. inst \in [Inst -> InstanceRecord]
    BY DEF TypeOK, WorldsTyped
  <2>2. CASE SetInput(c)
    BY <2>1, <2>2 DEF SetInput, InstanceRecord
  <2>3. CASE SubmitQuitReply(c)
    BY <2>1, <2>3 DEF SubmitQuitReply, InstanceRecord
  <2>4. CASE RecordHighScore(c)
    BY <2>1, <2>4 DEF RecordHighScore, InstanceRecord
  <2>5. CASE SubmitChatBlock(c)
    BY <2>5 DEF SubmitChatBlock, worldVars
  <2> QED BY <2>2, <2>3, <2>4, <2>5
<1>4. \A i \in Inst, p \in Player : inst'[i].clients[p] \in {inst[i].clients[p], None}
  BY <1>3
<1>5. \A w \in World : hosted'[w] \in {hosted[w], None}
  BY <1>1
<1> QED BY <1>1, <1>4, <1>5, SameCalm, ReleaseStep

LEMMA TickerCalm ==
  ASSUME Gates = 0, TypeOK, TypeOK', CalmInv, Ticker
  PROVE  CalmInv'
<1>1. issued = minted /\ issued \in Nat /\ step \in {"rest", "expire", "step"}
  BY DEF CalmInv, Calm, TypeOK, WorldsTyped
<1>2. inst \in [Inst -> InstanceRecord]
  BY DEF TypeOK, WorldsTyped
<1>3. ASSUME UNCHANGED <<conn, made, minted, issued>>, step' \in {"rest", "expire", "step"},
             \A w \in World : hosted'[w] \in {hosted[w], None},
             \A i \in Inst : inst'[i].clients = inst[i].clients
      PROVE  CalmInv'
  <2>1. \A i \in Inst, p \in Player : inst'[i].clients[p] \in {inst[i].clients[p], None}
    BY <1>3
  <2>2. Calm'
    BY <1>1, <1>3 DEF Calm
  <2> QED BY <1>3, <2>1, <2>2, ReleaseStep
<1>4. CASE BeginTick \/ BeginSteps
  <2>1. UNCHANGED <<conn, made, minted, issued, hosted, inst>> /\ step' \in {"expire", "step"}
    BY <1>4 DEF BeginTick, BeginSteps, worldVars
  <2> QED BY <1>3, <2>1
<1>5. CASE ExpireDetached
  <2>1. UNCHANGED <<conn, made, minted, issued, hosted, step>>
    BY <1>5 DEF ExpireDetached
  <2>2. PICK i \in queue : inst' = [inst EXCEPT ![i] = Expire(inst[i])]
    BY <1>5 DEF ExpireDetached
  <2>3. i \in Inst
    BY DEF TypeOK, TickTyped
  <2>4. Expire(inst[i]).clients = inst[i].clients
    BY <1>2, <2>3 DEF Expire, InstanceRecord
  <2>5. \A j \in Inst : inst'[j].clients = inst[j].clients
    BY <1>2, <2>2, <2>3, <2>4
  <2> QED BY <1>1, <1>3, <2>1, <2>5
<1>6. CASE TickInstance
  <2>1. UNCHANGED <<conn, made, minted, issued, hosted>>
    BY <1>6 DEF TickInstance
  <2>2. ~(issued < minted + Gates)
    BY <1>1
  <2>3. UNCHANGED step
    BY <1>6, <2>2 DEF TickInstance
  <2>4. PICK i \in queue : \E lost \in SUBSET inst[i].avatars, ranked \in SUBSET Quitters(inst[i]) :
          inst' = [inst EXCEPT ![i] = Stepped(inst[i], lost, ranked)]
    BY <1>6 DEF TickInstance
  <2>5. i \in Inst
    BY DEF TypeOK, TickTyped
  <2>6. PICK lost, ranked : inst' = [inst EXCEPT ![i] = Stepped(inst[i], lost, ranked)]
    BY <2>4
  <2>7. Stepped(inst[i], lost, ranked).clients = inst[i].clients
    BY <1>2, <2>5 DEF Stepped, InstanceRecord
  <2>8. \A j \in Inst : inst'[j].clients = inst[j].clients
    BY <1>2, <2>5, <2>6, <2>7
  <2> QED BY <1>1, <1>3, <2>1, <2>3, <2>8
<1>7. CASE EvictIdle
  <2>1. UNCHANGED <<conn, made, minted, issued>> /\ step' = "rest"
    BY <1>7 DEF EvictIdle
  <2>2. \A w \in World : hosted'[w] \in {hosted[w], None}
    BY <1>7 DEF EvictIdle
  <2>3. \A i \in Inst : inst'[i].clients = inst[i].clients
    BY <1>2, <1>7 DEF EvictIdle, InstanceRecord
  <2> QED BY <1>3, <2>1, <2>2, <2>3
<1>8. ~OpenGate /\ ~LeaveSource /\ ~JoinDestination /\ ~Welcome
  BY <1>1 DEF OpenGate, LeaveSource, JoinDestination, Welcome
<1> QED BY <1>4, <1>5, <1>6, <1>7, <1>8 DEF Ticker

-----------------------------------------------------------------------------
(* The whole system.                                                       *)

LEMMA InitKeeps == Init => IInv
<1> SUFFICES ASSUME Init PROVE IInv
  OBVIOUS
<1>1. /\ hosted = [w \in World |-> IF w = Default THEN 1 ELSE None] /\ made = 1
      /\ minted = 0 /\ issued = 0 /\ inst = [i \in Inst |-> NewInst]
      /\ conn = [c \in Conn |-> NewConn] /\ step = "rest" /\ queue = {} /\ gate = NoGate
      /\ blocking = {} /\ saved = {}
  BY DEF Init
<1>2. NewInst \in InstanceRecord
  BY DEF NewInst, InstanceRecord
<1>3. /\ NewInst.avatars = {} /\ NewInst.token = [p \in Player |-> 0]
      /\ NewInst.clients = [p \in Player |-> None] /\ NewInst.detached = [p \in Player |-> 0]
  BY DEF NewInst
<1>4. Connected(NewInst) = {} /\ Detached(NewInst) = {} /\ Reclaimable(NewInst) = {}
  BY <1>3 DEF Connected, Detached, Reclaimable
<1>5. Sound(NewInst) /\ Known(NewInst) = {}
  BY <1>3, <1>4 DEF Sound, Known
<1>6. \A i \in Inst : inst[i] = NewInst
  BY <1>1
<1>7. Apart
  <2>1. \A i \in Inst, p \in Player : inst[i].token[p] = 0
    BY <1>3, <1>6
  <2>2. \A i \in Inst : Sound(inst[i]) /\ Known(inst[i]) = {}
    BY <1>5, <1>6
  <2> QED BY <1>1, <2>1, <2>2 DEF Apart
<1>8. WorldsTyped
  <2>1. made \in Inst /\ minted \in 0 .. MaxPlayer /\ issued \in Nat
    BY <1>1
  <2>2. hosted \in [World -> Inst \cup {None}]
    BY <1>1
  <2>3. inst \in [Inst -> InstanceRecord]
    BY <1>1, <1>2
  <2> QED BY <2>1, <2>2, <2>3 DEF WorldsTyped
<1>9. ConnsTyped
  BY <1>1 DEF ConnsTyped, NewConn, ConnRecord, PCs
<1>10. TickTyped /\ ChatTyped
  BY <1>1, NoGateTyped DEF TickTyped, ChatTyped
<1> QED BY <1>1, <1>7, <1>8, <1>9, <1>10 DEF IInv, TypeOK, InTransit

LEMMA NextKeeps == IInv /\ [Next]_vars => IInv'
<1> SUFFICES ASSUME IInv, [Next]_vars PROVE IInv'
  OBVIOUS
<1>1. CASE Ticker
  BY <1>1, BeginTickKeeps, ExpireDetachedKeeps, BeginStepsKeeps, TickInstanceKeeps, EvictIdleKeeps,
     OpenGateKeeps, LeaveSourceKeeps, JoinDestinationKeeps, WelcomeKeeps DEF Ticker
<1>2. ASSUME NEW c \in Conn, Connection(c) PROVE IInv'
  BY <1>2, ArriveKeeps, TurnAwayKeeps, TryResumeKeeps, FreshJoinKeeps, GreetKeeps, FailKeeps,
     SetInputKeeps, SubmitQuitReplyKeeps, RecordHighScoreKeeps, SubmitChatBlockKeeps,
     HearInVainKeeps, EndLoopKeeps, HandleReadLoopExitKeeps, StopKeeps DEF Connection
<1>3. CASE UNCHANGED vars
  BY <1>3 DEF vars, worldVars, tickVars, chatVars, IInv, TypeOK, WorldsTyped, ConnsTyped,
              TickTyped, ChatTyped, Apart, InTransit
<1> QED BY <1>1, <1>2, <1>3 DEF Next

LEMMA IInvInvariant == Spec => []IInv
BY InitKeeps, NextKeeps, PTL DEF Spec

(* ServeHTTP and completeWorldTransit never use an instance, a player or a *)
(* client they have not set, however drops, resumes, transits and releases *)
(* interleave.                                                             *)
THEOREM InstancesTyped == Spec => []TypeOK
<1>1. IInv => TypeOK
  BY DEF IInv
<1> QED BY <1>1, IInvInvariant, PTL

(* A player has an avatar in one instance at most: fresh joins, resumes and*)
(* transits, each under the lock of one instance, never duplicate one.     *)
THEOREM OneAvatarAlways == Spec => []OneAvatar
<1>1. IInv => OneAvatar
  BY DEF IInv, Apart, Known, OneAvatar
<1> QED BY <1>1, IInvInvariant, PTL

(* Every avatar has a connection or counts down to its removal, never both:*)
(* removeDetachedLocked takes no connected player's avatar.                *)
THEOREM AvatarsAttendedAlways == Spec => []AvatarsAttended
<1>1. IInv => AvatarsAttended
  BY DEF IInv, Apart, Sound, AvatarsAttended
<1> QED BY <1>1, IInvInvariant, PTL

(* Every avatar has a resume token, and a token names one player in one    *)
(* instance: tryResume can only ever give a browser its own avatar.        *)
THEOREM TokensReclaimAlways == Spec => []TokensReclaim
<1>1. IInv => TokensReclaim
  BY DEF IInv, Apart, Sound, Reclaimable, TokensReclaim
<1> QED BY <1>1, IInvInvariant, PTL

(* When no player walks from world to world, no client of a hosted world   *)
(* is left from a connection that has ended: every exit of ServeHTTP looks *)
(* into the instance that has the client, whatever the ticker releases.    *)
THEOREM NoGhostsInCalm ==
  ASSUME Gates = 0
  PROVE  Spec => []NoGhosts
<1>1. Init => CalmInv
  <2> SUFFICES ASSUME Init PROVE CalmInv
    OBVIOUS
  <2>1. /\ hosted = [w \in World |-> IF w = Default THEN 1 ELSE None] /\ made = 1
        /\ minted = 0 /\ issued = 0 /\ inst = [i \in Inst |-> NewInst]
        /\ conn = [c \in Conn |-> NewConn] /\ step = "rest"
    BY DEF Init
  <2>2. HostsApart
    BY <2>1 DEF HostsApart
  <2>3. ConnsFound
    BY <2>1 DEF ConnsFound, Found, NewConn
  <2>4. ClientsHeld
    BY <2>1 DEF ClientsHeld, NewInst
  <2> QED BY <2>1, <2>2, <2>3, <2>4 DEF CalmInv, Calm
<1>2. IInv /\ IInv' /\ CalmInv /\ [Next]_vars => CalmInv'
  <2> SUFFICES ASSUME IInv, IInv', CalmInv, [Next]_vars PROVE CalmInv'
    OBVIOUS
  <2>1. TypeOK /\ TypeOK'
    BY DEF IInv
  <2>2. CASE Ticker
    BY <2>1, <2>2, TickerCalm
  <2>3. ASSUME NEW c \in Conn, Connection(c) PROVE CalmInv'
    BY <2>1, <2>3, ArriveCalm, TryResumeCalm, FreshJoinCalm, GreetCalm, OwnStepCalm, MessageCalm,
       HandleReadLoopExitCalm DEF Connection
  <2>4. CASE UNCHANGED vars
    BY <2>4 DEF vars, worldVars, tickVars, CalmInv, Calm, HostsApart, ConnsFound, Found,
                ClientsHeld, Holds, Hosted
  <2> QED BY <2>2, <2>3, <2>4 DEF Next
<1>3. CalmInv /\ IInv => NoGhosts
  <2> SUFFICES ASSUME CalmInv, IInv, NEW i \in Hosted, NEW p \in Player, inst[i].clients[p] # None
               PROVE  conn[inst[i].clients[p]].pc # "ended"
    BY DEF NoGhosts
  <2>1. i \in Inst
    BY HostedTyped DEF IInv
  <2> QED BY <2>1 DEF CalmInv, ClientsHeld, Holds
<1> QED BY <1>1, <1>2, <1>3, IInvInvariant, PTL DEF Spec
=============================================================================
