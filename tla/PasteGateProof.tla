---------------------------- MODULE PasteGateProof ----------------------------
(***************************************************************************)
(* What is proved of PasteGate, for any number of handlers, readers, pastes *)
(* and ticks: its type, that no route is a way around the password of an    *)
(* encrypted paste, none but a won reveal a way around the seal, and that   *)
(* no gate is counted as a view.                                            *)
(***************************************************************************)
EXTENDS PasteGate, FiniteSetTheorems, TLAPS

-----------------------------------------------------------------------------
(* Type correctness. *)

LEMMA LoadType ==
    ASSUME TypeOK, NEW p \in Handler, NEW r \in Reader, NEW id \in PasteId,
           NEW place \in Place \ {"idle"}, Live(id), Load(p, r, id, place)
    PROVE  /\ pc' \in [Handler -> Place]
           /\ req' \in [Handler -> Locals \cup {NoRequest}]
           /\ \A q \in Handler : req'[q] = NoRequest <=> pc'[q] = "idle"
<1>1. [id |-> id, reader |-> r, kind |-> paste[id], at |-> now] \in Locals
    BY BoundAssumption DEF TypeOK, Live, Locals
<1>2. [id |-> id, reader |-> r, kind |-> paste[id], at |-> now] # NoRequest
    BY <1>1, RequestAssumption
<1> QED
    BY <1>1, <1>2 DEF TypeOK, Load

LEMMA FinishType ==
    ASSUME TypeOK, NEW p \in Handler, NEW place, Finish(p, place)
    PROVE  /\ pc' \in [Handler -> Place]
           /\ req' \in [Handler -> Locals \cup {NoRequest}]
           /\ \A q \in Handler : req'[q] = NoRequest <=> pc'[q] = "idle"
BY DEF TypeOK, Finish, Place

LEMMA RemoveType ==
    ASSUME TypeOK, NEW id \in PasteId, Remove(id)
    PROVE  /\ paste' \in [PasteId -> Kind \cup {Unborn, Gone}]
           /\ views' \in [PasteId -> Nat]
           /\ opened' \in [PasteId -> Nat]
BY DEF TypeOK, Remove

LEMMA ProvedType ==
    ASSUME TypeOK, NEW r \in Reader, NEW id \in PasteId, NEW right, Proved(r, id, right)
    PROVE  proof' \in [Reader -> [PasteId -> Nat \cup {Never}]]
<1>1. now \in Nat
    BY BoundAssumption DEF TypeOK
<1>2. [proof[r] EXCEPT ![id] = now] \in [PasteId -> Nat \cup {Never}]
    BY <1>1 DEF TypeOK
<1> QED
    BY <1>2 DEF TypeOK, Proved

LEMMA InitType == Init => TypeOK
BY BoundAssumption DEF Init, TypeOK, Place

LEMMA RequestType ==
    ASSUME TypeOK, NEW p \in Handler, NEW r \in Reader, NEW id \in PasteId, Request(p, r, id)
    PROVE  TypeOK'
<1> USE DEF store, ghosts
<1>1. CASE View(p, r, id)
    <2>1. opened' \in [PasteId -> Nat]
        BY <1>1 DEF View, TypeOK
    <2> QED
        BY <1>1, <2>1, LoadType, "count" \in Place \ {"idle"} DEF View, TypeOK, Place
<1>2. CASE Read(p, r, id)
    BY <1>2, LoadType DEF Read, TypeOK, Place
<1>3. CASE Card(p, r, id)
    BY <1>3, LoadType DEF Card, TypeOK, Place
<1>4. CASE EditForm(p, r, id)
    BY <1>4, LoadType DEF EditForm, TypeOK, Place
<1>5. CASE ApiRevisions(p, r, id)
    BY <1>5, LoadType DEF ApiRevisions, TypeOK, Place
<1>6. CASE ApiDelete(p, r, id)
    <2>1. /\ pc' \in [Handler -> Place]
          /\ req' \in [Handler -> Locals \cup {NoRequest}]
          /\ \A q \in Handler : req'[q] = NoRequest <=> pc'[q] = "idle"
        BY <1>6, LoadType DEF ApiDelete, TypeOK, Place
    <2> QED
        BY <1>6, <2>1, RemoveType DEF ApiDelete, TypeOK
<1>7. ASSUME NEW right \in BOOLEAN, ApiRead(p, r, id, right)
      PROVE  TypeOK'
    BY <1>7, LoadType, ProvedType DEF ApiRead, TypeOK, Place
<1>8. ASSUME NEW right \in BOOLEAN, ApiUpdate(p, r, id, right)
      PROVE  TypeOK'
    <2>1. /\ pc' \in [Handler -> Place]
          /\ req' \in [Handler -> Locals \cup {NoRequest}]
          /\ \A q \in Handler : req'[q] = NoRequest <=> pc'[q] = "idle"
        BY <1>8, LoadType DEF ApiUpdate, TypeOK, Place
    <2> QED
        BY <1>8, <2>1, ProvedType DEF ApiUpdate, TypeOK
<1>9. ASSUME NEW right \in BOOLEAN, Reveal(p, r, id, right)
      PROVE  TypeOK'
    BY <1>9, LoadType, ProvedType DEF Reveal, TypeOK, Place
<1> QED
    BY <1>1, <1>2, <1>3, <1>4, <1>5, <1>6, <1>7, <1>8, <1>9 DEF Request

LEMMA NextType == TypeOK /\ [Next]_vars => TypeOK'
<1> SUFFICES ASSUME TypeOK, [Next]_vars PROVE TypeOK'
    OBVIOUS
<1> USE DEF store, ghosts
<1>1. ASSUME NEW p \in Handler, NEW r \in Reader, NEW id \in PasteId, Request(p, r, id)
      PROVE  TypeOK'
    BY <1>1, RequestType
<1>2. ASSUME NEW p \in Handler, CountView(p)
      PROVE  TypeOK'
    <2>1. req[p].id \in PasteId
        BY <1>2 DEF CountView, TypeOK, Locals
    <2>2. views' \in [PasteId -> Nat]
        BY <1>2, <2>1 DEF CountView, TypeOK
    <2> QED
        BY <1>2, <2>2 DEF CountView, TypeOK, Place
<1>3. ASSUME NEW p \in Handler, Burn(p)
      PROVE  TypeOK'
    <2>1. req[p].id \in PasteId
        BY <1>3 DEF Burn, TypeOK, Locals
    <2> QED
        BY <1>3, <2>1, RemoveType DEF Burn, TypeOK, Place
<1>4. ASSUME NEW p \in Handler, Answer(p) \/ Fail(p)
      PROVE  TypeOK'
    BY <1>4, FinishType DEF Answer, Fail, TypeOK
<1>5. ASSUME NEW r \in Reader, NEW id \in PasteId, Unlock(r, id)
      PROVE  TypeOK'
    <2>1. Claim(id) \in [id: PasteId, exp: Nat]
        BY BoundAssumption, TtlAssumption DEF Claim, TypeOK
    <2>2. jar' \in [Reader -> SUBSET [id: PasteId, exp: Nat]]
        BY <1>5, <2>1 DEF Unlock, TypeOK
    <2> QED
        BY <1>5, <2>2, ProvedType DEF Unlock, TypeOK
<1>6. ASSUME NEW id \in PasteId, Discard(id)
      PROVE  TypeOK'
    BY <1>6, RemoveType DEF Discard, TypeOK
<1>7. ASSUME NEW id \in PasteId, NEW kind \in Kind, Create(id, kind)
      PROVE  TypeOK'
    BY <1>7 DEF Create, TypeOK
<1>8. CASE Tick
    BY <1>8, BoundAssumption DEF Tick, TypeOK
<1>9. CASE UNCHANGED vars
    BY <1>9 DEF vars, TypeOK
<1> QED
    BY <1>1, <1>2, <1>3, <1>4, <1>5, <1>6, <1>7, <1>8, <1>9 DEF Next

(* Whatever the handlers do, the store, the cookies and the locals keep the *)
(* shape the code gives them.                                               *)
THEOREM TypeCorrect == Spec => []TypeOK
BY InitType, NextType, PTL DEF Spec

-----------------------------------------------------------------------------
(* The password.  A request that holds or is about to get the body of an    *)
(* encrypted paste came with its password or with a cookie, and a cookie    *)
(* that opens anything was got with the password no longer than its         *)
(* lifetime ago; later proofs of a reader only replace earlier ones.        *)

Recent(r, id, at) == proof[r][id] \in Nat /\ at < proof[r][id] + UnlockTtl

ProofsPast == \A r \in Reader, id \in PasteId : proof[r][id] \in Nat => proof[r][id] <= now

ClaimsEarned ==
    \A r \in Reader : \A c \in jar[r] :
        proof[r][c.id] \in Nat /\ c.exp <= proof[r][c.id] + UnlockTtl

LocksAsked ==
    \A p \in Handler : pc[p] # "idle" /\ req[p].kind.locked =>
        Recent(req[p].reader, req[p].id, req[p].at)

LockInv == TypeOK /\ ProofsPast /\ ClaimsEarned /\ LocksAsked

LEMMA LockInit == Init => LockInv
<1> SUFFICES ASSUME Init PROVE LockInv
    OBVIOUS
<1> QED
    BY InitType, TtlAssumption DEF Init, LockInv, ProofsPast, ClaimsEarned, LocksAsked

LEMMA LockImplies == LockInv => LockHolds
BY DEF LockInv, LocksAsked, Recent, LockHolds, Holds

(* What is recent stays recent, and what is proved now is.                  *)
LEMMA StillRecent ==
    ASSUME LockInv, NEW r \in Reader, NEW id \in PasteId, NEW right, Proved(r, id, right),
           now' = now
    PROVE  /\ ProofsPast'
           /\ \A q \in Reader, i \in PasteId :
                 /\ proof[q][i] \in Nat => /\ proof'[q][i] \in Nat
                                           /\ proof[q][i] <= proof'[q][i]
                 /\ \A at \in Nat : Recent(q, i, at) => Recent(q, i, at)'
           /\ right /\ paste[id].locked => Recent(r, id, now)'
<1>1. now \in Nat
    BY BoundAssumption DEF LockInv, TypeOK
<1>2. CASE right /\ paste[id].locked
    <2>1. proof' = [proof EXCEPT ![r] = [proof[r] EXCEPT ![id] = now]]
        BY <1>2 DEF Proved
    <2>2. \A q \in Reader, i \in PasteId :
             proof'[q][i] = IF q = r /\ i = id THEN now ELSE proof[q][i]
        BY <2>1 DEF LockInv, TypeOK
    <2> QED
        BY <1>1, <2>2, TtlAssumption DEF LockInv, TypeOK, ProofsPast, Recent
<1>3. CASE ~(right /\ paste[id].locked)
    BY <1>1, <1>3, TtlAssumption DEF Proved, LockInv, TypeOK, ProofsPast, Recent
<1> QED
    BY <1>2, <1>3

(* A reader whom resolve_body lets through has proved the password lately.  *)
LEMMA PlainIsRecent ==
    ASSUME LockInv, NEW r \in Reader, NEW id \in PasteId, paste[id].locked,
           Resolved(r, id) = "plain"
    PROVE  Recent(r, id, now)
<1>1. PICK c \in jar[r] : Opens(c, id)
    BY DEF Resolved
<1>2. c \in [id: PasteId, exp: Nat] /\ now \in Nat
    BY BoundAssumption DEF LockInv, TypeOK
<1> QED
    BY <1>1, <1>2, TtlAssumption DEF LockInv, ClaimsEarned, Opens, Recent

LEMMA ClaimsStay ==
    ASSUME LockInv, NEW r \in Reader, NEW id \in PasteId, NEW right, Proved(r, id, right),
           now' = now, NEW q \in Reader, NEW c \in jar[q]
    PROVE  proof'[q][c.id] \in Nat /\ c.exp <= proof'[q][c.id] + UnlockTtl
<1>1. c \in [id: PasteId, exp: Nat]
    BY DEF LockInv, TypeOK
<1>2. proof[q][c.id] \in Nat /\ c.exp <= proof[q][c.id] + UnlockTtl
    BY DEF LockInv, ClaimsEarned
<1>3. proof'[q][c.id] \in Nat /\ proof[q][c.id] <= proof'[q][c.id]
    BY <1>1, <1>2, StillRecent
<1> QED
    BY <1>1, <1>2, <1>3, TtlAssumption

LEMMA LocalsStay ==
    ASSUME LockInv, NEW r \in Reader, NEW id \in PasteId, NEW right, Proved(r, id, right),
           now' = now, NEW q \in Handler, pc'[q] = pc[q], req'[q] = req[q],
           pc[q] # "idle", req[q].kind.locked
    PROVE  Recent(req[q].reader, req[q].id, req[q].at)'
<1>1. req[q] \in Locals
    BY DEF LockInv, TypeOK
<1>2. PICK rq, i, at : rq = req[q].reader /\ i = req[q].id /\ at = req[q].at
    OBVIOUS
<1>3. rq \in Reader /\ i \in PasteId /\ at \in Nat
    BY <1>1, <1>2 DEF Locals
<1>4. Recent(rq, i, at)
    BY <1>2 DEF LockInv, LocksAsked
<1>5. Recent(rq, i, at)'
    BY <1>3, <1>4, StillRecent
<1> QED
    BY <1>2, <1>5 DEF Recent

(* The password is proved, or not, and nothing is loaded.                   *)
LEMMA ProofAlone ==
    ASSUME LockInv, TypeOK', NEW r \in Reader, NEW id \in PasteId, NEW right,
           Proved(r, id, right), UNCHANGED <<jar, now, pc, req>>
    PROVE  LockInv'
<1>1. ClaimsEarned'
    BY ClaimsStay DEF ClaimsEarned
<1>2. LocksAsked'
    BY LocalsStay DEF LocksAsked
<1> QED
    BY <1>1, <1>2, StillRecent DEF LockInv

(* A load that has asked for the password keeps the invariant.              *)
LEMMA LoadAsked ==
    ASSUME LockInv, TypeOK', NEW p \in Handler, NEW r \in Reader, NEW id \in PasteId,
           NEW place, NEW right, Load(p, r, id, place),
           Proved(r, id, right), UNCHANGED <<jar, now>>,
           paste[id].locked => right \/ Recent(r, id, now)
    PROVE  LockInv'
<1>1. now \in Nat
    BY BoundAssumption DEF LockInv, TypeOK
<1>2. ClaimsEarned'
    BY ClaimsStay DEF ClaimsEarned
<1>3. ASSUME NEW q \in Handler, pc'[q] # "idle", req'[q].kind.locked
      PROVE  Recent(req[q].reader, req[q].id, req[q].at)'
    <2>1. CASE q = p
        <3>1. req'[q] = [id |-> id, reader |-> r, kind |-> paste[id], at |-> now]
            BY <2>1 DEF Load, LockInv, TypeOK
        <3>2. paste[id].locked
            BY <3>1, <1>3
        <3>3. Recent(r, id, now)'
            BY <1>1, <3>2, StillRecent
        <3> QED
            BY <3>1, <3>3 DEF Recent
    <2>2. CASE q # p
        <3>1. req'[q] = req[q] /\ pc'[q] = pc[q]
            BY <2>2 DEF Load, LockInv, TypeOK
        <3> QED
            BY <1>3, <3>1, LocalsStay
    <2> QED
        BY <2>1, <2>2
<1>4. LocksAsked'
    BY <1>3 DEF LocksAsked
<1> QED
    BY <1>2, <1>4, StillRecent DEF LockInv

(* A step that loads nothing and proves nothing.                            *)
LEMMA NothingLoaded ==
    ASSUME LockInv, TypeOK', UNCHANGED <<jar, proof>>, now' \in Nat, now <= now',
           \A q \in Handler : pc'[q] # "idle" => pc[q] # "idle" /\ req'[q] = req[q]
    PROVE  LockInv'
<1>1. now \in Nat
    BY BoundAssumption DEF LockInv, TypeOK
<1>2. ProofsPast'
    BY <1>1 DEF LockInv, ProofsPast, TypeOK
<1>3. ClaimsEarned'
    BY DEF LockInv, ClaimsEarned
<1>4. LocksAsked'
    BY DEF LockInv, LocksAsked, Recent
<1> QED
    BY <1>2, <1>3, <1>4 DEF LockInv

LEMMA LockRequest ==
    ASSUME LockInv, TypeOK', NEW p \in Handler, NEW r \in Reader, NEW id \in PasteId,
           Request(p, r, id)
    PROVE  LockInv'
<1> USE DEF store, ghosts
<1>0. UNCHANGED proof => Proved(r, id, FALSE)
    BY DEF Proved
<1>1. CASE View(p, r, id)
    BY <1>0, <1>1, LoadAsked, PlainIsRecent DEF View
<1>2. CASE Read(p, r, id)
    BY <1>0, <1>2, LoadAsked, PlainIsRecent DEF Read
<1>3. CASE Card(p, r, id)
    BY <1>0, <1>3, LoadAsked DEF Card
<1>4. CASE EditForm(p, r, id)
    BY <1>0, <1>4, LoadAsked, PlainIsRecent DEF EditForm
<1>5. CASE ApiRevisions(p, r, id)
    BY <1>0, <1>5, LoadAsked DEF ApiRevisions
<1>6. CASE ApiDelete(p, r, id)
    <2>1. CASE ApiBody(id, FALSE)
        BY <1>0, <1>6, <2>1, LoadAsked DEF ApiDelete, ApiBody
    <2>2. CASE ~ApiBody(id, FALSE)
        BY <1>6, <2>2, NothingLoaded, BoundAssumption DEF ApiDelete, LockInv, TypeOK
    <2> QED
        BY <2>1, <2>2
<1>7. ASSUME NEW right \in BOOLEAN, ApiRead(p, r, id, right)
      PROVE  LockInv'
    BY <1>7, LoadAsked DEF ApiRead, ApiBody
<1>8. ASSUME NEW right \in BOOLEAN, ApiUpdate(p, r, id, right)
      PROVE  LockInv'
    <2>1. CASE ApiBody(id, right)
        BY <1>8, <2>1, LoadAsked DEF ApiUpdate, ApiBody
    <2>2. CASE ~ApiBody(id, right)
        BY <1>8, <2>2, ProofAlone DEF ApiUpdate
    <2> QED
        BY <2>1, <2>2
<1>9. ASSUME NEW right \in BOOLEAN, Reveal(p, r, id, right)
      PROVE  LockInv'
    BY <1>9, LoadAsked DEF Reveal
<1> QED
    BY <1>1, <1>2, <1>3, <1>4, <1>5, <1>6, <1>7, <1>8, <1>9 DEF Request

LEMMA LockNext == LockInv /\ [Next]_vars => LockInv'
<1> SUFFICES ASSUME LockInv, [Next]_vars PROVE LockInv'
    OBVIOUS
<1>0. TypeOK' /\ now \in Nat
    BY NextType, BoundAssumption DEF LockInv, TypeOK
<1> USE DEF store, ghosts
<1>1. ASSUME NEW p \in Handler, NEW r \in Reader, NEW id \in PasteId, Request(p, r, id)
      PROVE  LockInv'
    BY <1>0, <1>1, LockRequest
<1>2. ASSUME NEW p \in Handler, CountView(p) \/ Burn(p)
      PROVE  LockInv'
    <2>1. \A q \in Handler : pc'[q] # "idle" => pc[q] # "idle" /\ req'[q] = req[q]
        BY <1>2 DEF CountView, Burn, LockInv, TypeOK
    <2> QED
        BY <1>0, <1>2, <2>1, NothingLoaded DEF CountView, Burn
<1>3. ASSUME NEW p \in Handler, Answer(p) \/ Fail(p)
      PROVE  LockInv'
    <2>1. \A q \in Handler : pc'[q] # "idle" => pc[q] # "idle" /\ req'[q] = req[q]
        BY <1>3 DEF Answer, Fail, Finish, LockInv, TypeOK
    <2> QED
        BY <1>0, <1>3, <2>1, NothingLoaded DEF Answer, Fail
<1>4. ASSUME NEW r \in Reader, NEW id \in PasteId, Unlock(r, id)
      PROVE  LockInv'
    <2>1. Proved(r, id, TRUE) /\ now' = now /\ paste[id].locked
        BY <1>4 DEF Unlock
    <2>2. Recent(r, id, now)'
        BY <1>0, <2>1, StillRecent
    <2>3. proof'[r][id] = now
        BY <2>1 DEF Proved, LockInv, TypeOK
    <2>4. ASSUME NEW q \in Reader, NEW c \in jar'[q]
          PROVE  proof'[q][c.id] \in Nat /\ c.exp <= proof'[q][c.id] + UnlockTtl
        <3>1. c \in jar[q] \/ (q = r /\ c = Claim(id))
            BY <1>4 DEF Unlock, LockInv, TypeOK
        <3>2. CASE c \in jar[q]
            BY <2>1, <3>2, ClaimsStay
        <3>3. CASE q = r /\ c = Claim(id)
            BY <1>0, <2>3, <3>3, TtlAssumption DEF Claim
        <3> QED
            BY <3>1, <3>2, <3>3
    <2>5. ClaimsEarned'
        BY <2>4 DEF ClaimsEarned
    <2>6. LocksAsked'
        BY <1>4, <2>1, LocalsStay DEF LocksAsked, Unlock
    <2> QED
        BY <1>0, <2>1, <2>5, <2>6, StillRecent DEF LockInv
<1>5. ASSUME NEW id \in PasteId, Discard(id) \/ \E kind \in Kind : Create(id, kind)
      PROVE  LockInv'
    BY <1>0, <1>5, NothingLoaded DEF Discard, Create
<1>6. CASE Tick
    BY <1>0, <1>6, NothingLoaded DEF Tick
<1>7. CASE UNCHANGED vars
    BY <1>0, <1>7, NothingLoaded DEF vars
<1> QED
    BY <1>1, <1>2, <1>3, <1>4, <1>5, <1>6, <1>7 DEF Next

(* No route hands out the body of an encrypted paste to a reader who has not *)
(* given its password within the cookie's lifetime, and no reveal spends a   *)
(* sealed one without it.                                                    *)
THEOREM LockCorrect == Spec => []LockHolds
BY LockInit, LockNext, LockImplies, PTL DEF Spec

-----------------------------------------------------------------------------
(* The seal.  A row keeps its flags and a deleted one never comes back.      *)

SealsAsked ==
    \A p \in Handler :
        /\ pc[p] \in {"count", "page"} /\ req[p].kind.burn => req[p].reader \in Author
        /\ pc[p] = "burned" => paste[req[p].id] = Gone

SealInv == TypeOK /\ SealsAsked

LEMMA SealInit == Init => SealInv
BY InitType DEF Init, SealInv, SealsAsked

LEMMA SealImplies == SealInv => SealHolds
BY DEF SealInv, SealsAsked, SealHolds, Holds

LEMMA LoadUnsealed ==
    ASSUME SealInv, TypeOK', NEW p \in Handler, NEW r \in Reader, NEW id \in PasteId,
           NEW place \in {"count", "page", "burn"}, Load(p, r, id, place),
           \A i \in PasteId : paste[i] = Gone => paste'[i] = Gone,
           place # "burn" /\ paste[id].burn => r \in Author
    PROVE  SealInv'
<1> SUFFICES ASSUME NEW q \in Handler
             PROVE  /\ pc'[q] \in {"count", "page"} /\ req'[q].kind.burn
                       => req'[q].reader \in Author
                    /\ pc'[q] = "burned" => paste'[req'[q].id] = Gone
    BY DEF SealInv, SealsAsked
<1>1. CASE q = p
    <2>1. /\ req'[q] = [id |-> id, reader |-> r, kind |-> paste[id], at |-> now]
          /\ pc'[q] = place
        BY <1>1 DEF Load, SealInv, TypeOK
    <2> QED
        BY <2>1
<1>2. CASE q # p
    <2>1. req'[q] = req[q] /\ pc'[q] = pc[q]
        BY <1>2 DEF Load, SealInv, TypeOK
    <2>2. pc[q] = "burned" => req[q].id \in PasteId
        BY DEF SealInv, TypeOK, Locals
    <2> QED
        BY <2>1, <2>2 DEF SealInv, SealsAsked
<1> QED
    BY <1>1, <1>2

(* A step that loads nothing and brings nothing back.                       *)
LEMMA NothingHeld ==
    ASSUME SealInv, TypeOK',
           \A i \in PasteId : paste[i] = Gone => paste'[i] = Gone,
           \A q \in Handler : pc'[q] = "idle" \/ (pc'[q] = pc[q] /\ req'[q] = req[q])
    PROVE  SealInv'
<1>1. \A q \in Handler : pc[q] = "burned" => req[q].id \in PasteId
    BY DEF SealInv, TypeOK, Locals
<1> QED
    BY <1>1 DEF SealInv, SealsAsked

LEMMA RemoveGone ==
    ASSUME TypeOK, NEW id \in PasteId, Remove(id)
    PROVE  /\ paste'[id] = Gone
           /\ \A i \in PasteId : paste[i] = Gone => paste'[i] = Gone
BY DEF TypeOK, Remove

LEMMA SealRequest ==
    ASSUME SealInv, TypeOK', NEW p \in Handler, NEW r \in Reader, NEW id \in PasteId,
           Request(p, r, id)
    PROVE  SealInv'
<1> USE DEF store, ghosts
<1>1. CASE View(p, r, id)
    BY <1>1, LoadUnsealed DEF View, Resolved
<1>2. CASE Read(p, r, id)
    BY <1>2, LoadUnsealed DEF Read, Resolved
<1>3. CASE Card(p, r, id)
    BY <1>3, LoadUnsealed DEF Card
<1>4. CASE EditForm(p, r, id)
    BY <1>4, LoadUnsealed DEF EditForm
<1>5. CASE ApiRevisions(p, r, id)
    BY <1>5, LoadUnsealed DEF ApiRevisions
<1>6. CASE ApiDelete(p, r, id)
    <2>1. \A i \in PasteId : paste[i] = Gone => paste'[i] = Gone
        BY <1>6, RemoveGone DEF ApiDelete, SealInv
    <2>2. CASE ApiBody(id, FALSE)
        BY <1>6, <2>1, <2>2, LoadUnsealed DEF ApiDelete
    <2>3. CASE ~ApiBody(id, FALSE)
        BY <1>6, <2>1, <2>3, NothingHeld DEF ApiDelete
    <2> QED
        BY <2>2, <2>3
<1>7. ASSUME NEW right \in BOOLEAN, ApiRead(p, r, id, right)
      PROVE  SealInv'
    BY <1>7, LoadUnsealed DEF ApiRead, ApiBody
<1>8. ASSUME NEW right \in BOOLEAN, ApiUpdate(p, r, id, right)
      PROVE  SealInv'
    <2>1. CASE ApiBody(id, right)
        BY <1>8, <2>1, LoadUnsealed DEF ApiUpdate, ApiBody
    <2>2. CASE ~ApiBody(id, right)
        BY <1>8, <2>2, NothingHeld DEF ApiUpdate
    <2> QED
        BY <2>1, <2>2
<1>9. ASSUME NEW right \in BOOLEAN, Reveal(p, r, id, right)
      PROVE  SealInv'
    BY <1>9, LoadUnsealed DEF Reveal
<1> QED
    BY <1>1, <1>2, <1>3, <1>4, <1>5, <1>6, <1>7, <1>8, <1>9 DEF Request

LEMMA SealNext == SealInv /\ [Next]_vars => SealInv'
<1> SUFFICES ASSUME SealInv, [Next]_vars PROVE SealInv'
    OBVIOUS
<1>0. TypeOK'
    BY NextType DEF SealInv
<1> USE DEF store, ghosts
<1>1. ASSUME NEW p \in Handler, NEW r \in Reader, NEW id \in PasteId, Request(p, r, id)
      PROVE  SealInv'
    BY <1>0, <1>1, SealRequest
<1>2. ASSUME NEW p \in Handler, CountView(p)
      PROVE  SealInv'
    BY <1>0, <1>2 DEF CountView, SealInv, SealsAsked, TypeOK
<1>3. ASSUME NEW p \in Handler, Burn(p)
      PROVE  SealInv'
    <2>1. req[p].id \in PasteId
        BY <1>3 DEF Burn, SealInv, TypeOK, Locals
    <2>2. /\ paste'[req[p].id] = Gone
          /\ \A i \in PasteId : paste[i] = Gone => paste'[i] = Gone
        BY <1>3, <2>1, RemoveGone DEF Burn, SealInv
    <2>3. \A q \in Handler : pc[q] = "burned" => req[q].id \in PasteId
        BY DEF SealInv, TypeOK, Locals
    <2> QED
        BY <1>0, <1>3, <2>2, <2>3 DEF Burn, SealInv, SealsAsked, TypeOK
<1>4. ASSUME NEW p \in Handler, Answer(p) \/ Fail(p)
      PROVE  SealInv'
    <2>1. \A q \in Handler : pc'[q] = "idle" \/ (pc'[q] = pc[q] /\ req'[q] = req[q])
        BY <1>4 DEF Answer, Fail, Finish, SealInv, TypeOK
    <2> QED
        BY <1>0, <1>4, <2>1, NothingHeld DEF Answer, Fail
<1>5. ASSUME NEW r \in Reader, NEW id \in PasteId, Unlock(r, id)
      PROVE  SealInv'
    BY <1>0, <1>5, NothingHeld DEF Unlock
<1>6. ASSUME NEW id \in PasteId, Discard(id)
      PROVE  SealInv'
    BY <1>0, <1>6, RemoveGone, NothingHeld DEF Discard, SealInv
<1>7. ASSUME NEW id \in PasteId, NEW kind \in Kind, Create(id, kind)
      PROVE  SealInv'
    <2>1. \A i \in PasteId : paste[i] = Gone => paste'[i] = Gone
        BY <1>7, StatusAssumption DEF Create, SealInv, TypeOK
    <2> QED
        BY <1>0, <1>7, <2>1, NothingHeld DEF Create
<1>8. CASE Tick
    BY <1>0, <1>8, NothingHeld DEF Tick
<1>9. CASE UNCHANGED vars
    BY <1>0, <1>9, NothingHeld DEF vars
<1> QED
    BY <1>1, <1>2, <1>3, <1>4, <1>5, <1>6, <1>7, <1>8, <1>9 DEF Next

(* No route hands out the body of a sealed paste to a reader who may not     *)
(* modify it, unless it has burned the paste first.                          *)
THEOREM SealCorrect == Spec => []SealHolds
BY SealInit, SealNext, SealImplies, PTL DEF Spec

-----------------------------------------------------------------------------
(* The counter.  Who is about to count has let its reader through; of a     *)
(* paste that is gone nothing is left to count.                             *)

Counting(id) == {p \in Handler : pc[p] = "count" /\ req[p].id = id}

ReadsInv ==
    /\ TypeOK
    /\ \A id \in PasteId :
          paste[id] # Gone => views[id] + Cardinality(Counting(id)) <= opened[id]

LEMMA CountingFinite ==
    \A id : IsFiniteSet(Counting(id)) /\ Cardinality(Counting(id)) \in Nat
<1> SUFFICES ASSUME NEW id PROVE IsFiniteSet(Counting(id)) /\ Cardinality(Counting(id)) \in Nat
    OBVIOUS
<1>1. Counting(id) \subseteq Handler
    BY DEF Counting
<1> QED
    BY <1>1, HandlerAssumption, FS_Subset, FS_CardinalityType

LEMMA CountingShrinks ==
    ASSUME NEW id, Counting(id)' \subseteq Counting(id)
    PROVE  /\ Cardinality(Counting(id)') <= Cardinality(Counting(id))
           /\ Cardinality(Counting(id)') \in Nat
BY CountingFinite, FS_Subset, FS_CardinalityType

(* The steps that neither open a paste nor count.                           *)
LEMMA ReadsKept ==
    ASSUME ReadsInv, TypeOK',
           \A id \in PasteId : paste'[id] # Gone =>
               /\ paste[id] # Gone /\ views'[id] = views[id] /\ opened'[id] = opened[id]
               /\ Counting(id)' \subseteq Counting(id)
    PROVE  ReadsInv'
<1> SUFFICES ASSUME NEW id \in PasteId, paste'[id] # Gone
             PROVE  views'[id] + Cardinality(Counting(id)') <= opened'[id]
    BY DEF ReadsInv
<1>1. /\ paste[id] # Gone /\ views'[id] = views[id] /\ opened'[id] = opened[id]
      /\ Counting(id)' \subseteq Counting(id)
    OBVIOUS
<1>2. /\ Cardinality(Counting(id)') <= Cardinality(Counting(id))
      /\ Cardinality(Counting(id)') \in Nat /\ Cardinality(Counting(id)) \in Nat
    BY <1>1, CountingShrinks, CountingFinite
<1>3. views[id] \in Nat /\ opened[id] \in Nat
    BY DEF ReadsInv, TypeOK
<1>4. views[id] + Cardinality(Counting(id)) <= opened[id]
    BY <1>1 DEF ReadsInv
<1> QED
    BY <1>1, <1>2, <1>3, <1>4

(* A request that goes elsewhere than to the counter counts nothing.        *)
LEMMA LoadElsewhere ==
    ASSUME TypeOK, NEW p \in Handler, NEW r, NEW i, NEW place, place # "count", Load(p, r, i, place)
    PROVE  \A id : Counting(id)' \subseteq Counting(id)
BY DEF Load, Counting, TypeOK

LEMMA RemoveKeeps ==
    ASSUME TypeOK, NEW i \in PasteId, Remove(i)
    PROVE  \A id \in PasteId : paste'[id] # Gone =>
               paste[id] # Gone /\ views'[id] = views[id] /\ opened'[id] = opened[id]
BY DEF Remove, TypeOK

LEMMA ViewReads ==
    ASSUME ReadsInv, TypeOK', NEW p \in Handler, NEW r, NEW i \in PasteId, View(p, r, i)
    PROVE  ReadsInv'
<1> SUFFICES ASSUME NEW id \in PasteId, paste'[id] # Gone
             PROVE  views'[id] + Cardinality(Counting(id)') <= opened'[id]
    BY DEF ReadsInv
<1>1. /\ pc[p] = "idle" /\ pc' = [pc EXCEPT ![p] = "count"]
      /\ req' = [req EXCEPT ![p] = [id |-> i, reader |-> r, kind |-> paste[i], at |-> now]]
      /\ opened' = [opened EXCEPT ![i] = @ + 1] /\ views' = views /\ paste' = paste
    BY DEF View, Load, store
<1>2. /\ pc \in [Handler -> Place] /\ req \in [Handler -> Locals \cup {NoRequest}]
      /\ views[id] \in Nat /\ opened \in [PasteId -> Nat]
    BY DEF ReadsInv, TypeOK
<1>3. views[id] + Cardinality(Counting(id)) <= opened[id]
    BY <1>1 DEF ReadsInv
<1>4. Cardinality(Counting(id)) \in Nat /\ IsFiniteSet(Counting(id))
    BY CountingFinite
<1>5. /\ pc'[p] = "count" /\ req'[p].id = i
      /\ \A q \in Handler : q # p => pc'[q] = pc[q] /\ req'[q] = req[q]
    BY <1>1, <1>2
<1>6. CASE id = i
    <2>1. Counting(id)' = Counting(id) \cup {p} /\ p \notin Counting(id)
        BY <1>1, <1>5, <1>6 DEF Counting
    <2>2. Cardinality(Counting(id)') = Cardinality(Counting(id)) + 1
        BY <1>4, <2>1, FS_AddElement
    <2> QED
        BY <1>1, <1>2, <1>3, <1>4, <1>6, <2>2
<1>7. CASE id # i
    <2>1. Counting(id)' = Counting(id)
        BY <1>1, <1>5, <1>7 DEF Counting
    <2> QED
        BY <1>1, <1>2, <1>3, <1>7, <2>1
<1> QED
    BY <1>6, <1>7

LEMMA CountReads ==
    ASSUME ReadsInv, TypeOK', NEW p \in Handler, CountView(p)
    PROVE  ReadsInv'
<1> DEFINE i == req[p].id
<1>1. /\ pc[p] = "count" /\ pc' = [pc EXCEPT ![p] = "page"]
      /\ req' = req /\ opened' = opened /\ paste' = paste
      /\ views' = IF Live(i) THEN [views EXCEPT ![i] = @ + 1] ELSE views
    BY DEF CountView, ghosts
<1>2. /\ pc \in [Handler -> Place] /\ views \in [PasteId -> Nat] /\ opened \in [PasteId -> Nat]
      /\ i \in PasteId
    BY <1>1 DEF ReadsInv, TypeOK, Locals
<1>3. pc'[p] = "page" /\ \A q \in Handler : q # p => pc'[q] = pc[q]
    BY <1>1, <1>2
<1>4. \A id : Counting(id)' \subseteq Counting(id)
    BY <1>1, <1>3 DEF Counting
<1>5. CASE ~Live(i)
    BY <1>1, <1>4, <1>5, ReadsKept
<1>6. CASE Live(i)
    <2> SUFFICES ASSUME NEW id \in PasteId, paste'[id] # Gone
                 PROVE  views'[id] + Cardinality(Counting(id)') <= opened'[id]
        BY DEF ReadsInv
    <2>1. views[id] + Cardinality(Counting(id)) <= opened[id]
        BY <1>1 DEF ReadsInv
    <2>2. Cardinality(Counting(id)) \in Nat /\ IsFiniteSet(Counting(id))
        BY CountingFinite
    <2>3. CASE id = i
        <3>1. Counting(id)' = Counting(id) \ {p} /\ p \in Counting(id)
            BY <1>1, <1>3, <2>3 DEF Counting
        <3>2. Cardinality(Counting(id)') = Cardinality(Counting(id)) - 1
            BY <2>2, <3>1, FS_RemoveElement
        <3>3. views'[id] = views[id] + 1
            BY <1>1, <1>2, <1>6, <2>3
        <3> QED
            BY <1>1, <1>2, <2>1, <2>2, <3>2, <3>3
    <2>4. CASE id # i
        <3>1. Cardinality(Counting(id)') <= Cardinality(Counting(id)) /\ Cardinality(Counting(id)') \in Nat
            BY <1>4, CountingShrinks
        <3>2. views'[id] = views[id]
            BY <1>1, <1>2, <1>6, <2>4
        <3> QED
            BY <1>1, <1>2, <2>1, <2>2, <3>1, <3>2
    <2> QED
        BY <2>3, <2>4
<1> QED
    BY <1>5, <1>6

LEMMA ReadsRequest ==
    ASSUME ReadsInv, TypeOK', NEW p \in Handler, NEW r \in Reader, NEW id \in PasteId,
           Request(p, r, id)
    PROVE  ReadsInv'
<1>0. TypeOK
    BY DEF ReadsInv
<1> USE DEF store, ghosts
<1>1. CASE View(p, r, id)
    BY <1>1, ViewReads
<1>2. CASE Read(p, r, id)
    BY <1>0, <1>2, LoadElsewhere, ReadsKept DEF Read
<1>3. CASE Card(p, r, id)
    BY <1>0, <1>3, LoadElsewhere, ReadsKept DEF Card
<1>4. CASE EditForm(p, r, id)
    BY <1>0, <1>4, LoadElsewhere, ReadsKept DEF EditForm
<1>5. CASE ApiRevisions(p, r, id)
    BY <1>0, <1>5, LoadElsewhere, ReadsKept DEF ApiRevisions
<1>6. CASE ApiDelete(p, r, id)
    <2>1. \A i : Counting(i)' \subseteq Counting(i)
        <3>1. CASE UNCHANGED <<pc, req>>
            BY <3>1 DEF Counting
        <3>2. CASE Load(p, r, id, "page")
            BY <1>0, <3>2, LoadElsewhere
        <3> QED
            BY <1>6, <3>1, <3>2 DEF ApiDelete
    <2> QED
        BY <1>0, <1>6, <2>1, RemoveKeeps, ReadsKept DEF ApiDelete
<1>7. ASSUME NEW right \in BOOLEAN, ApiRead(p, r, id, right)
      PROVE  ReadsInv'
    BY <1>0, <1>7, LoadElsewhere, ReadsKept DEF ApiRead
<1>8. ASSUME NEW right \in BOOLEAN, ApiUpdate(p, r, id, right)
      PROVE  ReadsInv'
    <2>1. \A i : Counting(i)' \subseteq Counting(i)
        <3>1. CASE UNCHANGED <<pc, req>>
            BY <3>1 DEF Counting
        <3>2. CASE Load(p, r, id, "page")
            BY <1>0, <3>2, LoadElsewhere
        <3> QED
            BY <1>8, <3>1, <3>2 DEF ApiUpdate
    <2> QED
        BY <1>8, <2>1, ReadsKept DEF ApiUpdate
<1>9. ASSUME NEW right \in BOOLEAN, Reveal(p, r, id, right)
      PROVE  ReadsInv'
    BY <1>0, <1>9, LoadElsewhere, ReadsKept DEF Reveal
<1> QED
    BY <1>1, <1>2, <1>3, <1>4, <1>5, <1>6, <1>7, <1>8, <1>9 DEF Request

LEMMA ReadsNext == ReadsInv /\ [Next]_vars => ReadsInv'
<1> SUFFICES ASSUME ReadsInv, [Next]_vars PROVE ReadsInv'
    OBVIOUS
<1>0. TypeOK /\ TypeOK'
    BY NextType DEF ReadsInv
<1> USE DEF store, ghosts
<1>1. ASSUME NEW p \in Handler, NEW r \in Reader, NEW id \in PasteId, Request(p, r, id)
      PROVE  ReadsInv'
    BY <1>0, <1>1, ReadsRequest
<1>2. ASSUME NEW p \in Handler, CountView(p)
      PROVE  ReadsInv'
    BY <1>0, <1>2, CountReads
<1>3. ASSUME NEW p \in Handler, Burn(p)
      PROVE  ReadsInv'
    <2>1. req[p].id \in PasteId
        BY <1>0, <1>3 DEF Burn, TypeOK, Locals
    <2>2. \A i : Counting(i)' \subseteq Counting(i)
        BY <1>0, <1>3 DEF Burn, Counting, TypeOK
    <2> QED
        BY <1>0, <1>3, <2>1, <2>2, RemoveKeeps, ReadsKept DEF Burn
<1>4. ASSUME NEW p \in Handler, Answer(p) \/ Fail(p)
      PROVE  ReadsInv'
    <2>1. \A i : Counting(i)' \subseteq Counting(i)
        BY <1>0, <1>4 DEF Answer, Fail, Finish, Counting, TypeOK
    <2> QED
        BY <1>0, <1>4, <2>1, ReadsKept DEF Answer, Fail
<1>5. ASSUME NEW r \in Reader, NEW id \in PasteId, Unlock(r, id)
      PROVE  ReadsInv'
    BY <1>0, <1>5, ReadsKept DEF Unlock, Counting
<1>6. ASSUME NEW id \in PasteId, Discard(id)
      PROVE  ReadsInv'
    <2>1. \A i : Counting(i)' \subseteq Counting(i)
        BY <1>6 DEF Discard, Counting
    <2> QED
        BY <1>0, <1>6, <2>1, RemoveKeeps, ReadsKept DEF Discard
<1>7. ASSUME NEW id \in PasteId, NEW kind \in Kind, Create(id, kind)
      PROVE  ReadsInv'
    <2>1. \A i : Counting(i)' \subseteq Counting(i)
        BY <1>7 DEF Create, Counting
    <2>2. \A i \in PasteId : paste'[i] # Gone => paste[i] # Gone
        BY <1>0, <1>7, StatusAssumption DEF Create, TypeOK
    <2> QED
        BY <1>0, <1>7, <2>1, <2>2, ReadsKept DEF Create
<1>8. CASE Tick
    BY <1>0, <1>8, ReadsKept DEF Tick, Counting
<1>9. CASE UNCHANGED vars
    BY <1>0, <1>9, ReadsKept DEF vars, Counting
<1> QED
    BY <1>1, <1>2, <1>3, <1>4, <1>5, <1>6, <1>7, <1>8, <1>9 DEF Next

(* A locked or sealed paste is never counted as read: however many count     *)
(* together, the counter is at most the bodies the viewer has let through.   *)
THEOREM ReadsCorrect == Spec => []ViewsAreReads
<1>1. Init => ReadsInv
    <2> SUFFICES ASSUME Init PROVE ReadsInv
        OBVIOUS
    <2>1. \A id \in PasteId : Counting(id) = {} /\ views[id] = 0 /\ opened[id] = 0
        BY DEF Init, Counting
    <2> QED
        BY <2>1, InitType, FS_EmptySet DEF ReadsInv
<1>2. ReadsInv => ViewsAreReads
    BY StatusAssumption DEF ReadsInv, ViewsAreReads, Counting, Live
<1> QED
    BY <1>1, <1>2, ReadsNext, PTL DEF Spec
=============================================================================
