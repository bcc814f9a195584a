------------------------------ MODULE PasteProof ------------------------------
(***************************************************************************)
(* Theorems about Paste, for every number of handlers, pastes, accounts    *)
(* and bodies, and every limit and lifetime.                               *)
(***************************************************************************)
EXTENDS Paste, FiniteSetTheorems, TLAPS

LEMMA NewRowFields ==
    ASSUME NEW owner, NEW body, NEW burn, NEW expires, NEW parent
    PROVE  LET row == NewRow(owner, body, burn, expires, parent) IN
           /\ row.owner = owner /\ row.body = body /\ row.burn = burn
           /\ row.expires = expires /\ row.parent = parent
BY DEF NewRow

LEMMA RowChanges ==
    ASSUME NEW row \in Row
    PROVE  /\ Orphan(row) \in Row
           /\ Orphan(row).owner = row.owner /\ Orphan(row).body = row.body
           /\ Orphan(row).burn = row.burn /\ Orphan(row).expires = row.expires
           /\ \A body \in Body, expires \in Nat \cup {Never} :
                 Edited(row, body, expires) \in Row
BY BoundAssumption DEF Row, Orphan, Edited, NewRow, NoParent

LEMMA BlankType == SomeBody \in Body /\ BlankRow \in Row /\ Blank \in Locals
<1>1. SomeBody \in Body
  BY BodyAssumption DEF SomeBody
<1>2. BlankRow \in Row
  BY <1>1, BoundAssumption DEF BlankRow, NewRow, Row, Author, NoParent
<1> QED BY <1>1, <1>2, BoundAssumption DEF Blank, Ask, Locals, PasteId

LEMMA ExpiryType ==
    ASSUME now \in Nat, NEW asked \in Asked \cup {Never}, NEW owner
    PROVE  /\ Expiry(asked, owner) \in Nat \cup {Never}
           /\ owner = Stranger => /\ Expiry(asked, owner) # Never
                                  /\ Expiry(asked, owner) <= now + AnonymousTtl
<1> DEFINE lifetime == IF owner # Stranger THEN asked
                       ELSE IF asked = Never THEN AnonymousTtl
                       ELSE Least(asked, AnonymousTtl)
<1>1. asked = Never \/ asked \in Nat
  BY TtlAssumption
<1>2. CASE owner # Stranger /\ asked = Never
  BY <1>2 DEF Expiry
<1>3. CASE ~(owner # Stranger /\ asked = Never)
  <2>1. lifetime \in Nat /\ (owner = Stranger => lifetime <= AnonymousTtl)
    BY <1>1, <1>3, TtlAssumption DEF Least
  <2>2. Expiry(asked, owner) = now + Least(MaxTtl, lifetime)
    BY <1>3 DEF Expiry
  <2> HIDE DEF lifetime
  <2>3. Least(MaxTtl, lifetime) \in Nat /\ Least(MaxTtl, lifetime) <= lifetime
    BY <2>1, TtlAssumption DEF Least
  <2>4. Expiry(asked, owner) \in Nat
    BY <2>2, <2>3
  <2>5. Expiry(asked, owner) # Never
    BY <2>4, TtlAssumption
  <2>6. owner = Stranger => Expiry(asked, owner) <= now + AnonymousTtl
    BY <2>1, <2>2, <2>3, TtlAssumption
  <2> QED BY <2>4, <2>5, <2>6
<1> QED BY <1>2, <1>3

(* What a DELETE leaves behind. *)
LEMMA RemoveFacts ==
    ASSUME TypeOK, NEW ids \in SUBSET PasteId, Remove(ids)
    PROVE  /\ paste' \in [PasteId -> Row \cup {NoPaste}]
           /\ revisions' \in [PasteId -> Seq(Body)]
           /\ past' \in [PasteId -> SUBSET Body]
           /\ minted' = minted
           /\ \A id \in PasteId : Live(id)' <=> Live(id) /\ id \notin ids
           /\ \A id \in PasteId : Live(id)' =>
                 /\ paste'[id].owner = paste[id].owner
                 /\ paste'[id].body = paste[id].body
                 /\ paste'[id].expires = paste[id].expires
                 /\ revisions'[id] = revisions[id] /\ past'[id] = past[id]
           /\ \A id \in PasteId : ~Live(id)' =>
                 \/ revisions'[id] = <<>> /\ past'[id] = {}
                 \/ ~Live(id) /\ revisions'[id] = revisions[id] /\ past'[id] = past[id]
<1> USE DEF TypeOK
<1>1. \A id \in PasteId : Live(id) => paste[id] \in Row
  BY DEF Live
<1>2. \A id \in PasteId : Live(id) => Orphan(paste[id]) \in Row
  BY <1>1, RowChanges
<1>3. paste' \in [PasteId -> Row \cup {NoPaste}]
  BY <1>1, <1>2 DEF Remove
<1>4. revisions' \in [PasteId -> Seq(Body)] /\ past' \in [PasteId -> SUBSET Body]
  BY DEF Remove
<1>5. \A id \in PasteId : Live(id)' <=> Live(id) /\ id \notin ids
  <2> TAKE id \in PasteId
  <2>1. Live(id) => Orphan(paste[id]) # NoPaste
    BY <1>2, RowAssumption
  <2> QED BY <2>1 DEF Remove, Live
<1>6. ASSUME NEW id \in PasteId, Live(id)'
      PROVE  /\ paste'[id].owner = paste[id].owner
             /\ paste'[id].body = paste[id].body
             /\ paste'[id].expires = paste[id].expires
             /\ revisions'[id] = revisions[id] /\ past'[id] = past[id]
  <2>1. Live(id) /\ id \notin ids
    BY <1>5, <1>6
  <2>2. paste'[id] = paste[id] \/ paste'[id] = Orphan(paste[id])
    BY <2>1 DEF Remove
  <2>3. revisions'[id] = revisions[id] /\ past'[id] = past[id]
    BY <2>1 DEF Remove
  <2> QED BY <2>1, <2>2, <2>3, <1>1, RowChanges
<1>7. ASSUME NEW id \in PasteId, ~Live(id)'
      PROVE  \/ revisions'[id] = <<>> /\ past'[id] = {}
             \/ ~Live(id) /\ revisions'[id] = revisions[id] /\ past'[id] = past[id]
  BY <1>5, <1>7 DEF Remove
<1>8. minted' = minted
  BY DEF Remove
<1> QED BY <1>3, <1>4, <1>5, <1>6, <1>7, <1>8

-----------------------------------------------------------------------------
(* Types *)

LEMMA AskType ==
    ASSUME NEW id \in PasteId, NEW was \in Body, NEW row \in Row
    PROVE  /\ Ask(id, was, row) \in Locals
           /\ Ask(id, was, row).id = id /\ Ask(id, was, row).was = was
           /\ Ask(id, was, row).row = row
BY DEF Ask, Locals

LEMMA FirstId == 1 \in PasteId
BY BoundAssumption DEF PasteId

(* The two ways in which a step of a handler moves it. *)
LEMMA StartType ==
    ASSUME TypeOK, NEW p \in Handler, NEW place \in Place, NEW r \in Locals,
           Start(p, place, r)
    PROVE  pc' \in [Handler -> Place] /\ req' \in [Handler -> Locals]
BY DEF TypeOK, Start

LEMMA FinishType ==
    ASSUME TypeOK, NEW p \in Handler, NEW from, Finish(p, from)
    PROVE  pc' \in [Handler -> Place] /\ req' \in [Handler -> Locals]
BY BlankType DEF TypeOK, Finish, Goto, Place

LEMMA LiveRow ==
    ASSUME TypeOK, NEW id \in PasteId, Live(id)
    PROVE  /\ paste[id] \in Row /\ paste[id].owner \in Author /\ paste[id].body \in Body
           /\ paste[id].expires \in Nat \cup {Never} /\ paste[id].burn \in BOOLEAN
BY DEF TypeOK, Live, Row

LEMMA ReqFields ==
    ASSUME TypeOK, NEW p \in Handler
    PROVE  /\ req[p] \in Locals /\ req[p].id \in PasteId /\ req[p].was \in Body
           /\ req[p].row \in Row /\ req[p].row.owner \in Author
           /\ req[p].row.body \in Body /\ req[p].row.expires \in Nat \cup {Never}
BY DEF TypeOK, Locals, Row

LEMMA InitType == Init => TypeOK
<1> SUFFICES ASSUME Init PROVE TypeOK
  OBVIOUS
<1>1. req \in [Handler -> Locals]
  BY BlankType DEF Init
<1>2. revisions \in [PasteId -> Seq(Body)]
  BY DEF Init
<1>3. now \in 0..MaxTime /\ minted \in 0..MaxPaste
  BY BoundAssumption DEF Init
<1>4. missed \in [Account -> 0..MaxMiss]
  BY BoundAssumption DEF Init
<1> QED BY <1>1, <1>2, <1>3, <1>4 DEF Init, TypeOK, Place

LEMMA AdmittedType ==
    ASSUME TypeOK, NEW by, NEW body, Admitted(by, body)
    PROVE  /\ missed' \in [Account -> 0..MaxMiss]
           /\ \A a \in Account : missed[a] <= missed'[a]
<1>1. CASE missed' = missed
  <2>1. \A a \in Account : missed[a] \in 0..MaxMiss
    BY DEF TypeOK
  <2> QED BY <1>1, <2>1, BoundAssumption DEF TypeOK
<1>2. CASE missed' # missed
  <2>1. /\ by \in Account /\ missed[by] < MaxMiss
        /\ missed' = [missed EXCEPT ![by] = @ + 1]
    BY <1>2 DEF Admitted
  <2>2. missed[by] + 1 \in 0..MaxMiss
    BY <2>1, BoundAssumption DEF TypeOK
  <2>3. \A a \in Account : missed[a] \in 0..MaxMiss
    BY DEF TypeOK
  <2> QED BY <2>1, <2>2, <2>3, BoundAssumption DEF TypeOK
<1> QED BY <1>1, <1>2

LEMMA CreateType ==
    ASSUME TypeOK, NEW p \in Handler, NEW by \in Author, NEW body \in Body,
           NEW burn \in BOOLEAN, NEW asked \in Asked, Create(p, by, body, burn, asked)
    PROVE  TypeOK'
<1> DEFINE row == NewRow(by, body, burn, Expiry(asked, by), NoParent)
<1>1. Expiry(asked, by) \in Nat \cup {Never}
  BY ExpiryType, BoundAssumption DEF TypeOK
<1>2. row \in Row
  BY <1>1, BoundAssumption DEF NewRow, Row, NoParent
<1> HIDE DEF row
<1>3. Ask(1, SomeBody, row) \in Locals
  BY <1>2, AskType, BlankType, FirstId
<1>4. Start(p, "insert", Ask(1, SomeBody, row))
  BY DEF Create, row
<1>5. pc' \in [Handler -> Place] /\ req' \in [Handler -> Locals]
  BY <1>3, <1>4, StartType DEF Place
<1>6. missed' \in [Account -> 0..MaxMiss]
  BY AdmittedType DEF Create
<1> QED BY <1>5, <1>6 DEF Create, TypeOK, tables

LEMMA ForkType ==
    ASSUME TypeOK, NEW p \in Handler, NEW by \in Author, NEW id \in PasteId, Fork(p, by, id)
    PROVE  TypeOK' /\ shown' = shown
<1> DEFINE row == NewRow(by, paste[id].body, FALSE, Never, id)
<1>1. Live(id) /\ ~paste[id].burn
  BY DEF Fork, Loaded, Readable
<1>2. row \in Row
  BY <1>1, LiveRow, BoundAssumption DEF NewRow, Row, PasteId
<1> HIDE DEF row
<1>3. Ask(1, SomeBody, row) \in Locals
  BY <1>2, AskType, BlankType, FirstId
<1>4. Start(p, "check", Ask(1, SomeBody, row))
  BY DEF Fork, row
<1>5. pc' \in [Handler -> Place] /\ req' \in [Handler -> Locals]
  BY <1>3, <1>4, StartType DEF Place
<1>6. shown' = shown
  BY <1>1 DEF Fork, TypeOK
<1> QED BY <1>5, <1>6 DEF Fork, TypeOK, tables

LEMMA ForkCheckType ==
    ASSUME TypeOK, NEW p \in Handler, ForkCheck(p)
    PROVE  /\ TypeOK'
           /\ req' = [req EXCEPT ![p] = Ask(1, SomeBody,
                         Edited(req[p].row, req[p].row.body, Expiry(Never, req[p].row.owner)))]
           /\ Edited(req[p].row, req[p].row.body, Expiry(Never, req[p].row.owner)) \in Row
<1> DEFINE row == Edited(req[p].row, req[p].row.body, Expiry(Never, req[p].row.owner))
<1>0. now \in Nat /\ Never \in Asked \cup {Never}
  BY BoundAssumption DEF TypeOK
<1>1. Expiry(Never, req[p].row.owner) \in Nat \cup {Never}
  BY <1>0, ExpiryType
<1>2. row \in Row
  BY <1>1, ReqFields, RowChanges
<1>3. req' = [req EXCEPT ![p] = Ask(1, SomeBody, row)]
  BY DEF ForkCheck
<1> HIDE DEF row
<1>4. Ask(1, SomeBody, row) \in Locals
  BY <1>2, AskType, BlankType, FirstId
<1>5. pc' \in [Handler -> Place] /\ req' \in [Handler -> Locals]
  BY <1>3, <1>4 DEF ForkCheck, Goto, TypeOK, Place
<1>6. missed' \in [Account -> 0..MaxMiss]
  BY AdmittedType DEF ForkCheck
<1>7. TypeOK'
  BY <1>5, <1>6 DEF ForkCheck, TypeOK, tables
<1> QED BY <1>2, <1>3, <1>7 DEF row

LEMMA InsertType ==
    ASSUME TypeOK, NEW p \in Handler, Insert(p)
    PROVE  TypeOK'
<1>1. minted + 1 \in PasteId /\ minted' = minted + 1
  BY DEF Insert
<1>2. minted' \in 0..MaxPaste
  BY <1>1, BoundAssumption DEF PasteId, TypeOK
<1>3. pc' \in [Handler -> Place] /\ req' \in [Handler -> Locals]
  BY FinishType DEF Insert
<1>4. paste' \in [PasteId -> Row \cup {NoPaste}]
  BY ReqFields DEF Insert, TypeOK
<1> QED BY <1>2, <1>3, <1>4 DEF Insert, TypeOK

LEMMA EditType ==
    ASSUME TypeOK, NEW p \in Handler, NEW by \in Author, NEW id \in PasteId,
           NEW body \in Body, NEW asked \in Asked, Edit(p, by, id, body, asked)
    PROVE  TypeOK'
<1> DEFINE expires == Expiry(asked, paste[id].owner)
           row == Edited(BlankRow, body, expires)
<1>1. Live(id)
  BY DEF Edit, Loaded
<1>2. expires \in Nat \cup {Never}
  BY ExpiryType, BoundAssumption DEF TypeOK
<1>3. row \in Row
  BY <1>2, BlankType, RowChanges
<1> HIDE DEF row
<1>4. Ask(id, paste[id].body, row) \in Locals
  BY <1>1, <1>3, AskType, LiveRow
<1>5. Start(p, "edit", Ask(id, paste[id].body, row))
  BY DEF Edit, StartEdit, row
<1>6. pc' \in [Handler -> Place] /\ req' \in [Handler -> Locals]
  BY <1>4, <1>5, StartType DEF Place
<1> QED BY <1>6 DEF Edit, StartEdit, TypeOK, tables

LEMMA EditCommitType ==
    ASSUME TypeOK, NEW p \in Handler, EditCommit(p)
    PROVE  TypeOK'
<1> DEFINE id == req[p].id
           row == Edited(paste[id], req[p].row.body, req[p].row.expires)
<1>1. id \in PasteId /\ Live(id)
  BY ReqFields DEF EditCommit, Rewrite
<1>2. row \in Row
  BY <1>1, LiveRow, ReqFields, RowChanges
<1>3. paste' \in [PasteId -> Row \cup {NoPaste}]
  BY <1>1, <1>2 DEF EditCommit, Rewrite, TypeOK
<1>4. Append(revisions[id], req[p].was) \in Seq(Body)
  BY <1>1, ReqFields DEF TypeOK
<1>5. revisions' \in [PasteId -> Seq(Body)]
  BY <1>1, <1>4 DEF EditCommit, Rewrite, TypeOK
<1>6. past' \in [PasteId -> SUBSET Body]
  BY <1>1, LiveRow DEF EditCommit, Rewrite, TypeOK
<1>7. pc' \in [Handler -> Place] /\ req' \in [Handler -> Locals]
  BY FinishType DEF EditCommit
<1> QED BY <1>3, <1>5, <1>6, <1>7 DEF EditCommit, Rewrite, TypeOK

LEMMA RevealType ==
    ASSUME TypeOK, NEW p \in Handler, NEW id \in PasteId, Reveal(p, id)
    PROVE  TypeOK'
<1>1. Ask(id, SomeBody, BlankRow) \in Locals
  BY AskType, BlankType
<1>2. pc' \in [Handler -> Place] /\ req' \in [Handler -> Locals]
  BY <1>1, StartType DEF Reveal, Place
<1> QED BY <1>2 DEF Reveal, TypeOK, tables

LEMMA BurnType ==
    ASSUME TypeOK, NEW p \in Handler, Burn(p)
    PROVE  TypeOK'
<1>1. {req[p].id} \in SUBSET PasteId
  BY ReqFields
<1>2. Remove({req[p].id})
  BY DEF Burn
<1>3. pc' \in [Handler -> Place]
  BY DEF Burn, Goto, TypeOK, Place
<1> QED BY <1>1, <1>2, <1>3, RemoveFacts DEF Burn, TypeOK

LEMMA PruneFacts ==
    ASSUME TypeOK, NEW id \in PasteId
    PROVE  /\ Newest(revisions[id]) \in Seq(Body)
           /\ \A i \in DOMAIN Newest(revisions[id]) :
                 \E j \in DOMAIN revisions[id] : Newest(revisions[id])[i] = revisions[id][j]
<1> DEFINE s == revisions[id]
           from == IF Len(s) <= RevisionCap THEN 1 ELSE Len(s) - RevisionCap + 1
<1>1. s \in Seq(Body) /\ Len(s) \in Nat
  BY DEF TypeOK
<1>2. from \in Nat \ {0}
  BY <1>1, LimitAssumption
<1>3. Newest(s) = SubSeq(s, from, Len(s))
  BY DEF Newest
<1> HIDE DEF s, from
<1>4. Newest(s) \in Seq(Body)
  BY <1>1, <1>2, <1>3
<1>5. ASSUME NEW i \in DOMAIN Newest(s)
      PROVE  \E j \in DOMAIN s : Newest(s)[i] = s[j]
  <2>1. i \in Nat \ {0} /\ i <= Len(s) - from + 1
    BY <1>1, <1>2, <1>3, <1>5
  <2>2. Newest(s)[i] = s[from + i - 1]
    BY <1>1, <1>2, <1>3, <2>1
  <2>3. from + i - 1 \in DOMAIN s
    BY <1>1, <1>2, <2>1
  <2> QED BY <2>2, <2>3
<1> QED BY <1>4, <1>5 DEF s

LEMMA NextType == TypeOK /\ [Next]_vars => TypeOK'
<1> SUFFICES ASSUME TypeOK, [Next]_vars PROVE TypeOK'
  OBVIOUS
<1>1. ASSUME NEW p \in Handler, Request(p) PROVE TypeOK'
  BY <1>1, CreateType, ForkType, EditType, RevealType DEF Request
<1>2. ASSUME NEW p \in Handler, Continue(p) PROVE TypeOK'
  <2>1. CASE Show(p)
    <3>1. req[p].id \in PasteId
      BY ReqFields
    <3>2. pc' \in [Handler -> Place] /\ req' \in [Handler -> Locals]
      BY <2>1, FinishType DEF Show
    <3> QED BY <2>1, <3>1, <3>2 DEF Show, TypeOK, tables
  <2>2. CASE Fail(p)
    <3>1. pc' \in [Handler -> Place] /\ req' \in [Handler -> Locals]
      BY <2>2, FinishType DEF Fail
    <3> QED BY <2>2, <3>1 DEF Fail, TypeOK, tables
  <2> QED BY <1>2, <2>1, <2>2, ForkCheckType, InsertType, EditCommitType, BurnType
          DEF Continue
<1>3. CASE Reap
  BY <1>3, RemoveFacts DEF Reap, Overdue, TypeOK, local
<1>4. CASE Prune
  BY <1>4, PruneFacts DEF Prune, TypeOK, local
<1>5. CASE Tick
  BY <1>5, BoundAssumption DEF Tick, TypeOK, tables, local
<1>6. ASSUME NEW by \in Author, NEW id \in PasteId, Delete(by, id) PROVE TypeOK'
  <2>1. {id} \in SUBSET PasteId /\ Remove({id})
    BY <1>6 DEF Delete
  <2> QED BY <1>6, <2>1, RemoveFacts DEF Delete, TypeOK, local
<1>7. CASE UNCHANGED vars
  BY <1>7 DEF vars, tables, local, TypeOK
<1> QED BY <1>1, <1>2, <1>3, <1>4, <1>5, <1>6, <1>7 DEF Next

(* Whatever the handlers do, the tables and the handlers' locals have the   *)
(* types the code gives them.                                               *)
THEOREM TypeCorrect == Spec => []TypeOK
BY InitType, NextType, PTL DEF Spec

-----------------------------------------------------------------------------
(* The inductive invariant behind the properties of revisions, of           *)
(* strangers' pastes and of burning.  A handler keeps an id and a body it   *)
(* loaded long ago, so what it holds is related to what the paste is and    *)
(* was; and as ids are never given out again, a handler's id can only stand *)
(* for the paste it loaded, or for none.                                    *)

Bounded(row) ==
    row.body \notin Leaking /\ row.expires # Never /\ row.expires <= now + AnonymousTtl

PasteOK(id) ==
    /\ id > minted => ~Live(id) /\ shown[id] = 0
    /\ shown[id] \in 0..1
    /\ Live(id) => shown[id] = 0
    /\ ~Live(id) => past[id] = {}
    /\ \A i \in DOMAIN revisions[id] : revisions[id][i] \in past[id]
    /\ Live(id) /\ paste[id].owner = Stranger =>
          Bounded(paste[id]) /\ past[id] \cap Leaking = {}

HandlerOK(place, r) ==
    /\ place \in {"edit", "burn", "show"} => r.id <= minted
    /\ place = "edit" /\ Live(r.id) =>
          /\ r.was \in past[r.id] \cup {paste[r.id].body}
          /\ paste[r.id].owner = Stranger => Bounded(r.row)
    /\ place = "insert" /\ r.row.owner = Stranger => Bounded(r.row)
    /\ place = "show" => ~Live(r.id) /\ shown[r.id] = 0

OneTaker ==
    \A p, q \in Handler :
        pc[p] = "show" /\ pc[q] = "show" /\ req[p].id = req[q].id => p = q

PasteInv ==
    /\ TypeOK
    /\ \A id \in PasteId : PasteOK(id)
    /\ \A p \in Handler : HandlerOK(pc[p], req[p])
    /\ OneTaker

(* A step that moves one handler and leaves the tables alone. *)
LEMMA QuietStep ==
    ASSUME PasteInv, TypeOK', UNCHANGED <<tables, now, shown>>,
           NEW p \in Handler, NEW place \in Place \ {"show"}, NEW r \in Locals,
           pc' = [pc EXCEPT ![p] = place], req' = [req EXCEPT ![p] = r],
           HandlerOK(place, r)
    PROVE  PasteInv'
<1>1. \A id \in PasteId : PasteOK(id)'
  BY DEF PasteInv, PasteOK, Bounded, Live, tables
<1>2. ASSUME NEW q \in Handler PROVE HandlerOK(pc[q], req[q])'
  <2>1. CASE q = p
    BY <2>1 DEF PasteInv, TypeOK, HandlerOK, Bounded, Live, tables
  <2>2. CASE q # p
    <3>1. HandlerOK(pc[q], req[q]) /\ pc'[q] = pc[q] /\ req'[q] = req[q]
      BY <2>2 DEF PasteInv, TypeOK
    <3> QED BY <3>1 DEF HandlerOK, Bounded, Live, tables
  <2> QED BY <2>1, <2>2
<1>3. OneTaker'
  BY DEF PasteInv, OneTaker, TypeOK
<1> QED BY <1>1, <1>2, <1>3 DEF PasteInv

(* A DELETE keeps what is known of the pastes, and of any handler. *)
LEMMA RemoveKeeps ==
    ASSUME PasteInv, NEW ids \in SUBSET PasteId, Remove(ids), UNCHANGED <<now, shown>>
    PROVE  /\ \A id \in PasteId : PasteOK(id)'
           /\ \A place \in Place, r \in Locals : HandlerOK(place, r) => HandlerOK(place, r)'
<1>0. TypeOK /\ Place = Place'
  BY DEF PasteInv, Place
<1>1. ASSUME NEW id \in PasteId PROVE PasteOK(id)'
  <2>1. PasteOK(id) /\ minted' = minted /\ shown' = shown /\ now' = now
    BY <1>0, RemoveFacts DEF PasteInv
  <2>2. CASE Live(id)'
    <3>1. /\ Live(id) /\ paste'[id].owner = paste[id].owner
          /\ paste'[id].body = paste[id].body /\ paste'[id].expires = paste[id].expires
          /\ revisions'[id] = revisions[id] /\ past'[id] = past[id]
      BY <1>0, <2>2, RemoveFacts
    <3> QED BY <2>1, <2>2, <3>1 DEF PasteOK, Bounded
  <2>3. CASE ~Live(id)'
    <3>1. \/ revisions'[id] = <<>> /\ past'[id] = {}
          \/ ~Live(id) /\ revisions'[id] = revisions[id] /\ past'[id] = past[id]
      BY <1>0, <2>3, RemoveFacts
    <3> QED BY <2>1, <2>3, <3>1 DEF PasteOK
  <2> QED BY <2>2, <2>3
<1>2. ASSUME NEW place \in Place, NEW r \in Locals, HandlerOK(place, r)
      PROVE  HandlerOK(place, r)'
  <2>1. minted' = minted /\ shown' = shown /\ now' = now
    BY <1>0, RemoveFacts
  <2>2. r.id \in PasteId
    BY DEF Locals
  <2>3. Live(r.id)' => /\ Live(r.id) /\ paste'[r.id].owner = paste[r.id].owner
                       /\ paste'[r.id].body = paste[r.id].body /\ past'[r.id] = past[r.id]
    BY <1>0, <2>2, RemoveFacts
  <2> QED BY <1>2, <2>1, <2>3 DEF HandlerOK, Bounded
<1> QED BY <1>1, <1>2

LEMMA InsertStep ==
    ASSUME PasteInv, TypeOK', NEW p \in Handler, Insert(p)
    PROVE  PasteInv'
<1> DEFINE new == minted + 1
<1>0. TypeOK /\ HandlerOK(pc[p], req[p]) /\ pc[p] = "insert" /\ req[p].row \in Row
  BY ReqFields DEF PasteInv, Insert, Finish, Goto
<1>1. /\ new \in PasteId /\ paste' = [paste EXCEPT ![new] = req[p].row] /\ minted' = new
      /\ UNCHANGED <<revisions, past, now, shown>> /\ minted \in Nat
  BY <1>0 DEF Insert, TypeOK
<1>2. \A id \in PasteId : id # new => (Live(id)' <=> Live(id)) /\ paste'[id] = paste[id]
  BY <1>0, <1>1 DEF Live, TypeOK
<1>3. ASSUME NEW id \in PasteId PROVE PasteOK(id)'
  <2>0. PasteOK(id)
    BY DEF PasteInv
  <2>1. CASE id # new
    BY <2>0, <2>1, <1>1, <1>2 DEF PasteOK, Bounded, PasteId
  <2>2. CASE id = new
    <3>1. shown[id] = 0 /\ past[id] = {}
      BY <2>0, <2>2, <1>1 DEF PasteOK
    <3>2. paste'[id] = req[p].row
      BY <1>0, <1>1, <2>2 DEF TypeOK
    <3>3. paste'[id].owner = Stranger => Bounded(req[p].row)
      BY <1>0, <3>2 DEF HandlerOK
    <3> QED BY <2>0, <2>2, <3>1, <3>2, <3>3, <1>1 DEF PasteOK, Bounded
  <2> QED BY <2>1, <2>2
<1>4. ASSUME NEW q \in Handler PROVE HandlerOK(pc[q], req[q])'
  <2>1. CASE q = p
    <3>1. pc'[q] = "idle"
      BY <1>0, <2>1 DEF Insert, Finish, Goto, TypeOK
    <3> QED BY <3>1 DEF HandlerOK
  <2>2. CASE q # p
    <3>1. HandlerOK(pc[q], req[q]) /\ pc'[q] = pc[q] /\ req'[q] = req[q]
      BY <2>2 DEF PasteInv, TypeOK, Insert, Finish, Goto
    <3>2. req[q].id \in PasteId
      BY <1>0, ReqFields
    <3>3. req[q].id <= minted => req[q].id # new
      BY <1>1, <3>2 DEF PasteId
    <3>4. pc[q] \in {"edit", "burn", "show"} => req[q].id <= minted'
      BY <3>1, <3>2, <1>1 DEF HandlerOK, PasteId
    <3>5. pc[q] \in {"edit", "show"} =>
             (Live(req[q].id)' <=> Live(req[q].id)) /\ paste'[req[q].id] = paste[req[q].id]
      BY <3>1, <3>2, <3>3, <1>2 DEF HandlerOK
    <3> QED BY <3>1, <3>4, <3>5, <1>1 DEF HandlerOK, Bounded
  <2> QED BY <2>1, <2>2
<1>5. OneTaker'
  BY DEF PasteInv, OneTaker, TypeOK, Insert, Finish, Goto
<1> QED BY <1>3, <1>4, <1>5 DEF PasteInv

LEMMA EditCommitStep ==
    ASSUME PasteInv, TypeOK', NEW p \in Handler, EditCommit(p)
    PROVE  PasteInv'
<1>a. PICK id \in PasteId, row \in Row : id = req[p].id /\ row = req[p].row
  BY ReqFields DEF PasteInv
<1>0. /\ TypeOK /\ HandlerOK("edit", req[p]) /\ PasteOK(id) /\ pc[p] = "edit"
      /\ Live(id) /\ req[p].was \in Body
      /\ row.body \in Body /\ row.expires \in Nat \cup {Never}
  BY <1>a, ReqFields DEF PasteInv, EditCommit, Rewrite, Finish, Goto
<1>1. /\ paste' = [paste EXCEPT ![id] = Edited(paste[id], row.body, row.expires)]
      /\ revisions' = [revisions EXCEPT ![id] = Append(revisions[id], req[p].was)]
      /\ past' = [past EXCEPT ![id] = past[id] \cup {paste[id].body}]
      /\ minted' = minted /\ now' = now /\ shown' = shown
  BY <1>a DEF EditCommit, Rewrite
<1>2. /\ paste'[id].owner = paste[id].owner /\ paste'[id].body = row.body
      /\ paste'[id].expires = row.expires
  BY <1>0, <1>1 DEF TypeOK, Edited, NewRow
<1>3. Live(id)' /\ \A other \in PasteId \ {id} : Live(other)' <=> Live(other)
  <2>1. Edited(paste[id], row.body, row.expires) \in Row
    BY <1>0, LiveRow, RowChanges
  <2>2. paste'[id] = Edited(paste[id], row.body, row.expires)
    BY <1>0, <1>1 DEF TypeOK
  <2>3. paste'[id] # NoPaste
    BY <2>1, <2>2, RowAssumption
  <2>4. \A other \in PasteId \ {id} : paste'[other] = paste[other]
    BY <1>0, <1>1 DEF TypeOK
  <2> QED BY <2>3, <2>4 DEF Live
<1>4. past'[id] = past[id] \cup {paste[id].body}
  BY <1>0, <1>1 DEF TypeOK
<1>5. \A other \in PasteId \ {id} :
         paste'[other] = paste[other] /\ past'[other] = past[other]
         /\ revisions'[other] = revisions[other]
  BY <1>0, <1>1 DEF TypeOK
<1>6. ASSUME NEW other \in PasteId PROVE PasteOK(other)'
  <2>0. PasteOK(other)
    BY DEF PasteInv
  <2>1. CASE other # id
    BY <2>0, <2>1, <1>1, <1>3, <1>5 DEF PasteOK, Bounded
  <2>2. CASE other = id
    <3>1. \A i \in DOMAIN revisions'[id] : revisions'[id][i] \in past'[id]
      <4>1. revisions[id] \in Seq(Body) /\ revisions'[id] = Append(revisions[id], req[p].was)
        BY <1>0, <1>1 DEF TypeOK
      <4>2. req[p].was \in past'[id]
        BY <1>a, <1>0, <1>4 DEF HandlerOK
      <4>3. \A i \in DOMAIN revisions[id] : revisions[id][i] \in past'[id]
        BY <1>0, <1>4 DEF PasteOK
      <4> QED BY <1>0, <4>1, <4>2, <4>3
    <3>2. paste'[id].owner = Stranger => Bounded(row) /\ past'[id] \cap Leaking = {}
      <4>1. SUFFICES ASSUME paste[id].owner = Stranger
                     PROVE  Bounded(row) /\ past'[id] \cap Leaking = {}
        BY <1>2
      <4>2. Bounded(row)
        BY <1>a, <1>0, <4>1 DEF HandlerOK
      <4>3. past[id] \cap Leaking = {} /\ paste[id].body \notin Leaking
        BY <1>0, <4>1 DEF PasteOK, Bounded
      <4> QED BY <1>4, <4>2, <4>3
    <3>3. paste'[id].owner = Stranger => Bounded(paste[id])'
      BY <1>1, <1>2, <3>2 DEF Bounded
    <3>4. ~(id > minted') /\ shown'[id] = 0
      BY <1>0, <1>1 DEF PasteOK
    <3> QED BY <2>2, <1>3, <3>1, <3>2, <3>3, <3>4 DEF PasteOK
  <2> QED BY <2>1, <2>2
<1>7. ASSUME NEW q \in Handler PROVE HandlerOK(pc[q], req[q])'
  <2>1. CASE q = p
    <3>1. pc'[q] = "idle"
      BY <1>0, <2>1 DEF EditCommit, Finish, Goto, TypeOK
    <3> QED BY <3>1 DEF HandlerOK
  <2>2. CASE q # p
    <3>1. HandlerOK(pc[q], req[q]) /\ pc'[q] = pc[q] /\ req'[q] = req[q]
      BY <2>2 DEF PasteInv, TypeOK, EditCommit, Finish, Goto
    <3>2. req[q].id \in PasteId
      BY <1>0, ReqFields
    <3>3. CASE req[q].id # id
      BY <3>1, <3>2, <3>3, <1>1, <1>3, <1>5 DEF HandlerOK, Bounded
    <3>4. CASE req[q].id = id
      BY <3>1, <3>4, <1>0, <1>1, <1>2, <1>3, <1>4 DEF HandlerOK, PasteOK, Bounded
    <3> QED BY <3>3, <3>4
  <2> QED BY <2>1, <2>2
<1>8. OneTaker'
  BY DEF PasteInv, OneTaker, TypeOK, EditCommit, Finish, Goto
<1> QED BY <1>6, <1>7, <1>8 DEF PasteInv

LEMMA BurnStep ==
    ASSUME PasteInv, TypeOK', NEW p \in Handler, Burn(p)
    PROVE  PasteInv'
<1>0. /\ TypeOK /\ req[p] \in Locals /\ req[p].id \in PasteId /\ Live(req[p].id)
      /\ PasteOK(req[p].id) /\ Remove({req[p].id}) /\ UNCHANGED <<req, now, shown>>
      /\ pc' = [pc EXCEPT ![p] = "show"]
  BY ReqFields DEF PasteInv, Burn, Loaded, Goto
<1>1. {req[p].id} \in SUBSET PasteId
  BY <1>0
<1>2. ~Live(req[p].id)' /\ minted' = minted
  BY <1>0, <1>1, RemoveFacts
<1>3. \A id \in PasteId : PasteOK(id)'
  BY <1>0, <1>1, RemoveKeeps
<1>4. ASSUME NEW q \in Handler PROVE HandlerOK(pc[q], req[q])'
  <2>1. CASE q = p
    <3>1. pc'[p] = "show" /\ req'[p] = req[p]
      BY <1>0 DEF TypeOK
    <3>2. req[p].id <= minted /\ shown[req[p].id] = 0
      BY <1>0 DEF PasteOK, PasteId, TypeOK
    <3> QED BY <2>1, <3>1, <3>2, <1>0, <1>2 DEF HandlerOK
  <2>2. CASE q # p
    <3>1. HandlerOK(pc[q], req[q]) /\ pc'[q] = pc[q] /\ req'[q] = req[q]
      BY <1>0, <2>2 DEF PasteInv, TypeOK
    <3>2. pc[q] \in Place /\ req[q] \in Locals
      BY <1>0 DEF TypeOK
    <3>3. PICK place \in Place, r \in Locals : place = pc[q] /\ r = req[q]
      BY <3>2
    <3>4. HandlerOK(place, r)'
      BY <1>0, <1>1, <3>1, <3>3, RemoveKeeps
    <3> QED BY <3>1, <3>3, <3>4 DEF HandlerOK, Bounded, Live
  <2> QED BY <2>1, <2>2
<1>5. \A q \in Handler : pc[q] = "show" => req[q].id # req[p].id
  BY <1>0 DEF PasteInv, HandlerOK
<1>6. OneTaker'
  BY <1>0, <1>5 DEF PasteInv, OneTaker, TypeOK
<1> QED BY <1>3, <1>4, <1>6 DEF PasteInv

LEMMA ShowStep ==
    ASSUME PasteInv, TypeOK', NEW p \in Handler, Show(p)
    PROVE  PasteInv'
<1> DEFINE id == req[p].id
<1>0. /\ TypeOK /\ id \in PasteId /\ id <= minted /\ ~Live(id) /\ shown[id] = 0
      /\ pc[p] = "show" /\ UNCHANGED <<tables, now>>
  BY ReqFields DEF PasteInv, HandlerOK, Show, Finish, Goto
<1>1. /\ shown'[id] = 1 /\ \A other \in PasteId \ {id} : shown'[other] = shown[other]
  BY <1>0 DEF Show, TypeOK
<1>2. ASSUME NEW other \in PasteId PROVE PasteOK(other)'
  <2>1. PasteOK(other)
    BY DEF PasteInv
  <2>2. other = id => ~(other > minted)
    BY <1>0 DEF PasteId, TypeOK
  <2> QED BY <2>1, <2>2, <1>0, <1>1 DEF PasteOK, Bounded, Live, tables
<1>3. ASSUME NEW q \in Handler PROVE HandlerOK(pc[q], req[q])'
  <2>1. CASE q = p
    <3>1. pc'[q] = "idle"
      BY <1>0, <2>1 DEF Show, Finish, Goto, TypeOK
    <3> QED BY <3>1 DEF HandlerOK
  <2>2. CASE q # p
    <3>1. HandlerOK(pc[q], req[q]) /\ pc'[q] = pc[q] /\ req'[q] = req[q]
      BY <2>2 DEF PasteInv, TypeOK, Show, Finish, Goto
    <3>2. pc[q] = "show" => req[q].id # id
      BY <1>0, <2>2 DEF PasteInv, OneTaker
    <3>3. req[q].id \in PasteId
      BY <1>0, ReqFields
    <3> QED BY <3>1, <3>2, <3>3, <1>0, <1>1 DEF HandlerOK, Bounded, Live, tables
  <2> QED BY <2>1, <2>2
<1>4. OneTaker'
  BY DEF PasteInv, OneTaker, TypeOK, Show, Finish, Goto
<1> QED BY <1>2, <1>3, <1>4 DEF PasteInv

LEMMA RequestStep ==
    ASSUME PasteInv, TypeOK', NEW p \in Handler, Request(p)
    PROVE  PasteInv'
<1>0. TypeOK /\ now \in Nat /\ minted \in Nat
  BY BoundAssumption DEF PasteInv, TypeOK
<1>1. ASSUME NEW by \in Author, NEW body \in Body, NEW burn \in BOOLEAN,
             NEW asked \in Asked, Create(p, by, body, burn, asked)
      PROVE  PasteInv'
  <2>1. PICK row : row = NewRow(by, body, burn, Expiry(asked, by), NoParent)
    OBVIOUS
  <2>2. Expiry(asked, by) \in Nat \cup {Never} /\ (by = Stranger =>
           Expiry(asked, by) # Never /\ Expiry(asked, by) <= now + AnonymousTtl)
    BY <1>0, ExpiryType
  <2>3. row \in Row
    BY <2>1, <2>2, BoundAssumption DEF NewRow, Row, NoParent
  <2>4. row.owner = by /\ row.body = body /\ row.expires = Expiry(asked, by)
    BY <2>1, NewRowFields
  <2>5. row.owner = Stranger => Bounded(row)
    BY <1>1, <2>2, <2>4 DEF Create, MayLeak, Bounded
  <2>6. PICK r \in Locals : r = Ask(1, SomeBody, row) /\ r.row = row
    BY <2>3, AskType, BlankType, FirstId
  <2>7. HandlerOK("insert", r)
    BY <2>5, <2>6 DEF HandlerOK
  <2>8. pc' = [pc EXCEPT ![p] = "insert"] /\ req' = [req EXCEPT ![p] = r]
    BY <1>1, <2>1, <2>6 DEF Create, Start
  <2> QED BY <1>1, <2>7, <2>8, QuietStep DEF Create, Place
<1>2. ASSUME NEW by \in Author, NEW id \in PasteId, Fork(p, by, id)
      PROVE  PasteInv'
  <2>1. shown' = shown
    BY <1>0, <1>2, ForkType
  <2>2. PICK r : r = Ask(1, SomeBody, NewRow(by, paste[id].body, FALSE, Never, id))
    OBVIOUS
  <2>3. r \in Locals
    <3>1. NewRow(by, paste[id].body, FALSE, Never, id) \in Row
      BY <1>0, <1>2, LiveRow, BoundAssumption DEF NewRow, Row, PasteId, Fork, Loaded
    <3> QED BY <2>2, <3>1, AskType, BlankType, FirstId
  <2>4. HandlerOK("check", r)
    BY DEF HandlerOK
  <2>5. pc' = [pc EXCEPT ![p] = "check"] /\ req' = [req EXCEPT ![p] = r]
    BY <1>2, <2>2 DEF Fork, Start
  <2> QED BY <1>2, <2>1, <2>3, <2>4, <2>5, QuietStep DEF Fork, Place
<1>3. ASSUME NEW by \in Author, NEW id \in PasteId, NEW body \in Body,
             NEW asked \in Asked, Edit(p, by, id, body, asked)
      PROVE  PasteInv'
  <2>1. Live(id) /\ PasteOK(id)
    BY <1>3 DEF Edit, Loaded, PasteInv
  <2>2. PICK expires : expires = Expiry(asked, paste[id].owner)
    OBVIOUS
  <2>3. expires \in Nat \cup {Never} /\ (paste[id].owner = Stranger =>
           expires # Never /\ expires <= now + AnonymousTtl)
    BY <1>0, <2>2, ExpiryType
  <2>4. PICK row : row = Edited(BlankRow, body, expires)
    OBVIOUS
  <2>5. row \in Row /\ row.body = body /\ row.expires = expires
    BY <2>3, <2>4, BlankType, RowChanges DEF Edited, NewRow
  <2>6. paste[id].owner = Stranger => Bounded(row)
    BY <1>3, <2>3, <2>5 DEF Edit, MayLeak, Bounded
  <2>7. PICK r \in Locals : /\ r = Ask(id, paste[id].body, row)
                            /\ r.id = id /\ r.was = paste[id].body /\ r.row = row
    BY <1>0, <2>1, <2>5, AskType, LiveRow
  <2>8. HandlerOK("edit", r)
    BY <1>0, <2>1, <2>6, <2>7 DEF HandlerOK, PasteOK, PasteId
  <2>9. pc' = [pc EXCEPT ![p] = "edit"] /\ req' = [req EXCEPT ![p] = r]
    BY <1>3, <2>2, <2>4, <2>7 DEF Edit, StartEdit, Start
  <2> QED BY <1>3, <2>8, <2>9, QuietStep DEF Edit, StartEdit, Place
<1>4. ASSUME NEW id \in PasteId, Reveal(p, id)
      PROVE  PasteInv'
  <2>1. Live(id) /\ PasteOK(id)
    BY <1>4 DEF Reveal, Loaded, PasteInv
  <2>2. PICK r \in Locals : r = Ask(id, SomeBody, BlankRow) /\ r.id = id
    BY AskType, BlankType
  <2>3. HandlerOK("burn", r)
    BY <1>0, <2>1, <2>2 DEF HandlerOK, PasteOK, PasteId
  <2>4. pc' = [pc EXCEPT ![p] = "burn"] /\ req' = [req EXCEPT ![p] = r]
    BY <1>4, <2>2 DEF Reveal, Start
  <2> QED BY <1>4, <2>3, <2>4, QuietStep DEF Reveal, Place
<1> QED BY <1>1, <1>2, <1>3, <1>4 DEF Request

LEMMA ContinueStep ==
    ASSUME PasteInv, TypeOK', NEW p \in Handler, Continue(p)
    PROVE  PasteInv'
<1>0. TypeOK /\ now \in Nat
  BY BoundAssumption DEF PasteInv, TypeOK
<1>1. CASE ForkCheck(p)
  <2>1. PICK owner, body : owner = req[p].row.owner /\ body = req[p].row.body
    OBVIOUS
  <2>2. Never \in Asked \cup {Never}
    OBVIOUS
  <2>3. owner = Stranger => /\ Expiry(Never, owner) # Never
                            /\ Expiry(Never, owner) <= now + AnonymousTtl
    BY <1>0, <2>2, ExpiryType
  <2>4. PICK row \in Row : row = Edited(req[p].row, body, Expiry(Never, owner))
    BY <1>0, <1>1, <2>1, ForkCheckType
  <2>5. row.owner = owner /\ row.body = body /\ row.expires = Expiry(Never, owner)
    BY <2>1, <2>4 DEF Edited, NewRow
  <2>6. row.owner = Stranger => Bounded(row)
    BY <1>1, <2>1, <2>3, <2>5 DEF ForkCheck, Bounded
  <2>7. PICK r \in Locals : r = Ask(1, SomeBody, row) /\ r.row = row
    BY AskType, BlankType, FirstId
  <2>8. HandlerOK("insert", r)
    BY <2>6, <2>7 DEF HandlerOK
  <2>9. pc' = [pc EXCEPT ![p] = "insert"] /\ req' = [req EXCEPT ![p] = r]
    BY <1>0, <1>1, <2>1, <2>4, <2>7, ForkCheckType DEF ForkCheck, Goto
  <2> QED BY <1>1, <2>8, <2>9, QuietStep DEF ForkCheck, Place
<1>2. CASE Fail(p)
  <2>1. Blank \in Locals /\ HandlerOK("idle", Blank)
    BY BlankType DEF HandlerOK
  <2>2. PICK r \in Locals : r = Blank
    BY <2>1
  <2>3. pc' = [pc EXCEPT ![p] = "idle"] /\ req' = [req EXCEPT ![p] = r]
    BY <1>2, <2>2 DEF Fail, Finish, Goto
  <2> QED BY <1>2, <2>1, <2>2, <2>3, QuietStep DEF Fail, Place
<1> QED BY <1>1, <1>2, InsertStep, EditCommitStep, BurnStep, ShowStep DEF Continue

LEMMA RemovalStep ==
    ASSUME PasteInv, TypeOK', NEW ids \in SUBSET PasteId, Remove(ids),
           UNCHANGED <<now, shown, local>>
    PROVE  PasteInv'
<1>1. ASSUME NEW q \in Handler PROVE HandlerOK(pc[q], req[q])'
  <2>1. PICK place \in Place, r \in Locals : place = pc[q] /\ r = req[q]
    BY DEF PasteInv, TypeOK
  <2>2. HandlerOK(place, r)'
    BY <2>1, RemoveKeeps DEF PasteInv
  <2>3. pc'[q] = place /\ req'[q] = r
    BY <2>1 DEF local
  <2> QED BY <2>2, <2>3 DEF HandlerOK, Bounded, Live
<1>2. OneTaker'
  BY DEF PasteInv, OneTaker, local
<1> QED BY <1>1, <1>2, RemoveKeeps DEF PasteInv

LEMMA PasteInductive == PasteInv /\ [Next]_vars => PasteInv'
<1> SUFFICES ASSUME PasteInv, [Next]_vars PROVE PasteInv'
  OBVIOUS
<1>0. TypeOK /\ TypeOK'
  BY NextType DEF PasteInv
<1>1. CASE Reap
  <2>1. Overdue \in SUBSET PasteId /\ Remove(Overdue)
    BY <1>1 DEF Reap, Overdue
  <2>2. PICK ids \in SUBSET PasteId : ids = Overdue
    BY <2>1
  <2> QED BY <1>0, <1>1, <2>1, <2>2, RemovalStep DEF Reap
<1>2. CASE Prune
  <2>1. ASSUME NEW id \in PasteId PROVE PasteOK(id)'
    <3>1. PasteOK(id)
      BY DEF PasteInv
    <3>2. revisions'[id] = Newest(revisions[id])
      BY <1>2 DEF Prune
    <3>3. \A i \in DOMAIN revisions'[id] : revisions'[id][i] \in past[id]
      <4>1. SUFFICES ASSUME NEW i \in DOMAIN Newest(revisions[id])
                     PROVE  Newest(revisions[id])[i] \in past[id]
        BY <3>2
      <4>2. PICK j \in DOMAIN revisions[id] : Newest(revisions[id])[i] = revisions[id][j]
        BY <1>0, PruneFacts
      <4> QED BY <3>1, <4>2 DEF PasteOK
    <3> QED BY <1>2, <3>1, <3>3 DEF Prune, PasteOK, Bounded, Live
  <2>2. \A q \in Handler : HandlerOK(pc[q], req[q])'
    BY <1>2 DEF PasteInv, Prune, HandlerOK, Bounded, Live, local
  <2>3. OneTaker'
    BY <1>2 DEF PasteInv, OneTaker, Prune, local
  <2> QED BY <1>0, <2>1, <2>2, <2>3 DEF PasteInv
<1>3. CASE Tick
  <2>1. \A row \in Row : Bounded(row) => Bounded(row)'
    <3> SUFFICES ASSUME NEW row \in Row, Bounded(row) PROVE Bounded(row)'
      OBVIOUS
    <3>1. row.expires \in Nat /\ now \in Nat /\ now' = now + 1
      BY <1>0, <1>3, BoundAssumption DEF Row, Bounded, Tick, TypeOK
    <3> QED BY <3>1, TtlAssumption DEF Bounded
  <2>2. ASSUME NEW id \in PasteId PROVE PasteOK(id)'
    <3>1. PasteOK(id) /\ (Live(id) => paste[id] \in Row)
      BY <1>0, LiveRow DEF PasteInv
    <3>2. Live(id) => (Bounded(paste[id]) => Bounded(paste[id])')
      BY <1>3, <2>1, <3>1 DEF Tick, tables, Bounded
    <3> QED BY <1>3, <3>1, <3>2 DEF Tick, PasteOK, Live, tables
  <2>3. ASSUME NEW q \in Handler PROVE HandlerOK(pc[q], req[q])'
    <3>1. HandlerOK(pc[q], req[q]) /\ req[q].row \in Row
      BY <1>0, ReqFields DEF PasteInv
    <3>2. Bounded(req[q].row) => Bounded(req[q].row)'
      BY <1>3, <2>1, <3>1 DEF Tick, local, Bounded
    <3> QED BY <1>3, <3>1, <3>2 DEF Tick, HandlerOK, Live, tables, local
  <2>4. OneTaker'
    BY <1>3 DEF PasteInv, OneTaker, Tick, local
  <2> QED BY <1>0, <2>2, <2>3, <2>4 DEF PasteInv
<1>4. ASSUME NEW by \in Author, NEW id \in PasteId, Delete(by, id) PROVE PasteInv'
  <2>1. {id} \in SUBSET PasteId /\ Remove({id})
    BY <1>4 DEF Delete
  <2> QED BY <1>0, <1>4, <2>1, RemovalStep DEF Delete
<1>5. CASE UNCHANGED vars
  BY <1>0, <1>5 DEF PasteInv, PasteOK, HandlerOK, OneTaker, Bounded, Live, vars, tables, local
<1> QED BY <1>0, <1>1, <1>2, <1>3, <1>4, <1>5, RequestStep, ContinueStep DEF Next

LEMMA PasteInit == Init => PasteInv
BY InitType, FirstId DEF Init, PasteInv, PasteOK, HandlerOK, OneTaker, Live, PasteId

THEOREM PasteInvariant == Spec => []PasteInv
BY PasteInit, PasteInductive, PTL DEF Spec

(* Every revision is a body the paste had and lost, though the handler that *)
(* writes it may have loaded that body any number of edits ago.             *)
THEOREM RevisionsCorrect == Spec => []RevisionsWereBodies
<1>1. PasteInv => RevisionsWereBodies
  BY DEF PasteInv, PasteOK, RevisionsWereBodies
<1> QED BY <1>1, PasteInvariant, PTL

(* What a stranger published expires within anonymous_ttl_days, whoever     *)
(* edits it and whatever lifetime they ask for.                             *)
THEOREM StrangersExpireCorrect == Spec => []StrangersExpire
<1>1. PasteInv => StrangersExpire
  BY DEF PasteInv, PasteOK, Bounded, StrangersExpire
<1> QED BY <1>1, PasteInvariant, PTL

(* Neither the body nor a revision of a stranger's paste has a secret the   *)
(* scanner finds critical.                                                  *)
THEOREM StrangersNeverLeakCorrect == Spec => []StrangersNeverLeak
<1>1. PasteInv => StrangersNeverLeak
  BY DEF PasteInv, PasteOK, Bounded, StrangersNeverLeak
<1> QED BY <1>1, PasteInvariant, PTL

-----------------------------------------------------------------------------
(* The store keeps the promise of BurnOnce *)

LEMMA SameStatus ==
    ASSUME minted' = minted, \A id \in PasteId : Live(id)' <=> Live(id),
           \A id \in PasteId : Taken(id)' <=> Taken(id)
    PROVE  PasteStatus' = PasteStatus
BY DEF PasteStatus

(* A handler that neither is nor comes to be about to show a paste. *)
LEMMA SameTakers ==
    ASSUME TypeOK, NEW p \in Handler, pc[p] # "show", pc'[p] # "show",
           \A q \in Handler \ {p} : pc'[q] = pc[q] /\ req'[q] = req[q]
    PROVE  \A id \in PasteId : Taken(id)' <=> Taken(id)
BY DEF Taken

LEMMA TakenIsGone ==
    ASSUME PasteInv, NEW id \in PasteId, Taken(id)
    PROVE  ~Live(id) /\ id <= minted
BY DEF PasteInv, HandlerOK, Taken

LEMMA LiveIsKept ==
    ASSUME PasteInv, NEW id \in PasteId, Live(id)
    PROVE  PasteStatus[id] = "kept" /\ id <= minted
BY DEF PasteInv, PasteOK, PasteStatus, PasteId, TypeOK

LEMMA PromiseInit == Init => Promise!Init
BY DEF Init, Promise!Init, PasteStatus, PasteId

LEMMA WithdrawStep ==
    ASSUME PasteInv, NEW ids \in SUBSET PasteId, Remove(ids), UNCHANGED local,
           shown' = shown, \A id \in ids : Live(id)
    PROVE  Promise!Withdraw(ids)
<1>0. TypeOK /\ minted' = minted
  BY RemoveFacts DEF PasteInv
<1>1. \A id \in ids : PasteStatus[id] = "kept"
  BY LiveIsKept
<1>2. ASSUME NEW id \in PasteId
      PROVE  PasteStatus'[id] = IF id \in ids THEN "gone" ELSE PasteStatus[id]
  <2>1. Live(id)' <=> Live(id) /\ id \notin ids
    BY <1>0, RemoveFacts
  <2>2. Taken(id)' <=> Taken(id)
    BY DEF Taken, local
  <2>3. id \in ids => ~Taken(id) /\ ~(id > minted)
    BY TakenIsGone, LiveIsKept, <1>0 DEF PasteId, TypeOK
  <2> QED BY <1>0, <2>1, <2>2, <2>3 DEF PasteStatus
<1>3. PasteStatus' = [id \in PasteId |-> IF id \in ids THEN "gone" ELSE PasteStatus[id]]
  BY <1>2 DEF PasteStatus
<1> QED BY <1>1, <1>3 DEF Promise!Withdraw

(* A taker that is through leaves the paste gone: it was the only one. *)
LEMMA TakerLeaves ==
    ASSUME PasteInv, NEW p \in Handler, NEW id \in PasteId, pc[p] = "show", req[p].id = id,
           Finish(p, "show"), UNCHANGED tables
    PROVE  PasteStatus[id] = "owed" /\ PasteStatus' = [PasteStatus EXCEPT ![id] = "gone"]
<1>0. TypeOK /\ Taken(id) /\ ~Live(id) /\ id <= minted
  BY TakenIsGone DEF PasteInv, Taken
<1>1. /\ pc'[p] = "idle"
      /\ \A q \in Handler \ {p} : pc'[q] = pc[q] /\ req'[q] = req[q]
  BY <1>0 DEF Finish, Goto, TypeOK
<1>2. ~Taken(id)'
  BY <1>1 DEF Taken, PasteInv, OneTaker
<1>3. \A other \in PasteId \ {id} : Taken(other)' <=> Taken(other)
  BY <1>1 DEF Taken
<1>4. minted' = minted /\ \A other \in PasteId : Live(other)' <=> Live(other)
  BY DEF Live, tables
<1>5. ~(id > minted)
  BY <1>0 DEF PasteId, TypeOK
<1>6. PasteStatus'[id] = "gone" /\ PasteStatus[id] = "owed"
  BY <1>0, <1>2, <1>4, <1>5 DEF PasteStatus
<1>7. \A other \in PasteId \ {id} : PasteStatus'[other] = PasteStatus[other]
  BY <1>3, <1>4 DEF PasteStatus
<1> QED BY <1>6, <1>7 DEF PasteStatus

LEMMA PromiseStep ==
    ASSUME PasteInv, [Next]_vars
    PROVE  Promise!Next \/ UNCHANGED Promise!abstract
<1>0. TypeOK /\ TypeOK'
  BY NextType DEF PasteInv
<1>1. ASSUME NEW p \in Handler, Request(p)
      PROVE  PasteStatus' = PasteStatus /\ shown' = shown
  <2>1. /\ shown' = shown /\ UNCHANGED tables /\ pc[p] # "show" /\ pc'[p] # "show"
        /\ \A q \in Handler \ {p} : pc'[q] = pc[q] /\ req'[q] = req[q]
    BY <1>0, <1>1, ForkType
    DEF Request, Create, Fork, Edit, StartEdit, Reveal, Start, TypeOK
  <2>2. minted' = minted /\ \A id \in PasteId : Live(id)' <=> Live(id)
    BY <2>1 DEF Live, tables
  <2> QED BY <1>0, <2>1, <2>2, SameTakers, SameStatus
<1>2. ASSUME NEW p \in Handler, Continue(p)
      PROVE  Promise!Next \/ (PasteStatus' = PasteStatus /\ shown' = shown)
  <2>1. CASE ForkCheck(p)
    <3>1. /\ shown' = shown /\ UNCHANGED tables /\ pc[p] # "show" /\ pc'[p] # "show"
          /\ \A q \in Handler \ {p} : pc'[q] = pc[q] /\ req'[q] = req[q]
      BY <1>0, <2>1, ForkCheckType DEF ForkCheck, Goto, TypeOK
    <3>2. minted' = minted /\ \A id \in PasteId : Live(id)' <=> Live(id)
      BY <3>1 DEF Live, tables
    <3> QED BY <1>0, <3>1, <3>2, SameTakers, SameStatus
  <2>2. CASE Insert(p)
    <3>1. PICK new \in PasteId : /\ new = minted + 1 /\ minted' = new /\ shown' = shown
                                 /\ paste' = [paste EXCEPT ![new] = req[p].row]
      BY <2>2 DEF Insert
    <3>2. /\ pc[p] = "insert" /\ pc'[p] = "idle"
          /\ \A q \in Handler \ {p} : pc'[q] = pc[q] /\ req'[q] = req[q]
      BY <1>0, <2>2 DEF Insert, Finish, Goto, TypeOK
    <3>3. \A id \in PasteId : Taken(id)' <=> Taken(id)
      BY <1>0, <3>2, SameTakers
    <3>4. Live(new)' /\ \A id \in PasteId \ {new} : Live(id)' <=> Live(id)
      BY <1>0, <3>1, ReqFields, RowAssumption DEF Live, TypeOK
    <3>5. PasteStatus[new] = "unborn" /\ PasteStatus'[new] = "kept"
      BY <1>0, <3>1, <3>4 DEF PasteStatus, PasteId, TypeOK
    <3>6. \A id \in PasteId \ {new} : (id > minted' <=> id > minted)
      BY <1>0, <3>1 DEF PasteId, TypeOK
    <3>7. \A id \in PasteId \ {new} : PasteStatus'[id] = PasteStatus[id]
      BY <3>3, <3>4, <3>6 DEF PasteStatus
    <3>8. PasteStatus' = [PasteStatus EXCEPT ![new] = "kept"]
      BY <3>5, <3>7 DEF PasteStatus
    <3>9. Promise!Publish(new)
      BY <3>1, <3>5, <3>8 DEF Promise!Publish
    <3> QED BY <3>9 DEF Promise!Next
  <2>3. CASE EditCommit(p)
    <3>1. /\ shown' = shown /\ pc[p] # "show" /\ pc'[p] # "show" /\ minted' = minted
          /\ \A q \in Handler \ {p} : pc'[q] = pc[q] /\ req'[q] = req[q]
      BY <1>0, <2>3 DEF EditCommit, Rewrite, Finish, Goto, TypeOK
    <3>2. PICK id \in PasteId : id = req[p].id
      BY <1>0, ReqFields
    <3>3. PICK row : row = Edited(paste[id], req[p].row.body, req[p].row.expires)
      OBVIOUS
    <3>4. Live(id) /\ paste' = [paste EXCEPT ![id] = row]
      BY <2>3, <3>2, <3>3 DEF EditCommit, Rewrite
    <3>5. row \in Row
      BY <1>0, <3>3, <3>4, LiveRow, ReqFields, RowChanges
    <3>6. \A other \in PasteId : Live(other)' <=> Live(other)
      BY <1>0, <3>4, <3>5, RowAssumption DEF Live, TypeOK
    <3> QED BY <1>0, <3>1, <3>6, SameTakers, SameStatus
  <2>4. CASE Burn(p)
    <3>1. PICK id \in PasteId : id = req[p].id
      BY <1>0, ReqFields
    <3>2. /\ Live(id) /\ Remove({id}) /\ shown' = shown /\ req' = req
          /\ pc' = [pc EXCEPT ![p] = "show"] /\ pc[p] = "burn"
      BY <2>4, <3>1 DEF Burn, Loaded, Goto
    <3>3. minted' = minted /\ ~Live(id)'
          /\ \A other \in PasteId \ {id} : Live(other)' <=> Live(other)
      BY <1>0, <3>2, RemoveFacts
    <3>4. Taken(id)' /\ \A other \in PasteId \ {id} : Taken(other)' <=> Taken(other)
      BY <1>0, <3>1, <3>2 DEF Taken, TypeOK
    <3>5. PasteStatus[id] = "kept" /\ ~(id > minted)
      BY <1>0, <3>2, LiveIsKept DEF PasteId, TypeOK
    <3>6. PasteStatus'[id] = "owed"
      BY <3>3, <3>4, <3>5 DEF PasteStatus
    <3>7. \A other \in PasteId \ {id} : PasteStatus'[other] = PasteStatus[other]
      BY <3>3, <3>4 DEF PasteStatus
    <3>8. PasteStatus' = [PasteStatus EXCEPT ![id] = "owed"]
      BY <3>6, <3>7 DEF PasteStatus
    <3>9. Promise!Burn(id)
      BY <3>2, <3>5, <3>8 DEF Promise!Burn
    <3> QED BY <3>9 DEF Promise!Next
  <2>5. CASE Show(p)
    <3>1. PICK id \in PasteId : id = req[p].id
      BY <1>0, ReqFields
    <3>2. pc[p] = "show" /\ Finish(p, "show") /\ UNCHANGED tables
      BY <2>5 DEF Show, Finish, Goto
    <3>3. shown' = [shown EXCEPT ![id] = shown[id] + 1]
      BY <2>5, <3>1 DEF Show
    <3>4. Promise!Show(id)
      BY <3>1, <3>2, <3>3, TakerLeaves DEF Promise!Show
    <3> QED BY <3>4 DEF Promise!Next
  <2>6. CASE Fail(p)
    <3>1. PICK id \in PasteId : id = req[p].id
      BY <1>0, ReqFields
    <3>2. CASE pc[p] = "show"
      <4>1. Finish(p, "show") /\ UNCHANGED tables /\ shown' = shown
        BY <2>6, <3>2 DEF Fail
      <4>2. Promise!Show(id)
        BY <3>1, <3>2, <4>1, TakerLeaves DEF Promise!Show
      <4> QED BY <4>2 DEF Promise!Next
    <3>3. CASE pc[p] # "show"
      <4>1. /\ shown' = shown /\ UNCHANGED tables /\ pc'[p] # "show"
            /\ \A q \in Handler \ {p} : pc'[q] = pc[q] /\ req'[q] = req[q]
        BY <1>0, <2>6 DEF Fail, Finish, Goto, TypeOK
      <4>2. minted' = minted /\ \A other \in PasteId : Live(other)' <=> Live(other)
        BY <4>1 DEF Live, tables
      <4> QED BY <1>0, <3>3, <4>1, <4>2, SameTakers, SameStatus
    <3> QED BY <3>2, <3>3
  <2> QED BY <1>2, <2>1, <2>2, <2>3, <2>4, <2>5, <2>6 DEF Continue
<1>3. CASE Reap
  <2>1. PICK ids \in SUBSET PasteId : ids = Overdue
    BY DEF Overdue
  <2>2. Remove(ids) /\ UNCHANGED local /\ shown' = shown /\ \A id \in ids : Live(id)
    BY <1>3, <2>1 DEF Reap, Overdue
  <2>3. Promise!Withdraw(ids)
    BY <2>2, WithdrawStep
  <2> QED BY <2>3 DEF Promise!Next
<1>4. ASSUME NEW by \in Author, NEW id \in PasteId, Delete(by, id) PROVE Promise!Next
  <2>1. {id} \in SUBSET PasteId
    OBVIOUS
  <2>2. Promise!Withdraw({id})
    BY <1>4, <2>1, WithdrawStep DEF Delete, Loaded
  <2> QED BY <2>1, <2>2 DEF Promise!Next
<1>5. CASE Prune \/ Tick \/ UNCHANGED vars
  <2>1. UNCHANGED <<paste, minted, pc, req, shown>>
    BY <1>5 DEF Prune, Tick, vars, tables, local
  <2>2. PasteStatus' = PasteStatus
    BY <2>1 DEF PasteStatus, Live, Taken
  <2> QED BY <2>1, <2>2 DEF Promise!abstract
<1> QED BY <1>1, <1>2, <1>3, <1>4, <1>5 DEF Next, Promise!abstract

(* The store implements BurnOnce: whatever is in flight, a paste leaves the *)
(* store once, and only the reveal that took it shows its body, once.       *)
THEOREM ReadOnceCorrect == Spec => ReadOnce
<1>1. Spec => Promise!Init
  BY PromiseInit DEF Spec
<1>2. PasteInv /\ [Next]_vars => [Promise!Next]_(Promise!abstract)
  BY PromiseStep
<1> QED BY <1>1, <1>2, PasteInvariant, PTL DEF Spec, ReadOnce, Promise!Spec


(* In the words of BurnOnce: nobody has read a paste that can still be      *)
(* taken, and at most one reader one that is gone.                          *)
THEOREM OneReader == Spec => []Promise!AtMostOneReader
<1>1. PasteInv => Promise!AtMostOneReader
  <2> SUFFICES ASSUME PasteInv, NEW id \in PasteId
               PROVE  /\ PasteStatus[id] \in Promise!Status
                      /\ shown[id] \in 0..(IF PasteStatus[id] = "gone" THEN 1 ELSE 0)
    BY DEF Promise!AtMostOneReader
  <2>1. PasteOK(id) /\ (Taken(id) => shown[id] = 0)
    BY DEF PasteInv, HandlerOK, Taken
  <2> QED BY <2>1 DEF PasteOK, PasteStatus, Promise!Status
<1> QED BY <1>1, PasteInvariant, PTL

-----------------------------------------------------------------------------
(* The quota.  A creation is let through while the account has room, and it *)
(* may find the room taken when it inserts.  What is bounded by induction   *)
(* is therefore the number of an account's pastes and of its creations in   *)
(* flight, together.                                                        *)
QuotaFor(a) ==
    Cardinality(Owned(a)) + Cardinality(Pending(a))
        <= AccountLimit + Cardinality(Handler) - 1 + missed[a]

QuotaInv == \A a \in Account \ Admin : QuotaFor(a)

(* What a failed count lets through is only ever added to. *)
Grows(a) == missed[a] \in Nat /\ missed'[a] \in Nat /\ missed[a] <= missed'[a]

LEMMA MissedGrows ==
    ASSUME TypeOK, [Next]_vars, NEW a \in Account
    PROVE  Grows(a)
<1>1. missed[a] \in Nat /\ missed'[a] \in Nat
  BY NextType, BoundAssumption DEF TypeOK
<1>2. ASSUME NEW by, NEW body, Admitted(by, body) PROVE missed[a] <= missed'[a]
  BY <1>2, AdmittedType
<1>3. ASSUME NEW p \in Handler, Request(p), missed' # missed PROVE missed[a] <= missed'[a]
  BY <1>2, <1>3 DEF Request, Create, Fork, Edit, StartEdit, Reveal
<1>4. ASSUME NEW p \in Handler, Continue(p), missed' # missed PROVE missed[a] <= missed'[a]
  BY <1>2, <1>4 DEF Continue, ForkCheck, Insert, EditCommit, Burn, Show, Fail
<1>5. Reap \/ Prune \/ Tick \/ UNCHANGED vars => missed' = missed
  BY DEF Reap, Prune, Tick, vars
<1>6. ASSUME NEW by, NEW id, Delete(by, id) PROVE missed' = missed
  BY <1>6 DEF Delete
<1>7. CASE missed' = missed
  BY <1>1, <1>7 DEF Grows
<1>8. CASE missed' # missed
  BY <1>1, <1>3, <1>4, <1>5, <1>6, <1>8 DEF Next, Grows
<1> QED BY <1>7, <1>8

LEMMA Counts ==
    ASSUME NEW a
    PROVE  /\ IsFiniteSet(Owned(a)) /\ Cardinality(Owned(a)) \in Nat
           /\ IsFiniteSet(Pending(a)) /\ Cardinality(Pending(a)) \in Nat
           /\ Cardinality(Pending(a)) <= Cardinality(Handler)
           /\ Cardinality(Handler) \in Nat \ {0} /\ AccountLimit \in Nat \ {0}
<1>1. IsFiniteSet(PasteId)
  BY BoundAssumption, FS_Interval DEF PasteId
<1>2. Owned(a) \in SUBSET PasteId /\ Pending(a) \in SUBSET Handler
  BY DEF Owned, Pending
<1>3. IsFiniteSet(Owned(a)) /\ Cardinality(Owned(a)) \in Nat
  BY <1>1, <1>2, FS_Subset, FS_CardinalityType
<1>4. /\ IsFiniteSet(Pending(a)) /\ Cardinality(Pending(a)) \in Nat
      /\ Cardinality(Pending(a)) <= Cardinality(Handler)
  BY <1>2, HandlerAssumption, FS_Subset, FS_CardinalityType
<1>5. Cardinality(Handler) \in Nat \ {0}
  BY HandlerAssumption, FS_CardinalityType, FS_EmptySet
<1> QED BY <1>3, <1>4, <1>5, LimitAssumption

(* Fewer pastes and fewer creations. *)
LEMMA QuotaShrinks ==
    ASSUME NEW a, QuotaFor(a), Grows(a),
           NEW owned \in SUBSET Owned(a), NEW pending \in SUBSET Pending(a),
           Owned(a)' = owned, Pending(a)' = pending
    PROVE  QuotaFor(a)'
<1>1. /\ Cardinality(owned) \in Nat /\ Cardinality(owned) <= Cardinality(Owned(a))
      /\ Cardinality(pending) \in Nat /\ Cardinality(pending) <= Cardinality(Pending(a))
  BY Counts, FS_Subset, FS_CardinalityType
<1> QED BY <1>1, Counts DEF QuotaFor, Grows

(* A creation that found room, or that a failed count let through. *)
LEMMA QuotaAdmits ==
    ASSUME NEW a \in Account \ Admin, NEW body, NEW p \in Handler,
           TypeOK, QuotaFor(a), Grows(a), Admitted(a, body), Owned(a)' = Owned(a),
           \A q \in Handler \ {p} : pc'[q] = pc[q] /\ req'[q] = req[q]
    PROVE  QuotaFor(a)'
<1>1. PICK pending \in SUBSET Handler : pending = Pending(a)'
  BY DEF Pending
<1>2. Cardinality(pending) \in Nat /\ Cardinality(pending) <= Cardinality(Handler)
  BY HandlerAssumption, FS_Subset, FS_CardinalityType
<1>3. CASE HasRoom(Usage(a), body)
  <2>1. Cardinality(Owned(a)) < AccountLimit
    BY <1>3 DEF HasRoom, Usage
  <2> QED BY <1>1, <1>2, <2>1, Counts DEF QuotaFor, Grows
<1>4. CASE ~HasRoom(Usage(a), body)
  <2>1. missed'[a] = missed[a] + 1
    BY <1>4, AuthorAssumption DEF Admitted, TypeOK
  <2>2. PICK both : both = Pending(a) \cup {p}
    OBVIOUS
  <2>3. pending \in SUBSET both
    BY <1>1, <2>2 DEF Pending
  <2>4. IsFiniteSet(both) /\ Cardinality(both) <= Cardinality(Pending(a)) + 1
        /\ Cardinality(both) \in Nat
    <3>1. PICK old : old = Pending(a)
      OBVIOUS
    <3>2. IsFiniteSet(old) /\ Cardinality(old) \in Nat
      BY <3>1, Counts
    <3>3. /\ IsFiniteSet(old \cup {p})
          /\ Cardinality(old \cup {p}) = IF p \in old THEN Cardinality(old) ELSE Cardinality(old) + 1
      BY <3>2, FS_AddElement
    <3> QED BY <2>2, <3>1, <3>2, <3>3
  <2>5. Cardinality(pending) <= Cardinality(both)
    BY <2>3, <2>4, FS_Subset
  <2> QED BY <1>1, <1>2, <2>1, <2>4, <2>5, Counts DEF QuotaFor, Grows
<1> QED BY <1>3, <1>4

LEMMA SameOwned ==
    ASSUME paste' = paste, NEW a
    PROVE  Owned(a)' = Owned(a)
BY DEF Owned, Live

(* A step of one handler that starts no insertion for a. *)
LEMMA FewerPending ==
    ASSUME NEW a, NEW p \in Handler,
           ~(pc'[p] = "insert" /\ req'[p].row.owner = a),
           \A q \in Handler \ {p} : pc'[q] = pc[q] /\ req'[q] = req[q]
    PROVE  Pending(a)' = Pending(a) \ {p}
BY DEF Pending

LEMMA QuotaQuiet ==
    ASSUME NEW a, QuotaFor(a), Grows(a), NEW p \in Handler, paste' = paste,
           ~(pc'[p] = "insert" /\ req'[p].row.owner = a),
           \A q \in Handler \ {p} : pc'[q] = pc[q] /\ req'[q] = req[q]
    PROVE  QuotaFor(a)'
<1>1. PICK owned, pending : owned = Owned(a) /\ pending = Pending(a) \ {p}
  OBVIOUS
<1>2. Owned(a)' = owned /\ Pending(a)' = pending
  BY <1>1, SameOwned, FewerPending
<1> QED BY <1>1, <1>2, QuotaShrinks

LEMMA QuotaInsert ==
    ASSUME TypeOK, NEW a, QuotaFor(a), Grows(a), NEW p \in Handler, Insert(p)
    PROVE  QuotaFor(a)'
<1>1. PICK new \in PasteId, row \in Row : new = minted + 1 /\ row = req[p].row
  BY ReqFields DEF Insert
<1>2. /\ paste' = [paste EXCEPT ![new] = row] /\ row # NoPaste
      /\ pc[p] = "insert" /\ pc'[p] = "idle"
      /\ \A q \in Handler \ {p} : pc'[q] = pc[q] /\ req'[q] = req[q]
  BY <1>1, RowAssumption DEF Insert, Finish, Goto, TypeOK
<1>3. PICK pending : pending = Pending(a) \ {p}
  OBVIOUS
<1>4. Pending(a)' = pending
  BY <1>2, <1>3, FewerPending
<1>5. CASE row.owner = a
  <2>1. p \in Pending(a)
    BY <1>1, <1>2, <1>5 DEF Pending
  <2>2. Cardinality(pending) = Cardinality(Pending(a)) - 1
    BY <1>3, <2>1, Counts, FS_RemoveElement
  <2>3. Owned(a)' = Owned(a) \cup {new}
    BY <1>2, <1>5 DEF Owned, Live, TypeOK
  <2>4. PICK owned : owned = Owned(a) \cup {new}
    OBVIOUS
  <2>5. IsFiniteSet(Owned(a)) /\ Cardinality(Owned(a)) \in Nat
    BY Counts
  <2>6. IsFiniteSet(owned)
        /\ Cardinality(owned) = IF new \in Owned(a) THEN Cardinality(Owned(a))
                                                  ELSE Cardinality(Owned(a)) + 1
    BY <2>4, <2>5, FS_AddElement
  <2> QED BY <1>4, <2>2, <2>3, <2>4, <2>5, <2>6, Counts DEF QuotaFor, Grows
<1>6. CASE row.owner # a
  <2>1. PICK owned : owned = Owned(a) \ {new}
    OBVIOUS
  <2>2. Owned(a)' = owned
    BY <1>2, <1>6, <2>1 DEF Owned, Live, TypeOK
  <2> QED BY <1>3, <1>4, <2>1, <2>2, QuotaShrinks
<1> QED BY <1>5, <1>6

LEMMA QuotaRemove ==
    ASSUME TypeOK, NEW a, QuotaFor(a), Grows(a), NEW ids \in SUBSET PasteId, Remove(ids),
           pc' = pc, req' = req
    PROVE  QuotaFor(a)'
<1>1. PICK owned, pending : owned = Owned(a) \ ids /\ pending = Pending(a)
  OBVIOUS
<1>2. Owned(a)' = owned /\ Pending(a)' = pending
  BY <1>1, RemoveFacts DEF Owned, Pending
<1> QED BY <1>1, <1>2, QuotaShrinks

LEMMA QuotaHandler ==
    ASSUME TypeOK, NEW a \in Account \ Admin, QuotaFor(a), Grows(a), NEW p \in Handler,
           Request(p) \/ Continue(p)
    PROVE  QuotaFor(a)'
<1>1. ASSUME NEW by \in Author, NEW body \in Body, NEW burn \in BOOLEAN, NEW asked \in Asked,
             Create(p, by, body, burn, asked)
      PROVE  QuotaFor(a)'
  <2>1. PICK row : row = NewRow(by, body, burn, Expiry(asked, by), NoParent)
    OBVIOUS
  <2>2. /\ paste' = paste /\ pc' = [pc EXCEPT ![p] = "insert"]
        /\ req' = [req EXCEPT ![p] = Ask(1, SomeBody, row)]
    BY <1>1, <2>1 DEF Create, Start, tables
  <2>3. req'[p].row.owner = by
    BY <2>1, <2>2 DEF TypeOK, Ask, NewRow
  <2>4. CASE by = a
    BY <1>1, <2>2, <2>4, SameOwned, QuotaAdmits DEF Create, TypeOK
  <2>5. CASE by # a
    BY <2>2, <2>3, <2>5, QuotaQuiet DEF TypeOK
  <2> QED BY <2>4, <2>5
<1>2. CASE ForkCheck(p)
  <2>1. PICK row, by : row = Edited(req[p].row, req[p].row.body, Expiry(Never, req[p].row.owner))
                       /\ by = req[p].row.owner
    OBVIOUS
  <2>2. /\ paste' = paste /\ req' = [req EXCEPT ![p] = Ask(1, SomeBody, row)]
        /\ \A q \in Handler \ {p} : pc'[q] = pc[q] /\ req'[q] = req[q]
    BY <1>2, <2>1, ForkCheckType DEF ForkCheck, Goto, tables, TypeOK
  <2>3. req'[p].row.owner = by
    BY <2>1, <2>2 DEF TypeOK, Ask, Edited, NewRow
  <2>4. CASE by = a
    BY <1>2, <2>1, <2>2, <2>4, SameOwned, QuotaAdmits DEF ForkCheck
  <2>5. CASE by # a
    BY <2>2, <2>3, <2>5, QuotaQuiet
  <2> QED BY <2>4, <2>5
<1>3. CASE Insert(p)
  BY <1>3, QuotaInsert
<1>4. CASE EditCommit(p)
  <2>1. PICK id \in PasteId : id = req[p].id
    BY ReqFields
  <2>2. PICK row : row = Edited(paste[id], req[p].row.body, req[p].row.expires)
    OBVIOUS
  <2>3. Live(id) /\ paste' = [paste EXCEPT ![id] = row]
    BY <1>4, <2>1, <2>2 DEF EditCommit, Rewrite
  <2>4. row \in Row /\ row.owner = paste[id].owner
    BY <2>2, <2>3, LiveRow, ReqFields, RowChanges DEF Edited, NewRow
  <2>5. Owned(a)' = Owned(a)
    BY <2>3, <2>4, RowAssumption DEF Owned, Live, TypeOK
  <2>6. pc'[p] = "idle" /\ \A q \in Handler \ {p} : pc'[q] = pc[q] /\ req'[q] = req[q]
    BY <1>4 DEF EditCommit, Finish, Goto, TypeOK
  <2>7. PICK owned, pending : owned = Owned(a) /\ pending = Pending(a) \ {p}
    OBVIOUS
  <2>8. Pending(a)' = pending
    BY <2>6, <2>7, FewerPending
  <2> QED BY <2>5, <2>7, <2>8, QuotaShrinks
<1>5. CASE Burn(p)
  <2>1. PICK id \in PasteId : id = req[p].id
    BY ReqFields
  <2>2. /\ Remove({id}) /\ req' = req /\ pc[p] = "burn" /\ pc' = [pc EXCEPT ![p] = "show"]
    BY <1>5, <2>1 DEF Burn, Goto
  <2>3. PICK owned, pending : owned = Owned(a) \ {id} /\ pending = Pending(a) \ {p}
    OBVIOUS
  <2>4. Owned(a)' = owned
    BY <2>2, <2>3, RemoveFacts DEF Owned
  <2>5. Pending(a)' = pending
    BY <2>2, <2>3 DEF Pending, TypeOK
  <2> QED BY <2>3, <2>4, <2>5, QuotaShrinks
<1>6. CASE Show(p) \/ Fail(p)
  BY <1>6, QuotaQuiet DEF Show, Fail, Finish, Goto, tables, TypeOK
<1>7. ASSUME NEW by \in Author, NEW id \in PasteId, Fork(p, by, id) PROVE QuotaFor(a)'
  BY <1>7, QuotaQuiet DEF Fork, Start, tables, TypeOK
<1>8. ASSUME NEW by \in Author, NEW id \in PasteId, NEW body \in Body, NEW asked \in Asked,
             Edit(p, by, id, body, asked)
      PROVE  QuotaFor(a)'
  BY <1>8, QuotaQuiet DEF Edit, StartEdit, Start, tables, TypeOK
<1>9. ASSUME NEW id \in PasteId, Reveal(p, id) PROVE QuotaFor(a)'
  BY <1>9, QuotaQuiet DEF Reveal, Start, tables, TypeOK
<1> QED BY <1>1, <1>2, <1>3, <1>4, <1>5, <1>6, <1>7, <1>8, <1>9 DEF Request, Continue

LEMMA QuotaInductive == TypeOK /\ QuotaInv /\ [Next]_vars => QuotaInv'
<1> SUFFICES ASSUME TypeOK, QuotaInv, [Next]_vars, NEW a \in Account \ Admin PROVE QuotaFor(a)'
  BY DEF QuotaInv
<1>0. QuotaFor(a) /\ Grows(a)
  BY MissedGrows DEF QuotaInv
<1>1. CASE Reap
  <2>1. PICK ids \in SUBSET PasteId : ids = Overdue
    BY DEF Overdue
  <2> QED BY <1>0, <1>1, <2>1, QuotaRemove DEF Reap, local
<1>2. ASSUME NEW by \in Author, NEW id \in PasteId, Delete(by, id) PROVE QuotaFor(a)'
  <2>1. {id} \in SUBSET PasteId
    OBVIOUS
  <2> QED BY <1>0, <1>2, <2>1, QuotaRemove DEF Delete, local
<1>3. CASE Prune \/ Tick \/ UNCHANGED vars
  <2>1. UNCHANGED <<paste, pc, req>>
    BY <1>3 DEF Prune, Tick, vars, tables, local
  <2>2. missed' = missed
    BY <1>3 DEF Prune, Tick, vars
  <2> QED BY <1>0, <2>1, <2>2 DEF QuotaFor, Owned, Pending, Live
<1> QED BY <1>0, <1>1, <1>2, <1>3, QuotaHandler DEF Next

LEMMA QuotaInit == Init => QuotaInv
<1> SUFFICES ASSUME Init, NEW a \in Account \ Admin PROVE QuotaFor(a)
  BY DEF QuotaInv
<1>1. Owned(a) = {} /\ Pending(a) = {}
  BY DEF Init, Owned, Pending, Live
<1>2. missed[a] = 0
  BY DEF Init
<1> QED BY <1>1, <1>2, FS_EmptySet, Counts DEF QuotaFor

(* Creations in flight together pass the quota by no more than the other    *)
(* handlers there are and the creations a failed count let through, for     *)
(* every limit and any number of handlers and of failures.                  *)
THEOREM QuotaCorrect == Spec => []QuotaNearlyKept
<1>1. QuotaInv => QuotaNearlyKept
  BY DEF QuotaInv, QuotaNearlyKept, QuotaFor
<1> QED BY <1>1, TypeCorrect, QuotaInit, QuotaInductive, PTL DEF Spec
=============================================================================
