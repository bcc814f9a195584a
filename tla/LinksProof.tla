----------------------------- MODULE LinksProof -----------------------------
(***************************************************************************)
(* What is proved of Links, for any number of requests, accounts, links and *)
(* codes: its type, that every click counts once, that the limit is nearly  *)
(* kept, that a write goes to a link of the account it was asked for, and   *)
(* that a walk of the list skips nothing.                                   *)
(***************************************************************************)
EXTENDS Links, FiniteSetTheorems, TLAPS

(* Only handler h moves, or the clients that walk lists and end accounts. *)
OnlyMoves(h) ==
    \A g \in Handler \ {h} : pc'[g] = pc[g] /\ who'[g] = who[g] /\ link'[g] = link[g]

Loading(h) ==
    \E place \in {"edit", "delete"}, a \in Account, i \in LinkId :
        (owner[i] = a \/ a \in Admin) /\ Load(h, place, a, i)

LEMMA RequestCases ==
    ASSUME NEW h \in Handler, Request(h)
    PROVE  \/ \E a \in Account : CreateLink(h, a)
           \/ Loading(h)
           \/ \E i \in LinkId : Resolve(h, i)
BY DEF Request, Loading, EditLink, UpdateLink, DeleteLink, MayEdit

-----------------------------------------------------------------------------
(* Clicks.  A handler that has resolved a link and not counted it yet is    *)
(* what the count of that link lags behind by.                              *)
Clickers(i) == {h \in Handler : pc[h] = "click" /\ link[h] = i}

LEMMA ClickersCounted ==
    \A i : IsFiniteSet(Clickers(i)) /\ Cardinality(Clickers(i)) \in Nat
<1> TAKE i
<1>1. Clickers(i) \subseteq Handler
    BY DEF Clickers
<1>2. IsFiniteSet(Clickers(i))
    BY <1>1, HandlerAssumption, FS_Subset
<1> QED
    BY <1>2, FS_CardinalityType

LEMMA OneFewer ==
    ASSUME NEW i, NEW h \in Clickers(i)
    PROVE  Cardinality(Clickers(i) \ {h}) = Cardinality(Clickers(i)) - 1
BY ClickersCounted, FS_RemoveElement

LEMMA OneMore ==
    ASSUME NEW i, NEW h, h \notin Clickers(i)
    PROVE  Cardinality(Clickers(i) \cup {h}) = Cardinality(Clickers(i)) + 1
BY ClickersCounted, FS_AddElement

Counted(i) == clicks[i] + Cardinality(Clickers(i)) = visits[i]

(* Who is idle acts for nobody, and is nobody's that has ended. *)
IdleClean == \A h \in Handler : pc[h] = "idle" => who[h] = Nobody /\ h \notin outlived

TypeInv == TypeOK /\ IdleClean /\ \A i \in LinkId : Live(i) => Counted(i)

LEMMA CountsKept ==
    ASSUME TypeInv,
           \A i \in LinkId : Live(i)' => /\ Live(i) /\ Clickers(i)' = Clickers(i)
                                         /\ clicks'[i] = clicks[i] /\ visits'[i] = visits[i]
    PROVE  \A i \in LinkId : Live(i)' => Counted(i)'
BY DEF TypeInv, Counted

LEMMA StartMoves ==
    ASSUME TypeInv, NEW h \in Handler, NEW a \in Account \cup {Nobody}, NEW i \in 0..minted,
           NEW place \in {"idle", "insert", "edit", "delete", "click"}, Start(h, place, a, i)
    PROVE  /\ pc' \in [Handler -> {"idle", "insert", "edit", "delete", "click"}]
           /\ who' \in [Handler -> Account \cup {Nobody}]
           /\ link' \in [Handler -> 0..minted]
           /\ pc[h] = "idle" /\ pc'[h] = place /\ who'[h] = a /\ link'[h] = i
           /\ OnlyMoves(h)
BY DEF TypeInv, TypeOK, Start, Goto, OnlyMoves

LEMMA FinishMoves ==
    ASSUME TypeInv, NEW h \in Handler, Finish(h)
    PROVE  /\ pc' \in [Handler -> {"idle", "insert", "edit", "delete", "click"}]
           /\ who' \in [Handler -> Account \cup {Nobody}]
           /\ link' \in [Handler -> 0..minted]
           /\ outlived' = outlived \ {h}
           /\ pc'[h] = "idle" /\ who'[h] = Nobody /\ link'[h] = 0
           /\ OnlyMoves(h)
<1>1. minted \in Nat
    BY BoundAssumption DEF TypeInv, TypeOK
<1> QED
    BY <1>1 DEF TypeInv, TypeOK, Finish, Goto, OnlyMoves

LEMMA OthersClick ==
    ASSUME NEW h \in Handler, OnlyMoves(h), pc[h] # "click", pc'[h] # "click"
    PROVE  \A i : Clickers(i)' = Clickers(i)
BY DEF OnlyMoves, Clickers

(* The rows that go, and what is left of them. *)
LEMMA DropType ==
    ASSUME TypeInv, NEW ids \in SUBSET LinkId, Drop(ids)
    PROVE  /\ code' \in [LinkId -> Code \cup {NoCode}]
           /\ owner' \in [LinkId -> Account \cup {Nobody}]
           /\ clicks' \in [LinkId -> 0..MaxVisit] /\ visits' \in [LinkId -> 0..MaxVisit]
           /\ \A i \in LinkId : Live(i)' => /\ Live(i) /\ i \notin ids /\ code'[i] = code[i]
                                            /\ owner'[i] = owner[i] /\ clicks'[i] = clicks[i]
                                            /\ visits'[i] = visits[i]
           /\ \A i \in LinkId : Live(i) /\ i \notin ids => Live(i)'
           /\ \A i, j \in LinkId : Live(i)' /\ code'[i] = code'[j] => i = j
<1>1. 0 \in 0..MaxVisit
    BY BoundAssumption
<1> QED
    BY <1>1 DEF TypeInv, TypeOK, Drop, Live

LEMMA TypeInit == Init => TypeInv
<1> SUFFICES ASSUME Init PROVE TypeInv
    OBVIOUS
<1>1. TypeOK
    <2>1. MaxVisit \in Nat /\ MaxLink \in Nat /\ 0 \in 0..MaxVisit /\ 0 \in 0..MaxLink
        BY BoundAssumption
    <2>2. /\ created \in [LinkId -> Nat] /\ clicks \in [LinkId -> 0..MaxVisit]
          /\ visits \in [LinkId -> 0..MaxVisit] /\ link \in [Handler -> 0..minted]
        BY <2>1 DEF Init
    <2>3. \A i \in LinkId : ~Live(i)
        BY DEF Init, Live
    <2>4. /\ code \in [LinkId -> Code \cup {NoCode}]
          /\ owner \in [LinkId -> Account \cup {Nobody}]
          /\ who \in [Handler -> Account \cup {Nobody}]
          /\ pc \in [Handler -> {"idle", "insert", "edit", "delete", "click"}]
        BY DEF Init
    <2>5. /\ accounts \subseteq Account /\ Admin \subseteq accounts
          /\ minted \in 0..MaxLink /\ mark \in 0..minted
          /\ due \subseteq 1..minted /\ seen \subseteq 1..minted
          /\ walker \in accounts \cup {Nobody} /\ cursor \in Code \cup {NoCode}
          /\ paging \in {"idle", "walking", "through"} /\ outlived \subseteq Handler
        BY <2>1, AccountAssumption DEF Init
    <2>6. strayed \in BOOLEAN
        BY Zenon DEF Init
    <2>7. missed \in [Account -> 0..MaxMiss]
        BY BoundAssumption DEF Init
    <2> QED
        BY <2>2, <2>3, <2>4, <2>5, <2>6, <2>7 DEF TypeOK
<1>2. IdleClean
    BY DEF Init, IdleClean
<1>3. \A i \in LinkId : ~Live(i)
    BY DEF Init, Live
<1> QED
    BY <1>1, <1>2, <1>3 DEF TypeInv

LEMMA InsertType ==
    ASSUME TypeInv, NEW h \in Handler, NEW c \in Code, InsertLink(h, c)
    PROVE  TypeInv'
<1>1. PICK i \in LinkId :
          /\ NextId(i)
          /\ minted' = IF i > minted THEN i ELSE minted
          /\ code' = [code EXCEPT ![i] = c]
          /\ owner' = [owner EXCEPT ![i] = who[h]]
          /\ LET last == IF i = 1 THEN 0 ELSE created[i - 1]
             IN  \E t \in {last, last + 1} : created' = [created EXCEPT ![i] = t]
          /\ clicks' = [clicks EXCEPT ![i] = 0]
          /\ visits' = [visits EXCEPT ![i] = 0]
    BY DEF InsertLink
<1>2. /\ i = minted + 1 /\ minted' = i /\ minted \in Nat /\ i \in 1..MaxLink
      /\ MaxLink \in Nat /\ MaxVisit \in Nat
    BY <1>1, BoundAssumption DEF NextId, TypeInv, TypeOK, LinkId
<1>3. /\ who[h] \in accounts /\ pc[h] = "insert" /\ ~Taken(c) /\ Finish(h)
      /\ UNCHANGED <<accounts, walk, missed>>
    BY DEF InsertLink
<1>4. created' \in [LinkId -> Nat]
    <2>1. (IF i = 1 THEN 0 ELSE created[i - 1]) \in Nat
        BY <1>2 DEF TypeInv, TypeOK, LinkId
    <2> QED
        BY <1>1, <2>1 DEF TypeInv, TypeOK
<1>5. /\ code' \in [LinkId -> Code \cup {NoCode}]
      /\ owner' \in [LinkId -> Account \cup {Nobody}]
      /\ clicks' \in [LinkId -> 0..MaxVisit] /\ visits' \in [LinkId -> 0..MaxVisit]
    BY <1>1, <1>2, <1>3 DEF TypeInv, TypeOK
<1>6. \A j \in LinkId : Live(j)' => j <= minted' /\ owner'[j] \in accounts
    BY <1>1, <1>2, <1>3 DEF TypeInv, TypeOK, Live, LinkId
<1>7. \A j, k \in LinkId : Live(j)' /\ code'[j] = code'[k] => j = k
    BY <1>1, <1>3 DEF TypeInv, TypeOK, Live, Taken
<1>8. /\ pc' \in [Handler -> {"idle", "insert", "edit", "delete", "click"}]
      /\ who' \in [Handler -> Account \cup {Nobody}]
      /\ link' \in [Handler -> 0..minted] /\ OnlyMoves(h)
      /\ outlived' = outlived \ {h} /\ pc'[h] = "idle" /\ who'[h] = Nobody
    BY <1>3, FinishMoves
<1>9. 0..minted \subseteq 0..minted' /\ 1..minted \subseteq 1..minted' /\ minted' \in 0..MaxLink
    BY <1>2
<1>10. TypeOK'
    <2>1. link' \in [Handler -> 0..minted']
        BY <1>8, <1>9
    <2> QED
        BY <1>3, <1>4, <1>5, <1>6, <1>7, <1>8, <1>9, <2>1 DEF TypeInv, TypeOK, walk
<1>11. IdleClean'
    BY <1>8 DEF TypeInv, IdleClean, OnlyMoves
<1>12. \A j : Clickers(j)' = Clickers(j)
    BY <1>3, <1>8, OthersClick
<1>13. Clickers(i) = {}
    BY <1>2 DEF Clickers, TypeInv, TypeOK
<1>14. Cardinality(Clickers(i)) = 0
    BY <1>13, FS_EmptySet
<1>15. ASSUME NEW j \in LinkId, Live(j)'
       PROVE  Counted(j)'
    <2>1. CASE j = i
        BY <1>1, <1>12, <1>14, <2>1 DEF Counted, TypeInv, TypeOK
    <2>2. CASE j # i
        BY <1>1, <1>12, <1>15, <2>2 DEF Counted, TypeInv, TypeOK, Live
    <2> QED
        BY <2>1, <2>2
<1> QED
    BY <1>10, <1>11, <1>15 DEF TypeInv

LEMMA StepType ==
    ASSUME TypeInv, NEW h \in Handler, Step(h)
    PROVE  TypeInv'
<1>1. ASSUME NEW c \in Code, InsertLink(h, c)
      PROVE  TypeInv'
    BY <1>1, InsertType
<1>2. ASSUME NEW c \in Code, Rename(h, c)
      PROVE  TypeInv'
    <2>1. /\ pc[h] = "edit" /\ Finish(h)
          /\ UNCHANGED <<accounts, owner, created, clicks, minted, walk, visits, missed>>
        BY <1>2 DEF Rename
    <2>2. /\ code' \in [LinkId -> Code \cup {NoCode}]
          /\ \A i \in LinkId : Live(i)' => Live(i)
          /\ \A i, j \in LinkId : Live(i)' /\ code'[i] = code'[j] => i = j
        BY <1>2, CodeAssumption DEF Rename, TypeInv, TypeOK, Live
    <2>3. TypeOK'
        BY <2>1, <2>2, FinishMoves DEF TypeInv, TypeOK, walk
    <2>4. IdleClean'
        BY <2>1, FinishMoves DEF TypeInv, IdleClean, OnlyMoves
    <2>5. \A i : Clickers(i)' = Clickers(i)
        BY <2>1, FinishMoves, OthersClick
    <2> QED
        BY <2>1, <2>2, <2>3, <2>4, <2>5, CountsKept DEF TypeInv
<1>3. CASE RefuseInsert(h)
    <2>1. pc[h] = "insert" /\ Finish(h) /\ UNCHANGED <<table, walk, visits, missed>>
        BY <1>3 DEF RefuseInsert
    <2>2. TypeOK'
        BY <2>1, FinishMoves DEF TypeInv, TypeOK, table, walk, Live
    <2>3. IdleClean'
        BY <2>1, FinishMoves DEF TypeInv, IdleClean, OnlyMoves
    <2>4. \A i : Clickers(i)' = Clickers(i)
        BY <2>1, FinishMoves, OthersClick
    <2> QED
        BY <2>1, <2>2, <2>3, <2>4, CountsKept DEF TypeInv, table, Live
<1>4. CASE RemoveLink(h)
    <2>1. /\ pc[h] = "delete" /\ Finish(h) /\ Drop({link[h]})
          /\ UNCHANGED <<accounts, walk, missed>>
        BY <1>4 DEF RemoveLink
    <2>2. PICK ids \in SUBSET LinkId : Drop(ids)
        <3>1. Drop({link[h]}) => Drop({link[h]} \cap LinkId)
            BY DEF Drop
        <3> QED
            BY <2>1, <3>1
    <2>3. TypeOK'
        <3>1. UNCHANGED <<created, minted>>
            BY <2>2 DEF Drop
        <3>2. \A i \in LinkId : Live(i)' => i <= minted' /\ owner'[i] \in accounts'
            BY <2>1, <2>2, <3>1, DropType DEF TypeInv, TypeOK
        <3> QED
            BY <2>1, <2>2, <3>1, <3>2, DropType, FinishMoves DEF TypeInv, TypeOK, walk
    <2>4. IdleClean'
        BY <2>1, FinishMoves DEF TypeInv, IdleClean, OnlyMoves
    <2>5. \A i : Clickers(i)' = Clickers(i)
        BY <2>1, FinishMoves, OthersClick
    <2> QED
        BY <2>2, <2>3, <2>4, <2>5, DropType, CountsKept DEF TypeInv
<1>5. CASE Click(h)
    <2> DEFINE i == link[h]
    <2>1. /\ pc[h] = "click" /\ Finish(h)
          /\ clicks' = IF Live(i) THEN [clicks EXCEPT ![i] = clicks[i] + 1] ELSE clicks
          /\ UNCHANGED <<accounts, code, owner, created, minted, walk, visits, missed>>
        BY <1>5 DEF Click
    <2>2. i \in LinkId => Cardinality(Clickers(i) \ {h}) = Cardinality(Clickers(i)) - 1
        BY <2>1, OneFewer DEF Clickers
    <2>3. \A j \in LinkId : Clickers(j)' = IF j = i THEN Clickers(j) \ {h} ELSE Clickers(j)
        BY <2>1, FinishMoves DEF Clickers, OnlyMoves
    <2>4. /\ MaxVisit \in Nat
          /\ \A j \in LinkId : clicks[j] \in 0..MaxVisit /\ visits[j] \in 0..MaxVisit
        BY BoundAssumption DEF TypeInv, TypeOK
    <2>5. \A j \in LinkId : Live(j)' => Counted(j)'
        <3> SUFFICES ASSUME NEW j \in LinkId, Live(j)' PROVE Counted(j)'
            OBVIOUS
        <3>1. Live(j) /\ Counted(j)
            BY <2>1 DEF TypeInv, Live
        <3>2. CASE j = i
            <4>1. Clickers(j)' = Clickers(j) \ {h}
                BY <2>3, <3>2
            <4>2. Cardinality(Clickers(j))' = Cardinality(Clickers(j)) - 1
                BY <2>2, <3>2, <4>1
            <4>3. clicks'[j] = clicks[j] + 1 /\ visits'[j] = visits[j]
                BY <2>1, <3>1, <3>2 DEF TypeInv, TypeOK
            <4> QED
                BY <2>4, <3>1, <4>2, <4>3, ClickersCounted DEF Counted
        <3>3. CASE j # i
            BY <2>1, <2>3, <3>1, <3>3 DEF Counted, TypeInv, TypeOK
        <3> QED
            BY <3>2, <3>3
    <2>6. clicks' \in [LinkId -> 0..MaxVisit]
        <3>1. CASE Live(i) /\ i \in LinkId
            <4>1. Cardinality(Clickers(i)) >= 1
                BY <2>2, <3>1, ClickersCounted, FS_RemoveElement, FS_CardinalityType
            <4>2. clicks[i] + 1 \in 0..MaxVisit
                BY <2>4, <3>1, <4>1, ClickersCounted DEF TypeInv, Counted
            <4> QED
                BY <2>1, <3>1, <4>2 DEF TypeInv, TypeOK
        <3>2. CASE ~(Live(i) /\ i \in LinkId)
            BY <2>1, <3>2 DEF TypeInv, TypeOK
        <3> QED
            BY <3>1, <3>2
    <2>7. TypeOK'
        BY <2>1, <2>6, FinishMoves DEF TypeInv, TypeOK, walk, Live
    <2>8. IdleClean'
        BY <2>1, FinishMoves DEF TypeInv, IdleClean, OnlyMoves
    <2> QED
        BY <2>5, <2>7, <2>8 DEF TypeInv
<1> QED
    BY <1>1, <1>2, <1>3, <1>4, <1>5 DEF Step

LEMMA LetInType ==
    ASSUME TypeOK, NEW a \in Account, LetIn(a)
    PROVE  /\ missed' \in [Account -> 0..MaxMiss]
           /\ \A b \in Account : missed[b] <= missed'[b]
<1>1. \A b \in Account : missed[b] \in 0..MaxMiss
    BY DEF TypeOK
<1>2. CASE missed' = missed
    BY <1>1, <1>2, BoundAssumption DEF TypeOK
<1>3. CASE missed' # missed
    <2>1. missed[a] < MaxMiss /\ missed' = [missed EXCEPT ![a] = @ + 1]
        BY <1>3 DEF LetIn
    <2>2. missed[a] + 1 \in 0..MaxMiss
        BY <1>1, <2>1, BoundAssumption
    <2> QED
        BY <1>1, <2>1, <2>2, BoundAssumption DEF TypeOK
<1> QED
    BY <1>2, <1>3

LEMMA RequestType ==
    ASSUME TypeInv, NEW h \in Handler, Request(h)
    PROVE  TypeInv'
<1>0. 0 \in 0..minted
    BY BoundAssumption DEF TypeInv, TypeOK
<1>1. ASSUME NEW a \in Account, CreateLink(h, a)
      PROVE  TypeInv'
    <2>1. /\ a \in accounts /\ Start(h, "insert", a, 0)
          /\ UNCHANGED <<table, walk, visits, outlived>>
        BY <1>1 DEF CreateLink
    <2>2. missed' \in [Account -> 0..MaxMiss]
        BY <1>1, LetInType DEF CreateLink, TypeInv
    <2>3. TypeOK'
        BY <1>0, <2>1, <2>2, StartMoves DEF TypeInv, TypeOK, table, walk, Live
    <2>4. IdleClean'
        BY <1>0, <2>1, StartMoves DEF TypeInv, IdleClean, OnlyMoves
    <2>5. \A i : Clickers(i)' = Clickers(i)
        BY <1>0, <2>1, StartMoves, OthersClick
    <2> QED
        BY <2>1, <2>3, <2>4, <2>5, CountsKept DEF TypeInv, table, Live
<1>2. CASE Loading(h)
    <2>1. PICK place \in {"edit", "delete"}, a \in Account, i \in LinkId : Load(h, place, a, i)
        BY <1>2 DEF Loading
    <2>2. /\ Start(h, place, a, i) /\ i \in 0..minted
          /\ UNCHANGED <<table, walk, history>>
        BY <2>1, BoundAssumption DEF Load, TypeInv, TypeOK, LinkId
    <2>3. TypeOK'
        BY <2>1, <2>2, StartMoves DEF TypeInv, TypeOK, table, walk, history, Live
    <2>4. IdleClean'
        <3>1. pc'[h] # "idle" /\ OnlyMoves(h) /\ outlived' = outlived
            BY <2>1, <2>2, StartMoves DEF history
        <3> QED
            BY <3>1 DEF TypeInv, IdleClean, OnlyMoves
    <2>5. \A j : Clickers(j)' = Clickers(j)
        BY <2>1, <2>2, StartMoves, OthersClick
    <2> QED
        BY <2>2, <2>3, <2>4, <2>5, CountsKept DEF TypeInv, table, history, Live
<1>3. ASSUME NEW i \in LinkId, Resolve(h, i)
      PROVE  TypeInv'
    <2>1. /\ Live(i) /\ visits[i] < MaxVisit /\ i \in 0..minted
          /\ visits' = [visits EXCEPT ![i] = visits[i] + 1]
          /\ Start(h, "click", Nobody, i)
          /\ UNCHANGED <<table, walk, outlived, missed>>
        BY <1>3, BoundAssumption DEF Resolve, TypeInv, TypeOK, LinkId
    <2>0. pc[h] = "idle" /\ pc'[h] = "click" /\ link'[h] = i /\ OnlyMoves(h)
        BY <2>1, StartMoves
    <2>2. ASSUME NEW j
          PROVE  Clickers(j)' = IF j = i THEN Clickers(j) \cup {h} ELSE Clickers(j)
        <3>1. \A g \in Handler \ {h} : g \in Clickers(j)' <=> g \in Clickers(j)
            BY <2>0 DEF Clickers, OnlyMoves
        <3>2. h \notin Clickers(j) /\ (h \in Clickers(j)' <=> j = i)
            BY <2>0 DEF Clickers
        <3>3. Clickers(j) \subseteq Handler /\ Clickers(j)' \subseteq Handler
            BY DEF Clickers
        <3> QED
            BY <3>1, <3>2, <3>3
    <2>3. h \notin Clickers(i)
        BY <2>0 DEF Clickers
    <2>4. MaxVisit \in Nat /\ \A j \in LinkId : clicks[j] \in 0..MaxVisit /\ visits[j] \in 0..MaxVisit
        BY BoundAssumption DEF TypeInv, TypeOK
    <2>5. ASSUME NEW j \in LinkId, Live(j)'
          PROVE  Counted(j)'
        <3>1. Live(j) /\ Counted(j) /\ clicks' = clicks
            BY <2>1, <2>5 DEF TypeInv, Live, table
        <3>2. CASE j = i
            <4>1. Cardinality(Clickers(j))' = Cardinality(Clickers(j)) + 1
                BY <2>2, <2>3, <3>2, OneMore
            <4>2. visits'[j] = visits[j] + 1
                BY <2>1, <3>2 DEF TypeInv, TypeOK
            <4> QED
                BY <2>4, <3>1, <4>1, <4>2, ClickersCounted DEF Counted
        <3>3. CASE j # i
            BY <2>1, <2>2, <3>1, <3>3 DEF Counted, TypeInv, TypeOK
        <3> QED
            BY <3>2, <3>3
    <2>6. visits' \in [LinkId -> 0..MaxVisit]
        BY <2>1, <2>4 DEF TypeInv, TypeOK
    <2>7. TypeOK'
        BY <2>1, <2>6, StartMoves DEF TypeInv, TypeOK, table, walk, Live
    <2>8. IdleClean'
        BY <2>1, StartMoves DEF TypeInv, IdleClean, OnlyMoves
    <2> QED
        BY <2>5, <2>7, <2>8 DEF TypeInv
<1> QED
    BY <1>1, <1>2, <1>3, RequestCases

LEMMA DisconnectType ==
    ASSUME TypeInv, NEW h \in Handler, Disconnect(h)
    PROVE  TypeInv'
<1> DEFINE i == link[h]
<1>1. /\ Finish(h) /\ pc[h] # "idle"
      /\ visits' = IF pc[h] = "click" /\ Live(i) THEN [visits EXCEPT ![i] = visits[i] - 1] ELSE visits
      /\ UNCHANGED <<table, walk, missed>>
    BY DEF Disconnect
<1>2. MaxVisit \in Nat /\ \A j \in LinkId : clicks[j] \in 0..MaxVisit /\ visits[j] \in 0..MaxVisit
    BY BoundAssumption DEF TypeInv, TypeOK
<1>3. IdleClean'
    BY <1>1, FinishMoves DEF TypeInv, IdleClean, OnlyMoves
<1>4. CASE pc[h] = "click" /\ i \in LinkId /\ Live(i)
    <2>1. \A j \in LinkId : Clickers(j)' = IF j = i THEN Clickers(j) \ {h} ELSE Clickers(j)
        BY <1>1, <1>4, FinishMoves DEF Clickers, OnlyMoves
    <2>2. Cardinality(Clickers(i) \ {h}) = Cardinality(Clickers(i)) - 1
        BY <1>4, OneFewer DEF Clickers
    <2>3. Cardinality(Clickers(i)) >= 1
        <3>1. IsFiniteSet(Clickers(i) \ {h})
            BY ClickersCounted, FS_RemoveElement
        <3>2. Cardinality(Clickers(i) \ {h}) \in Nat
            BY <3>1, FS_CardinalityType
        <3> QED
            BY <2>2, <3>2, ClickersCounted
    <2>4. visits'[i] = visits[i] - 1 /\ visits[i] >= 1
        BY <1>1, <1>2, <1>4, <2>3, ClickersCounted DEF TypeInv, TypeOK, Counted
    <2>5. ASSUME NEW j \in LinkId, Live(j)'
          PROVE  Counted(j)'
        <3>1. Live(j) /\ Counted(j) /\ clicks' = clicks
            BY <1>1, <2>5 DEF TypeInv, Live, table
        <3>2. CASE j = i
            <4>1. Cardinality(Clickers(j))' = Cardinality(Clickers(j)) - 1
                BY <2>1, <2>2, <3>2
            <4> QED
                BY <1>2, <2>4, <3>1, <3>2, <4>1, ClickersCounted DEF Counted
        <3>3. CASE j # i
            BY <1>1, <2>1, <3>1, <3>3 DEF Counted, TypeInv, TypeOK
        <3> QED
            BY <3>2, <3>3
    <2>6. visits' \in [LinkId -> 0..MaxVisit]
        BY <1>1, <1>2, <1>4, <2>4 DEF TypeInv, TypeOK
    <2>7. TypeOK'
        BY <1>1, <2>6, FinishMoves DEF TypeInv, TypeOK, table, walk, Live
    <2> QED
        BY <1>3, <2>5, <2>7 DEF TypeInv
<1>5. CASE pc[h] # "click" \/ i \notin LinkId \/ ~Live(i)
    <2>1. visits' = visits
        BY <1>1, <1>5 DEF TypeInv, TypeOK
    <2>2. \A j \in LinkId : Live(j) => Clickers(j)' = Clickers(j)
        BY <1>1, <1>5, FinishMoves DEF Clickers, OnlyMoves
    <2>3. TypeOK'
        BY <1>1, <2>1, FinishMoves DEF TypeInv, TypeOK, table, walk, Live
    <2> QED
        BY <1>1, <1>3, <2>1, <2>2, <2>3, CountsKept DEF TypeInv, table, Live
<1> QED
    BY <1>4, <1>5

(* A walk of somebody's list leaves everything else alone. *)
LEMMA WalkType ==
    ASSUME TypeInv, (\E a \in Account : ListLinks(a)) \/ EndWalk
    PROVE  TypeInv'
<1>1. UNCHANGED <<table, pc, who, link, history>>
    BY DEF ListLinks, EndWalk
<1>2. CASE EndWalk
    <2>1. TypeOK'
        <3>1. strayed' \in BOOLEAN
            BY <1>2, Zenon DEF EndWalk, StopWalk
        <3>2. mark' \in 0..minted
            BY <1>2, BoundAssumption DEF EndWalk, StopWalk, TypeInv, TypeOK
        <3> QED
            BY <1>1, <1>2, <3>1, <3>2 DEF EndWalk, StopWalk, TypeInv, TypeOK, table, history, Live
    <2> QED
        BY <1>1, <2>1 DEF TypeInv, IdleClean, Counted, Clickers, table, history, Live
<1>3. ASSUME NEW a \in Account, ListLinks(a)
      PROVE  TypeInv'
    <2>1. strayed' \in BOOLEAN
        <3>1. strayed' = TRUE \/ strayed' = FALSE
            BY <1>3, Zenon DEF ListLinks, TypeInv, TypeOK
        <3> QED
            BY <3>1, Zenon
    <2>2. Owned(a) \subseteq 1..minted /\ \A i \in Owned(a) : code[i] \in Code
        BY BoundAssumption DEF Owned, TypeInv, TypeOK, Live, LinkId
    <2>3. Below(a, cursor) \subseteq Owned(a)
        BY DEF Below
    <2>4. /\ a \in accounts /\ walker' = a
          /\ due' \in {due, Owned(a)}
        BY <1>3 DEF ListLinks
    <2>5. PICK page \in SUBSET Below(a, cursor) :
              /\ seen' = seen \cup page
              /\ \/ paging' = "through" /\ UNCHANGED <<cursor, mark>>
                 \/ \E i \in page : paging' = "walking" /\ mark' = i /\ cursor' = code[i]
        BY <1>3 DEF ListLinks
    <2>6. /\ seen' \subseteq 1..minted /\ due' \subseteq 1..minted
          /\ mark' \in 0..minted /\ cursor' \in Code \cup {NoCode}
          /\ paging' \in {"idle", "walking", "through"}
        <3>1. minted \in Nat /\ 1..minted \subseteq 0..minted
            BY BoundAssumption DEF TypeInv, TypeOK
        <3>2. seen' \subseteq 1..minted /\ due' \subseteq 1..minted
            BY <2>2, <2>3, <2>4, <2>5 DEF TypeInv, TypeOK
        <3> QED
            BY <2>2, <2>3, <2>5, <3>1, <3>2 DEF TypeInv, TypeOK
    <2>7. TypeOK'
        BY <1>1, <2>1, <2>4, <2>6 DEF TypeInv, TypeOK, table, history, Live
    <2> QED
        BY <1>1, <2>7 DEF TypeInv, IdleClean, Counted, Clickers, table, history, Live
<1> QED
    BY <1>2, <1>3

LEMMA PurgeType ==
    ASSUME TypeInv, NEW a \in Account, PurgeAccount(a)
    PROVE  TypeInv'
<1>1. /\ accounts' = accounts \ {a} /\ a \notin Admin
      /\ Drop(Owned(a)) /\ Owned(a) \subseteq LinkId
      /\ outlived' = outlived \cup {h \in Handler : who[h] = a}
      /\ UNCHANGED <<pc, who, link, created, minted, missed>>
    BY DEF PurgeAccount, Drop, Owned
<1>2. \A i \in LinkId : Live(i)' => i <= minted' /\ owner'[i] \in accounts'
    BY <1>1, DropType DEF TypeInv, TypeOK, Owned
<1>3. /\ paging' \in {"idle", "walking", "through"}
      /\ walker' \in accounts' \cup {Nobody}
      /\ cursor' \in Code \cup {NoCode} /\ mark' \in 0..minted'
      /\ due' \subseteq 1..minted' /\ seen' \subseteq 1..minted'
    <2>1. CASE walker = a
        <3>1. 0 \in 0..minted
            BY BoundAssumption DEF TypeInv, TypeOK
        <3> QED
            BY <1>1, <2>1, <3>1 DEF PurgeAccount, StopWalk
    <2>2. CASE walker # a
        BY <1>1, <2>2 DEF PurgeAccount, walk, TypeInv, TypeOK
    <2> QED
        BY <2>1, <2>2
<1>4. strayed' \in BOOLEAN
    <2>1. strayed' = FALSE \/ strayed' = strayed
        BY Zenon DEF PurgeAccount, StopWalk, walk
    <2> QED
        BY <2>1, Zenon DEF TypeInv, TypeOK
<1>5. TypeOK'
    BY <1>1, <1>2, <1>3, <1>4, DropType DEF TypeInv, TypeOK
<1>6. IdleClean'
    BY <1>1, AccountAssumption DEF TypeInv, IdleClean
<1> QED
    BY <1>1, <1>5, <1>6, DropType, CountsKept DEF TypeInv, Clickers

LEMMA NextType == TypeInv /\ [Next]_vars => TypeInv'
<1> SUFFICES ASSUME TypeInv, [Next]_vars PROVE TypeInv'
    OBVIOUS
<1>1. ASSUME NEW a \in Account, Signup(a)
      PROVE  TypeInv'
    <2>1. TypeOK'
        BY <1>1 DEF Signup, TypeInv, TypeOK, walk, history, Live
    <2> QED
        BY <1>1, <2>1 DEF Signup, TypeInv, IdleClean, Counted, Clickers, walk, history, Live
<1>2. CASE UNCHANGED vars
    <2>1. TypeOK'
        BY <1>2 DEF vars, TypeInv, TypeOK, table, walk, history, Live
    <2> QED
        BY <1>2, <2>1 DEF vars, TypeInv, IdleClean, Counted, Clickers, table, walk, history, Live
<1> QED
    BY <1>1, <1>2, StepType, RequestType, DisconnectType, WalkType, PurgeType DEF Next, Environment

(* The table keeps its type and its foreign and unique keys, and the clicks  *)
(* and ids stay within their bounds.                                         *)
THEOREM TypeCorrect == Spec => []TypeOK
<1>1. TypeInv => TypeOK
    BY DEF TypeInv
<1> QED
    BY <1>1, TypeInit, NextType, PTL DEF Spec

(* Every redirect through a link that is still there is counted on it once,  *)
(* or on its way to be, or was dropped; none on another link.                *)
THEOREM ClicksCorrect == Spec => []EveryClickCounted
<1>1. TypeInv => EveryClickCounted
    BY DEF TypeInv, EveryClickCounted, Counted, Clickers
<1> QED
    BY <1>1, TypeInit, NextType, PTL DEF Spec

-----------------------------------------------------------------------------
(* What a step does to the rows and to the handlers.  But for InsertLink,    *)
(* rows only go; but for a request that begins, handlers only finish.        *)
RowsKept == \A i \in LinkId : Live(i)' => Live(i) /\ owner'[i] = owner[i]

Writing == {"insert", "edit", "delete"}

HandlersKept ==
    \A g \in Handler :
        pc'[g] \in Writing => pc'[g] = pc[g] /\ who'[g] = who[g] /\ link'[g] = link[g]

LEMMA FinishKeeps ==
    ASSUME TypeInv, NEW h \in Handler, Finish(h)
    PROVE  HandlersKept /\ outlived' \subseteq outlived
BY FinishMoves DEF HandlersKept, OnlyMoves, Writing

LEMMA OthersKeep ==
    ASSUME TypeInv, [Next]_vars,
           \A h \in Handler, c \in Code : ~InsertLink(h, c),
           \A h \in Handler : ~Loading(h) /\ \A a \in Account : ~CreateLink(h, a),
           \A a \in Account : ~PurgeAccount(a)
    PROVE  RowsKept /\ HandlersKept /\ outlived' \subseteq outlived /\ UNCHANGED <<created, minted>>
<1>1. ASSUME NEW h \in Handler, Step(h)
      PROVE  RowsKept /\ HandlersKept /\ outlived' \subseteq outlived /\ UNCHANGED <<created, minted>>
    <2>1. Finish(h) /\ UNCHANGED <<created, minted>>
        BY <1>1 DEF Step, Rename, RefuseInsert, RemoveLink, Drop, Click, table
    <2>2. RemoveLink(h) => RowsKept
        BY DEF RemoveLink, Drop, RowsKept, Live
    <2>3. ASSUME NEW c \in Code, Rename(h, c)
          PROVE  RowsKept
        BY <2>3 DEF Rename, RowsKept, Live, TypeInv, TypeOK
    <2>4. RefuseInsert(h) \/ Click(h) => RowsKept
        BY DEF RefuseInsert, Click, RowsKept, Live, table
    <2> QED
        BY <1>1, <2>1, <2>2, <2>3, <2>4, FinishKeeps DEF Step
<1>2. ASSUME NEW h \in Handler, NEW i \in LinkId, Resolve(h, i)
      PROVE  RowsKept /\ HandlersKept /\ outlived' \subseteq outlived /\ UNCHANGED <<created, minted>>
    <2>1. Start(h, "click", Nobody, i) /\ UNCHANGED <<table, walk, outlived>>
        BY <1>2 DEF Resolve
    <2> QED
        BY <2>1 DEF Start, Goto, RowsKept, HandlersKept, Writing, table, Live, TypeInv, TypeOK
<1>3. ASSUME NEW h \in Handler, Disconnect(h)
      PROVE  RowsKept /\ HandlersKept /\ outlived' \subseteq outlived /\ UNCHANGED <<created, minted>>
    BY <1>3, FinishKeeps DEF Disconnect, RowsKept, table, Live
<1>4. CASE (\E a \in Account : Signup(a) \/ ListLinks(a)) \/ EndWalk \/ UNCHANGED vars
    BY <1>4
    DEF Signup, ListLinks, EndWalk, vars, table, history, RowsKept, HandlersKept, Writing, Live
<1> QED
    BY <1>1, <1>2, <1>3, <1>4, RequestCases DEF Next, Environment

LEMMA BeginKeeps ==
    ASSUME TypeInv, NEW h \in Handler, NEW a \in Account, CreateLink(h, a) \/ Loading(h)
    PROVE  /\ RowsKept /\ outlived' = outlived /\ UNCHANGED <<table, walk>>
           /\ OnlyMoves(h) /\ pc[h] = "idle" /\ pc'[h] \in Writing
           /\ CreateLink(h, a) => pc'[h] = "insert" /\ who'[h] = a
           /\ ~CreateLink(h, a) => pc'[h] # "insert"
<1>0. 0 \in 0..minted /\ \A i \in LinkId : Live(i) => i \in 0..minted
    BY BoundAssumption DEF TypeInv, TypeOK, LinkId
<1>1. CASE CreateLink(h, a)
    BY <1>0, <1>1, StartMoves DEF CreateLink, RowsKept, table, history, Live, Writing
<1>2. CASE Loading(h) /\ ~CreateLink(h, a)
    <2>1. PICK place \in {"edit", "delete"}, b \in Account, i \in LinkId : Load(h, place, b, i)
        BY <1>2 DEF Loading
    <2>2. i \in 0..minted
        BY <1>0, <2>1 DEF Load
    <2> QED
        BY <1>2, <2>1, <2>2, StartMoves DEF Load, RowsKept, table, history, Live, Writing
<1> QED
    BY <1>1, <1>2

LEMMA InsertKeeps ==
    ASSUME TypeInv, NEW h \in Handler, NEW c \in Code, InsertLink(h, c)
    PROVE  /\ minted + 1 \in LinkId /\ minted' = minted + 1
           /\ \A i \in LinkId \ {minted + 1} : /\ Live(i)' => Live(i) /\ owner'[i] = owner[i]
                                               /\ created'[i] = created[i]
           /\ owner'[minted + 1] = who[h]
           /\ HandlersKept /\ outlived' \subseteq outlived
           /\ pc[h] = "insert" /\ pc'[h] = "idle" /\ UNCHANGED walk
<1>1. PICK i \in LinkId :
          /\ NextId(i)
          /\ minted' = IF i > minted THEN i ELSE minted
          /\ code' = [code EXCEPT ![i] = c]
          /\ owner' = [owner EXCEPT ![i] = who[h]]
          /\ LET last == IF i = 1 THEN 0 ELSE created[i - 1]
             IN  \E t \in {last, last + 1} : created' = [created EXCEPT ![i] = t]
    BY DEF InsertLink
<1>2. i = minted + 1 /\ minted' = i
    BY <1>1, BoundAssumption DEF NextId, TypeInv, TypeOK
<1>3. \A j \in LinkId \ {i} : created'[j] = created[j]
    BY <1>1 DEF TypeInv, TypeOK
<1>4. /\ HandlersKept /\ outlived' \subseteq outlived
      /\ pc[h] = "insert" /\ pc'[h] = "idle" /\ UNCHANGED walk
    BY FinishKeeps, FinishMoves DEF InsertLink
<1>5. /\ \A j \in LinkId \ {i} : Live(j)' => Live(j) /\ owner'[j] = owner[j]
      /\ owner'[i] = who[h]
    BY <1>1 DEF TypeInv, TypeOK, Live
<1> QED
    BY <1>1, <1>2, <1>3, <1>4, <1>5

LEMMA PurgeKeeps ==
    ASSUME TypeInv, NEW a \in Account, PurgeAccount(a)
    PROVE  /\ RowsKept /\ HandlersKept /\ UNCHANGED created
           /\ \A i \in LinkId : Live(i)' => owner[i] # a
           /\ outlived' = outlived \cup {h \in Handler : who[h] = a}
           /\ walker = a => paging' = "idle"
           /\ walker # a => UNCHANGED walk
BY DEF PurgeAccount, Drop, RowsKept, HandlersKept, Live, Owned, StopWalk

-----------------------------------------------------------------------------
(* The limit: a creation was let in below it, and all that were let in are   *)
(* counted.                                                                  *)
Inserting(a) == {h \in Handler : pc[h] = "insert" /\ who[h] = a}

LimitFor(a) ==
    Cardinality(Owned(a)) + Cardinality(Inserting(a))
        <= FreeLinkLimit - 1 + Cardinality(Handler) + missed[a]

LimitInv == \A a \in Account \ Admin : LimitFor(a)

(* What a failed count lets through is only ever added to. *)
Grows(a) == missed[a] \in Nat /\ missed'[a] \in Nat /\ missed[a] <= missed'[a]

LEMMA MissedGrows ==
    ASSUME TypeInv, [Next]_vars, NEW a \in Account
    PROVE  Grows(a)
<1>1. missed[a] \in Nat /\ missed'[a] \in Nat
    BY NextType, BoundAssumption DEF TypeInv, TypeOK
<1>2. ASSUME NEW h \in Handler, NEW b \in Account, CreateLink(h, b)
      PROVE  missed[a] <= missed'[a]
    BY <1>2, LetInType DEF CreateLink, TypeInv
<1>3. ASSUME NEW h \in Handler, Step(h) \/ Disconnect(h)
      PROVE  missed' = missed
    BY <1>3 DEF Step, InsertLink, Rename, RefuseInsert, RemoveLink, Click, Disconnect
<1>4. ASSUME NEW h \in Handler, Loading(h) \/ \E i \in LinkId : Resolve(h, i)
      PROVE  missed' = missed
    BY <1>4 DEF Loading, Load, Resolve, history
<1>5. (\E b \in Account : PurgeAccount(b) \/ Signup(b) \/ ListLinks(b)) \/ EndWalk => missed' = missed
    BY DEF PurgeAccount, Signup, ListLinks, EndWalk, history
<1>6. UNCHANGED vars => missed' = missed
    BY DEF vars, history
<1>7. CASE missed' = missed
    BY <1>1, <1>7 DEF Grows
<1>8. CASE missed' # missed
    BY <1>1, <1>2, <1>3, <1>4, <1>5, <1>6, <1>8, RequestCases DEF Next, Environment, Grows
<1> QED
    BY <1>7, <1>8

LEMMA LimitCounts ==
    ASSUME NEW a
    PROVE  /\ IsFiniteSet(Owned(a)) /\ Cardinality(Owned(a)) \in Nat
           /\ IsFiniteSet(Inserting(a)) /\ Cardinality(Inserting(a)) \in Nat
           /\ Cardinality(Handler) \in Nat \ {0} /\ FreeLinkLimit \in Nat
<1>1. IsFiniteSet(LinkId)
    BY BoundAssumption, FS_Interval DEF LinkId
<1>2. Owned(a) \subseteq LinkId /\ Inserting(a) \subseteq Handler
    BY DEF Owned, Inserting
<1>3. IsFiniteSet(Owned(a)) /\ Cardinality(Owned(a)) \in Nat
    BY <1>1, <1>2, FS_Subset, FS_CardinalityType
<1>4. IsFiniteSet(Inserting(a)) /\ Cardinality(Inserting(a)) \in Nat
    BY <1>2, HandlerAssumption, FS_Subset, FS_CardinalityType
<1>5. Cardinality(Handler) \in Nat \ {0}
    BY HandlerAssumption, FS_CardinalityType, FS_EmptySet
<1> QED
    BY <1>3, <1>4, <1>5, LimitAssumption

LEMMA LimitShrinks ==
    ASSUME NEW a, LimitFor(a), Grows(a),
           NEW owned \in SUBSET Owned(a), NEW inserting \in SUBSET Inserting(a)
    PROVE  Cardinality(owned) + Cardinality(inserting)
               <= FreeLinkLimit - 1 + Cardinality(Handler) + missed'[a]
<1>1. /\ Cardinality(owned) \in Nat /\ Cardinality(owned) <= Cardinality(Owned(a))
      /\ Cardinality(inserting) \in Nat /\ Cardinality(inserting) <= Cardinality(Inserting(a))
    BY LimitCounts, FS_Subset, FS_CardinalityType
<1> QED
    BY <1>1, LimitCounts DEF LimitFor, Grows

LEMMA LimitKept ==
    ASSUME LimitInv, RowsKept, HandlersKept, \A a \in Account : Grows(a)
    PROVE  LimitInv'
<1>1. SUFFICES ASSUME NEW a \in Account \ Admin PROVE LimitFor(a)'
    BY DEF LimitInv
<1>2. Owned(a)' \subseteq Owned(a) /\ Inserting(a)' \subseteq Inserting(a)
    BY DEF RowsKept, HandlersKept, Owned, Inserting, Writing
<1>3. LimitFor(a)
    BY DEF LimitInv
<1> QED
    BY <1>2, <1>3, LimitShrinks DEF LimitFor

LEMMA LimitCreate ==
    ASSUME TypeInv, LimitInv, \A b \in Account : Grows(b),
           NEW h \in Handler, NEW a \in Account, CreateLink(h, a)
    PROVE  LimitInv'
<1>1. SUFFICES ASSUME NEW b \in Account \ Admin PROVE LimitFor(b)'
    BY DEF LimitInv
<1>2. Owned(b)' \subseteq Owned(b)
    BY BeginKeeps DEF RowsKept, Owned
<1>3. CASE b = a
    <2>1. Inserting(b)' \subseteq Handler
        BY DEF Inserting
    <2>2. Cardinality(Inserting(b)') \in Nat /\ Cardinality(Inserting(b)') <= Cardinality(Handler)
        BY <2>1, HandlerAssumption, FS_Subset, FS_CardinalityType
    <2>3. Cardinality(Owned(b)') \in Nat /\ Cardinality(Owned(b)') <= Cardinality(Owned(b))
        BY <1>2, LimitCounts, FS_Subset, FS_CardinalityType
    <2>4. CASE HasRoom(Cardinality(Owned(a)))
        <3>1. Cardinality(Owned(a)) < FreeLinkLimit
            BY <2>4 DEF HasRoom
        <3> QED
            BY <1>3, <2>2, <2>3, <3>1, LimitCounts DEF LimitFor, Grows
    <2>5. CASE ~HasRoom(Cardinality(Owned(a)))
        <3>1. missed'[b] = missed[b] + 1
            BY <1>3, <2>5 DEF CreateLink, LetIn, TypeInv, TypeOK
        <3>2. Inserting(b)' \subseteq Inserting(b) \cup {h}
            BY BeginKeeps DEF Inserting, OnlyMoves
        <3>3. /\ IsFiniteSet(Inserting(b) \cup {h})
              /\ Cardinality(Inserting(b) \cup {h}) <= Cardinality(Inserting(b)) + 1
            <4>1. PICK old : old = Inserting(b)
                OBVIOUS
            <4>2. IsFiniteSet(old) /\ Cardinality(old) \in Nat
                BY <4>1, LimitCounts
            <4>3. /\ IsFiniteSet(old \cup {h})
                  /\ Cardinality(old \cup {h}) = IF h \in old THEN Cardinality(old)
                                                           ELSE Cardinality(old) + 1
                BY <4>2, FS_AddElement
            <4> QED
                BY <4>1, <4>2, <4>3
        <3>4. Cardinality(Inserting(b)') <= Cardinality(Inserting(b) \cup {h})
              /\ Cardinality(Inserting(b) \cup {h}) \in Nat
            BY <3>2, <3>3, FS_Subset, FS_CardinalityType
        <3>5. LimitFor(b)
            BY DEF LimitInv
        <3> QED
            BY <2>2, <2>3, <3>1, <3>3, <3>4, <3>5, LimitCounts DEF LimitFor, Grows
    <2> QED
        BY <2>4, <2>5
<1>4. CASE b # a
    <2>1. Inserting(b)' \subseteq Inserting(b)
        BY <1>4, BeginKeeps DEF Inserting, OnlyMoves
    <2>2. LimitFor(b)
        BY DEF LimitInv
    <2> QED
        BY <1>2, <2>1, <2>2, LimitShrinks DEF LimitFor
<1> QED
    BY <1>3, <1>4

LEMMA LimitInsert ==
    ASSUME TypeInv, LimitInv, \A b \in Account : Grows(b),
           NEW h \in Handler, NEW c \in Code, InsertLink(h, c)
    PROVE  LimitInv'
<1>1. SUFFICES ASSUME NEW b \in Account \ Admin PROVE LimitFor(b)'
    BY DEF LimitInv
<1>2. LimitFor(b)
    BY DEF LimitInv
<1>3. CASE b = who[h]
    <2>1. Owned(b)' \subseteq Owned(b) \cup {minted + 1}
        BY InsertKeeps DEF Owned
    <2>2. Inserting(b)' \subseteq Inserting(b) \ {h} /\ h \in Inserting(b)
        BY <1>3, InsertKeeps DEF Inserting, HandlersKept, Writing
    <2>3. /\ IsFiniteSet(Owned(b) \cup {minted + 1})
          /\ Cardinality(Owned(b) \cup {minted + 1}) <= Cardinality(Owned(b)) + 1
          /\ IsFiniteSet(Inserting(b) \ {h})
          /\ Cardinality(Inserting(b) \ {h}) = Cardinality(Inserting(b)) - 1
        <3>1. /\ IsFiniteSet(Owned(b)) /\ Cardinality(Owned(b)) \in Nat
              /\ IsFiniteSet(Inserting(b))
            BY LimitCounts
        <3>2. /\ IsFiniteSet(Owned(b) \cup {minted + 1})
              /\ Cardinality(Owned(b) \cup {minted + 1}) <= Cardinality(Owned(b)) + 1
            <4>1. Cardinality(Owned(b) \cup {minted + 1}) =
                      IF minted + 1 \in Owned(b) THEN Cardinality(Owned(b)) ELSE Cardinality(Owned(b)) + 1
                BY <3>1, FS_AddElement
            <4>2. IsFiniteSet(Owned(b) \cup {minted + 1})
                BY <3>1, FS_AddElement
            <4> QED
                BY <3>1, <4>1, <4>2
        <3>3. /\ IsFiniteSet(Inserting(b) \ {h})
              /\ Cardinality(Inserting(b) \ {h}) = Cardinality(Inserting(b)) - 1
            BY <2>2, <3>1, FS_RemoveElement
        <3> QED
            BY <3>2, <3>3
    <2>4. /\ Cardinality(Owned(b)') \in Nat
          /\ Cardinality(Owned(b)') <= Cardinality(Owned(b) \cup {minted + 1})
          /\ Cardinality(Owned(b) \cup {minted + 1}) \in Nat
        BY <2>1, <2>3, FS_Subset, FS_CardinalityType
    <2>5. /\ Cardinality(Inserting(b)') \in Nat
          /\ Cardinality(Inserting(b)') <= Cardinality(Inserting(b) \ {h})
        BY <2>2, <2>3, FS_Subset, FS_CardinalityType
    <2> QED
        BY <1>2, <2>3, <2>4, <2>5, LimitCounts DEF LimitFor, Grows
<1>4. CASE b # who[h]
    <2>1. Owned(b)' \subseteq Owned(b) /\ Inserting(b)' \subseteq Inserting(b)
        BY <1>4, InsertKeeps DEF Owned, Inserting, HandlersKept, Writing
    <2> QED
        BY <1>2, <2>1, LimitShrinks DEF LimitFor
<1> QED
    BY <1>3, <1>4

LEMMA LimitNext == TypeInv /\ LimitInv /\ [Next]_vars => LimitInv'
<1> SUFFICES ASSUME TypeInv, LimitInv, [Next]_vars PROVE LimitInv'
    OBVIOUS
<1>0. \A a \in Account : Grows(a)
    BY MissedGrows
<1>1. ASSUME NEW h \in Handler, Loading(h)
      PROVE  LimitInv'
    <2>1. ASSUME NEW b \in Account \ Admin
          PROVE  LimitFor(b)'
        <3>1. CASE CreateLink(h, b)
            BY <1>0, <3>1, LimitCreate DEF LimitInv
        <3>2. CASE ~CreateLink(h, b)
            <4>1. Owned(b)' \subseteq Owned(b) /\ Inserting(b)' \subseteq Inserting(b)
                BY <1>1, <3>2, BeginKeeps DEF RowsKept, Owned, Inserting, OnlyMoves
            <4> QED
                BY <1>0, <4>1, LimitShrinks DEF LimitFor, LimitInv
        <3> QED
            BY <3>1, <3>2
    <2> QED
        BY <2>1 DEF LimitInv
<1>2. ASSUME NEW a \in Account, PurgeAccount(a)
      PROVE  LimitInv'
    BY <1>0, <1>2, PurgeKeeps, LimitKept
<1> QED
    BY <1>0, <1>1, <1>2, OthersKeep, LimitKept, LimitCreate, LimitInsert

(* Whoever is not an admin has at most as many links too many as creations   *)
(* can be in flight besides the first and as failed counts let through.      *)
THEOREM LimitCorrect == Spec => []LinksNearlyKept
<1>1. Init => LimitInv
    <2> SUFFICES ASSUME Init, NEW a \in Account \ Admin PROVE LimitFor(a)
        BY DEF LimitInv
    <2>1. Owned(a) = {} /\ Inserting(a) = {}
        BY DEF Init, Owned, Inserting, Live
    <2>2. Cardinality(Owned(a)) = 0 /\ Cardinality(Inserting(a)) = 0 /\ missed[a] = 0
        BY <2>1, FS_EmptySet DEF Init
    <2> QED
        BY <2>2, LimitCounts DEF LimitFor
<1>2. LimitInv => LinksNearlyKept
    BY DEF LimitInv, LimitFor, LinksNearlyKept, Inserting
<1> QED
    BY <1>1, <1>2, TypeInit, NextType, LimitNext, PTL DEF Spec

-----------------------------------------------------------------------------
(* Writes.  Who writes has a link, and it is theirs as long as it is there: *)
(* ids are not given out again, and with an account go all of its links.    *)
WritesInv ==
    /\ WritesToTheirs
    /\ \A h \in Handler : pc[h] \in {"edit", "delete"} => link[h] \in 1..minted

WritesKept ==
    \A g \in Handler :
        pc'[g] \in {"edit", "delete"} =>
            /\ pc'[g] = pc[g] /\ who'[g] = who[g] /\ link'[g] = link[g]
            /\ code'[link[g]] # NoCode => Live(link[g]) /\ owner'[link[g]] = owner[link[g]]

LEMMA WritesNext == TypeInv /\ WritesInv /\ [Next]_vars => WritesInv'
<1> SUFFICES ASSUME TypeInv, WritesInv, [Next]_vars PROVE WritesInv'
    OBVIOUS
<1>1. \A h \in Handler :
          pc[h] \in {"edit", "delete"} => link[h] \in LinkId /\ link[h] # minted + 1
    BY BoundAssumption DEF WritesInv, TypeInv, TypeOK, LinkId
<1>2. ASSUME NEW h \in Handler, NEW c \in Code, InsertLink(h, c)
      PROVE  WritesInv'
    <2>1. 1..minted \subseteq 1..minted'
        BY <1>2, InsertKeeps DEF TypeInv, TypeOK
    <2>2. WritesKept
        BY <1>1, <1>2, InsertKeeps DEF WritesKept, HandlersKept, Writing, Live
    <2> QED
        BY <1>2, <2>1, <2>2, InsertKeeps DEF WritesKept, WritesInv, WritesToTheirs, Live
<1>3. ASSUME RowsKept, HandlersKept, outlived' \subseteq outlived, minted' = minted
      PROVE  WritesInv'
    <2>1. WritesKept
        BY <1>1, <1>3 DEF WritesKept, RowsKept, HandlersKept, Writing, Live
    <2> QED
        BY <1>3, <2>1 DEF WritesKept, WritesInv, WritesToTheirs, Live
<1>4. ASSUME NEW h \in Handler, NEW a \in Account, CreateLink(h, a) \/ Loading(h)
      PROVE  WritesInv'
    <2>1. /\ RowsKept /\ outlived' = outlived /\ UNCHANGED <<owner, code, minted>>
          /\ OnlyMoves(h) /\ pc[h] = "idle"
        BY <1>4, BeginKeeps DEF table
    <2>2. h \notin outlived
        BY <2>1 DEF TypeInv, IdleClean
    <2>3. pc'[h] \in {"edit", "delete"} =>
              /\ link'[h] \in 1..minted
              /\ who'[h] \in Admin \/ owner[link'[h]] = who'[h]
        <3>1. CASE CreateLink(h, a)
            BY <1>4, <3>1, BeginKeeps
        <3>2. CASE Loading(h)
            <4>1. PICK place \in {"edit", "delete"}, b \in Account, i \in LinkId :
                      (owner[i] = b \/ b \in Admin) /\ Load(h, place, b, i)
                BY <3>2 DEF Loading
            <4>2. i \in 1..minted
                BY <4>1, BoundAssumption DEF Load, TypeInv, TypeOK, LinkId
            <4>3. Start(h, place, b, i) /\ i \in 0..minted
                BY <4>1, <4>2 DEF Load
            <4>4. who'[h] = b /\ link'[h] = i
                BY <4>1, <4>3, StartMoves
            <4> QED
                BY <4>1, <4>2, <4>4
        <3> QED
            BY <1>4, <3>1, <3>2
    <2>4. \A g \in Handler \ {h} : pc'[g] = pc[g] /\ who'[g] = who[g] /\ link'[g] = link[g]
        BY <2>1 DEF OnlyMoves
    <2> QED
        BY <2>1, <2>2, <2>3, <2>4 DEF WritesInv, WritesToTheirs, Live
<1>5. ASSUME NEW a \in Account, PurgeAccount(a)
      PROVE  WritesInv'
    <2>1. \A g \in Handler :
              pc'[g] \in {"edit", "delete"} =>
                  /\ pc'[g] = pc[g] /\ who'[g] = who[g] /\ link'[g] = link[g]
                  /\ code'[link[g]] # NoCode => /\ Live(link[g]) /\ owner'[link[g]] = owner[link[g]]
                                                /\ owner[link[g]] # a
        BY <1>1, <1>5, PurgeKeeps DEF RowsKept, HandlersKept, Writing, Live
    <2>2. minted' = minted /\ outlived' = outlived \cup {g \in Handler : who[g] = a}
        BY <1>5 DEF PurgeAccount, Drop
    <2> QED
        BY <2>1, <2>2 DEF WritesInv, WritesToTheirs, Live
<1>6. ASSUME NEW h \in Handler, Loading(h)
      PROVE  WritesInv'
    <2>1. Account # {}
        BY <1>6 DEF Loading
    <2> QED
        BY <1>4, <1>6, <2>1
<1> QED
    BY <1>2, <1>3, <1>4, <1>5, <1>6, OthersKeep

(* A request writes to the link it looked up, of the account it came from,   *)
(* unless an admin's: not to another's that got the id of either.            *)
THEOREM WritesCorrect == Spec => []WritesToTheirs
<1>1. Init => WritesInv
    BY DEF Init, WritesInv, WritesToTheirs
<1>2. WritesInv => WritesToTheirs
    BY DEF WritesInv
<1> QED
    BY <1>1, <1>2, TypeInit, NextType, WritesNext, PTL DEF Spec

-----------------------------------------------------------------------------
(* The walk.  Of the links that were there at its start, and still are, the  *)
(* client has been shown those that are not older than the one it goes on    *)
(* after, or one just as old.                                                *)
Met(i) ==
    \/ i \in seen
    \/ \E j \in seen : created[j] = created[i]
    \/ paging = "walking" /\ Older(i, mark)

WalkInv ==
    /\ paging = "idle" => cursor = NoCode
    /\ paging # "idle" /\ ~strayed => \A i \in due : Live(i) => owner[i] = walker /\ Met(i)
    /\ paging = "walking" => mark \in 1..minted

(* Steps that leave the walk alone leave its links as old as they were. *)
LEMMA WalkKept ==
    ASSUME TypeInv, WalkInv, UNCHANGED walk, minted' \in Nat, minted' >= minted,
           \A i \in 1..minted : /\ created'[i] = created[i]
                                /\ Live(i)' => Live(i) /\ owner'[i] = owner[i]
    PROVE  WalkInv'
<1>1. /\ due \subseteq 1..minted /\ seen \subseteq 1..minted /\ minted \in Nat
      /\ 1..minted \subseteq 1..minted'
    BY BoundAssumption DEF TypeInv, TypeOK
<1> USE DEF Live
<1>2. /\ paging' = paging /\ walker' = walker /\ cursor' = cursor /\ mark' = mark
      /\ due' = due /\ seen' = seen /\ strayed' = strayed
    BY DEF walk
<1>3. ASSUME NEW i \in due, Met(i)
      PROVE  Met(i)'
    <2>1. CASE i \in seen
        BY <1>2, <2>1 DEF Met
    <2>2. CASE \E j \in seen : created[j] = created[i]
        BY <1>1, <1>2, <2>2 DEF Met
    <2>3. CASE paging = "walking" /\ Older(i, mark)
        <3>1. created'[i] = created[i] /\ created'[mark] = created[mark]
            BY <1>1, <2>3 DEF WalkInv
        <3> QED
            BY <1>2, <2>3, <3>1 DEF Met, Older
    <2> QED
        BY <1>3, <2>1, <2>2, <2>3 DEF Met
<1>4. ASSUME NEW i \in due, Live(i)', owner[i] = walker, Met(i)
      PROVE  owner'[i] = walker' /\ Met(i)'
    BY <1>1, <1>2, <1>3, <1>4
<1>5. ASSUME paging' # "idle", ~strayed', NEW i \in due', Live(i)'
      PROVE  owner'[i] = walker' /\ Met(i)'
    <2>1. i \in due /\ Live(i)
        BY <1>1, <1>2, <1>5
    <2>2. owner[i] = walker /\ Met(i)
        BY <1>2, <1>5, <2>1 DEF WalkInv
    <2> QED
        BY <1>4, <1>5, <2>1, <2>2
<1>6. paging' = "walking" => mark' \in 1..minted'
    BY <1>1, <1>2 DEF WalkInv
<1>7. paging' = "idle" => cursor' = NoCode
    BY <1>2 DEF WalkInv
<1> QED
    BY <1>5, <1>6, <1>7 DEF WalkInv

LEMMA WalkPage ==
    ASSUME TypeInv, WalkInv, NEW a \in Account, ListLinks(a)
    PROVE  WalkInv'
<1>1. /\ UNCHANGED <<table, pc, who, link, history>>
      /\ walker' = a /\ paging \in {"idle", "walking"}
      /\ IF paging = "idle" THEN due' = Owned(a) ELSE walker = a /\ UNCHANGED due
      /\ strayed' = (strayed \/ \E j \in Owned(a) : code[j] = cursor /\ Older(j, mark))
    BY DEF ListLinks
<1> DEFINE rows == Below(a, cursor)
<1>2. PICK page \in SUBSET rows :
          /\ IsPage(page, rows)
          /\ seen' = seen \cup page
          /\ IF Cardinality(page) < PageLimit
             THEN paging' = "through" /\ UNCHANGED <<cursor, mark>>
             ELSE \E i \in page :
                     /\ \A j \in page : ~Older(j, i)
                     /\ paging' = "walking" /\ mark' = i /\ cursor' = code[i]
    BY DEF ListLinks
<1>3. /\ rows \subseteq Owned(a) /\ Owned(a) \subseteq LinkId /\ Owned(a) \subseteq 1..minted
      /\ due \subseteq LinkId /\ \A i \in LinkId : created[i] \in Nat
    BY BoundAssumption DEF Below, Owned, TypeInv, TypeOK, LinkId
<1>4. SUFFICES ASSUME ~strayed'
               PROVE  \A i \in due' : Live(i)' => owner'[i] = walker' /\ Met(i)'
    <2>1. paging' # "idle" /\ (paging' = "walking" => mark' \in 1..minted')
        BY <1>1, <1>2, <1>3 DEF table
    <2> QED
        BY <2>1 DEF WalkInv
<1>5. ~strayed /\ \A j \in Owned(a) : code[j] = cursor => ~Older(j, mark)
    BY <1>1, <1>4
<1>6. ASSUME NEW i \in due', Live(i)
      PROVE  /\ owner[i] = a
             /\ i \in seen \/ (\E j \in seen : created[j] = created[i]) \/ i \in rows
    <2>1. CASE paging = "idle"
        <3>1. i \in Owned(a) /\ cursor = NoCode
            BY <1>1, <2>1, <1>6 DEF WalkInv
        <3>2. rows = Owned(a)
            BY <3>1 DEF Below, Owned, Live
        <3> QED
            BY <3>1, <3>2 DEF Owned
    <2>2. CASE paging = "walking"
        <3>1. i \in due /\ walker = a /\ owner[i] = a /\ Met(i)
            BY <1>1, <1>5, <1>6, <2>2 DEF WalkInv
        <3>2. CASE Older(i, mark)
            <4>1. i \in Owned(a)
                BY <1>3, <1>6, <3>1 DEF Owned
            <4>2. mark \in LinkId
                BY <2>2, BoundAssumption DEF WalkInv, TypeInv, TypeOK, LinkId
            <4>3. ASSUME NEW j \in Owned(a), code[j] = cursor
                  PROVE  Older(i, j)
                <5>1. ~Older(j, mark)
                    BY <1>5, <4>3
                <5> QED
                    BY <1>3, <3>2, <4>1, <4>2, <5>1 DEF Older
            <4> QED
                BY <3>1, <4>1, <4>3 DEF Below
        <3> QED
            BY <3>1, <3>2 DEF Met
    <2> QED
        BY <1>1, <2>1, <2>2
<1>7. ASSUME NEW i \in rows
      PROVE  \/ i \in page
             \/ \E j \in page : created[j] = created[i]
             \/ paging' = "walking" /\ created[i] < created[mark']
    <2>1. CASE Cardinality(page) < PageLimit
        <3>1. IsFiniteSet(rows)
            <4>1. IsFiniteSet(LinkId)
                BY BoundAssumption, FS_Interval DEF LinkId
            <4>2. rows \subseteq LinkId
                BY <1>3
            <4> QED
                BY <4>1, <4>2, FS_Subset
        <3>2. Cardinality(rows) \in Nat /\ Cardinality(page) \in Nat
            BY <3>1, FS_Subset, FS_CardinalityType
        <3>3. Cardinality(rows) = Cardinality(page)
            BY <1>2, <2>1, <3>2, LimitAssumption DEF IsPage
        <3> QED
            BY <3>1, <3>3, FS_Subset
    <2>2. CASE ~(Cardinality(page) < PageLimit) /\ i \notin page
        <3>1. PICK m \in page : paging' = "walking" /\ mark' = m
            BY <1>2, <2>2
        <3>2. ~Older(m, i)
            BY <1>2, <2>2 DEF IsPage
        <3>3. m \in LinkId /\ i \in LinkId
            BY <1>3
        <3> QED
            BY <1>3, <3>1, <3>2, <3>3 DEF Older
    <2> QED
        BY <2>1, <2>2
<1>8. UNCHANGED <<code, owner, created>>
    BY <1>1 DEF table
<1>9. ASSUME NEW i \in due', Live(i)'
      PROVE  owner'[i] = walker' /\ Met(i)'
    <2>1. Live(i)
        BY <1>8, <1>9 DEF Live
    <2>2. owner'[i] = walker'
        BY <1>1, <1>6, <1>8, <2>1
    <2>3. \/ i \in seen' \/ (\E j \in seen' : created[j] = created[i])
          \/ paging' = "walking" /\ created[i] < created[mark']
        BY <1>2, <1>6, <1>7, <2>1
    <2> QED
        BY <1>8, <2>2, <2>3 DEF Met, Older
<1> QED
    BY <1>9

LEMMA WalkNext == TypeInv /\ WalkInv /\ [Next]_vars => WalkInv'
<1> SUFFICES ASSUME TypeInv, WalkInv, [Next]_vars PROVE WalkInv'
    OBVIOUS
<1>0. 1..minted \subseteq LinkId /\ minted \in Nat
    BY BoundAssumption DEF TypeInv, TypeOK, LinkId
<1>1. ASSUME NEW a \in Account, ListLinks(a)
      PROVE  WalkInv'
    BY <1>1, WalkPage
<1>2. CASE EndWalk
    BY <1>2 DEF EndWalk, StopWalk, WalkInv
<1>3. ASSUME NEW h \in Handler, NEW c \in Code, InsertLink(h, c)
      PROVE  WalkInv'
    <2>1. /\ UNCHANGED walk /\ minted' = minted + 1
          /\ \A i \in 1..minted : /\ created'[i] = created[i]
                                  /\ Live(i)' => Live(i) /\ owner'[i] = owner[i]
        BY <1>0, <1>3, InsertKeeps
    <2> QED
        BY <1>0, <2>1, WalkKept
<1>4. ASSUME RowsKept, UNCHANGED <<created, minted, walk>>
      PROVE  WalkInv'
    BY <1>0, <1>4, WalkKept DEF RowsKept
<1>5. ASSUME NEW h \in Handler, NEW a \in Account, CreateLink(h, a) \/ Loading(h)
      PROVE  WalkInv'
    BY <1>4, <1>5, BeginKeeps DEF table
<1>6. ASSUME NEW a \in Account, PurgeAccount(a)
      PROVE  WalkInv'
    <2>1. CASE walker = a
        BY <1>6, <2>1 DEF PurgeAccount, StopWalk, WalkInv
    <2>2. CASE walker # a
        <3>1. UNCHANGED minted
            BY <1>6 DEF PurgeAccount, Drop
        <3> QED
            BY <1>4, <1>6, <2>2, <3>1, PurgeKeeps
    <2> QED
        BY <2>1, <2>2
<1>7. ASSUME NEW h \in Handler, Loading(h)
      PROVE  WalkInv'
    <2>1. Account # {}
        BY <1>7 DEF Loading
    <2> QED
        BY <1>5, <1>7, <2>1
<1>8. \/ UNCHANGED walk \/ EndWalk
      \/ \E a \in Account : ListLinks(a) \/ PurgeAccount(a)
    BY DEF Next, Environment, Step, Request, InsertLink, Rename, RefuseInsert, RemoveLink, Click,
           CreateLink, EditLink, UpdateLink, DeleteLink, Load, Resolve, Disconnect, Signup, vars
<1> QED
    BY <1>1, <1>2, <1>3, <1>4, <1>5, <1>6, <1>7, <1>8, OthersKeep

(* A client that walks its list to the end is shown every link that was      *)
(* there from beginning to end, whatever is created, renamed and deleted on  *)
(* the way, but for links just as old as one that it was shown, and unless   *)
(* the alias it goes on after has moved to an older link.                    *)
THEOREM WalkCorrect == Spec => []WalkSkipsNothing
<1>1. Init => WalkInv
    BY DEF Init, WalkInv
<1>2. WalkInv => WalkSkipsNothing
    BY DEF WalkInv, WalkSkipsNothing, Met
<1> QED
    BY <1>1, <1>2, TypeInit, NextType, WalkNext, PTL DEF Spec

=============================================================================
