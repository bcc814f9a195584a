-------------------------- MODULE SessionStoreProof --------------------------
(***************************************************************************)
(* What holds of SessionStore for any number of handlers, tokens, accounts *)
(* and writes.                                                             *)
(***************************************************************************)
EXTENDS SessionStore, TLAPS

-----------------------------------------------------------------------------
(* Types *)

LEMMA BlankType == Blank \in Locals
  <1>1. Token # {}
    BY TokenAssumption
  <1>2. (CHOOSE t \in Token : TRUE) \in Token
    BY <1>1
  <1>3. 1 \in AccountId
    BY BoundAssumption DEF AccountId
  <1>4. NoRow \in Row
    BY DEF NoRow, Row
  <1>5. "idle" \in Place /\ "no" \in Revocation
    BY DEF Place, Revocation
  <1> QED
    BY <1>2, <1>3, <1>4, <1>5 DEF Blank, Locals

LEMMA InitType == Init => TypeOK
  <1> SUFFICES ASSUME Init PROVE TypeOK
    OBVIOUS
  <1>1. NoRow \in Row /\ [born |-> 1, ver |-> 1] \in Row
    BY DEF NoRow, Row
  <1>3. "idle" \in Place /\ "no" \in Revocation
    BY DEF Place, Revocation
  <1> QED
    BY <1>1, <1>3, BlankType DEF Init, TypeOK

(* The moves the actions are made of keep the types. *)
LEMMA FinishType ==
  ASSUME TypeOK, NEW p \in Handler, Finish(p)
  PROVE  pc' \in [Handler -> Place] /\ req' \in [Handler -> Locals]
  <1>1. "idle" \in Place
    BY DEF Place
  <1> QED
    BY <1>1, BlankType DEF TypeOK, Finish

LEMMA MoveWithType ==
  ASSUME TypeOK, NEW p \in Handler, NEW to \in Place, NEW place, NEW shared \in Place,
         MoveWith(p, to, place, shared)
  PROVE  pc' \in [Handler -> Place]
  BY DEF TypeOK, MoveWith

LEMMA HeirsType ==
  ASSUME NEW p \in Handler, NEW place, NEW heir \in Heirs(p, place)
  PROVE  /\ heir \in Handler \cup {NoHandler}
         /\ Waiting(p, place) # {} => heir \in Handler
  BY DEF Heirs, Waiting

LEMMA PassGuardType ==
  ASSUME TypeOK, NEW p \in Handler, NEW to \in Place, NEW place, NEW heir \in Heirs(p, place),
         NEW read \in Place, PassGuard(p, to, place, heir, read)
  PROVE  pc' \in [Handler -> Place] /\ leader' \in [Handler -> Handler]
  BY HeirsType DEF TypeOK, PassGuard

LEMMA DropSessionGuardType ==
  ASSUME TypeOK, NEW p \in Handler, DropSessionGuard(p)
  PROVE  /\ pc' \in [Handler -> Place] /\ req' \in [Handler -> Locals]
         /\ leader' \in [Handler -> Handler]
         /\ sessionLoader' \in [Token -> Handler \cup {NoHandler}]
  <1>1. PICK heir \in Heirs(p, "session_wait") :
           /\ PassGuard(p, "idle", "session_wait", heir, "session_read")
           /\ sessionLoader' = [sessionLoader EXCEPT ![req[p].tok] = IF @ = p THEN heir ELSE @]
           /\ req' = [req EXCEPT ![p] = Blank]
    BY DEF DropSessionGuard
  <1>2. heir \in Handler \cup {NoHandler}
    BY HeirsType
  <1>3. "idle" \in Place /\ "session_read" \in Place
    BY DEF Place
  <1>4. pc' \in [Handler -> Place] /\ leader' \in [Handler -> Handler]
    BY <1>1, <1>3, PassGuardType
  <1>5. req' \in [Handler -> Locals]
    BY <1>1, BlankType DEF TypeOK
  <1>6. sessionLoader' \in [Token -> Handler \cup {NoHandler}]
    BY <1>1, <1>2 DEF TypeOK
  <1> QED
    BY <1>4, <1>5, <1>6

LEMMA DropUserGuardType ==
  ASSUME TypeOK, NEW p \in Handler, NEW to \in Place, DropUserGuard(p, to)
  PROVE  /\ pc' \in [Handler -> Place] /\ req' \in [Handler -> Locals]
         /\ leader' \in [Handler -> Handler]
         /\ userLoader' \in [AccountId -> Handler \cup {NoHandler}]
  <1>1. PICK heir \in Heirs(p, "account_wait") :
           /\ PassGuard(p, to, "account_wait", heir, "account_read")
           /\ userLoader' = [userLoader EXCEPT ![req[p].aid] = IF @ = p THEN heir ELSE @]
           /\ req' = IF to = "idle" THEN [req EXCEPT ![p] = Blank] ELSE req
    BY DEF DropUserGuard
  <1>2. heir \in Handler \cup {NoHandler}
    BY HeirsType
  <1>3. "account_read" \in Place
    BY DEF Place
  <1>4. pc' \in [Handler -> Place] /\ leader' \in [Handler -> Handler]
    BY <1>1, <1>3, PassGuardType
  <1>5. req' \in [Handler -> Locals]
    BY <1>1, BlankType DEF TypeOK
  <1>6. userLoader' \in [AccountId -> Handler \cup {NoHandler}]
    BY <1>1, <1>2 DEF TypeOK
  <1> QED
    BY <1>4, <1>5, <1>6

LEMMA RemoveSessionType ==
  ASSUME TypeOK, NEW t \in Token, RemoveSession(t)
  PROVE  validSessions' \subseteq Token
         /\ sessionLoader' \in [Token -> Handler \cup {NoHandler}]
  BY DEF TypeOK, RemoveSession

LEMMA RemoveUserType ==
  ASSUME TypeOK, NEW id \in AccountId, RemoveUser(id)
  PROVE  /\ cachedUsers' \in [AccountId -> Row] /\ guarded' \subseteq AccountId
         /\ userLoader' \in [AccountId -> Handler \cup {NoHandler}]
  <1>1. NoRow \in Row
    BY DEF NoRow, Row
  <1> QED
    BY <1>1 DEF TypeOK, RemoveUser

LEMMA SetPlaceType ==
  ASSUME TypeOK, NEW p \in Handler, NEW to \in Place
  PROVE  [pc EXCEPT ![p] = to] \in [Handler -> Place]
  BY DEF TypeOK

LEMMA StepType == ASSUME TypeOK, NEW p \in Handler, Step(p) PROVE TypeOK'
  <1>a. req \in [Handler -> Locals]
    BY DEF TypeOK
  <1>b. /\ req[p].tok \in Token /\ req[p].aid \in AccountId /\ req[p].row \in Row
        /\ req[p].todo \subseteq Token /\ req[p].next \in Place /\ req[p].wrote \in Nat
        /\ req[p].keys \in BOOLEAN
    BY <1>a DEF Locals, Place
  <1>c. \A to \in Place : [pc EXCEPT ![p] = to] \in [Handler -> Place]
    BY DEF TypeOK
  <1>1. CASE SessionRead(p)
    <2>1. CASE ~SessionRowFound(p) /\ DropSessionGuard(p)
      BY <1>1, <2>1, DropSessionGuardType DEF SessionRead, TypeOK, db, userCache, history
    <2>2. CASE SessionRowFound(p)
      <3>0. account[req[p].aid] \in Row
        BY <1>b DEF TypeOK
      <3>1. req' = [req EXCEPT ![p].row = account[req[p].aid]]
        BY <1>1, <2>2 DEF SessionRead
      <3>2. req' \in [Handler -> Locals]
        BY <1>a, <3>0, <3>1 DEF Locals
      <3>3. pc' \in [Handler -> Place]
        BY <1>1, <1>c, <2>2 DEF SessionRead, Place
      <3> QED
        BY <1>1, <2>2, <3>2, <3>3 DEF SessionRead, TypeOK, db, userCache, history
    <2>3. \/ ~SessionRowFound(p) /\ DropSessionGuard(p)
          \/ SessionRowFound(p)
      BY <1>1 DEF SessionRead
    <2> QED
      BY <2>1, <2>2, <2>3
  <1>2. CASE SessionInsert(p)
    <2>1. "account_store" \in Place /\ "account_lookup" \in Place
      BY DEF Place
    <2>2. pc' \in [Handler -> Place]
      BY <1>2, <2>1, MoveWithType DEF SessionInsert
    <2> QED
      BY <1>2, <1>b, <2>2 DEF SessionInsert, TypeOK, db, userCache, history
  <1>3. CASE AccountStore(p)
    <2>1. "served" \in Place
      BY DEF Place
    <2> QED
      BY <1>3, <1>b, <2>1, SetPlaceType DEF AccountStore, TypeOK, db, sessionCache, history
  <1>4. CASE AccountLookup(p)
    <2>1. cachedUsers[req[p].aid] \in Row /\ userLoader[req[p].aid] \in Handler \cup {NoHandler}
      BY <1>b DEF TypeOK
    <2>2. pc' \in [Handler -> Place]
      BY <1>4, <1>c, FinishType DEF AccountLookup, Place
    <2>3. \/ req' = [req EXCEPT ![p].row = cachedUsers[req[p].aid]]
          \/ UNCHANGED req
          \/ Finish(p)
      BY <1>4 DEF AccountLookup
    <2>4. req' \in [Handler -> Locals]
      <3>1. CASE req' = [req EXCEPT ![p].row = cachedUsers[req[p].aid]]
        BY <1>a, <2>1, <3>1 DEF Locals
      <3> QED
        BY <1>a, <2>3, <3>1, FinishType
    <2>5. leader' \in [Handler -> Handler] /\ userLoader' \in [AccountId -> Handler \cup {NoHandler}]
      BY <1>4, <2>1 DEF AccountLookup, TypeOK
    <2> QED
      BY <1>4, <2>2, <2>4, <2>5 DEF AccountLookup, TypeOK, db, sessionCache, history
  <1>5. CASE AccountRead(p)
    <2>1. "session_forget" \in Place /\ "idle" \in Place /\ "account_insert" \in Place
      BY DEF Place
    <2>2. CASE ~Exists(req[p].aid)
      BY <1>5, <2>1, <2>2, DropUserGuardType DEF AccountRead, TypeOK, db, sessionCache, history
    <2>3. CASE Exists(req[p].aid)
      <3>1. req' = [req EXCEPT ![p].row = account[req[p].aid]] /\ account[req[p].aid] \in Row
        BY <1>5, <1>b, <2>3 DEF AccountRead, TypeOK
      <3>2. req' \in [Handler -> Locals]
        BY <1>a, <3>1 DEF Locals
      <3>3. pc' \in [Handler -> Place]
        BY <1>5, <1>c, <2>1, <2>3 DEF AccountRead
      <3> QED
        BY <1>5, <2>3, <3>2, <3>3 DEF AccountRead, TypeOK, db, sessionCache, history
    <2> QED
      BY <2>2, <2>3
  <1>6. CASE AccountInsert(p)
    <2>1. "served" \in Place
      BY DEF Place
    <2>2. pc' \in [Handler -> Place]
      BY <1>6, <2>1, MoveWithType DEF AccountInsert
    <2>3. req' \in [Handler -> Locals]
      <3>1. req' = [q \in Handler |-> IF q \in Waiting(p, "account_wait")
                                     THEN [req[q] EXCEPT !.row = req[p].row] ELSE req[q]]
        BY <1>6 DEF AccountInsert
      <3> QED
        BY <1>a, <1>b, <3>1 DEF Locals
    <2>4. /\ cachedUsers' \in [AccountId -> Row] /\ guarded' \subseteq AccountId
          /\ userLoader' \in [AccountId -> Handler \cup {NoHandler}]
      BY <1>6, <1>b DEF AccountInsert, TypeOK, userCache
    <2> QED
      BY <1>6, <2>2, <2>3, <2>4 DEF AccountInsert, TypeOK, db, sessionCache, history
  <1>7. CASE SessionForget(p)
    BY <1>7, <1>b, FinishType, RemoveSessionType DEF SessionForget, TypeOK, db, userCache, history
  <1>8. CASE Respond(p)
    BY <1>8, FinishType DEF Respond, TypeOK, db, sessionCache, userCache, history
  <1>9. CASE InvalidateForget(p)
    <2>1. "invalidate_delete" \in Place
      BY DEF Place
    <2> QED
      BY <1>9, <1>b, <2>1, SetPlaceType, RemoveSessionType
      DEF InvalidateForget, TypeOK, db, userCache, history
  <1>10. CASE InvalidateDelete(p)
    <2>1. "one" \in Revocation /\ "all" \in Revocation
      BY DEF Revocation
    <2> QED
      BY <1>10, <2>1, DropSessionGuardType DEF InvalidateDelete, TypeOK, userCache
  <1>11. CASE UpdateAccount(p)
    <2>1. "forget_account" \in Place
      BY DEF Place
    <2>2. CASE Finish(p) /\ UNCHANGED db
      BY <1>11, <2>2, FinishType DEF UpdateAccount, TypeOK, db, sessionCache, userCache, history
    <2>3. CASE UpdateRow(p) /\ pc' = [pc EXCEPT ![p] = "forget_account"]
               /\ req' = [req EXCEPT ![p].wrote = writes + 1]
      <3>1. writes + 1 \in Nat
        BY DEF TypeOK
      <3>2. account' \in [AccountId -> Row]
        <4>1. account \in [AccountId -> Row] /\ req[p].aid \in AccountId
          BY <1>b DEF TypeOK
        <4>2. CASE account' = account
          BY <4>1, <4>2
        <4>3. CASE account' = [account EXCEPT ![req[p].aid].ver = writes + 1]
          BY <3>1, <4>1, <4>3 DEF Row
        <4> QED
          BY <2>3, <4>2, <4>3 DEF UpdateRow
      <3>3. req' \in [Handler -> Locals]
        BY <1>a, <2>3, <3>1 DEF Locals
      <3> QED
        BY <1>11, <2>1, <2>3, <3>1, <3>2, <3>3, SetPlaceType
        DEF UpdateAccount, UpdateRow, TypeOK, sessionCache, userCache, history
    <2>4. QED
      BY <1>11, <2>2, <2>3 DEF UpdateAccount
  <1>12. CASE PurgeAccount(p)
    <2>1. "forget_account" \in Place
      BY DEF Place
    <2>2. CASE Finish(p) /\ UNCHANGED db
      BY <1>12, <2>2, FinishType DEF PurgeAccount, TypeOK, db, sessionCache, userCache, history
    <2>3. CASE PurgeRow(p) /\ pc' = [pc EXCEPT ![p] = "forget_account"]
               /\ req' = [req EXCEPT ![p].wrote = writes + 1]
      <3>1. writes + 1 \in Nat
        BY DEF TypeOK
      <3>2. account' \in [AccountId -> Row]
        BY <1>b, <2>3 DEF PurgeRow, TypeOK, NoRow, Row
      <3>3. req' \in [Handler -> Locals]
        BY <1>a, <2>3, <3>1 DEF Locals
      <3> QED
        BY <1>12, <2>1, <2>3, <3>1, <3>2, <3>3, SetPlaceType
        DEF PurgeAccount, PurgeRow, TypeOK, sessionCache, userCache, history
    <2>4. QED
      BY <1>12, <2>2, <2>3 DEF PurgeAccount
  <1>13. CASE ForgetAccount(p)
    <2>1. pc' \in [Handler -> Place]
      BY <1>13, <1>b, <1>c, FinishType DEF ForgetAccount
    <2>2. req' \in [Handler -> Locals]
      <3>1. CASE req' = [req EXCEPT ![p].next = "idle"]
        BY <1>a, <3>1 DEF Locals, Place
      <3> QED
        BY <1>13, <3>1, FinishType DEF ForgetAccount
    <2>3. settled' \in [AccountId -> Nat]
      BY <1>13, <1>b DEF ForgetAccount, TypeOK
    <2> QED
      BY <1>13, <1>b, <2>1, <2>2, <2>3, RemoveUserType DEF ForgetAccount, TypeOK, db, sessionCache
  <1>14. CASE DeleteSessions(p)
    <2>1. "forget_sessions" \in Place
      BY DEF Place
    <2>2. req' \in [Handler -> Locals]
      <3>1. PICK gone \in SUBSET Token : req' = [req EXCEPT ![p].todo = gone]
        BY <1>14 DEF DeleteSessions
      <3> QED
        BY <1>a, <3>1 DEF Locals
    <2> QED
      BY <1>14, <2>1, <2>2, SetPlaceType
      DEF DeleteSessions, DeleteRows, TypeOK, sessionCache, userCache, history
  <1>15. CASE ForgetSessions(p)
    <2>1. "mint" \in Place /\ "all" \in Revocation
      BY DEF Place, Revocation
    <2>2. CASE \E t \in req[p].todo :
                 /\ RemoveSession(t)
                 /\ req' = [req EXCEPT ![p].todo = @ \ {t}]
                 /\ revoked' = [revoked EXCEPT ![t] = "all"]
                 /\ UNCHANGED pc
      <3>1. PICK t \in req[p].todo :
                 /\ RemoveSession(t)
                 /\ req' = [req EXCEPT ![p].todo = @ \ {t}]
                 /\ revoked' = [revoked EXCEPT ![t] = "all"]
                 /\ UNCHANGED pc
        BY <2>2
      <3>2. t \in Token
        BY <1>b
      <3>3. req' \in [Handler -> Locals]
        <4>1. req' = [req EXCEPT ![p].todo = req[p].todo \ {t}]
          BY <1>a, <3>1
        <4> QED
          BY <1>a, <1>b, <4>1 DEF Locals
      <3> QED
        BY <1>15, <2>1, <3>1, <3>2, <3>3, RemoveSessionType
        DEF ForgetSessions, TypeOK, db, userCache
    <2>3. CASE Finish(p) /\ UNCHANGED <<sessionCache, revoked>>
      BY <1>15, <2>3, FinishType DEF ForgetSessions, TypeOK, db, userCache, sessionCache
    <2>4. CASE pc' = [pc EXCEPT ![p] = "mint"] /\ UNCHANGED <<req, sessionCache, revoked>>
      BY <1>15, <2>1, <2>4, SetPlaceType DEF ForgetSessions, TypeOK, db, userCache, sessionCache
    <2>5. QED
      BY <1>15, <2>2, <2>3, <2>4 DEF ForgetSessions
  <1>16. CASE MintToken(p)
    <2>1. req[p].row.born \in Nat
      BY <1>b DEF Row
    <2>2. token' \in [Token -> Minting \cup {NoToken}] /\ sessions' \subseteq Token
      BY <1>16, <1>b, <2>1 DEF MintToken, TypeOK, Minting
    <2> QED
      BY <1>16, <2>2, FinishType DEF MintToken, TypeOK, sessionCache, userCache, history
  <1> QED
    BY <1>1, <1>2, <1>3, <1>4, <1>5, <1>6, <1>7, <1>8, <1>9, <1>10, <1>11, <1>12, <1>13,
       <1>14, <1>15, <1>16 DEF Step

LEMMA GotoType ==
  ASSUME TypeOK, NEW p \in Handler, NEW to \in Place, NEW r \in Locals, Goto(p, to, r), UNCHANGED db
  PROVE  TypeOK'
  BY DEF TypeOK, Goto, db, sessionCache, userCache, history

LEMMA RequestType == ASSUME TypeOK, NEW p \in Handler, Request(p) PROVE TypeOK'
  <1>a. req \in [Handler -> Locals] /\ Blank \in Locals
    BY BlankType DEF TypeOK
  <1>b. req[p].aid \in AccountId /\ req[p].row \in Row /\ req[p].tok \in Token
    BY <1>a DEF Locals
  <1>c. /\ "session_read" \in Place /\ "account_lookup" \in Place /\ "session_wait" \in Place
        /\ "forget_account" \in Place /\ "mint" \in Place /\ "update" \in Place
        /\ "invalidate_forget" \in Place /\ "delete_sessions" \in Place /\ "purge" \in Place
    BY DEF Place
  <1>d. \A t \in Token : Minted(t) => token[t].id \in AccountId
    BY DEF TypeOK, Minted, Minting
  <1>e. "idle" \in {"idle", "mint"} /\ "mint" \in {"idle", "mint"} /\ TRUE \in BOOLEAN
    OBVIOUS
  <1>1. ASSUME NEW t \in Token, NEW cookie \in BOOLEAN, Resolve(p, t, cookie) PROVE TypeOK'
    <2>1. token[t].id \in AccountId /\ revoked[t] \in Revocation
      BY <1>1, <1>d DEF Resolve, TypeOK
    <2>2. [Blank EXCEPT !.tok = t, !.cookie = cookie, !.aid = token[t].id, !.late = revoked[t]]
            \in Locals
      BY <1>a, <2>1 DEF Locals
    <2>3. req' \in [Handler -> Locals]
      BY <1>1, <1>a, <2>2 DEF Resolve
    <2>4. pc' \in [Handler -> Place]
      BY <1>1, <1>c, SetPlaceType DEF Resolve
    <2>5. leader' \in [Handler -> Handler] /\ sessionLoader' \in [Token -> Handler \cup {NoHandler}]
      BY <1>1 DEF Resolve, TypeOK
    <2> QED
      BY <1>1, <2>3, <2>4, <2>5 DEF Resolve, TypeOK, db, userCache, history
  <1>2. ASSUME NEW t \in Token, Logout(p, t) PROVE TypeOK'
    <2>1. [Blank EXCEPT !.tok = t, !.aid = token[t].id, !.next = "invalidate_forget"] \in Locals
      <3>1. token[t].id \in AccountId
        BY <1>2, <1>d DEF Logout
      <3> QED
        BY <1>a, <1>c, <3>1 DEF Locals
    <2> QED
      BY <1>2, <1>c, <2>1, GotoType DEF Logout
  <1>3. ASSUME NEW t \in Token, ChangePassword(p, t) PROVE TypeOK'
    <2>1. [Blank EXCEPT !.aid = token[t].id, !.row = account[token[t].id],
                        !.next = "delete_sessions", !.last = "mint"] \in Locals
      <3>1. token[t].id \in AccountId
        BY <1>3, <1>d DEF ChangePassword
      <3>2. account[token[t].id] \in Row
        BY <3>1 DEF TypeOK
      <3> QED
        BY <1>a, <1>c, <3>1, <3>2 DEF Locals
    <2> QED
      BY <1>3, <1>c, <2>1, GotoType DEF ChangePassword
  <1>4. ASSUME NEW t \in Token, RevokeSession(p, t) PROVE TypeOK'
    <2>1. [Blank EXCEPT !.tok = t, !.aid = req[p].aid] \in Locals
      BY <1>a, <1>b DEF Locals
    <2> QED
      BY <1>4, <1>c, <2>1, GotoType DEF RevokeSession
  <1>5. CASE Login(p)
    <2>1. PICK id \in AccountId :
            Goto(p, "forget_account", [Blank EXCEPT !.aid = id, !.row = account[id], !.next = "mint"])
      BY <1>5 DEF Login
    <2>2. [Blank EXCEPT !.aid = id, !.row = account[id], !.next = "mint"] \in Locals
      <3>1. account[id] \in Row
        BY DEF TypeOK
      <3> QED
        BY <1>a, <1>c, <3>1 DEF Locals
    <2> QED
      BY <1>5, <1>c, <2>1, <2>2, GotoType DEF Login
  <1>6. CASE Signup(p)
    <2> DEFINE row == [born |-> writes + 1, ver |-> writes + 1]
    <2>1. row \in Row
      BY DEF Row, TypeOK
    <2>2. [Blank EXCEPT !.aid = NextRowId, !.row = row] \in Locals
      <3>1. NextRowId \in AccountId
        BY <1>6 DEF Signup
      <3> HIDE DEF row
      <3> QED
        BY <1>a, <2>1, <3>1 DEF Locals
    <2>3. /\ account' = [account EXCEPT ![NextRowId] = row] /\ writes' = writes + 1
          /\ Goto(p, "mint", [Blank EXCEPT !.aid = NextRowId, !.row = row])
          /\ UNCHANGED <<token, sessions, aged>>
      BY <1>6 DEF Signup
    <2> HIDE DEF row
    <2>4. account' \in [AccountId -> Row] /\ writes' \in Nat
      <3>1. account' = [account EXCEPT ![NextRowId] = row] /\ writes' = writes + 1
        BY <2>3
      <3>2. account \in [AccountId -> Row] /\ writes \in Nat
        BY DEF TypeOK
      <3>3. account' \in [AccountId -> Row]
        BY <2>1, <3>1, <3>2
      <3> QED
        BY <3>1, <3>2, <3>3
    <2>5. req' \in [Handler -> Locals] /\ pc' \in [Handler -> Place]
      BY <1>a, <1>c, <2>2, <2>3, SetPlaceType DEF Goto
    <2> QED
      BY <2>3, <2>4, <2>5 DEF Goto, TypeOK, sessionCache, userCache, history
  <1>7. CASE LogoutAll(p)
    <2>1. [Blank EXCEPT !.aid = req[p].aid, !.next = "delete_sessions"] \in Locals
      BY <1>a, <1>b, <1>c DEF Locals
    <2> QED
      BY <1>7, <1>c, <2>1, GotoType DEF LogoutAll
  <1>8. CASE ChangeUsername(p)
    <2>1. [Blank EXCEPT !.aid = req[p].aid] \in Locals
      BY <1>a, <1>b DEF Locals
    <2> QED
      BY <1>8, <1>c, <2>1, GotoType DEF ChangeUsername
  <1>9. CASE GenerateApiKey(p)
    <2>1. [Blank EXCEPT !.aid = req[p].aid, !.row = req[p].row, !.keys = TRUE, !.last = "mint"]
            \in Locals
      BY <1>a, <1>b DEF Locals
    <2>2. PICK to \in {"mint", "delete_sessions"} :
            Goto(p, to, [Blank EXCEPT !.aid = req[p].aid, !.row = req[p].row,
                                      !.keys = TRUE, !.last = "mint"])
      BY <1>9 DEF GenerateApiKey
    <2>3. UNCHANGED db /\ to \in Place
      BY <1>9, <1>c DEF GenerateApiKey
    <2> QED
      BY <2>1, <2>2, <2>3, GotoType
  <1>10. CASE DeleteAccount(p)
    <2>1. [Blank EXCEPT !.aid = req[p].aid, !.next = "delete_sessions"] \in Locals
      BY <1>a, <1>b, <1>c DEF Locals
    <2> QED
      BY <1>10, <1>c, <2>1, GotoType DEF DeleteAccount
  <1> QED
    BY <1>1, <1>2, <1>3, <1>4, <1>5, <1>6, <1>7, <1>8, <1>9, <1>10 DEF Request

LEMMA DisconnectType == ASSUME TypeOK, NEW p \in Handler, Disconnect(p) PROVE TypeOK'
  <1>a. req[p].aid \in AccountId
    BY DEF TypeOK, Locals
  <1>1. CASE Finish(p) /\ UNCHANGED <<db, sessionCache, userCache, leader, history>>
    BY <1>1, FinishType DEF TypeOK, db, sessionCache, userCache, history
  <1>2. CASE DropSessionGuard(p) /\ UNCHANGED <<db, validSessions, userCache, history>>
    BY <1>2, DropSessionGuardType DEF TypeOK, db, userCache, history
  <1>3. CASE DropUserGuard(p, "idle") /\ UNCHANGED <<db, sessionCache, cachedUsers, guarded, history>>
    <2>1. "idle" \in Place
      BY DEF Place
    <2> QED
      BY <1>3, <2>1, DropUserGuardType DEF TypeOK, db, sessionCache, history
  <1>4. CASE /\ UpdateRow(p) \/ PurgeRow(p) \/ \E gone \in SUBSET Token : DeleteRows(p, gone)
             /\ Finish(p) /\ UNCHANGED <<sessionCache, userCache, leader, history>>
    <2>1. account' \in [AccountId -> Row]
      <3>1. CASE UpdateRow(p)
        <4>1. account \in [AccountId -> Row] /\ writes + 1 \in Nat
          BY DEF TypeOK
        <4>2. CASE account' = [account EXCEPT ![req[p].aid].ver = writes + 1]
          BY <1>a, <4>1, <4>2 DEF Row
        <4> QED
          BY <3>1, <4>1, <4>2 DEF UpdateRow
      <3>2. CASE PurgeRow(p)
        BY <1>a, <3>2 DEF PurgeRow, TypeOK, NoRow, Row
      <3> QED
        BY <1>4, <3>1, <3>2 DEF DeleteRows, TypeOK
    <2>2. /\ token' \in [Token -> Minting \cup {NoToken}] /\ sessions' \subseteq Token
          /\ aged' \subseteq Token /\ writes' \in Nat
      BY <1>4 DEF UpdateRow, PurgeRow, DeleteRows, TypeOK
    <2> QED
      BY <1>4, <2>1, <2>2, FinishType DEF TypeOK, sessionCache, userCache, history
  <1> QED
    BY <1>1, <1>2, <1>3, <1>4 DEF Disconnect

LEMMA EnvironmentType == ASSUME TypeOK, Environment PROVE TypeOK'
  <1>1. ASSUME NEW p \in Handler, Disconnect(p) PROVE TypeOK'
    BY <1>1, DisconnectType
  <1>2. ASSUME NEW t \in Token, EvictSession(t) \/ Age(t) PROVE TypeOK'
    BY <1>2 DEF EvictSession, Age, TypeOK, db, sessionCache, userCache, local, history
  <1>3. ASSUME NEW id \in AccountId, EvictUser(id) PROVE TypeOK'
    BY <1>3 DEF EvictUser, TypeOK, NoRow, Row, db, sessionCache, local, history
  <1>4. CASE Restart
    <2>1. NoRow \in Row /\ "idle" \in Place
      BY DEF NoRow, Row, Place
    <2> QED
      BY <1>4, <2>1, BlankType DEF Restart, TypeOK, db, history
  <1> QED
    BY <1>1, <1>2, <1>3, <1>4 DEF Environment

LEMMA NextType == TypeOK /\ [Next]_vars => TypeOK'
  <1> SUFFICES ASSUME TypeOK, [Next]_vars PROVE TypeOK'
    OBVIOUS
  <1>1. CASE UNCHANGED vars
    BY <1>1 DEF TypeOK, vars, db, sessionCache, userCache, local, history
  <1> QED
    BY <1>1, StepType, RequestType, EnvironmentType DEF Next

(* Every reachable state of the store is well typed, whatever the number of *)
(* handlers, tokens, accounts and writes.                                   *)
THEOREM TypeCorrect == Spec => []TypeOK
  BY InitType, NextType, PTL DEF Spec

-----------------------------------------------------------------------------
(* Signing out everywhere                                                   *)
(*                                                                          *)
(* SignOutEverywhereIsFinal is not inductive by itself: a request is served *)
(* through the cache, through a load of its own or through somebody else's. *)
(* So the invariant says of a token signed out everywhere that it has no    *)
(* row and no cache entry, and that whoever holds its placeholder has not   *)
(* read the row yet, and of a request made since that it is at that load,   *)
(* or waits for it.                                                         *)

(* A placeholder is held by a handler that is loading that very session.    *)
SessionLoaders ==
    \A t \in Token : sessionLoader[t] # NoHandler =>
        /\ pc[sessionLoader[t]] \in SessionWork
        /\ req[sessionLoader[t]].tok = t

SessionWaiters ==
    \A q \in Handler : pc[q] = "session_wait" =>
        /\ pc[leader[q]] \in SessionWork
        /\ req[leader[q]].tok = req[q].tok

(* Rows are of minted tokens; the rows a handler has deleted are gone for good. *)
RowsMinted ==
    /\ \A t \in sessions : Minted(t)
    /\ \A p \in Handler : \A t \in req[p].todo : Minted(t) /\ t \notin sessions

RevokedGone ==
    \A t \in Token : revoked[t] = "all" =>
        /\ Minted(t) /\ t \notin sessions /\ t \notin validSessions
        /\ sessionLoader[t] # NoHandler => pc[sessionLoader[t]] = "session_read"

LateRequests ==
    \A p \in Handler : req[p].late = "all" =>
        /\ revoked[req[p].tok] = "all"
        /\ \/ pc[p] = "session_read"
           \/ pc[p] = "session_wait" /\ pc[leader[p]] = "session_read"

SignOutInv == SessionLoaders /\ SessionWaiters /\ RowsMinted /\ RevokedGone /\ LateRequests

LEMMA InitSignOut == Init => SignOutInv
  <1>1. Init => \A p \in Handler : req[p] = Blank /\ pc[p] = "idle"
    BY DEF Init
  <1>2. Blank.late = "no" /\ Blank.todo = {}
    BY DEF Blank
  <1> QED
    BY <1>1, <1>2
    DEF Init, SignOutInv, SessionLoaders, SessionWaiters, RowsMinted, RevokedGone, LateRequests

(* A step that starts no load, waits for none and ends none keeps the       *)
(* invariant: it may drop rows, cache entries and placeholders.             *)
LEMMA Elsewhere ==
  ASSUME TypeOK, TypeOK', SignOutInv,
         \A q \in Handler : pc[q] \in SessionWork =>
            pc'[q] \in SessionWork /\ req'[q].tok = req[q].tok,
         \A q \in Handler : pc[q] = "session_read" => pc'[q] = "session_read",
         \A q \in Handler : pc'[q] = "session_wait" =>
            pc[q] = "session_wait" /\ leader'[q] = leader[q] /\ req'[q].tok = req[q].tok,
         \A q \in Handler : req'[q].late = "all" =>
            pc'[q] = pc[q] /\ req[q].late = "all" /\ req'[q].tok = req[q].tok,
         \A q \in Handler : req'[q].todo \subseteq req[q].todo,
         \A t \in Token : sessionLoader'[t] \in {sessionLoader[t], NoHandler},
         sessions' \subseteq sessions, validSessions' \subseteq validSessions,
         UNCHANGED token, revoked' = revoked
  PROVE  SignOutInv'
  <1>1. SessionLoaders'
    BY HandlerAssumption DEF SignOutInv, SessionLoaders, TypeOK
  <1>2. SessionWaiters'
    BY DEF SignOutInv, SessionWaiters, TypeOK
  <1>3. RowsMinted'
    BY DEF SignOutInv, RowsMinted, Minted, TypeOK
  <1>4. RevokedGone'
    BY DEF SignOutInv, RevokedGone, Minted, TypeOK
  <1>5. LateRequests'
    <2> SUFFICES ASSUME NEW q \in Handler, req'[q].late = "all"
                 PROVE  /\ revoked'[req'[q].tok] = "all"
                        /\ \/ pc'[q] = "session_read"
                           \/ pc'[q] = "session_wait" /\ pc'[leader'[q]] = "session_read"
      BY DEF LateRequests
    <2>1. /\ revoked[req[q].tok] = "all"
          /\ \/ pc[q] = "session_read"
             \/ pc[q] = "session_wait" /\ pc[leader[q]] = "session_read"
      BY DEF SignOutInv, LateRequests
    <2>2. leader[q] \in Handler
      BY DEF TypeOK
    <2> QED
      BY <2>1, <2>2
  <1> QED
    BY <1>1, <1>2, <1>3, <1>4, <1>5 DEF SignOutInv

(* Dropping a guard leaves those who waited for it behind the heir. *)
LEMMA DropGuardSignOut ==
  ASSUME TypeOK, TypeOK', SignOutInv, NEW p \in Handler, pc[p] \in SessionWork, DropSessionGuard(p),
         sessions' \subseteq sessions, UNCHANGED <<token, validSessions>>,
         \A t \in Token : revoked'[t] = "all" <=> revoked[t] = "all"
  PROVE  SignOutInv'
  <1>a. PICK heir \in Heirs(p, "session_wait") :
           /\ PassGuard(p, "idle", "session_wait", heir, "session_read")
           /\ sessionLoader' = [sessionLoader EXCEPT ![req[p].tok] = IF @ = p THEN heir ELSE @]
           /\ req' = [req EXCEPT ![p] = Blank]
    BY DEF DropSessionGuard
  <1> DEFINE waiting == Waiting(p, "session_wait")
  <1>b. /\ waiting = {} => heir = NoHandler
        /\ waiting # {} => heir \in waiting
    BY DEF Heirs
  <1>c. /\ waiting \subseteq Handler
        /\ \A q \in Handler : q \in waiting <=> pc[q] = "session_wait" /\ leader[q] = p
    BY DEF Waiting
  <1>d. /\ \A q \in Handler : pc'[q] = IF q = p THEN "idle" ELSE IF q = heir THEN "session_read" ELSE pc[q]
        /\ \A q \in Handler : leader'[q] = IF q \in waiting THEN heir ELSE leader[q]
    BY <1>a DEF PassGuard
  <1>e. Blank.late = "no" /\ Blank.todo = {}
    BY DEF Blank
  <1>f. /\ \A q \in Handler : q # p => req'[q] = req[q]
        /\ req'[p] = Blank
    BY <1>a DEF TypeOK
  <1>g. /\ req[p].tok \in Token /\ \A q \in Handler : leader[q] \in Handler
        /\ \A t \in Token : sessionLoader[t] \in Handler \cup {NoHandler}
    BY DEF TypeOK, Locals
  <1>h. \A t \in Token : sessionLoader'[t] =
          IF t = req[p].tok /\ sessionLoader[t] = p THEN heir ELSE sessionLoader[t]
    BY <1>a DEF TypeOK
  <1>i. \A q \in waiting : req[q].tok = req[p].tok /\ q # p
    BY <1>c DEF SignOutInv, SessionWaiters, SessionWork
  <1>j. heir # NoHandler => /\ heir \in Handler /\ heir # p /\ req[heir].tok = req[p].tok
                            /\ pc'[heir] = "session_read" /\ req'[heir] = req[heir]
    BY <1>b, <1>c, <1>d, <1>f, <1>i
  <1> HIDE DEF waiting
  <1>1. SessionLoaders'
    <2> SUFFICES ASSUME NEW t \in Token, sessionLoader'[t] # NoHandler
                 PROVE  pc'[sessionLoader'[t]] \in SessionWork /\ req'[sessionLoader'[t]].tok = t
      BY DEF SessionLoaders
    <2>1. CASE sessionLoader'[t] = heir /\ t = req[p].tok
      BY <2>1, <1>j DEF SessionWork
    <2>2. CASE sessionLoader'[t] = sessionLoader[t] /\ sessionLoader[t] # p
      <3>1. pc[sessionLoader[t]] \in SessionWork /\ req[sessionLoader[t]].tok = t
            /\ sessionLoader[t] \in Handler
        BY <2>2, <1>g DEF SignOutInv, SessionLoaders
      <3>2. pc'[sessionLoader[t]] \in SessionWork
        BY <2>2, <3>1, <1>d DEF SessionWork
      <3> QED
        BY <2>2, <3>1, <3>2, <1>f
    <2>3. sessionLoader[t] = p => t = req[p].tok
      BY HandlerAssumption DEF SignOutInv, SessionLoaders
    <2> QED
      BY <2>1, <2>2, <2>3, <1>h
  <1>2. SessionWaiters'
    <2> SUFFICES ASSUME NEW q \in Handler, pc'[q] = "session_wait"
                 PROVE  pc'[leader'[q]] \in SessionWork /\ req'[leader'[q]].tok = req'[q].tok
      BY DEF SessionWaiters
    <2>1. q # p /\ pc[q] = "session_wait" /\ q # heir /\ req'[q] = req[q]
      BY <1>d, <1>f
    <2>2. pc[leader[q]] \in SessionWork /\ req[leader[q]].tok = req[q].tok
      BY <2>1 DEF SignOutInv, SessionWaiters
    <2>3. CASE q \in waiting
      BY <2>1, <2>2, <2>3, <1>b, <1>c, <1>d, <1>j, HandlerAssumption DEF SessionWork
    <2>4. CASE q \notin waiting
      BY <2>1, <2>2, <2>4, <1>c, <1>d, <1>f, <1>g DEF SessionWork
    <2> QED
      BY <2>3, <2>4
  <1>3. RowsMinted'
    BY <1>e, <1>f DEF SignOutInv, RowsMinted, Minted
  <1>4. RevokedGone'
    <2> SUFFICES ASSUME NEW t \in Token, revoked'[t] = "all"
                 PROVE  /\ Minted(t)' /\ t \notin sessions' /\ t \notin validSessions'
                        /\ sessionLoader'[t] # NoHandler => pc'[sessionLoader'[t]] = "session_read"
      BY DEF RevokedGone
    <2>1. /\ Minted(t) /\ t \notin sessions /\ t \notin validSessions
          /\ sessionLoader[t] # NoHandler => pc[sessionLoader[t]] = "session_read"
      BY DEF SignOutInv, RevokedGone
    <2>2. sessionLoader[t] = p => t = req[p].tok
      BY HandlerAssumption DEF SignOutInv, SessionLoaders
    <2>3. sessionLoader'[t] # NoHandler => pc'[sessionLoader'[t]] = "session_read"
      BY <2>1, <2>2, <1>d, <1>g, <1>h, <1>j
    <2> QED
      BY <2>1, <2>3 DEF Minted
  <1>5. LateRequests'
    <2> SUFFICES ASSUME NEW q \in Handler, req'[q].late = "all"
                 PROVE  /\ revoked'[req'[q].tok] = "all"
                        /\ \/ pc'[q] = "session_read"
                           \/ pc'[q] = "session_wait" /\ pc'[leader'[q]] = "session_read"
      BY DEF LateRequests
    <2>1. q # p /\ req'[q] = req[q]
      BY <1>e, <1>f
    <2>2. req[q].tok \in Token
      BY DEF TypeOK, Locals
    <2>3. /\ revoked[req[q].tok] = "all"
          /\ \/ pc[q] = "session_read"
             \/ pc[q] = "session_wait" /\ pc[leader[q]] = "session_read"
      BY <2>1 DEF SignOutInv, LateRequests
    <2>4. CASE q \in waiting
      BY <2>1, <2>2, <2>3, <2>4, <1>b, <1>c, <1>d, <1>j, HandlerAssumption
    <2>5. CASE q \notin waiting
      BY <2>1, <2>2, <2>3, <2>5, <1>c, <1>d, <1>g
    <2> QED
      BY <2>4, <2>5
  <1> QED
    BY <1>1, <1>2, <1>3, <1>4, <1>5 DEF SignOutInv

LEMMA StepSignOut == ASSUME TypeOK, TypeOK', SignOutInv, NEW p \in Handler, Step(p) PROVE SignOutInv'
  <1>a. req \in [Handler -> Locals] /\ pc \in [Handler -> Place] /\ leader \in [Handler -> Handler]
    BY DEF TypeOK
  <1>b. req[p].tok \in Token /\ req[p].aid \in AccountId /\ req[p].todo \subseteq Token
    BY <1>a DEF Locals
  <1>c. Blank.late = "no" /\ Blank.todo = {}
    BY DEF Blank
  <1>d. \A t \in Token : sessionLoader[t] \in Handler \cup {NoHandler}
    BY DEF TypeOK
  <1>e. pc[p] \notin {"session_read", "session_wait"} => req[p].late # "all"
    BY DEF SignOutInv, LateRequests
  <1>1. CASE SessionRead(p)
    <2>1. CASE ~SessionRowFound(p)
      BY <1>1, <2>1, DropGuardSignOut DEF SessionRead, SessionWork, db, history
    <2>2. CASE SessionRowFound(p)
      <3>1. revoked[req[p].tok] # "all"
        BY <1>b, <2>2 DEF SessionRowFound, SignOutInv, RevokedGone
      <3>2. /\ \A q \in Handler : q # p => pc'[q] = pc[q]
            /\ pc'[p] \in {"invalidate_forget", "session_insert"} /\ pc[p] = "session_read"
            /\ UNCHANGED <<db, validSessions, sessionLoader, leader, revoked>>
        BY <1>1, <1>a, <2>2 DEF SessionRead, history
      <3>3. /\ \A q \in Handler : /\ req'[q].tok = req[q].tok /\ req'[q].late = req[q].late
                                  /\ req'[q].todo = req[q].todo
        <4>1. req' = [req EXCEPT ![p].row = account[req[p].aid]]
          BY <1>1, <2>2 DEF SessionRead
        <4> QED
          BY <1>a, <4>1 DEF Locals
      <3>4. SessionLoaders'
        BY <1>d, <3>2, <3>3, HandlerAssumption DEF SignOutInv, SessionLoaders, SessionWork
      <3>5. SessionWaiters'
        BY <1>a, <3>2, <3>3 DEF SignOutInv, SessionWaiters, SessionWork
      <3>6. RowsMinted'
        BY <3>2, <3>3 DEF SignOutInv, RowsMinted, Minted, db
      <3>7. RevokedGone'
        BY <1>d, <3>1, <3>2, HandlerAssumption DEF SignOutInv, RevokedGone, SessionLoaders, Minted, db
      <3>8. LateRequests'
        BY <1>a, <3>1, <3>2, <3>3 DEF SignOutInv, LateRequests, SessionWaiters
      <3> QED
        BY <3>4, <3>5, <3>6, <3>7, <3>8 DEF SignOutInv
    <2> QED
      BY <2>1, <2>2
  <1>2. CASE SessionInsert(p)
    <2>1. /\ pc[p] = "session_insert" /\ pc'[p] \in {"account_store", "account_lookup"}
          /\ \A q \in Handler \ {p} : IF pc[q] = "session_wait" /\ leader[q] = p
                                     THEN pc'[q] = "account_lookup"
                                     ELSE pc'[q] = pc[q]
          /\ UNCHANGED <<db, req, leader, revoked>>
      BY <1>2 DEF SessionInsert, MoveWith, Waiting, history
    <2>2. /\ validSessions' = IF sessionLoader[req[p].tok] = p THEN validSessions \cup {req[p].tok}
                              ELSE validSessions
          /\ \A t \in Token : sessionLoader'[t] =
                IF t = req[p].tok /\ sessionLoader[t] = p THEN NoHandler ELSE sessionLoader[t]
      BY <1>2 DEF SessionInsert, TypeOK
    <2>3. SessionLoaders'
      BY <1>b, <1>d, <2>1, <2>2, HandlerAssumption DEF SignOutInv, SessionLoaders, SessionWork
    <2>4. SessionWaiters'
      BY <1>a, <2>1 DEF SignOutInv, SessionWaiters, SessionWork
    <2>5. RowsMinted'
      BY <2>1 DEF SignOutInv, RowsMinted, Minted, db
    <2>6. RevokedGone'
      BY <1>b, <1>d, <2>1, <2>2, HandlerAssumption
      DEF SignOutInv, RevokedGone, SessionLoaders, SessionWork, Minted, db
    <2>7. LateRequests'
      BY <1>a, <2>1 DEF SignOutInv, LateRequests
    <2> QED
      BY <2>3, <2>4, <2>5, <2>6, <2>7 DEF SignOutInv
  <1>3. CASE AccountStore(p)
    BY <1>3, <1>a, <1>e, Elsewhere DEF AccountStore, SessionWork, db, sessionCache, history
  <1>4. CASE AccountLookup(p)
    <2>1. /\ pc[p] = "account_lookup" /\ \A q \in Handler \ {p} : pc'[q] = pc[q] /\ leader'[q] = leader[q]
          /\ pc'[p] \in {"invalidate_forget", "idle", "served", "account_read", "account_wait"}
          /\ UNCHANGED <<token, sessions, sessionLoader, validSessions, revoked>>
      BY <1>4, <1>a DEF AccountLookup, Finish, db, sessionCache, history
    <2>2. \A q \in Handler : q # p => req'[q] = req[q]
      BY <1>4, <1>a DEF AccountLookup, Finish
    <2>3. req[p].late # "all"
      BY <2>1, <1>e
    <2>4. req'[p].late # "all" /\ req'[p].todo \subseteq req[p].todo
      <3>1. \/ req' = [req EXCEPT ![p].row = cachedUsers[req[p].aid]]
            \/ UNCHANGED req
            \/ req' = [req EXCEPT ![p] = Blank]
        BY <1>4 DEF AccountLookup, Finish
      <3>2. CASE req' = [req EXCEPT ![p].row = cachedUsers[req[p].aid]]
        BY <1>a, <2>3, <3>2 DEF Locals
      <3> QED
        BY <1>a, <1>c, <2>3, <3>1, <3>2
    <2> QED
      BY <2>1, <2>2, <2>3, <2>4, Elsewhere DEF SessionWork
  <1>5. CASE AccountRead(p)
    <2>1. CASE ~Exists(req[p].aid)
      <3>1. PICK heir \in Heirs(p, "account_wait") :
              /\ PassGuard(p, IF req[p].cookie THEN "session_forget" ELSE "idle",
                           "account_wait", heir, "account_read")
              /\ req' = IF req[p].cookie THEN req ELSE [req EXCEPT ![p] = Blank]
        BY <1>5, <2>1 DEF AccountRead, DropUserGuard
      <3>2. /\ heir \in Handler => pc[heir] = "account_wait"
            /\ \A q \in Handler : /\ pc[q] # "account_wait" => leader'[q] = leader[q]
                                  /\ q \notin {p, heir} => pc'[q] = pc[q]
                                  /\ q = heir /\ q # p => pc'[q] = "account_read"
            /\ pc'[p] \in {"session_forget", "idle"} /\ pc[p] = "account_read"
        BY <1>5, <3>1, HandlerAssumption DEF AccountRead, PassGuard, Heirs, Waiting
      <3>3. /\ \A q \in Handler : q # p => req'[q] = req[q]
            /\ req'[p] \in {req[p], Blank}
        BY <1>a, <3>1
      <3>4. \A q \in Handler : pc[q] = "account_wait" => req[q].late # "all"
        BY DEF SignOutInv, LateRequests
      <3>5. UNCHANGED <<token, sessions, sessionLoader, validSessions, revoked>>
        BY <1>5 DEF AccountRead, db, sessionCache, history
      <3>6. \A q \in Handler : q # p /\ pc[q] # "account_wait" => pc'[q] = pc[q] /\ leader'[q] = leader[q]
        BY <3>2
      <3>7. \A q \in Handler : pc[q] = "account_wait" => pc'[q] \in {"account_wait", "account_read"}
        BY <3>2
      <3>8. \A q \in Handler : /\ req'[q].late = "all" => q # p /\ pc[q] # "account_wait"
                               /\ req'[q].todo \subseteq req[q].todo
        BY <1>c, <1>e, <3>2, <3>3, <3>4
      <3> QED
        BY <3>2, <3>3, <3>5, <3>6, <3>7, <3>8, Elsewhere DEF SessionWork
    <2>2. CASE Exists(req[p].aid)
      <3>1. req' = [req EXCEPT ![p].row = account[req[p].aid]]
        BY <1>5, <2>2 DEF AccountRead
      <3>2. \A q \in Handler : /\ req'[q].tok = req[q].tok /\ req'[q].late = req[q].late
                               /\ req'[q].todo = req[q].todo
        BY <1>a, <3>1 DEF Locals
      <3>3. /\ pc[p] = "account_read" /\ pc' = [pc EXCEPT ![p] = "account_insert"]
            /\ UNCHANGED <<leader, token, sessions, sessionLoader, validSessions, revoked>>
        BY <1>5, <2>2 DEF AccountRead, db, sessionCache, history
      <3> QED
        BY <1>a, <1>e, <3>2, <3>3, Elsewhere DEF SessionWork
    <2> QED
      BY <2>1, <2>2
  <1>6. CASE AccountInsert(p)
    <2>1. req' = [q \in Handler |-> IF q \in Waiting(p, "account_wait")
                                   THEN [req[q] EXCEPT !.row = req[p].row] ELSE req[q]]
      BY <1>6 DEF AccountInsert
    <2>2. \A q \in Handler : /\ req'[q].tok = req[q].tok /\ req'[q].late = req[q].late
                             /\ req'[q].todo = req[q].todo
      BY <1>a, <2>1 DEF Locals
    <2>3. /\ pc[p] = "account_insert"
          /\ \A q \in Handler : \/ pc'[q] = pc[q]
                                \/ pc'[q] = "served" /\ pc[q] \in {"account_insert", "account_wait"}
          /\ UNCHANGED <<leader, token, sessions, sessionLoader, validSessions, revoked>>
      <3>1. /\ pc[p] = "account_insert" /\ MoveWith(p, "served", "account_wait", "served")
            /\ UNCHANGED <<leader, token, sessions, sessionLoader, validSessions, revoked>>
        BY <1>6 DEF AccountInsert, db, sessionCache, history
      <3> QED
        BY <3>1 DEF MoveWith, Waiting
    <2>4. \A q \in Handler : pc[q] \in {"account_insert", "account_wait"} => req[q].late # "all"
      BY DEF SignOutInv, LateRequests
    <2> QED
      BY <2>2, <2>3, <2>4, Elsewhere DEF SessionWork
  <1>7. CASE SessionForget(p)
    BY <1>7, <1>a, <1>b, <1>c, <1>d, Elsewhere
    DEF SessionForget, RemoveSession, Finish, SessionWork, db, history, TypeOK
  <1>8. CASE Respond(p)
    BY <1>8, <1>a, <1>c, Elsewhere DEF Respond, Finish, SessionWork, db, sessionCache, history
  <1>9. CASE InvalidateForget(p)
    BY <1>9, <1>a, <1>b, <1>d, <1>e, Elsewhere
    DEF InvalidateForget, RemoveSession, SessionWork, db, history, TypeOK
  <1>10. CASE InvalidateDelete(p)
    BY <1>10, <1>b, DropGuardSignOut DEF InvalidateDelete, SessionWork, TypeOK
  <1>11. CASE UpdateAccount(p)
    <2>1. /\ pc[p] = "update" /\ pc'[p] \in {"forget_account", "idle"}
          /\ \A q \in Handler \ {p} : pc'[q] = pc[q]
          /\ UNCHANGED <<leader, token, sessions, sessionLoader, validSessions, revoked>>
      BY <1>11, <1>a DEF UpdateAccount, UpdateRow, Finish, db, sessionCache, history
    <2>2. \/ req' = [req EXCEPT ![p].wrote = writes + 1]
          \/ req' = [req EXCEPT ![p] = Blank]
      BY <1>11 DEF UpdateAccount, Finish
    <2>3. \A q \in Handler : /\ q # p => req'[q] = req[q]
                             /\ req'[q].late \in {req[q].late, "no"} /\ req'[q].todo \subseteq req[q].todo
      <3>1. CASE req' = [req EXCEPT ![p].wrote = writes + 1]
        BY <1>a, <3>1 DEF Locals
      <3> QED
        BY <1>a, <1>c, <2>2, <3>1
    <2> QED
      BY <1>e, <2>1, <2>3, Elsewhere DEF SessionWork
  <1>12. CASE PurgeAccount(p)
    <2>1. /\ pc[p] = "purge" /\ pc'[p] \in {"forget_account", "idle"}
          /\ \A q \in Handler \ {p} : pc'[q] = pc[q]
          /\ sessions' \subseteq sessions
          /\ UNCHANGED <<leader, token, sessionLoader, validSessions, revoked>>
      BY <1>12, <1>a DEF PurgeAccount, PurgeRow, Finish, db, sessionCache, history
    <2>2. \/ req' = [req EXCEPT ![p].wrote = writes + 1]
          \/ req' = [req EXCEPT ![p] = Blank]
      BY <1>12 DEF PurgeAccount, Finish
    <2>3. \A q \in Handler : /\ q # p => req'[q] = req[q]
                             /\ req'[q].late \in {req[q].late, "no"} /\ req'[q].todo \subseteq req[q].todo
      <3>1. CASE req' = [req EXCEPT ![p].wrote = writes + 1]
        BY <1>a, <3>1 DEF Locals
      <3> QED
        BY <1>a, <1>c, <2>2, <3>1
    <2> QED
      BY <1>e, <2>1, <2>3, Elsewhere DEF SessionWork
  <1>13. CASE ForgetAccount(p)
    <2>1. /\ pc[p] = "forget_account" /\ \A q \in Handler \ {p} : pc'[q] = pc[q]
          /\ pc'[p] \in {"idle", "mint", "invalidate_forget", "delete_sessions"}
          /\ UNCHANGED <<leader, token, sessions, sessionLoader, validSessions, revoked>>
      <3>1. req[p].next \in {"idle", "mint", "invalidate_forget", "delete_sessions"}
        BY <1>a DEF Locals
      <3> QED
        BY <1>13, <1>a, <3>1 DEF ForgetAccount, Finish, db, sessionCache
    <2>2. \/ req' = [req EXCEPT ![p].next = "idle"]
          \/ req' = [req EXCEPT ![p] = Blank]
      BY <1>13 DEF ForgetAccount, Finish
    <2>3. \A q \in Handler : /\ q # p => req'[q] = req[q]
                             /\ req'[q].late \in {req[q].late, "no"} /\ req'[q].todo \subseteq req[q].todo
      <3>1. CASE req' = [req EXCEPT ![p].next = "idle"]
        BY <1>a, <3>1 DEF Locals
      <3> QED
        BY <1>a, <1>c, <2>2, <3>1
    <2> QED
      BY <1>e, <2>1, <2>3, Elsewhere DEF SessionWork
  <1>14. CASE DeleteSessions(p)
    <2>1. PICK gone \in SUBSET Token : DeleteRows(p, gone) /\ req' = [req EXCEPT ![p].todo = gone]
      BY <1>14 DEF DeleteSessions
    <2>2. /\ gone \subseteq sessions /\ sessions' = sessions \ gone
          /\ UNCHANGED token
      BY <2>1 DEF DeleteRows
    <2>3. /\ \A q \in Handler : req'[q].tok = req[q].tok /\ req'[q].late = req[q].late
          /\ \A q \in Handler : req'[q].todo = IF q = p THEN gone ELSE req[q].todo
      <3>1. req' = [req EXCEPT ![p].todo = gone]
        BY <2>1
      <3> QED
        BY <1>a, <3>1 DEF Locals
    <2>4. /\ pc[p] = "delete_sessions" /\ pc' = [pc EXCEPT ![p] = "forget_sessions"]
          /\ UNCHANGED <<validSessions, sessionLoader, leader, revoked>>
      BY <1>14 DEF DeleteSessions, sessionCache, history
    <2>5. SessionLoaders'
      BY <1>a, <1>d, <2>3, <2>4, HandlerAssumption DEF SignOutInv, SessionLoaders, SessionWork
    <2>6. SessionWaiters'
      BY <1>a, <2>3, <2>4 DEF SignOutInv, SessionWaiters, SessionWork
    <2>7. RowsMinted'
      BY <2>2, <2>3 DEF SignOutInv, RowsMinted, Minted
    <2>8. RevokedGone'
      BY <1>a, <1>d, <2>2, <2>4, HandlerAssumption DEF SignOutInv, RevokedGone, Minted
    <2>9. LateRequests'
      BY <1>a, <1>e, <2>3, <2>4 DEF SignOutInv, LateRequests
    <2> QED
      BY <2>5, <2>6, <2>7, <2>8, <2>9 DEF SignOutInv
  <1>15. CASE ForgetSessions(p)
    <2>1. /\ pc[p] = "forget_sessions"
          /\ UNCHANGED <<token, sessions, leader>>
      BY <1>15 DEF ForgetSessions, db
    <2>2. CASE \E t \in req[p].todo :
                 /\ RemoveSession(t)
                 /\ req' = [req EXCEPT ![p].todo = @ \ {t}]
                 /\ revoked' = [revoked EXCEPT ![t] = "all"]
                 /\ UNCHANGED pc
      <3>1. PICK t \in req[p].todo :
                 /\ RemoveSession(t)
                 /\ req' = [req EXCEPT ![p].todo = req[p].todo \ {t}]
                 /\ revoked' = [revoked EXCEPT ![t] = "all"]
                 /\ UNCHANGED pc
        BY <1>a, <2>2
      <3>2. t \in Token /\ Minted(t) /\ t \notin sessions
        BY <1>b DEF SignOutInv, RowsMinted
      <3>3. \A q \in Handler : /\ req'[q].tok = req[q].tok /\ req'[q].late = req[q].late
                               /\ req'[q].todo \subseteq req[q].todo
        <4>1. req' = [req EXCEPT ![p].todo = req[p].todo \ {t}]
          BY <3>1
        <4> QED
          BY <1>a, <4>1 DEF Locals
      <3>4. /\ t \notin validSessions' /\ validSessions' \subseteq validSessions
            /\ \A u \in Token : sessionLoader'[u] = IF u = t THEN NoHandler ELSE sessionLoader[u]
            /\ \A u \in Token : revoked'[u] = IF u = t THEN "all" ELSE revoked[u]
            /\ UNCHANGED pc
        BY <3>1, <3>2 DEF RemoveSession, TypeOK
      <3>5. SessionLoaders'
        BY <1>d, <3>3, <3>4, HandlerAssumption DEF SignOutInv, SessionLoaders
      <3>6. SessionWaiters'
        BY <1>a, <2>1, <3>3, <3>4 DEF SignOutInv, SessionWaiters
      <3>7. RowsMinted'
        BY <2>1, <3>3 DEF SignOutInv, RowsMinted, Minted
      <3>8. RevokedGone'
        BY <2>1, <3>2, <3>4 DEF SignOutInv, RevokedGone, Minted
      <3>9. LateRequests'
        <4>1. \A q \in Handler : req[q].tok \in Token
          BY <1>a DEF Locals
        <4> QED
          BY <4>1, <2>1, <3>3, <3>4 DEF SignOutInv, LateRequests
      <3> QED
        BY <3>5, <3>6, <3>7, <3>8, <3>9 DEF SignOutInv
    <2>3. CASE UNCHANGED <<sessionCache, revoked>> /\ Finish(p)
      BY <1>a, <1>c, <2>1, <2>3, Elsewhere DEF Finish, SessionWork, sessionCache
    <2>4. CASE UNCHANGED <<sessionCache, revoked, req>> /\ pc' = [pc EXCEPT ![p] = "mint"]
      BY <1>a, <1>e, <2>1, <2>4, Elsewhere DEF SessionWork, sessionCache
    <2> QED
      BY <1>15, <2>2, <2>3, <2>4 DEF ForgetSessions
  <1>16. CASE MintToken(p)
    <2>1. /\ pc[p] = "mint" /\ pc' = [pc EXCEPT ![p] = "idle"] /\ req' = [req EXCEPT ![p] = Blank]
          /\ UNCHANGED <<validSessions, sessionLoader, leader, revoked>>
      BY <1>16 DEF MintToken, Finish, sessionCache, history
    <2>2. CASE UNCHANGED <<token, sessions>>
      BY <1>a, <1>c, <2>1, <2>2, Elsewhere DEF SessionWork
    <2>3. CASE \E t \in Token : /\ ~Minted(t)
                                /\ token' = [token EXCEPT ![t] = [id |-> req[p].aid, key |-> req[p].keys,
                                                                 born |-> req[p].row.born]]
                                /\ sessions' = sessions \cup {t}
      <3>1. PICK t \in Token : /\ ~Minted(t)
                               /\ token' = [token EXCEPT ![t] = [id |-> req[p].aid, key |-> req[p].keys,
                                                                 born |-> req[p].row.born]]
                               /\ sessions' = sessions \cup {t}
        BY <2>3
      <3>2. \A u \in Token : Minted(u)' <=> Minted(u) \/ u = t
        <4>1. [id |-> req[p].aid, key |-> req[p].keys, born |-> req[p].row.born] # NoToken
          BY <1>b DEF NoToken, AccountId
        <4> QED
          BY <3>1, <4>1 DEF Minted, TypeOK
      <3>3. /\ \A q \in Handler : q # p => req'[q] = req[q] /\ pc'[q] = pc[q]
            /\ req'[p] = Blank /\ pc'[p] = "idle"
        BY <1>a, <2>1
      <3>4. SessionLoaders'
        BY <1>d, <2>1, <3>3, HandlerAssumption DEF SignOutInv, SessionLoaders, SessionWork
      <3>5. SessionWaiters'
        BY <1>a, <2>1, <3>3 DEF SignOutInv, SessionWaiters, SessionWork
      <3>6. RowsMinted'
        <4>1. sessions \subseteq Token /\ \A q \in Handler : req[q].todo \subseteq Token
          BY <1>a DEF TypeOK, Locals
        <4> QED
          BY <4>1, <1>c, <3>1, <3>2, <3>3 DEF SignOutInv, RowsMinted
      <3>7. RevokedGone'
        BY <1>d, <2>1, <3>1, <3>2, <3>3, HandlerAssumption DEF SignOutInv, RevokedGone
      <3>8. LateRequests'
        BY <1>a, <1>c, <2>1, <3>3 DEF SignOutInv, LateRequests
      <3> QED
        BY <3>4, <3>5, <3>6, <3>7, <3>8 DEF SignOutInv
    <2> QED
      BY <1>16, <2>2, <2>3 DEF MintToken
  <1> QED
    BY <1>1, <1>2, <1>3, <1>4, <1>5, <1>6, <1>7, <1>8, <1>9, <1>10, <1>11, <1>12, <1>13,
       <1>14, <1>15, <1>16 DEF Step

(* A request that starts outside the session loads leaves them alone. *)
LEMMA GotoSignOut ==
  ASSUME TypeOK, TypeOK', SignOutInv, NEW p \in Handler, pc[p] \notin SessionWork \cup {"session_wait"},
         NEW to \in Place \ {"session_wait"}, NEW r, r.late = "no", r.todo = {},
         pc' = [pc EXCEPT ![p] = to], req' = [req EXCEPT ![p] = r],
         UNCHANGED <<token, sessions, sessionCache, leader, revoked>>
  PROVE  SignOutInv'
  <1>a. req \in [Handler -> Locals] /\ pc \in [Handler -> Place]
    BY DEF TypeOK
  <1>1. /\ \A q \in Handler : q # p => pc'[q] = pc[q] /\ req'[q] = req[q]
        /\ pc'[p] = to /\ req'[p] = r
    BY <1>a
  <1> QED
    BY <1>1, Elsewhere DEF SessionWork, sessionCache

LEMMA ResolveSignOut ==
  ASSUME TypeOK, TypeOK', SignOutInv, NEW p \in Handler, NEW t \in Token, NEW cookie \in BOOLEAN,
         Resolve(p, t, cookie)
  PROVE  SignOutInv'
  <1> DEFINE r == [Blank EXCEPT !.tok = t, !.cookie = cookie, !.aid = token[t].id, !.late = revoked[t]]
  <1>a. req \in [Handler -> Locals] /\ pc \in [Handler -> Place] /\ leader \in [Handler -> Handler]
        /\ \A u \in Token : sessionLoader[u] \in Handler \cup {NoHandler}
    BY DEF TypeOK
  <1>b. r.tok = t /\ r.late = revoked[t] /\ r.todo = {}
    BY DEF Blank
  <1>c. req' = [req EXCEPT ![p] = r]
    BY DEF Resolve
  <1> HIDE DEF r
  <1>d. /\ \A q \in Handler : q # p => req'[q] = req[q]
        /\ req'[p] = r /\ pc[p] = "idle" /\ Minted(t)
        /\ UNCHANGED <<db, validSessions, revoked>>
    BY <1>a, <1>c DEF Resolve, history
  <1>e. RowsMinted'
    BY <1>b, <1>d DEF SignOutInv, RowsMinted, Minted, db
  <1>1. CASE /\ t \in validSessions /\ pc' = [pc EXCEPT ![p] = "account_lookup"]
             /\ UNCHANGED <<sessionLoader, leader>>
    <2>1. revoked[t] # "all"
      BY <1>1 DEF SignOutInv, RevokedGone
    <2>2. \A q \in Handler : req'[q].late = "all" => q # p
      BY <1>b, <1>d, <2>1
    <2> QED
      BY <1>1, <1>a, <1>b, <1>d, <2>2, Elsewhere DEF SessionWork, db
  <1>2. CASE /\ t \notin validSessions /\ sessionLoader[t] = NoHandler
             /\ pc' = [pc EXCEPT ![p] = "session_read"]
             /\ sessionLoader' = [sessionLoader EXCEPT ![t] = p] /\ UNCHANGED leader
    <2>1. /\ \A q \in Handler : q # p => pc'[q] = pc[q]
          /\ pc'[p] = "session_read"
          /\ \A u \in Token : sessionLoader'[u] = IF u = t THEN p ELSE sessionLoader[u]
      BY <1>2, <1>a DEF TypeOK
    <2>2. SessionLoaders'
      BY <1>a, <1>b, <1>d, <2>1, HandlerAssumption DEF SignOutInv, SessionLoaders, SessionWork
    <2>3. SessionWaiters'
      BY <1>2, <1>a, <1>d, <2>1 DEF SignOutInv, SessionWaiters, SessionWork
    <2>4. RevokedGone'
      BY <1>a, <1>d, <2>1, HandlerAssumption DEF SignOutInv, RevokedGone, Minted, db
    <2>5. LateRequests'
      BY <1>2, <1>a, <1>b, <1>d, <2>1 DEF SignOutInv, LateRequests
    <2> QED
      BY <1>e, <2>2, <2>3, <2>4, <2>5 DEF SignOutInv
  <1>3. CASE /\ t \notin validSessions /\ sessionLoader[t] # NoHandler
             /\ pc' = [pc EXCEPT ![p] = "session_wait"]
             /\ leader' = [leader EXCEPT ![p] = sessionLoader[t]] /\ UNCHANGED sessionLoader
    <2>1. /\ \A q \in Handler : q # p => pc'[q] = pc[q] /\ leader'[q] = leader[q]
          /\ pc'[p] = "session_wait" /\ leader'[p] = sessionLoader[t]
      BY <1>3, <1>a
    <2>2. /\ sessionLoader[t] \in Handler /\ sessionLoader[t] # p
          /\ pc[sessionLoader[t]] \in SessionWork /\ req[sessionLoader[t]].tok = t
          /\ revoked[t] = "all" => pc[sessionLoader[t]] = "session_read"
      BY <1>3, <1>a, <1>d DEF SignOutInv, SessionLoaders, RevokedGone, SessionWork
    <2>3. SessionLoaders'
      BY <1>3, <1>a, <1>d, <2>1, HandlerAssumption DEF SignOutInv, SessionLoaders, SessionWork
    <2>4. SessionWaiters'
      BY <1>a, <1>b, <1>d, <2>1, <2>2 DEF SignOutInv, SessionWaiters, SessionWork
    <2>5. RevokedGone'
      BY <1>3, <1>a, <1>d, <2>1, HandlerAssumption DEF SignOutInv, RevokedGone, Minted, db
    <2>6. LateRequests'
      BY <1>a, <1>b, <1>d, <2>1, <2>2 DEF SignOutInv, LateRequests
    <2> QED
      BY <1>e, <2>3, <2>4, <2>5, <2>6 DEF SignOutInv
  <1> QED
    BY <1>1, <1>2, <1>3 DEF Resolve

LEMMA RequestSignOut ==
  ASSUME TypeOK, TypeOK', SignOutInv, NEW p \in Handler, Request(p) PROVE SignOutInv'
  <1>a. Blank.late = "no" /\ Blank.todo = {}
    BY DEF Blank
  <1>b. {"forget_account", "mint", "update", "invalidate_forget", "delete_sessions", "purge"}
          \subseteq Place \ {"session_wait"}
    BY DEF Place
  <1>c. ASSUME NEW to \in {"forget_account", "mint", "update", "invalidate_forget",
                           "delete_sessions", "purge"},
               NEW r, r.late = "no", r.todo = {}, Goto(p, to, r), UNCHANGED <<token, sessions>>,
               pc[p] \in {"idle", "served"}
        PROVE  SignOutInv'
    BY <1>b, <1>c, GotoSignOut DEF Goto, SessionWork, history
  <1>1. ASSUME NEW t \in Token, NEW cookie \in BOOLEAN, Resolve(p, t, cookie) PROVE SignOutInv'
    BY <1>1, ResolveSignOut
  <1>2. ASSUME NEW t \in Token, Logout(p, t) PROVE SignOutInv'
    <2> DEFINE r == [Blank EXCEPT !.tok = t, !.aid = token[t].id, !.next = "invalidate_forget"]
    <2>1. r.late = "no" /\ r.todo = {}
      BY DEF Blank
    <2>2. Goto(p, "forget_account", r) /\ UNCHANGED db /\ pc[p] = "idle"
      BY <1>2 DEF Logout
    <2> HIDE DEF r
    <2> QED
      BY <1>c, <2>1, <2>2 DEF db
  <1>3. ASSUME NEW t \in Token, ChangePassword(p, t) PROVE SignOutInv'
    <2> DEFINE r == [Blank EXCEPT !.aid = token[t].id, !.row = account[token[t].id],
                                  !.next = "delete_sessions", !.last = "mint"]
    <2>1. r.late = "no" /\ r.todo = {}
      BY DEF Blank
    <2>2. Goto(p, "update", r) /\ UNCHANGED db /\ pc[p] = "idle"
      BY <1>3 DEF ChangePassword
    <2> HIDE DEF r
    <2> QED
      BY <1>c, <2>1, <2>2 DEF db
  <1>4. ASSUME NEW t \in Token, RevokeSession(p, t) PROVE SignOutInv'
    <2> DEFINE r == [Blank EXCEPT !.tok = t, !.aid = req[p].aid]
    <2>1. r.late = "no" /\ r.todo = {}
      BY DEF Blank
    <2>2. Goto(p, "invalidate_forget", r) /\ UNCHANGED db /\ pc[p] = "served"
      BY <1>4 DEF RevokeSession, Authenticated
    <2> HIDE DEF r
    <2> QED
      BY <1>c, <2>1, <2>2 DEF db
  <1>5. CASE Login(p)
    <2>1. PICK id \in AccountId :
            Goto(p, "forget_account", [Blank EXCEPT !.aid = id, !.row = account[id], !.next = "mint"])
      BY <1>5 DEF Login
    <2> DEFINE r == [Blank EXCEPT !.aid = id, !.row = account[id], !.next = "mint"]
    <2>2. r.late = "no" /\ r.todo = {}
      BY DEF Blank
    <2>3. Goto(p, "forget_account", r) /\ UNCHANGED db /\ pc[p] = "idle"
      BY <1>5, <2>1 DEF Login
    <2> HIDE DEF r
    <2> QED
      BY <1>c, <2>2, <2>3 DEF db
  <1>6. CASE Signup(p)
    <2> DEFINE r == [Blank EXCEPT !.aid = NextRowId, !.row = [born |-> writes + 1, ver |-> writes + 1]]
    <2>1. r.late = "no" /\ r.todo = {}
      BY DEF Blank
    <2>2. Goto(p, "mint", r) /\ UNCHANGED <<token, sessions>> /\ pc[p] = "idle"
      BY <1>6 DEF Signup
    <2> HIDE DEF r
    <2> QED
      BY <1>c, <2>1, <2>2
  <1>7. CASE LogoutAll(p)
    <2> DEFINE r == [Blank EXCEPT !.aid = req[p].aid, !.next = "delete_sessions"]
    <2>1. r.late = "no" /\ r.todo = {}
      BY DEF Blank
    <2>2. Goto(p, "forget_account", r) /\ UNCHANGED db /\ pc[p] = "served"
      BY <1>7 DEF LogoutAll, Authenticated
    <2> HIDE DEF r
    <2> QED
      BY <1>c, <2>1, <2>2 DEF db
  <1>8. CASE ChangeUsername(p)
    <2> DEFINE r == [Blank EXCEPT !.aid = req[p].aid]
    <2>1. r.late = "no" /\ r.todo = {}
      BY DEF Blank
    <2>2. Goto(p, "update", r) /\ UNCHANGED db /\ pc[p] = "served"
      BY <1>8 DEF ChangeUsername, Authenticated
    <2> HIDE DEF r
    <2> QED
      BY <1>c, <2>1, <2>2 DEF db
  <1>9. CASE GenerateApiKey(p)
    <2> DEFINE r == [Blank EXCEPT !.aid = req[p].aid, !.row = req[p].row, !.keys = TRUE, !.last = "mint"]
    <2>1. r.late = "no" /\ r.todo = {}
      BY DEF Blank
    <2>2. /\ Goto(p, "mint", r) \/ Goto(p, "delete_sessions", r)
          /\ UNCHANGED db /\ pc[p] = "served"
      BY <1>9 DEF GenerateApiKey, Authenticated
    <2> HIDE DEF r
    <2> QED
      BY <1>c, <2>1, <2>2 DEF db
  <1>10. CASE DeleteAccount(p)
    <2> DEFINE r == [Blank EXCEPT !.aid = req[p].aid, !.next = "delete_sessions"]
    <2>1. r.late = "no" /\ r.todo = {}
      BY DEF Blank
    <2>2. Goto(p, "purge", r) /\ UNCHANGED db /\ pc[p] = "served"
      BY <1>10 DEF DeleteAccount, Authenticated
    <2> HIDE DEF r
    <2> QED
      BY <1>c, <2>1, <2>2 DEF db
  <1> QED
    BY <1>1, <1>2, <1>3, <1>4, <1>5, <1>6, <1>7, <1>8, <1>9, <1>10 DEF Request

LEMMA DisconnectSignOut ==
  ASSUME TypeOK, TypeOK', SignOutInv, NEW p \in Handler, Disconnect(p) PROVE SignOutInv'
  <1>a. req \in [Handler -> Locals] /\ pc \in [Handler -> Place]
    BY DEF TypeOK
  <1>b. Blank.late = "no" /\ Blank.todo = {}
    BY DEF Blank
  <1>1. CASE /\ pc[p] \notin SessionWork /\ Finish(p)
             /\ UNCHANGED <<token, sessionCache, leader, revoked>> /\ sessions' \subseteq sessions
    <2>1. /\ \A q \in Handler : q # p => pc'[q] = pc[q] /\ req'[q] = req[q]
          /\ pc'[p] = "idle" /\ req'[p] = Blank
      BY <1>1, <1>a DEF Finish
    <2> QED
      BY <1>1, <1>b, <2>1, Elsewhere DEF SessionWork, sessionCache
  <1>2. CASE pc[p] = "session_read" /\ DropSessionGuard(p) /\ UNCHANGED <<db, validSessions, userCache, history>>
    BY <1>2, DropGuardSignOut DEF SessionWork, db, history
  <1>3. CASE pc[p] = "account_read" /\ DropUserGuard(p, "idle")
             /\ UNCHANGED <<db, sessionCache, cachedUsers, guarded, history>>
    <2>1. PICK heir \in Heirs(p, "account_wait") :
            /\ PassGuard(p, "idle", "account_wait", heir, "account_read")
            /\ req' = [req EXCEPT ![p] = Blank]
      BY <1>3 DEF DropUserGuard
    <2>2. /\ heir \in Handler => pc[heir] = "account_wait"
          /\ \A q \in Handler : pc[q] # "account_wait" => leader'[q] = leader[q]
          /\ \A q \in Handler : q \notin {p, heir} => pc'[q] = pc[q]
          /\ \A q \in Handler : q = heir /\ q # p => pc'[q] = "account_read"
          /\ pc'[p] = "idle"
      BY <1>3, <2>1, HandlerAssumption DEF PassGuard, Heirs, Waiting
    <2>3. /\ \A q \in Handler : q # p => req'[q] = req[q]
          /\ req'[p] = Blank
      BY <1>a, <2>1
    <2>4. \A q \in Handler : pc[q] = "account_wait" => req[q].late # "all"
      BY DEF SignOutInv, LateRequests
    <2>5. \A q \in Handler : q # p /\ pc[q] # "account_wait" => pc'[q] = pc[q] /\ leader'[q] = leader[q]
      BY <2>2
    <2>6. \A q \in Handler : q # p /\ pc[q] = "account_wait" => pc'[q] \in {"account_wait", "account_read"}
      BY <2>2
    <2>7. \A q \in Handler : /\ req'[q].late = "all" => q # p /\ pc[q] # "account_wait"
                             /\ req'[q].todo \subseteq req[q].todo
      BY <1>b, <2>3, <2>4
    <2> QED
      BY <1>3, <2>2, <2>3, <2>5, <2>6, <2>7, Elsewhere DEF SessionWork, db, sessionCache, history
  <1> QED
    BY <1>1, <1>2, <1>3
    DEF Disconnect, UpdateRow, PurgeRow, DeleteRows, SessionWork, db, userCache, history

LEMMA EnvironmentSignOut == ASSUME TypeOK, TypeOK', SignOutInv, Environment PROVE SignOutInv'
  <1>1. ASSUME NEW p \in Handler, Disconnect(p) PROVE SignOutInv'
    BY <1>1, DisconnectSignOut
  <1>2. ASSUME NEW t \in Token, EvictSession(t) PROVE SignOutInv'
    <2>1. SessionLoaders' /\ SessionWaiters' /\ RowsMinted' /\ LateRequests'
      BY <1>2
      DEF EvictSession, SignOutInv, SessionLoaders, SessionWaiters, RowsMinted, LateRequests, Minted,
          db, local, history
    <2>2. RevokedGone'
      BY <1>2 DEF EvictSession, SignOutInv, RevokedGone, Minted, db, local, history
    <2> QED
      BY <2>1, <2>2 DEF SignOutInv
  <1>3. ASSUME UNCHANGED <<token, sessions, sessionCache, local, revoked>> PROVE SignOutInv'
    BY <1>3 DEF SignOutInv, SessionLoaders, SessionWaiters, RowsMinted, RevokedGone, LateRequests,
                Minted, sessionCache, local
  <1>4. CASE Restart
    <2>1. Blank.late = "no" /\ Blank.todo = {}
      BY DEF Blank
    <2>2. /\ \A q \in Handler : req'[q] = Blank /\ pc'[q] = "idle"
          /\ \A t \in Token : sessionLoader'[t] = NoHandler
          /\ validSessions' = {} /\ UNCHANGED <<token, sessions, revoked>>
      BY <1>4 DEF Restart, db, history
    <2> QED
      BY <2>1, <2>2
      DEF SignOutInv, SessionLoaders, SessionWaiters, RowsMinted, RevokedGone, LateRequests, Minted
  <1> QED
    BY <1>1, <1>2, <1>3, <1>4 DEF Environment, EvictUser, Age, db, sessionCache, history

LEMMA NextSignOut == TypeOK /\ TypeOK' /\ SignOutInv /\ [Next]_vars => SignOutInv'
  <1> SUFFICES ASSUME TypeOK, TypeOK', SignOutInv, [Next]_vars PROVE SignOutInv'
    OBVIOUS
  <1>1. CASE UNCHANGED vars
    BY <1>1
    DEF SignOutInv, SessionLoaders, SessionWaiters, RowsMinted, RevokedGone, LateRequests, Minted,
        vars, db, sessionCache, local, history
  <1> QED
    BY <1>1, StepSignOut, RequestSignOut, EnvironmentSignOut DEF Next

THEOREM SignOutInductive == Spec => []SignOutInv
  BY InitSignOut, NextSignOut, TypeCorrect, PTL DEF Spec

(* A token that invalidate_account_sessions or invalidate_api_keys has      *)
(* dropped never again serves a request that starts afterwards.             *)
THEOREM SignOutFinal == Spec => []SignOutEverywhereIsFinal
  <1>1. SignOutInv => SignOutEverywhereIsFinal
    BY DEF SignOutInv, LateRequests, SignOutEverywhereIsFinal
  <1> QED
    BY <1>1, SignOutInductive, PTL

-----------------------------------------------------------------------------
(* Cached accounts                                                          *)
(*                                                                          *)
(* GuardedFillsFresh is about a row that is read and inserted later.  A     *)
(* change in between takes the placeholder out when its handler calls       *)
(* invalidate_account_cache; so the invariant says that whoever still holds *)
(* a placeholder and has read the row has a row no older than the last such *)
(* call, and that the table has no older one either.                        *)

(* A placeholder is held by a handler that is loading that very account,    *)
(* and whoever waits does so behind such a load.                            *)
UserLoaders ==
    \A id \in AccountId : userLoader[id] # NoHandler =>
        /\ pc[userLoader[id]] \in UserWork
        /\ req[userLoader[id]].aid = id

UserWaiters ==
    \A q \in Handler : pc[q] = "account_wait" =>
        /\ pc[leader[q]] \in UserWork
        /\ req[leader[q]].aid = req[q].aid

FreshLoads ==
    \A id \in AccountId :
        userLoader[id] # NoHandler /\ pc[userLoader[id]] = "account_insert" =>
            req[userLoader[id]].row.ver >= settled[id]

(* Versions grow: no row is older than a write whose handler has not called *)
(* yet, or has.                                                             *)
NoOlder(id, w) == w <= writes /\ (Exists(id) => account[id].ver >= w)

SettledPast == \A id \in AccountId : NoOlder(id, settled[id])

WrotePast == \A p \in Handler : pc[p] = "forget_account" => NoOlder(req[p].aid, req[p].wrote)

UserInv == UserLoaders /\ UserWaiters /\ FreshLoads /\ SettledPast /\ WrotePast /\ GuardedFillsFresh

LEMMA InitUser == Init => UserInv
  <1> SUFFICES ASSUME Init PROVE UserInv
    OBVIOUS
  <1>1. /\ \A p \in Handler : pc[p] = "idle"
        /\ \A id \in AccountId : userLoader[id] = NoHandler /\ settled[id] = 0
        /\ guarded = {} /\ writes = 1
    BY DEF Init
  <1>2. \A id \in AccountId : account[id].ver \in Nat
    BY InitType DEF TypeOK, Row
  <1> QED
    BY <1>1, <1>2
    DEF UserInv, UserLoaders, UserWaiters, FreshLoads, SettledPast, WrotePast, GuardedFillsFresh, NoOlder

(* What a step leaves alone that starts no load of an account, waits for    *)
(* none and ends none: of the handlers, of the table, of the cache.         *)
UserKept(q) ==
    /\ pc[q] \in UserWork => pc'[q] = pc[q] /\ req'[q].aid = req[q].aid /\ req'[q].row = req[q].row
    /\ pc'[q] = "account_wait" =>
          pc[q] = "account_wait" /\ leader'[q] = leader[q] /\ req'[q].aid = req[q].aid
    /\ pc'[q] = "forget_account" =>
          \/ pc[q] = "forget_account" /\ req'[q].aid = req[q].aid /\ req'[q].wrote = req[q].wrote
          \/ NoOlder(req[q].aid, req[q].wrote)'

RowsNewer ==
    /\ writes' >= writes
    /\ \A id \in AccountId : \/ account'[id] = account[id]
                             \/ Exists(id)' => account'[id].ver > writes

UserCacheKept ==
    \A id \in AccountId :
        /\ userLoader'[id] \in {userLoader[id], NoHandler}
        /\ id \in guarded' => id \in guarded /\ cachedUsers'[id] = cachedUsers[id]
        /\ \/ settled'[id] = settled[id]
           \/ userLoader'[id] = NoHandler /\ id \notin guarded' /\ NoOlder(id, settled[id])'

LEMMA UserElsewhere ==
  ASSUME TypeOK, TypeOK', UserInv, \A q \in Handler : UserKept(q), RowsNewer, UserCacheKept
  PROVE  UserInv'
  <1>a. /\ \A id \in AccountId : /\ userLoader[id] \in Handler \cup {NoHandler}
                                 /\ settled[id] \in Nat
        /\ \A q \in Handler : /\ leader[q] \in Handler
                              /\ req[q].aid \in AccountId /\ req[q].wrote \in Nat
        /\ guarded' \subseteq AccountId
    BY DEF TypeOK, Locals
  <1>1. UserLoaders'
    <2> SUFFICES ASSUME NEW id \in AccountId, userLoader'[id] # NoHandler
                 PROVE  pc'[userLoader'[id]] \in UserWork /\ req'[userLoader'[id]].aid = id
      BY DEF UserLoaders
    <2>1. userLoader'[id] = userLoader[id] /\ userLoader[id] \in Handler
      BY <1>a DEF UserCacheKept
    <2>2. pc[userLoader[id]] \in UserWork /\ req[userLoader[id]].aid = id
      BY <2>1 DEF UserInv, UserLoaders
    <2> QED
      BY <2>1, <2>2 DEF UserKept
  <1>2. UserWaiters'
    <2> SUFFICES ASSUME NEW q \in Handler, pc'[q] = "account_wait"
                 PROVE  pc'[leader'[q]] \in UserWork /\ req'[leader'[q]].aid = req'[q].aid
      BY DEF UserWaiters
    <2>1. pc[q] = "account_wait" /\ leader'[q] = leader[q] /\ req'[q].aid = req[q].aid
      BY DEF UserKept
    <2>2. pc[leader[q]] \in UserWork /\ req[leader[q]].aid = req[q].aid
      BY <2>1 DEF UserInv, UserWaiters
    <2> QED
      BY <2>1, <2>2, <1>a DEF UserKept
  <1>3. FreshLoads'
    <2> SUFFICES ASSUME NEW id \in AccountId, userLoader'[id] # NoHandler,
                        pc'[userLoader'[id]] = "account_insert"
                 PROVE  req'[userLoader'[id]].row.ver >= settled'[id]
      BY DEF FreshLoads
    <2>1. userLoader'[id] = userLoader[id] /\ userLoader[id] \in Handler /\ settled'[id] = settled[id]
      BY <1>a DEF UserCacheKept
    <2>2. pc[userLoader[id]] \in UserWork
      BY <2>1 DEF UserInv, UserLoaders
    <2>3. /\ pc'[userLoader[id]] = pc[userLoader[id]]
          /\ req'[userLoader[id]].row = req[userLoader[id]].row
      BY <2>1, <2>2 DEF UserKept
    <2> QED
      BY <2>1, <2>3 DEF UserInv, FreshLoads
  <1>4. SettledPast'
    <2> SUFFICES ASSUME NEW id \in AccountId PROVE NoOlder(id, settled[id])'
      BY DEF SettledPast
    <2>1. CASE settled'[id] = settled[id]
      <3>1. NoOlder(id, settled[id])
        BY DEF UserInv, SettledPast
      <3> DEFINE w == settled[id]
      <3>2. w \in Nat /\ NoOlder(id, w)
        BY <1>a, <3>1
      <3>3. writes' >= w /\ (Exists(id)' => account'[id].ver >= w)
        <4>1. writes \in Nat /\ writes' \in Nat /\ account'[id].ver \in Nat
          BY DEF TypeOK, Row
        <4> QED
          BY <3>2, <4>1 DEF RowsNewer, NoOlder, Exists
      <3> QED
        BY <2>1, <3>2, <3>3 DEF NoOlder, TypeOK
    <2> QED
      BY <2>1 DEF UserCacheKept
  <1>5. WrotePast'
    <2> SUFFICES ASSUME NEW q \in Handler, pc'[q] = "forget_account"
                 PROVE  NoOlder(req[q].aid, req[q].wrote)'
      BY DEF WrotePast
    <2>1. CASE pc[q] = "forget_account" /\ req'[q].aid = req[q].aid /\ req'[q].wrote = req[q].wrote
      <3>1. NoOlder(req[q].aid, req[q].wrote)
        BY <2>1 DEF UserInv, WrotePast
      <3>2. writes \in Nat /\ writes' \in Nat /\ account'[req[q].aid].ver \in Nat
        BY <1>a DEF TypeOK, Row
      <3> QED
        BY <1>a, <2>1, <3>1, <3>2 DEF RowsNewer, NoOlder, Exists
    <2> QED
      BY <2>1 DEF UserKept
  <1>6. GuardedFillsFresh'
    <2> SUFFICES ASSUME NEW id \in guarded' PROVE cachedUsers'[id].ver >= settled'[id]
      BY DEF GuardedFillsFresh
    <2>1. id \in guarded /\ cachedUsers'[id] = cachedUsers[id] /\ settled'[id] = settled[id]
      BY <1>a DEF UserCacheKept
    <2> QED
      BY <2>1 DEF UserInv, GuardedFillsFresh
  <1> QED
    BY <1>1, <1>2, <1>3, <1>4, <1>5, <1>6 DEF UserInv

(* Only one handler moves, and not from a load. *)
LEMMA OneMoves ==
  ASSUME TypeOK, NEW p \in Handler, pc[p] \notin UserWork,
         NEW to, to \notin {"account_wait", "forget_account"}, pc' = [pc EXCEPT ![p] = to],
         \A q \in Handler : q # p => req'[q] = req[q] /\ leader'[q] = leader[q]
  PROVE  \A q \in Handler : UserKept(q)
  <1>1. /\ \A q \in Handler : q # p => pc'[q] = pc[q]
        /\ pc'[p] = to
    BY DEF TypeOK
  <1> QED
    BY <1>1 DEF UserKept

(* The guard of a session passes among those who deal with the session. *)
LEMMA DropSessionKept ==
  ASSUME TypeOK, NEW p \in Handler, pc[p] \in SessionWork, DropSessionGuard(p)
  PROVE  \A q \in Handler : UserKept(q)
  <1>a. PICK heir \in Heirs(p, "session_wait") :
           /\ PassGuard(p, "idle", "session_wait", heir, "session_read")
           /\ req' = [req EXCEPT ![p] = Blank]
    BY DEF DropSessionGuard
  <1>b. heir \in Handler => pc[heir] = "session_wait"
    BY HandlerAssumption DEF Heirs, Waiting
  <1>1. /\ \A q \in Handler : pc'[q] = IF q = p THEN "idle" ELSE IF q = heir THEN "session_read" ELSE pc[q]
        /\ \A q \in Handler : pc[q] # "session_wait" => leader'[q] = leader[q]
    BY <1>a DEF PassGuard, Waiting
  <1>2. \A q \in Handler : q # p => req'[q] = req[q]
    BY <1>a DEF TypeOK
  <1> QED
    BY <1>b, <1>1, <1>2 DEF UserKept, SessionWork, UserWork

(* The guard of an account: who waited for it waits for the heir. *)
LEMMA DropUserKept ==
  ASSUME TypeOK, TypeOK', UserInv, NEW p \in Handler, pc[p] = "account_read",
         NEW to \in {"idle", "session_forget"}, DropUserGuard(p, to),
         UNCHANGED <<account, writes, cachedUsers, guarded, settled>>
  PROVE  UserInv'
  <1>a. PICK heir \in Heirs(p, "account_wait") :
           /\ PassGuard(p, to, "account_wait", heir, "account_read")
           /\ userLoader' = [userLoader EXCEPT ![req[p].aid] = IF @ = p THEN heir ELSE @]
           /\ req' = IF to = "idle" THEN [req EXCEPT ![p] = Blank] ELSE req
    BY DEF DropUserGuard
  <1> DEFINE waiting == Waiting(p, "account_wait")
  <1>b. /\ waiting = {} => heir = NoHandler
        /\ waiting # {} => heir \in waiting
    BY DEF Heirs
  <1>c. /\ waiting \subseteq Handler
        /\ \A q \in Handler : q \in waiting <=> pc[q] = "account_wait" /\ leader[q] = p
    BY DEF Waiting
  <1>d. /\ \A q \in Handler : pc'[q] = IF q = p THEN to ELSE IF q = heir THEN "account_read" ELSE pc[q]
        /\ \A q \in Handler : leader'[q] = IF q \in waiting THEN heir ELSE leader[q]
    BY <1>a DEF PassGuard
  <1>e. \A q \in Handler : q # p => req'[q] = req[q]
    BY <1>a DEF TypeOK
  <1>f. /\ req[p].aid \in AccountId /\ \A q \in Handler : leader[q] \in Handler
        /\ \A id \in AccountId : userLoader[id] \in Handler \cup {NoHandler}
    BY DEF TypeOK, Locals
  <1>g. \A id \in AccountId : userLoader'[id] =
          IF id = req[p].aid /\ userLoader[id] = p THEN heir ELSE userLoader[id]
    BY <1>a DEF TypeOK
  <1>h. \A q \in waiting : req[q].aid = req[p].aid /\ q # p
    BY <1>c DEF UserInv, UserWaiters, UserWork
  <1>i. heir # NoHandler => /\ heir \in Handler /\ heir # p /\ req[heir].aid = req[p].aid
                            /\ pc'[heir] = "account_read" /\ req'[heir] = req[heir]
                            /\ pc[heir] = "account_wait"
    BY <1>b, <1>c, <1>d, <1>e, <1>h
  <1>j. \A id \in AccountId : userLoader[id] = p => id = req[p].aid
    BY HandlerAssumption DEF UserInv, UserLoaders
  <1> HIDE DEF waiting
  <1>k. \A id \in AccountId : userLoader[id] # NoHandler /\ userLoader[id] # p =>
          /\ userLoader[id] \in Handler
          /\ pc[userLoader[id]] \in UserWork /\ req[userLoader[id]].aid = id
          /\ pc'[userLoader[id]] = pc[userLoader[id]]
          /\ req'[userLoader[id]] = req[userLoader[id]]
    BY <1>d, <1>e, <1>f, <1>i DEF UserInv, UserLoaders, UserWork
  <1>1. UserLoaders'
    <2> SUFFICES ASSUME NEW id \in AccountId, userLoader'[id] # NoHandler
                 PROVE  pc'[userLoader'[id]] \in UserWork /\ req'[userLoader'[id]].aid = id
      BY DEF UserLoaders
    <2>1. CASE userLoader[id] = p
      BY <2>1, <1>g, <1>i, <1>j DEF UserWork
    <2>2. CASE userLoader[id] # p
      <3>1. userLoader'[id] = userLoader[id]
        BY <2>2, <1>g
      <3> QED
        BY <2>2, <3>1, <1>k
    <2> QED
      BY <2>1, <2>2
  <1>2. UserWaiters'
    <2> SUFFICES ASSUME NEW q \in Handler, pc'[q] = "account_wait"
                 PROVE  pc'[leader'[q]] \in UserWork /\ req'[leader'[q]].aid = req'[q].aid
      BY DEF UserWaiters
    <2>1. q # p /\ pc[q] = "account_wait" /\ q # heir /\ req'[q] = req[q]
      BY <1>d, <1>e
    <2>2. pc[leader[q]] \in UserWork /\ req[leader[q]].aid = req[q].aid
      BY <2>1 DEF UserInv, UserWaiters
    <2>3. CASE q \in waiting
      BY <2>1, <2>2, <2>3, <1>b, <1>c, <1>d, <1>i, HandlerAssumption DEF UserWork
    <2>4. CASE q \notin waiting
      <3>1. leader'[q] = leader[q] /\ leader[q] # p
        BY <2>1, <2>4, <1>c, <1>d
      <3>2. leader[q] # heir
        BY <2>2, <1>f, <1>i, HandlerAssumption DEF UserWork
      <3> QED
        BY <2>1, <2>2, <3>1, <3>2, <1>d, <1>e, <1>f
    <2> QED
      BY <2>3, <2>4
  <1>3. FreshLoads'
    <2> SUFFICES ASSUME NEW id \in AccountId, userLoader'[id] # NoHandler,
                        pc'[userLoader'[id]] = "account_insert"
                 PROVE  req'[userLoader'[id]].row.ver >= settled'[id]
      BY DEF FreshLoads
    <2>1. userLoader[id] # p
      BY <1>g, <1>i, <1>j
    <2>2. userLoader'[id] = userLoader[id]
      BY <2>1, <1>g
    <2> QED
      BY <2>1, <2>2, <1>k DEF UserInv, FreshLoads
  <1>4. SettledPast'
    BY DEF UserInv, SettledPast, NoOlder, Exists
  <1>5. WrotePast'
    <2> SUFFICES ASSUME NEW q \in Handler, pc'[q] = "forget_account"
                 PROVE  NoOlder(req[q].aid, req[q].wrote)'
      BY DEF WrotePast
    <2>1. q # p /\ pc[q] = "forget_account" /\ req'[q] = req[q]
      BY <1>d, <1>e
    <2> QED
      BY <2>1 DEF UserInv, WrotePast, NoOlder, Exists
  <1>6. GuardedFillsFresh'
    BY DEF UserInv, GuardedFillsFresh
  <1> QED
    BY <1>1, <1>2, <1>3, <1>4, <1>5, <1>6 DEF UserInv

(* A miss takes the placeholder, or waits behind who has it. *)
LEMMA AccountLookupUser ==
  ASSUME TypeOK, TypeOK', UserInv, NEW p \in Handler, AccountLookup(p)
  PROVE  UserInv'
  <1>a. /\ req \in [Handler -> Locals] /\ pc \in [Handler -> Place] /\ leader \in [Handler -> Handler]
        /\ req[p].aid \in AccountId
        /\ userLoader \in [AccountId -> Handler \cup {NoHandler}]
    BY DEF TypeOK, Locals
  <1> DEFINE id == req[p].aid
  <1>b. pc[p] = "account_lookup" /\ UNCHANGED <<account, writes, cachedUsers, guarded, settled>>
    BY DEF AccountLookup, db, history
  <1>c. RowsNewer /\ (UNCHANGED userLoader => UserCacheKept)
    BY <1>b DEF RowsNewer, UserCacheKept, TypeOK
  <1>1. CASE /\ UNCHANGED <<userLoader, leader>>
             /\ \E to \in {"invalidate_forget", "idle", "served"} : pc' = [pc EXCEPT ![p] = to]
             /\ \A q \in Handler : q # p => req'[q] = req[q]
    <2>1. \A q \in Handler : UserKept(q)
      BY <1>1, <1>b, OneMoves DEF UserWork
    <2> QED
      BY <1>1, <1>c, <2>1, UserElsewhere
  <1>2. CASE /\ userLoader[id] = NoHandler /\ pc' = [pc EXCEPT ![p] = "account_read"]
             /\ userLoader' = [userLoader EXCEPT ![id] = p] /\ UNCHANGED <<req, leader>>
    <2>1. /\ \A q \in Handler : q # p => pc'[q] = pc[q]
          /\ pc'[p] = "account_read"
          /\ \A i \in AccountId : userLoader'[i] = IF i = id THEN p ELSE userLoader[i]
      BY <1>2, <1>a
    <2>2. \A i \in AccountId : userLoader[i] # p
      BY <1>b, HandlerAssumption DEF UserInv, UserLoaders, UserWork
    <2>3. UserLoaders'
      BY <1>2, <1>a, <2>1, <2>2, HandlerAssumption DEF UserInv, UserLoaders, UserWork
    <2>4. UserWaiters'
      BY <1>2, <1>a, <1>b, <2>1 DEF UserInv, UserWaiters, UserWork
    <2>5. FreshLoads'
      <3> SUFFICES ASSUME NEW i \in AccountId, userLoader'[i] # NoHandler,
                          pc'[userLoader'[i]] = "account_insert"
                   PROVE  req'[userLoader'[i]].row.ver >= settled'[i]
        BY DEF FreshLoads
      <3>1. userLoader'[i] = userLoader[i] /\ userLoader[i] \in Handler /\ userLoader[i] # p
        BY <1>a, <2>1, <2>2
      <3> QED
        BY <1>2, <1>b, <2>1, <3>1 DEF UserInv, FreshLoads
    <2>6. SettledPast' /\ GuardedFillsFresh'
      BY <1>b DEF UserInv, SettledPast, GuardedFillsFresh, NoOlder, Exists
    <2>7. WrotePast'
      BY <1>2, <1>b, <2>1 DEF UserInv, WrotePast, NoOlder, Exists
    <2> QED
      BY <2>3, <2>4, <2>5, <2>6, <2>7 DEF UserInv
  <1>3. CASE /\ userLoader[id] # NoHandler /\ pc' = [pc EXCEPT ![p] = "account_wait"]
             /\ leader' = [leader EXCEPT ![p] = userLoader[id]] /\ UNCHANGED <<userLoader, req>>
    <2>1. /\ \A q \in Handler : q # p => pc'[q] = pc[q] /\ leader'[q] = leader[q]
          /\ pc'[p] = "account_wait" /\ leader'[p] = userLoader[id]
      BY <1>3, <1>a
    <2>2. /\ userLoader[id] \in Handler /\ userLoader[id] # p
          /\ pc[userLoader[id]] \in UserWork /\ req[userLoader[id]].aid = id
      BY <1>3, <1>a, <1>b DEF UserInv, UserLoaders, UserWork
    <2>3. \A i \in AccountId : userLoader[i] # p
      BY <1>b, HandlerAssumption DEF UserInv, UserLoaders, UserWork
    <2>4. UserLoaders'
      BY <1>3, <1>a, <2>1, <2>3 DEF UserInv, UserLoaders
    <2>5. UserWaiters'
      BY <1>3, <1>a, <1>b, <2>1, <2>2 DEF UserInv, UserWaiters, UserWork
    <2>6. FreshLoads'
      BY <1>3, <1>a, <1>b, <2>1, <2>3 DEF UserInv, FreshLoads
    <2>7. SettledPast' /\ GuardedFillsFresh'
      BY <1>b DEF UserInv, SettledPast, GuardedFillsFresh, NoOlder, Exists
    <2>8. WrotePast'
      BY <1>3, <1>b, <2>1 DEF UserInv, WrotePast, NoOlder, Exists
    <2> QED
      BY <2>4, <2>5, <2>6, <2>7, <2>8 DEF UserInv
  <1>d. \/ /\ UNCHANGED <<userLoader, leader>>
           /\ \E to \in {"invalidate_forget", "idle", "served"} : pc' = [pc EXCEPT ![p] = to]
           /\ \A q \in Handler : q # p => req'[q] = req[q]
        \/ /\ userLoader[id] = NoHandler /\ pc' = [pc EXCEPT ![p] = "account_read"]
           /\ userLoader' = [userLoader EXCEPT ![id] = p] /\ UNCHANGED <<req, leader>>
        \/ /\ userLoader[id] # NoHandler /\ pc' = [pc EXCEPT ![p] = "account_wait"]
           /\ leader' = [leader EXCEPT ![p] = userLoader[id]] /\ UNCHANGED <<userLoader, req>>
    BY <1>a DEF AccountLookup, Finish
  <1> QED
    BY <1>1, <1>2, <1>3, <1>d

(* The row is as it is in the table now, or there is none. *)
LEMMA AccountReadUser ==
  ASSUME TypeOK, TypeOK', UserInv, NEW p \in Handler, AccountRead(p)
  PROVE  UserInv'
  <1>a. /\ req \in [Handler -> Locals] /\ pc \in [Handler -> Place]
        /\ req[p].aid \in AccountId
    BY DEF TypeOK, Locals
  <1>b. pc[p] = "account_read" /\ UNCHANGED <<account, writes, cachedUsers, guarded, settled>>
    BY DEF AccountRead, db, history
  <1>1. CASE ~Exists(req[p].aid)
    <2>1. \E to \in {"idle", "session_forget"} : DropUserGuard(p, to)
      BY <1>1 DEF AccountRead
    <2> QED
      BY <1>b, <2>1, DropUserKept
  <1>2. CASE Exists(req[p].aid)
    <2>1. /\ pc' = [pc EXCEPT ![p] = "account_insert"]
          /\ req' = [req EXCEPT ![p].row = account[req[p].aid]]
          /\ UNCHANGED <<userLoader, leader>>
      BY <1>2 DEF AccountRead
    <2>2. /\ \A q \in Handler : q # p => pc'[q] = pc[q] /\ req'[q] = req[q]
          /\ \A q \in Handler : req'[q].aid = req[q].aid
          /\ pc'[p] = "account_insert" /\ req'[p].row = account[req[p].aid]
      BY <1>a, <2>1 DEF Locals
    <2>3. UserLoaders'
      BY <1>b, <2>1, <2>2, HandlerAssumption DEF UserInv, UserLoaders, UserWork, TypeOK
    <2>4. UserWaiters'
      BY <1>b, <2>1, <2>2 DEF UserInv, UserWaiters, UserWork, TypeOK
    <2>5. FreshLoads'
      <3> SUFFICES ASSUME NEW id \in AccountId, userLoader[id] # NoHandler,
                          pc'[userLoader[id]] = "account_insert"
                   PROVE  req'[userLoader[id]].row.ver >= settled[id]
        BY <1>b, <2>1 DEF FreshLoads
      <3>1. userLoader[id] \in Handler /\ req[userLoader[id]].aid = id
        BY DEF UserInv, UserLoaders, TypeOK
      <3>2. CASE userLoader[id] = p
        BY <1>2, <2>2, <3>1, <3>2 DEF UserInv, SettledPast, NoOlder
      <3>3. CASE userLoader[id] # p
        BY <2>2, <3>1, <3>3 DEF UserInv, FreshLoads
      <3> QED
        BY <3>2, <3>3
    <2>6. SettledPast' /\ GuardedFillsFresh'
      BY <1>b DEF UserInv, SettledPast, GuardedFillsFresh, NoOlder, Exists
    <2>7. WrotePast'
      BY <1>b, <2>2 DEF UserInv, WrotePast, NoOlder, Exists
    <2> QED
      BY <2>3, <2>4, <2>5, <2>6, <2>7 DEF UserInv
  <1> QED
    BY <1>1, <1>2

(* Who still has its placeholder inserts a row that is no older than the    *)
(* last invalidation; who waited for it is served.                          *)
LEMMA AccountInsertUser ==
  ASSUME TypeOK, TypeOK', UserInv, NEW p \in Handler, AccountInsert(p)
  PROVE  UserInv'
  <1>a. /\ req \in [Handler -> Locals] /\ req[p].aid \in AccountId
        /\ \A id \in AccountId : userLoader[id] \in Handler \cup {NoHandler}
    BY DEF TypeOK, Locals
  <1>b. /\ pc[p] = "account_insert" /\ MoveWith(p, "served", "account_wait", "served")
        /\ UNCHANGED <<account, writes, settled, leader>>
    BY DEF AccountInsert, db, history
  <1>c. /\ \A q \in Handler : pc'[q] = IF q = p \/ (pc[q] = "account_wait" /\ leader[q] = p)
                                      THEN "served" ELSE pc[q]
    BY <1>b DEF MoveWith, Waiting
  <1>d. \A q \in Handler : /\ req'[q].aid = req[q].aid /\ req'[q].wrote = req[q].wrote
                           /\ pc[q] # "account_wait" => req'[q] = req[q]
    <2>1. req' = [q \in Handler |-> IF q \in Waiting(p, "account_wait")
                                   THEN [req[q] EXCEPT !.row = req[p].row] ELSE req[q]]
      BY DEF AccountInsert
    <2> QED
      BY <1>a, <2>1 DEF Locals, Waiting
  <1> DEFINE id == req[p].aid
  <1>e. \A i \in AccountId : userLoader[i] = p => i = id
    BY HandlerAssumption DEF UserInv, UserLoaders
  <1>f. \A i \in AccountId : /\ userLoader'[i] \in {userLoader[i], NoHandler}
                             /\ userLoader'[i] # p
    <2>1. CASE userLoader[id] = p
      <3>1. userLoader' = [userLoader EXCEPT ![id] = NoHandler]
        BY <2>1 DEF AccountInsert
      <3>2. \A i \in AccountId : userLoader'[i] = IF i = id THEN NoHandler ELSE userLoader[i]
        BY <3>1 DEF TypeOK
      <3> QED
        BY <1>e, <3>2, HandlerAssumption
    <2>2. CASE userLoader[id] # p
      BY <1>e, <2>2 DEF AccountInsert, userCache
    <2> QED
      BY <2>1, <2>2
  <1>1. UserLoaders'
    <2> SUFFICES ASSUME NEW i \in AccountId, userLoader'[i] # NoHandler
                 PROVE  pc'[userLoader'[i]] \in UserWork /\ req'[userLoader'[i]].aid = i
      BY DEF UserLoaders
    <2>1. userLoader'[i] = userLoader[i] /\ userLoader[i] \in Handler /\ userLoader[i] # p
      BY <1>a, <1>f
    <2> QED
      BY <1>c, <1>d, <2>1 DEF UserInv, UserLoaders, UserWork
  <1>2. UserWaiters'
    <2> SUFFICES ASSUME NEW q \in Handler, pc'[q] = "account_wait"
                 PROVE  pc'[leader'[q]] \in UserWork /\ req'[leader'[q]].aid = req'[q].aid
      BY DEF UserWaiters
    <2>1. pc[q] = "account_wait" /\ leader[q] # p /\ leader[q] \in Handler /\ leader'[q] = leader[q]
      BY <1>b, <1>c DEF TypeOK
    <2>2. pc[leader[q]] \in UserWork /\ req[leader[q]].aid = req[q].aid
      BY <2>1 DEF UserInv, UserWaiters
    <2> QED
      BY <1>c, <1>d, <2>1, <2>2 DEF UserWork
  <1>3. FreshLoads'
    <2> SUFFICES ASSUME NEW i \in AccountId, userLoader'[i] # NoHandler,
                        pc'[userLoader'[i]] = "account_insert"
                 PROVE  req'[userLoader'[i]].row.ver >= settled'[i]
      BY DEF FreshLoads
    <2>1. userLoader'[i] = userLoader[i] /\ userLoader[i] \in Handler /\ userLoader[i] # p
      BY <1>a, <1>f
    <2>2. pc[userLoader[i]] = "account_insert" /\ req'[userLoader[i]] = req[userLoader[i]]
      BY <1>c, <1>d, <2>1
    <2> QED
      BY <1>b, <2>1, <2>2 DEF UserInv, FreshLoads
  <1>4. SettledPast'
    BY <1>b DEF UserInv, SettledPast, NoOlder, Exists
  <1>5. WrotePast'
    BY <1>b, <1>c, <1>d DEF UserInv, WrotePast, NoOlder, Exists
  <1>6. GuardedFillsFresh'
    <2>1. CASE userLoader[id] = p
      <3>1. cachedUsers' = [cachedUsers EXCEPT ![id] = req[p].row] /\ guarded' = guarded \cup {id}
        BY <2>1 DEF AccountInsert
      <3>2. req[p].row.ver >= settled[id]
        BY <1>a, <1>b, <2>1, HandlerAssumption DEF UserInv, FreshLoads
      <3> QED
        BY <1>a, <1>b, <3>1, <3>2 DEF UserInv, GuardedFillsFresh, TypeOK
    <2>2. CASE userLoader[id] # p
      BY <1>b, <2>2 DEF AccountInsert, userCache, UserInv, GuardedFillsFresh
    <2> QED
      BY <2>1, <2>2
  <1> QED
    BY <1>1, <1>2, <1>3, <1>4, <1>5, <1>6 DEF UserInv

(* A handler goes on to a step that is no load, and the cache is left alone *)
(* or only loses entries.                                                   *)
LEMMA MoveUser ==
  ASSUME TypeOK, TypeOK', UserInv, NEW p \in Handler, pc[p] \notin UserWork,
         NEW to \in Place \ {"account_wait", "forget_account"}, pc' = [pc EXCEPT ![p] = to],
         \A q \in Handler : q # p => req'[q] = req[q] /\ leader'[q] = leader[q],
         RowsNewer, UserCacheKept
  PROVE  UserInv'
  <1>1. \A q \in Handler : UserKept(q)
    BY OneMoves
  <1> QED
    BY <1>1, UserElsewhere

(* A handler has written, or not, and goes on to invalidate.                *)
LEMMA WroteUser ==
  ASSUME TypeOK, TypeOK', UserInv, NEW p \in Handler, pc[p] \notin UserWork,
         pc' = [pc EXCEPT ![p] = "forget_account"], NoOlder(req[p].aid, req[p].wrote)',
         \A q \in Handler : q # p => req'[q] = req[q] /\ leader'[q] = leader[q],
         RowsNewer, UserCacheKept
  PROVE  UserInv'
  <1>1. /\ \A q \in Handler : q # p => pc'[q] = pc[q]
        /\ pc'[p] = "forget_account"
    BY DEF TypeOK
  <1>2. \A q \in Handler : UserKept(q)
    BY <1>1 DEF UserKept
  <1> QED
    BY <1>2, UserElsewhere

LEMMA StepUser ==
  ASSUME TypeOK, TypeOK', UserInv, NEW p \in Handler, Step(p) PROVE UserInv'
  <1>a. /\ req \in [Handler -> Locals] /\ pc \in [Handler -> Place]
        /\ req[p].aid \in AccountId /\ req[p].tok \in Token /\ req[p].wrote \in Nat
        /\ req[p].next \in {"idle", "mint", "invalidate_forget", "delete_sessions"}
        /\ userLoader \in [AccountId -> Handler \cup {NoHandler}]
        /\ cachedUsers \in [AccountId -> Row] /\ settled \in [AccountId -> Nat]
        /\ account \in [AccountId -> Row] /\ writes \in Nat
    BY DEF TypeOK, Locals
  <1>b. Place \ {"account_wait", "forget_account"} =
          {"idle", "session_wait", "session_read", "session_insert", "account_store",
           "account_lookup", "account_read", "account_insert", "session_forget", "served",
           "invalidate_forget", "invalidate_delete", "update", "purge",
           "delete_sessions", "forget_sessions", "mint"}
    BY DEF Place
  <1>c. ASSUME UNCHANGED <<account, writes>> PROVE RowsNewer
    BY <1>a, <1>c DEF RowsNewer
  <1>d. ASSUME UNCHANGED <<userCache, settled>> PROVE UserCacheKept
    BY <1>d DEF UserCacheKept, userCache
  <1>1. CASE SessionRead(p)
    <2>1. RowsNewer /\ UserCacheKept
      BY <1>1, <1>c, <1>d DEF SessionRead, db, history
    <2>2. CASE ~SessionRowFound(p)
      BY <1>1, <2>1, <2>2, DropSessionKept, UserElsewhere DEF SessionRead, SessionWork
    <2>3. CASE SessionRowFound(p)
      <3>1. /\ pc[p] = "session_read" /\ UNCHANGED leader
            /\ \E to \in {"invalidate_forget", "session_insert"} : pc' = [pc EXCEPT ![p] = to]
            /\ \A q \in Handler : q # p => req'[q] = req[q]
        BY <1>1, <1>a, <2>3 DEF SessionRead
      <3> QED
        BY <1>b, <2>1, <3>1, MoveUser DEF UserWork
    <2> QED
      BY <2>2, <2>3
  <1>2. CASE SessionInsert(p)
    <2>1. RowsNewer /\ UserCacheKept
      BY <1>2, <1>c, <1>d DEF SessionInsert, db, history
    <2>2. /\ pc[p] = "session_insert" /\ pc'[p] \in {"account_store", "account_lookup"}
          /\ \A q \in Handler \ {p} : IF pc[q] = "session_wait" /\ leader[q] = p
                                     THEN pc'[q] = "account_lookup"
                                     ELSE pc'[q] = pc[q]
          /\ UNCHANGED <<req, leader>>
      BY <1>2 DEF SessionInsert, MoveWith, Waiting
    <2>3. \A q \in Handler : UserKept(q)
      BY <2>2 DEF UserKept, UserWork
    <2> QED
      BY <2>1, <2>3, UserElsewhere
  <1>3. CASE AccountStore(p)
    <2>1. RowsNewer
      BY <1>3, <1>c DEF AccountStore, db
    <2>2. UserCacheKept
      BY <1>3, <1>a DEF AccountStore, UserCacheKept, history
    <2> QED
      BY <1>3, <1>b, <2>1, <2>2, MoveUser DEF AccountStore, UserWork
  <1>4. CASE AccountLookup(p)
    BY <1>4, AccountLookupUser
  <1>5. CASE AccountRead(p)
    BY <1>5, AccountReadUser
  <1>6. CASE AccountInsert(p)
    BY <1>6, AccountInsertUser
  <1>7. CASE SessionForget(p)
    <2>1. RowsNewer /\ UserCacheKept
      BY <1>7, <1>c, <1>d DEF SessionForget, db, history
    <2> QED
      BY <1>7, <1>a, <1>b, <2>1, MoveUser DEF SessionForget, Finish, UserWork
  <1>8. CASE Respond(p)
    <2>1. RowsNewer /\ UserCacheKept
      BY <1>8, <1>c, <1>d DEF Respond, db, history
    <2> QED
      BY <1>8, <1>a, <1>b, <2>1, MoveUser DEF Respond, Finish, UserWork
  <1>9. CASE InvalidateForget(p)
    <2>1. RowsNewer /\ UserCacheKept
      BY <1>9, <1>c, <1>d DEF InvalidateForget, db, history
    <2> QED
      BY <1>9, <1>b, <2>1, MoveUser DEF InvalidateForget, UserWork
  <1>10. CASE InvalidateDelete(p)
    <2>1. RowsNewer /\ UserCacheKept
      BY <1>10, <1>c, <1>d DEF InvalidateDelete
    <2> QED
      BY <1>10, <2>1, DropSessionKept, UserElsewhere DEF InvalidateDelete, SessionWork
  <1>11. CASE UpdateAccount(p)
    <2>1. UserCacheKept
      BY <1>11, <1>d DEF UpdateAccount, history
    <2>2. CASE UpdateRow(p) /\ pc' = [pc EXCEPT ![p] = "forget_account"]
               /\ req' = [req EXCEPT ![p].wrote = writes + 1]
      <3>1. /\ \A q \in Handler : q # p => req'[q] = req[q]
            /\ req'[p].aid = req[p].aid /\ req'[p].wrote = writes + 1
        BY <1>a, <2>2 DEF Locals
      <3>2. /\ writes' = writes + 1
            /\ \A id \in AccountId :
                 \/ account'[id] = account[id] /\ (id = req[p].aid => ~Exists(id))
                 \/ id = req[p].aid /\ account'[id].ver = writes + 1
        <4>1. CASE Exists(req[p].aid)
          <5>1. account' = [account EXCEPT ![req[p].aid].ver = writes + 1]
            BY <2>2, <4>1 DEF UpdateRow
          <5> QED
            BY <1>a, <2>2, <5>1 DEF Row, UpdateRow
        <4>2. CASE ~Exists(req[p].aid)
          BY <2>2, <4>2 DEF UpdateRow
        <4> QED
          BY <4>1, <4>2
      <3>3. RowsNewer
        BY <1>a, <3>2 DEF RowsNewer
      <3>4. NoOlder(req[p].aid, req[p].wrote)'
        BY <1>a, <3>1, <3>2 DEF NoOlder, Exists
      <3>5. pc[p] \notin UserWork /\ UNCHANGED leader
        BY <1>11 DEF UpdateAccount, UserWork
      <3> QED
        BY <2>1, <2>2, <3>1, <3>3, <3>4, <3>5, WroteUser
    <2>3. CASE Finish(p) /\ UNCHANGED db
      <3>1. RowsNewer
        BY <1>c, <2>3 DEF db
      <3> QED
        BY <1>11, <1>a, <1>b, <2>1, <2>3, <3>1, MoveUser DEF UpdateAccount, Finish, UserWork
    <2> QED
      BY <1>11, <2>2, <2>3 DEF UpdateAccount
  <1>12. CASE PurgeAccount(p)
    <2>1. UserCacheKept
      BY <1>12, <1>d DEF PurgeAccount, history
    <2>2. CASE PurgeRow(p) /\ pc' = [pc EXCEPT ![p] = "forget_account"]
               /\ req' = [req EXCEPT ![p].wrote = writes + 1]
      <3>1. /\ \A q \in Handler : q # p => req'[q] = req[q]
            /\ req'[p].aid = req[p].aid /\ req'[p].wrote = writes + 1
        BY <1>a, <2>2 DEF Locals
      <3>2. /\ writes' = writes + 1
            /\ \A id \in AccountId : account'[id] = IF id = req[p].aid THEN NoRow ELSE account[id]
        BY <1>a, <2>2 DEF PurgeRow
      <3>3. RowsNewer
        BY <1>a, <3>2 DEF RowsNewer, Exists
      <3>4. NoOlder(req[p].aid, req[p].wrote)'
        BY <1>a, <3>1, <3>2 DEF NoOlder, Exists
      <3>5. pc[p] \notin UserWork /\ UNCHANGED leader
        BY <1>12 DEF PurgeAccount, UserWork
      <3> QED
        BY <2>1, <2>2, <3>1, <3>3, <3>4, <3>5, WroteUser
    <2>3. CASE Finish(p) /\ UNCHANGED db
      <3>1. RowsNewer
        BY <1>c, <2>3 DEF db
      <3> QED
        BY <1>12, <1>a, <1>b, <2>1, <2>3, <3>1, MoveUser DEF PurgeAccount, Finish, UserWork
    <2> QED
      BY <1>12, <2>2, <2>3 DEF PurgeAccount
  <1>13. CASE ForgetAccount(p)
    <2> DEFINE id == req[p].aid
    <2>1. /\ pc[p] = "forget_account" /\ UNCHANGED <<account, writes, leader>>
          /\ \A i \in AccountId : /\ userLoader'[i] = IF i = id THEN NoHandler ELSE userLoader[i]
                                  /\ i # id => cachedUsers'[i] = cachedUsers[i] /\ settled'[i] = settled[i]
          /\ guarded' = guarded \ {id}
          /\ settled'[id] \in {req[p].wrote, settled[id]}
      BY <1>13, <1>a DEF ForgetAccount, RemoveUser, db
    <2>2. RowsNewer
      BY <1>c, <2>1
    <2>3. NoOlder(id, req[p].wrote) /\ NoOlder(id, settled[id])
      BY <1>a, <2>1 DEF UserInv, WrotePast, SettledPast
    <2>4. writes' >= settled'[id] /\ (account'[id] # NoRow => account'[id].ver >= settled'[id])
      BY <2>1, <2>3 DEF NoOlder, Exists
    <2>5. UserCacheKept
      BY <1>a, <2>1, <2>4 DEF UserCacheKept, NoOlder, Exists
    <2>6. /\ \E to \in {"idle", "mint", "invalidate_forget", "delete_sessions"} :
               pc' = [pc EXCEPT ![p] = to]
          /\ \A q \in Handler : q # p => req'[q] = req[q]
      BY <1>13, <1>a DEF ForgetAccount, Finish
    <2>7. PICK to \in {"idle", "mint", "invalidate_forget", "delete_sessions"} :
             pc' = [pc EXCEPT ![p] = to]
      BY <2>6
    <2>8. to \in Place \ {"account_wait", "forget_account"} /\ pc[p] \notin UserWork
      BY <1>b, <2>1 DEF UserWork
    <2>9. \A q \in Handler : q # p => req'[q] = req[q] /\ leader'[q] = leader[q]
      BY <2>1, <2>6
    <2> QED
      BY <2>2, <2>5, <2>7, <2>8, <2>9, MoveUser
  <1>14. CASE DeleteSessions(p)
    <2>1. RowsNewer /\ UserCacheKept
      BY <1>14, <1>c, <1>d DEF DeleteSessions, DeleteRows, history
    <2>2. \A q \in Handler : q # p => req'[q] = req[q]
      BY <1>14, <1>a DEF DeleteSessions
    <2> QED
      BY <1>14, <1>b, <2>1, <2>2, MoveUser DEF DeleteSessions, UserWork
  <1>15. CASE ForgetSessions(p)
    <2>1. RowsNewer /\ UserCacheKept
      BY <1>15, <1>c, <1>d DEF ForgetSessions, db
    <2>2. pc[p] = "forget_sessions" /\ UNCHANGED leader /\ \A q \in Handler : q # p => req'[q] = req[q]
      BY <1>15, <1>a DEF ForgetSessions, Finish
    <2>3. \E to \in {"forget_sessions", "idle", "mint"} : pc' = [pc EXCEPT ![p] = to]
      <3>1. pc' = pc => pc' = [pc EXCEPT ![p] = "forget_sessions"]
        BY <1>a, <2>2
      <3> QED
        BY <1>15, <3>1 DEF ForgetSessions, Finish
    <2> QED
      BY <1>b, <2>1, <2>2, <2>3, MoveUser DEF UserWork
  <1>16. CASE MintToken(p)
    <2>1. RowsNewer /\ UserCacheKept
      BY <1>16, <1>c, <1>d DEF MintToken, history
    <2> QED
      BY <1>16, <1>a, <1>b, <2>1, MoveUser DEF MintToken, Finish, UserWork
  <1> QED
    BY <1>1, <1>2, <1>3, <1>4, <1>5, <1>6, <1>7, <1>8, <1>9, <1>10, <1>11, <1>12, <1>13,
       <1>14, <1>15, <1>16 DEF Step

LEMMA RequestUser ==
  ASSUME TypeOK, TypeOK', UserInv, NEW p \in Handler, Request(p) PROVE UserInv'
  <1>a. /\ req \in [Handler -> Locals] /\ pc \in [Handler -> Place]
        /\ account \in [AccountId -> Row] /\ writes \in Nat
        /\ account' \in [AccountId -> Row]
    BY DEF TypeOK
  <1>b. ASSUME UNCHANGED <<userCache, settled>> PROVE UserCacheKept
    BY <1>b DEF UserCacheKept, userCache
  <1>c. ASSUME NEW to \in {"mint", "update", "invalidate_forget", "delete_sessions", "purge"},
               NEW r, Goto(p, to, r), RowsNewer, pc[p] \in {"idle", "served"}
        PROVE  UserInv'
    <2>1. UserCacheKept
      BY <1>b, <1>c DEF Goto, history
    <2>2. to \in Place \ {"account_wait", "forget_account"} /\ pc[p] \notin UserWork
      BY <1>c DEF Place, UserWork
    <2> QED
      BY <1>a, <1>c, <2>1, <2>2, MoveUser DEF Goto
  <1>d. ASSUME NEW r, r.aid \in AccountId, r.wrote = 0, Goto(p, "forget_account", r), UNCHANGED db,
               pc[p] \in {"idle", "served"}
        PROVE  UserInv'
    <2>1. UserCacheKept
      BY <1>b, <1>d DEF Goto, history
    <2>2. RowsNewer
      BY <1>a, <1>d DEF RowsNewer, db
    <2>3. req'[p] = r /\ \A q \in Handler : q # p => req'[q] = req[q]
      BY <1>a, <1>d DEF Goto
    <2>4. writes' \in Nat /\ account'[r.aid].ver \in Nat
      BY <1>a, <1>d DEF db, Row
    <2>5. NoOlder(req[p].aid, req[p].wrote)'
      BY <1>d, <2>3, <2>4 DEF NoOlder
    <2>6. pc[p] \notin UserWork
      BY <1>d DEF UserWork
    <2> QED
      BY <1>d, <2>1, <2>2, <2>3, <2>5, <2>6, WroteUser DEF Goto
  <1>e. ASSUME UNCHANGED db PROVE RowsNewer
    BY <1>a, <1>e DEF RowsNewer, db
  <1>f. Blank.wrote = 0 /\ req[p].aid \in AccountId
    BY <1>a DEF Blank, Locals
  <1>1. ASSUME NEW t \in Token, NEW cookie \in BOOLEAN, Resolve(p, t, cookie) PROVE UserInv'
    <2>1. RowsNewer /\ UserCacheKept
      BY <1>1, <1>b, <1>e DEF Resolve, history
    <2>2. /\ pc[p] = "idle"
          /\ \E to \in {"account_lookup", "session_read", "session_wait"} : pc' = [pc EXCEPT ![p] = to]
      BY <1>1 DEF Resolve
    <2>3. \A q \in Handler : q # p => req'[q] = req[q] /\ leader'[q] = leader[q]
      BY <1>1, <1>a DEF Resolve, TypeOK
    <2>4. {"account_lookup", "session_read", "session_wait"} \subseteq
             Place \ {"account_wait", "forget_account"}
      BY DEF Place
    <2> QED
      BY <2>1, <2>2, <2>3, <2>4, MoveUser DEF UserWork
  <1>2. ASSUME NEW t \in Token, Logout(p, t) PROVE UserInv'
    <2> DEFINE r == [Blank EXCEPT !.tok = t, !.aid = token[t].id, !.next = "invalidate_forget"]
    <2>1. token[t].id \in AccountId
      BY <1>2 DEF Logout, Minted, TypeOK, Minting
    <2>2. r.aid = token[t].id /\ r.wrote = 0
      BY DEF Blank
    <2>3. Goto(p, "forget_account", r) /\ UNCHANGED db /\ pc[p] = "idle"
      BY <1>2 DEF Logout
    <2> HIDE DEF r
    <2> QED
      BY <1>d, <2>1, <2>2, <2>3
  <1>3. ASSUME NEW t \in Token, ChangePassword(p, t) PROVE UserInv'
    <2>1. PICK r : Goto(p, "update", r) /\ UNCHANGED db /\ pc[p] = "idle"
      BY <1>3 DEF ChangePassword
    <2> QED
      BY <1>c, <1>e, <2>1
  <1>4. ASSUME NEW t \in Token, RevokeSession(p, t) PROVE UserInv'
    <2>1. PICK r : Goto(p, "invalidate_forget", r) /\ UNCHANGED db /\ pc[p] = "served"
      BY <1>4 DEF RevokeSession, Authenticated
    <2> QED
      BY <1>c, <1>e, <2>1
  <1>5. CASE Login(p)
    <2>1. PICK id \in AccountId :
            Goto(p, "forget_account", [Blank EXCEPT !.aid = id, !.row = account[id], !.next = "mint"])
      BY <1>5 DEF Login
    <2> DEFINE r == [Blank EXCEPT !.aid = id, !.row = account[id], !.next = "mint"]
    <2>2. r.aid = id /\ r.wrote = 0
      BY DEF Blank
    <2>3. Goto(p, "forget_account", r) /\ UNCHANGED db /\ pc[p] = "idle"
      BY <1>5, <2>1 DEF Login
    <2> HIDE DEF r
    <2> QED
      BY <1>d, <2>2, <2>3
  <1>6. CASE Signup(p)
    <2>1. PICK r : Goto(p, "mint", r) /\ pc[p] = "idle"
      BY <1>6 DEF Signup
    <2>2. /\ writes' = writes + 1
          /\ account' = [account EXCEPT ![NextRowId] = [born |-> writes + 1, ver |-> writes + 1]]
      BY <1>6 DEF Signup
    <2>3. \A id \in AccountId : account'[id] = account[id] \/ account'[id].ver = writes + 1
      BY <1>a, <2>2
    <2>4. RowsNewer
      BY <1>a, <2>2, <2>3 DEF RowsNewer
    <2> QED
      BY <1>c, <2>1, <2>4
  <1>7. CASE LogoutAll(p)
    <2> DEFINE r == [Blank EXCEPT !.aid = req[p].aid, !.next = "delete_sessions"]
    <2>1. r.aid = req[p].aid /\ r.wrote = 0
      BY DEF Blank
    <2>2. Goto(p, "forget_account", r) /\ UNCHANGED db /\ pc[p] = "served"
      BY <1>7 DEF LogoutAll, Authenticated
    <2> HIDE DEF r
    <2> QED
      BY <1>d, <1>f, <2>1, <2>2
  <1>8. CASE ChangeUsername(p)
    <2>1. PICK r : Goto(p, "update", r) /\ UNCHANGED db /\ pc[p] = "served"
      BY <1>8 DEF ChangeUsername, Authenticated
    <2> QED
      BY <1>c, <1>e, <2>1
  <1>9. CASE GenerateApiKey(p)
    <2>1. PICK r : /\ Goto(p, "mint", r) \/ Goto(p, "delete_sessions", r)
                   /\ UNCHANGED db /\ pc[p] = "served"
      BY <1>9 DEF GenerateApiKey, Authenticated
    <2> QED
      BY <1>c, <1>e, <2>1
  <1>10. CASE DeleteAccount(p)
    <2>1. PICK r : Goto(p, "purge", r) /\ UNCHANGED db /\ pc[p] = "served"
      BY <1>10 DEF DeleteAccount, Authenticated
    <2> QED
      BY <1>c, <1>e, <2>1
  <1> QED
    BY <1>1, <1>2, <1>3, <1>4, <1>5, <1>6, <1>7, <1>8, <1>9, <1>10 DEF Request

LEMMA DisconnectUser ==
  ASSUME TypeOK, TypeOK', UserInv, NEW p \in Handler, Disconnect(p) PROVE UserInv'
  <1>a. /\ req \in [Handler -> Locals] /\ pc \in [Handler -> Place]
        /\ req[p].aid \in AccountId /\ writes \in Nat
        /\ account \in [AccountId -> Row]
    BY DEF TypeOK, Locals
  <1>b. ASSUME UNCHANGED <<userCache, settled>> PROVE UserCacheKept
    BY <1>b DEF UserCacheKept, userCache
  <1>c. ASSUME pc[p] \notin UserWork, Finish(p), UNCHANGED <<userCache, leader, settled>>, RowsNewer
        PROVE  UserInv'
    <2>1. "idle" \in Place \ {"account_wait", "forget_account"}
      BY DEF Place
    <2> QED
      BY <1>a, <1>b, <1>c, <2>1, MoveUser DEF Finish
  <1>d. ASSUME UNCHANGED <<account, writes>> PROVE RowsNewer
    BY <1>a, <1>d DEF RowsNewer
  <1>1. CASE pc[p] \in {"session_wait", "account_wait"} /\ Finish(p)
             /\ UNCHANGED <<db, sessionCache, userCache, leader, history>>
    BY <1>1, <1>c, <1>d DEF db, history, UserWork
  <1>2. CASE pc[p] = "session_read" /\ DropSessionGuard(p) /\ UNCHANGED <<db, validSessions, userCache, history>>
    <2>1. RowsNewer /\ UserCacheKept
      BY <1>2, <1>b, <1>d DEF db, history
    <2> QED
      BY <1>2, <2>1, DropSessionKept, UserElsewhere DEF SessionWork
  <1>3. CASE pc[p] = "account_read" /\ DropUserGuard(p, "idle")
             /\ UNCHANGED <<db, sessionCache, cachedUsers, guarded, history>>
    BY <1>3, DropUserKept DEF db, history
  <1>4. CASE pc[p] = "update" /\ UpdateRow(p) /\ Finish(p)
             /\ UNCHANGED <<sessionCache, userCache, leader, history>>
    <2>1. \A id \in AccountId : account'[id] = account[id] \/ account'[id].ver = writes + 1
      <3>1. CASE Exists(req[p].aid)
        <4>1. account' = [account EXCEPT ![req[p].aid].ver = writes + 1]
          BY <1>4, <3>1 DEF UpdateRow
        <4> QED
          BY <1>a, <4>1 DEF Row
      <3>2. CASE ~Exists(req[p].aid)
        BY <1>4, <3>2 DEF UpdateRow
      <3> QED
        BY <3>1, <3>2
    <2>2. RowsNewer
      BY <1>4, <1>a, <2>1 DEF UpdateRow, RowsNewer
    <2> QED
      BY <1>4, <1>c, <2>2 DEF history, UserWork
  <1>5. CASE pc[p] = "purge" /\ PurgeRow(p) /\ Finish(p)
             /\ UNCHANGED <<sessionCache, userCache, leader, history>>
    <2>1. RowsNewer
      BY <1>5, <1>a DEF PurgeRow, RowsNewer, Exists
    <2> QED
      BY <1>5, <1>c, <2>1 DEF history, UserWork
  <1>6. CASE pc[p] = "delete_sessions" /\ (\E gone \in SUBSET Token : DeleteRows(p, gone)) /\ Finish(p)
             /\ UNCHANGED <<sessionCache, userCache, leader, history>>
    BY <1>6, <1>c, <1>d DEF DeleteRows, history, UserWork
  <1> QED
    BY <1>1, <1>2, <1>3, <1>4, <1>5, <1>6 DEF Disconnect

LEMMA EnvironmentUser == ASSUME TypeOK, TypeOK', UserInv, Environment PROVE UserInv'
  <1>1. ASSUME NEW p \in Handler, Disconnect(p) PROVE UserInv'
    BY <1>1, DisconnectUser
  <1>2. ASSUME NEW id \in AccountId, EvictUser(id) PROVE UserInv'
    <2>1. UNCHANGED <<account, writes, userLoader, pc, req, leader, settled>>
      BY <1>2 DEF EvictUser, db, local, history
    <2>2. UserLoaders' /\ UserWaiters' /\ FreshLoads' /\ SettledPast' /\ WrotePast'
      BY <2>1
      DEF UserInv, UserLoaders, UserWaiters, FreshLoads, SettledPast, WrotePast, NoOlder, Exists
    <2>3. GuardedFillsFresh'
      BY <1>2, <2>1 DEF EvictUser, UserInv, GuardedFillsFresh, TypeOK
    <2> QED
      BY <2>2, <2>3 DEF UserInv
  <1>3. ASSUME UNCHANGED <<account, writes, userCache, local, settled>> PROVE UserInv'
    BY <1>3 DEF UserInv, UserLoaders, UserWaiters, FreshLoads, SettledPast, WrotePast,
                GuardedFillsFresh, NoOlder, Exists, userCache, local
  <1>4. CASE Restart
    <2>1. /\ UNCHANGED <<account, writes, settled>> /\ guarded' = {}
          /\ \A id \in AccountId : userLoader'[id] = NoHandler
          /\ \A q \in Handler : pc'[q] = "idle"
      BY <1>4 DEF Restart, db, history
    <2> QED
      BY <2>1 DEF UserInv, UserLoaders, UserWaiters, FreshLoads, SettledPast, WrotePast,
                  GuardedFillsFresh, NoOlder, Exists
  <1> QED
    BY <1>1, <1>2, <1>3, <1>4 DEF Environment, EvictSession, Age, db, history

LEMMA NextUser == TypeOK /\ TypeOK' /\ UserInv /\ [Next]_vars => UserInv'
  <1> SUFFICES ASSUME TypeOK, TypeOK', UserInv, [Next]_vars PROVE UserInv'
    OBVIOUS
  <1>1. CASE UNCHANGED vars
    BY <1>1 DEF UserInv, UserLoaders, UserWaiters, FreshLoads, SettledPast, WrotePast,
                GuardedFillsFresh, NoOlder, Exists, vars, db, userCache, local, history
  <1> QED
    BY <1>1, StepUser, RequestUser, EnvironmentUser DEF Next

THEOREM UserInductive == Spec => []UserInv
  BY InitUser, NextUser, TypeCorrect, PTL DEF Spec

(* An account that get_account cached is never older than the last change   *)
(* whose handler has invalidated it, also when it was read before.          *)
THEOREM FillsCorrect == Spec => []GuardedFillsFresh
  <1>1. UserInv => GuardedFillsFresh
    BY DEF UserInv
  <1> QED
    BY <1>1, UserInductive, PTL

(* Whoever waits for a load, of a session or of an account, waits for a     *)
(* handler that is doing it.                                                *)
THEOREM WaitersCorrect == Spec => []WaitersAreLed
  <1>1. SignOutInv /\ UserInv => WaitersAreLed
    BY DEF SignOutInv, SessionWaiters, UserInv, UserWaiters, WaitersAreLed
  <1> QED
    BY <1>1, SignOutInductive, UserInductive, PTL
=============================================================================
