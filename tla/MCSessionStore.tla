---------------------------- MODULE MCSessionStore ----------------------------
(* Instances of SessionStore for TLC.  SignOutSpec keeps the handlers that   *)
(* revoke sessions and the readers they race with, so that three handlers    *)
(* can be in flight together; the accounts stay as they are.                 *)
EXTENDS SessionStore, TLC

Symmetric == Permutations(Handler) \cup Permutations(Token)

SignOutNext ==
    \/ \E p \in Handler :
          \/ Step(p) \/ Login(p) \/ LogoutAll(p) \/ Disconnect(p)
          \/ \E t \in Token :
                \/ RevokeSession(p, t) \/ Logout(p, t) \/ ChangePassword(p, t)
                \/ \E cookie \in BOOLEAN : Resolve(p, t, cookie)
    \/ \E t \in Token : EvictSession(t)
    \/ Restart

SignOutSpec == Init /\ [][SignOutNext]_vars

(* The process starts on a database with the account and an API key of its,  *)
(* or with no account yet.                                                   *)
StartWith(rows, keys) ==
    /\ token = [t \in Token |-> IF t \in keys THEN [id |-> 1, key |-> TRUE, born |-> 1] ELSE NoToken]
    /\ sessions = keys
    /\ account = rows
    /\ aged = {} /\ writes = 1
    /\ validSessions = {} /\ sessionLoader = [t \in Token |-> NoHandler]
    /\ cachedUsers = [id \in AccountId |-> NoRow] /\ guarded = {}
    /\ userLoader = [id \in AccountId |-> NoHandler]
    /\ pc = [p \in Handler |-> "idle"]
    /\ req = [p \in Handler |-> Blank]
    /\ leader = [p \in Handler |-> p]
    /\ revoked = [t \in Token |-> "no"]
    /\ settled = [id \in AccountId |-> 0]

KeyInit ==
    \E k \in Token :
        StartWith([id \in AccountId |-> IF id = 1 THEN [born |-> 1, ver |-> 1] ELSE NoRow], {k})

EmptyInit == StartWith([id \in AccountId |-> NoRow], {})

(* Accounts come, change and go, and an API key may be in play.  The         *)
(* liveness property leaves no room for symmetry.                            *)
AccountNext ==
    \/ \E p \in Handler :
          \/ Step(p) \/ Login(p) \/ Signup(p) \/ ChangeUsername(p) \/ DeleteAccount(p)
          \/ GenerateApiKey(p) \/ Disconnect(p)
          \/ \E t \in Token : \E cookie \in BOOLEAN : Resolve(p, t, cookie)
    \/ \E id \in AccountId : EvictUser(id)
    \/ \E t \in Token : Age(t)

AccountSpec == (Init \/ KeyInit \/ EmptyInit) /\ [][AccountNext]_vars /\ Fairness
=============================================================================
