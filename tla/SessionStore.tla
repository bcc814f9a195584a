---------------------------- MODULE SessionStore ----------------------------
(***************************************************************************)
(* The session and account store of core/state.rs: two tables (account,    *)
(* session), two in-process caches in front of them (valid_sessions,       *)
(* cached_users) and the handlers that run over them concurrently.  Every  *)
(* await of a handler is a point where other handlers run, so a handler is *)
(* a sequence of actions, one per cache access or SQL statement.           *)
(*                                                                         *)
(* Both caches are quick_cache caches.  A miss returns a guard: the        *)
(* placeholder it leaves in the cache makes later readers of the key wait  *)
(* for its holder (the loader) and share what it loads; a remove or a      *)
(* plain insert takes the placeholder out, after which the loader's own    *)
(* insert is refused; a guard dropped without an insert passes to one of   *)
(* the readers that wait, or disappears.                                   *)
(***************************************************************************)
EXTENDS Integers, FiniteSets

CONSTANTS
    Handler,     \* the request handlers that may be in flight together
    NoHandler,   \* no loader: the key has no placeholder
    Token,       \* session tokens: random, never minted twice
    MaxAccount,  \* bound: account ids are 1..MaxAccount
    MaxWrites    \* bound: writes to the account table

ASSUME HandlerAssumption == NoHandler \notin Handler
ASSUME TokenAssumption == Token # {}
ASSUME BoundAssumption == MaxAccount \in Nat \ {0} /\ MaxWrites \in Nat \ {0}

VARIABLES
    account,        \* the account table
    token,          \* what each minted token carries: a signed, immutable value
    sessions,       \* the tokens with a row in the session table
    aged,           \* the tokens past MAX_TOKEN_AGE
    writes,         \* number of writes to the account table so far
    validSessions,  \* the tokens resident in valid_sessions
    sessionLoader,  \* the holder of each placeholder in valid_sessions
    cachedUsers,    \* the resident accounts of cached_users, NoRow when absent
    guarded,        \* history: ids whose resident account came through a guard
    userLoader,     \* the holder of each placeholder in cached_users
    pc, req,        \* where each handler is, and its locals
    leader,         \* whose load a waiting handler waits for
    revoked,        \* history: how a token was revoked, once that took effect
    settled         \* history: last write to an id whose invalidation is done

db == <<account, token, sessions, aged, writes>>
sessionCache == <<validSessions, sessionLoader>>
userCache == <<cachedUsers, guarded, userLoader>>
local == <<pc, req, leader>>
history == <<revoked, settled>>
vars == <<db, sessionCache, userCache, local, history>>

-----------------------------------------------------------------------------
AccountId == 1..MaxAccount

(* A row is known by the write that created it (who the account belongs to: *)
(* ids are reused, people are not) and by the last write to it.             *)
Row == [born: Nat, ver: Nat]
NoRow == [born |-> 0, ver |-> 0]
Exists(id) == account[id] # NoRow

Minting == [id: AccountId, key: BOOLEAN, born: Nat]
NoToken == [id |-> 0, key |-> FALSE, born |-> 0]
Minted(t) == token[t] # NoToken

Place == {"idle", "session_wait", "session_read", "session_insert",
          "account_store", "account_lookup", "account_wait", "account_read",
          "account_insert", "session_forget", "served",
          "invalidate_forget", "invalidate_delete", "update", "purge",
          "forget_account", "delete_sessions", "forget_sessions", "mint"}

Revocation == {"no", "one", "all"}

Locals == [tok: Token, cookie: BOOLEAN, aid: AccountId, row: Row,
           todo: SUBSET Token, keys: BOOLEAN, late: Revocation,
           wrote: Nat, next: {"idle", "mint", "invalidate_forget", "delete_sessions"},
           last: {"idle", "mint"}]

Blank == [tok |-> CHOOSE t \in Token : TRUE, cookie |-> FALSE, aid |-> 1,
          row |-> NoRow, todo |-> {}, keys |-> FALSE, late |-> "no",
          wrote |-> 0, next |-> "idle", last |-> "idle"]

(* SessionInfo::is_expired: API keys never expire. *)
Expired(t) == t \in aged /\ ~token[t].key

(* INTEGER PRIMARY KEY without AUTOINCREMENT: one more than the largest id. *)
NextRowId ==
    LET live == {id \in AccountId : Exists(id)}
    IN  IF live = {} THEN 1 ELSE 1 + (CHOOSE m \in live : \A id \in live : id <= m)

(* The handler has answered; its locals are gone. *)
Finish(p) == /\ pc' = [pc EXCEPT ![p] = "idle"]
             /\ req' = [req EXCEPT ![p] = Blank]

-----------------------------------------------------------------------------
(* quick_cache *)

Waiting(p, place) == {q \in Handler : pc[q] = place /\ leader[q] = p}

(* mutant: an insert wakes nobody. *)
MoveAlone(p, to, place, shared) == pc' = [pc EXCEPT ![p] = to]

(* The pc of p moves to `to`, and that of whoever waits for p to `shared`. *)
MoveWith(p, to, place, shared) ==
    pc' = [q \in Handler |-> IF q = p THEN to
                             ELSE IF q \in Waiting(p, place) THEN shared
                             ELSE pc[q]]

(* mutant: a guard dropped uninserted wakes nobody. *)
HeirsForgotten(p, place) == {p}

(* Who a guard that is dropped uninserted passes to. *)
Heirs(p, place) == IF Waiting(p, place) = {} THEN {NoHandler} ELSE Waiting(p, place)

(* p drops its guard and goes to `to`; heir, if any, takes the load over.    *)
PassGuard(p, to, place, heir, read) ==
    /\ pc' = [q \in Handler |-> IF q = p THEN to
                                ELSE IF q = heir THEN read
                                ELSE pc[q]]
    /\ leader' = [q \in Handler |-> IF q \in Waiting(p, place) THEN heir ELSE leader[q]]

DropSessionGuard(p) ==
    \E heir \in Heirs(p, "session_wait") :
        /\ PassGuard(p, "idle", "session_wait", heir, "session_read")
        /\ sessionLoader' = [sessionLoader EXCEPT ![req[p].tok] = IF @ = p THEN heir ELSE @]
        /\ req' = [req EXCEPT ![p] = Blank]

DropUserGuard(p, to) ==
    \E heir \in Heirs(p, "account_wait") :
        /\ PassGuard(p, to, "account_wait", heir, "account_read")
        /\ userLoader' = [userLoader EXCEPT ![req[p].aid] = IF @ = p THEN heir ELSE @]
        /\ req' = IF to = "idle" THEN [req EXCEPT ![p] = Blank] ELSE req

(* mutant: only a resident entry is removed, a load in flight goes on. *)
RemoveResidentUser(id) ==
    /\ cachedUsers' = [cachedUsers EXCEPT ![id] = NoRow]
    /\ guarded' = guarded \ {id}
    /\ UNCHANGED userLoader

(* Cache::remove *)
RemoveSession(t) ==
    /\ validSessions' = validSessions \ {t}
    /\ sessionLoader' = [sessionLoader EXCEPT ![t] = NoHandler]

RemoveUser(id) ==
    /\ cachedUsers' = [cachedUsers EXCEPT ![id] = NoRow]
    /\ guarded' = guarded \ {id}
    /\ userLoader' = [userLoader EXCEPT ![id] = NoHandler]

-----------------------------------------------------------------------------
(* Resolving a request: get_session_account for a cookie, is_session_valid  *)
(* and then get_account for an API key.                                     *)

Resolve(p, t, cookie) ==
    /\ pc[p] = "idle"
    /\ Minted(t)
    /\ req' = [req EXCEPT ![p] = [Blank EXCEPT !.tok = t, !.cookie = cookie,
                                               !.aid = token[t].id, !.late = revoked[t]]]
    /\ \/ /\ t \in validSessions
          /\ pc' = [pc EXCEPT ![p] = "account_lookup"]
          /\ UNCHANGED <<sessionLoader, leader>>
       \/ /\ t \notin validSessions /\ sessionLoader[t] = NoHandler
          /\ pc' = [pc EXCEPT ![p] = "session_read"]
          /\ sessionLoader' = [sessionLoader EXCEPT ![t] = p]
          /\ UNCHANGED leader
       \/ /\ t \notin validSessions /\ sessionLoader[t] # NoHandler
          /\ pc' = [pc EXCEPT ![p] = "session_wait"]
          /\ leader' = [leader EXCEPT ![p] = sessionLoader[t]]
          /\ UNCHANGED sessionLoader
    /\ UNCHANGED <<db, validSessions, userCache, history>>

(* The row the query finds: the cookie's query joins the account and asks   *)
(* for a browser session, is_session_valid's asks for the id alone.         *)
SessionRowFound(p) ==
    LET t == req[p].tok
    IN  t \in sessions /\ (req[p].cookie => ~token[t].key)

SessionRead(p) ==
    /\ pc[p] = "session_read"
    /\ LET t == req[p].tok IN
       \/ /\ ~SessionRowFound(p)
          /\ DropSessionGuard(p)
       \/ /\ SessionRowFound(p)
          /\ pc' = [pc EXCEPT ![p] = IF Expired(t) THEN "invalidate_forget"
                                     ELSE "session_insert"]
          /\ req' = [req EXCEPT ![p].row = account[req[p].aid]]
          /\ UNCHANGED <<sessionLoader, leader>>
    /\ UNCHANGED <<db, validSessions, userCache, history>>

SessionInsert(p) ==
    /\ pc[p] = "session_insert"
    /\ LET t == req[p].tok IN
       /\ validSessions' = IF sessionLoader[t] = p THEN validSessions \cup {t}
                           ELSE validSessions
       /\ sessionLoader' = [sessionLoader EXCEPT ![t] = IF @ = p THEN NoHandler ELSE @]
    /\ MoveWith(p, IF req[p].cookie THEN "account_store" ELSE "account_lookup",
                "session_wait", "account_lookup")
    /\ UNCHANGED <<db, userCache, req, leader, history>>

(* cached_users.insert, without a guard. *)
AccountStore(p) ==
    /\ pc[p] = "account_store"
    /\ LET id == req[p].aid IN
       /\ cachedUsers' = [cachedUsers EXCEPT ![id] = req[p].row]
       /\ guarded' = guarded \ {id}
       /\ userLoader' = [userLoader EXCEPT ![id] = NoHandler]
    /\ pc' = [pc EXCEPT ![p] = "served"]
    /\ UNCHANGED <<db, sessionCache, req, leader, history>>

(* The session is in hand: is it expired, may it be used on this path, and  *)
(* whose is it (the head of get_account).                                   *)
AccountLookup(p) ==
    /\ pc[p] = "account_lookup"
    /\ LET t == req[p].tok
           id == req[p].aid
           usable == ~Expired(t) /\ (req[p].cookie \/ token[t].key)
       IN
       \/ /\ Expired(t)
          /\ pc' = [pc EXCEPT ![p] = "invalidate_forget"]
          /\ UNCHANGED <<userLoader, req, leader>>
       \/ /\ ~Expired(t) /\ ~usable
          /\ Finish(p)
          /\ UNCHANGED <<userLoader, leader>>
       \/ /\ usable /\ cachedUsers[id] # NoRow
          /\ pc' = [pc EXCEPT ![p] = "served"]
          /\ req' = [req EXCEPT ![p].row = cachedUsers[id]]
          /\ UNCHANGED <<userLoader, leader>>
       \/ /\ usable /\ cachedUsers[id] = NoRow /\ userLoader[id] = NoHandler
          /\ pc' = [pc EXCEPT ![p] = "account_read"]
          /\ userLoader' = [userLoader EXCEPT ![id] = p]
          /\ UNCHANGED <<req, leader>>
       \/ /\ usable /\ cachedUsers[id] = NoRow /\ userLoader[id] # NoHandler
          /\ pc' = [pc EXCEPT ![p] = "account_wait"]
          /\ leader' = [leader EXCEPT ![p] = userLoader[id]]
          /\ UNCHANGED <<userLoader, req>>
    /\ UNCHANGED <<db, sessionCache, cachedUsers, guarded, history>>

AccountRead(p) ==
    /\ pc[p] = "account_read"
    /\ LET id == req[p].aid IN
       \/ /\ ~Exists(id)
          /\ DropUserGuard(p, IF req[p].cookie THEN "session_forget" ELSE "idle")
       \/ /\ Exists(id)
          /\ pc' = [pc EXCEPT ![p] = "account_insert"]
          /\ req' = [req EXCEPT ![p].row = account[id]]
          /\ UNCHANGED <<userLoader, leader>>
    /\ UNCHANGED <<db, sessionCache, cachedUsers, guarded, history>>

AccountInsert(p) ==
    /\ pc[p] = "account_insert"
    /\ LET id == req[p].aid IN
       /\ IF userLoader[id] = p
          THEN /\ cachedUsers' = [cachedUsers EXCEPT ![id] = req[p].row]
               /\ guarded' = guarded \cup {id}
               /\ userLoader' = [userLoader EXCEPT ![id] = NoHandler]
          ELSE UNCHANGED userCache
       /\ req' = [q \in Handler |-> IF q \in Waiting(p, "account_wait")
                                    THEN [req[q] EXCEPT !.row = req[p].row]
                                    ELSE req[q]]
    /\ MoveWith(p, "served", "account_wait", "served")
    /\ UNCHANGED <<db, sessionCache, leader, history>>

(* get_session_account: the account of a cached session is gone. *)
SessionForget(p) ==
    /\ pc[p] = "session_forget"
    /\ RemoveSession(req[p].tok)
    /\ Finish(p)
    /\ UNCHANGED <<db, userCache, leader, history>>

Respond(p) ==
    /\ pc[p] = "served"
    /\ Finish(p)
    /\ UNCHANGED <<db, sessionCache, userCache, leader, history>>

-----------------------------------------------------------------------------
(* invalidate_session: for an expired session, a logout, or a revocation    *)
(* from the sessions page.  The cache entry goes first, then the row.       *)
(* Nobody looks at whether the row did.                                     *)

InvalidateForget(p) ==
    /\ pc[p] = "invalidate_forget"
    /\ RemoveSession(req[p].tok)
    /\ pc' = [pc EXCEPT ![p] = "invalidate_delete"]
    /\ UNCHANGED <<db, userCache, req, leader, history>>

InvalidateDelete(p) ==
    /\ pc[p] = "invalidate_delete"
    /\ LET t == req[p].tok IN
       \/ /\ sessions' = sessions \ {t}
          /\ revoked' = [revoked EXCEPT ![t] = IF @ = "all" THEN @ ELSE "one"]
       \/ UNCHANGED <<sessions, revoked>>
    /\ DropSessionGuard(p)
    /\ UNCHANGED <<account, token, aged, writes, validSessions, userCache, settled>>

(* The shared tails of the handlers that change an account or its sessions. *)

(* One UPDATE of the account's row.  On an error the handler bails.         *)
UpdateRow(p) ==
    LET id == req[p].aid IN
    /\ writes < MaxWrites
    /\ writes' = writes + 1
    /\ account' = IF Exists(id) THEN [account EXCEPT ![id].ver = writes + 1] ELSE account
    /\ UNCHANGED <<token, sessions, aged>>

UpdateAccount(p) ==
    /\ pc[p] = "update"
    /\ \/ /\ UpdateRow(p)
          /\ pc' = [pc EXCEPT ![p] = "forget_account"]
          /\ req' = [req EXCEPT ![p].wrote = writes + 1]
       \/ /\ Finish(p)
          /\ UNCHANGED db
    /\ UNCHANGED <<sessionCache, userCache, leader, history>>

(* purge_account: one transaction, the sessions go by ON DELETE CASCADE.    *)
PurgeRow(p) ==
    LET id == req[p].aid IN
    /\ writes < MaxWrites
    /\ writes' = writes + 1
    /\ account' = [account EXCEPT ![id] = NoRow]
    /\ sessions' = {t \in sessions : token[t].id # id}
    /\ UNCHANGED <<token, aged>>

PurgeAccount(p) ==
    /\ pc[p] = "purge"
    /\ \/ /\ PurgeRow(p)
          /\ pc' = [pc EXCEPT ![p] = "forget_account"]
          /\ req' = [req EXCEPT ![p].wrote = writes + 1]
       \/ /\ Finish(p)
          /\ UNCHANGED db
    /\ UNCHANGED <<sessionCache, userCache, leader, history>>

(* invalidate_account_cache, after the handler's own write if it made one.  *)
ForgetAccount(p) ==
    /\ pc[p] = "forget_account"
    /\ LET id == req[p].aid IN
       /\ RemoveUser(id)
       /\ settled' = [settled EXCEPT ![id] = IF req[p].wrote > @ THEN req[p].wrote ELSE @]
    /\ IF req[p].next = "idle" THEN Finish(p)
       ELSE /\ pc' = [pc EXCEPT ![p] = req[p].next]
            /\ req' = [req EXCEPT ![p].next = "idle"]
    /\ UNCHANGED <<db, sessionCache, leader, revoked>>

(* invalidate_account_sessions and invalidate_api_keys: DELETE ... RETURNING *)
(* first, then the cache entry of each row returned.  An error deletes and   *)
(* returns nothing, and the handler goes on.                                 *)
DeleteRows(p, gone) ==
    /\ gone \in {{}, {t \in sessions : token[t].id = req[p].aid /\ token[t].key = req[p].keys}}
    /\ sessions' = sessions \ gone
    /\ UNCHANGED <<account, token, aged, writes>>

DeleteSessions(p) ==
    /\ pc[p] = "delete_sessions"
    /\ \E gone \in SUBSET Token :
          /\ DeleteRows(p, gone)
          /\ req' = [req EXCEPT ![p].todo = gone]
    /\ pc' = [pc EXCEPT ![p] = "forget_sessions"]
    /\ UNCHANGED <<sessionCache, userCache, leader, history>>

(* mutant: the rows go, their cache entries stay. *)
ForgetSessionsRowsOnly(p) ==
    /\ pc[p] = "forget_sessions"
    /\ revoked' = [t \in Token |-> IF t \in req[p].todo THEN "all" ELSE revoked[t]]
    /\ IF req[p].last = "mint"
       THEN pc' = [pc EXCEPT ![p] = "mint"] /\ UNCHANGED req
       ELSE Finish(p)
    /\ UNCHANGED <<db, sessionCache, userCache, leader, settled>>

ForgetSessions(p) ==
    /\ pc[p] = "forget_sessions"
    /\ \/ \E t \in req[p].todo :
            /\ RemoveSession(t)
            /\ req' = [req EXCEPT ![p].todo = @ \ {t}]
            /\ revoked' = [revoked EXCEPT ![t] = "all"]
            /\ UNCHANGED pc
       \/ /\ req[p].todo = {} /\ req[p].last = "idle"
          /\ Finish(p)
          /\ UNCHANGED <<sessionCache, revoked>>
       \/ /\ req[p].todo = {} /\ req[p].last = "mint"
          /\ pc' = [pc EXCEPT ![p] = "mint"]
          /\ UNCHANGED <<req, sessionCache, revoked>>
    /\ UNCHANGED <<db, userCache, leader, settled>>

(* save_session and generate_api_key: a fresh token and its row.  The row   *)
(* needs its account; without it the token handed out has no row at all.    *)
MintToken(p) ==
    /\ pc[p] = "mint"
    /\ LET id == req[p].aid IN
       \/ /\ Exists(id)
          /\ \E t \in Token :
                /\ ~Minted(t)
                /\ token' = [token EXCEPT ![t] = [id |-> id, key |-> req[p].keys,
                                                  born |-> req[p].row.born]]
                /\ sessions' = sessions \cup {t}
       \/ UNCHANGED <<token, sessions>>
    /\ Finish(p)
    /\ UNCHANGED <<account, aged, writes, sessionCache, userCache, leader, history>>

-----------------------------------------------------------------------------
(* The handlers.  Those that take an `Account` act once it is resolved, by a *)
(* cookie; logout and change_password take the signed token alone.           *)

Goto(p, to, r) == /\ pc' = [pc EXCEPT ![p] = to]
                  /\ req' = [req EXCEPT ![p] = r]
                  /\ UNCHANGED <<sessionCache, userCache, leader, history>>

Login(p) ==
    /\ pc[p] = "idle"
    /\ \E id \in AccountId :
          /\ Exists(id)
          /\ Goto(p, "forget_account",
                  [Blank EXCEPT !.aid = id, !.row = account[id], !.next = "mint"])
    /\ UNCHANGED db

Signup(p) ==
    /\ pc[p] = "idle"
    /\ writes < MaxWrites /\ NextRowId \in AccountId
    /\ LET row == [born |-> writes + 1, ver |-> writes + 1] IN
       /\ account' = [account EXCEPT ![NextRowId] = row]
       /\ Goto(p, "mint", [Blank EXCEPT !.aid = NextRowId, !.row = row])
    /\ writes' = writes + 1
    /\ UNCHANGED <<token, sessions, aged>>

Logout(p, t) ==
    /\ pc[p] = "idle" /\ Minted(t)
    /\ Goto(p, "forget_account", [Blank EXCEPT !.tok = t, !.aid = token[t].id,
                                               !.next = "invalidate_forget"])
    /\ UNCHANGED db

(* The password is verified against the row read here. *)
ChangePassword(p, t) ==
    /\ pc[p] = "idle" /\ Minted(t) /\ Exists(token[t].id)
    /\ Goto(p, "update", [Blank EXCEPT !.aid = token[t].id, !.row = account[token[t].id],
                                       !.next = "delete_sessions", !.last = "mint"])
    /\ UNCHANGED db

Authenticated(p) == pc[p] = "served" /\ req[p].cookie

(* sessions::invalidate_session: any token signed for the same account id.  *)
RevokeSession(p, t) ==
    /\ Authenticated(p)
    /\ Minted(t) /\ token[t].id = req[p].aid
    /\ Goto(p, "invalidate_forget", [Blank EXCEPT !.tok = t, !.aid = req[p].aid])
    /\ UNCHANGED db

LogoutAll(p) ==
    /\ Authenticated(p)
    /\ Goto(p, "forget_account", [Blank EXCEPT !.aid = req[p].aid, !.next = "delete_sessions"])
    /\ UNCHANGED db

(* change_username, and every other handler that updates the row and then   *)
(* invalidates the cached account.                                          *)
ChangeUsername(p) ==
    /\ Authenticated(p)
    /\ Goto(p, "update", [Blank EXCEPT !.aid = req[p].aid])
    /\ UNCHANGED db

GenerateApiKey(p) ==
    /\ Authenticated(p)
    /\ \E new \in BOOLEAN :
          Goto(p, IF new THEN "mint" ELSE "delete_sessions",
               [Blank EXCEPT !.aid = req[p].aid, !.row = req[p].row,
                             !.keys = TRUE, !.last = "mint"])
    /\ UNCHANGED db

(* The session row is read back and must be a browser login.                *)
DeletionAllowed(p) == req[p].tok \in sessions /\ ~token[req[p].tok].key

DeleteAccount(p) ==
    /\ Authenticated(p)
    /\ DeletionAllowed(p)
    /\ Goto(p, "purge", [Blank EXCEPT !.aid = req[p].aid, !.next = "delete_sessions"])
    /\ UNCHANGED db

-----------------------------------------------------------------------------
(* The environment *)

(* The client goes away and the handler is dropped at an await.  A query    *)
(* already sent still runs; what the handler does after it does not.        *)
Disconnect(p) ==
    \/ /\ pc[p] \in {"session_wait", "account_wait"}
       /\ Finish(p)
       /\ UNCHANGED <<db, sessionCache, userCache, leader, history>>
    \/ /\ pc[p] = "session_read"
       /\ DropSessionGuard(p)
       /\ UNCHANGED <<db, validSessions, userCache, history>>
    \/ /\ pc[p] = "account_read"
       /\ DropUserGuard(p, "idle")
       /\ UNCHANGED <<db, sessionCache, cachedUsers, guarded, history>>
    \/ /\ \/ pc[p] = "update" /\ UpdateRow(p)
          \/ pc[p] = "purge" /\ PurgeRow(p)
          \/ pc[p] = "delete_sessions" /\ \E gone \in SUBSET Token : DeleteRows(p, gone)
       /\ Finish(p)
       /\ UNCHANGED <<sessionCache, userCache, leader, history>>

(* Both caches hold 1000 entries and evict when full. *)
EvictSession(t) ==
    /\ t \in validSessions
    /\ validSessions' = validSessions \ {t}
    /\ UNCHANGED <<db, sessionLoader, userCache, local, history>>

EvictUser(id) ==
    /\ cachedUsers[id] # NoRow
    /\ cachedUsers' = [cachedUsers EXCEPT ![id] = NoRow]
    /\ guarded' = guarded \ {id}
    /\ UNCHANGED <<db, sessionCache, userLoader, local, history>>

(* MAX_TOKEN_AGE passes for a token. *)
Age(t) ==
    /\ Minted(t) /\ t \notin aged
    /\ aged' = aged \cup {t}
    /\ UNCHANGED <<account, token, sessions, writes, sessionCache, userCache, local, history>>

(* The process stops and starts: the tables stay, the rest is lost. *)
Restart ==
    /\ validSessions' = {}
    /\ sessionLoader' = [t \in Token |-> NoHandler]
    /\ cachedUsers' = [id \in AccountId |-> NoRow]
    /\ guarded' = {}
    /\ userLoader' = [id \in AccountId |-> NoHandler]
    /\ pc' = [p \in Handler |-> "idle"]
    /\ req' = [p \in Handler |-> Blank]
    /\ UNCHANGED <<db, leader, history>>

-----------------------------------------------------------------------------
(* One account, nobody signed in, a process just started. *)
Init ==
    /\ account = [id \in AccountId |-> IF id = 1 THEN [born |-> 1, ver |-> 1] ELSE NoRow]
    /\ token = [t \in Token |-> NoToken]
    /\ sessions = {} /\ aged = {} /\ writes = 1
    /\ validSessions = {}
    /\ sessionLoader = [t \in Token |-> NoHandler]
    /\ cachedUsers = [id \in AccountId |-> NoRow]
    /\ guarded = {}
    /\ userLoader = [id \in AccountId |-> NoHandler]
    /\ pc = [p \in Handler |-> "idle"]
    /\ req = [p \in Handler |-> Blank]
    /\ leader = [p \in Handler |-> p]
    /\ revoked = [t \in Token |-> "no"]
    /\ settled = [id \in AccountId |-> 0]

(* What a handler does once it has a request, without anyone's help. *)
Step(p) ==
    \/ SessionRead(p) \/ SessionInsert(p) \/ AccountStore(p)
    \/ AccountLookup(p) \/ AccountRead(p) \/ AccountInsert(p) \/ SessionForget(p)
    \/ Respond(p)
    \/ InvalidateForget(p) \/ InvalidateDelete(p)
    \/ UpdateAccount(p) \/ PurgeAccount(p) \/ ForgetAccount(p)
    \/ DeleteSessions(p) \/ ForgetSessions(p) \/ MintToken(p)

Request(p) ==
    \/ \E t \in Token : \/ \E cookie \in BOOLEAN : Resolve(p, t, cookie)
                        \/ Logout(p, t) \/ ChangePassword(p, t) \/ RevokeSession(p, t)
    \/ Login(p) \/ Signup(p)
    \/ LogoutAll(p) \/ ChangeUsername(p) \/ GenerateApiKey(p) \/ DeleteAccount(p)

Environment ==
    \/ \E p \in Handler : Disconnect(p)
    \/ \E t \in Token : EvictSession(t) \/ Age(t)
    \/ \E id \in AccountId : EvictUser(id)
    \/ Restart

Next == (\E p \in Handler : Step(p) \/ Request(p)) \/ Environment

Spec == Init /\ [][Next]_vars

(* The runtime polls every handler that can move. *)
Fairness == \A p \in Handler : WF_vars(Step(p))

FairSpec == Spec /\ Fairness

-----------------------------------------------------------------------------
TypeOK ==
    /\ account \in [AccountId -> Row]
    /\ token \in [Token -> Minting \cup {NoToken}]
    /\ sessions \subseteq Token /\ aged \subseteq Token
    /\ writes \in Nat
    /\ validSessions \subseteq Token
    /\ sessionLoader \in [Token -> Handler \cup {NoHandler}]
    /\ cachedUsers \in [AccountId -> Row]
    /\ guarded \subseteq AccountId
    /\ userLoader \in [AccountId -> Handler \cup {NoHandler}]
    /\ pc \in [Handler -> Place]
    /\ req \in [Handler -> Locals]
    /\ leader \in [Handler -> Handler]
    /\ revoked \in [Token -> Revocation]
    /\ settled \in [AccountId -> Nat]

-----------------------------------------------------------------------------
(* Signing out everywhere (and changing the password, which does the same)  *)
(* is final: once invalidate_account_sessions or invalidate_api_keys has    *)
(* dropped a token, no request that starts afterwards is served with it,    *)
(* whatever loads of it were in flight when the row went.                   *)
SignOutEverywhereIsFinal ==
    \A p \in Handler : pc[p] = "served" => req[p].late # "all"

(* Whoever waits for another's load of a session or an account waits for a  *)
(* handler that is doing that load: no disconnect, failed read, expired     *)
(* session or invalidation leaves a reader behind a placeholder nobody      *)
(* will fill.                                                               *)
SessionWork == {"session_read", "session_insert", "invalidate_forget", "invalidate_delete"}
UserWork == {"account_read", "account_insert"}

WaitersAreLed ==
    \A q \in Handler :
        /\ pc[q] = "session_wait" => /\ pc[leader[q]] \in SessionWork
                                     /\ req[leader[q]].tok = req[q].tok
        /\ pc[q] = "account_wait" => /\ pc[leader[q]] \in UserWork
                                     /\ req[leader[q]].aid = req[q].aid

(* An account that get_account put into cached_users is never older than    *)
(* the last change whose handler has called invalidate_account_cache, even  *)
(* if the row was read before the change and inserted after the call.       *)
GuardedFillsFresh ==
    \A id \in guarded : cachedUsers[id].ver >= settled[id]

(* Every request is answered: no handler waits forever for a load, whoever  *)
(* else disconnects, fails, revokes or invalidates meanwhile.               *)
Answered == \A p \in Handler : pc[p] # "idle" ~> pc[p] = "idle"

(* What get_session_account's comment says: the account it returns is the   *)
(* one the session was issued to.  Sessions deleted by the cascade stay in  *)
(* valid_sessions, and the id of the deleted account is given out again.    *)
SessionKeepsOwner ==
    \A p \in Handler : pc[p] = "served" => req[p].row.born = token[req[p].tok].born
=============================================================================
