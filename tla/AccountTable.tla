----------------------------- MODULE AccountTable -----------------------------
(***************************************************************************)
(* The account table and what hangs on it by id: the username history and  *)
(* the Discord links.  Accounts are created by the signup form, by a       *)
(* Discord login and by the admin command; renamed by change_username;     *)
(* and deleted by delete_account.  Each SQL transaction is one action; the *)
(* handlers that read first and write later are several.                   *)
(*                                                                         *)
(* Sessions and caches are SessionStore's: here a handler starts with the  *)
(* id of an account that existed when its request was resolved.            *)
(***************************************************************************)
EXTENDS Integers, FiniteSets

CONSTANTS
    Handler,     \* the request handlers that may be in flight together
    Name,        \* usernames that pass is_valid_username
    NoName,      \* an account id with no row
    Reserved,    \* the RESERVED names
    User,        \* Discord users
    NoUser,      \* no Discord link
    Cooldown,    \* COOLDOWN_DAYS, in ticks of the clock
    Hold,        \* RELEASE_HOLD_DAYS, in ticks of the clock
    MaxAccount,  \* bound: account ids are 1..MaxAccount
    MaxTime      \* bound: the last tick of the clock

ASSUME NameAssumption == Name # {} /\ NoName \notin Name /\ Reserved \subseteq Name
ASSUME UserAssumption == User # {} /\ NoUser \notin User
(* The hold is no longer than the cooldown; in the code they are equal. *)
ASSUME DaysAssumption == Hold \in Nat /\ Cooldown \in Nat /\ 0 < Hold /\ Hold <= Cooldown
ASSUME BoundAssumption == MaxAccount \in Nat \ {0} /\ MaxTime \in Nat

VARIABLES
    name,        \* account.name, NoName where there is no row
    admins,      \* the accounts with the admin flag
    passworded,  \* the accounts with a password (not NO_PASSWORD_SENTINEL)
    discord,     \* user_discord_links: the Discord user of each account
    changes,     \* username_change: one row per rename
    now,         \* the clock
    pc, req      \* where each handler is, and its locals

rows == <<name, admins, passworded, discord, changes>>
local == <<pc, req>>
vars == <<rows, now, local>>

-----------------------------------------------------------------------------
AccountId == 1..MaxAccount
Exists(id) == name[id] # NoName
Taken(n) == \E id \in AccountId : name[id] = n
Linked(u) == \E id \in AccountId : discord[id] = u

Change == [by: AccountId, old: Name, new: Name, at: Nat]

Place == {"idle", "rename_load", "rename_claim", "delete_count", "delete_load",
          "purge", "discord_create", "discord_retry", "link"}
Locals == [id: AccountId, name: Name, user: User]

Blank == [id |-> 1, name |-> CHOOSE n \in Name : TRUE, user |-> CHOOSE u \in User : TRUE]

Goto(p, place) == pc' = [pc EXCEPT ![p] = place]

(* The handler has answered; its locals are gone. *)
Finish(p) == Goto(p, "idle") /\ req' = [req EXCEPT ![p] = Blank]

(* INTEGER PRIMARY KEY without AUTOINCREMENT: one more than the largest id. *)
NextRowId(id) == /\ \A other \in AccountId : Exists(other) => other < id
                 /\ id > 1 => Exists(id - 1)

(* INSERT INTO account, under the UNIQUE index on the name. *)
InsertAccount(n, admin, password, user) ==
    /\ ~Taken(n)
    /\ \E id \in AccountId :
          /\ NextRowId(id)
          /\ name' = [name EXCEPT ![id] = n]
          /\ admins' = IF admin THEN admins \cup {id} ELSE admins
          /\ passworded' = IF password THEN passworded \cup {id} ELSE passworded
          /\ discord' = [discord EXCEPT ![id] = user]
    /\ UNCHANGED changes

-----------------------------------------------------------------------------
(* Creating an account *)

(* signup_submit: the shape of the name and the index are all it asks for.  *)
Signup(n) ==
    /\ InsertAccount(n, FALSE, TRUE, NoUser)
    /\ UNCHANGED <<now, local>>

(* The admin command: another process, the same database. *)
CreateAdmin(n) ==
    /\ InsertAccount(n, TRUE, TRUE, NoUser)
    /\ UNCHANGED <<now, local>>

(* login_or_create: a linked user signs in; for another one an account is   *)
(* made, under the Discord name or, if that is taken, the name with digits  *)
(* appended, which is the same name again when it is 32 characters long.    *)
DiscordLogin(p, u, n) ==
    /\ pc[p] = "idle"
    /\ ~Linked(u)
    /\ Goto(p, "discord_create")
    /\ req' = [req EXCEPT ![p] = [Blank EXCEPT !.user = u, !.name = n]]
    /\ UNCHANGED <<rows, now>>

(* The account and its link are one transaction. *)
CreateLinked(p, n) ==
    /\ ~Linked(req[p].user)
    /\ InsertAccount(n, FALSE, FALSE, req[p].user)

DiscordCreate(p) ==
    /\ pc[p] = "discord_create"
    /\ \/ CreateLinked(p, req[p].name) /\ Finish(p)
       \/ Taken(req[p].name) /\ Goto(p, "discord_retry") /\ UNCHANGED <<rows, req>>
       \/ ~Taken(req[p].name) /\ Finish(p) /\ UNCHANGED rows
    /\ UNCHANGED now

DiscordRetry(p) ==
    /\ pc[p] = "discord_retry"
    /\ Finish(p)
    /\ \/ \E n \in Name : CreateLinked(p, n)
       \/ UNCHANGED rows
    /\ UNCHANGED now

(* The OAuth flow of someone signed in carries the account's id to the      *)
(* callback, up to ten minutes later.                                       *)
DiscordStart(p, id, u) ==
    /\ pc[p] = "idle" /\ Exists(id)
    /\ Goto(p, "link")
    /\ req' = [req EXCEPT ![p] = [Blank EXCEPT !.id = id, !.user = u]]
    /\ UNCHANGED <<rows, now>>

LinkDiscord(p) ==
    /\ pc[p] = "link"
    /\ Finish(p)
    /\ LET id == req[p].id IN
       \/ /\ Exists(id) /\ discord[id] = NoUser /\ ~Linked(req[p].user)
          /\ discord' = [discord EXCEPT ![id] = req[p].user]
       \/ UNCHANGED discord
    /\ UNCHANGED <<name, admins, passworded, changes, now>>

DiscordUnlink(id) ==
    /\ Exists(id) /\ discord[id] # NoUser
    /\ discord' = [discord EXCEPT ![id] = NoUser]
    /\ UNCHANGED <<name, admins, passworded, changes, now, local>>

(* change_password, which sets the first one as well. *)
SetPassword(id) ==
    /\ Exists(id)
    /\ passworded' = passworded \cup {id}
    /\ UNCHANGED <<name, admins, discord, changes, now, local>>

-----------------------------------------------------------------------------
(* Renaming an account *)

Releases(n) == {r \in changes : r.old = n /\ r.at + Hold > now}

(* The last to release n within the hold is id, or there is no such release.*)
FreeFor(n, id) ==
    \A r \in Releases(n) : \/ r.by = id
                           \/ \E s \in Releases(n) : s.by = id /\ s.at >= r.at

Cooling(id) == \E r \in changes : r.by = id /\ r.at + Cooldown > now

(* mutant: the hold is checked before the transaction, not inside it. *)
ClaimableUnheld(n, id) == Exists(id) /\ n # name[id] /\ ~Cooling(id) /\ ~Taken(n)

(* What claim asks for, in its transaction. *)
Claimable(n, id) ==
    Exists(id) /\ n # name[id] /\ ~Cooling(id) /\ FreeFor(n, id) /\ ~Taken(n)

LastHolders(n) == {r.by : r \in {s \in Releases(n) : \A t \in Releases(n) : t.at <= s.at}}

(* mutant: the hint knows the names that are taken, not those that are held.*)
AvailableUnheld(n, id) == n \notin Reserved /\ ~Taken(n)

(* availability: what the live hint tells account id.  A second copy of     *)
(* claim's rules (username.rs:23-26 calls it the same), less the cooldown.  *)
Available(n, id) == n \notin Reserved /\ ~Taken(n) /\ LastHolders(n) \subseteq {id}

(* mutant: UPDATE and INSERT are not one transaction. *)
RenameTorn(id, n) ==
    /\ name' = [name EXCEPT ![id] = n]
    /\ changes' \in {changes, changes \cup {[by |-> id, old |-> name[id], new |-> n, at |-> now]}}

(* The UPDATE and the history row. *)
Rename(id, n) ==
    /\ name' = [name EXCEPT ![id] = n]
    /\ changes' = changes \cup {[by |-> id, old |-> name[id], new |-> n, at |-> now]}

ChangeUsername(p, id, n) ==
    /\ pc[p] = "idle" /\ Exists(id)
    /\ n \notin Reserved
    /\ Goto(p, "rename_load")
    /\ req' = [req EXCEPT ![p] = [Blank EXCEPT !.id = id, !.name = n]]
    /\ UNCHANGED <<rows, now>>

(* The row is read for its password; the read and the check may fail.       *)
LoadForRename(p) ==
    /\ pc[p] = "rename_load"
    /\ \/ Exists(req[p].id) /\ Goto(p, "rename_claim") /\ UNCHANGED req
       \/ Finish(p)
    /\ UNCHANGED <<rows, now>>

(* A refusal and a database error leave everything as it was. *)
Claim(p) ==
    /\ pc[p] = "rename_claim"
    /\ Finish(p)
    /\ \/ Claimable(req[p].name, req[p].id) /\ Rename(req[p].id, req[p].name)
       \/ UNCHANGED <<name, changes>>
    /\ UNCHANGED <<admins, passworded, discord, now>>

-----------------------------------------------------------------------------
(* Deleting an account *)

(* The flags are those of the account the request was resolved to. *)
DeleteAccount(p, id) ==
    /\ pc[p] = "idle" /\ Exists(id)
    /\ Goto(p, IF id \in admins THEN "delete_count" ELSE "delete_load")
    /\ req' = [req EXCEPT ![p] = [Blank EXCEPT !.id = id]]
    /\ UNCHANGED <<rows, now>>

(* is_last_admin; a count that fails counts as none. *)
CountAdmins(p) ==
    /\ pc[p] = "delete_count"
    /\ \/ Cardinality(admins) > 1 /\ Goto(p, "delete_load") /\ UNCHANGED req
       \/ Finish(p)
    /\ UNCHANGED <<rows, now>>

(* Without a password there is no deletion; with one, it is checked, and    *)
(* the second factor after it.                                              *)
LoadForDelete(p) ==
    /\ pc[p] = "delete_load"
    /\ \/ /\ Exists(req[p].id) /\ req[p].id \in passworded
          /\ Goto(p, "purge") /\ UNCHANGED req
       \/ Finish(p)
    /\ UNCHANGED <<rows, now>>

(* purge_account: the history and the link go by ON DELETE CASCADE. *)
PurgeRow(id) ==
    /\ name' = [name EXCEPT ![id] = NoName]
    /\ admins' = admins \ {id}
    /\ passworded' = passworded \ {id}
    /\ discord' = [discord EXCEPT ![id] = NoUser]
    /\ changes' = {r \in changes : r.by # id}

Purge(p) ==
    /\ pc[p] = "purge"
    /\ Finish(p)
    /\ PurgeRow(req[p].id) \/ UNCHANGED rows
    /\ UNCHANGED now

-----------------------------------------------------------------------------
Tick ==
    /\ now < MaxTime
    /\ now' = now + 1
    /\ UNCHANGED <<rows, local>>

(* The client goes away, or the process stops: a handler ends where it is.  *)
Abandon(p) ==
    /\ pc[p] # "idle"
    /\ Finish(p)
    /\ UNCHANGED <<rows, now>>

(* The first admin has been made by the admin command, and nobody else.     *)
Init ==
    /\ \E n \in Name : name = [id \in AccountId |-> IF id = 1 THEN n ELSE NoName]
    /\ admins = {1} /\ passworded = {1}
    /\ discord = [id \in AccountId |-> NoUser]
    /\ changes = {} /\ now = 0
    /\ pc = [p \in Handler |-> "idle"]
    /\ req = [p \in Handler |-> Blank]

Step(p) ==
    \/ DiscordCreate(p) \/ DiscordRetry(p) \/ LinkDiscord(p)
    \/ LoadForRename(p) \/ Claim(p)
    \/ CountAdmins(p) \/ LoadForDelete(p) \/ Purge(p)
    \/ Abandon(p)

Request(p) ==
    \/ \E id \in AccountId :
          \/ DeleteAccount(p, id)
          \/ \E n \in Name : ChangeUsername(p, id, n)
          \/ \E u \in User : DiscordStart(p, id, u)
    \/ \E u \in User, n \in Name : DiscordLogin(p, u, n)

Next ==
    \/ \E p \in Handler : Step(p) \/ Request(p)
    \/ \E n \in Name : Signup(n) \/ CreateAdmin(n)
    \/ \E id \in AccountId : DiscordUnlink(id) \/ SetPassword(id)
    \/ Tick

Spec == Init /\ [][Next]_vars

-----------------------------------------------------------------------------
TypeOK ==
    /\ name \in [AccountId -> Name \cup {NoName}]
    /\ admins \subseteq AccountId /\ passworded \subseteq AccountId
    /\ discord \in [AccountId -> User \cup {NoUser}]
    /\ changes \subseteq Change
    /\ now \in Nat
    /\ pc \in [Handler -> Place]
    /\ req \in [Handler -> Locals]

Following(r) == {s \in changes : s.by = r.by /\ s.at > r.at}

(* "The username_change history can never disagree with the account row"    *)
(* (username.rs): what an account took is the name it has, or the name it   *)
(* released at its next rename, through deletions and reused ids too.       *)
HistoryAgrees ==
    \A r \in changes :
        /\ Following(r) = {} => name[r.by] = r.new
        /\ \A s \in Following(r) : (\A u \in Following(r) : s.at <= u.at) => s.old = r.new

(* Renames of one account are a cooldown apart, however many are in flight. *)
RenamesApart ==
    \A r, s \in changes : r.by = s.by /\ r # s => r.at + Cooldown <= s.at \/ s.at + Cooldown <= r.at

(* No rename takes a name within the hold of any release of it in the       *)
(* history.  It is the last release claim asks about, and its exception for *)
(* the account that made that release never applies: the cooldown of that   *)
(* account is the longer of the two.                                        *)
HoldHonoured ==
    \A r, s \in changes : r.old = s.new /\ r.at <= s.at => r.at + Hold <= s.at

(* The hint is a second copy of claim's rules, without the cooldown, and    *)
(* reads the last release only.  So it does promise names that the rename   *)
(* refuses, but only to an account that has to wait anyway; to any other    *)
(* its answer is claim's, and it never denies a name that claim would give. *)
HintWrongOnlyInCooldown ==
    \A n \in Name \ Reserved, id \in AccountId :
        Exists(id) => /\ Available(n, id) /\ ~Claimable(n, id) => Cooling(id)
                      /\ Claimable(n, id) => Available(n, id)
=============================================================================
