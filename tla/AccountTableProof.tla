-------------------------- MODULE AccountTableProof --------------------------
(***************************************************************************)
(* What is proved of AccountTable, for any number of handlers, names,      *)
(* accounts and ticks: its type, and that the username history agrees with *)
(* the account table, keeps the cooldown and honours the hold.             *)
(***************************************************************************)
EXTENDS AccountTable, WellFoundedInduction, TLAPS

-----------------------------------------------------------------------------
(* The inductive invariant.  The four properties of the history need each   *)
(* other: that a rename never releases a name within the hold of the rename *)
(* that took it (HoldHonoured) is because the one that took it still has it *)
(* (HistoryAgrees), no other account can have it (NamesUnique), and the     *)
(* account that has it is still cooling (RenamesApart, ChangesPast).        *)
NamesUnique ==
    \A a, b \in AccountId : Exists(a) /\ name[a] = name[b] => a = b

ChangesPast ==
    \A r \in changes : r.at <= now /\ Exists(r.by) /\ r.old # r.new

NamesInv ==
    /\ TypeOK
    /\ NamesUnique /\ ChangesPast /\ RenamesApart /\ HistoryAgrees /\ HoldHonoured

-----------------------------------------------------------------------------
LEMMA BlankType == Blank \in Locals
BY NameAssumption, UserAssumption, BoundAssumption DEF Blank, Locals, AccountId

(* The steps that leave the names and their history alone. *)
LEMMA QuietStep ==
    ASSUME NamesInv, TypeOK', UNCHANGED <<name, changes, now>>
    PROVE  NamesInv'
BY DEF NamesInv, NamesUnique, ChangesPast, RenamesApart, HistoryAgrees, HoldHonoured,
       Following, Exists, AccountId

LEMMA InitType == Init => TypeOK
<1> SUFFICES ASSUME Init PROVE TypeOK
    OBVIOUS
<1>1. req \in [Handler -> Locals]
    BY BlankType DEF Init
<1>2. 1 \in AccountId
    BY BoundAssumption DEF AccountId
<1> QED
    BY <1>1, <1>2 DEF Init, TypeOK, Place

LEMMA FinishType ==
    ASSUME TypeOK, NEW p \in Handler, Finish(p)
    PROVE  pc' \in [Handler -> Place] /\ req' \in [Handler -> Locals]
BY BlankType DEF TypeOK, Finish, Goto, Place

LEMMA InsertType ==
    ASSUME TypeOK, NEW n \in Name, NEW admin, NEW password, NEW user \in User \cup {NoUser},
           InsertAccount(n, admin, password, user)
    PROVE  /\ name' \in [AccountId -> Name \cup {NoName}]
           /\ admins' \subseteq AccountId /\ passworded' \subseteq AccountId
           /\ discord' \in [AccountId -> User \cup {NoUser}]
           /\ changes' \subseteq Change
BY DEF TypeOK, InsertAccount

LEMMA RenameType ==
    ASSUME TypeOK, NEW id \in AccountId, NEW n \in Name, Claimable(n, id), Rename(id, n)
    PROVE  name' \in [AccountId -> Name \cup {NoName}] /\ changes' \subseteq Change
<1>1. name[id] \in Name
    BY DEF TypeOK, Claimable, Exists
<1>2. [by |-> id, old |-> name[id], new |-> n, at |-> now] \in Change
    BY <1>1 DEF TypeOK, Change
<1> QED
    BY <1>2 DEF TypeOK, Rename

(* What the steps of a handler do to the types.                              *)
LEMMA StartType ==
    ASSUME TypeOK, NEW p \in Handler, NEW place \in Place, NEW r \in Locals,
           Goto(p, place), req' = [req EXCEPT ![p] = r]
    PROVE  pc' \in [Handler -> Place] /\ req' \in [Handler -> Locals]
BY DEF TypeOK, Goto

LEMMA GoType ==
    ASSUME TypeOK, NEW p \in Handler, NEW place \in Place, Goto(p, place), UNCHANGED req
    PROVE  pc' \in [Handler -> Place] /\ req' \in [Handler -> Locals]
BY DEF TypeOK, Goto

LEMMA RequestType ==
    ASSUME TypeOK, NEW p \in Handler, Request(p)
    PROVE  TypeOK'
<1>1. UNCHANGED <<rows, now>>
    BY DEF Request, DeleteAccount, ChangeUsername, DiscordStart, DiscordLogin
<1>2. /\ pc' \in [Handler -> Place]
      /\ req' \in [Handler -> Locals]
    <2>1. CASE \E id \in AccountId : DeleteAccount(p, id)
        <3>1. PICK id \in AccountId : DeleteAccount(p, id)
            BY <2>1
        <3>2. [Blank EXCEPT !.id = id] \in Locals
            BY BlankType DEF Locals
        <3> QED
            BY <3>1, <3>2, StartType DEF DeleteAccount, Place
    <2>2. CASE \E id \in AccountId, n \in Name : ChangeUsername(p, id, n)
        <3>1. PICK id \in AccountId, n \in Name : ChangeUsername(p, id, n)
            BY <2>2
        <3>2. [Blank EXCEPT !.id = id, !.name = n] \in Locals
            BY BlankType DEF Locals
        <3> QED
            BY <3>1, <3>2, StartType DEF ChangeUsername, Place
    <2>3. CASE \E id \in AccountId, u \in User : DiscordStart(p, id, u)
        <3>1. PICK id \in AccountId, u \in User : DiscordStart(p, id, u)
            BY <2>3
        <3>2. [Blank EXCEPT !.id = id, !.user = u] \in Locals
            BY BlankType DEF Locals
        <3> QED
            BY <3>1, <3>2, StartType DEF DiscordStart, Place
    <2>4. CASE \E u \in User, n \in Name : DiscordLogin(p, u, n)
        <3>1. PICK u \in User, n \in Name : DiscordLogin(p, u, n)
            BY <2>4
        <3>2. [Blank EXCEPT !.user = u, !.name = n] \in Locals
            BY BlankType DEF Locals
        <3> QED
            BY <3>1, <3>2, StartType DEF DiscordLogin, Place
    <2> QED
        BY <2>1, <2>2, <2>3, <2>4 DEF Request
<1> QED
    BY <1>1, <1>2 DEF TypeOK, rows

(* The steps of a handler that touch the account table: the row inserted or  *)
(* renamed is well formed, the others only remove things.                    *)
LEMMA StepType ==
    ASSUME TypeOK, NEW p \in Handler, Step(p)
    PROVE  TypeOK'
<1>1. /\ pc' \in [Handler -> Place]
      /\ req' \in [Handler -> Locals]
    BY FinishType, GoType
    DEF Step, DiscordCreate, DiscordRetry, LinkDiscord, LoadForRename, Claim, CountAdmins,
        LoadForDelete, Purge, Abandon, Place
<1>2. now' = now
    BY DEF Step, DiscordCreate, DiscordRetry, LinkDiscord, LoadForRename, Claim, CountAdmins,
           LoadForDelete, Purge, Abandon
<1>3. req[p] \in Locals
    BY DEF TypeOK
<1>4. CASE UNCHANGED rows
    BY <1>1, <1>2, <1>4 DEF TypeOK, rows
<1>5. CASE \E n \in Name : CreateLinked(p, n)
    BY <1>1, <1>2, <1>3, <1>5, InsertType DEF CreateLinked, TypeOK, Locals
<1>6. CASE LinkDiscord(p)
    BY <1>1, <1>2, <1>3, <1>6 DEF LinkDiscord, TypeOK, Locals
<1>7. CASE Claim(p)
    BY <1>1, <1>2, <1>3, <1>7, RenameType DEF Claim, TypeOK, Locals
<1>8. CASE PurgeRow(req[p].id)
    BY <1>1, <1>2, <1>8 DEF PurgeRow, TypeOK
<1> QED
    BY <1>3, <1>4, <1>5, <1>6, <1>7, <1>8
    DEF Step, DiscordCreate, DiscordRetry, LoadForRename, CountAdmins, LoadForDelete, Purge,
        Abandon, Locals

LEMMA NextType == TypeOK /\ [Next]_vars => TypeOK'
<1> SUFFICES ASSUME TypeOK, [Next]_vars PROVE TypeOK'
    OBVIOUS
<1>1. CASE \E p \in Handler : Step(p) \/ Request(p)
    BY <1>1, StepType, RequestType
<1>2. CASE \E n \in Name : Signup(n) \/ CreateAdmin(n)
    BY <1>2, InsertType DEF Signup, CreateAdmin, local, TypeOK
<1>3. CASE \E id \in AccountId : DiscordUnlink(id) \/ SetPassword(id)
    BY <1>3 DEF DiscordUnlink, SetPassword, local, TypeOK
<1>4. CASE Tick
    BY <1>4 DEF Tick, rows, local, TypeOK
<1>5. CASE UNCHANGED vars
    BY <1>5 DEF vars, rows, local, TypeOK
<1> QED
    BY <1>1, <1>2, <1>3, <1>4, <1>5 DEF Next

(* AccountTable is type correct. *)
THEOREM TypeCorrect == Spec => []TypeOK
BY InitType, NextType, PTL DEF Spec

-----------------------------------------------------------------------------
(* Inserting an account: the new id has no row, so no history either.        *)
LEMMA InsertKeepsNames ==
    ASSUME NamesInv, TypeOK', NEW n \in Name, NEW admin, NEW password, NEW user,
           InsertAccount(n, admin, password, user), now' = now
    PROVE  NamesInv'
<1>1. PICK id \in AccountId : NextRowId(id) /\ name' = [name EXCEPT ![id] = n]
    BY DEF InsertAccount
<1>2. name \in [AccountId -> Name \cup {NoName}] /\ changes \subseteq Change /\ changes' = changes
    BY DEF NamesInv, TypeOK, InsertAccount
<1>3. name[id] = NoName
    BY <1>1 DEF NextRowId, Exists, AccountId
<1>4. \A other \in AccountId : other # id => name'[other] = name[other]
    BY <1>1, <1>2
<1>5. \A r \in changes : r.by # id /\ r.by \in AccountId /\ name'[r.by] = name[r.by]
    BY <1>2, <1>3, <1>4 DEF NamesInv, ChangesPast, Exists, Change
<1>6. NamesUnique'
    <2> SUFFICES ASSUME NEW a \in AccountId, NEW b \in AccountId,
                        name'[a] # NoName, name'[a] = name'[b], a # b
                 PROVE  FALSE
        BY DEF NamesUnique, Exists
    <2>1. \A other \in AccountId : name[other] # n
        BY DEF InsertAccount, Taken
    <2>2. name'[id] = n
        BY <1>1, <1>2
    <2> QED
        BY <1>4, <2>1, <2>2 DEF NamesInv, NamesUnique, Exists
<1>7. ChangesPast'
    BY <1>2, <1>5 DEF NamesInv, ChangesPast, Exists
<1>8. RenamesApart' /\ HoldHonoured'
    BY <1>2 DEF NamesInv, RenamesApart, HoldHonoured
<1>9. HistoryAgrees'
    BY <1>2, <1>5 DEF NamesInv, HistoryAgrees, Following
<1> QED
    BY <1>6, <1>7, <1>8, <1>9 DEF NamesInv

(* Deleting an account: its history goes with it.                            *)
LEMMA PurgeKeepsNames ==
    ASSUME NamesInv, TypeOK', NEW id \in AccountId, PurgeRow(id), now' = now
    PROVE  NamesInv'
<1>1. name \in [AccountId -> Name \cup {NoName}] /\ changes \subseteq Change
    BY DEF NamesInv, TypeOK
<1>2. name' = [name EXCEPT ![id] = NoName] /\ changes' = {r \in changes : r.by # id}
    BY DEF PurgeRow
<1>3. \A r \in changes' : r \in changes /\ r.by \in AccountId /\ name'[r.by] = name[r.by]
    BY <1>1, <1>2 DEF Change
<1>4. NamesUnique'
    BY <1>1, <1>2 DEF NamesInv, NamesUnique, Exists
<1>5. ChangesPast' /\ RenamesApart' /\ HoldHonoured'
    BY <1>3 DEF NamesInv, ChangesPast, RenamesApart, HoldHonoured, Exists
<1>6. \A r \in changes' : Following(r)' = Following(r)
    BY <1>2 DEF Following
<1>7. HistoryAgrees'
    BY <1>3, <1>6 DEF NamesInv, HistoryAgrees
<1> QED
    BY <1>4, <1>5, <1>7 DEF NamesInv

(* claim's exception for the account that released the name itself makes no  *)
(* difference: a name that can be claimed has no release within the hold,    *)
(* for an account that released it within the hold is still cooling.         *)
THEOREM ClaimedNamesAreUnreleased ==
    ASSUME TypeOK, NEW id \in AccountId, NEW n \in Name, Claimable(n, id)
    PROVE  Releases(n) = {}
<1> SUFFICES ASSUME NEW r \in Releases(n) PROVE FALSE
    OBVIOUS
<1>1. PICK s \in Releases(n) : s.by = id
    BY DEF Claimable, FreeFor
<1>2. s \in changes /\ s.at + Hold > now /\ s.at \in Nat /\ now \in Nat
    BY <1>1 DEF Releases, TypeOK, Change
<1>3. s.at + Cooldown > now
    BY <1>2, DaysAssumption
<1> QED
    BY <1>1, <1>2, <1>3 DEF Claimable, Cooling

(* A rename.                                                                 *)
LEMMA RenameKeepsNames ==
    ASSUME NamesInv, TypeOK', NEW id \in AccountId, NEW n \in Name,
           Claimable(n, id), Rename(id, n), now' = now
    PROVE  NamesInv'
<1>0. PICK made : made = [by |-> id, old |-> name[id], new |-> n, at |-> now]
    OBVIOUS
<1>1. /\ name \in [AccountId -> Name \cup {NoName}]
      /\ changes \subseteq Change
      /\ now \in Nat
    BY DEF NamesInv, TypeOK
<1>2. name' = [name EXCEPT ![id] = n] /\ changes' = changes \cup {made}
    BY <1>0 DEF Rename
<1>3. name'[id] = n /\ \A other \in AccountId : other # id => name'[other] = name[other]
    BY <1>1, <1>2
<1>4. n # NoName /\ n # name[id] /\ \A other \in AccountId : name[other] # n
    BY NameAssumption DEF Claimable, Taken
<1>5. made.by = id /\ made.old = name[id] /\ made.new = n /\ made.at = now
    BY <1>0
<1>6. \A r \in changes : /\ r.by \in AccountId /\ r.at \in Nat /\ r.at <= now
                         /\ r.by = id => r.at + Cooldown <= now /\ r.at < now
    BY <1>1, DaysAssumption DEF NamesInv, ChangesPast, Claimable, Cooling, Change
<1>7. NamesUnique'
    BY <1>3, <1>4 DEF NamesInv, NamesUnique, Exists
<1>8. ChangesPast'
    BY <1>1, <1>2, <1>3, <1>4, <1>5 DEF NamesInv, ChangesPast, Exists, Change
<1>9. RenamesApart'
    BY <1>2, <1>5, <1>6 DEF NamesInv, RenamesApart
<1>10. HistoryAgrees'
    <2>1. Following(made)' = {}
        BY <1>1, <1>2, <1>5, <1>6 DEF Following
    <2>2. \A r \in changes : r.by # id => Following(r)' = Following(r)
        BY <1>2, <1>5 DEF Following
    <2>3. \A r \in changes : r.by = id => Following(r)' = Following(r) \cup {made}
        BY <1>2, <1>5, <1>6 DEF Following
    <2>4. \A r \in changes : \A s \in Following(r) : s \in changes /\ s.by = r.by
        BY DEF Following
    <2>5. ASSUME NEW r \in changes, r.by # id
          PROVE  /\ Following(r)' = {} => name'[r.by] = r.new
                 /\ \A s \in Following(r)' : (\A u \in Following(r)' : s.at <= u.at) => s.old = r.new
        BY <1>3, <1>6, <2>2, <2>5 DEF NamesInv, HistoryAgrees
    <2>6. ASSUME NEW r \in changes, r.by = id, Following(r) = {}
          PROVE  \A s \in Following(r)' : s.old = r.new
        BY <1>5, <2>3, <2>6 DEF NamesInv, HistoryAgrees
    <2>7. ASSUME NEW r \in changes, r.by = id, Following(r) # {},
                 NEW s \in Following(r)', \A u \in Following(r)' : s.at <= u.at
          PROVE  s.old = r.new
        <3>1. PICK u \in Following(r) : u.at < now
            BY <1>6, <2>4, <2>7
        <3>2. s # made
            BY <1>1, <1>5, <1>6, <2>3, <2>4, <2>7, <3>1
        <3>3. s \in Following(r) /\ \A v \in Following(r) : s.at <= v.at
            BY <2>3, <2>7, <3>2
        <3> QED
            BY <3>3 DEF NamesInv, HistoryAgrees
    <2>8. \A r \in changes : r.by = id => Following(r)' # {}
        BY <2>3
    <2> QED
        BY <1>2, <1>3, <1>5, <2>1, <2>5, <2>6, <2>7, <2>8 DEF HistoryAgrees
<1>11. HoldHonoured'
    <2>1. ASSUME NEW r \in changes, r.old = n
          PROVE  r.at + Hold <= now
        <3>1. r \notin Releases(n)
            BY ClaimedNamesAreUnreleased DEF NamesInv
        <3> QED
            BY <1>1, <1>6, <2>1, <3>1, DaysAssumption DEF Releases
    <2>2. ASSUME NEW s \in changes, s.new = name[id], now <= s.at
          PROVE  FALSE
        <3>1. s.at = now
            BY <1>1, <1>6, <2>2
        <3>2. Following(s) = {}
            BY <1>1, <1>6, <3>1 DEF Following
        <3>3. name[s.by] = name[id]
            BY <2>2, <3>2 DEF NamesInv, HistoryAgrees
        <3>4. s.by = id
            BY <1>6, <3>3 DEF NamesInv, NamesUnique, Claimable
        <3> QED
            BY <1>6, <3>1, <3>4
    <2>3. made.old # made.new
        BY <1>4, <1>5
    <2> QED
        BY <1>2, <1>5, <2>1, <2>2, <2>3 DEF NamesInv, HoldHonoured
<1> QED
    BY <1>7, <1>8, <1>9, <1>10, <1>11 DEF NamesInv

(* The clock moves on.                                                       *)
LEMMA TickKeepsNames ==
    ASSUME NamesInv, TypeOK', Tick
    PROVE  NamesInv'
<1>1. name' = name /\ changes' = changes /\ now' = now + 1
    BY DEF Tick, rows
<1>2. now \in Nat /\ \A r \in changes : r.at \in Nat
    BY DEF NamesInv, TypeOK, Change
<1>3. ChangesPast'
    BY <1>1, <1>2 DEF NamesInv, ChangesPast, Exists
<1>4. NamesUnique' /\ RenamesApart' /\ HistoryAgrees' /\ HoldHonoured'
    BY <1>1 DEF NamesInv, NamesUnique, RenamesApart, HistoryAgrees, HoldHonoured, Following, Exists
<1> QED
    BY <1>3, <1>4 DEF NamesInv

LEMMA NamesStep == NamesInv /\ [Next]_vars => NamesInv'
<1> SUFFICES ASSUME NamesInv, [Next]_vars PROVE NamesInv'
    OBVIOUS
<1>0. TypeOK /\ TypeOK'
    BY NextType DEF NamesInv
<1>1. CASE \E n \in Name : Signup(n) \/ CreateAdmin(n)
    BY <1>0, <1>1, InsertKeepsNames DEF Signup, CreateAdmin
<1>2. ASSUME NEW p \in Handler, NEW n \in Name, CreateLinked(p, n), now' = now
      PROVE  NamesInv'
    BY <1>0, <1>2, InsertKeepsNames DEF CreateLinked
<1>3. ASSUME NEW p \in Handler, Claim(p)
      PROVE  NamesInv'
    <2>1. req[p].id \in AccountId /\ req[p].name \in Name
        BY <1>0 DEF TypeOK, Locals
    <2>2. CASE Claimable(req[p].name, req[p].id) /\ Rename(req[p].id, req[p].name)
        BY <1>0, <1>3, <2>1, <2>2, RenameKeepsNames DEF Claim
    <2>3. CASE UNCHANGED <<name, changes>>
        BY <1>0, <1>3, <2>3, QuietStep DEF Claim
    <2> QED
        BY <1>3, <2>2, <2>3 DEF Claim
<1>4. ASSUME NEW p \in Handler, Purge(p)
      PROVE  NamesInv'
    <2>1. req[p].id \in AccountId
        BY <1>0 DEF TypeOK, Locals
    <2> QED
        BY <1>0, <1>4, <2>1, PurgeKeepsNames, QuietStep DEF Purge, rows
<1>5. CASE Tick
    BY <1>0, <1>5, TickKeepsNames
<1>6. CASE UNCHANGED <<name, changes, now>>
    BY <1>0, <1>6, QuietStep
<1>7. ASSUME NEW p \in Handler, Step(p) \/ Request(p)
      PROVE  NamesInv'
    <2>1. CASE Request(p)
        BY <1>6, <2>1 DEF Request, DeleteAccount, ChangeUsername, DiscordStart, DiscordLogin, rows
    <2>2. CASE DiscordCreate(p) \/ DiscordRetry(p)
        <3>1. req[p].name \in Name
            BY <1>0 DEF TypeOK, Locals
        <3> QED
            BY <1>2, <1>6, <2>2, <3>1 DEF DiscordCreate, DiscordRetry, rows
    <2>3. CASE LinkDiscord(p) \/ LoadForRename(p) \/ CountAdmins(p) \/ LoadForDelete(p) \/ Abandon(p)
        BY <1>6, <2>3 DEF LinkDiscord, LoadForRename, CountAdmins, LoadForDelete, Abandon, rows
    <2> QED
        BY <1>3, <1>4, <1>7, <2>1, <2>2, <2>3 DEF Step
<1>8. CASE \E id \in AccountId : DiscordUnlink(id) \/ SetPassword(id)
    BY <1>6, <1>8 DEF DiscordUnlink, SetPassword
<1>9. CASE UNCHANGED vars
    BY <1>6, <1>9 DEF vars, rows
<1> QED
    BY <1>1, <1>5, <1>7, <1>8, <1>9 DEF Next

LEMMA NamesInit == Init => NamesInv
<1> SUFFICES ASSUME Init PROVE NamesInv
    OBVIOUS
<1>1. TypeOK
    BY InitType
<1>2. NamesUnique
    BY DEF Init, NamesUnique, Exists
<1>3. ChangesPast /\ RenamesApart /\ HistoryAgrees /\ HoldHonoured
    BY DEF Init, ChangesPast, RenamesApart, HistoryAgrees, HoldHonoured
<1> QED
    BY <1>1, <1>2, <1>3 DEF NamesInv

(* The invariant holds of every behaviour.                                   *)
THEOREM NamesInductive == Spec => []NamesInv
BY NamesInit, NamesStep, PTL DEF Spec

(* The username history agrees with the account table.                       *)
THEOREM HistoryCorrect == Spec => []HistoryAgrees
<1>1. NamesInv => HistoryAgrees
    BY DEF NamesInv
<1> QED
    BY <1>1, NamesInductive, PTL

(* Two renames of one account are at least a cooldown apart.                 *)
THEOREM CooldownCorrect == Spec => []RenamesApart
<1>1. NamesInv => RenamesApart
    BY DEF NamesInv
<1> QED
    BY <1>1, NamesInductive, PTL

(* No rename takes a name within the hold of a release of it.                *)
THEOREM HoldCorrect == Spec => []HoldHonoured
<1>1. NamesInv => HoldHonoured
    BY DEF NamesInv
<1> QED
    BY <1>1, NamesInductive, PTL

(* Of the releases of a name within the hold one is the last.                *)
LEMMA LastRelease ==
    ASSUME TypeOK, ChangesPast, NEW n \in Name, Releases(n) # {}
    PROVE  \E s \in Releases(n) : \A t \in Releases(n) : t.at <= s.at
<1> DEFINE Ages == {a \in Nat : \E r \in Releases(n) : a = now - r.at}
<1>1. now \in Nat /\ \A r \in Releases(n) : r.at \in Nat /\ r.at <= now
    BY DEF TypeOK, Change, Releases, ChangesPast
<1>2. \A r \in Releases(n) : now - r.at \in Ages
    BY <1>1
<1>3. Ages \in SUBSET Nat /\ Ages # {}
    BY <1>2
<1> HIDE DEF Ages
<1>4. PICK least \in Ages : \A a \in Ages : ~(<<a, least>> \in OpToRel(<, Nat))
    BY <1>3, NatLessThanWellFounded, WFMin
<1>5. \A a \in Ages : ~(a < least)
    BY <1>3, <1>4 DEF OpToRel
<1>6. PICK s \in Releases(n) : least = now - s.at
    BY <1>4 DEF Ages
<1>7. \A t \in Releases(n) : t.at <= s.at
    BY <1>1, <1>2, <1>5, <1>6
<1> QED
    BY <1>7

(* The hint promises a name that claim refuses to nobody but an account in   *)
(* its cooldown: a name with a release within the hold has a last one, and   *)
(* either it is another's, which the hint reports, or the account's own,     *)
(* which is still cooling.                                                   *)
THEOREM HintCorrect == Spec => []HintWrongOnlyInCooldown
<1>1. ASSUME NamesInv, NEW n \in Name \ Reserved, NEW id \in AccountId, Exists(id)
      PROVE  /\ Available(n, id) /\ ~Claimable(n, id) => Cooling(id)
             /\ Claimable(n, id) => Available(n, id)
    <2>1. TypeOK /\ ChangesPast /\ n \in Name
        BY <1>1 DEF NamesInv
    <2>2. ASSUME Claimable(n, id) PROVE Available(n, id)
        <3>1. Releases(n) = {}
            BY <2>1, <2>2, ClaimedNamesAreUnreleased
        <3>2. LastHolders(n) = {}
            BY <3>1 DEF LastHolders
        <3> QED
            BY <1>1, <2>2, <3>2 DEF Available, Claimable
    <2>3. ASSUME Available(n, id), ~Cooling(id) PROVE Claimable(n, id)
        <3>1. ~Taken(n) /\ n # name[id]
            BY <1>1, <2>3 DEF Available, Taken
        <3>2. ASSUME Releases(n) # {} PROVE FALSE
            <4>1. PICK s \in Releases(n) : \A t \in Releases(n) : t.at <= s.at
                BY <2>1, <3>2, LastRelease
            <4>2. s.by = id
                BY <2>3, <4>1 DEF Available, LastHolders
            <4>3. s \in changes /\ s.at + Hold > now /\ s.at \in Nat /\ now \in Nat
                BY <2>1, <4>1 DEF Releases, TypeOK, Change
            <4>4. s.at + Cooldown > now
                BY <4>3, DaysAssumption
            <4> QED
                BY <2>3, <4>2, <4>3, <4>4 DEF Cooling
        <3> QED
            BY <1>1, <2>3, <3>1, <3>2 DEF Claimable, FreeFor
    <2> QED
        BY <2>2, <2>3
<1>2. NamesInv => HintWrongOnlyInCooldown
    BY <1>1 DEF HintWrongOnlyInCooldown
<1> QED
    BY <1>2, NamesInductive, PTL
=============================================================================
