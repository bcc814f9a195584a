-------------------------------- MODULE Paste --------------------------------
(***************************************************************************)
(* The paste and paste_revision tables and the handlers over them: create, *)
(* edit, fork, delete, reveal and the hourly reaper.  Every handler loads  *)
(* the paste first and acts on what it loaded later, so each is several    *)
(* actions with the database free for the others in between.               *)
(*                                                                         *)
(* A reader without the password of an encrypted paste is turned away      *)
(* before anything changes, and every body of a paste is sealed under the  *)
(* same key, so encryption is left out.  So are the reads that only add to *)
(* the view counter: they pass the same gate as a fork does.               *)
(***************************************************************************)
EXTENDS Integers, Sequences, FiniteSets, FiniteSetsExt

CONSTANTS
    Handler,      \* the request handlers that may be in flight together
    Account,      \* the accounts there are to begin with
    Admin,        \* those with the admin flag
    Stranger,     \* whoever is not signed in
    Body,         \* the contents of a paste
    Leaking,      \* the bodies with a critical finding of the secret scanner
    Size,         \* the size of each body
    Asked,        \* the times to live an author may ask for
    Never,        \* no expiry
    NoPaste,      \* a paste id with no row
    AccountLimit, \* config: account_limit
    AccountBytes, \* config: account_max_total_bytes
    AnonymousTtl, \* config: anonymous_ttl_days, in ticks of the clock
    MaxTtl,       \* MAX_TTL_SECS, in ticks
    RevisionCap,  \* REVISION_CAP
    MaxPaste,     \* bound: paste ids are 1..MaxPaste
    MaxRevision,  \* bound: no edit starts on a paste with this many revisions
    MaxMiss,      \* bound: creations that a failed count lets an account have
    MaxTime       \* bound: the last tick of the clock

PasteId == 1..MaxPaste
NoParent == 0
Author == Account \cup {Stranger}
Row == [owner: Author, body: Body, burn: BOOLEAN, expires: Nat \cup {Never},
        parent: 0..MaxPaste]

ASSUME AuthorAssumption == Stranger \notin Account /\ Admin \subseteq Account
ASSUME BodyAssumption == Body # {} /\ Leaking \subseteq Body /\ Size \in [Body -> Nat]
ASSUME TtlAssumption == /\ Never \notin Nat /\ Asked \subseteq (Nat \ {0}) \cup {Never}
                        /\ AnonymousTtl \in Nat \ {0} /\ MaxTtl \in Nat \ {0}
ASSUME LimitAssumption == /\ AccountLimit \in Nat \ {0} /\ AccountBytes \in Nat
                          /\ RevisionCap \in Nat \ {0}
ASSUME RowAssumption == NoPaste \notin Row
ASSUME HandlerAssumption == IsFiniteSet(Handler) /\ Handler # {}
ASSUME BoundAssumption == /\ MaxPaste \in Nat \ {0} /\ MaxRevision \in Nat
                          /\ MaxMiss \in Nat /\ MaxTime \in Nat

VARIABLES
    paste,      \* paste: a row or NoPaste
    revisions,  \* paste_revision: the bodies kept of each paste, oldest first
    minted,     \* how many ids get_new_image_id has given out
    now,        \* the clock
    pc, req,    \* where each handler is, and its locals
    shown,      \* how often a burn-after-read body was handed to a reader
    past,       \* the bodies each paste has had before its present one
    missed      \* history: each account's creations over the quota that were let
                \* through because the count had failed

tables == <<paste, revisions, minted, past>>
local == <<pc, req>>
vars == <<tables, now, local, shown, missed>>

-----------------------------------------------------------------------------
Live(id) == paste[id] # NoPaste
Expired(row) == row.expires # Never /\ row.expires <= now

(* load: every read of a row asks that it has not expired. *)
Loaded(id) == Live(id) /\ ~Expired(paste[id])

Owned(a) == {id \in PasteId : Live(id) /\ paste[id].owner = a}
Bytes(a) == MapThenSumSet(LAMBDA id : Size[paste[id].body], Owned(a))

(* may_modify: an admin, the owner, or the holder of a stranger's edit      *)
(* token, who may be anyone.                                                *)
MayModify(by, row) == by \in Admin \/ row.owner \in {by, Stranger}

(* usage: what an account has stored; a query that fails counts as nothing. *)
Usage(a) == [count |-> Cardinality(Owned(a)), bytes |-> Bytes(a)]
NoUsage == [count |-> 0, bytes |-> 0]

HasRoomAtLimit(used, body) ==  \* mutant: one more than the limit
    used.count <= AccountLimit /\ used.bytes + Size[body] <= AccountBytes

HasRoom(used, body) ==
    used.count < AccountLimit /\ used.bytes + Size[body] <= AccountBytes

(* check_quota, which strangers do not come to, on a true count or a failed *)
(* one.                                                                     *)
Admitted(by, body) ==
    \/ /\ by \in Admin \cup {Stranger} \/ HasRoom(Usage(by), body)
       /\ UNCHANGED missed
    \/ /\ by \in Account \ Admin
       /\ ~HasRoom(Usage(by), body) /\ HasRoom(NoUsage, body)
       /\ missed[by] < MaxMiss
       /\ missed' = [missed EXCEPT ![by] = @ + 1]

(* check_for_secrets: an account may confirm, a stranger's paste may not leak. *)
MayLeak(body, owner) == body \in Leaking => owner # Stranger

Least(a, b) == IF a <= b THEN a ELSE b

(* resolve_expiry *)
Expiry(asked, owner) ==
    IF owner # Stranger /\ asked = Never THEN Never
    ELSE now + Least(MaxTtl,
                     IF owner # Stranger THEN asked
                     ELSE IF asked = Never THEN AnonymousTtl
                     ELSE Least(asked, AnonymousTtl))

(* resolve_body: a burn-after-read paste is sealed to every plain read. *)
Readable(row) == ~row.burn

NewRow(owner, body, burn, expires, parent) ==
    [owner |-> owner, body |-> body, burn |-> burn, expires |-> expires, parent |-> parent]

Orphan(row) == NewRow(row.owner, row.body, row.burn, row.expires, NoParent)
Edited(row, body, expires) == NewRow(row.owner, body, row.burn, expires, row.parent)

(* DELETE FROM paste: revisions go with the row, forks lose their parent. *)
Remove(ids) ==
    /\ paste' = [id \in PasteId |->
                   IF id \in ids \/ ~Live(id) THEN NoPaste
                   ELSE IF paste[id].parent \in ids THEN Orphan(paste[id])
                   ELSE paste[id]]
    /\ revisions' = [id \in PasteId |-> IF id \in ids THEN <<>> ELSE revisions[id]]
    /\ past' = [id \in PasteId |-> IF id \in ids THEN {} ELSE past[id]]
    /\ UNCHANGED minted

-----------------------------------------------------------------------------
Place == {"idle", "check", "insert", "edit", "burn", "show"}
Locals == [id: PasteId, was: Body, row: Row]

Ask(id, was, row) == [id |-> id, was |-> was, row |-> row]

SomeBody == CHOOSE b \in Body : TRUE
BlankRow == NewRow(Stranger, SomeBody, FALSE, Never, NoParent)
Blank == Ask(1, SomeBody, BlankRow)

Start(p, place, locals) ==
    /\ pc[p] = "idle"
    /\ pc' = [pc EXCEPT ![p] = place]
    /\ req' = [req EXCEPT ![p] = locals]

Goto(p, from, place) ==
    /\ pc[p] = from
    /\ pc' = [pc EXCEPT ![p] = place]

(* The handler has answered; its locals are gone. *)
Finish(p, from) == Goto(p, from, "idle") /\ req' = [req EXCEPT ![p] = Blank]

(* create, up to the INSERT. *)
Create(p, by, body, burn, asked) ==
    /\ MayLeak(body, by) /\ Admitted(by, body)
    /\ Start(p, "insert",
             Ask(1, SomeBody, NewRow(by, body, burn, Expiry(asked, by), NoParent)))
    /\ UNCHANGED <<tables, now, shown>>

(* fork: the plaintext of any readable paste ... *)
Fork(p, by, id) ==
    /\ Loaded(id) /\ Readable(paste[id])
    /\ Start(p, "check",
             Ask(1, SomeBody, NewRow(by, paste[id].body, FALSE, Never, id)))
    /\ shown' = [shown EXCEPT ![id] = IF paste[id].burn THEN @ + 1 ELSE @]
    /\ UNCHANGED <<tables, now, missed>>

(* ... then create, without a lifetime and without a confirmation. *)
ForkCheck(p) ==
    LET row == req[p].row IN
    /\ row.body \notin Leaking /\ Admitted(row.owner, row.body)
    /\ Goto(p, "check", "insert")
    /\ req' = [req EXCEPT ![p] =
                  Ask(1, SomeBody, Edited(row, row.body, Expiry(Never, row.owner)))]
    /\ UNCHANGED <<tables, now, shown>>

(* The INSERT, under the foreign key on the parent. *)
Insert(p) ==
    LET row == req[p].row
        id == minted + 1
    IN
    /\ Finish(p, "insert")
    /\ id \in PasteId
    /\ row.parent # NoParent => Live(row.parent)
    /\ paste' = [paste EXCEPT ![id] = row]
    /\ minted' = id
    /\ UNCHANGED <<revisions, past, now, shown, missed>>

(* load_for and the checks of edit: the handler keeps the body it loaded    *)
(* and what it is to be replaced with.                                      *)
StartEdit(p, id, body, expires) ==
    /\ Len(revisions[id]) < MaxRevision
    /\ Start(p, "edit", Ask(id, paste[id].body, Edited(BlankRow, body, expires)))
    /\ UNCHANGED <<tables, now, shown, missed>>

EditConfirmed(p, by, id, body, asked) ==  \* mutant: the editor confirms the secret
    /\ Loaded(id) /\ MayModify(by, paste[id])
    /\ MayLeak(body, by)
    /\ StartEdit(p, id, body, Expiry(asked, paste[id].owner))

Edit(p, by, id, body, asked) ==
    /\ Loaded(id) /\ MayModify(by, paste[id])
    /\ MayLeak(body, paste[id].owner)
    /\ StartEdit(p, id, body, Expiry(asked, paste[id].owner))

(* The transaction of edit.  Without the paste the revision has no parent   *)
(* row, and nothing is written.                                             *)
Rewrite(id, revision, row) ==
    /\ Live(id)
    /\ revisions' = [revisions EXCEPT ![id] = Append(@, revision)]
    /\ paste' = [paste EXCEPT ![id] = Edited(paste[id], row.body, row.expires)]
    /\ past' = [past EXCEPT ![id] = @ \cup {paste[id].body}]
    /\ UNCHANGED minted

EditCommitDraft(p) ==  \* mutant: the revision is the new body
    /\ Finish(p, "edit")
    /\ Rewrite(req[p].id, req[p].row.body, req[p].row)
    /\ UNCHANGED <<now, shown, missed>>

(* The loaded body becomes the revision, whatever the paste holds by now. *)
EditCommit(p) ==
    /\ Finish(p, "edit")
    /\ Rewrite(req[p].id, req[p].was, req[p].row)
    /\ UNCHANGED <<now, shown, missed>>

(* delete, and each paste of an account that is deleted.  Nothing of the    *)
(* row is used after the load, so the load and the DELETE are one step.     *)
Delete(by, id) ==
    /\ Loaded(id) /\ MayModify(by, paste[id])
    /\ Remove({id})
    /\ UNCHANGED <<now, local, shown, missed>>

(* reveal: the load that decides whether there is something to burn. *)
Reveal(p, id) ==
    /\ Loaded(id) /\ paste[id].burn
    /\ Start(p, "burn", Ask(id, SomeBody, BlankRow))
    /\ UNCHANGED <<tables, now, shown, missed>>

BurnLoaded(p) ==  \* mutant: the loaded row is shown, whoever deleted it
    /\ Goto(p, "burn", "show")
    /\ Remove({req[p].id})
    /\ UNCHANGED <<req, now, shown, missed>>

(* DELETE ... RETURNING: only the request that deletes the row goes on. *)
Burn(p) ==
    /\ Goto(p, "burn", "show")
    /\ Loaded(req[p].id)
    /\ Remove({req[p].id})
    /\ UNCHANGED <<req, now, shown, missed>>

(* burned: the page with the body. *)
Show(p) ==
    /\ Finish(p, "show")
    /\ shown' = [shown EXCEPT ![req[p].id] = @ + 1]
    /\ UNCHANGED <<tables, now, missed>>

(* A handler answers without having written anything: the quota or the      *)
(* scanner refuses, the row is gone, the database fails, a page cannot be   *)
(* rendered, the client goes away or the process stops.                     *)
Fail(p) ==
    /\ pc[p] # "idle"
    /\ Finish(p, pc[p])
    /\ UNCHANGED <<tables, now, shown, missed>>

-----------------------------------------------------------------------------
(* The reaper's statements over the tables.  It runs them in turn, for ever *)
(* and with nothing carried from one to the next; where one would find      *)
(* nothing to do there is no step.                                          *)
Overdue == {id \in PasteId : Live(id) /\ Expired(paste[id])}

ReapOwned ==  \* mutant: the pastes of strangers are left
    LET overdue == {id \in Overdue : paste[id].owner # Stranger} IN
    /\ overdue # {}
    /\ Remove(overdue)
    /\ UNCHANGED <<now, local, shown, missed>>

Reap ==
    /\ Overdue # {}
    /\ Remove(Overdue)
    /\ UNCHANGED <<now, local, shown, missed>>

Newest(s) == SubSeq(s, (IF Len(s) <= RevisionCap THEN 1 ELSE Len(s) - RevisionCap + 1), Len(s))

Prune ==
    /\ \E id \in PasteId : Len(revisions[id]) > RevisionCap
    /\ revisions' = [id \in PasteId |-> Newest(revisions[id])]
    /\ UNCHANGED <<paste, minted, past, now, local, shown, missed>>

Tick ==
    /\ now < MaxTime
    /\ now' = now + 1
    /\ UNCHANGED <<tables, local, shown, missed>>

-----------------------------------------------------------------------------
Init ==
    /\ paste = [id \in PasteId |-> NoPaste]
    /\ revisions = [id \in PasteId |-> <<>>]
    /\ minted = 0
    /\ now = 0
    /\ pc = [p \in Handler |-> "idle"]
    /\ req = [p \in Handler |-> Blank]
    /\ shown = [id \in PasteId |-> 0]
    /\ past = [id \in PasteId |-> {}]
    /\ missed = [a \in Account |-> 0]

Request(p) ==
    \/ \E by \in Author, body \in Body, burn \in BOOLEAN, asked \in Asked :
          Create(p, by, body, burn, asked)
    \/ \E by \in Author, id \in PasteId : Fork(p, by, id)
    \/ \E by \in Author, id \in PasteId, body \in Body, asked \in Asked :
          Edit(p, by, id, body, asked)
    \/ \E id \in PasteId : Reveal(p, id)

Continue(p) ==
    \/ ForkCheck(p) \/ Insert(p) \/ EditCommit(p)
    \/ Burn(p) \/ Show(p) \/ Fail(p)

Next ==
    \/ \E p \in Handler : Request(p) \/ Continue(p)
    \/ Reap \/ Prune \/ Tick
    \/ \E by \in Author, id \in PasteId : Delete(by, id)

Spec == Init /\ [][Next]_vars

(* spawn_paste_reaper loops for as long as the process runs. *)
FairSpec == Spec /\ WF_vars(Reap)

-----------------------------------------------------------------------------
(* What is stored and held has the shape the code gives it. *)
TypeOK ==
    /\ paste \in [PasteId -> Row \cup {NoPaste}]
    /\ revisions \in [PasteId -> Seq(Body)]
    /\ past \in [PasteId -> SUBSET Body]
    /\ minted \in 0..MaxPaste
    /\ now \in 0..MaxTime
    /\ pc \in [Handler -> Place]
    /\ req \in [Handler -> Locals]
    /\ shown \in [PasteId -> Nat]
    /\ missed \in [Account -> 0..MaxMiss]

(* A revision is a body the paste really had and has lost: edit writes it   *)
(* from the row it loaded, in the transaction that replaces the body.       *)
RevisionsWereBodies ==
    \A id \in PasteId : \A i \in DOMAIN revisions[id] : revisions[id][i] \in past[id]

(* The creations of an account in flight that have passed the quota. *)
Pending(a) == {p \in Handler : pc[p] = "insert" /\ req[p].row.owner = a}

(* The quota is counted before the insert, and a count that fails refuses   *)
(* nothing.  An account passes its quota by no more than the other handlers *)
(* that were in flight and the creations a failed count has let through;    *)
(* with counts that succeed, none is let through above the quota.           *)
QuotaNearlyKept ==
    \A a \in Account \ Admin :
        Cardinality(Owned(a)) + Cardinality(Pending(a))
            <= AccountLimit + Cardinality(Handler) - 1 + missed[a]

(* What a stranger published expires, no later than anonymous_ttl_days from *)
(* now, whoever edits it and whatever lifetime they ask for.                *)
StrangersExpire ==
    \A id \in PasteId : Live(id) /\ paste[id].owner = Stranger =>
        /\ paste[id].expires # Never
        /\ paste[id].expires <= now + AnonymousTtl

(* A stranger's paste never holds a secret, in its body or its revisions,   *)
(* whichever of create, fork and edit put it there and for whom.            *)
StrangersNeverLeak ==
    \A id \in PasteId : Live(id) /\ paste[id].owner = Stranger =>
        /\ paste[id].body \notin Leaking
        /\ \A i \in DOMAIN revisions[id] : revisions[id][i] \notin Leaking

(* The body of a burn-after-read paste reaches at most one reader, and only *)
(* after the paste has left the store for good: reveal against reveal,      *)
(* edit, fork, delete and the reaper.                                       *)
Taken(id) == \E p \in Handler : pc[p] = "show" /\ req[p].id = id

PasteStatus == [id \in PasteId |->
    IF id > minted THEN "unborn"
    ELSE IF Live(id) THEN "kept"
    ELSE IF Taken(id) THEN "owed"
    ELSE "gone"]

Promise == INSTANCE BurnOnce WITH Item <- PasteId, status <- PasteStatus

ReadOnce == Promise!Spec

(* Once it has expired, a paste is gone or its author has given it a new    *)
(* lifetime before long: the reaper misses none.                            *)
ExpiredEndUp == \A id \in PasteId : id \in Overdue ~> id \notin Overdue
=============================================================================
