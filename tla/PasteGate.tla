------------------------------- MODULE PasteGate -------------------------------
(***************************************************************************)
(* Who gets to see the body of a paste: the password of an encrypted one,  *)
(* the seal of a burn-after-read one, the unlock cookie, and the routes    *)
(* that answer with a body.  Module Paste has what the handlers write.     *)
(*                                                                         *)
(* A handler decides from the row it loaded and answers later, with the    *)
(* row in other hands.  Whether a paste is encrypted or sealed never       *)
(* changes once it is stored, and an edit seals the new body under the     *)
(* same key, so a row is its two flags.  A password is right or wrong.     *)
(***************************************************************************)
EXTENDS Integers, FiniteSets

CONSTANTS
    Handler,   \* the request handlers that may be in flight together
    Reader,    \* the browsers and API clients
    Author,    \* those who may modify a paste: its owner, a token holder, an admin
    PasteId,   \* the ids of pastes
    Unborn,    \* an id not given out yet
    Gone,      \* an id whose row has been deleted, burned or reaped
    NoRequest, \* the locals of an idle handler
    Never,     \* no time
    UnlockTtl, \* UNLOCK_TTL_SECS, in ticks of the clock
    MaxViews,  \* bound: no view starts of a paste opened this often
    MaxTime    \* bound: the last tick of the clock

Kind == [locked: BOOLEAN, burn: BOOLEAN]

ASSUME HandlerAssumption == IsFiniteSet(Handler)
ASSUME ReaderAssumption == Author \subseteq Reader
ASSUME StatusAssumption == Unborn \notin Kind /\ Gone \notin Kind /\ Unborn # Gone
ASSUME TtlAssumption == UnlockTtl \in Nat \ {0} /\ Never \notin Nat
ASSUME BoundAssumption == MaxViews \in Nat /\ MaxTime \in Nat

VARIABLES
    paste,   \* the kind of each paste, Unborn or Gone
    views,   \* its view counter
    jar,     \* the unlock cookies each reader has kept, out of date or not
    now,     \* the clock
    pc, req, \* where each handler is, and its locals
    opened,  \* how often the viewer decided to show a body
    proof    \* when each reader last gave the right password of each paste

vars == <<paste, views, jar, now, pc, req, opened, proof>>
store == <<paste, views>>
ghosts == <<opened, proof>>

-----------------------------------------------------------------------------
Live(id) == paste[id] \in Kind

(* sign_unlock *)
Claim(id) == [id |-> id, exp |-> now + UnlockTtl]

(* verify_unlock: a claim for another paste, or one too old, opens nothing. *)
Opens(c, id) == c.id = id /\ c.exp > now

(* resolve_body, for a plain read. *)
Resolved(r, id) ==
    IF paste[id].burn THEN "sealed"
    ELSE IF paste[id].locked => \E c \in jar[r] : Opens(c, id) THEN "plain"
    ELSE "locked"

ApiBodyUnsealed(id, right) == paste[id].locked => right  \* mutant: the seal is not asked for

(* body_for: never the body of a sealed paste, and of an encrypted one only *)
(* for the password.                                                        *)
ApiBody(id, right) == ~paste[id].burn /\ (paste[id].locked => right)

-----------------------------------------------------------------------------
Place == {"idle", "count", "burn", "page", "burned"}
Locals == [id: PasteId, reader: Reader, kind: Kind, at: Nat]

ASSUME RequestAssumption == NoRequest \notin Locals

(* The handler keeps the row it loaded and goes on to the given place. *)
Load(p, r, id, place) ==
    /\ pc[p] = "idle"
    /\ pc' = [pc EXCEPT ![p] = place]
    /\ req' = [req EXCEPT ![p] = [id |-> id, reader |-> r, kind |-> paste[id], at |-> now]]

Finish(p, from) ==
    /\ pc[p] = from
    /\ pc' = [pc EXCEPT ![p] = "idle"]
    /\ req' = [req EXCEPT ![p] = NoRequest]

(* Deleted, burned or reaped; its counters go with the row. *)
Remove(id) ==
    /\ paste' = [paste EXCEPT ![id] = Gone]
    /\ views' = [views EXCEPT ![id] = 0]
    /\ opened' = [opened EXCEPT ![id] = 0]

Proved(r, id, right) ==
    proof' = IF right /\ paste[id].locked THEN [proof EXCEPT ![r] = [@ EXCEPT ![id] = now]]
             ELSE proof

(* create, from the editor, from curl and from the API: the form, the query *)
(* or the body says whether the paste is sealed and encrypted.              *)
Create(id, kind) ==
    /\ paste[id] = Unborn
    /\ paste' = [paste EXCEPT ![id] = kind]
    /\ UNCHANGED <<views, jar, now, pc, req, ghosts>>

ViewCountsGates(p, r, id) ==  \* mutant: whatever is shown is counted
    /\ Live(id) /\ opened[id] < MaxViews
    /\ Load(p, r, id, "count")
    /\ opened' = [opened EXCEPT ![id] = IF Resolved(r, id) = "plain" THEN @ + 1 ELSE @]
    /\ UNCHANGED <<store, jar, now, proof>>

(* view, up to the counter: a gate is shown and nothing counted unless the  *)
(* body is.                                                                 *)
View(p, r, id) ==
    /\ Live(id) /\ Resolved(r, id) = "plain" /\ opened[id] < MaxViews
    /\ Load(p, r, id, "count")
    /\ opened' = [opened EXCEPT ![id] = @ + 1]
    /\ UNCHANGED <<store, jar, now, proof>>

(* count_view: an UPDATE, of no row if the paste is gone by now. *)
CountView(p) ==
    /\ pc[p] = "count"
    /\ pc' = [pc EXCEPT ![p] = "page"]
    /\ views' = IF Live(req[p].id) THEN [views EXCEPT ![req[p].id] = @ + 1] ELSE views
    /\ UNCHANGED <<paste, jar, now, req, ghosts>>

(* raw and .txt, embed, history, and the web's fork, which copies the body. *)
Read(p, r, id) ==
    /\ Live(id) /\ Resolved(r, id) = "plain"
    /\ Load(p, r, id, "page")
    /\ UNCHANGED <<store, jar, now, ghosts>>

(* og_image: the first lines of a body that no gate is before; a cookie is  *)
(* not asked for.                                                           *)
Card(p, r, id) ==
    /\ Live(id) /\ ~paste[id].locked /\ ~paste[id].burn
    /\ Load(p, r, id, "page")
    /\ UNCHANGED <<store, jar, now, ghosts>>

(* edit_form: a paste is sealed to readers, its author may still edit it,   *)
(* but an encrypted sealed one has no text.                                 *)
EditForm(p, r, id) ==
    /\ Live(id) /\ r \in Author
    /\ \/ Resolved(r, id) = "plain"
       \/ Resolved(r, id) = "sealed" /\ ~paste[id].locked
    /\ Load(p, r, id, "page")
    /\ UNCHANGED <<store, jar, now, ghosts>>

(* get, create's answer and list, where there is no password, for the       *)
(* author; fork for anyone.                                                 *)
ApiRead(p, r, id, right) ==
    /\ Live(id) /\ ApiBody(id, right)
    /\ Load(p, r, id, "page")
    /\ Proved(r, id, right)
    /\ UNCHANGED <<store, jar, now, opened>>

(* update: the password opens the old body before the new one is sealed,    *)
(* and the answer is by body_for again.                                     *)
ApiUpdate(p, r, id, right) ==
    /\ Live(id) /\ r \in Author
    /\ paste[id].locked => right
    /\ IF ApiBody(id, right) THEN Load(p, r, id, "page") ELSE UNCHANGED <<pc, req>>
    /\ Proved(r, id, right)
    /\ UNCHANGED <<store, jar, now, opened>>

(* list_revisions: of an encrypted paste there is only ciphertext. *)
ApiRevisions(p, r, id) ==
    /\ Live(id) /\ r \in Author /\ ~paste[id].locked
    /\ Load(p, r, id, "page")
    /\ UNCHANGED <<store, jar, now, ghosts>>

(* delete on the API answers with the body of the row it deleted. *)
ApiDelete(p, r, id) ==
    /\ Live(id) /\ r \in Author
    /\ IF ApiBody(id, FALSE) THEN Load(p, r, id, "page") ELSE UNCHANGED <<pc, req>>
    /\ Remove(id)
    /\ UNCHANGED <<jar, now, proof>>

(* unlock: the right password puts a claim into the reader's jar. *)
Unlock(r, id) ==
    /\ Live(id) /\ paste[id].locked
    /\ jar' = [jar EXCEPT ![r] = @ \cup {Claim(id)}]
    /\ Proved(r, id, TRUE)
    /\ UNCHANGED <<store, now, pc, req, opened>>

RevealUnasked(p, r, id, right) ==  \* mutant: burned first, opened afterwards
    /\ Live(id) /\ paste[id].burn
    /\ Load(p, r, id, "burn")
    /\ Proved(r, id, right)
    /\ UNCHANGED <<store, jar, now, opened>>

(* reveal: the password is asked for before anything is destroyed; the      *)
(* unlock cookie does not stand in for it.                                  *)
Reveal(p, r, id, right) ==
    /\ Live(id) /\ paste[id].burn
    /\ paste[id].locked => right
    /\ Load(p, r, id, "burn")
    /\ Proved(r, id, right)
    /\ UNCHANGED <<store, jar, now, opened>>

(* burn: the DELETE ... RETURNING that one of the reveals wins. *)
Burn(p) ==
    /\ pc[p] = "burn" /\ Live(req[p].id)
    /\ pc' = [pc EXCEPT ![p] = "burned"]
    /\ Remove(req[p].id)
    /\ UNCHANGED <<jar, now, req, proof>>

(* The page, the download, the JSON or the fork is out. *)
Answer(p) ==
    /\ \E place \in {"page", "burned"} : Finish(p, place)
    /\ UNCHANGED <<store, jar, now, ghosts>>

(* The reveal lost its race, or the client went away. *)
Fail(p) ==
    /\ \E place \in {"count", "burn"} : Finish(p, place)
    /\ UNCHANGED <<store, jar, now, ghosts>>

(* delete on the web, the reaper, and an expiry, after which load finds no row. *)
Discard(id) ==
    /\ Live(id)
    /\ Remove(id)
    /\ UNCHANGED <<jar, now, pc, req, proof>>

Tick ==
    /\ now < MaxTime
    /\ now' = now + 1
    /\ UNCHANGED <<store, jar, pc, req, ghosts>>

-----------------------------------------------------------------------------
Init ==
    /\ paste = [id \in PasteId |-> Unborn]
    /\ views = [id \in PasteId |-> 0]
    /\ jar = [r \in Reader |-> {}]
    /\ now = 0
    /\ pc = [p \in Handler |-> "idle"]
    /\ req = [p \in Handler |-> NoRequest]
    /\ opened = [id \in PasteId |-> 0]
    /\ proof = [r \in Reader |-> [id \in PasteId |-> Never]]

Request(p, r, id) ==
    \/ View(p, r, id) \/ Read(p, r, id) \/ Card(p, r, id) \/ EditForm(p, r, id)
    \/ ApiRevisions(p, r, id) \/ ApiDelete(p, r, id)
    \/ \E right \in BOOLEAN :
          ApiRead(p, r, id, right) \/ ApiUpdate(p, r, id, right) \/ Reveal(p, r, id, right)

Next ==
    \/ \E p \in Handler :
          \/ \E r \in Reader, id \in PasteId : Request(p, r, id)
          \/ CountView(p) \/ Burn(p) \/ Answer(p) \/ Fail(p)
    \/ \E r \in Reader, id \in PasteId : Unlock(r, id)
    \/ \E id \in PasteId : Discard(id) \/ \E kind \in Kind : Create(id, kind)
    \/ Tick

Spec == Init /\ [][Next]_vars

-----------------------------------------------------------------------------
(* What is stored, kept by readers and held has the shape the code gives it. *)
TypeOK ==
    /\ paste \in [PasteId -> Kind \cup {Unborn, Gone}]
    /\ views \in [PasteId -> Nat]
    /\ jar \in [Reader -> SUBSET [id: PasteId, exp: Nat]]
    /\ now \in 0..MaxTime
    /\ pc \in [Handler -> Place]
    /\ req \in [Handler -> Locals \cup {NoRequest}]
    /\ \A p \in Handler : req[p] = NoRequest <=> pc[p] = "idle"
    /\ opened \in [PasteId -> Nat]
    /\ proof \in [Reader -> [PasteId -> Nat \cup {Never}]]

Holds(p) == pc[p] \in {"count", "page", "burned"}

(* No route is a way around the password: whoever holds the body of an      *)
(* encrypted paste, or took it out of the store by a reveal, gave its       *)
(* password no longer than UNLOCK_TTL_SECS before the row was loaded.       *)
LockHolds ==
    \A p \in Handler : Holds(p) /\ req[p].kind.locked =>
        LET t == proof[req[p].reader][req[p].id] IN t \in Nat /\ req[p].at < t + UnlockTtl

(* No route is a way around the burn: a reader who may not modify a sealed  *)
(* paste holds its body only after the store has let go of it.              *)
SealHolds ==
    \A p \in Handler : Holds(p) /\ req[p].kind.burn /\ req[p].reader \notin Author =>
        pc[p] = "burned" /\ paste[req[p].id] = Gone

(* "A locked or sealed paste is never counted as read": the counter never   *)
(* exceeds the bodies the viewer has let through, less those whose count is *)
(* still to come.                                                           *)
ViewsAreReads ==
    \A id \in PasteId : Live(id) =>
        views[id] + Cardinality({p \in Handler : pc[p] = "count" /\ req[p].id = id}) <= opened[id]
=============================================================================
