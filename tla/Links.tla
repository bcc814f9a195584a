-------------------------------- MODULE Links --------------------------------
(***************************************************************************)
(* Short links: the short_link table, the handlers of the /links page and  *)
(* of the API that create, edit and delete links, the redirect that counts *)
(* clicks, and a client that walks the API's list page by page.  A handler *)
(* takes one SQL statement per action; the statement that a request begins *)
(* with is part of its arrival.                                            *)
(*                                                                         *)
(* A link is its id.  Where it points and what an alias is spelled like is *)
(* left out: a request that normalize_target or validate_code refuses      *)
(* changes nothing, and a write shows in who wrote last.                   *)
(***************************************************************************)
EXTENDS Integers, FiniteSets

CONSTANTS
    Handler,         \* the requests that may be in flight together
    Account,         \* account ids; one that is deleted may be given out again
    Admin,           \* the accounts with the admin flag
    Nobody,          \* whoever follows a short link
    Code,            \* codes and aliases
    NoCode,          \* no cursor, and an id that is not in the table
    FreeLinkLimit,   \* FREE_LINK_LIMIT
    PageLimit,       \* the page size the walking client asks for
    MaxLink,         \* bound: link ids are 1..MaxLink
    MaxVisit,        \* bound: redirects through one link
    MaxMiss          \* bound: creations that a failed count lets an account have

LinkId == 1..MaxLink

ASSUME HandlerAssumption == IsFiniteSet(Handler) /\ Handler # {}
ASSUME AccountAssumption == Admin \subseteq Account /\ Nobody \notin Account
ASSUME CodeAssumption == NoCode \notin Code
ASSUME LimitAssumption == FreeLinkLimit \in Nat /\ PageLimit \in Nat \ {0}
ASSUME BoundAssumption == MaxLink \in Nat \ {0} /\ MaxVisit \in Nat /\ MaxMiss \in Nat

VARIABLES
    accounts,       \* the accounts there are
    code, owner,    \* the table: each link's code, its account_id,
    created,        \* its created_at
    clicks,         \* and its clicks
    minted,         \* the sequence AUTOINCREMENT counts
    pc,             \* where each handler is
    who,            \* the account it acts for
    link,           \* the link it loaded
    paging,         \* whether the client is walking, and through
    walker,         \* the account it walks the list of
    cursor,         \* the code it goes on after
    mark,           \* history: the link that had this code
    due, seen,      \* history: the links there at its start; those it was shown
    strayed,        \* history: the cursor's code came to be an older link's
    visits,         \* history: the redirects that loaded each link
    outlived,       \* history: the handlers whose account ended under them
    missed          \* history: each account's creations over the limit that were
                    \* let through because the count had failed

table == <<accounts, code, owner, created, clicks, minted>>
walk == <<paging, walker, cursor, mark, due, seen, strayed>>
history == <<visits, outlived, missed>>
vars == <<table, pc, who, link, walk, history>>

-----------------------------------------------------------------------------
Live(i) == code[i] # NoCode
Owned(a) == {i \in LinkId : Live(i) /\ owner[i] = a}
Taken(c) == \E i \in LinkId : code[i] = c

HasRoomAtLimit(n) == n <= FreeLinkLimit  \* mutant: > for >=
HasRoom(n) == n < FreeLinkLimit

(* The check of the limit, which admins do not come to: on what count_links *)
(* finds, or on the 0 it gives when its query fails.                        *)
LetIn(a) ==
    \/ /\ a \in Admin \/ HasRoom(Cardinality(Owned(a)))
       /\ UNCHANGED missed
    \/ /\ a \notin Admin /\ ~HasRoom(Cardinality(Owned(a))) /\ HasRoom(0)
       /\ missed[a] < MaxMiss
       /\ missed' = [missed EXCEPT ![a] = @ + 1]

(* The id of a new row: AUTOINCREMENT never gives one out again. *)
NextIdAfterLast(i) ==  \* mutant: INTEGER PRIMARY KEY alone
    ~Live(i) /\ (\A j \in LinkId : j >= i => ~Live(j)) /\ (i > 1 => Live(i - 1))
NextId(i) == i = minted + 1

Goto(h, place) == pc' = [pc EXCEPT ![h] = place]

Start(h, place, a, i) ==
    /\ pc[h] = "idle"
    /\ Goto(h, place)
    /\ who' = [who EXCEPT ![h] = a]
    /\ link' = [link EXCEPT ![h] = i]

Finish(h) ==
    /\ Goto(h, "idle")
    /\ who' = [who EXCEPT ![h] = Nobody]
    /\ link' = [link EXCEPT ![h] = 0]
    /\ outlived' = outlived \ {h}

-----------------------------------------------------------------------------
(* create_link, of the page and of the API.  insert_link tries an alias     *)
(* once, and codes from get_new_image_id until one is not taken or it has   *)
(* had AUTO_CODE_ATTEMPTS, which changes nothing.  A row needs its account. *)
CreateLink(h, a) ==
    /\ a \in accounts /\ LetIn(a)
    /\ Start(h, "insert", a, 0)
    /\ UNCHANGED <<table, walk, visits, outlived>>

InsertLink(h, c) ==
    /\ pc[h] = "insert" /\ who[h] \in accounts /\ ~Taken(c)
    /\ \E i \in LinkId :
          /\ NextId(i)
          /\ minted' = IF i > minted THEN i ELSE minted
          /\ code' = [code EXCEPT ![i] = c]
          /\ owner' = [owner EXCEPT ![i] = who[h]]
          /\ LET last == IF i = 1 THEN 0 ELSE created[i - 1]  \* its clock goes on, or not yet
             IN  \E t \in {last, last + 1} : created' = [created EXCEPT ![i] = t]
          /\ clicks' = [clicks EXCEPT ![i] = 0]
          /\ visits' = [visits EXCEPT ![i] = 0]
    /\ Finish(h)
    /\ UNCHANGED <<accounts, walk, missed>>

RefuseInsert(h) ==
    /\ pc[h] = "insert"
    /\ who[h] \notin accounts \/ \E c \in Code : Taken(c)
    /\ Finish(h)
    /\ UNCHANGED <<table, walk, visits, missed>>

-----------------------------------------------------------------------------
(* owned_link goes by id and lets an admin through; fetch_owned_link goes   *)
(* by code and does not.  What follows goes by the id that was loaded.      *)
Load(h, place, a, i) ==
    /\ a \in accounts /\ Live(i)
    /\ Start(h, place, a, i)
    /\ UNCHANGED <<table, walk, history>>

MayEdit(a, i) == owner[i] = a \/ a \in Admin

EditLink(h, a, i) == MayEdit(a, i) /\ Load(h, "edit", a, i)
UpdateLink(h, a, i) == owner[i] = a /\ Load(h, "edit", a, i)
DeleteLink(h, a, i) == MayEdit(a, i) /\ Load(h, "delete", a, i)

(* edit_link's UPDATE sets the code, too, which must not be another's;      *)
(* update_link's leaves it as it is.                                        *)
Rename(h, c) ==
    LET i == link[h]
    IN  /\ pc[h] = "edit"
        /\ IF Live(i) /\ \A j \in LinkId : code[j] = c => j = i
           THEN code' = [code EXCEPT ![i] = c]
           ELSE UNCHANGED code
        /\ Finish(h)
        /\ UNCHANGED <<accounts, owner, created, clicks, minted, walk, visits, missed>>

(* What is left of rows that go: nothing. *)
Drop(ids) ==
    /\ code' = [i \in LinkId |-> IF i \in ids THEN NoCode ELSE code[i]]
    /\ owner' = [i \in LinkId |-> IF i \in ids THEN Nobody ELSE owner[i]]
    /\ clicks' = [i \in LinkId |-> IF i \in ids THEN 0 ELSE clicks[i]]
    /\ visits' = [i \in LinkId |-> IF i \in ids THEN 0 ELSE visits[i]]
    /\ UNCHANGED <<created, minted>>

RemoveLink(h) ==
    /\ pc[h] = "delete"
    /\ Drop({link[h]})
    /\ Finish(h)
    /\ UNCHANGED <<accounts, walk, missed>>

(* The end of an account takes its links and its API keys with it; then its *)
(* id may be somebody else's.  The admins here stay.                        *)
StopWalk ==
    /\ paging' = "idle" /\ walker' = Nobody /\ cursor' = NoCode /\ mark' = 0
    /\ due' = {} /\ seen' = {} /\ strayed' = FALSE

PurgeAccount(a) ==
    /\ a \in accounts \ Admin
    /\ accounts' = accounts \ {a}
    /\ Drop(Owned(a))
    /\ outlived' = outlived \cup {h \in Handler : who[h] = a}
    /\ IF walker = a THEN StopWalk ELSE UNCHANGED walk
    /\ UNCHANGED <<pc, who, link, missed>>

Signup(a) ==
    /\ a \in Account \ accounts
    /\ accounts' = accounts \cup {a}
    /\ UNCHANGED <<code, owner, created, clicks, minted, pc, who, link, walk, history>>

-----------------------------------------------------------------------------
(* resolve_and_redirect: the link of the code, then one more click. *)
Resolve(h, i) ==
    /\ Live(i) /\ visits[i] < MaxVisit
    /\ visits' = [visits EXCEPT ![i] = @ + 1]
    /\ Start(h, "click", Nobody, i)
    /\ UNCHANGED <<table, walk, outlived, missed>>

Click(h) ==
    LET i == link[h]
    IN  /\ pc[h] = "click"
        /\ clicks' = IF Live(i) THEN [clicks EXCEPT ![i] = @ + 1] ELSE clicks
        /\ Finish(h)
        /\ UNCHANGED <<accounts, code, owner, created, minted, walk, visits, missed>>

(* A client hangs up, or the database fails its handler: no click is then   *)
(* counted, "best-effort".                                                  *)
Disconnect(h) ==
    LET i == link[h]
    IN  /\ pc[h] # "idle"
        /\ visits' = IF pc[h] = "click" /\ Live(i) THEN [visits EXCEPT ![i] = @ - 1] ELSE visits
        /\ Finish(h)
        /\ UNCHANGED <<table, walk, missed>>

-----------------------------------------------------------------------------
(* list_links: the links of an account, newest first, from a cursor on.  A  *)
(* cursor that is no link of the account any more is no bound.              *)
OlderById(i, j) == i < j - 1  \* mutant: an offset that is off by one
Older(i, j) == created[i] < created[j]

Below(a, c) == {i \in Owned(a) : \A j \in Owned(a) : code[j] = c => Older(i, j)}

IsPage(page, rows) ==
    /\ page \subseteq rows
    /\ Cardinality(page) = IF Cardinality(rows) < PageLimit THEN Cardinality(rows) ELSE PageLimit
    /\ \A i \in page, j \in rows \ page : ~Older(i, j)

(* One page; its last link is where the client goes on, unless the page is  *)
(* short.                                                                   *)
ListLinks(a) ==
    /\ a \in accounts /\ paging \in {"idle", "walking"}
    /\ IF paging = "idle" THEN due' = Owned(a) ELSE walker = a /\ UNCHANGED due
    /\ walker' = a
    /\ strayed' = (strayed \/ \E j \in Owned(a) : code[j] = cursor /\ Older(j, mark))
    /\ \E page \in SUBSET Below(a, cursor) :
          /\ IsPage(page, Below(a, cursor))
          /\ seen' = seen \cup page
          /\ IF Cardinality(page) < PageLimit
             THEN paging' = "through" /\ UNCHANGED <<cursor, mark>>
             ELSE \E i \in page :
                     /\ \A j \in page : ~Older(j, i)
                     /\ paging' = "walking" /\ mark' = i /\ cursor' = code[i]
    /\ UNCHANGED <<table, pc, who, link, history>>

EndWalk ==
    /\ paging # "idle"
    /\ StopWalk
    /\ UNCHANGED <<table, pc, who, link, history>>

-----------------------------------------------------------------------------
Init ==
    /\ accounts = Account
    /\ code = [i \in LinkId |-> NoCode] /\ owner = [i \in LinkId |-> Nobody]
    /\ created = [i \in LinkId |-> 0] /\ clicks = [i \in LinkId |-> 0]
    /\ minted = 0
    /\ pc = [h \in Handler |-> "idle"] /\ who = [h \in Handler |-> Nobody]
    /\ link = [h \in Handler |-> 0]
    /\ paging = "idle" /\ walker = Nobody /\ cursor = NoCode /\ mark = 0
    /\ due = {} /\ seen = {} /\ strayed = FALSE
    /\ visits = [i \in LinkId |-> 0] /\ outlived = {}
    /\ missed = [a \in Account |-> 0]

Step(h) ==
    \/ \E c \in Code : InsertLink(h, c) \/ Rename(h, c)
    \/ RefuseInsert(h) \/ RemoveLink(h) \/ Click(h)

Request(h) ==
    \/ \E a \in Account : CreateLink(h, a)
    \/ \E a \in Account, i \in LinkId : EditLink(h, a, i) \/ UpdateLink(h, a, i) \/ DeleteLink(h, a, i)
    \/ \E i \in LinkId : Resolve(h, i)

Environment ==
    \/ \E h \in Handler : Disconnect(h)
    \/ \E a \in Account : PurgeAccount(a) \/ Signup(a) \/ ListLinks(a)
    \/ EndWalk

Next == (\E h \in Handler : Step(h) \/ Request(h)) \/ Environment

Spec == Init /\ [][Next]_vars

-----------------------------------------------------------------------------
(* Every variable holds a value of its kind; only minted ids are about.     *)
TypeOK ==
    /\ accounts \subseteq Account /\ Admin \subseteq accounts
    /\ minted \in 0..MaxLink
    /\ code \in [LinkId -> Code \cup {NoCode}]
    /\ owner \in [LinkId -> Account \cup {Nobody}]
    /\ \A i \in LinkId : Live(i) => i <= minted /\ owner[i] \in accounts
    /\ \A i, j \in LinkId : Live(i) /\ code[i] = code[j] => i = j
    /\ created \in [LinkId -> Nat]
    /\ clicks \in [LinkId -> 0..MaxVisit] /\ visits \in [LinkId -> 0..MaxVisit]
    /\ pc \in [Handler -> {"idle", "insert", "edit", "delete", "click"}]
    /\ who \in [Handler -> Account \cup {Nobody}]
    /\ link \in [Handler -> 0..minted]
    /\ paging \in {"idle", "walking", "through"}
    /\ walker \in accounts \cup {Nobody}
    /\ cursor \in Code \cup {NoCode} /\ mark \in 0..minted
    /\ due \subseteq 1..minted /\ seen \subseteq 1..minted
    /\ strayed \in BOOLEAN /\ outlived \subseteq Handler
    /\ missed \in [Account -> 0..MaxMiss]

(* The limit is counted before the insert, and a count that fails counts    *)
(* nothing: who is not an admin passes the limit by at most the creations   *)
(* that were in flight together and those a failed count has let through.   *)
LinksNearlyKept ==
    \A a \in Account \ Admin :
        Cardinality(Owned(a)) + Cardinality({h \in Handler : pc[h] = "insert" /\ who[h] = a})
            <= FreeLinkLimit - 1 + Cardinality(Handler) + missed[a]

(* What a request is about to write by id is still its own account's link,  *)
(* or an admin's to write: the account is not another person's by now, and  *)
(* the id not another link's.                                               *)
WritesToTheirs ==
    \A h \in Handler :
        pc[h] \in {"edit", "delete"} /\ Live(link[h])
        => who[h] \in Admin \/ (owner[link[h]] = who[h] /\ h \notin outlived)

(* Every redirect through a link is counted on it once, unless it was       *)
(* dropped, and none on another, however often links come and go.           *)
EveryClickCounted ==
    \A i \in LinkId :
        Live(i) => clicks[i] + Cardinality({h \in Handler : pc[h] = "click" /\ link[h] = i}) = visits[i]

(* A client that walks the list to its end is shown every link that was     *)
(* there all the time, also when links are created, renamed or deleted on   *)
(* the way; but for one created in the same millisecond as another, and     *)
(* when the cursor's alias has moved to an older link.                      *)
WalkSkipsNothing ==
    paging = "through" /\ ~strayed
    => \A i \in due : \/ i \in seen \/ ~Live(i)
                      \/ \E j \in seen : created[j] = created[i]
=============================================================================
