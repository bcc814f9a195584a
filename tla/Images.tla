------------------------------- MODULE Images -------------------------------
(***************************************************************************)
(* The images table, the two cached lists of it that AppState keeps, and   *)
(* every handler that reads or changes either: upload, the gallery page,   *)
(* the ZIP, serving, the deletions, the end of an account, and the hourly  *)
(* reaper.  A handler takes one cache access or SQL statement per action,  *)
(* and everybody else may step in between.                                 *)
(*                                                                         *)
(* An image is its id.  Whether it has a lifetime shows in whether it ever *)
(* gets into past; bytes, names, sizes and views are left out.             *)
(***************************************************************************)
EXTENDS Integers, FiniteSets

CONSTANTS
    Client,    \* the requests that may be in flight together
    Reaper,    \* the background task
    Account,   \* account ids; one that is deleted may be given out again
    Nobody,    \* an uploader_id that is NULL, and whoever is not signed in
    Guild,     \* Discord guilds
    NoGuild,   \* a guild_id that is NULL
    NoRow,     \* an image id that is not in the table
    NoList,    \* an empty TimedCachedValue
    MaxImage   \* bound: image ids are 1..MaxImage

Process == Client \cup {Reaper}
ImageId == 1..MaxImage
Row == [uploader: Account \cup {Nobody}, guild: Guild \cup {NoGuild}]
NewRow(uploader, guild) == [uploader |-> uploader, guild |-> guild]
Table == [ImageId -> Row \cup {NoRow}]

ASSUME ProcessAssumption == Reaper \notin Client
ASSUME NullAssumption == /\ Nobody \notin Account /\ NoGuild \notin Guild
                         /\ NoRow \notin Row /\ NoList \notin Table
ASSUME BoundAssumption == MaxImage \in Nat \ {0}

VARIABLES
    accounts,      \* the accounts there are
    image,         \* the table
    minted,        \* how many ids have been given out
    past,          \* the images whose expires_at has passed
    cachedImages,  \* cached_images: what resolve_images read
    cachedFiles,   \* cached_image_files: the same, with links
    pc,            \* where each process is
    who, tag,      \* the account it acts for; the guild it uploads to
    todo,          \* the ids it still has to look at
    list,          \* the rows resolve_images has read and not yet cached
    expired,       \* the images that had expired when it read the clock
    dead,          \* history: the images that were gone or past when its request came in
    sent           \* the images whose bytes it delivers

caches == <<cachedImages, cachedFiles>>
locals == <<who, tag, todo, list, expired, dead, sent>>
vars == <<accounts, image, minted, past, caches, pc, locals>>

-----------------------------------------------------------------------------
Live(i) == image[i] # NoRow
Dead == {i \in 1..minted : ~Live(i) \/ i \in past}
Owned(rows, a) == {i \in ImageId : rows[i] # NoRow /\ rows[i].uploader = a}

Goto(p, place) == pc' = [pc EXCEPT ![p] = place]

(* A request comes in.  The locals it does not use keep a fixed value. *)
Start(p, place, a, g, ids) ==
    /\ pc[p] = "idle" /\ p \in Client
    /\ Goto(p, place)
    /\ who' = [who EXCEPT ![p] = a]
    /\ tag' = [tag EXCEPT ![p] = g]
    /\ todo' = [todo EXCEPT ![p] = ids]
    /\ expired' = [expired EXCEPT ![p] = IF place = "files" THEN past ELSE {}]
    /\ dead' = [dead EXCEPT ![p] = IF place \in {"files", "lookup"} THEN Dead ELSE {}]
    /\ UNCHANGED <<accounts, image, minted, past, caches, list, sent>>

(* It has been answered, or dropped; its locals go with it. *)
Finish(p) ==
    /\ Goto(p, "idle")
    /\ who' = [who EXCEPT ![p] = Nobody]
    /\ tag' = [tag EXCEPT ![p] = NoGuild]
    /\ todo' = [todo EXCEPT ![p] = {}]
    /\ list' = [list EXCEPT ![p] = NoList]
    /\ expired' = [expired EXCEPT ![p] = {}]
    /\ dead' = [dead EXCEPT ![p] = {}]
    /\ sent' = [sent EXCEPT ![p] = {}]

-----------------------------------------------------------------------------
(* raw_upload_file, for the gallery or for a guild.  The files go in one    *)
(* by one; an id that is taken is lengthened until it is new.  A file may   *)
(* be infected, or fail to be inserted, as it does without its account.     *)
Upload(p, a, g) == a \in accounts /\ minted < MaxImage /\ Start(p, "insert", a, g, {})

InsertFile(p) ==
    /\ pc[p] = "insert"
    /\ minted < MaxImage /\ who[p] \in accounts
    /\ minted' = minted + 1
    /\ image' = [image EXCEPT ![minted + 1] = NewRow(who[p], tag[p])]
    /\ \E place \in {"insert", "drop_images"} : Goto(p, place)
    /\ UNCHANGED <<accounts, past, caches, locals>>

RefuseFile(p) ==
    /\ pc[p] = "insert"
    /\ Goto(p, "drop_images")
    /\ UNCHANGED <<accounts, image, minted, past, caches, locals>>

(* invalidate_image_caches: one list, then the other. *)
DropImages(p) ==
    /\ pc[p] = "drop_images"
    /\ cachedImages' = NoList
    /\ Goto(p, "drop_files")
    /\ UNCHANGED <<accounts, image, minted, past, cachedFiles, locals>>

DropFiles(p) ==
    /\ pc[p] = "drop_files"
    /\ cachedFiles' = NoList
    /\ Finish(p)
    /\ UNCHANGED <<accounts, image, minted, past, cachedImages>>

-----------------------------------------------------------------------------
(* get_images_page and build_images_zip read the clock, then ask            *)
(* resolve_image_files for the list, and keep of it what is theirs and had  *)
(* not expired by the clock.                                                *)
ListFiles(p, a) == a \in accounts /\ Start(p, "files", a, NoGuild, {})

Mine(p) == Owned(cachedFiles, who[p]) \ expired[p]

(* The page only shows the list; the ZIP wants the bytes of some of it. *)
Got(p) ==
    \/ Finish(p)
    \/ \E ids \in SUBSET Mine(p) \ {{}} :
          /\ todo' = [todo EXCEPT ![p] = ids]
          /\ Goto(p, "zip")
          /\ UNCHANGED <<who, tag, list, expired, dead, sent>>

FilesLookup(p) ==
    /\ pc[p] = "files"
    /\ IF cachedFiles # NoList THEN Got(p) ELSE Goto(p, "images") /\ UNCHANGED locals
    /\ UNCHANGED <<accounts, image, minted, past, caches>>

(* resolve_images: the other list, or else the table, from which both      *)
(* lists are then set.                                                      *)
ImagesLookup(p) ==
    /\ pc[p] = "images"
    /\ Goto(p, IF cachedImages # NoList THEN "files_again" ELSE "select")
    /\ UNCHANGED <<accounts, image, minted, past, caches, locals>>

Select(p) ==
    /\ pc[p] = "select"
    /\ list' = [list EXCEPT ![p] = image]
    /\ Goto(p, "set_files")
    /\ UNCHANGED <<accounts, image, minted, past, caches, who, tag, todo, expired, dead, sent>>

SetFiles(p) ==
    /\ pc[p] = "set_files"
    /\ cachedFiles' = list[p]
    /\ Goto(p, "set_images")
    /\ UNCHANGED <<accounts, image, minted, past, cachedImages, locals>>

SetImages(p) ==
    /\ pc[p] = "set_images"
    /\ cachedImages' = list[p]
    /\ list' = [list EXCEPT ![p] = NoList]
    /\ Goto(p, "files_again")
    /\ UNCHANGED <<accounts, image, minted, past, cachedFiles, who, tag, todo, expired, dead, sent>>

(* resolve_image_files asks its cache again, and unwraps the answer. *)
FilesUnwrap(p) ==
    /\ pc[p] = "files_again"
    /\ IF cachedFiles # NoList THEN Got(p) ELSE Goto(p, "panicked") /\ UNCHANGED locals
    /\ UNCHANGED <<accounts, image, minted, past, caches>>

(* The task is gone; the connection is closed. *)
Panicked(p) ==
    /\ pc[p] = "panicked"
    /\ Finish(p)
    /\ UNCHANGED <<accounts, image, minted, past, caches>>

(* The archive: the bytes of one file after the other, from the table; a    *)
(* file that is not there any more is skipped.                              *)
ZipFile(p) ==
    /\ pc[p] = "zip" /\ todo[p] # {}
    /\ \E i \in todo[p] :
          /\ todo' = [todo EXCEPT ![p] = @ \ {i}]
          /\ sent' = [sent EXCEPT ![p] = IF Live(i) THEN @ \cup {i} ELSE @]
    /\ UNCHANGED <<accounts, image, minted, past, caches, pc, who, tag, list, expired, dead>>

(* Whatever was to be delivered has been. *)
Respond(p) ==
    /\ pc[p] \in {"zip", "serve"} /\ todo[p] = {}
    /\ Finish(p)
    /\ UNCHANGED <<accounts, image, minted, past, caches>>

-----------------------------------------------------------------------------
(* get_image, for the page, the raw bytes and the thumbnail of an image,    *)
(* and for its deletion.  It believes the cached entry and reads the bytes; *)
(* without an entry it reads the row.  Both queries are at "bytes".         *)
GetImage(p, a, i) ==
    /\ a \in accounts \cup {Nobody}
    /\ i \in 1..minted
    /\ Start(p, "lookup", a, NoGuild, {i})

Target(p) == CHOOSE i \in ImageId : i \in todo[p]

(* delete_image compares the uploader of the entry it was given, which can  *)
(* only be the cached one if there is one.                                  *)
Lookup(p) ==
    LET i == Target(p)
        cached == cachedImages # NoList /\ cachedImages[i] # NoRow
        refused == cached /\ who[p] # Nobody /\ cachedImages[i].uploader # who[p]
        place == IF cached THEN "bytes" ELSE "row"
    IN  /\ pc[p] = "lookup"
        /\ IF refused THEN Finish(p) ELSE Goto(p, place) /\ UNCHANGED locals
        /\ UNCHANGED <<accounts, image, minted, past, caches>>

DeliverExpired(p, i) ==  \* mutant: the reaper alone decides
    /\ Goto(p, "serve")
    /\ todo' = [todo EXCEPT ![p] = {}]
    /\ sent' = [sent EXCEPT ![p] = {i}]
    /\ UNCHANGED <<who, tag, list, expired, dead>>

(* is_expired is asked of what is served, and not of what is deleted. *)
Deliver(p, i) ==
    IF i \in past THEN Finish(p)
    ELSE /\ Goto(p, "serve")
         /\ todo' = [todo EXCEPT ![p] = {}]
         /\ sent' = [sent EXCEPT ![p] = {i}]
         /\ UNCHANGED <<who, tag, list, expired, dead>>

ReadImage(p) ==
    LET i == Target(p)
        foreign == pc[p] = "row" /\ who[p] # Nobody /\ image[i].uploader # who[p]
    IN  /\ pc[p] \in {"bytes", "row"}
        /\ IF Live(i) => foreign THEN Finish(p)
           ELSE IF who[p] = Nobody THEN Deliver(p, i)
           ELSE Goto(p, "delete") /\ UNCHANGED locals
        /\ UNCHANGED <<accounts, image, minted, past, caches>>

-----------------------------------------------------------------------------
(* DELETE ... WHERE uploader_id = ? AND id = ? *)
DeleteAnyOwner(i, a) ==  \* mutant: the check made before is enough
    image' = [image EXCEPT ![i] = NoRow]

DeleteOwned(i, a) ==
    image' = IF Live(i) /\ image[i].uploader = a THEN [image EXCEPT ![i] = NoRow] ELSE image

(* delete_image's statement succeeds even if it deletes nothing. *)
DeleteImage(p) ==
    /\ pc[p] = "delete"
    /\ \/ DeleteOwned(Target(p), who[p]) /\ Goto(p, "drop_images") /\ UNCHANGED locals
       \/ Finish(p) /\ UNCHANGED image   \* the statement failed
    /\ UNCHANGED <<accounts, minted, past, caches>>

(* bulk_delete_files: a statement for each file.  The lists are dropped if  *)
(* one of them succeeded, whether it deleted anything or not.               *)
BulkDelete(p, a, ids) ==
    /\ a \in accounts
    /\ Start(p, "bulk", a, NoGuild, ids)

BulkDeleteOne(p) ==
    /\ pc[p] \in {"bulk", "bulk_ok"}
    /\ \E i \in todo[p] :
          /\ todo' = [todo EXCEPT ![p] = @ \ {i}]
          /\ \/ DeleteOwned(i, who[p]) /\ Goto(p, "bulk_ok")
             \/ UNCHANGED <<image, pc>>   \* the statement failed
    /\ UNCHANGED <<accounts, minted, past, caches, who, tag, list, expired, dead, sent>>

BulkDone(p) ==
    /\ pc[p] \in {"bulk", "bulk_ok"} /\ todo[p] = {}
    /\ IF pc[p] = "bulk" THEN Finish(p) ELSE Goto(p, "drop_images") /\ UNCHANGED locals
    /\ UNCHANGED <<accounts, image, minted, past, caches>>

(* delete_guild_image: the guild in the path has to be the image's. *)
DeleteGuildImage(p, g, i) ==
    /\ pc[p] = "idle" /\ p \in Client
    /\ Live(i) /\ image[i].guild = g
    /\ image' = [image EXCEPT ![i] = NoRow]
    /\ Goto(p, "drop_images")
    /\ UNCHANGED <<accounts, minted, past, caches, locals>>

(* The end of an account: its images go with it, and then the lists are     *)
(* dropped, or they stay without an uploader, and the lists stay as well.   *)
PurgeAccount(p, a, deleteImages) ==
    /\ pc[p] = "idle" /\ p \in Client /\ a \in accounts
    /\ accounts' = accounts \ {a}
    /\ image' = [i \in ImageId |-> IF i \notin Owned(image, a) THEN image[i]
                                   ELSE IF deleteImages THEN NoRow
                                   ELSE NewRow(Nobody, image[i].guild)]
    /\ Goto(p, IF deleteImages THEN "drop_images" ELSE "idle")
    /\ UNCHANGED <<minted, past, caches, locals>>

(* Signing up may give out an id again. *)
Signup(a) ==
    /\ a \in Account \ accounts
    /\ accounts' = accounts \cup {a}
    /\ UNCHANGED <<image, minted, past, caches, pc, locals>>

-----------------------------------------------------------------------------

Reapable(i) == Live(i) /\ i \in past

(* spawn_expiry_reaper: one DELETE, and the lists only if it hit anything. *)
Reap ==
    /\ pc[Reaper] = "idle"
    /\ \E i \in ImageId : Reapable(i)
    /\ image' = [i \in ImageId |-> IF Reapable(i) THEN NoRow ELSE image[i]]
    /\ Goto(Reaper, "drop_images")
    /\ UNCHANGED <<accounts, minted, past, caches, locals>>

Expire(i) ==
    /\ i \in 1..minted \ past
    /\ past' = past \cup {i}
    /\ UNCHANGED <<accounts, image, minted, caches, pc, locals>>

ElapseImagesOnly ==  \* mutant: the links never get old
    /\ cachedImages # NoList
    /\ cachedImages' = NoList
    /\ UNCHANGED <<accounts, image, minted, past, cachedFiles, pc, locals>>

(* TimedCachedValue: half an hour after it was set, get finds nothing. *)
Elapse ==
    /\ \/ cachedImages # NoList /\ cachedImages' = NoList /\ UNCHANGED cachedFiles
       \/ cachedFiles # NoList /\ cachedFiles' = NoList /\ UNCHANGED cachedImages
    /\ UNCHANGED <<accounts, image, minted, past, pc, locals>>

(* A client hangs up: its handler is dropped at the await it is at. *)
Disconnect(p) ==
    /\ p \in Client /\ pc[p] # "idle"
    /\ Finish(p)
    /\ UNCHANGED <<accounts, image, minted, past, caches>>

-----------------------------------------------------------------------------
Init ==
    /\ accounts = Account
    /\ image = [i \in ImageId |-> NoRow]
    /\ minted = 0 /\ past = {}
    /\ cachedImages = NoList /\ cachedFiles = NoList
    /\ pc = [p \in Process |-> "idle"]
    /\ who = [p \in Process |-> Nobody]
    /\ tag = [p \in Process |-> NoGuild]
    /\ todo = [p \in Process |-> {}]
    /\ list = [p \in Process |-> NoList]
    /\ expired = [p \in Process |-> {}]
    /\ dead = [p \in Process |-> {}]
    /\ sent = [p \in Process |-> {}]

Step(p) ==
    \/ InsertFile(p) \/ RefuseFile(p) \/ DropImages(p) \/ DropFiles(p)
    \/ FilesLookup(p) \/ ImagesLookup(p) \/ Select(p) \/ SetFiles(p) \/ SetImages(p)
    \/ FilesUnwrap(p) \/ Panicked(p) \/ ZipFile(p) \/ Respond(p)
    \/ Lookup(p) \/ ReadImage(p) \/ DeleteImage(p) \/ BulkDeleteOne(p) \/ BulkDone(p)

Request(p) ==
    \/ \E a \in Account :
          \/ ListFiles(p, a)
          \/ \E g \in Guild \cup {NoGuild} : Upload(p, a, g)
          \/ \E ids \in SUBSET (1..minted) \ {{}} : BulkDelete(p, a, ids)
          \/ \E deleteImages \in BOOLEAN : PurgeAccount(p, a, deleteImages)
    \/ \E a \in Account \cup {Nobody}, i \in ImageId : GetImage(p, a, i)
    \/ \E g \in Guild, i \in ImageId : DeleteGuildImage(p, g, i)

Environment ==
    \/ Reap
    \/ Elapse
    \/ \E a \in Account : Signup(a)
    \/ \E i \in ImageId : Expire(i)
    \/ \E p \in Client : Disconnect(p)

Next == (\E p \in Process : Step(p) \/ Request(p)) \/ Environment

Spec == Init /\ [][Next]_vars

(* The runtime polls a task that can go on, half an hour passes, and the    *)
(* reaper's loop never ends.                                                *)
Fairness == (\A p \in Process : WF_vars(Step(p))) /\ WF_vars(Elapse) /\ WF_vars(Reap)

FairSpec == Spec /\ Fairness

-----------------------------------------------------------------------------
Place == {"idle", "insert", "drop_images", "drop_files", "files", "images", "select",
          "set_files", "set_images", "files_again", "panicked", "zip", "serve", "lookup",
          "bytes", "row", "delete", "bulk", "bulk_ok"}

(* Every variable holds a value of its kind; ids not given out have no row. *)
TypeOK ==
    /\ accounts \subseteq Account
    /\ image \in Table
    /\ minted \in 0..MaxImage
    /\ past \subseteq 1..minted
    /\ cachedImages \in Table \cup {NoList}
    /\ cachedFiles \in Table \cup {NoList}
    /\ pc \in [Process -> Place]
    /\ who \in [Process -> Account \cup {Nobody}]
    /\ tag \in [Process -> Guild \cup {NoGuild}]
    /\ todo \in [Process -> SUBSET (1..minted)]
    /\ list \in [Process -> Table \cup {NoList}]
    /\ expired \in [Process -> SUBSET (1..minted)]
    /\ dead \in [Process -> SUBSET (1..minted)]
    /\ sent \in [Process -> SUBSET (1..minted)]

(* What was deleted, or had expired, when a request came in is not sent to  *)
(* it, whatever the lists say: image.rs:671 "An expired image is treated as *)
(* gone", and the bytes come from the table.                                *)
GoneStaysGone == \A p \in Process : sent[p] \cap dead[p] = {}

(* An image that has not expired and is not a guild's goes only with its    *)
(* uploader's account, or by a request of its uploader that names it,       *)
(* however old the list is that the request was checked against.            *)
DeletedByUploader ==
    [][\A i \in ImageId :
          Live(i) /\ ~Live(i)' /\ i \notin past /\ image[i].guild = NoGuild
          => \/ image[i].uploader \in accounts \ accounts'
             \/ \E p \in Client : /\ pc[p] \in {"delete", "bulk", "bulk_ok"}
                                  /\ i \in todo[p]
                                  /\ who[p] = image[i].uploader]_vars

(* Nothing keeps a fill from setting a list it read before an invalidation, *)
(* a hung-up upload from leaving the lists as they are, or an ended account *)
(* from leaving its images listed: but once the table stays as it is, so do *)
(* the lists, and nobody is shown an old one for good.                      *)
ListsCatchUp == <>[](cachedImages \in {NoList, image} /\ cachedFiles \in {NoList, image})
=============================================================================
