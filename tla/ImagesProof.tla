----------------------------- MODULE ImagesProof -----------------------------
(***************************************************************************)
(* What is proved of Images, for any number of clients, accounts, guilds    *)
(* and images: its type, that nothing is sent which was gone or expired     *)
(* when the request came in, and that only its uploader deletes an image.   *)
(***************************************************************************)
EXTENDS Images, TLAPS

-----------------------------------------------------------------------------
(* Type correctness, for which the rows, of the table and of every copy of  *)
(* it, have to be of ids that were given out.                               *)

Within(rows) == \A i \in ImageId : rows[i] # NoRow => i <= minted

RowsMinted ==
    /\ Within(image)
    /\ cachedImages # NoList => Within(cachedImages)
    /\ cachedFiles # NoList => Within(cachedFiles)
    /\ \A p \in Process : list[p] # NoList => Within(list[p])
    /\ \A p \in Process : pc[p] \in {"set_files", "set_images"} => list[p] # NoList

(* Who looks for one image has one to look for. *)
Aiming == {"lookup", "bytes", "row", "delete"}
Aimed == \A p \in Process : pc[p] \in Aiming => todo[p] # {}

TypeInv == TypeOK /\ RowsMinted /\ Aimed

LEMMA TargetNamed ==
    ASSUME TypeInv, NEW p \in Process, pc[p] \in Aiming
    PROVE  Target(p) \in todo[p] /\ Target(p) \in 1..minted /\ Target(p) \in ImageId
<1>1. PICK i \in ImageId : i \in todo[p]
    BY BoundAssumption DEF TypeInv, TypeOK, Aimed, ImageId
<1>2. Target(p) \in ImageId /\ Target(p) \in todo[p]
    BY <1>1 DEF Target
<1> QED
    BY <1>2 DEF TypeInv, TypeOK

LEMMA ReaperProcess == Reaper \in Process /\ Client \subseteq Process
BY DEF Process

LEMMA TypeInit == Init => TypeInv
<1> SUFFICES ASSUME Init PROVE TypeInv
    OBVIOUS
<1>1. TypeOK
    BY BoundAssumption DEF Init, TypeOK, Place, Table
<1> QED
    BY <1>1, NullAssumption DEF Init, TypeInv, RowsMinted, Within, Aimed, Aiming

(* The steps that move p and change nothing but its locals. *)
LEMMA FinishType ==
    ASSUME TypeInv, NEW p \in Process, Finish(p),
           UNCHANGED <<accounts, image, minted, past, caches>>
    PROVE  TypeInv'
<1> USE DEF caches
<1>1. TypeOK'
    BY NullAssumption DEF TypeInv, TypeOK, Finish, Goto, Place
<1>2. RowsMinted' /\ Aimed'
    BY DEF TypeInv, TypeOK, RowsMinted, Within, Aimed, Aiming, Finish, Goto
<1> QED
    BY <1>1, <1>2 DEF TypeInv

LEMMA MoveType ==
    ASSUME TypeInv, NEW p \in Process, NEW place \in Place \ {"set_files", "set_images"},
           place \in Aiming => todo[p] # {},
           Goto(p, place), UNCHANGED <<accounts, image, minted, past, caches, locals>>
    PROVE  TypeInv'
BY DEF TypeInv, TypeOK, RowsMinted, Within, Aimed, Goto, caches, locals

LEMMA StartType ==
    ASSUME TypeInv, NEW p \in Process, NEW place \in Place \ {"set_files", "set_images"},
           NEW a \in Account \cup {Nobody}, NEW g \in Guild \cup {NoGuild},
           NEW ids \in SUBSET (1..minted),
           place \in Aiming => ids # {}, Start(p, place, a, g, ids)
    PROVE  TypeInv'
<1> USE DEF caches
<1>1. Dead \subseteq 1..minted
    BY DEF Dead
<1>2. TypeOK'
    BY <1>1 DEF TypeInv, TypeOK, Start, Goto
<1>3. RowsMinted' /\ Aimed'
    BY DEF TypeInv, TypeOK, RowsMinted, Within, Aimed, Start, Goto
<1> QED
    BY <1>2, <1>3 DEF TypeInv

(* The steps that take rows out of the table, or their uploaders. *)
LEMMA ShrinkType ==
    ASSUME TypeInv, NEW p \in Process, NEW place \in Place \ {"set_files", "set_images"},
           image' \in Table, \A i \in ImageId : image'[i] # NoRow => image[i] # NoRow,
           place \in Aiming => todo[p] # {}, accounts' \subseteq Account, Goto(p, place) \/ UNCHANGED pc,
           UNCHANGED <<minted, past, caches, locals>>
    PROVE  TypeInv'
<1> USE DEF caches, locals
<1>1. TypeOK'
    BY DEF TypeInv, TypeOK, Goto
<1>2. RowsMinted' /\ Aimed'
    BY DEF TypeInv, TypeOK, RowsMinted, Within, Aimed, Goto
<1> QED
    BY <1>1, <1>2 DEF TypeInv

LEMMA OwnedTable ==
    ASSUME TypeOK, NEW i \in ImageId, NEW a, DeleteOwned(i, a)
    PROVE  image' \in Table /\ \A j \in ImageId : image'[j] # NoRow => image[j] # NoRow
BY DEF DeleteOwned, TypeOK, Table

LEMMA GotType ==
    ASSUME TypeInv, NEW p \in Process, cachedFiles # NoList, Got(p),
           UNCHANGED <<accounts, image, minted, past, caches>>
    PROVE  TypeInv'
<1> USE DEF caches
<1>1. CASE Finish(p)
    BY <1>1, FinishType
<1>2. CASE \E ids \in SUBSET Mine(p) \ {{}} :
              /\ todo' = [todo EXCEPT ![p] = ids]
              /\ Goto(p, "zip")
              /\ UNCHANGED <<who, tag, list, expired, dead, sent>>
    <2>1. Mine(p) \subseteq 1..minted
        BY BoundAssumption DEF Mine, Owned, TypeInv, TypeOK, RowsMinted, Within, ImageId
    <2>2. PICK ids \in SUBSET Mine(p) : /\ todo' = [todo EXCEPT ![p] = ids]
                                        /\ Goto(p, "zip")
                                        /\ UNCHANGED <<who, tag, list, expired, dead, sent>>
        BY <1>2
    <2>3. TypeOK'
        BY <2>1, <2>2 DEF TypeInv, TypeOK, Goto, Place
    <2>4. RowsMinted' /\ Aimed'
        BY <2>2 DEF TypeInv, TypeOK, RowsMinted, Within, Aimed, Aiming, Goto
    <2> QED
        BY <2>3, <2>4 DEF TypeInv
<1> QED
    BY <1>1, <1>2 DEF Got

LEMMA StepType ==
    ASSUME TypeInv, NEW p \in Process, Step(p)
    PROVE  TypeInv'
<1> USE DEF caches, locals
<1>1. CASE InsertFile(p)
    <2>1. minted + 1 \in ImageId /\ minted \in Nat
        BY <1>1, BoundAssumption DEF InsertFile, TypeInv, TypeOK, ImageId
    <2>2. NewRow(who[p], tag[p]) \in Row
        BY DEF TypeInv, TypeOK, NewRow, Row
    <2>3. image' \in Table
        BY <1>1, <2>1, <2>2 DEF InsertFile, TypeInv, TypeOK, Table
    <2>4. minted' \in 0..MaxImage /\ 1..minted \subseteq 1..minted'
        BY <1>1, <2>1, BoundAssumption DEF InsertFile, ImageId
    <2>5. TypeOK'
        BY <1>1, <2>3, <2>4 DEF InsertFile, TypeInv, TypeOK, Goto, Place
    <2>6. Within(image)'
        BY <1>1, <2>1, <2>3 DEF InsertFile, TypeInv, TypeOK, RowsMinted, Within, ImageId, Table
    <2>7. \A rows : Within(rows) => \A i \in ImageId : rows[i] # NoRow => i <= minted'
        BY <1>1, <2>1 DEF InsertFile, Within, ImageId
    <2>8. RowsMinted' /\ Aimed'
        BY <1>1, <2>6, <2>7
        DEF InsertFile, TypeInv, TypeOK, RowsMinted, Within, Aimed, Aiming, Goto
    <2> QED
        BY <2>5, <2>8 DEF TypeInv
<1>2. CASE RefuseFile(p)
    BY <1>2, MoveType DEF RefuseFile, Place, Aiming
<1>3. CASE DropImages(p)
    BY <1>3 DEF DropImages, TypeInv, TypeOK, RowsMinted, Within, Aimed, Aiming, Goto, Place
<1>4. CASE DropFiles(p)
    <2>1. TypeOK'
        BY <1>4, NullAssumption DEF DropFiles, TypeInv, TypeOK, Finish, Goto, Place
    <2>2. RowsMinted' /\ Aimed'
        BY <1>4
        DEF DropFiles, TypeInv, TypeOK, RowsMinted, Within, Aimed, Aiming, Finish, Goto
    <2> QED
        BY <2>1, <2>2 DEF TypeInv
<1>5. CASE FilesLookup(p)
    <2>1. CASE cachedFiles # NoList
        BY <1>5, <2>1, GotType DEF FilesLookup
    <2>2. CASE cachedFiles = NoList
        BY <1>5, <2>2, MoveType DEF FilesLookup, Place, Aiming
    <2> QED
        BY <2>1, <2>2
<1>6. CASE ImagesLookup(p)
    BY <1>6, MoveType DEF ImagesLookup, Place, Aiming
<1>7. CASE Select(p)
    BY <1>7, NullAssumption DEF Select, TypeInv, TypeOK, RowsMinted, Within, Aimed, Aiming, Goto, Place
<1>8. CASE SetFiles(p)
    BY <1>8 DEF SetFiles, TypeInv, TypeOK, RowsMinted, Within, Aimed, Aiming, Goto, Place
<1>9. CASE SetImages(p)
    BY <1>9 DEF SetImages, TypeInv, TypeOK, RowsMinted, Within, Aimed, Aiming, Goto, Place
<1>10. CASE FilesUnwrap(p)
    <2>1. CASE cachedFiles # NoList
        BY <1>10, <2>1, GotType DEF FilesUnwrap
    <2>2. CASE cachedFiles = NoList
        BY <1>10, <2>2, MoveType DEF FilesUnwrap, Place, Aiming
    <2> QED
        BY <2>1, <2>2
<1>11. CASE Panicked(p) \/ Respond(p)
    BY <1>11, FinishType DEF Panicked, Respond
<1>12. CASE ZipFile(p)
    BY <1>12 DEF ZipFile, TypeInv, TypeOK, RowsMinted, Within, Aimed, Aiming
<1>13. CASE Lookup(p)
    <2>1. CASE Finish(p)
        BY <1>13, <2>1, FinishType DEF Lookup
    <2>2. CASE ~Finish(p)
        BY <1>13, <2>2, MoveType, TargetNamed DEF Lookup, Place, Aiming
    <2> QED
        BY <2>1, <2>2
<1>14. CASE ReadImage(p)
    <2>1. CASE Finish(p)
        BY <1>14, <2>1, FinishType DEF ReadImage
    <2>2. CASE ~Finish(p) /\ who[p] = Nobody
        <3>1. PICK i : /\ i = Target(p)
                       /\ Goto(p, "serve")
                       /\ todo' = [todo EXCEPT ![p] = {}]
                       /\ sent' = [sent EXCEPT ![p] = {i}]
                       /\ UNCHANGED <<who, tag, list, expired, dead>>
                       /\ Live(i) /\ UNCHANGED <<accounts, image, minted, past, caches>>
            BY <1>14, <2>2 DEF ReadImage, Deliver
        <3>2. i \in 1..minted
            BY <1>14, <3>1, TargetNamed DEF ReadImage, Aiming
        <3> QED
            BY <3>1, <3>2 DEF TypeInv, TypeOK, RowsMinted, Within, Aimed, Aiming, Goto, Place
    <2>3. CASE ~Finish(p) /\ who[p] # Nobody
        BY <1>14, <2>3, MoveType, TargetNamed DEF ReadImage, Place, Aiming
    <2> QED
        BY <2>1, <2>2, <2>3
<1>15. CASE DeleteImage(p)
    <2>1. CASE Finish(p) /\ UNCHANGED image
        BY <1>15, <2>1, FinishType DEF DeleteImage
    <2>2. CASE DeleteOwned(Target(p), who[p]) /\ Goto(p, "drop_images") /\ UNCHANGED locals
        <3>1. PICK i \in ImageId : DeleteOwned(i, who[p])
            BY <1>15, <2>2, TargetNamed DEF DeleteImage, Aiming
        <3>2. image' \in Table /\ \A j \in ImageId : image'[j] # NoRow => image[j] # NoRow
            BY <3>1, OwnedTable DEF TypeInv
        <3> QED
            BY <1>15, <2>2, <3>2, ShrinkType DEF DeleteImage, Place, Aiming, TypeInv, TypeOK
    <2> QED
        BY <1>15, <2>1, <2>2 DEF DeleteImage
<1>16. CASE BulkDeleteOne(p)
    <2>1. PICK i \in todo[p] :
             /\ todo' = [todo EXCEPT ![p] = todo[p] \ {i}]
             /\ (DeleteOwned(i, who[p]) /\ Goto(p, "bulk_ok")) \/ UNCHANGED <<image, pc>>
        BY <1>16 DEF BulkDeleteOne
    <2>2. i \in ImageId
        BY BoundAssumption DEF TypeInv, TypeOK, ImageId
    <2>3. image' \in Table /\ \A j \in ImageId : image'[j] # NoRow => image[j] # NoRow
        BY <2>1, <2>2, OwnedTable DEF TypeInv, TypeOK
    <2>4. TypeOK'
        BY <1>16, <2>1, <2>3 DEF BulkDeleteOne, TypeInv, TypeOK, Goto, Place
    <2>5. RowsMinted' /\ Aimed'
        BY <1>16, <2>1, <2>3
        DEF BulkDeleteOne, TypeInv, TypeOK, RowsMinted, Within, Aimed, Aiming, Goto
    <2> QED
        BY <2>4, <2>5 DEF TypeInv
<1>17. CASE BulkDone(p)
    <2>1. CASE Finish(p)
        BY <1>17, <2>1, FinishType DEF BulkDone
    <2>2. CASE ~Finish(p)
        BY <1>17, <2>2, MoveType DEF BulkDone, Place, Aiming
    <2> QED
        BY <2>1, <2>2
<1> QED
    BY <1>1, <1>2, <1>3, <1>4, <1>5, <1>6, <1>7, <1>8, <1>9, <1>10, <1>11, <1>12, <1>13,
       <1>14, <1>15, <1>16, <1>17 DEF Step

LEMMA PurgedTable ==
    ASSUME TypeOK, NEW p, NEW a, NEW deleteImages \in BOOLEAN, PurgeAccount(p, a, deleteImages)
    PROVE  /\ image' \in Table
           /\ \A i \in ImageId : image'[i] # NoRow => image[i] # NoRow
<1>1. \A i \in ImageId : i \in Owned(image, a) => image[i] \in Row /\ image[i] # NoRow
    BY DEF Owned, TypeOK, Table
<1>2. \A i \in ImageId : i \in Owned(image, a) => NewRow(Nobody, image[i].guild) \in Row
    BY <1>1 DEF NewRow, Row
<1> QED
    BY <1>1, <1>2 DEF PurgeAccount, TypeOK, Table

LEMMA RequestType ==
    ASSUME TypeInv, NEW p \in Process, Request(p)
    PROVE  TypeInv'
<1> USE DEF caches, locals
<1>1. ASSUME NEW a \in Account, ListFiles(p, a)
      PROVE  TypeInv'
    BY <1>1, StartType DEF ListFiles, Place, Aiming
<1>2. ASSUME NEW a \in Account, NEW g \in Guild \cup {NoGuild}, Upload(p, a, g)
      PROVE  TypeInv'
    BY <1>2, StartType DEF Upload, Place, Aiming
<1>3. ASSUME NEW a \in Account, NEW ids \in SUBSET (1..minted), BulkDelete(p, a, ids)
      PROVE  TypeInv'
    BY <1>3, StartType DEF BulkDelete, Place, Aiming
<1>4. ASSUME NEW a \in Account, NEW deleteImages \in BOOLEAN, PurgeAccount(p, a, deleteImages)
      PROVE  TypeInv'
    <2>1. PICK place \in {"drop_images", "idle"} : Goto(p, place)
        BY <1>4 DEF PurgeAccount
    <2>2. accounts' \subseteq Account
        BY <1>4 DEF PurgeAccount, TypeInv, TypeOK
    <2> QED
        BY <1>4, <2>1, <2>2, PurgedTable, ShrinkType DEF PurgeAccount, Place, Aiming, TypeInv
<1>5. ASSUME NEW a \in Account \cup {Nobody}, NEW i \in ImageId, GetImage(p, a, i)
      PROVE  TypeInv'
    <2>1. {i} \in SUBSET (1..minted) /\ {i} # {}
        BY <1>5 DEF GetImage
    <2> QED
        BY <1>5, <2>1, StartType DEF GetImage, Place, Aiming
<1>6. ASSUME NEW g \in Guild, NEW i \in ImageId, DeleteGuildImage(p, g, i)
      PROVE  TypeInv'
    <2>1. image' \in Table /\ \A j \in ImageId : image'[j] # NoRow => image[j] # NoRow
        BY <1>6 DEF DeleteGuildImage, TypeInv, TypeOK, Table
    <2> QED
        BY <1>6, <2>1, ShrinkType DEF DeleteGuildImage, Place, Aiming, TypeInv, TypeOK
<1> QED
    BY <1>1, <1>2, <1>3, <1>4, <1>5, <1>6 DEF Request

LEMMA EnvironmentType ==
    ASSUME TypeInv, Environment
    PROVE  TypeInv'
<1> USE DEF caches, locals
<1>1. CASE Reap
    <2>1. image' \in Table /\ \A i \in ImageId : image'[i] # NoRow => image[i] # NoRow
        BY <1>1 DEF Reap, TypeInv, TypeOK, Table
    <2> QED
        BY <1>1, <2>1, ReaperProcess, ShrinkType DEF Reap, Place, Aiming, TypeInv, TypeOK
<1>2. CASE Elapse
    BY <1>2 DEF Elapse, TypeInv, TypeOK, RowsMinted, Within, Aimed
<1>3. ASSUME NEW a \in Account, Signup(a)
      PROVE  TypeInv'
    BY <1>3 DEF Signup, TypeInv, TypeOK, RowsMinted, Within, Aimed
<1>4. ASSUME NEW i \in ImageId, Expire(i)
      PROVE  TypeInv'
    BY <1>4 DEF Expire, TypeInv, TypeOK, RowsMinted, Within, Aimed
<1>5. ASSUME NEW p \in Client, Disconnect(p)
      PROVE  TypeInv'
    BY <1>5, ReaperProcess, FinishType DEF Disconnect
<1> QED
    BY <1>1, <1>2, <1>3, <1>4, <1>5 DEF Environment

LEMMA NextType == TypeInv /\ [Next]_vars => TypeInv'
<1>1. ASSUME TypeInv, UNCHANGED vars
      PROVE  TypeInv'
    BY <1>1 DEF vars, caches, locals, TypeInv, TypeOK, RowsMinted, Within, Aimed
<1> QED
    BY <1>1, StepType, RequestType, EnvironmentType DEF Next

(* Table, lists and locals keep their types, and no row is of an id that was *)
(* not given out.                                                            *)
THEOREM TypeCorrect == Spec => []TypeOK
<1>1. TypeInv => TypeOK
    BY DEF TypeInv
<1> QED
    BY <1>1, TypeInit, NextType, PTL DEF Spec

-----------------------------------------------------------------------------
(* What is sent.  An id that was gone or past stays so, a request sends only *)
(* at the end, and a ZIP goes only after ids that had not expired.           *)

DeadGone == \A p \in Process : \A i \in dead[p] : image[i] = NoRow \/ i \in past

(* Who is still after the list will leave out what had expired by its clock. *)
Listing == {"files", "images", "select", "set_files", "set_images", "files_again"}

DeadSeen ==
    \A p \in Process : pc[p] \in Listing => \A i \in dead[p] : image[i] = NoRow \/ i \in expired[p]

SentLast == \A p \in Process : pc[p] \notin {"zip", "serve"} => sent[p] = {}

ZipsNothingDead ==
    \A p \in Process : pc[p] = "zip" => \A i \in todo[p] \cap dead[p] : image[i] = NoRow

GoneInv == TypeInv /\ DeadGone /\ DeadSeen /\ SentLast /\ ZipsNothingDead /\ GoneStaysGone

LEMMA GoneInit == Init => GoneInv
BY TypeInit DEF Init, GoneInv, DeadGone, DeadSeen, Listing, SentLast, ZipsNothingDead, GoneStaysGone

(* Rows of ids given out go, and others keep their place. *)
StillGone == \A i \in 1..minted : image[i] = NoRow => image'[i] = NoRow

LEMMA GoneFinish ==
    ASSUME GoneInv, TypeInv', NEW p \in Process, Finish(p), UNCHANGED <<image, past>>
    PROVE  GoneInv'
BY DEF GoneInv, TypeInv, TypeOK, Finish, Goto,
       DeadGone, DeadSeen, Listing, SentLast, ZipsNothingDead, GoneStaysGone

(* The steps that send nothing, and add nothing to what is asked for. *)
LEMMA GoneMove ==
    ASSUME GoneInv, TypeInv', NEW p \in Process, NEW place \in Place \ {"zip"},
           Goto(p, place), sent[p] = {} \/ place = "serve", StillGone, past \subseteq past',
           UNCHANGED <<expired, dead, sent>>, place \notin Listing \/ pc[p] \in Listing,
           \A q \in Process \ {p} : todo'[q] = todo[q]
    PROVE  GoneInv'
BY DEF GoneInv, TypeInv, TypeOK, Goto, StillGone,
       DeadGone, DeadSeen, Listing, SentLast, ZipsNothingDead, GoneStaysGone

LEMMA GoneStart ==
    ASSUME GoneInv, TypeInv', NEW p \in Process, NEW place \in Place \ {"zip", "serve"},
           NEW a, NEW g, NEW ids, Start(p, place, a, g, ids)
    PROVE  GoneInv'
<1>1. \A i \in Dead : image[i] = NoRow \/ i \in past
    BY DEF Dead, Live
<1> QED
    BY <1>1 DEF GoneInv, TypeInv, TypeOK, Start, Goto, caches,
       DeadGone, DeadSeen, Listing, SentLast, ZipsNothingDead, GoneStaysGone

LEMMA GoneGot ==
    ASSUME GoneInv, TypeInv', NEW p \in Process, pc[p] \in {"files", "files_again"}, Got(p),
           UNCHANGED <<image, past>>
    PROVE  GoneInv'
<1>1. CASE Finish(p)
    BY <1>1, GoneFinish
<1>2. CASE ~Finish(p)
    <2>1. PICK ids \in SUBSET Mine(p) : /\ todo' = [todo EXCEPT ![p] = ids]
                                        /\ Goto(p, "zip")
                                        /\ UNCHANGED <<who, tag, list, expired, dead, sent>>
        BY <1>2 DEF Got
    <2>2. \A i \in ids : i \notin expired[p]
        BY DEF Mine
    <2> QED
        BY <2>1, <2>2 DEF GoneInv, TypeInv, TypeOK, Goto,
           DeadGone, DeadSeen, Listing, SentLast, ZipsNothingDead, GoneStaysGone
<1> QED
    BY <1>1, <1>2

LEMMA OwnedGone ==
    ASSUME TypeOK, NEW i \in ImageId, NEW a, DeleteOwned(i, a)
    PROVE  StillGone
BY BoundAssumption DEF DeleteOwned, TypeOK, Table, StillGone, ImageId

LEMMA GoneStep ==
    ASSUME GoneInv, TypeInv', NEW p \in Process, Step(p)
    PROVE  GoneInv'
<1> USE DEF caches, locals
<1>0. UNCHANGED image => StillGone
    BY DEF StillGone
<1>1. CASE InsertFile(p)
    <2>1. StillGone
        BY <1>1, BoundAssumption DEF InsertFile, GoneInv, TypeInv, TypeOK, StillGone, Table, ImageId
    <2> QED
        BY <1>1, <2>1, GoneMove DEF InsertFile, Place, Listing, GoneInv, SentLast
<1>2. CASE RefuseFile(p)
    BY <1>0, <1>2, GoneMove DEF RefuseFile, Place, Listing, GoneInv, SentLast
<1>3. CASE DropImages(p)
    BY <1>0, <1>3, GoneMove DEF DropImages, Place, Listing, GoneInv, SentLast
<1>4. CASE DropFiles(p)
    BY <1>4, GoneFinish DEF DropFiles
<1>5. CASE FilesLookup(p)
    <2>1. CASE cachedFiles # NoList
        BY <1>5, <2>1, GoneGot DEF FilesLookup
    <2>2. CASE cachedFiles = NoList
        BY <1>0, <1>5, <2>2, GoneMove DEF FilesLookup, Place, Listing, GoneInv, SentLast
    <2> QED
        BY <2>1, <2>2
<1>6. CASE ImagesLookup(p)
    BY <1>0, <1>6, GoneMove DEF ImagesLookup, Place, Listing, GoneInv, SentLast
<1>7. CASE Select(p)
    BY <1>0, <1>7, GoneMove DEF Select, Place, Listing, GoneInv, SentLast
<1>8. CASE SetFiles(p)
    BY <1>0, <1>8, GoneMove DEF SetFiles, Place, Listing, GoneInv, SentLast
<1>9. CASE SetImages(p)
    BY <1>0, <1>9, GoneMove DEF SetImages, Place, Listing, GoneInv, SentLast
<1>10. CASE FilesUnwrap(p)
    <2>1. CASE cachedFiles # NoList
        BY <1>10, <2>1, GoneGot DEF FilesUnwrap
    <2>2. CASE cachedFiles = NoList
        BY <1>0, <1>10, <2>2, GoneMove DEF FilesUnwrap, Place, Listing, GoneInv, SentLast
    <2> QED
        BY <2>1, <2>2
<1>11. CASE Panicked(p) \/ Respond(p)
    BY <1>11, GoneFinish DEF Panicked, Respond
<1>12. CASE ZipFile(p)
    <2>1. PICK i \in todo[p] :
             /\ todo' = [todo EXCEPT ![p] = todo[p] \ {i}]
             /\ sent' = [sent EXCEPT ![p] = IF Live(i) THEN sent[p] \cup {i} ELSE sent[p]]
        BY <1>12 DEF ZipFile
    <2>2. Live(i) => i \notin dead[p]
        BY <1>12, <2>1 DEF ZipFile, GoneInv, ZipsNothingDead, Live
    <2> QED
        BY <1>12, <2>1, <2>2 DEF ZipFile, GoneInv, TypeInv, TypeOK,
           DeadGone, DeadSeen, Listing, SentLast, ZipsNothingDead, GoneStaysGone
<1>13. CASE Lookup(p)
    <2>1. CASE Finish(p)
        BY <1>13, <2>1, GoneFinish DEF Lookup
    <2>2. CASE ~Finish(p)
        BY <1>0, <1>13, <2>2, GoneMove DEF Lookup, Place, Listing, GoneInv, SentLast
    <2> QED
        BY <2>1, <2>2
<1>14. CASE ReadImage(p)
    <2>1. CASE Finish(p)
        BY <1>14, <2>1, GoneFinish DEF ReadImage
    <2>2. CASE ~Finish(p) /\ who[p] = Nobody
        <3>1. PICK i : /\ Goto(p, "serve")
                       /\ todo' = [todo EXCEPT ![p] = {}]
                       /\ sent' = [sent EXCEPT ![p] = {i}]
                       /\ UNCHANGED <<expired, dead>>
                       /\ Live(i) /\ i \notin past /\ UNCHANGED <<image, past>>
            BY <1>14, <2>2 DEF ReadImage, Deliver
        <3>2. i \notin dead[p]
            BY <3>1 DEF GoneInv, DeadGone, Live
        <3> QED
            BY <3>1, <3>2 DEF GoneInv, TypeInv, TypeOK, Goto,
               DeadGone, DeadSeen, Listing, SentLast, ZipsNothingDead, GoneStaysGone
    <2>3. CASE ~Finish(p) /\ who[p] # Nobody
        BY <1>0, <1>14, <2>3, GoneMove DEF ReadImage, Place, Listing, GoneInv, SentLast
    <2> QED
        BY <2>1, <2>2, <2>3
<1>15. CASE DeleteImage(p)
    <2>1. CASE Finish(p) /\ UNCHANGED image
        BY <1>15, <2>1, GoneFinish DEF DeleteImage
    <2>2. CASE DeleteOwned(Target(p), who[p]) /\ Goto(p, "drop_images") /\ UNCHANGED locals
        <3>1. PICK i \in ImageId : DeleteOwned(i, who[p])
            BY <1>15, <2>2, TargetNamed DEF DeleteImage, Aiming, GoneInv
        <3>2. StillGone
            BY <3>1, OwnedGone DEF GoneInv, TypeInv
        <3> QED
            BY <1>15, <2>2, <3>2, GoneMove DEF DeleteImage, Place, Listing, GoneInv, SentLast
    <2> QED
        BY <1>15, <2>1, <2>2 DEF DeleteImage
<1>16. CASE BulkDeleteOne(p)
    <2>1. PICK i \in todo[p] :
             /\ todo' = [todo EXCEPT ![p] = todo[p] \ {i}]
             /\ (DeleteOwned(i, who[p]) /\ Goto(p, "bulk_ok")) \/ UNCHANGED <<image, pc>>
        BY <1>16 DEF BulkDeleteOne
    <2>2. i \in ImageId
        BY BoundAssumption DEF GoneInv, TypeInv, TypeOK, ImageId
    <2>3. StillGone
        BY <1>0, <2>1, <2>2, OwnedGone DEF GoneInv, TypeInv
    <2> QED
        BY <1>16, <2>1, <2>3 DEF BulkDeleteOne, GoneInv, TypeInv, TypeOK, Goto, StillGone,
           DeadGone, DeadSeen, Listing, SentLast, ZipsNothingDead, GoneStaysGone
<1>17. CASE BulkDone(p)
    <2>1. CASE Finish(p)
        BY <1>17, <2>1, GoneFinish DEF BulkDone
    <2>2. CASE ~Finish(p)
        BY <1>0, <1>17, <2>2, GoneMove DEF BulkDone, Place, Listing, GoneInv, SentLast
    <2> QED
        BY <2>1, <2>2
<1> QED
    BY <1>1, <1>2, <1>3, <1>4, <1>5, <1>6, <1>7, <1>8, <1>9, <1>10, <1>11, <1>12, <1>13,
       <1>14, <1>15, <1>16, <1>17 DEF Step

LEMMA GoneRequest ==
    ASSUME GoneInv, TypeInv', NEW p \in Process, Request(p)
    PROVE  GoneInv'
<1> USE DEF caches, locals
<1>1. ASSUME NEW a \in Account, ListFiles(p, a)
      PROVE  GoneInv'
    BY <1>1, GoneStart DEF ListFiles, Place
<1>2. ASSUME NEW a \in Account, NEW g \in Guild \cup {NoGuild}, Upload(p, a, g)
      PROVE  GoneInv'
    BY <1>2, GoneStart DEF Upload, Place
<1>3. ASSUME NEW a \in Account, NEW ids \in SUBSET (1..minted), BulkDelete(p, a, ids)
      PROVE  GoneInv'
    BY <1>3, GoneStart DEF BulkDelete, Place
<1>4. ASSUME NEW a \in Account, NEW deleteImages \in BOOLEAN, PurgeAccount(p, a, deleteImages)
      PROVE  GoneInv'
    <2>1. StillGone
        BY <1>4, PurgedTable, BoundAssumption DEF StillGone, GoneInv, TypeInv, TypeOK, ImageId
    <2>2. PICK place \in {"drop_images", "idle"} : Goto(p, place)
        BY <1>4 DEF PurgeAccount
    <2> QED
        BY <1>4, <2>1, <2>2, GoneMove DEF PurgeAccount, Place, Listing, GoneInv, SentLast
<1>5. ASSUME NEW a \in Account \cup {Nobody}, NEW i \in ImageId, GetImage(p, a, i)
      PROVE  GoneInv'
    BY <1>5, GoneStart DEF GetImage, Place
<1>6. ASSUME NEW g \in Guild, NEW i \in ImageId, DeleteGuildImage(p, g, i)
      PROVE  GoneInv'
    <2>1. StillGone
        BY <1>6, BoundAssumption
        DEF DeleteGuildImage, StillGone, GoneInv, TypeInv, TypeOK, Table, ImageId
    <2> QED
        BY <1>6, <2>1, GoneMove DEF DeleteGuildImage, Place, Listing, GoneInv, SentLast
<1> QED
    BY <1>1, <1>2, <1>3, <1>4, <1>5, <1>6 DEF Request

LEMMA GoneNext == GoneInv /\ [Next]_vars => GoneInv'
<1> SUFFICES ASSUME GoneInv, [Next]_vars PROVE GoneInv'
    OBVIOUS
<1>0. TypeInv'
    BY NextType DEF GoneInv
<1> USE DEF caches, locals
<1>1. ASSUME NEW p \in Process, Step(p) \/ Request(p)
      PROVE  GoneInv'
    BY <1>0, <1>1, GoneStep, GoneRequest
<1>2. CASE Reap
    <2>1. StillGone
        BY <1>2, BoundAssumption DEF Reap, StillGone, GoneInv, TypeInv, TypeOK, Table, ImageId
    <2> QED
        BY <1>0, <1>2, <2>1, ReaperProcess, GoneMove DEF Reap, Place, Listing, GoneInv, SentLast
<1>3. ASSUME NEW p \in Client, Disconnect(p)
      PROVE  GoneInv'
    BY <1>0, <1>3, ReaperProcess, GoneFinish DEF Disconnect
<1>4. CASE Elapse \/ (\E a \in Account : Signup(a)) \/ (\E i \in ImageId : Expire(i)) \/ UNCHANGED vars
    <2>1. UNCHANGED <<image, pc, todo, expired, dead, sent>> /\ past \subseteq past'
        BY <1>4 DEF Elapse, Signup, Expire, vars
    <2> QED
        BY <1>0, <2>1 DEF GoneInv, DeadGone, DeadSeen, Listing, SentLast, ZipsNothingDead, GoneStaysGone
<1> QED
    BY <1>1, <1>2, <1>3, <1>4 DEF Next, Environment

(* What was gone or had expired when a request came in is not sent to it,    *)
(* however old the lists are that it goes by.                                *)
THEOREM GoneCorrect == Spec => []GoneStaysGone
<1>1. GoneInv => GoneStaysGone
    BY DEF GoneInv
<1> QED
    BY <1>1, GoneInit, GoneNext, PTL DEF Spec

-----------------------------------------------------------------------------
(* Who deletes.  The reaper only reaps, so whoever is at a deletion is a     *)
(* request, and the statement names the account the request acts for.       *)

ReaperReaps == pc[Reaper] \in {"idle", "drop_images", "drop_files"}

OwnerInv == TypeInv /\ ReaperReaps

(* An image leaves the table as DeletedByUploader allows. *)
ByUploader(i) ==
    \/ image[i].uploader \in accounts \ accounts'
    \/ \E p \in Client : /\ pc[p] \in {"delete", "bulk", "bulk_ok"}
                         /\ i \in todo[p]
                         /\ who[p] = image[i].uploader

OnlyByUploader ==
    \A i \in ImageId :
        Live(i) /\ ~Live(i)' /\ i \notin past /\ image[i].guild = NoGuild => ByUploader(i)

LEMMA ReaperNext == OwnerInv /\ [Next]_vars => ReaperReaps'
<1> SUFFICES ASSUME OwnerInv, [Next]_vars PROVE ReaperReaps'
    OBVIOUS
<1> USE DEF OwnerInv, TypeInv, TypeOK, ReaperReaps
<1>1. CASE UNCHANGED vars
    BY <1>1 DEF vars
<1>2. ASSUME NEW p \in Process, Step(p)
      PROVE  ReaperReaps'
    <2>1. CASE p = Reaper
        BY <1>2, <2>1
        DEF Step, InsertFile, RefuseFile, DropImages, DropFiles, FilesLookup, ImagesLookup,
            Select, SetFiles, SetImages, FilesUnwrap, Panicked, ZipFile, Respond, Lookup,
            ReadImage, DeleteImage, BulkDeleteOne, BulkDone, Finish, Goto
    <2>2. CASE p # Reaper
        <3>1. UNCHANGED pc \/ \E place \in Place : Goto(p, place)
            <4>1. Finish(p) => Goto(p, "idle")
                BY DEF Finish
            <4> QED
                BY <1>2, <4>1
                DEF Step, InsertFile, RefuseFile, DropImages, DropFiles, FilesLookup, Got,
                    ImagesLookup, Select, SetFiles, SetImages, FilesUnwrap, Panicked, ZipFile,
                    Respond, Lookup, ReadImage, Deliver, DeleteImage, BulkDeleteOne, BulkDone, Place
        <3> QED
            BY <2>2, <3>1, ReaperProcess DEF Goto
    <2> QED
        BY <2>1, <2>2
<1>3. ASSUME NEW p \in Process, Request(p)
      PROVE  ReaperReaps'
    <2>1. p \in Client /\ p # Reaper
        BY <1>3, ProcessAssumption
        DEF Request, ListFiles, Upload, BulkDelete, PurgeAccount, GetImage, DeleteGuildImage, Start
    <2>2. \E place : Goto(p, place)
        BY <1>3
        DEF Request, ListFiles, Upload, BulkDelete, PurgeAccount, GetImage, DeleteGuildImage, Start
    <2> QED
        BY <2>1, <2>2, ReaperProcess DEF Goto
<1>4. CASE Environment
    BY <1>4, ReaperProcess, ProcessAssumption
    DEF Environment, Reap, Elapse, Signup, Expire, Disconnect, Finish, Goto
<1> QED
    BY <1>1, <1>2, <1>3, <1>4 DEF Next

LEMMA OwnedDeletion ==
    ASSUME TypeOK, NEW p \in Client, NEW i \in ImageId, i \in todo[p],
           pc[p] \in {"delete", "bulk", "bulk_ok"}, DeleteOwned(i, who[p])
    PROVE  OnlyByUploader
BY DEF DeleteOwned, OnlyByUploader, ByUploader, Live, TypeOK, Table

LEMMA OwnerStep ==
    ASSUME OwnerInv, NEW p \in Process, Step(p)
    PROVE  OnlyByUploader
<1> USE DEF OwnerInv
<1>1. CASE InsertFile(p)
    <2>1. NewRow(who[p], tag[p]) # NoRow
        BY NullAssumption DEF TypeInv, TypeOK, NewRow, Row
    <2> QED
        BY <1>1, <2>1 DEF InsertFile, OnlyByUploader, Live, TypeInv, TypeOK, Table
<1>2. CASE DeleteImage(p)
    <2>1. CASE UNCHANGED image
        BY <2>1 DEF OnlyByUploader, Live
    <2>2. CASE DeleteOwned(Target(p), who[p])
        <3>1. p \in Client
            BY <1>2 DEF DeleteImage, ReaperReaps, Process
        <3>2. PICK i \in ImageId : i \in todo[p] /\ DeleteOwned(i, who[p])
            BY <1>2, <2>2, TargetNamed DEF DeleteImage, Aiming
        <3> QED
            BY <1>2, <3>1, <3>2, OwnedDeletion DEF DeleteImage, TypeInv
    <2> QED
        BY <1>2, <2>1, <2>2 DEF DeleteImage
<1>3. CASE BulkDeleteOne(p)
    <2>1. p \in Client
        BY <1>3 DEF BulkDeleteOne, ReaperReaps, Process
    <2>2. PICK i \in todo[p] : DeleteOwned(i, who[p]) \/ UNCHANGED image
        BY <1>3 DEF BulkDeleteOne
    <2>3. i \in ImageId
        BY BoundAssumption DEF TypeInv, TypeOK, ImageId
    <2>4. CASE UNCHANGED image
        BY <2>4 DEF OnlyByUploader, Live
    <2>5. CASE DeleteOwned(i, who[p])
        BY <1>3, <2>1, <2>3, <2>5, OwnedDeletion DEF BulkDeleteOne, TypeInv
    <2> QED
        BY <2>2, <2>4, <2>5
<1>4. CASE UNCHANGED image
    BY <1>4 DEF OnlyByUploader, Live
<1> QED
    BY <1>1, <1>2, <1>3, <1>4
    DEF Step, RefuseFile, DropImages, DropFiles, FilesLookup, ImagesLookup, Select, SetFiles,
        SetImages, FilesUnwrap, Panicked, ZipFile, Respond, Lookup, ReadImage, BulkDone

LEMMA OwnerNext == OwnerInv /\ [Next]_vars => OnlyByUploader
<1> SUFFICES ASSUME OwnerInv, [Next]_vars PROVE OnlyByUploader
    OBVIOUS
<1>1. ASSUME NEW p \in Process, Step(p)
      PROVE  OnlyByUploader
    BY <1>1, OwnerStep
<1>2. ASSUME NEW p \in Process, NEW a \in Account, NEW deleteImages \in BOOLEAN,
             PurgeAccount(p, a, deleteImages)
      PROVE  OnlyByUploader
    <2>1. \A i \in ImageId : Live(i) /\ ~Live(i)' => i \in Owned(image, a)
        BY <1>2 DEF PurgeAccount, Live
    <2>2. a \in accounts \ accounts'
        BY <1>2 DEF PurgeAccount
    <2> QED
        BY <2>1, <2>2 DEF OnlyByUploader, ByUploader, Owned
<1>3. ASSUME NEW p \in Process, NEW g \in Guild, NEW i \in ImageId, DeleteGuildImage(p, g, i)
      PROVE  OnlyByUploader
    BY <1>3, NullAssumption
    DEF DeleteGuildImage, OnlyByUploader, Live, OwnerInv, TypeInv, TypeOK, Table
<1>4. CASE Reap
    BY <1>4 DEF Reap, Reapable, OnlyByUploader, Live
<1>5. CASE UNCHANGED image
    BY <1>5 DEF OnlyByUploader, Live
<1> QED
    BY <1>1, <1>2, <1>3, <1>4, <1>5
    DEF Next, Request, Environment, ListFiles, Upload, BulkDelete, GetImage, Start, Elapse,
        Signup, Expire, Disconnect, vars

(* An image that has not expired and is not a guild's goes with its          *)
(* uploader's account or by a request of its uploader, whatever is cached.   *)
THEOREM OwnerCorrect == Spec => DeletedByUploader
<1>1. Init => OwnerInv
    BY TypeInit, ReaperProcess DEF OwnerInv, ReaperReaps, Init
<1>2. OwnerInv /\ [Next]_vars => OwnerInv'
    BY NextType, ReaperNext DEF OwnerInv
<1>3. OwnerInv /\ [Next]_vars =>
        [\A i \in ImageId :
            Live(i) /\ ~Live(i)' /\ i \notin past /\ image[i].guild = NoGuild
            => \/ image[i].uploader \in accounts \ accounts'
               \/ \E p \in Client : /\ pc[p] \in {"delete", "bulk", "bulk_ok"}
                                    /\ i \in todo[p]
                                    /\ who[p] = image[i].uploader]_vars
    BY OwnerNext DEF OnlyByUploader, ByUploader
<1> QED
    BY <1>1, <1>2, <1>3, PTL DEF Spec, DeletedByUploader

=============================================================================
