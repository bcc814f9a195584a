--------------------------- MODULE GuildGalleryProof ---------------------------
(***************************************************************************)
(* What is proved of GuildGallery, for any number of handlers, guilds,     *)
(* keys and images: its type, that a key works until it is revoked, that   *)
(* calls repeated after one that was alone return its key until a lookup   *)
(* fails, and that a walk through a gallery misses no image that stays but *)
(* those uploaded in the second of a page's last.                          *)
(*                                                                         *)
(* After it what is proved of RequestLog, for any number of requests and   *)
(* messages: its type, that a request is logged at most once, that a       *)
(* report's queries are answered, and that its parts agree.                *)
(***************************************************************************)
EXTENDS GuildGallery, RequestLog, FiniteSetTheorems, TLAPS

Place == {"idle", "lookup", "account", "mint", "store", "answer"}
Image == [of : Guild \cup {NoGuild}, state : {"gone", "live", "expired"}]

(* The type, in its two halves: the keys and the gallery.                   *)
KeysTyped ==
    /\ service \in BOOLEAN /\ minted \in 0..MaxKey
    /\ live \subseteq 1..minted /\ revoked \subseteq 1..minted
    /\ mapping \in [Guild -> 0..minted] /\ agreed \in [Guild -> 0..minted]
    /\ pc \in [Handler -> Place] /\ guild \in [Handler -> Guild \cup {NoGuild}]
    /\ key \in [Handler -> 0..minted] /\ told \in [Handler -> 0..minted]
    /\ alone \in [Handler -> BOOLEAN]

GalleryTyped ==
    /\ uploads \in 0..MaxImage /\ stamp \in [ImageId -> Nat] /\ image \in [ImageId -> Image]
    /\ reading \in Guild \cup {NoGuild} /\ cursor \in 0..uploads /\ must \subseteq ImageId

(* A handler has a guild while it is in a call, and a key once it has found *)
(* or minted one, which it does after the service account is there.         *)
CallInv ==
    /\ \A h \in Handler : pc[h] # "idle" => guild[h] \in Guild
    /\ \A h \in Handler : pc[h] = "idle" => guild[h] = NoGuild /\ told[h] = 0 /\ ~alone[h]
    /\ \A h \in Handler : pc[h] \in {"store", "answer"} => key[h] \in 1..minted
    /\ \A h \in Handler : pc[h] \in {"mint", "store"} => service
    /\ minted > 0 => service

(* Keys that work were not revoked.                                         *)
LiveInv == KeysLive /\ live \cap revoked = {}

(* What a guild can count on: a key it will be told again is the one that   *)
(* is stored, and works; a handler that found nothing to do about it has    *)
(* only to say so.  A call that is alone has nobody who could store after.  *)
AgreedInv ==
    /\ \A h \in Handler : alone[h] => Calling(guild[h]) = {h}
    /\ \A h \in Handler : alone[h] /\ pc[h] = "answer" => mapping[guild[h]] = key[h]
    /\ \A g \in Guild : agreed[g] # 0 => agreed[g] \in live /\ mapping[g] = agreed[g]
    /\ \A g \in Guild, h \in Handler :
          agreed[g] # 0 /\ guild[h] = g => /\ pc[h] \in {"lookup", "answer"}
                                           /\ pc[h] = "answer" => key[h] = agreed[g]
    /\ \A h \in Handler : told[h] # 0 /\ told[h] \notin revoked => agreed[guild[h]] = told[h]

KeysInv == KeysTyped /\ CallInv /\ LiveInv /\ AgreedInv

-----------------------------------------------------------------------------
LEMMA Bounds == /\ MaxKey \in Nat /\ MaxImage \in Nat /\ PageLimit \in Nat \ {0}
                /\ NoGuild \notin Guild
BY GalleryConstants DEF GalleryConstants

LEMMA KeysInit == Init => KeysInv
<1> SUFFICES ASSUME Init PROVE KeysInv
    OBVIOUS
<1>1. service \in BOOLEAN /\ alone \in [Handler -> BOOLEAN]
    BY Zenon DEF Init
<1>2. KeysTyped
    BY <1>1, Bounds DEF Init, KeysTyped, Place
<1>3. CallInv
    BY Bounds DEF Init, CallInv
<1>4. LiveInv /\ AgreedInv
    BY DEF Init, LiveInv, KeysLive, AgreedInv
<1> QED
    BY <1>2, <1>3, <1>4 DEF KeysInv

LEMMA FinishMoves ==
    ASSUME KeysTyped, NEW h \in Handler, Finish(h)
    PROVE  /\ pc' \in [Handler -> Place] /\ guild' \in [Handler -> Guild \cup {NoGuild}]
           /\ key' \in [Handler -> 0..minted] /\ told' \in [Handler -> 0..minted]
           /\ alone' \in [Handler -> BOOLEAN]
           /\ pc'[h] = "idle" /\ guild'[h] = NoGuild /\ told'[h] = 0 /\ ~alone'[h]
           /\ \A g \in Handler \ {h} :
                 /\ pc'[g] = pc[g] /\ guild'[g] = guild[g] /\ key'[g] = key[g]
                 /\ told'[g] = told[g] /\ alone'[g] = alone[g]
<1>1. alone' \in [Handler -> BOOLEAN]
    BY Zenon DEF Finish, KeysTyped
<1>2. 0 \in 0..minted
    BY Bounds DEF KeysTyped
<1> QED
    BY <1>1, <1>2 DEF Finish, Goto, KeysTyped, Place

LEMMA StartKeys ==
    ASSUME KeysInv, NEW h \in Handler, NEW g \in Guild, Start(h, g)
    PROVE  KeysInv'
<1> USE DEF KeysInv
<1>1. /\ pc[h] = "idle" /\ pc' = [pc EXCEPT ![h] = "lookup"]
      /\ guild' = [guild EXCEPT ![h] = g] /\ told' = [told EXCEPT ![h] = agreed[g]]
      /\ UNCHANGED <<service, minted, live, mapping, revoked, agreed, key>>
    BY DEF Start, Goto, keys
<1>2. alone' \in [Handler -> BOOLEAN]
    BY Zenon DEF Start, KeysTyped
<1>3. /\ alone'[h] => Calling(g) = {}
      /\ \A i \in Handler \ {h} : alone'[i] => alone[i] /\ guild[i] # g
    BY DEF Start, KeysTyped
<1>4. /\ pc'[h] = "lookup" /\ guild'[h] = g /\ told'[h] = agreed[g]
      /\ \A i \in Handler \ {h} : pc'[i] = pc[i] /\ guild'[i] = guild[i] /\ told'[i] = told[i]
    BY <1>1 DEF KeysTyped
<1>5. KeysTyped'
    BY <1>1, <1>2 DEF KeysTyped, Place
<1>6. CallInv'
    BY <1>1, <1>3, <1>4 DEF CallInv
<1>7. LiveInv'
    BY <1>1 DEF LiveInv, KeysLive
<1>8. AgreedInv'
    BY <1>1, <1>3, <1>4, <1>5 DEF AgreedInv, Calling, CallInv, KeysTyped
<1> QED
    BY <1>5, <1>6, <1>7, <1>8

(* A handler whose call ends, with what is agreed afterwards.               *)
LEMMA FinishKeys ==
    ASSUME KeysInv, NEW h \in Handler, Finish(h),
           UNCHANGED <<service, minted, live, mapping, revoked>>,
           \/ agreed' = agreed
           \/ /\ pc[h] = "answer" /\ alone[h] /\ key[h] \notin revoked
              /\ agreed' = [agreed EXCEPT ![guild[h]] = key[h]]
    PROVE  KeysInv'
<1> USE DEF KeysInv
<1>1. /\ pc' \in [Handler -> Place] /\ guild' \in [Handler -> Guild \cup {NoGuild}]
      /\ key' \in [Handler -> 0..minted] /\ told' \in [Handler -> 0..minted]
      /\ alone' \in [Handler -> BOOLEAN]
      /\ pc'[h] = "idle" /\ guild'[h] = NoGuild /\ told'[h] = 0 /\ ~alone'[h]
      /\ \A g \in Handler \ {h} :
            /\ pc'[g] = pc[g] /\ guild'[g] = guild[g] /\ key'[g] = key[g]
            /\ told'[g] = told[g] /\ alone'[g] = alone[g]
    BY FinishMoves
<1>2. agreed' \in [Guild -> 0..minted]
    BY DEF KeysTyped
<1>3. KeysTyped'
    BY <1>1, <1>2 DEF KeysTyped
<1>4. CallInv'
    BY <1>1 DEF CallInv
<1>5. LiveInv'
    BY DEF LiveInv, KeysLive
<1>6. AgreedInv'
    <2>1. CASE agreed' = agreed
        BY <1>1, <2>1, Bounds DEF AgreedInv, Calling, CallInv, KeysTyped
    <2>2. CASE /\ pc[h] = "answer" /\ alone[h] /\ key[h] \notin revoked
               /\ agreed' = [agreed EXCEPT ![guild[h]] = key[h]]
        <3>1. /\ guild[h] \in Guild /\ key[h] \in live /\ mapping[guild[h]] = key[h]
              /\ \A g \in Handler \ {h} : guild[g] # guild[h]
            BY <2>2 DEF AgreedInv, Calling, CallInv, LiveInv, KeysLive
        <3>2. agreed'[guild[h]] = key[h] /\ \A g \in Guild \ {guild[h]} : agreed'[g] = agreed[g]
            BY <2>2, <3>1 DEF KeysTyped
        <3>3. \A g \in Handler : alone'[g] => Calling(guild[g])' = {g}
            BY <1>1, Bounds DEF AgreedInv, Calling, CallInv, KeysTyped
        <3>4. \A g \in Handler : alone'[g] /\ pc'[g] = "answer" => mapping[guild'[g]] = key'[g]
            BY <1>1 DEF AgreedInv
        <3>5. \A g \in Handler \ {h} : told[g] # 0 /\ told[g] \notin revoked
                                        => agreed'[guild[g]] = told[g]
            BY <3>1, <3>2 DEF AgreedInv, CallInv, KeysTyped
        <3> QED
            BY <1>1, <3>1, <3>2, <3>3, <3>4, <3>5, Bounds DEF AgreedInv, Calling, KeysTyped
    <2> QED
        BY <2>1, <2>2
<1> QED
    BY <1>3, <1>4, <1>5, <1>6

LEMMA LookupKeys ==
    ASSUME KeysInv, NEW h \in Handler, Lookup(h)
    PROVE  KeysInv'
<1> USE DEF KeysInv
<1>1. PICK g \in Guild : g = guild[h]
    BY DEF Lookup, CallInv
<1>2. /\ pc[h] = "lookup"
      /\ \/ mapping[g] \in live /\ pc' = [pc EXCEPT ![h] = "answer"] /\ key' = [key EXCEPT ![h] = mapping[g]]
         \/ mapping[g] \notin live /\ pc' = [pc EXCEPT ![h] = AfterMiss] /\ key' = key
      /\ UNCHANGED <<service, minted, live, mapping, revoked, agreed, guild, told, alone>>
    BY <1>1 DEF Lookup, Goto, keys
<1>3. AfterMiss \in {"mint", "account"} /\ (AfterMiss = "mint" => service)
    BY DEF AfterMiss
<1>4. /\ \A i \in Handler \ {h} : pc'[i] = pc[i] /\ key'[i] = key[i]
      /\ mapping[g] \in live => pc'[h] = "answer" /\ key'[h] = mapping[g]
      /\ mapping[g] \notin live => pc'[h] = AfterMiss
    BY <1>2 DEF KeysTyped
<1>5. KeysTyped'
    BY <1>1, <1>2, <1>3 DEF KeysTyped, Place
<1>6. CallInv'
    BY <1>1, <1>2, <1>3, <1>4 DEF CallInv, KeysTyped
<1>7. LiveInv'
    BY <1>2 DEF LiveInv, KeysLive
<1>8. AgreedInv'
    BY <1>1, <1>2, <1>3, <1>4 DEF AgreedInv, Calling
<1> QED
    BY <1>5, <1>6, <1>7, <1>8

LEMMA LookupFailsKeys ==
    ASSUME KeysInv, NEW h \in Handler, LookupFails(h)
    PROVE  KeysInv'
<1> USE DEF KeysInv
<1>1. PICK g \in Guild : g = guild[h]
    BY DEF LookupFails, CallInv
<1>2. /\ pc[h] = "lookup" /\ pc' = [pc EXCEPT ![h] = AfterMiss]
      /\ agreed' = [agreed EXCEPT ![g] = 0]
      /\ told' = [i \in Handler |-> IF guild[i] = g THEN 0 ELSE told[i]]
      /\ UNCHANGED <<service, minted, live, mapping, revoked, guild, key, alone>>
    BY <1>1 DEF LookupFails, Goto
<1>3. AfterMiss \in {"mint", "account"} /\ (AfterMiss = "mint" => service)
    BY DEF AfterMiss
<1>4. /\ pc'[h] = AfterMiss /\ \A i \in Handler \ {h} : pc'[i] = pc[i]
      /\ agreed'[g] = 0 /\ \A other \in Guild \ {g} : agreed'[other] = agreed[other]
      /\ \A i \in Handler : told'[i] = IF guild[i] = g THEN 0 ELSE told[i]
    BY <1>2 DEF KeysTyped
<1>5. KeysTyped'
    BY <1>2, <1>3, Bounds DEF KeysTyped, Place
<1>6. CallInv'
    BY <1>2, <1>3, <1>4 DEF CallInv
<1>7. LiveInv'
    BY <1>2 DEF LiveInv, KeysLive
<1>8. AgreedInv'
    <2>1. \A i \in Handler : alone'[i] => Calling(guild[i])' = {i}
        BY <1>2 DEF AgreedInv, Calling
    <2>2. \A i \in Handler : alone'[i] /\ pc'[i] = "answer" => mapping'[guild'[i]] = key'[i]
        BY <1>2, <1>3, <1>4 DEF AgreedInv
    <2>3. \A i \in Handler : told'[i] # 0 /\ told'[i] \notin revoked' => agreed'[guild'[i]] = told'[i]
        <3> SUFFICES ASSUME NEW i \in Handler, told'[i] # 0, told'[i] \notin revoked'
                     PROVE  agreed'[guild[i]] = told'[i]
            BY <1>2
        <3>1. guild[i] # g /\ told'[i] = told[i] /\ agreed[guild[i]] = told[i]
            BY <1>2, <1>4 DEF AgreedInv
        <3>2. guild[i] \in Guild
            BY <1>4, <3>1 DEF CallInv, KeysTyped
        <3> QED
            BY <1>4, <3>1, <3>2
    <2> QED
        BY <1>1, <1>2, <1>4, <2>1, <2>2, <2>3 DEF AgreedInv
<1> QED
    BY <1>5, <1>6, <1>7, <1>8

LEMMA AccountKeys ==
    ASSUME KeysInv, NEW h \in Handler, EnsureAccount(h)
    PROVE  KeysInv'
<1> USE DEF KeysInv
<1>1. /\ pc[h] = "account" /\ service' = TRUE /\ pc' = [pc EXCEPT ![h] = "mint"]
      /\ UNCHANGED <<minted, live, mapping, revoked, agreed, guild, key, told, alone>>
    BY DEF EnsureAccount, Goto
<1>2. service' \in BOOLEAN
    BY <1>1, Zenon
<1>3. pc'[h] = "mint" /\ \A i \in Handler \ {h} : pc'[i] = pc[i]
    BY <1>1 DEF KeysTyped
<1>4. KeysTyped'
    BY <1>1, <1>2 DEF KeysTyped, Place
<1>5. CallInv'
    BY <1>1, <1>3 DEF CallInv
<1>6. LiveInv' /\ AgreedInv'
    BY <1>1, <1>3 DEF LiveInv, KeysLive, AgreedInv, Calling
<1> QED
    BY <1>4, <1>5, <1>6

LEMMA MintKeys ==
    ASSUME KeysInv, NEW h \in Handler, Mint(h)
    PROVE  KeysInv'
<1> USE DEF KeysInv
<1>1. /\ pc[h] = "mint" /\ minted < MaxKey /\ minted' = minted + 1
      /\ live' = live \cup {minted + 1} /\ key' = [key EXCEPT ![h] = minted + 1]
      /\ pc' = [pc EXCEPT ![h] = "store"]
      /\ UNCHANGED <<service, mapping, revoked, agreed, guild, told, alone>>
    BY DEF Mint, LiveWith, Goto
<1>2. /\ minted \in Nat /\ minted' \in 0..MaxKey
      /\ 0..minted \subseteq 0..minted' /\ 1..minted \subseteq 1..minted'
      /\ minted + 1 \in 1..minted' /\ minted + 1 \notin 1..minted /\ 1..minted' = 1..minted \cup {minted + 1}
    BY <1>1, Bounds DEF KeysTyped
<1>3. /\ pc'[h] = "store" /\ key'[h] = minted + 1
      /\ \A i \in Handler \ {h} : pc'[i] = pc[i] /\ key'[i] = key[i]
    BY <1>1 DEF KeysTyped
<1>4. KeysTyped'
    BY <1>1, <1>2 DEF KeysTyped, Place
<1>5. CallInv'
    BY <1>1, <1>2, <1>3 DEF CallInv
<1>6. LiveInv'
    BY <1>1, <1>2 DEF LiveInv, KeysLive, KeysTyped
<1>7. AgreedInv'
    BY <1>1, <1>3 DEF AgreedInv, Calling
<1> QED
    BY <1>4, <1>5, <1>6, <1>7

LEMMA StoreKeys ==
    ASSUME KeysInv, NEW h \in Handler, Store(h)
    PROVE  KeysInv'
<1> USE DEF KeysInv
<1>1. PICK g \in Guild : g = guild[h]
    BY DEF Store, CallInv
<1>2. /\ pc[h] = "store" /\ mapping' = [mapping EXCEPT ![g] = key[h]]
      /\ pc' = [pc EXCEPT ![h] = "answer"]
      /\ UNCHANGED <<service, minted, live, revoked, agreed, guild, key, told, alone>>
    BY <1>1 DEF Store, Stored, Goto
<1>3. /\ pc'[h] = "answer" /\ mapping'[g] = key[h]
      /\ \A i \in Handler \ {h} : pc'[i] = pc[i]
      /\ \A other \in Guild \ {g} : mapping'[other] = mapping[other]
    BY <1>2 DEF KeysTyped
<1>4. KeysTyped'
    BY <1>2 DEF KeysTyped, Place
<1>5. CallInv'
    BY <1>2, <1>3 DEF CallInv
<1>6. LiveInv'
    BY <1>2 DEF LiveInv, KeysLive
<1>7. agreed[g] = 0
    BY <1>1, <1>2 DEF AgreedInv
<1>8. \A i \in Handler \ {h} : alone[i] => guild[i] # g
    BY <1>1 DEF AgreedInv, Calling
<1>9. AgreedInv'
    <2>1. \A i \in Handler : alone'[i] => Calling(guild[i])' = {i}
        BY <1>2 DEF AgreedInv, Calling
    <2>2. ASSUME NEW i \in Handler, alone'[i], pc'[i] = "answer"
          PROVE  mapping'[guild'[i]] = key'[i]
        <3>1. CASE i = h
            BY <1>1, <1>2, <1>3, <3>1
        <3>2. CASE i # h
            <4>1. guild[i] \in Guild /\ guild[i] # g /\ mapping[guild[i]] = key[i]
                BY <1>2, <1>3, <1>8, <2>2, <3>2 DEF AgreedInv, CallInv
            <4> QED
                BY <1>2, <1>3, <4>1
        <3> QED
            BY <3>1, <3>2
    <2>3. \A other \in Guild : agreed[other] # 0 => agreed[other] \in live /\ mapping'[other] = agreed[other]
        BY <1>3, <1>7 DEF AgreedInv
    <2>4. \A other \in Guild, i \in Handler :
             agreed[other] # 0 /\ guild[i] = other => /\ pc'[i] \in {"lookup", "answer"}
                                                      /\ pc'[i] = "answer" => key[i] = agreed[other]
        BY <1>1, <1>3, <1>7 DEF AgreedInv
    <2> QED
        BY <1>2, <2>1, <2>2, <2>3, <2>4 DEF AgreedInv
<1> QED
    BY <1>4, <1>5, <1>6, <1>9

LEMMA RevokeKeys ==
    ASSUME KeysInv, NEW k \in Key, Revoke(k)
    PROVE  KeysInv'
<1> USE DEF KeysInv
<1>1. /\ k \in live /\ live' = live \ {k} /\ revoked' = revoked \cup {k}
      /\ agreed' = [g \in Guild |-> IF agreed[g] = k THEN 0 ELSE agreed[g]]
      /\ UNCHANGED <<service, minted, mapping, pc, guild, key, told, alone>>
    BY DEF Revoke, call
<1>2. KeysTyped'
    BY <1>1, Bounds DEF KeysTyped
<1>3. CallInv'
    BY <1>1 DEF CallInv
<1>4. LiveInv'
    BY <1>1 DEF LiveInv, KeysLive
<1>5. AgreedInv'
    <2>1. \A i \in Handler : told[i] # 0 /\ told[i] \notin revoked' => guild[i] \in Guild
        BY DEF CallInv, KeysTyped, Place
    <2> QED
        BY <1>1, <2>1 DEF AgreedInv, Calling
<1> QED
    BY <1>2, <1>3, <1>4, <1>5

LEMMA KeysNext == KeysInv /\ [Next]_vars => KeysInv'
<1> SUFFICES ASSUME KeysInv, [Next]_vars PROVE KeysInv'
    OBVIOUS
<1>1. ASSUME NEW h \in Handler, Step(h) PROVE KeysInv'
    <2>1. CASE AnswerCall(h)
        BY <2>1, FinishKeys DEF AnswerCall
    <2>2. CASE Disconnect(h)
        BY <2>2, FinishKeys DEF Disconnect, keys
    <2> QED
        BY <1>1, <2>1, <2>2, LookupKeys, LookupFailsKeys, AccountKeys, MintKeys, StoreKeys DEF Step
<1>2. ASSUME UNCHANGED <<keys, call>> PROVE KeysInv'
    BY <1>2 DEF keys, call, KeysInv, KeysTyped, CallInv, LiveInv, KeysLive, AgreedInv, Calling
<1> QED
    BY <1>1, <1>2, StartKeys, RevokeKeys
    DEF Next, vars, Upload, StartWalk, DeleteGuildImage, Expire, Reap, ListGuildImages, EndWalk

(* The inductive invariant of the keys: a call that is alone has nobody who *)
(* could store another key, and what is agreed is stored and works.         *)
THEOREM KeysCorrect == Spec => []KeysInv
BY KeysInit, KeysNext, PTL DEF Spec

(* No key of any guild stops working but by being revoked, whoever          *)
(* provisions what under the account they share.                            *)
THEOREM LiveCorrect == Spec => []KeysLive
<1>1. KeysInv => KeysLive
    BY DEF KeysInv, LiveInv
<1> QED
    BY <1>1, KeysCorrect, PTL

(* After a call that was alone, calls for its guild are told its key until  *)
(* it is revoked or a query for it fails, however many race.                *)
THEOREM RepeatCorrect == Spec => []RepeatCallsAgree
<1>1. KeysInv => RepeatCallsAgree
    <2> SUFFICES ASSUME KeysInv, NEW h \in Handler, pc[h] = "answer", told[h] # 0, told[h] \notin revoked
                 PROVE  key[h] = told[h]
        BY DEF RepeatCallsAgree
    <2>1. guild[h] \in Guild /\ agreed[guild[h]] = told[h]
        BY DEF KeysInv, CallInv, AgreedInv
    <2> QED
        BY <2>1 DEF KeysInv, AgreedInv
<1> QED
    BY <1>1, KeysCorrect, PTL

-----------------------------------------------------------------------------
(* The walk: what it still has to meet is listed and comes after the cursor.*)
WalkInv ==
    /\ GalleryTyped
    /\ \A i \in ImageId : i > uploads => image[i] = NoRow
    /\ reading = NoGuild => must = {}
    /\ must \subseteq Listed(reading)
    /\ \A i \in must : cursor = 0 \/ stamp[i] < stamp[cursor]

LEMMA WalkNext == WalkInv /\ [Next]_vars => WalkInv'
<1> SUFFICES ASSUME WalkInv, [Next]_vars PROVE WalkInv'
    OBVIOUS
<1> USE DEF WalkInv
<1>0. /\ MaxImage \in Nat /\ uploads \in Nat /\ \A i \in ImageId : i \in Nat
      /\ 0 \in 0..uploads
    BY Bounds DEF ImageId, GalleryTyped
<1>1. CASE UNCHANGED <<gallery, walk>>
    BY <1>1 DEF gallery, walk, GalleryTyped, Listed
<1>2. ASSUME NEW g \in Guild, Upload(g)
      PROVE  WalkInv'
    <2>1. /\ uploads < MaxImage /\ uploads' = uploads + 1
          /\ image' = [image EXCEPT ![uploads + 1] = Row(g, "live")]
          /\ UNCHANGED <<reading, cursor, must>>
        BY <1>2 DEF Upload, walk
    <2>9. PICK t \in {Latest, Latest + 1} : stamp' = [stamp EXCEPT ![uploads + 1] = t]
        BY <1>2 DEF Upload
    <2>10. t \in Nat
        BY <1>0, <2>9 DEF Latest, GalleryTyped, ImageId
    <2>2. uploads + 1 \in ImageId /\ image[uploads + 1] = NoRow
        BY <1>0, <2>1 DEF ImageId
    <2>3. Row(g, "live") \in Image /\ NoRow # Row(reading, "live")
        BY DEF Row, Image, NoRow
    <2>4. /\ image' \in [ImageId -> Image] /\ uploads' \in 0..MaxImage /\ cursor \in 0..uploads'
          /\ \A i \in ImageId : i # uploads + 1 => image'[i] = image[i]
        <3>1. image' \in [ImageId -> Image] /\ \A i \in ImageId : i # uploads + 1 => image'[i] = image[i]
            BY <2>1, <2>3 DEF GalleryTyped
        <3>2. uploads' \in 0..MaxImage /\ cursor \in 0..uploads'
            BY <1>0, <2>1 DEF GalleryTyped
        <3> QED
            BY <3>1, <3>2
    <2>5. must \subseteq Listed(reading)'
        BY <2>1, <2>2, <2>3, <2>4 DEF Listed
    <2>6. \A i \in ImageId : i > uploads' => image'[i] = NoRow
        BY <1>0, <2>1, <2>4
    <2>7. /\ stamp' \in [ImageId -> Nat]
          /\ \A i \in ImageId : i # uploads + 1 => stamp'[i] = stamp[i]
        BY <2>9, <2>10 DEF GalleryTyped
    <2>8. \A i \in must' : cursor' = 0 \/ stamp'[i] < stamp'[cursor']
        <3> SUFFICES ASSUME NEW i \in must, cursor # 0 PROVE stamp'[i] < stamp'[cursor]
            BY <2>1
        <3>1. cursor \in ImageId /\ cursor # uploads + 1
            BY <1>0 DEF GalleryTyped, ImageId
        <3>2. i \in ImageId /\ i # uploads + 1
            BY <2>2, <2>3 DEF Listed
        <3> QED
            BY <2>7, <3>1, <3>2
    <2> QED
        BY <2>1, <2>4, <2>5, <2>6, <2>7, <2>8 DEF GalleryTyped
<1>3. ASSUME NEW i \in ImageId, NEW row \in Image,
             image' = [image EXCEPT ![i] = row], must' = must \ {i},
             image[i].state # "gone", UNCHANGED <<uploads, stamp, reading, cursor>>
      PROVE  WalkInv'
    <2>1. image' \in [ImageId -> Image] /\ \A j \in ImageId : j # i => image'[j] = image[j]
        BY <1>3 DEF GalleryTyped
    <2>2. must' \subseteq Listed(reading)'
        BY <1>3, <2>1 DEF Listed
    <2>3. ~(i > uploads)
        BY <1>3 DEF NoRow
    <2> QED
        BY <1>3, <2>1, <2>2, <2>3 DEF GalleryTyped
<1>4. ASSUME NEW g \in Guild, NEW i \in ImageId, DeleteGuildImage(g, i)
      PROVE  WalkInv'
    <2>1. /\ image[i].of = g /\ image' = [image EXCEPT ![i] = NoRow] /\ must' = must \ {i}
          /\ UNCHANGED <<uploads, stamp, reading, cursor>>
        BY <1>4 DEF DeleteGuildImage
    <2>2. NoRow \in Image /\ NoRow.of # g
        BY Bounds DEF NoRow, Image
    <2>3. /\ image' \in [ImageId -> Image] /\ \A j \in ImageId : j # i => image'[j] = image[j]
          /\ image'[i] = NoRow
        BY <2>1, <2>2 DEF GalleryTyped
    <2>4. must' \subseteq Listed(reading)'
        BY <2>1, <2>3 DEF Listed
    <2> QED
        BY <2>1, <2>3, <2>4 DEF GalleryTyped
<1>5. ASSUME NEW i \in ImageId, Expire(i)
      PROVE  WalkInv'
    <2>1. /\ image[i].state = "live" /\ image' = [image EXCEPT ![i] = Row(image[i].of, "expired")]
          /\ must' = must \ {i} /\ UNCHANGED <<uploads, stamp, reading, cursor>>
        BY <1>5 DEF Expire
    <2>2. Row(image[i].of, "expired") \in Image
        BY DEF GalleryTyped, Row, Image
    <2> QED
        BY <1>3, <2>1, <2>2
<1>6. CASE Reap
    <2>1. /\ image' = [i \in ImageId |-> IF image[i].state = "expired" THEN NoRow ELSE image[i]]
          /\ UNCHANGED <<uploads, stamp, reading, cursor, must>>
        BY <1>6 DEF Reap, walk
    <2>2. NoRow \in Image
        BY DEF NoRow, Image
    <2>3. image' \in [ImageId -> Image]
        BY <2>1, <2>2 DEF GalleryTyped
    <2>4. \A i \in Listed(reading) : image'[i] = image[i]
        BY <2>1 DEF Listed, Row
    <2> QED
        BY <2>1, <2>3, <2>4 DEF GalleryTyped, Listed
<1>7. ASSUME NEW g \in Guild, StartWalk(g)
      PROVE  WalkInv'
    BY <1>0, <1>7, Bounds DEF StartWalk, gallery, GalleryTyped, Listed
<1>8. CASE EndWalk
    BY <1>0, <1>8 DEF EndWalk, gallery, GalleryTyped, Listed
<1>9. CASE ListGuildImages
    <2>1. PICK page \in SUBSET Rest(reading, cursor) : \E last \in page :
             /\ IsPage(page, Rest(reading, cursor))
             /\ \A i \in page : stamp[last] <= stamp[i]
             /\ cursor' = last /\ must' = {i \in must \ page : stamp[i] # stamp[last]}
        BY <1>9 DEF ListGuildImages
    <2>2. PICK last \in page :
             /\ \A i \in page : stamp[last] <= stamp[i]
             /\ cursor' = last /\ must' = {i \in must \ page : stamp[i] # stamp[last]}
        BY <2>1
    <2>3. reading # NoGuild /\ UNCHANGED <<image, uploads, stamp, reading>>
        BY <1>9 DEF ListGuildImages, gallery
    <2>4. last \in ImageId /\ image[last] = Row(reading, "live")
        BY <2>1, <2>2 DEF Rest, Listed
    <2>5. last \in 0..uploads
        <3>1. image[last] # NoRow
            BY <2>4 DEF Row, NoRow
        <3> QED
            BY <1>0, <2>4, <3>1
    <2>6. \A i \in must : i \in Rest(reading, cursor)
        BY DEF Rest, After, Rows, ImageId
    <2>7. \A i \in must' : stamp'[i] < stamp'[cursor']
        <3> SUFFICES ASSUME NEW i \in must' PROVE stamp[i] < stamp[last]
            BY <2>2, <2>3
        <3>1. i \in must /\ i \notin page /\ stamp[i] # stamp[last]
            BY <2>2
        <3>2. stamp[i] <= stamp[last]
            BY <2>1, <2>2, <2>4, <2>6, <3>1 DEF IsPage, GalleryTyped
        <3> QED
            BY <2>4, <3>1, <3>2 DEF GalleryTyped
    <2>8. must' \subseteq Listed(reading)' /\ must' \subseteq ImageId
        BY <2>2, <2>3 DEF Listed, GalleryTyped
    <2>9. GalleryTyped'
        BY <2>2, <2>3, <2>5, <2>8 DEF GalleryTyped
    <2> QED
        BY <2>3, <2>7, <2>8, <2>9
<1>10. ASSUME NEW h \in Handler, Step(h) \/ \E g \in Guild : Start(h, g)
       PROVE  UNCHANGED <<gallery, walk>>
    BY <1>10 DEF Step, Start, Lookup, LookupFails, EnsureAccount, Mint, Store, AnswerCall, Disconnect
<1>11. ASSUME NEW k \in Key, Revoke(k)
       PROVE  UNCHANGED <<gallery, walk>>
    BY <1>11 DEF Revoke
<1> QED
    BY <1>1, <1>2, <1>4, <1>5, <1>6, <1>7, <1>8, <1>9, <1>10, <1>11 DEF Next, vars

(* The inductive invariant of the walk: what a client still has to meet is  *)
(* listed, and of an earlier second than all it was shown.                  *)
THEOREM WalkTyped == Spec => []WalkInv
<1>1. Init => WalkInv
    <2> SUFFICES ASSUME Init PROVE WalkInv
        OBVIOUS
    <2>1. NoRow \in Image
        BY DEF NoRow, Image
    <2> QED
        BY <2>1, Bounds DEF Init, WalkInv, GalleryTyped, Listed
<1> QED
    BY <1>1, WalkNext, PTL DEF Spec

(* A client that walks a gallery of any size misses no image that stays and *)
(* has no second in common with a page's last one, whatever is uploaded,    *)
(* deleted or expires meanwhile.                                            *)
THEOREM WalkCorrect == Spec => []WalkSkipsNothing
<1>1. WalkInv => WalkSkipsNothing
    <2> SUFFICES ASSUME WalkInv, AtEnd, NEW i \in must PROVE FALSE
        BY DEF WalkSkipsNothing
    <2>1. i \in Rest(reading, cursor)
        BY DEF WalkInv, Rest, After, Rows, ImageId
    <2> QED
        BY <2>1 DEF AtEnd
<1> QED
    BY <1>1, WalkTyped, PTL

(* The keys, the calls and the gallery keep their types, and no key was     *)
(* minted before the account it belongs to.                                 *)
THEOREM TypeCorrect == Spec => []TypeOK
<1>1. KeysInv /\ WalkInv => TypeOK
    BY DEF KeysInv, KeysTyped, CallInv, WalkInv, GalleryTyped, TypeOK, Place, Image
<1> QED
    BY <1>1, KeysCorrect, WalkTyped, PTL

-----------------------------------------------------------------------------
(* RequestLog, the log every request goes to and the report that reads it.   *)
(* It shares nothing with the gallery but the server they run in.            *)

(* An entry is in one place: once in the channel, or in the buffer, or in    *)
(* the table; and then its request was answered.                             *)
IsLog(m, r) == m.kind = "log" /\ m.of = r
InChan(r) == \E i \in DOMAIN chan : IsLog(chan[i], r)

OnceInv ==
    \A r \in Request :
        /\ \A i, j \in DOMAIN chan : IsLog(chan[i], r) /\ IsLog(chan[j], r) => i = j
        /\ InChan(r) => r \notin buffer /\ table[r] = 0
        /\ r \in buffer => table[r] = 0
        /\ InChan(r) \/ r \in buffer \/ table[r] # 0 => phase[r] = "answered"

(* What a message joins, and what the worker leaves of the channel.          *)
LEMMA Joined ==
    ASSUME NEW S, NEW q \in Seq(S), NEW m \in S
    PROVE  /\ Append(q, m) \in Seq(S) /\ Len(q) \in Nat
           /\ DOMAIN Append(q, m) = DOMAIN q \cup {Len(q) + 1}
           /\ Append(q, m)[Len(q) + 1] = m
           /\ \A i \in DOMAIN q : i # Len(q) + 1 /\ Append(q, m)[i] = q[i]
OBVIOUS

LEMMA Taken ==
    ASSUME NEW S, NEW q \in Seq(S), q # <<>>
    PROVE  /\ Tail(q) \in Seq(S) /\ Head(q) \in S /\ Head(q) = q[1] /\ 1 \in DOMAIN q
           /\ \A i \in DOMAIN Tail(q) : i + 1 \in DOMAIN q /\ i + 1 # 1 /\ Tail(q)[i] = q[i + 1]
           /\ \A i \in DOMAIN q : i = 1 \/ (i - 1 \in DOMAIN Tail(q) /\ Tail(q)[i - 1] = q[i])
           /\ \A i, j \in DOMAIN Tail(q) : i + 1 = j + 1 => i = j
           /\ \A i \in DOMAIN q : i \in Nat
OBVIOUS

LEMMA MessageFields ==
    ASSUME NEW m \in Message
    PROVE  /\ m.kind \in {"log", "clean", "maintain", "query"}
           /\ m.kind = "log" => m.of \in Request
           /\ m.kind = "query" => /\ m.of \in Part /\ m.no \in 0..MaxReports
                                  /\ m = Query(m.of, m.no)
<1>1. CASE m \in [kind : {"log"}, of : Request]
    BY <1>1
<1>2. CASE m \in [kind : {"clean", "maintain"}]
    BY <1>2
<1>3. CASE m \in [kind : {"query"}, of : Part, no : 0..MaxReports]
    BY <1>3 DEF Query
<1> QED
    BY <1>1, <1>2, <1>3 DEF Message

LEMMA MessagesMade ==
    /\ \A r \in Request : [kind |-> "log", of |-> r] \in Message
    /\ [kind |-> "clean"] \in Message /\ [kind |-> "maintain"] \in Message
    /\ \A p \in Part, n \in 0..MaxReports : Query(p, n) \in Message
BY DEF Message, Query

(* The report as its fields.                                                 *)
ReportType == [no : 0..MaxReports, step : {"idle", "joined", "consumers"},
               from : 0..MaxNow, to : 0..MaxNow,
               answered : SUBSET Part, seen : [Part -> SUBSET Request]]

LEMMA IdleFields ==
    ASSUME report.no \in 0..MaxReports
    PROVE  /\ Idle \in ReportType
           /\ Idle.no = report.no /\ Idle.step = "idle"
           /\ Idle.answered = {} /\ Idle.seen = [p \in Part |-> {}]
BY RetentionOutlastsReports DEF Idle, ReportType

Hit(m) == m.kind = "query" /\ m.no = report.no /\ report.step # "idle"

LEMMA AnswerFields ==
    ASSUME report \in ReportType, NEW m \in Message, Answer(m)
    PROVE  /\ report' \in ReportType
           /\ report'.no = report.no /\ report'.step = report.step
           /\ report'.from = report.from /\ report'.to = report.to
           /\ report'.answered = IF Hit(m) THEN report.answered \cup {m.of} ELSE report.answered
           /\ \A p \in Part :
                 report'.seen[p] = IF Hit(m) /\ p = m.of THEN InWindow ELSE report.seen[p]
<1>1. InWindow \in SUBSET Request
    BY DEF InWindow
<1>2. CASE ~Hit(m)
    <2>1. report' = report
        BY <1>2 DEF Answer, Hit
    <2> QED
        BY <1>2, <2>1
<1>3. CASE Hit(m)
    <2>1. m.of \in Part
        BY <1>3, MessageFields DEF Hit
    <2>2. report' = [report EXCEPT !.answered = @ \cup {m.of}, !.seen[m.of] = InWindow]
        BY <1>3 DEF Answer, Hit
    <2>3. /\ report.answered \in SUBSET Part /\ report.seen \in [Part -> SUBSET Request]
        BY DEF ReportType
    <2>4. /\ report'.answered = report.answered \cup {m.of}
          /\ report'.seen = [report.seen EXCEPT ![m.of] = InWindow]
          /\ report'.no = report.no /\ report'.step = report.step
          /\ report'.from = report.from /\ report'.to = report.to
        BY <2>2 DEF ReportType
    <2>5. report'.answered \in SUBSET Part /\ report'.seen \in [Part -> SUBSET Request]
        BY <1>1, <2>1, <2>3, <2>4
    <2>6. report' \in ReportType
        BY <2>2, <2>5 DEF ReportType
    <2> QED
        BY <1>3, <2>1, <2>3, <2>4, <2>6
<1> QED
    BY <1>2, <1>3

-----------------------------------------------------------------------------
(* The worker at its work, whatever it does with the batch.                  *)

Kept(m) == IF m.kind = "log" THEN buffer \cup {m.of} ELSE buffer

Written(kept, rows) ==
    buffer' = {} /\ table' = [r \in Request |-> rows[r] + (IF r \in kept THEN 1 ELSE 0)]

(* It keeps the batch, or writes it, or loses it; the clean takes old rows.  *)
Worked(kept, rows) ==
    /\ rows \in [Request -> 0..1]
    /\ \A r \in Request : rows[r] = table[r] \/ (rows[r] = 0 /\ ts[r] <= now - Retention)
    /\ overdue' \in BOOLEAN
    /\ \/ buffer' = kept /\ table' = rows
       \/ buffer' = {} /\ table' = rows
       \/ Written(kept, rows)

LEMMA Inserted ==
    ASSUME NEW kept, NEW rows, Insert(kept, rows)
    PROVE  overdue' \in BOOLEAN /\ (Written(kept, rows) \/ (buffer' = {} /\ table' = rows))
<1>1. PICK ok \in BOOLEAN :
         /\ table' = IF ok THEN [r \in Request |-> rows[r] + (IF r \in kept THEN 1 ELSE 0)]
                     ELSE rows
         /\ buffer' = {} /\ overdue' = FALSE
    BY DEF Insert
<1>2. CASE ok
    BY <1>1, <1>2 DEF Written
<1>3. CASE ~ok
    BY <1>1, <1>3
<1> QED
    BY <1>1, <1>2, <1>3

LEMMA ReceiveWorks ==
    ASSUME LogTypeOK, Receive
    PROVE  /\ chan # <<>> /\ chan' = Tail(chan) /\ worker = "running"
           /\ Answer(Head(chan))
           /\ \E rows : Worked(Kept(Head(chan)), rows)
           /\ UNCHANGED <<now, serving, phase, ts, worker>>
<1> DEFINE m == Head(chan)
           kept == Kept(m)
<1>1. /\ chan # <<>> /\ chan' = Tail(chan) /\ worker = "running" /\ Answer(m)
      /\ UNCHANGED <<now, serving, phase, ts, worker>>
    BY DEF Receive, server, requests
<1>2. PICK rows \in RowsAfter(m) :
         IF Flushes(m, kept) THEN Insert(kept, rows)
         ELSE table' = rows /\ buffer' = kept /\ UNCHANGED overdue
    BY Zenon DEF Receive, Kept
<1>3. /\ rows \in [Request -> 0..1]
      /\ \A r \in Request : rows[r] = table[r] \/ (rows[r] = 0 /\ ts[r] <= now - Retention)
    <2>1. table \in [Request -> 0..1]
        BY DEF LogTypeOK
    <2>2. rows = table \/ rows = Cleaned
        BY <1>2 DEF RowsAfter
    <2>3. /\ Cleaned \in [Request -> 0..1]
          /\ \A r \in Request : \/ Cleaned[r] = table[r]
                                \/ Cleaned[r] = 0 /\ ts[r] <= now - Retention
        BY <2>1 DEF Cleaned
    <2> QED
        BY <2>1, <2>2, <2>3
<1>4. CASE Flushes(m, kept)
    <2>1. Insert(kept, rows)
        BY <1>2, <1>4
    <2>2. Worked(kept, rows)
        BY <1>3, <2>1, Inserted DEF Worked
    <2> QED
        BY <1>1, <2>2
<1>5. CASE ~Flushes(m, kept)
    <2>1. table' = rows /\ buffer' = kept /\ overdue' = overdue
        BY <1>2, <1>5
    <2>2. overdue \in BOOLEAN
        BY DEF LogTypeOK
    <2>3. Worked(kept, rows)
        BY <1>3, <2>1, <2>2 DEF Worked
    <2> QED
        BY <1>1, <2>3
<1> QED
    BY <1>4, <1>5

LEMMA FinalFlushWorks ==
    ASSUME LogTypeOK, FinalFlush
    PROVE  /\ \E rows : Worked(buffer, rows)
           /\ serving = "closed" /\ worker' = "gone"
           /\ UNCHANGED <<now, serving, phase, ts, chan, report>>
<1>1. /\ serving = "closed" /\ worker' = "gone"
      /\ UNCHANGED <<now, serving, phase, ts, chan, report>>
    BY DEF FinalFlush, server, requests
<1>2. table \in [Request -> 0..1] /\ overdue \in BOOLEAN
    BY DEF LogTypeOK
<1>3. CASE buffer # {}
    <2>1. Insert(buffer, table)
        BY <1>3 DEF FinalFlush
    <2>2. /\ table \in [Request -> 0..1]
          /\ \A r \in Request : table[r] = table[r] \/ (table[r] = 0 /\ ts[r] <= now - Retention)
        BY <1>2
    <2>3. Worked(buffer, table)
        BY <1>2, <2>1, <2>2, Inserted DEF Worked
    <2> QED
        BY <1>1, <2>3
<1>4. CASE buffer = {}
    <2>1. Worked(buffer, table)
        BY <1>2, <1>4 DEF FinalFlush, Worked
    <2> QED
        BY <1>1, <2>1
<1> QED
    BY <1>3, <1>4

(* Who may be in the batch is not in the table; then it stays once.          *)
LEMMA WorkedOnce ==
    ASSUME LogTypeOK, NEW kept \in SUBSET Request, NEW rows, Worked(kept, rows),
           \A r \in kept : table[r] = 0
    PROVE  /\ buffer' \subseteq kept /\ table' \in [Request -> 0..1]
           /\ \A r \in Request : /\ table'[r] # 0 => table[r] # 0 \/ r \in kept
                                 /\ r \in buffer' => table'[r] = 0
<1>1. /\ table \in [Request -> 0..1] /\ rows \in [Request -> 0..1]
      /\ \A r \in Request : rows[r] = 0 \/ rows[r] = table[r]
      /\ \A r \in kept : rows[r] = 0
    BY DEF LogTypeOK, Worked
<1>2. CASE table' = rows
    BY <1>1, <1>2 DEF Worked, Written
<1>3. CASE Written(kept, rows)
    <2>1. \A r \in Request : table'[r] = rows[r] + (IF r \in kept THEN 1 ELSE 0)
        BY <1>3 DEF Written
    <2>2. \A r \in Request : table'[r] \in 0..1 /\ (table'[r] # 0 => table[r] # 0 \/ r \in kept)
        BY <1>1, <2>1
    <2>3. table' \in [Request -> 0..1]
        <3>1. \A r \in Request : rows[r] + (IF r \in kept THEN 1 ELSE 0) \in 0..1
            BY <2>1, <2>2
        <3> QED
            BY <1>3, <3>1 DEF Written
    <2> QED
        BY <1>3, <2>2, <2>3 DEF Written
<1> QED
    BY <1>2, <1>3 DEF Worked

-----------------------------------------------------------------------------
(* The types, and that an entry is in one place.                             *)
LogInv == LogTypeOK /\ OnceInv

LEMMA LogTyped ==
    ASSUME LogInit
    PROVE  LogInv
<1> USE DEF LogInit
<1>1. /\ report = [no |-> 0, step |-> "idle", from |-> 0, to |-> 0,
                   answered |-> {}, seen |-> [p \in Part |-> {}]]
      /\ 0 \in 0..MaxNow /\ 0 \in 0..MaxReports
    BY RetentionOutlastsReports
<1>2. report \in ReportType
    BY <1>1 DEF ReportType
<1>3. now \in Retention..MaxNow /\ ts \in [Request -> 0..MaxNow]
    BY RetentionOutlastsReports
<1>4. /\ chan \in Seq(Message) /\ buffer \subseteq Request /\ overdue \in BOOLEAN
      /\ table \in [Request -> 0..1] /\ worker \in {"running", "gone"}
      /\ phase \in [Request -> {"new", "running", "answered", "dropped"}]
      /\ serving \in {"up", "closed"}
    <2>1. chan \in Seq(Message)
        OBVIOUS
    <2>2. table \in [Request -> 0..1]
        OBVIOUS
    <2> QED
        BY <2>1, <2>2
<1>5. LogTypeOK
    BY Zenon, <1>2, <1>3, <1>4 DEF LogTypeOK, ReportType
<1>6. OnceInv
    BY DEF OnceInv, InChan
<1> QED
    BY <1>5, <1>6 DEF LogInv

(* A message that is no log changes nothing about the entries.               *)
LEMMA OtherJoins ==
    ASSUME LogInv, NEW m \in Message, m.kind # "log", chan' = Append(chan, m),
           UNCHANGED <<phase, buffer, table>>
    PROVE  OnceInv' /\ chan' \in Seq(Message)
<1>1. chan \in Seq(Message) /\ OnceInv
    BY DEF LogInv, LogTypeOK
<1>2. ASSUME NEW i \in DOMAIN chan', NEW r \in Request, IsLog(chan'[i], r)
      PROVE  i \in DOMAIN chan /\ IsLog(chan[i], r)
    BY <1>1, <1>2, Joined DEF IsLog
<1>3. \A r \in Request : InChan(r)' => InChan(r)
    BY <1>2 DEF InChan
<1>4. chan' \in Seq(Message)
    BY <1>1, Joined
<1> QED
    BY <1>1, <1>2, <1>3, <1>4 DEF OnceInv

LEMMA LogStep ==
    ASSUME LogInv, [LogNext]_logVars
    PROVE  LogInv'
<1> USE DEF LogInv, LogTypeOK
<1> report \in ReportType /\ chan \in Seq(Message)
    BY DEF ReportType
<1> HIDE DEF LogTypeOK
<1> LogTypeOK
    OBVIOUS
<1>1. ASSUME NEW r \in Request, Begin(r)
      PROVE  LogInv'
    <2>1. ~InChan(r) /\ r \notin buffer /\ table[r] = 0
        BY <1>1 DEF Begin, OnceInv
    <2>2. /\ phase' \in [Request -> {"new", "running", "answered", "dropped"}]
          /\ ts' \in [Request -> 0..MaxNow]
        BY <1>1, RetentionOutlastsReports DEF Begin, LogTypeOK
    <2>3. UNCHANGED <<now, serving, chan, worker, buffer, overdue, table, report>>
        BY <1>1 DEF Begin, server, database
    <2>4. \A q \in Request : phase'[q] = phase[q] \/ q = r
        BY <1>1 DEF Begin, LogTypeOK
    <2>5. OnceInv'
        BY <2>1, <2>3, <2>4 DEF OnceInv, InChan
    <2> QED
        BY <2>2, <2>3, <2>5 DEF LogTypeOK
<1>2. ASSUME NEW r \in Request, Respond(r)
      PROVE  LogInv'
    <2> DEFINE m == [kind |-> "log", of |-> r]
    <2>1. /\ ~InChan(r) /\ r \notin buffer /\ table[r] = 0
          /\ UNCHANGED <<now, serving, ts, worker, buffer, overdue, table, report>>
        BY <1>2 DEF Respond, OnceInv, server, database
    <2>2. /\ m \in Message /\ chan' = Append(chan, m) /\ chan' \in Seq(Message)
          /\ DOMAIN chan' = DOMAIN chan \cup {Len(chan) + 1} /\ chan'[Len(chan) + 1] = m
          /\ \A i \in DOMAIN chan : chan'[i] = chan[i]
        BY <1>2, Joined, MessagesMade DEF Respond, Send
    <2>3. /\ phase' \in [Request -> {"new", "running", "answered", "dropped"}]
          /\ phase'[r] = "answered" /\ \A q \in Request : q # r => phase'[q] = phase[q]
        BY <1>2 DEF Respond, LogTypeOK
    <2>4. \A q \in Request, i \in DOMAIN chan' :
              IsLog(chan'[i], q) => \/ i \in DOMAIN chan /\ IsLog(chan[i], q)
                                    \/ i = Len(chan) + 1 /\ q = r
        BY <2>2 DEF IsLog
    <2>5. \A q \in Request \ {r} : InChan(q)' => InChan(q)
        BY <2>4 DEF InChan
    <2>6. \A q \in Request, i, j \in DOMAIN chan' : IsLog(chan'[i], q) /\ IsLog(chan'[j], q) => i = j
        BY <2>1, <2>4 DEF OnceInv, InChan
    <2>7. OnceInv'
        BY <2>1, <2>3, <2>5, <2>6 DEF OnceInv
    <2> QED
        BY <2>1, <2>2, <2>3, <2>7 DEF LogTypeOK
<1>3. ASSUME NEW r \in Request, Drop(r)
      PROVE  LogInv'
    <2>1. /\ ~InChan(r) /\ r \notin buffer /\ table[r] = 0
          /\ UNCHANGED <<now, serving, ts, chan, worker, buffer, overdue, table, report>>
        BY <1>3 DEF Drop, OnceInv, server, database
    <2>2. /\ phase' \in [Request -> {"new", "running", "answered", "dropped"}]
          /\ \A q \in Request : phase'[q] = phase[q] \/ q = r
        BY <1>3 DEF Drop, LogTypeOK
    <2>3. OnceInv'
        BY <2>1, <2>2 DEF OnceInv, InChan
    <2> QED
        BY <2>1, <2>2, <2>3 DEF LogTypeOK
<1>4. ASSUME SendClean \/ SendMaintain
      PROVE  LogInv'
    <2>1. PICK m \in {[kind |-> "clean"], [kind |-> "maintain"]} : chan' = Append(chan, m)
        BY <1>4 DEF SendClean, SendMaintain, Send
    <2>2. UNCHANGED <<now, serving, phase, ts, worker, buffer, overdue, table, report>>
        BY <1>4 DEF SendClean, SendMaintain, server, requests, database
    <2>3. OnceInv' /\ chan' \in Seq(Message)
        BY <2>1, <2>2, OtherJoins, MessagesMade
    <2> QED
        BY <2>2, <2>3 DEF LogTypeOK
<1>5. ASSUME Age \/ Tick \/ Close
      PROVE  LogInv'
    <2>1. UNCHANGED <<phase, ts, chan, worker, buffer, table, report>>
        BY <1>5 DEF Age, Tick, Close, server, requests, database
    <2>2. overdue' \in BOOLEAN /\ now' \in Retention..MaxNow /\ serving' \in {"up", "closed"}
        <3>1. now \in Retention..MaxNow /\ serving \in {"up", "closed"} /\ overdue \in BOOLEAN
            BY DEF LogTypeOK
        <3>2. CASE Age
            BY <3>1, <3>2 DEF Age, server
        <3>3. CASE Tick
            BY <3>1, <3>3, RetentionOutlastsReports DEF Tick, database
        <3>4. CASE Close
            BY <3>1, <3>4 DEF Close, database
        <3> QED
            BY <1>5, <3>2, <3>3, <3>4
    <2>3. OnceInv'
        BY <2>1 DEF OnceInv, InChan
    <2> QED
        BY <2>1, <2>2, <2>3 DEF LogTypeOK
<1>6. ASSUME StartReport
      PROVE  LogInv'
    <2>1. PICK s \in Span : /\ report.no < MaxReports
                            /\ report' = [Idle EXCEPT !.no = report.no + 1, !.step = "joined",
                                                        !.from = now - s, !.to = now]
                            /\ chan' = chan \o <<Query("summary", report.no + 1),
                                                 Query("routes", report.no + 1)>>
        BY <1>6 DEF StartReport, Window
    <2>2. UNCHANGED <<now, serving, phase, ts, worker, buffer, overdue, table>>
        BY <1>6 DEF StartReport, server, requests, database
    <2>3. /\ now \in 0..MaxNow /\ now - s \in 0..MaxNow /\ report.no + 1 \in 0..MaxReports
          /\ report.no \in 0..MaxReports
        BY <2>1, RetentionOutlastsReports DEF LogTypeOK, ReportType
    <2>4. report' \in ReportType
        BY <2>1, <2>3, IdleFields DEF ReportType
    <2> DEFINE one == Query("summary", report.no + 1)
               two == Query("routes", report.no + 1)
    <2>5. one \in Message /\ two \in Message /\ one.kind = "query" /\ two.kind = "query"
        BY <2>3, MessagesMade DEF Query, Part
    <2>6. chan' = Append(Append(chan, one), two) /\ chan' \in Seq(Message)
        BY <2>1, <2>5
    <2>7. \A i \in DOMAIN chan' : chan'[i] = one \/ chan'[i] = two
                                  \/ (i \in DOMAIN chan /\ chan'[i] = chan[i])
        BY <2>5, <2>6
    <2>8. \A q \in Request, i \in DOMAIN chan' :
              IsLog(chan'[i], q) => i \in DOMAIN chan /\ IsLog(chan[i], q)
        BY <2>5, <2>7 DEF IsLog
    <2>9. OnceInv'
        BY <2>2, <2>8 DEF OnceInv, InChan
    <2> QED
        BY <2>2, <2>4, <2>6, <2>9 DEF LogTypeOK, ReportType
<1>7. ASSUME AskConsumers
      PROVE  LogInv'
    <2>1. /\ chan' = Append(chan, Query("consumers", report.no))
          /\ report' = [report EXCEPT !.step = "consumers"]
          /\ UNCHANGED <<now, serving, phase, ts, worker, buffer, overdue, table>>
        BY <1>7 DEF AskConsumers, Send, server, requests, database
    <2>2. /\ Query("consumers", report.no) \in Message
          /\ Query("consumers", report.no).kind # "log"
        BY MessagesMade DEF Query, Part, ReportType
    <2>3. OnceInv' /\ chan' \in Seq(Message)
        BY <2>1, <2>2, OtherJoins
    <2>4. report' \in ReportType
        BY <2>1 DEF ReportType
    <2> QED
        BY <2>1, <2>3, <2>4 DEF LogTypeOK, ReportType
<1>8. ASSUME EndReport
      PROVE  LogInv'
    <2>1. report' = Idle /\ UNCHANGED <<now, serving, phase, ts, chan, worker, buffer, overdue, table>>
        BY <1>8 DEF EndReport, server, requests, database
    <2>2. report' \in ReportType
        BY <2>1, IdleFields DEF ReportType
    <2>3. OnceInv'
        BY <2>1 DEF OnceInv, InChan
    <2> QED
        BY <2>1, <2>2, <2>3 DEF LogTypeOK, ReportType
<1>9. ASSUME Receive
      PROVE  LogInv'
    <2> DEFINE m == Head(chan)
               kept == Kept(m)
    <2>1. /\ chan # <<>> /\ chan' = Tail(chan) /\ Answer(m)
          /\ UNCHANGED <<now, serving, phase, ts, worker>>
        BY <1>9, ReceiveWorks
    <2>2. PICK rows : Worked(kept, rows)
        BY <1>9, ReceiveWorks
    <2>3. m \in Message /\ m = chan[1] /\ 1 \in DOMAIN chan /\ chan' \in Seq(Message)
        BY <2>1, Taken
    <2>4. report' \in ReportType
        BY <2>1, <2>3, AnswerFields
    <2>5. /\ kept \in SUBSET Request
          /\ \A r \in kept : r \in buffer \/ IsLog(chan[1], r)
        BY <2>3, MessageFields DEF Kept, IsLog, LogTypeOK
    <2>6. \A r \in kept : table[r] = 0 /\ phase[r] = "answered"
        BY <2>3, <2>5 DEF OnceInv, InChan
    <2>7. /\ buffer' \subseteq kept /\ table' \in [Request -> 0..1]
          /\ \A r \in Request : /\ table'[r] # 0 => table[r] # 0 \/ r \in kept
                                /\ r \in buffer' => table'[r] = 0
        BY <2>2, <2>5, <2>6, WorkedOnce
    <2>8. \A r \in Request, i \in DOMAIN chan' :
              IsLog(chan'[i], r) => i + 1 \in DOMAIN chan /\ i + 1 # 1 /\ IsLog(chan[i + 1], r)
        BY <2>1, Taken DEF IsLog
    <2>9. ASSUME NEW r \in Request, InChan(r)'
          PROVE  InChan(r) /\ r \notin kept
        <3>1. PICK i \in DOMAIN chan' : IsLog(chan'[i], r)
            BY <2>9 DEF InChan
        <3>2. i + 1 \in DOMAIN chan /\ i + 1 # 1 /\ IsLog(chan[i + 1], r)
            BY <2>8, <3>1
        <3> QED
            BY <2>3, <2>5, <3>2 DEF InChan, OnceInv
    <2>10. \A r \in Request, i, j \in DOMAIN chan' :
               IsLog(chan'[i], r) /\ IsLog(chan'[j], r) => i = j
        <3> SUFFICES ASSUME NEW r \in Request, NEW i \in DOMAIN chan', NEW j \in DOMAIN chan',
                            IsLog(chan'[i], r), IsLog(chan'[j], r)
                     PROVE  i = j
            OBVIOUS
        <3>1. i + 1 = j + 1
            BY <2>8 DEF OnceInv
        <3> QED
            BY <2>1, <3>1, Taken
    <2>11. OnceInv'
        BY <2>1, <2>6, <2>7, <2>9, <2>10 DEF OnceInv
    <2> overdue' \in BOOLEAN
        BY <2>2 DEF Worked
    <2> QED
        BY <2>1, <2>3, <2>4, <2>5, <2>7, <2>11 DEF LogTypeOK, ReportType
<1>10. ASSUME FinalFlush
       PROVE  LogInv'
    <2>1. /\ worker' = "gone" /\ UNCHANGED <<now, serving, phase, ts, chan, report>>
        BY <1>10, FinalFlushWorks
    <2>2. PICK rows : Worked(buffer, rows)
        BY <1>10, FinalFlushWorks
    <2>3. buffer \in SUBSET Request /\ \A r \in buffer : table[r] = 0
        BY DEF LogTypeOK, OnceInv
    <2>4. /\ buffer' \subseteq buffer /\ table' \in [Request -> 0..1]
          /\ \A r \in Request : /\ table'[r] # 0 => table[r] # 0 \/ r \in buffer
                                /\ r \in buffer' => table'[r] = 0
        BY <2>2, <2>3, WorkedOnce
    <2>5. \A r \in Request : InChan(r)' <=> InChan(r)
        BY <2>1 DEF InChan
    <2>6. \A r \in Request : InChan(r) => table'[r] = 0
        BY <2>4, LogTypeOK DEF OnceInv
    <2>7. OnceInv'
        BY <2>1, <2>4, <2>5, <2>6 DEF OnceInv
    <2> overdue' \in BOOLEAN
        BY <2>2 DEF Worked
    <2> QED
        BY <2>1, <2>3, <2>4, <2>7 DEF LogTypeOK
<1>11. ASSUME Restart
       PROVE  LogInv'
    <2>1. /\ serving' = "up" /\ chan' = <<>> /\ worker' = "running" /\ buffer' = {}
          /\ overdue' = FALSE /\ report' = Idle /\ UNCHANGED <<now, ts, table>>
        BY <1>11 DEF Restart
    <2>2. /\ phase' \in [Request -> {"new", "running", "answered", "dropped"}]
          /\ \A r \in Request : phase[r] = "answered" => phase'[r] = "answered"
        BY <1>11 DEF Restart, LogTypeOK
    <2>3. report' \in ReportType
        BY <2>1, IdleFields DEF ReportType
    <2>4. OnceInv'
        BY <2>1, <2>2 DEF OnceInv, InChan
    <2>5. chan' \in Seq(Message)
        BY <2>1
    <2>6. /\ now' \in Retention..MaxNow /\ ts' \in [Request -> 0..MaxNow]
          /\ table' \in [Request -> 0..1] /\ buffer' \subseteq Request
        BY <2>1 DEF LogTypeOK
    <2> QED
        BY <2>1, <2>2, <2>3, <2>4, <2>5, <2>6 DEF LogTypeOK, ReportType
<1>12. CASE UNCHANGED logVars
    BY <1>12 DEF logVars, LogTypeOK, OnceInv, InChan
<1> QED
    BY <1>1, <1>2, <1>3, <1>4, <1>5, <1>6, <1>7, <1>8, <1>9, <1>10, <1>11, <1>12 DEF LogNext

(* The types and the place of every entry, kept by every step.               *)
THEOREM LogCorrect == LogSpec => []LogInv
<1>1. LogInit => LogInv
    BY LogTyped
<1>2. LogInv /\ [LogNext]_logVars => LogInv'
    BY LogStep
<1> QED
    BY <1>1, <1>2, PTL DEF LogSpec

(* The request log keeps its types: no request has a second row.             *)
THEOREM LogTypeCorrect == LogSpec => []LogTypeOK
<1>1. LogSpec => []LogInv
    BY LogCorrect
<1>2. LogInv => LogTypeOK
    BY DEF LogInv
<1> QED
    BY <1>1, <1>2, PTL

LEMMA OncePlace ==
    ASSUME LogInv, NEW r \in Request
    PROVE  /\ Places(r) <= 1
           /\ Places(r) = 1 => phase[r] = "answered"
<1> DEFINE logs == {i \in DOMAIN chan : chan[i].kind = "log" /\ chan[i].of = r}
<1>1. Places(r) = Cardinality(logs) + (IF r \in buffer THEN 1 ELSE 0) + table[r]
    BY DEF Places
<1>2. /\ table[r] \in 0..1 /\ (r \in buffer => table[r] = 0)
      /\ r \in buffer \/ table[r] # 0 => phase[r] = "answered"
    BY DEF LogInv, LogTypeOK, OnceInv
<1>3. CASE logs = {}
    <2>1. Cardinality(logs) = 0
        BY <1>3, FS_EmptySet
    <2> HIDE DEF logs
    <2> QED
        BY <1>1, <1>2, <2>1
<1>4. CASE logs # {}
    <2>1. PICK i \in DOMAIN chan : IsLog(chan[i], r)
        BY <1>4 DEF IsLog
    <2>2. InChan(r)
        BY <2>1 DEF InChan
    <2>3. r \notin buffer /\ table[r] = 0 /\ phase[r] = "answered"
        BY <2>2 DEF LogInv, OnceInv
    <2>4. logs = {i}
        BY <2>1 DEF LogInv, OnceInv, IsLog
    <2>5. Cardinality(logs) = 1
        BY <2>4, FS_Singleton
    <2> HIDE DEF logs
    <2> QED
        BY <1>1, <2>3, <2>5
<1> QED
    BY <1>3, <1>4

(* A request is logged at most once, whatever fails or stops on the way, and *)
(* only when it was answered, for any number of requests and of messages.    *)
THEOREM OnceCorrect == LogSpec => []LoggedOnce
<1>1. LogSpec => []LogInv
    BY LogCorrect
<1>2. LogInv => LoggedOnce
    BY OncePlace DEF LoggedOnce
<1> QED
    BY <1>1, <1>2, PTL

-----------------------------------------------------------------------------
(* The report and its queries.                                               *)
Working == report.step # "idle"
Asks(i, p) == chan[i] = Query(p, report.no)

(* A report under way keeps the server up, and with it the worker.           *)
ServedInv ==
    /\ Working => serving = "up"
    /\ worker = "gone" => serving = "closed"

(* What it waits for is in the channel.                                      *)
Awaits(p) ==
    \/ report.step = "joined" /\ p # "consumers"
    \/ report.step = "consumers" /\ p = "consumers"
AskedInv ==
    \A p \in Part : Awaits(p) /\ p \notin report.answered => \E i \in DOMAIN chan : Asks(i, p)

(* No query is of a report to come.                                          *)
OldInv == \A i \in DOMAIN chan : chan[i].kind = "query" => chan[i].no <= report.no

(* Each query is sent once, and answered in the order of the parts.          *)
OrderInv ==
    Working =>
        /\ \A p \in Part : \A i, j \in DOMAIN chan : Asks(i, p) /\ Asks(j, p) => i = j
        /\ \A p \in report.answered, i \in DOMAIN chan : ~Asks(i, p)
        /\ \A i, j \in DOMAIN chan : Asks(i, "summary") /\ Asks(j, "routes") => i < j
        /\ "routes" \in report.answered => "summary" \in report.answered
        /\ report.step = "joined" =>
              /\ "consumers" \notin report.answered
              /\ \A i \in DOMAIN chan : ~Asks(i, "consumers")
        /\ report.step = "consumers" => {"summary", "routes"} \subseteq report.answered

(* Its range ended when it began, a tick ago at most.                        *)
RangeInv ==
    Working => /\ \E s \in Span : report.from = report.to - s
               /\ report.to <= now /\ now <= report.to + 1

(* What a part has counted is still there to be counted.                     *)
SeenInv == \A p \in report.answered : report.seen[p] \subseteq InWindow

ReportInv ==
    /\ ServedInv /\ AskedInv /\ OldInv /\ OrderInv /\ RangeInv /\ SeenInv
    /\ ~Working => report.answered = {}
    /\ ReportGrows

LEMMA QueryFields ==
    \A p, q \in Part, n, k \in Nat :
        /\ Query(p, n).kind = "query" /\ Query(p, n).of = p /\ Query(p, n).no = n
        /\ Query(p, n) = Query(q, k) => p = q /\ n = k
BY DEF Query

(* A step that changes neither the report nor the queries in the channel.    *)
QuietChan ==
    \/ chan' = chan
    \/ \E m \in Message : m.kind # "query" /\ chan' = Append(chan, m)

LEMMA QueriesSame ==
    ASSUME LogInv, ReportInv, report' = report, QuietChan
    PROVE  AskedInv' /\ OldInv' /\ OrderInv'
<1>1. chan \in Seq(Message) /\ report.no \in Nat
    BY DEF LogInv, LogTypeOK
<1>2. /\ \A i \in DOMAIN chan : i \in DOMAIN chan' /\ chan'[i] = chan[i]
      /\ \A i \in DOMAIN chan' : chan'[i].kind = "query" => i \in DOMAIN chan
    BY <1>1, Joined DEF QuietChan
<1>3. /\ \A i \in DOMAIN chan, p \in Part : Asks(i, p) => i \in DOMAIN chan' /\ Asks(i, p)'
      /\ \A i \in DOMAIN chan', p \in Part : Asks(i, p)' => i \in DOMAIN chan /\ Asks(i, p)
    <2>1. \A p \in Part : Query(p, report.no).kind = "query"
        BY <1>1, QueryFields
    <2> QED
        BY <1>2, <2>1 DEF Asks
<1>4. /\ AskedInv /\ OldInv /\ OrderInv
      /\ "summary" \in Part /\ "routes" \in Part /\ "consumers" \in Part
      /\ report.answered \subseteq Part
    BY DEF ReportInv, Part, LogInv, LogTypeOK
<1>5. AskedInv'
    <2> SUFFICES ASSUME NEW p \in Part, Awaits(p)', p \notin report'.answered
                 PROVE  \E i \in DOMAIN chan' : Asks(i, p)'
        BY DEF AskedInv
    <2>1. Awaits(p) /\ p \notin report.answered
        BY DEF Awaits
    <2> QED
        BY <1>3, <1>4, <2>1 DEF AskedInv
<1>6. OldInv'
    BY <1>2, <1>4 DEF OldInv
<1>7. OrderInv'
    <2> SUFFICES ASSUME Working
                 PROVE  OrderInv'
        BY DEF OrderInv, Working
    <2>1. /\ \A p \in Part : \A i, j \in DOMAIN chan' : Asks(i, p)' /\ Asks(j, p)' => i = j
          /\ \A i, j \in DOMAIN chan' : Asks(i, "summary")' /\ Asks(j, "routes")' => i < j
        BY <1>3, <1>4 DEF OrderInv
    <2>2. /\ \A p \in report'.answered, i \in DOMAIN chan' : ~Asks(i, p)'
          /\ report'.step = "joined" => \A i \in DOMAIN chan' : ~Asks(i, "consumers")'
        BY <1>3, <1>4 DEF OrderInv
    <2>3. /\ "routes" \in report'.answered => "summary" \in report'.answered
          /\ report'.step = "joined" => "consumers" \notin report'.answered
          /\ report'.step = "consumers" => {"summary", "routes"} \subseteq report'.answered
        BY <1>4 DEF OrderInv
    <2> QED
        BY <2>1, <2>2, <2>3 DEF OrderInv
<1> QED
    BY <1>5, <1>6, <1>7

LEMMA ReportSame ==
    ASSUME LogInv, ReportInv, report' = report, QuietChan,
           ServedInv', RangeInv', InWindow \subseteq InWindow'
    PROVE  ReportInv'
<1>1. AskedInv' /\ OldInv' /\ OrderInv'
    BY QueriesSame
<1>2. SeenInv'
    BY DEF ReportInv, SeenInv
<1>3. ReportGrows' /\ (~Working' => report'.answered = {})
    BY DEF ReportInv, ReportGrows, Working
<1> QED
    BY <1>1, <1>2, <1>3 DEF ReportInv

LEMMA ReportIdle ==
    ASSUME LogInv, ReportInv, report' = Idle, ServedInv', chan' = chan \/ chan' = <<>>
    PROVE  ReportInv'
<1>1. /\ report'.step = "idle" /\ report'.answered = {} /\ report'.no = report.no
    BY IdleFields DEF LogInv, LogTypeOK
<1>2. AskedInv' /\ OrderInv' /\ RangeInv' /\ SeenInv' /\ ReportGrows'
    BY <1>1 DEF AskedInv, Awaits, OrderInv, RangeInv, SeenInv, Working, ReportGrows
<1>3. OldInv'
    BY <1>1 DEF ReportInv, OldInv
<1> QED
    BY <1>1, <1>2, <1>3 DEF ReportInv

(* The clean takes no row a report may have counted: the retention outlasts  *)
(* every range, and the tick that may come between.                          *)
LEMMA WindowKept ==
    ASSUME LogInv, RangeInv, Working, NEW kept, NEW rows, Worked(kept, rows),
           UNCHANGED <<now, ts>>, report'.from = report.from, report'.to = report.to
    PROVE  InWindow \subseteq InWindow'
<1> SUFFICES ASSUME NEW r \in InWindow
             PROVE  r \in InWindow'
    OBVIOUS
<1>1. r \in Request /\ table[r] > 0 /\ ts[r] \in report.from..report.to
    BY DEF InWindow
<1>2. PICK s \in Span : report.from = report.to - s
    BY DEF RangeInv
<1>3. /\ now \in Nat /\ report.to \in Nat /\ s \in Nat /\ Retention \in Nat
      /\ s + 1 < Retention /\ report.to <= now /\ now <= report.to + 1
    BY RetentionOutlastsReports DEF RangeInv, LogInv, LogTypeOK
<1>4. ts[r] \in Int /\ ~(ts[r] <= now - Retention)
    BY <1>1, <1>2, <1>3
<1>5. rows[r] = table[r] /\ table[r] \in 0..1
    BY <1>1, <1>4 DEF Worked, LogInv, LogTypeOK
<1>6. table'[r] > 0
    BY <1>1, <1>5 DEF Worked, Written
<1> QED
    BY <1>1, <1>6 DEF InWindow

LEMMA StartReportInv ==
    ASSUME LogInv, ReportInv, StartReport
    PROVE  ReportInv'
<1> DEFINE n == report.no + 1
           first == Query("summary", n)
           next == Query("routes", n)
<1>1. PICK s \in Span : /\ serving = "up" /\ report.no < MaxReports
                        /\ report' = [Idle EXCEPT !.no = n, !.step = "joined",
                                                    !.from = now - s, !.to = now]
                        /\ chan' = chan \o <<first, next>>
    BY DEF StartReport, Window
<1>2. UNCHANGED <<now, serving, worker>>
    BY DEF StartReport, server, database
<1>3. /\ report.no \in 0..MaxReports /\ report.no \in Nat /\ n \in Nat /\ n # report.no /\ now \in Nat
      /\ chan \in Seq(Message)
      /\ "summary" \in Part /\ "routes" \in Part /\ "consumers" \in Part
    BY RetentionOutlastsReports DEF LogInv, LogTypeOK, Part
<1>4. /\ report'.no = n /\ report'.step = "joined" /\ report'.from = now - s /\ report'.to = now
      /\ report'.answered = {}
    BY <1>1, <1>3, IdleFields DEF ReportType
<1>5. /\ Len(chan) \in Nat
      /\ DOMAIN chan' = DOMAIN chan \cup {Len(chan) + 1, Len(chan) + 2}
      /\ chan'[Len(chan) + 1] = first /\ chan'[Len(chan) + 2] = next
      /\ \A i \in DOMAIN chan : chan'[i] = chan[i]
    BY <1>1, <1>3
<1>6. \A p \in Part, i \in DOMAIN chan' :
          Asks(i, p)' => \/ i = Len(chan) + 1 /\ p = "summary"
                         \/ i = Len(chan) + 2 /\ p = "routes"
    <2> SUFFICES ASSUME NEW p \in Part, NEW i \in DOMAIN chan', Asks(i, p)'
                 PROVE  \/ i = Len(chan) + 1 /\ p = "summary"
                        \/ i = Len(chan) + 2 /\ p = "routes"
        OBVIOUS
    <2>1. chan'[i] = Query(p, n)
        BY <1>4 DEF Asks
    <2>2. CASE i \in DOMAIN chan
        <3>1. chan[i].kind = "query" /\ chan[i].no = n
            BY <1>3, <1>5, <2>1, <2>2, QueryFields
        <3>2. chan[i].no <= report.no
            BY <2>2, <3>1 DEF ReportInv, OldInv
        <3> QED
            BY <1>3, <3>1, <3>2
    <2>3. CASE i = Len(chan) + 1
        BY <1>3, <1>5, <2>1, <2>3, QueryFields
    <2>4. CASE i = Len(chan) + 2
        BY <1>3, <1>5, <2>1, <2>4, QueryFields
    <2> QED
        BY <1>5, <2>2, <2>3, <2>4
<1>7. ServedInv'
    <2>1. worker' = worker /\ serving' = "up"
        BY <1>1, <1>2
    <2> QED
        BY <1>1, <2>1 DEF ReportInv, ServedInv
<1>8. AskedInv'
    <2> PICK len \in Nat : len = Len(chan)
        BY <1>5
    <2>1. Asks(len + 1, "summary")' /\ Asks(len + 2, "routes")'
        BY <1>4, <1>5 DEF Asks
    <2> SUFFICES ASSUME NEW p \in Part, Awaits(p)'
                 PROVE  \E i \in DOMAIN chan' : Asks(i, p)'
        BY DEF AskedInv
    <2>2. p = "summary" \/ p = "routes"
        BY <1>4 DEF Awaits, Part
    <2> QED
        BY <1>5, <2>1, <2>2
<1>9. OldInv'
    <2> SUFFICES ASSUME NEW i \in DOMAIN chan', chan'[i].kind = "query"
                 PROVE  chan'[i].no <= n
        BY <1>4 DEF OldInv
    <2>1. CASE i \in DOMAIN chan
        <3>1. chan[i] \in Message /\ chan[i].kind = "query"
            BY <1>3, <1>5, <2>1
        <3>2. chan[i].no \in Nat /\ chan[i].no <= report.no
            BY <2>1, <3>1, MessageFields DEF ReportInv, OldInv
        <3> QED
            BY <1>3, <1>5, <2>1, <3>2
    <2>2. CASE i \notin DOMAIN chan
        BY <1>3, <1>5, <2>2, QueryFields
    <2> QED
        BY <2>1, <2>2
<1>10. OrderInv'
    <2>1. \A p \in Part : \A i, j \in DOMAIN chan' : Asks(i, p)' /\ Asks(j, p)' => i = j
        BY <1>6
    <2>2. \A i, j \in DOMAIN chan' : Asks(i, "summary")' /\ Asks(j, "routes")' => i < j
        BY <1>3, <1>5, <1>6
    <2>3. \A i \in DOMAIN chan' : ~Asks(i, "consumers")'
        BY <1>3, <1>6
    <2> QED
        BY <1>4, <2>1, <2>2, <2>3 DEF OrderInv
<1>11. RangeInv'
    BY <1>2, <1>3, <1>4 DEF RangeInv
<1>12. SeenInv' /\ ReportGrows' /\ report'.answered = {}
    BY <1>4 DEF SeenInv, ReportGrows
<1> QED
    BY <1>7, <1>8, <1>9, <1>10, <1>11, <1>12 DEF ReportInv

LEMMA AskConsumersInv ==
    ASSUME LogInv, ReportInv, AskConsumers
    PROVE  ReportInv'
<1> DEFINE m == Query("consumers", report.no)
<1>1. /\ report.step = "joined" /\ {"summary", "routes"} \subseteq report.answered
      /\ report' = [report EXCEPT !.step = "consumers"] /\ chan' = Append(chan, m)
      /\ UNCHANGED <<now, serving, phase, ts, worker, buffer, overdue, table>>
    BY DEF AskConsumers, Send, server, requests, database
<1>2. /\ report.no \in 0..MaxReports /\ report.no \in Nat /\ chan \in Seq(Message)
      /\ report \in ReportType /\ report.answered \subseteq Part
      /\ "summary" \in Part /\ "routes" \in Part /\ "consumers" \in Part
    BY RetentionOutlastsReports DEF LogInv, LogTypeOK, Part, ReportType
<1>3. /\ report'.step = "consumers" /\ report'.no = report.no /\ report'.answered = report.answered
      /\ report'.seen = report.seen /\ report'.from = report.from /\ report'.to = report.to
    BY <1>1, <1>2 DEF ReportType
<1>4. m \in Message /\ m.kind = "query" /\ m.no = report.no
    BY <1>2, MessagesMade, QueryFields
<1>5. /\ DOMAIN chan' = DOMAIN chan \cup {Len(chan) + 1} /\ chan'[Len(chan) + 1] = m
      /\ \A i \in DOMAIN chan : chan'[i] = chan[i]
    BY <1>1, <1>2, <1>4, Joined
<1>6. Working /\ OrderInv /\ OldInv /\ RangeInv /\ SeenInv /\ ServedInv /\ ReportGrows
    BY <1>1 DEF Working, ReportInv
<1> PICK last : last = Len(chan) + 1
    OBVIOUS
<1>7. /\ \A i \in DOMAIN chan, p \in Part : Asks(i, p) <=> Asks(i, p)'
      /\ \A p \in Part : Asks(last, p)' => p = "consumers"
      /\ Asks(last, "consumers")'
      /\ DOMAIN chan' = DOMAIN chan \cup {last}
      /\ \A i \in DOMAIN chan : i < last
    <2>1. \A i \in DOMAIN chan, p \in Part : Asks(i, p) <=> Asks(i, p)'
        BY <1>3, <1>5 DEF Asks
    <2>2. \A p \in Part : Asks(last, p)' <=> m = Query(p, report.no)
        BY <1>3, <1>5 DEF Asks
    <2>3. \A p \in Part : m = Query(p, report.no) => p = "consumers"
        BY <1>2, QueryFields
    <2>4. DOMAIN chan' = DOMAIN chan \cup {last} /\ \A i \in DOMAIN chan : i < last
        BY <1>2, <1>5
    <2> QED
        BY <1>2, <2>1, <2>2, <2>3, <2>4
<1>8. /\ \A i \in DOMAIN chan : ~Asks(i, "consumers")
      /\ "consumers" \notin report.answered
    BY <1>1, <1>6 DEF OrderInv
<1>9. OrderInv'
    <2>1. \A p \in Part : \A i, j \in DOMAIN chan' : Asks(i, p)' /\ Asks(j, p)' => i = j
        BY <1>6, <1>7, <1>8 DEF OrderInv
    <2>2. \A p \in report'.answered, i \in DOMAIN chan' : ~Asks(i, p)'
        BY <1>2, <1>3, <1>6, <1>7, <1>8 DEF OrderInv
    <2>3. \A i, j \in DOMAIN chan' : Asks(i, "summary")' /\ Asks(j, "routes")' => i < j
        BY <1>2, <1>6, <1>7 DEF OrderInv
    <2> QED
        BY <1>1, <1>3, <2>1, <2>2, <2>3 DEF OrderInv
<1>10. AskedInv'
    BY <1>3, <1>7 DEF AskedInv, Awaits
<1>11. OldInv'
    BY <1>2, <1>3, <1>4, <1>5, <1>6 DEF OldInv
<1>12. ServedInv' /\ RangeInv' /\ Working'
    BY <1>1, <1>3, <1>6 DEF ServedInv, RangeInv, Working
<1>13. SeenInv'
    <2>1. InWindow' = InWindow
        BY <1>1, <1>3 DEF InWindow
    <2> QED
        BY <1>3, <1>6, <2>1 DEF SeenInv
<1>14. ReportGrows'
    BY <1>3, <1>6 DEF ReportGrows
<1> QED
    BY <1>9, <1>10, <1>11, <1>12, <1>13, <1>14 DEF ReportInv

LEMMA ReceiveInv ==
    ASSUME LogInv, ReportInv, Receive
    PROVE  ReportInv'
<1> DEFINE m == Head(chan)
<1>1. /\ chan # <<>> /\ chan' = Tail(chan) /\ worker = "running" /\ Answer(m)
      /\ UNCHANGED <<now, serving, phase, ts, worker>>
    BY ReceiveWorks DEF LogInv
<1>2. PICK rows : Worked(Kept(m), rows)
    BY ReceiveWorks DEF LogInv
<1>3. /\ chan \in Seq(Message) /\ report \in ReportType /\ report.no \in Nat
      /\ report.answered \subseteq Part
      /\ "summary" \in Part /\ "routes" \in Part /\ "consumers" \in Part
    BY DEF LogInv, LogTypeOK, Part, ReportType
<1>4. m \in Message /\ m = chan[1] /\ 1 \in DOMAIN chan
    BY <1>1, <1>3, Taken
<1>5. /\ report'.no = report.no /\ report'.step = report.step
      /\ report'.from = report.from /\ report'.to = report.to
      /\ report'.answered = IF Hit(m) THEN report.answered \cup {m.of} ELSE report.answered
      /\ \A p \in Part :
            report'.seen[p] = IF Hit(m) /\ p = m.of THEN InWindow ELSE report.seen[p]
    BY <1>1, <1>3, <1>4, AnswerFields
<1>6. Hit(m) => m.of \in Part /\ Working /\ Asks(1, m.of)
    BY <1>4, MessageFields DEF Hit, Working, Asks
<1>7. \A p \in Part : Working /\ Asks(1, p) => Hit(m) /\ m.of = p
    BY <1>3, <1>4, QueryFields DEF Hit, Working, Asks
<1>8. /\ \A i \in DOMAIN chan', p \in Part :
             Asks(i, p)' => i + 1 \in DOMAIN chan /\ i + 1 # 1 /\ Asks(i + 1, p)
      /\ \A i \in DOMAIN chan, p \in Part :
             Asks(i, p) => i = 1 \/ (i - 1 \in DOMAIN chan' /\ Asks(i - 1, p)')
      /\ \A i \in DOMAIN chan' : i \in Nat
      /\ \A i \in DOMAIN chan : i \in Nat /\ i >= 1
    <2>1. \A i \in DOMAIN chan' : i + 1 \in DOMAIN chan /\ i + 1 # 1 /\ chan'[i] = chan[i + 1]
        BY <1>1, <1>3, Taken
    <2>2. \A i \in DOMAIN chan : i = 1 \/ (i - 1 \in DOMAIN chan' /\ chan'[i - 1] = chan[i])
        BY <1>1, <1>3, Taken
    <2>3. \A i \in DOMAIN chan' : i \in Nat
        BY <1>1, <1>3
    <2>4. \A i \in DOMAIN chan : i \in Nat /\ i >= 1
        BY <1>3
    <2>5. ASSUME NEW i \in DOMAIN chan, NEW p \in Part, Asks(i, p), i # 1
          PROVE  i - 1 \in DOMAIN chan' /\ Asks(i - 1, p)'
        BY <1>5, <2>2, <2>5 DEF Asks
    <2>6. ASSUME NEW i \in DOMAIN chan', NEW p \in Part, Asks(i, p)'
          PROVE  i + 1 \in DOMAIN chan /\ i + 1 # 1 /\ Asks(i + 1, p)
        BY <1>5, <2>1, <2>6 DEF Asks
    <2> QED
        BY <2>3, <2>4, <2>5, <2>6
<1>9. /\ ServedInv /\ AskedInv /\ OldInv /\ OrderInv /\ RangeInv /\ SeenInv /\ ReportGrows
      /\ ~Working => report.answered = {}
    BY DEF ReportInv
<1>10. ServedInv' /\ RangeInv' /\ (Working' <=> Working)
    BY <1>1, <1>5, <1>9 DEF ServedInv, RangeInv, Working
<1>11. AskedInv'
    <2> SUFFICES ASSUME NEW p \in Part, Awaits(p)', p \notin report'.answered
                 PROVE  \E i \in DOMAIN chan' : Asks(i, p)'
        BY DEF AskedInv
    <2>1. Awaits(p) /\ p \notin report.answered /\ ~(Hit(m) /\ m.of = p) /\ Working
        BY <1>5 DEF Awaits, Working
    <2>2. PICK i \in DOMAIN chan : Asks(i, p)
        BY <1>9, <2>1 DEF AskedInv
    <2>3. i # 1
        BY <1>7, <2>1, <2>2
    <2> QED
        BY <1>8, <2>2, <2>3
<1>12. OldInv'
    <2>1. \A i \in DOMAIN chan' : i + 1 \in DOMAIN chan /\ chan'[i] = chan[i + 1]
        BY <1>1, <1>3, Taken
    <2> QED
        BY <1>5, <1>9, <2>1 DEF OldInv
<1>13. CASE ~Working
    <2>1. /\ ~Hit(m) /\ report'.answered = {}
        BY <1>5, <1>6, <1>9, <1>13
    <2>2. OrderInv' /\ SeenInv' /\ ReportGrows'
        BY <1>10, <1>13, <2>1 DEF OrderInv, SeenInv, ReportGrows
    <2> QED
        BY <1>10, <1>11, <1>12, <2>1, <2>2 DEF ReportInv
<1>14. CASE Working
    <2>1. InWindow \subseteq InWindow'
        BY <1>1, <1>2, <1>5, <1>9, <1>14, WindowKept
    <2>2. \A p \in report.answered : ~(Hit(m) /\ m.of = p)
        BY <1>4, <1>6, <1>9, <1>14 DEF OrderInv
    <2>3. Hit(m) /\ m.of = "routes" => "summary" \in report.answered
        <3> SUFFICES ASSUME Hit(m), m.of = "routes", "summary" \notin report.answered
                     PROVE  FALSE
            OBVIOUS
        <3>1. Asks(1, "routes")
            BY <1>6
        <3>2. report.step = "joined"
            BY <1>3, <1>9, <1>14 DEF OrderInv, Working, ReportType
        <3>3. PICK i \in DOMAIN chan : Asks(i, "summary")
            BY <1>3, <1>9, <3>2 DEF AskedInv, Awaits
        <3>4. i < 1
            BY <1>4, <1>9, <1>14, <3>1, <3>3 DEF OrderInv
        <3> QED
            BY <1>8, <3>4
    <2>4. Hit(m) /\ m.of = "consumers"
          => report.step = "consumers" /\ {"summary", "routes"} \subseteq report.answered
        BY <1>3, <1>4, <1>6, <1>9, <1>14 DEF OrderInv, Working, ReportType
    <2>5. OrderInv'
        <3>1. \A p \in Part : \A i, j \in DOMAIN chan' : Asks(i, p)' /\ Asks(j, p)' => i = j
            <4> SUFFICES ASSUME NEW p \in Part, NEW i \in DOMAIN chan', NEW j \in DOMAIN chan',
                                Asks(i, p)', Asks(j, p)'
                         PROVE  i = j
                OBVIOUS
            <4>1. i + 1 = j + 1
                BY <1>8, <1>9, <1>14 DEF OrderInv
            <4> QED
                BY <1>8, <4>1
        <3>2. ASSUME NEW p \in report'.answered, NEW i \in DOMAIN chan', Asks(i, p)'
              PROVE  FALSE
            <4>1. p \in Part
                BY <1>3, <1>5, <1>6, <3>2
            <4>2. i + 1 \in DOMAIN chan /\ i + 1 # 1 /\ Asks(i + 1, p)
                BY <1>8, <3>2, <4>1
            <4>3. CASE p \in report.answered
                BY <1>9, <1>14, <4>2, <4>3 DEF OrderInv
            <4>4. CASE Hit(m) /\ p = m.of
                BY <1>4, <1>6, <1>9, <1>14, <4>1, <4>2, <4>4 DEF OrderInv
            <4> QED
                BY <1>5, <4>3, <4>4
        <3>3. ASSUME NEW i \in DOMAIN chan', NEW j \in DOMAIN chan',
                     Asks(i, "summary")', Asks(j, "routes")'
              PROVE  i < j
            <4>1. /\ i + 1 \in DOMAIN chan /\ Asks(i + 1, "summary")
                  /\ j + 1 \in DOMAIN chan /\ Asks(j + 1, "routes")
                BY <1>3, <1>8, <3>3
            <4>2. i + 1 < j + 1
                BY <1>9, <1>14, <4>1 DEF OrderInv
            <4> QED
                BY <1>8, <4>2
        <3>4. "routes" \in report'.answered => "summary" \in report'.answered
            BY <1>5, <1>9, <1>14, <2>3 DEF OrderInv
        <3>5. report'.step = "joined" =>
                  /\ "consumers" \notin report'.answered
                  /\ \A i \in DOMAIN chan' : ~Asks(i, "consumers")'
            BY <1>3, <1>5, <1>8, <1>9, <1>14, <2>4 DEF OrderInv
        <3>6. report'.step = "consumers" => {"summary", "routes"} \subseteq report'.answered
            BY <1>5, <1>9, <1>14 DEF OrderInv
        <3> QED
            BY <3>1, <3>2, <3>3, <3>4, <3>5, <3>6 DEF OrderInv
    <2>6. \A p \in report'.answered :
              /\ p \in Part /\ (p \in report.answered \/ (Hit(m) /\ p = m.of))
              /\ report'.seen[p] = IF Hit(m) /\ p = m.of THEN InWindow ELSE report.seen[p]
        BY <1>3, <1>5, <1>6
    <2>7. \A p \in report.answered : report'.seen[p] = report.seen[p]
        BY <1>3, <1>5, <2>2
    <2>8. \A p \in report.answered : report.seen[p] \subseteq InWindow
        BY <1>9 DEF SeenInv
    <2>9. SeenInv'
        BY <2>1, <2>6, <2>8 DEF SeenInv
    <2>10. ReportGrows'
        <3>1. ASSUME "summary" \in report'.answered, "routes" \in report'.answered
              PROVE  report'.seen["summary"] \subseteq report'.seen["routes"]
            <4>1. CASE Hit(m) /\ m.of = "routes"
                BY <2>3, <2>6, <2>7, <2>8, <3>1, <4>1
            <4>2. CASE Hit(m) /\ m.of = "summary"
                BY <1>9, <1>14, <2>2, <2>6, <3>1, <4>2 DEF OrderInv
            <4>3. CASE ~(Hit(m) /\ m.of \in {"summary", "routes"})
                BY <1>9, <2>6, <2>7, <3>1, <4>3 DEF ReportGrows
            <4> QED
                BY <4>1, <4>2, <4>3
        <3>2. ASSUME "consumers" \in report'.answered
              PROVE  report'.seen["routes"] \subseteq report'.seen["consumers"]
            <4>1. CASE Hit(m) /\ m.of = "consumers"
                BY <2>4, <2>6, <2>7, <2>8, <3>2, <4>1
            <4>2. CASE ~(Hit(m) /\ m.of = "consumers")
                <5>1. "consumers" \in report.answered
                    BY <2>6, <3>2, <4>2
                <5>2. report.step = "consumers" /\ "routes" \in report.answered
                    BY <1>3, <1>9, <1>14, <5>1 DEF OrderInv, Working, ReportType
                <5> QED
                    BY <1>9, <2>7, <5>1, <5>2 DEF ReportGrows
            <4> QED
                BY <4>1, <4>2
        <3> QED
            BY <3>1, <3>2 DEF ReportGrows
    <2> QED
        BY <1>10, <1>11, <1>12, <1>14, <2>5, <2>9, <2>10 DEF ReportInv
<1> QED
    BY <1>13, <1>14

LEMMA ReportInit ==
    ASSUME LogInit
    PROVE  ReportInv
BY DEF LogInit, ReportInv, ServedInv, AskedInv, OldInv, OrderInv, RangeInv, SeenInv, Awaits,
       Working, ReportGrows

LEMMA ReportStep ==
    ASSUME LogInv, ReportInv, [LogNext]_logVars
    PROVE  ReportInv'
<1>1. ServedInv /\ RangeInv /\ (~Working => report.answered = {})
    BY DEF ReportInv
<1>2. ASSUME NEW r \in Request, Begin(r)
      PROVE  ReportInv'
    <2>1. /\ report' = report /\ chan' = chan
          /\ UNCHANGED <<now, serving, worker, table>>
        BY <1>2 DEF Begin, server, database
    <2>2. table[r] = 0 /\ \A q \in Request : ts'[q] = ts[q] \/ q = r
        BY <1>2 DEF Begin, LogInv, OnceInv, LogTypeOK
    <2>3. InWindow \subseteq InWindow'
        BY <2>1, <2>2 DEF InWindow
    <2> QED
        BY <1>1, <2>1, <2>3, ReportSame DEF ServedInv, RangeInv, Working, QuietChan
<1>3. ASSUME NEW r \in Request, Respond(r) \/ Drop(r)
      PROVE  ReportInv'
    <2>1. /\ report' = report
          /\ UNCHANGED <<now, serving, ts, worker, table>>
        BY <1>3 DEF Respond, Drop, server, database
    <2>2. QuietChan
        BY <1>3, MessagesMade DEF QuietChan, Respond, Drop, Send
    <2>3. InWindow \subseteq InWindow'
        BY <2>1 DEF InWindow
    <2> QED
        BY <1>1, <2>1, <2>2, <2>3, ReportSame DEF ServedInv, RangeInv, Working
<1>4. ASSUME SendClean \/ SendMaintain
      PROVE  ReportInv'
    <2>1. /\ report' = report
          /\ UNCHANGED <<now, serving, ts, worker, table>>
        BY <1>4 DEF SendClean, SendMaintain, server, requests, database
    <2>2. QuietChan
        BY <1>4, MessagesMade DEF QuietChan, SendClean, SendMaintain, Send
    <2>3. InWindow \subseteq InWindow'
        BY <2>1 DEF InWindow
    <2> QED
        BY <1>1, <2>1, <2>2, <2>3, ReportSame DEF ServedInv, RangeInv, Working
<1>5. ASSUME Age \/ UNCHANGED logVars
      PROVE  ReportInv'
    <2>1. /\ report' = report /\ chan' = chan
          /\ UNCHANGED <<now, serving, ts, worker, table>>
        BY <1>5 DEF Age, logVars, server, requests
    <2>2. InWindow \subseteq InWindow'
        BY <2>1 DEF InWindow
    <2> QED
        BY <1>1, <2>1, <2>2, ReportSame DEF ServedInv, RangeInv, Working, QuietChan
<1>6. ASSUME Tick
      PROVE  ReportInv'
    <2>1. /\ report' = report /\ chan' = chan /\ now' = now + 1 /\ (Working => now = report.to)
          /\ UNCHANGED <<serving, ts, worker, table>>
        BY <1>6 DEF Tick, requests, database, Working
    <2>2. now \in Nat
        BY RetentionOutlastsReports DEF LogInv, LogTypeOK
    <2>3. RangeInv' /\ ServedInv'
        BY <1>1, <2>1, <2>2 DEF RangeInv, ServedInv, Working
    <2>4. InWindow \subseteq InWindow'
        BY <2>1 DEF InWindow
    <2> QED
        BY <2>1, <2>3, <2>4, ReportSame DEF QuietChan
<1>7. ASSUME EndReport
      PROVE  ReportInv'
    <2>1. report' = Idle /\ chan' = chan /\ UNCHANGED <<serving, worker>>
        BY <1>7 DEF EndReport, server, database
    <2>2. report'.step = "idle"
        BY <2>1, IdleFields DEF LogInv, LogTypeOK
    <2> QED
        BY <1>1, <2>1, <2>2, ReportIdle DEF ServedInv, Working
<1>8. ASSUME Restart
      PROVE  ReportInv'
    <2>1. report' = Idle /\ chan' = <<>> /\ serving' = "up" /\ worker' = "running"
        BY <1>8 DEF Restart
    <2> QED
        BY <2>1, ReportIdle DEF ServedInv
<1>9. ASSUME Close
      PROVE  ReportInv'
    <2>1. /\ report' = report /\ chan' = chan /\ ~Working
          /\ UNCHANGED <<now, ts, worker, table>> /\ serving' = "closed"
        BY <1>9 DEF Close, MayClose, InFlight, requests, database, Working
    <2>2. InWindow \subseteq InWindow'
        BY <2>1 DEF InWindow
    <2> QED
        BY <2>1, <2>2, ReportSame DEF ServedInv, RangeInv, Working, QuietChan
<1>10. ASSUME FinalFlush
       PROVE  ReportInv'
    <2>1. /\ serving = "closed" /\ UNCHANGED <<now, serving, chan, report>>
        BY <1>10, FinalFlushWorks DEF LogInv
    <2>2. ~Working /\ report.answered = {}
        BY <1>1, <2>1 DEF ServedInv
    <2>3. ServedInv' /\ RangeInv' /\ SeenInv'
        BY <2>1, <2>2 DEF ServedInv, RangeInv, SeenInv, Working
    <2>4. AskedInv' /\ OldInv' /\ OrderInv'
        BY <2>1, QueriesSame DEF QuietChan
    <2>5. ReportGrows' /\ ~Working' /\ report'.answered = {}
        BY <2>1, <2>2 DEF ReportGrows, Working
    <2> QED
        BY <2>3, <2>4, <2>5 DEF ReportInv
<1> QED
    BY <1>2, <1>3, <1>4, <1>5, <1>6, <1>7, <1>8, <1>9, <1>10,
       StartReportInv, AskConsumersInv, ReceiveInv DEF LogNext

(* A report's queries are asked once and answered in order by a worker that  *)
(* is there, and what was counted stays.                                     *)
THEOREM ReportCorrect == LogSpec => []ReportInv
<1>1. LogSpec => []LogInv
    BY LogCorrect
<1>2. LogInit => ReportInv
    BY ReportInit
<1>3. LogInv /\ ReportInv /\ [LogNext]_logVars => ReportInv'
    BY ReportStep
<1> QED
    BY <1>1, <1>2, <1>3, PTL DEF LogSpec

LEMMA ReportReads ==
    ASSUME LogInv, ReportInv
    PROVE  ReadersAreAnswered
<1> SUFFICES ASSUME NEW p \in Part, Awaits(p), p \notin report.answered
             PROVE  /\ worker = "running" /\ serving # "closed"
                    /\ Contains(chan, Query(p, report.no))
    BY DEF ReadersAreAnswered, Awaits
<1>1. serving = "up" /\ worker = "running"
    BY DEF ReportInv, ServedInv, Awaits, Working, LogInv, LogTypeOK
<1>2. PICK i \in DOMAIN chan : chan[i] = Query(p, report.no)
    BY DEF ReportInv, AskedInv, Asks
<1>3. i \in 1..Len(chan)
    BY DEF LogInv, LogTypeOK
<1> QED
    BY <1>1, <1>2, <1>3 DEF Contains

(* As long as a report waits for an answer its query is in the channel and   *)
(* the worker there to take it: the channel never ends unexpectedly.         *)
THEOREM ReadersCorrect == LogSpec => []ReadersAreAnswered
<1>1. LogSpec => []LogInv
    BY LogCorrect
<1>2. LogSpec => []ReportInv
    BY ReportCorrect
<1>3. LogInv /\ ReportInv => ReadersAreAnswered
    BY ReportReads
<1> QED
    BY <1>1, <1>2, <1>3, PTL

(* What an earlier part of a report counted a later one counts as well,      *)
(* whatever is written and cleaned in between, for any retention that        *)
(* outlasts the ranges by more than a tick.                                  *)
THEOREM GrowsCorrect == LogSpec => []ReportGrows
<1>1. LogSpec => []ReportInv
    BY ReportCorrect
<1>2. ReportInv => ReportGrows
    BY DEF ReportInv
<1> QED
    BY <1>1, <1>2, PTL
=============================================================================
