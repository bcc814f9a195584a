---------------------------- MODULE GuildGallery ----------------------------
(***************************************************************************)
(* The guild galleries: the key a bot is given for each guild              *)
(* (src/core/state.rs: ensure_guild_api_key and what it calls; src/site/   *)
(* api/guild_images.rs: provision_guild_key) and the gallery it then       *)
(* uploads to, deletes from and walks page by page.                        *)
(*                                                                         *)
(* Keys are numbered as they are minted.  All belong to one service        *)
(* account.  Images are numbered as they are uploaded; uploaded_at counts  *)
(* seconds, so that several may share one, and is taken not to go back.    *)
(* What an upload does to the image cache is in Images.                    *)
(***************************************************************************)
EXTENDS Naturals, FiniteSets

CONSTANTS Handler,    \* handlers provisioning a key
          Guild, NoGuild,
          PageLimit,  \* length of a page
          MaxKey,     \* bound on the keys minted
          MaxImage    \* bound on the images uploaded

ASSUME GalleryConstants ==
    /\ NoGuild \notin Guild
    /\ PageLimit \in Nat \ {0} /\ MaxKey \in Nat /\ MaxImage \in Nat

VARIABLES
    service,  \* does the service account exist
    minted,   \* keys minted so far
    live,     \* keys with a session row
    mapping,  \* guild_api_key: the key of a guild, 0 for none
    pc,       \* where each handler is in its call
    guild,    \* the guild it provisions
    key,      \* the key it has found or minted
    revoked,  \* history: keys somebody revoked
    agreed,   \* history: the key a guild was told and will be told again; 0 for none
    told,     \* history: what had been agreed when the call began
    alone,    \* history: no other call for the guild was under way
    image,    \* rows of the guilds' images, by upload
    uploads,  \* images uploaded so far
    stamp,    \* their uploaded_at
    reading,  \* the guild whose gallery a client walks, from the newest on
    cursor,   \* the last image it was shown
    must      \* history: the images there ever since, which it was not shown yet,
              \* and none as old as the last one of a page
keys == <<service, minted, live, mapping, revoked, agreed>>
call == <<pc, guild, key, told, alone>>
gallery == <<image, uploads, stamp>>
walk == <<reading, cursor, must>>
vars == <<keys, call, gallery, walk>>

Key == 1..MaxKey
ImageId == 1..MaxImage

-----------------------------------------------------------------------------
(* Provisioning a key.                                                      *)

Calling(g) == {h \in Handler : guild[h] = g}

Goto(h, place) == pc' = [pc EXCEPT ![h] = place]

Finish(h) ==
    /\ Goto(h, "idle")
    /\ guild' = [guild EXCEPT ![h] = NoGuild]
    /\ key' = [key EXCEPT ![h] = 0]
    /\ told' = [told EXCEPT ![h] = 0]
    /\ alone' = [alone EXCEPT ![h] = FALSE]

Start(h, g) ==
    /\ pc[h] = "idle"
    /\ Goto(h, "lookup")
    /\ guild' = [guild EXCEPT ![h] = g]
    /\ told' = [told EXCEPT ![h] = agreed[g]]
    /\ alone' = [i \in Handler |-> IF i = h THEN Calling(g) = {} ELSE alone[i] /\ guild[i] # g]
    /\ UNCHANGED <<keys, key, gallery, walk>>

\* mutant: the service account is taken to exist
AfterMissAtOnce == "mint"
AfterMiss == IF service THEN "mint" ELSE "account"

\* the stored key, while it is a live session
Lookup(h) ==
    /\ pc[h] = "lookup"
    /\ LET k == mapping[guild[h]]
       IN  IF k \in live THEN Goto(h, "answer") /\ key' = [key EXCEPT ![h] = k]
           ELSE Goto(h, AfterMiss) /\ UNCHANGED key
    /\ UNCHANGED <<keys, guild, told, alone, gallery, walk>>

\* an error of that query counts as a miss: the guild will get another key,
\* and what it was told before is agreed no longer
LookupFails(h) ==
    /\ pc[h] = "lookup" /\ mapping[guild[h]] \in live
    /\ Goto(h, AfterMiss)
    /\ agreed' = [agreed EXCEPT ![guild[h]] = 0]
    /\ told' = [i \in Handler |-> IF guild[i] = guild[h] THEN 0 ELSE told[i]]
    /\ UNCHANGED <<service, minted, live, mapping, revoked, guild, key, alone, gallery, walk>>

\* INSERT ... ON CONFLICT DO NOTHING, and read back: it does no harm after a
\* SELECT that failed either
EnsureAccount(h) ==
    /\ pc[h] = "account"
    /\ service' = TRUE
    /\ Goto(h, "mint")
    /\ UNCHANGED <<minted, live, mapping, revoked, agreed, guild, key, told, alone, gallery, walk>>

\* mutant: a new key replaces the account's others, as the account page's does
LiveWithOnly(k) == {k}
LiveWith(k) == live \cup {k}

\* generate_api_key: a session row more
Mint(h) ==
    /\ pc[h] = "mint" /\ minted < MaxKey
    /\ minted' = minted + 1
    /\ live' = LiveWith(minted + 1)
    /\ key' = [key EXCEPT ![h] = minted + 1]
    /\ Goto(h, "store")
    /\ UNCHANGED <<service, mapping, revoked, agreed, guild, told, alone, gallery, walk>>

\* mutant: the first key of a guild stays in the mapping
StoredFirst(g, k) == IF mapping[g] = 0 THEN k ELSE mapping[g]
\* ON CONFLICT (guild_id) DO UPDATE
Stored(g, k) == k

Store(h) ==
    /\ pc[h] = "store"
    /\ mapping' = [mapping EXCEPT ![guild[h]] = Stored(guild[h], key[h])]
    /\ Goto(h, "answer")
    /\ UNCHANGED <<service, minted, live, revoked, agreed, guild, key, told, alone, gallery, walk>>

\* from here on the guild is told the same key, unless another call was minting
AnswerCall(h) ==
    /\ pc[h] = "answer"
    /\ agreed' = IF alone[h] /\ key[h] \notin revoked
                 THEN [agreed EXCEPT ![guild[h]] = key[h]] ELSE agreed
    /\ Finish(h)
    /\ UNCHANGED <<service, minted, live, mapping, revoked, gallery, walk>>

\* a database error or a caller that went away
Disconnect(h) ==
    /\ pc[h] # "idle"
    /\ Finish(h)
    /\ UNCHANGED <<keys, gallery, walk>>

\* a key's session row is deleted by hand
Revoke(k) ==
    /\ k \in live
    /\ live' = live \ {k}
    /\ revoked' = revoked \cup {k}
    /\ agreed' = [g \in Guild |-> IF agreed[g] = k THEN 0 ELSE agreed[g]]
    /\ UNCHANGED <<service, minted, mapping, call, gallery, walk>>

-----------------------------------------------------------------------------
(* The gallery.  A request has to come with a key of the scope images:guild, *)
(* and any guild's will do, mapped or not; other keys with it are left out.  *)

HasKey == live # {}
NoRow == [of |-> NoGuild, state |-> "gone"]
Row(g, state) == [of |-> g, state |-> state]

\* a file more, in the same second as the last one or later
Latest == IF uploads = 0 THEN 0 ELSE stamp[uploads]

Upload(g) ==
    /\ HasKey /\ uploads < MaxImage
    /\ uploads' = uploads + 1
    /\ \E t \in {Latest, Latest + 1} : stamp' = [stamp EXCEPT ![uploads + 1] = t]
    /\ image' = [image EXCEPT ![uploads + 1] = Row(g, "live")]
    /\ UNCHANGED <<keys, call, walk>>

\* DELETE ... WHERE guild_id = ? AND id = ?; expired rows too
DeleteGuildImage(g, i) ==
    /\ HasKey /\ image[i].of = g
    /\ image' = [image EXCEPT ![i] = NoRow]
    /\ must' = must \ {i}
    /\ UNCHANGED <<keys, call, uploads, stamp, reading, cursor>>

\* an image's time is over; its row stays until the reaper comes
Expire(i) ==
    /\ image[i].state = "live"
    /\ image' = [image EXCEPT ![i] = Row(image[i].of, "expired")]
    /\ must' = must \ {i}
    /\ UNCHANGED <<keys, call, uploads, stamp, reading, cursor>>

Reap ==
    /\ \E i \in ImageId : image[i].state = "expired"
    /\ image' = [i \in ImageId |-> IF image[i].state = "expired" THEN NoRow ELSE image[i]]
    /\ UNCHANGED <<keys, call, uploads, stamp, walk>>

Listed(g) == {i \in ImageId : image[i] = Row(g, "live")}
Rows == {i \in ImageId : image[i].state # "gone"}

\* mutant: a cursor without a row ends the list
AfterKnown(i, c) == c = 0 \/ (c \in Rows /\ stamp[i] < stamp[c])
\* an unknown cursor is no bound
After(i, c) == c \notin Rows \/ stamp[i] < stamp[c]

Rest(g, c) == {i \in Listed(g) : After(i, c)}

\* the newest of them; among those of one second the database chooses
IsPage(page, rest) ==
    /\ page \subseteq rest
    /\ Cardinality(page) = IF Cardinality(rest) < PageLimit THEN Cardinality(rest) ELSE PageLimit
    /\ \A i \in page, j \in rest \ page : stamp[i] >= stamp[j]

\* a walk has to meet the images that are there now and stay
StartWalk(g) ==
    /\ HasKey /\ reading = NoGuild
    /\ reading' = g /\ cursor' = 0 /\ must' = Listed(g)
    /\ UNCHANGED <<keys, call, gallery>>

\* the next page; its last image is the next cursor, and whatever is left of
\* that one's second comes on no page after it
ListGuildImages ==
    /\ reading # NoGuild /\ HasKey
    /\ \E page \in SUBSET Rest(reading, cursor) :
          /\ page # {} /\ IsPage(page, Rest(reading, cursor))
          /\ \E last \in page :
                /\ \A i \in page : stamp[last] <= stamp[i]
                /\ cursor' = last
                /\ must' = {i \in must \ page : stamp[i] # stamp[last]}
    /\ UNCHANGED <<keys, call, gallery, reading>>

\* an empty page ends it
AtEnd == reading # NoGuild /\ HasKey /\ Rest(reading, cursor) = {}
EndWalk ==
    /\ AtEnd
    /\ reading' = NoGuild /\ cursor' = 0 /\ must' = {}
    /\ UNCHANGED <<keys, call, gallery>>

-----------------------------------------------------------------------------
Init ==
    /\ service = FALSE /\ minted = 0 /\ live = {} /\ revoked = {}
    /\ mapping = [g \in Guild |-> 0]
    /\ agreed = [g \in Guild |-> 0]
    /\ pc = [h \in Handler |-> "idle"]
    /\ guild = [h \in Handler |-> NoGuild]
    /\ key = [h \in Handler |-> 0]
    /\ told = [h \in Handler |-> 0]
    /\ alone = [h \in Handler |-> FALSE]
    /\ image = [i \in ImageId |-> NoRow]
    /\ uploads = 0 /\ stamp = [i \in ImageId |-> 0]
    /\ reading = NoGuild /\ cursor = 0 /\ must = {}

Step(h) ==
    \/ Lookup(h) \/ LookupFails(h) \/ EnsureAccount(h) \/ Mint(h) \/ Store(h)
    \/ AnswerCall(h) \/ Disconnect(h)

Next ==
    \/ \E h \in Handler : Step(h) \/ \E g \in Guild : Start(h, g)
    \/ \E k \in Key : Revoke(k)
    \/ \E g \in Guild : Upload(g) \/ StartWalk(g) \/ \E i \in ImageId : DeleteGuildImage(g, i)
    \/ \E i \in ImageId : Expire(i)
    \/ Reap \/ ListGuildImages \/ EndWalk

Spec == Init /\ [][Next]_vars

-----------------------------------------------------------------------------
\* The variables stay in their sets; a guild's key was minted, for an account.
TypeOK ==
    /\ service \in BOOLEAN
    /\ minted \in 0..MaxKey
    /\ minted > 0 => service
    /\ live \subseteq 1..minted /\ revoked \subseteq 1..minted
    /\ mapping \in [Guild -> 0..minted]
    /\ agreed \in [Guild -> 0..minted]
    /\ pc \in [Handler -> {"idle", "lookup", "account", "mint", "store", "answer"}]
    /\ guild \in [Handler -> Guild \cup {NoGuild}]
    /\ key \in [Handler -> 0..minted] /\ told \in [Handler -> 0..minted]
    /\ alone \in [Handler -> BOOLEAN]
    /\ uploads \in 0..MaxImage /\ stamp \in [ImageId -> Nat]
    /\ image \in [ImageId -> [of : Guild \cup {NoGuild}, state : {"gone", "live", "expired"}]]
    /\ reading \in Guild \cup {NoGuild} /\ cursor \in 0..uploads /\ must \subseteq ImageId

\* Provisioning never costs another guild its key, although all keys belong to
\* one account: a key stops working only when it is revoked.
KeysLive == \A k \in 1..minted : k \in live \/ k \in revoked

\* "repeat calls return the same key until it is revoked" (provision_guild_key),
\* once a call for the guild went through with no other under way, and until the
\* query for the stored key fails: two calls that race, and one whose query fails,
\* are given keys of their own.
RepeatCallsAgree ==
    \A h \in Handler :
        pc[h] = "answer" /\ told[h] # 0 /\ told[h] \notin revoked => key[h] = told[h]

\* A client that walks a gallery page by page, with uploads, deletions and
\* expiries in between and its cursor among the deleted, met every image that
\* was there from beginning to end and has no second in common with the last
\* image of a page: those of its second are what the strict bound may skip.
WalkSkipsNothing == AtEnd => must = {}
=============================================================================
