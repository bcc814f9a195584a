# A specification of klappstuhl.me

TLA+ modules that model the site in `src/` (a Rust web server over SQLite, with
in-process caches), TLC configurations that check them on small instances, and
TLAPS proofs of what matters most for every instance. Paths below are relative
to the repository root; Rust paths to its `src/`.

## The system

One process serves HTTP. Each request is an async task (a *handler*) that the
runtime may leave at any `await` and resume later, and that is dropped at an
`await` when the client goes away. All handlers share

- a SQLite database, through a pool: each `call` or `execute` is one atomic step,
  several statements are one only inside a transaction;
- two `quick_cache` caches in `core/state.rs`: `valid_sessions` (session id to
  session) and `cached_users` (account id to account); lists of images behind
  `platform/cached.rs`; per-address counters behind the rate limiter and the
  login lockout;
- background tasks: the paste and image reapers, the request-log writer, and the
  audit inserts that handlers spawn and do not wait for.

| Component | State | Operations | Hard part | Module |
|-----------|-------|------------|-----------|--------|
| Session and account store (`core/state.rs`, `auth/token.rs`, `site/api/auth.rs`, `site/account/{auth,sessions,security,api_keys,delete}.rs`) | `session` and `account` tables, two caches and their placeholders | resolve a cookie or an API key, login, signup, logout, sign out everywhere, revoke one, change password, generate a key, delete the account | loads racing invalidations; waiting behind another's load; ids given out again | `SessionStore` |
| Account table (`site/account/username.rs`, `site/discord_oauth.rs`, `delete.rs`, `auth.rs`, `mod.rs`, `main.rs`) | `account`, `username_change`, `user_discord_links` | signup, Discord login and link, rename, the hint, delete, admin command | checks outside the transaction; history and table agreeing; deadlines that meet | `AccountTable` |
| Two-factor authentication (`auth/totp.rs`, `security.rs`, `auth.rs`, `delete.rs`) | `totp_secret`, `totp_enabled`, `totp_recovery_code`, the pending cookie | sign in, setup, enable, disable, new codes, change password, re-authenticate | one-use codes; batches replaced while they are being inserted | `SignIn` implements `BurnOnce` |
| Pastes (`site/paste/*`, `site/api/pastes.rs`) | `paste`, `paste_revision` | create, edit, fork, delete, reveal, burn, reap | edits from stale snapshots, burning once, quotas | `Paste` implements `BurnOnce` |
| Paste gates (the routes that answer with a body) | the unlock cookie, the view counter | unlock, view, raw, embed, edit form, revisions, API read and update, reveal | many routes with the same two gates; the row in other hands after the gate | `PasteGate` |
| Images (`site/image.rs`, `core/state.rs`, `platform/cached.rs`) | `images`, two cached lists | upload, list, zip, serve, delete one or many, account deletion, expire | lists filled from before an invalidation | `Images` |
| Short links (`site/links.rs`) | `short_link` | create, edit, delete, redirect, the API's paged list | count then insert; a cursor that moves | `Links` |
| Guild galleries (`core/state.rs`, `site/api/guild_images.rs`) | `guild_api_key`, keys, guild images | provision a key, upload, delete, list by pages | get or create in several statements | `GuildGallery` |
| Lockout and rate limiter (`lockout.rs`, `platform/ratelimit.rs`) | a bounded cache per address each | ask, record, clear | get and insert with others in between; arithmetic at the edge | `Throttle` |
| Request log and insights (`core/logging.rs`, `main.rs`, `site/account/insights.rs`) | channel, buffer, `requests.db` | log, batch, clean, maintain, report, shut down | everything through one thread; what is lost when it ends | `RequestLog` |
| Audit log (`core/audit.rs`) | `audit_log` | spawned inserts | lost rows, which the code accepts | none |
| The rest | none shared | pages, charts, unfurl, QR, rendering, configuration, migrations | | none (see the end) |

What makes each correct: *sessions*: a session signed out everywhere is served no more,
no cache fill is older than its guard, every request is answered. *Accounts*: the history
tells the truth, the hold and the cooldown are kept whatever races, the hint is wrong to
nobody but an account in its cooldown. *Two-factor*: no login by password opens a session without the second
factor while it is on (a login with Discord skips it by design, security.rs:152-154, and is not in the
module), a code is spent once, codes whose deletion went through are dead and shown ones whose insertion did are there.
*Pastes*: a burnt paste is shown once, a revision was a body, quotas nearly hold as long as they can be counted, what expired goes; no route gets
around the password or the seal. *Images*: what was gone when a request came in is not
sent, only the uploader deletes, lists catch up. *Links*: the limit nearly holds as long as it can be counted, a
write reaches the writer's link, clicks are counted once, a walk of the list skips
nothing. *Galleries*: provisioning costs nobody a key, repeated calls agree until a lookup fails, a walk skips
nothing but images of the second in which a page ended.
*Throttle*: the rate is never exceeded, coming back when told works, guesses are bounded, a
lock lasts. *Request log*: an entry is logged once and lands, a report is answered and
its parts agree.

`PROJECT.json` lists the places where this can go wrong (`hazards`), each with the
properties that would catch it, or why there is none.

## The modules

### SessionStore

The state is the two tables (`account`, `sessions`; `token` is what a signed token
carries, `aged` which tokens are past `MAX_TOKEN_AGE`), the two caches
(`validSessions`, `cachedUsers`) with the holder of each placeholder
(`sessionLoader`, `userLoader`), and per handler a place `pc`, its locals `req`,
and the handler whose load it waits for (`leader`).

A handler is a sequence of actions with one cache access or SQL statement each,
named for where it is in the code:

- `Resolve`, `SessionRead`, `SessionInsert`, `AccountStore`, `AccountLookup`,
  `AccountRead`, `AccountInsert`, `SessionForget`, `Respond` are
  `get_session_account` (for cookies) and `is_session_valid` followed by
  `get_account` (for API keys). They share their steps and part in the query and in
  how the account gets into the cache: `get_session_account` puts the account it
  joined into `cached_users` with a plain insert (`AccountStore`), `get_account` goes
  through a guard (`AccountInsert`).
- `InvalidateForget`, `InvalidateDelete` are `invalidate_session`: the cache entry
  first, the row second, and nobody looks at whether that failed. `DeleteSessions`, `ForgetSessions` are
  `invalidate_account_sessions` and `invalidate_api_keys`: rows first, then the cache
  entries one by one. `ForgetAccount` is `invalidate_account_cache`.
- `Login`, `Signup`, `Logout`, `ChangePassword`, `RevokeSession`, `LogoutAll`,
  `ChangeUsername`, `GenerateApiKey`, `DeleteAccount` start the handlers and set the
  order in which they go through the shared steps (`next`, `last`). The handlers
  that take an `Account` start from a request that has been resolved.
- `Disconnect` drops a handler at an await: its guards are dropped, and a statement
  already sent still runs. `EvictSession`, `EvictUser`, `Age` and `Restart` are the
  caches' capacity, time, and the process.

`quick_cache` is external and modelled by what `core/state.rs` relies on: a miss
leaves a placeholder, later readers wait for its holder, a remove or a plain insert
takes the placeholder out and the holder's own insert is then refused, and a guard
dropped uninserted passes to one of the waiters (`Heirs`; the library takes the
first, the model any of them). `revoked` and `settled` are history variables; `born`
and `ver` tell people and versions of a row apart, and nothing reads them but
properties and the values the code itself copies.

### AccountTable

The account table (`name`, `admins`, `passworded`), the Discord links (`discord`), the
username history (`changes`) and a clock. Each transaction is one action: `Signup`,
`CreateAdmin`, `DiscordCreate`/`DiscordRetry`, `LinkDiscord`, `DiscordUnlink`,
`SetPassword`, `Claim`, `Purge`. Handlers that read first and write later are several
actions: `ChangeUsername`, `LoadForRename`, `Claim`; `DeleteAccount`, `CountAdmins`,
`LoadForDelete`, `Purge`; `DiscordLogin`, `DiscordCreate`, `DiscordRetry`;
`DiscordStart`, `LinkDiscord`. `Claimable` is what `claim` asks for in its transaction.
`Available` is the live hint (`availability`), asked of the same state; it asks for the same
but the cooldown, although `docs/features.md:58-60` and `username.rs:23-26` say that its rules are the same and that it
never promises a name the submit would refuse. It does, to an account that renamed less than 30 days ago;
`HintWrongOnlyInCooldown` says that it does so to no other and never denies a name that is to be had. It
reads two statements without a transaction, so that in the program it may be out of date
when it is shown. The latest release of a name decides in
the code (`ORDER BY changed_at DESC LIMIT 1`); `FreeFor` says the same without
picking a row, and leaves a tie in `changed_at` open. Passwords and second factors are
checks that may fail. Usernames that fail `is_valid_username` never get anywhere and
are not in `Name`.

### Paste and BurnOnce

The state is the paste table (`paste`), its history (`revisions`), a clock, and per handler
its place `pc` and its locals `req`. `Create`, `Fork` and `ForkCheck`, `Edit`, `Reveal` are
what a handler does up to its next statement on the database: it has loaded the paste,
passed the checks and keeps what it loaded. `Insert`, `EditCommit`, `Burn` are those
statements, and act on what was loaded then and on the table as it is now. `Show` is the
page with a burnt body, `Fail` every way in which a handler ends without a write. `Reap`
and `Prune` are the reaper's statements, in any order, and `Delete` is also what the
deletion of an account does to each of its pastes. `Remove` has the foreign keys:
revisions go with a paste, its forks lose their parent.

`shown` counts how often the body of a burn-after-read paste was handed out and `past` keeps
the bodies a paste has had; both are history variables that nothing reads. `minted` makes
ids that are never given out twice. In the code they are five random letters, refused by
the primary key while their paste is there; that one comes up again for a handler that
still holds it is left out. Whoever edits or deletes a stranger's paste holds its edit
token, so `MayModify` lets anyone do it. A fork goes through `check_for_secrets` without a
confirmation, so a paste with a critical finding cannot be forked, though the comment on
`fork` means only to warn; the model refuses it as the code does. An edit asks neither
count nor bytes of the quota. A query for the quota that fails counts as nothing stored (`usage` ends in
`unwrap_or((0, 0))`), so that `Admitted` may let a creation through above the quota; `missed` counts these, a
history variable that only `QuotaNearlyKept` reads. Left out are encryption and the unlock cookie (whoever does
not know the password is turned away before anything changes), titles, visibility, the view
counter, and the statement that forgets `creator_ip`.

`BurnOnce` is what burn-after-read promises: a paste is published, burnt by one reader who
takes it out of the store, shown to that reader at most once, or withdrawn. `Paste` implements
it under the mapping `PasteStatus`: a paste is *kept* while it has a row, *owed* while a handler
that deleted the row has not answered, and then *gone*.

### PasteGate

Every route that answers with a body, and the two gates in front of it. `Unlock` leaves a
cookie (`jar`) that opens a paste for `UNLOCK_TTL_SECS`; `View`, `Read` (raw, embed, history, fork), `Card` (the preview image),
`EditForm`, `ApiRead`, `ApiRevisions`, `ApiUpdate`, `ApiDelete` and `Reveal` decide from the
row they load, and `CountView`, `Burn`, `Answer` come later, when the row may be gone. A row
is its two flags, locked and burn, which never change. What the handlers write is in
`Paste`; here the body itself is left out, and a password is right or wrong. `opened` and `proof`
are history. The history page reads the paste and its revisions in two statements; that the
two agree is not claimed.

### SignIn and BurnOnce

One account, its password, its secret and its codes, and the requests that meet there. The login
form (`SignIn`) ends in a session (`SaveSession`), or in a pending cookie that `VerifyTotp` takes further;
a recovery code is consumed by a statement of its own (`ConsumeRecoveryCode`), which finds it only
unused. `DeleteCodes`, `InsertCode`, `ShowCodes` replace the codes as `reset_recovery_codes` does:
one delete, then one insert per code, with others in between, and the error of any of them ignored: a `DELETE` that
failed leaves the old codes good, and a code whose `INSERT` failed is shown all the same (`lost`). `ClearSecret` and the deletion
after it, which disable 2FA, are ignored in the same way. Other statements that fail end their handler, as a hang-up (`Disconnect`) does. `Setup` and `StoreSecret` are the two steps
of an enrollment, its check of the account and its `UPDATE`. A code is `<<batch, place>>`, a TOTP code the
secret it is made from; hashes, time steps and the text of codes are left out.
`CodesBurnOnce` is `BurnOnce` again, with codes for pastes and sessions for bodies.
`factor`, `sure`, `shown`, `hit`, `retired`, `lost` and `opened` are history.

A login with Discord opens a session without a second factor, on purpose; it is `DiscordLogin` in `AccountTable` and not in
this module, and `SecondFactorAsked` says nothing of it.

The model has what the code does and one might not expect: the second step asks neither
whether the address is locked nor whether 2FA is still on; a pending cookie survives a change of
password and opens more than one session in its five minutes; a TOTP code may be used again
within its time steps; setup turns 2FA off and mints codes without asking for the password; enabling
turns on whatever secret is stored by then; of two changes of password at once the last wins.

### Images

The table, the two lists in `AppState` and every handler of either. `ImagesLookup`, `Select`,
`SetImages` are `resolve_images`; `FilesLookup`, `SetFiles`, `FilesUnwrap` are `resolve_image_files` around it;
`FilesUnwrap` leads to `Panicked` when the list it unwraps was dropped in between (state.rs:632). A deletion
is its statement followed by `DropImages` and `DropFiles`; the lists age through `Elapse`. `Reap` is the
hourly reaper. The gallery of an account reads the lists; serving reads the table; so `GoneStaysGone` is about the
table and `ListsCatchUp` about the lists, in which a deleted image may stay for as long as
a list lives. `Mine` filters by the clock as it was before the list was waited for (`expired`), as the page and the ZIP do. `dead` and `sent` are history. Account ids are given out again (`Signup`), which is why an image
kept by a deletion has to lose its uploader.

### Links

`CreateLink` counts and `InsertLink` inserts; a count that fails is taken for none (`LetIn`, and `missed`, which counts what it let through); `EditLink`, `UpdateLink`, `DeleteLink` load, check the owner, and
`Rename` and `RemoveLink` write by id; `Resolve` loads and `Click` counts. The API's list is walked by a client through
`ListLinks` and `EndWalk`: the pages are ordered by `created_at`, and the cursor is a *code*,
which an edit may move to another link while the client walks (`strayed`). Links made in one millisecond are tied, and the walk may
skip all but one. `owner` is an account id: when an account goes its links go with it, and whoever has it next
is another person (`outlived`). Admins have no limit and stay.

### GuildGallery

`Lookup`, `EnsureAccount`, `Mint`, `Store`, `AnswerCall` are the statements of `provision_guild_key` and what it calls; two calls
for a guild that has no key both mint one, the mapping keeps the last and the other key stays valid without
anybody knowing it. The same comes of a query for the stored key that fails (`LookupFails`), since any error counts as a miss. `told`, `agreed` and `alone` are the history by which `RepeatCallsAgree` says what is left of
"repeat calls return the same key": it holds once some call went through alone, and until a lookup fails. The gallery's routes ask
only for a key of the scope, of whichever guild (`HasKey`).

`ListGuildImages` answers a page of the list; the cursor is an image that may have been deleted, and pages go on after the
rest that is older. `uploaded_at` counts seconds and an upload inserts its files in a loop, so images often share a `stamp`: which of them
come first is the database's choice (`IsPage`), and those left over when a page ends within their second come on no page after it,
because the bound is strict (`After`). `WalkSkipsNothing` is about all other images. The `before` cursor is left out.

### Throttle

The rate limiter and the lockout as one address meets them. Both read an entry, compute, and insert it again,
so two requests may both read the old one: `Arrive` and `Insert`; `Fail`, which reads the clock, `GetFailures` and `PutFailures`. Time is in units
of which `Interval` is one request's share of the quota. `RateHolds` speaks of requests that did not overlap while the
entry was not evicted, and `GuessesAreBounded` and `LockHolds` of failures that were counted one
at a time (`raced` tells): the code leaves these races open on purpose, and what two failures counted at once lose is not caught by any property. Only the login form asks
whether the address is locked; other handlers count failures alone (`FailElsewhere`). The wall clock is taken never to go
back. A refused answer names a time up to one interval later than needed, which `RetryWorks` allows.

### RequestLog

Handlers and timers send into a channel, one thread receives. `Receive` is one turn of its loop:
a message, perhaps a batch into the table, perhaps a maintenance or a clean, any of which may fail. `StartReport`,
`AskConsumers`, `EndReport` are the insights page, whose parts are queries of their own.
`Close` and `FinalFlush` are the orderly end, `Restart` a crash or an end that did not wait for the thread: nobody joins it,
so the process may end before the last batch is written. A failed batch is lost. Requests dropped before
their response, for instance by the time limit, are not logged. Time is in retention units; at most one
clean and one maintenance wait in the channel, which stands for timers that are slow against the thread.

### How the modules meet

The modules that speak of accounts share the account table but not a specification.
`SessionStore` abstracts a row to who it belongs to and which version it is; `AccountTable` leaves out
sessions and caches and starts a handler from the id of an account that existed; `SignIn` follows one account up
to where `SessionStore` makes its session, and `Throttle` stands in front of it, so that there any
attempt may also not be made. What the end of an account does to pastes, images and links is an
action of each of these modules. `Paste` has the writes of pastes and `PasteGate` their reads.

Definitions marked `mutant:` are changes to the definition that follows them, as a plausible
bug would make them; nothing else uses them. Each property has one in `PROJECT.json`, under which TLC
finds it violated.

## The runs

| Run | Instance | What it shows |
|-----|----------|---------------|
| `sign_out` | 3 handlers, 1 token; `SignOutSpec` | `SignOutEverywhereIsFinal`, `WaitersAreLed` |
| `accounts` | 2 handlers, 1 token, 2 writes, with fairness; `AccountSpec` | `GuardedFillsFresh`, `Answered` |
| `session_owner` | 1 handler, 1 token, 3 writes | refutes `SessionKeepsOwner` |
| `names` | 2 handlers, 2 account ids, 3 names (1 reserved), 4 instants | `HistoryAgrees`, `HoldHonoured`, `HintWrongOnlyInCooldown` |
| `sign_in` | 2 handlers, 2 secrets and batches, 1 code in each | `SecondFactorAsked`, `ReplacedCodesAreDead`, `ShownCodesAreThere`, `CodesBurnOnce` |
| `pastes` | 2 handlers, 2 paste ids, 1 account, a clean body and one that leaks, 2 instants, 1 count of an account that fails, with fairness; `PasteSpec` | `RevisionsWereBodies`, `QuotaNearlyKept`, `StrangersNeverLeak`, `ReadOnce`, `ExpiredEndUp` |
| `paste_gate` | 2 handlers, 1 paste of any kind, an author and another reader, 3 instants | `LockHolds`, `SealHolds`, `ViewsAreReads` |
| `images` | 2 clients, the reaper, 1 image, 1 account id, 1 guild, with fairness | `GoneStaysGone`, `DeletedByUploader`, `ListsCatchUp` |
| `links` | 2 handlers, 3 links, 2 codes, a limit of 1, 1 count that fails, an admin, a client that walks by pages of 1 | `LinksNearlyKept`, `WritesToTheirs`, `EveryClickCounted`, `WalkSkipsNothing` |
| `guild_gallery` | 2 handlers, 2 guilds, 3 keys, 3 images, pages of 2 | `TypeOK`, `KeysLive`, `RepeatCallsAgree`, `WalkSkipsNothing` |
| `throttle` | 2 callers, 2 requests per 4 units, 2 failures per 2 units, 4 instants | `ThrottleTypeOK`, `RateHolds`, `RetryWorks`, `GuessesAreBounded`, `LockHolds` |
| `request_log` | 2 requests, 1 report, 3 messages in the channel, 4 instants, with fairness | `LoggedOnce`, `ReadersAreAnswered`, `ReportGrows`, `EntriesLand` |

`session_owner` states what a comment of the repository says and shows a behaviour of the code
that does otherwise: the sessions of a deleted account stay in `valid_sessions`, and when
SQLite gives the id out again the old cookie is served as the new account. The finding in `PROJECT.json` quotes the line.

Six more findings have no run of their own: an enrollment or a replacement
of recovery codes ignores its statements' errors (security.rs:126-137 and 248-258), the quotas of pastes and links take a count that failed for
none (service.rs:635, links.rs:284), provisioning takes it for a missing key (state.rs:484), the list of a gallery skips images of
a page's last second (guild_images.rs:174), and the hint leaves out the cooldown (username.rs:154). The models have these steps, and the properties say
what holds in spite of them; each says so where it is stated.

Other places where the code and its text part, which the models have and no property
contradicts: a single revocation can be undone in the cache by a reader under way (state.rs:374);
`get_session_account` may leave a stale account in the cache, since its insert is not guarded; signup and Discord login
ask neither for the hold nor for reserved names; two admins who delete themselves together leave none; two edits at once lose a body from
the history; a bulk deletion with an empty list is refused although its description says that it means all.

Bounds. Races here need at most a reader, a second reader that waits for it, and a
handler that invalidates: three handlers on one session have them all (`sign_out`).
One account id is enough for an id to be deleted and given out again; `MaxWrites` bounds how often an account row is written.
`accounts` starts with an account that has a login, with one that has an API key, or with
none, so that two writes suffice for each to change, go and come back. `MCSessionStore` restricts each run to the
handlers its question is about: `SignOutNext` leaves the account row
alone, `AccountNext` leaves out what revokes sessions. For names, a cooldown of two ticks
in four instants lets an account rename, be refused inside the cooldown, and rename
again at its very end, where the hold ends too; two account ids and three names allow
a name to be released, taken by someone else and released again. For
pastes, two ids are a paste and its fork, and an account and a stranger the two kinds of author (`PasteSpec` lets one of two handlers, which are alike, carry a body that leaks: the scan of a body looks at no other request); an edit and a second one in flight give a
paste one revision more than `RevisionCap`. A count fails in `pastes` only at the first instant and while nothing leaks and nothing has been edited (`MissesApart`), which it has
nothing to do with. Two batches of codes are the one a user was shown and the one
that replaces it; that a batch has several codes matters to the proof only, which has any number. The lists of
images treat one image as any other, so one will do. Three links are two in a list and one
that takes a code over; `Bounded` lets one request be in flight while somebody walks, since a walk is
disturbed by statements and not by what is between them. Two guilds have two mappings under one service account, three keys allow
two calls to race and one of their keys to be revoked and replaced; once there are images there is one key (`OneKeyForImages`), since keys and galleries meet only in
`HasKey`. Three images on pages of two give a page within a second, across two, and one that ends in the middle of one. For the throttle the clock runs past a whole window and
into a second one, and past the intervals after which a full burst has room again. For the
log the clock runs past the retention of the first request. Handlers and what else is alike is symmetric where no
liveness property is checked.

`CHECK_DEADLOCK FALSE` is said where a bound or an end stops everything: `links` when all ids and visits are used, `sign_in` after the
account is deleted, `paste_gate` and `throttle` at the last instant.

Fairness. `Answered` assumes weak fairness of each handler's own steps (`Step(p)`): the
runtime polls a task that can go on. Nothing is assumed of requests, disconnects,
evictions or expiry. With one key and two handlers the choice of heir is
no choice, so the run does not rest on the order in which `quick_cache` serves waiters. `ExpiredEndUp`
assumes weak fairness of `Reap`: `spawn_paste_reaper` loops for as long as the process runs,
and an expired paste stays expired until it is reaped or an edit that had loaded it before
gives it a new lifetime. `ListsCatchUp` assumes it of the handlers' steps, of the image reaper and of `Elapse`, which is time
passing for a list that lives half an hour. `EntriesLand` assumes it of `Receive` and `FinalFlush`
(the thread takes what is there), of `SendMaintain` (the interval of `run_server`) and of `Age` (five seconds pass); it claims nothing of what a failed
batch, a full stop of the process or a clean takes away.

## The proofs

Each proof holds for any number of handlers, ids and ticks, from the assumptions named in its module, which are
on the types and sizes of constants. Three of them have content: `DaysAssumption` of `AccountTable` (the hold is no longer than the
cooldown; in the code both are 30 days), `CallerAssumption` of `Throttle` (the counter of failures, 32 bits wide in the code, does not saturate
below the threshold and the requests in flight) and `RetentionOutlastsReports` of `RequestLog` (a row is kept more than a tick longer than the longest
range of a report; in the code 45 days and 30). `SignInProof` also holds what is proved of `Throttle`, and `GuildGalleryProof` what is proved
of `RequestLog`: components that share no variable, of which each has its own specification.

`SessionStoreProof`

- `TypeCorrect`: `Spec => []TypeOK`.
- `SignOutFinal`: `Spec => []SignOutEverywhereIsFinal`. The property speaks only of
  handlers being served; that nobody gets there with a token signed out everywhere
  is because the token has no row, no cache entry and no load past its read. So the
  invariant `SignOutInv` says: whoever holds a session placeholder is doing that load
  (`SessionLoaders`), whoever waits does so behind such a load of the same token or
  one already refused (`SessionWaiters`), rows belong to minted tokens (`RowsMinted`),
  a token revoked everywhere is gone from the rows and the cache and has no
  placeholder past its read (`RevokedGone`), and a late request never gets past the
  session (`LateRequests`).
- `FillsCorrect`: `Spec => []GuardedFillsFresh`, from `UserInv`: who holds the placeholder of an account is loading it
  (`UserLoaders`), who waits does so behind such a load (`UserWaiters`), a row read under a placeholder that is still there is no
  older than the last invalidation (`FreshLoads`), and neither is the row in the table (`SettledPast`), since a handler
  invalidates with the number of a write it has made (`WrotePast`).
- `WaitersCorrect`: `Spec => []WaitersAreLed`, from `SignOutInv` for sessions and `UserInv` for accounts.

`AccountTableProof`

- `TypeCorrect`; `HistoryCorrect`, `CooldownCorrect`, `HoldCorrect`, from one inductive invariant, `NamesInv`,
  in which they need each other: a rename releases a name that the account took at
  least a hold ago because the account that took it still has it (`HistoryAgrees`), no
  other account has it (`NamesUnique`), and that account is still cooling if it took it
  just now (`RenamesApart`, `ChangesPast`).
- `ClaimedNamesAreUnreleased`: a name that `claim` accepts has no release within the hold
  at all, so its exception for the account that released the name never applies.
- `HintCorrect`: `Spec => []HintWrongOnlyInCooldown`. The hint looks at the last release only; that there is a last one, and that its
  account is still cooling, makes it answer as `claim` does to everybody whose own cooldown is over.

`SignInProof`

- `TypeCorrect`, `FactorCorrect`, `ReplacedCorrect`, `ShownCorrect` from one inductive invariant, `CodesInv`. A batch
  is in the hands of one handler until it is shown (`BatchInv`), what it has not inserted nobody has (`FreshInv`), what
  it has inserted is there unless the `INSERT` failed or somebody deleted since (`WrittenInv`), and who is about to get a session by a recovery code has spent it
  alone (`SaverInv`).
- `CodesBurn`: `Spec => CodesBurnOnce`, that is, `SignIn` implements `BurnOnce`.
- `ThrottleTypeCorrect`, from the inductive `TypeInv`: nothing that is stored or was read is of later (`FoundInv`), and a request that may be
  admitted stays so, since the clock only goes forward (`ArrivalInv`).
- `RateCorrect`: `Spec => []RateHolds`. The property counts requests in a stretch of time; what a step keeps is where the stored
  arrival time is. So `QuotaInv` says that each request admitted since has moved it on by an interval (`SpacedInv`), from which
  requests few intervals apart are few (`GapsInv`).
- `RetryCorrect`: `Spec => []RetryWorks`: the time a refused client is told is the one at which its arrival time is within the burst, rounded up.
- `GuessesCorrect`: `Spec => []GuessesAreBounded`, by counting (`GuessesInv`): who is past the check found fewer failures than the threshold, and
  there are no more such requests than handlers. `LockCorrect`: `Spec => LockHolds`, a property of steps, from `TypeInv`.

`PasteProof`

- `TypeCorrect`, and `RevisionsCorrect`, `StrangersExpireCorrect`, `StrangersNeverLeakCorrect`
  from one inductive invariant, `PasteInv`. What a handler loaded may be out of date, so the
  invariant relates it to the past: an edit holds a body that the paste has or has had, and
  for a stranger's paste one that was scanned and a lifetime within the cap.
- `ReadOnceCorrect`: `Spec => ReadOnce`, that is, `Paste` implements `BurnOnce`. From
  `PasteInv` too: a handler about to show a paste is the only one for that paste, and the
  paste has no row and never will again. `OneReader` says what follows for readers.
- `QuotaCorrect`: `Spec => []QuotaNearlyKept`. The invariant bounds an account's pastes and its
  creations in flight together: a creation is let through only while the pastes alone are
  below the limit or its count has failed, which is counted, and an insertion turns one into the other.

`PasteGateProof`

- `TypeCorrect`; `LockCorrect` from `LockInv`: a cookie was got with the password no longer than its lifetime
  ago (`ClaimsEarned`), later proofs of a reader only replace earlier ones (`ProofsPast`), and a request past the gate came with one or the other (`LocksAsked`).
- `SealCorrect` from `SealInv`: who may not modify a sealed paste is past the gate only through the deletion that burns it, and what was deleted
  never comes back.
- `ReadsCorrect`: `Spec => []ViewsAreReads`, by counting: a view adds one to those who are about to count, and a count takes
  one away; of a paste that is gone nothing is left to count.

`ImagesProof`

- `TypeCorrect`; `GoneCorrect` from `GoneInv`: what was gone or expired when a request came in stays so (`DeadGone`), a
  request sends only at its end (`SentLast`), and a ZIP still looks only for ids that were not expired (`ZipsNothingDead`).
- `OwnerCorrect`: `Spec => DeletedByUploader`, a property of steps, from `OwnerInv`: the reaper only reaps, and a deletion's statement names
  the account its request acts for.

`LinksProof`

- `TypeCorrect` and `ClicksCorrect`, in the types' invariant `TypeInv`; `LimitCorrect` from `LimitInv`, which is argued like the quota of pastes; `WritesCorrect`
  from `WritesInv`: ids are not given out again, and with an account go all its links.
- `WalkCorrect` from `WalkInv`: of the links that were there at the start the client has met all that are not
  older than the one it goes on after, or one just as old.

`GuildGalleryProof`

- `TypeCorrect`; `LiveCorrect` and `RepeatCorrect` from `KeysInv`: a call that is alone has nobody beside it that could store another
  key (`CallInv`), and what is agreed is stored and works (`AgreedInv`).
- `WalkCorrect` from `WalkInv`: what a client still has to meet is listed and of an earlier second than all it was shown, since a page takes the
  newest of what follows the cursor and what shares a second with its last is struck off.
- `LogTypeCorrect` and `OnceCorrect` from `LogInv`: a request that is logged is an entry in the channel, an entry in the buffer or a row, in one of
  these places and once (`OnceInv`).
- `ReadersCorrect` and `GrowsCorrect` from `ReportInv`: the queries of a report are asked once and are in the channel until they are
  answered (`AskedInv`, `ServedInv`), the worker answers them in the order they were asked (`OrderInv`), and the range of a report that goes on ended no more
  than a tick ago (`RangeInv`), so that a clean in between takes no row that was counted (`WindowKept`).

Only model-checked, since liveness under fairness is out of the prover's reach: `Answered`, `ExpiredEndUp`, `ListsCatchUp`, `EntriesLand`.

## What is left

In this order: the people behind reused ids in `AccountTable`, for the OAuth flow that carries an id; a composition of `Throttle` with `SignIn`; the audit
log, if its rows come to be relied on.

## Not modelled, and why

Pages, charts, QR codes, unfurling, code images, scanning, thumbnails, markdown and
highlighting compute an answer from a request and keep nothing. Configuration,
command line, migrations and the connection pool act before the first request. The
OAuth exchange and the Percy hand-off are calls to other services whose failures end
the handler. The audit log is written by tasks that nobody waits for; a row may be lost, which
the code accepts, and nothing but the admin page reads it. Within the modelled components: labels of sessions, the `before` cursors of lists,
the cache of thumbnails (by content that never changes), view counts of images, audit rows, flash
messages and HTTP responses are left out, since no property is about them.
