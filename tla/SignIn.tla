------------------------------- MODULE SignIn -------------------------------
(***************************************************************************)
(* The second factor of one account: the password and code steps of        *)
(* signing in, the security page (password, enrollment, recovery codes),   *)
(* and the re-authentication in front of deleting the account.  A handler  *)
(* takes one SQL statement per action.  Whether the address may try at all *)
(* is Throttle's, so any attempt may also not be made here.  A statement    *)
(* that fails ends its handler, as a client that hangs up does, except for  *)
(* those whose error the code throws away.  A login with Discord skips the  *)
(* second factor on purpose and is left out.                                *)
(*                                                                         *)
(* A recovery code is the batch it was generated in and its place there;   *)
(* a TOTP code is the secret it was made from.  What save_session does     *)
(* next is SessionStore's.                                                 *)
(***************************************************************************)
EXTENDS Integers

CONSTANTS
    Handler,     \* the requests that may be in flight together
    Password,    \* passwords one can choose
    NoPassword,  \* NO_PASSWORD_SENTINEL, of an account Discord created
    CodeCount,   \* RECOVERY_CODE_COUNT
    MaxMint      \* bound: secrets and batches of codes are 1..MaxMint

Secret == 1..MaxMint
NoSecret == 0
Code == Secret \X (1..CodeCount)

ASSUME PasswordAssumption == NoPassword \notin Password
ASSUME BoundAssumption == CodeCount \in Nat \ {0} /\ MaxMint \in Nat

VARIABLES
    exists,              \* whether the account still has its row
    password,            \* its password
    secret, enabled,     \* its totp_secret and totp_enabled
    recovery,            \* its rows of totp_recovery_code
    minted,              \* how many secrets and batches were generated
    challenged,          \* whether a PendingTotp cookie is out and not expired
    pc,                  \* where each handler is
    answer,              \* the recovery code it still has to consume, or has
    batch, nth,          \* the batch it generated, the code it inserts next
    factor,              \* history: the second factor it was convinced by
    sure,                \* history: 2FA was on ever since it came in
    shown,               \* history: the batches that were shown to the user
    hit,                 \* history: the batches somebody else deleted after
    retired,             \* history: the batches shown before the last deletion
                         \* that went through
    lost,                \* history: the codes whose INSERT has failed
    opened               \* history: the sessions each recovery code has opened

accountRow == <<exists, password, secret, enabled>>
db == <<accountRow, recovery, minted>>
locals == <<answer, batch, nth, factor, sure>>
codeHistory == <<shown, hit, retired, lost>>
vars == <<db, challenged, pc, locals, codeHistory, opened>>

-----------------------------------------------------------------------------
Answer == [kind: {"wrong", "totp", "recovery"}, of: Nat, nth: Nat]
Wrong == [kind |-> "wrong", of |-> 0, nth |-> 0]
TotpCode(s) == [kind |-> "totp", of |-> s, nth |-> 0]
RecoveryCode(b, n) == [kind |-> "recovery", of |-> b, nth |-> n]
Answers == {Wrong} \cup {TotpCode(s) : s \in 1..minted}
                   \cup {RecoveryCode(b, n) : b \in 1..minted, n \in 1..CodeCount}

HasPassword == password # NoPassword
HasTotpByCopy == FALSE  \* mutant: a JOINed copy of the row lacks the secret
HasTotp == enabled /\ secret # NoSecret

(* totp::verify: the secret, the code. *)
Verify(s, a) == a.kind = "totp" /\ a.of = s

Goto(h, place) == pc' = [pc EXCEPT ![h] = place]

(* A request has come in, its first statement convinced it, and it goes on. *)
Start(h, place, c, by) ==
    /\ pc[h] = "idle"
    /\ Goto(h, place)
    /\ answer' = [answer EXCEPT ![h] = c]
    /\ factor' = [factor EXCEPT ![h] = by]
    /\ sure' = [sure EXCEPT ![h] = enabled /\ secret # NoSecret]
    /\ UNCHANGED <<batch, nth>>

(* It has been answered, or dropped; its locals go with it. *)
Finish(h) ==
    /\ Goto(h, "idle")
    /\ answer' = [answer EXCEPT ![h] = Wrong]
    /\ batch' = [batch EXCEPT ![h] = 0]
    /\ nth' = [nth EXCEPT ![h] = 0]
    /\ factor' = [factor EXCEPT ![h] = "none"]
    /\ sure' = [sure EXCEPT ![h] = FALSE]

(* 2FA is not on any more, or not on yet. *)
Unsure == sure' = [h \in Handler |-> FALSE]

-----------------------------------------------------------------------------
(* authenticate, with password w: a challenge, or a session right away. *)
SignIn(h, w) ==
    /\ exists /\ w = password /\ pc[h] = "idle"
    /\ IF HasTotp THEN challenged' = TRUE /\ UNCHANGED <<pc, locals>>
       ELSE UNCHANGED challenged /\ Start(h, "save", Wrong, "none")
    /\ UNCHANGED <<db, codeHistory, opened>>

(* save_session; a recovery code has now opened one more session. *)
SaveSession(h) ==
    /\ pc[h] = "save"
    /\ opened' = IF factor[h] = "recovery"
                 THEN [opened EXCEPT ![<<answer[h].of, answer[h].nth>>] = @ + 1]
                 ELSE opened
    /\ Finish(h)
    /\ UNCHANGED <<db, challenged, codeHistory>>

(* login_totp_verify.  It does not ask whether 2FA is enabled, and nothing *)
(* withdraws the cookie but its five minutes.                              *)
VerifyTotp(h, c) ==
    /\ challenged /\ secret # NoSecret
    /\ IF Verify(secret, c) THEN Start(h, "save", Wrong, "totp") ELSE Start(h, "consume", c, "none")
    /\ UNCHANGED <<db, challenged, codeHistory, opened>>

(* consume_recovery_code: one UPDATE that finds the code only if unused. *)
UnusedEver(c) == c \in Code /\ recovery[c] \in {"unused", "used"}  \* mutant: without used_at IS NULL
Unused(c) == c \in Code /\ recovery[c] = "unused"

ConsumeRecoveryCode(h) ==
    LET c == <<answer[h].of, answer[h].nth>>
    IN  /\ pc[h] = "consume"
        /\ IF answer[h].kind = "recovery" /\ Unused(c)
           THEN /\ recovery' = [recovery EXCEPT ![c] = "used"]
                /\ factor' = [factor EXCEPT ![h] = "recovery"]
                /\ Goto(h, "save")
                /\ UNCHANGED <<answer, batch, nth, sure>>
           ELSE UNCHANGED recovery /\ Finish(h)
        /\ UNCHANGED <<accountRow, minted, challenged, codeHistory, opened>>

ForgetChallenge ==
    /\ challenged
    /\ challenged' = FALSE
    /\ UNCHANGED <<db, pc, locals, codeHistory, opened>>

-----------------------------------------------------------------------------
(* The security page and the end of the account, for whoever is signed in. *)
(* change_password: a first password asks for no old one.                  *)
ChangePassword(h, w) ==
    /\ exists /\ (HasPassword => w = password)
    /\ Start(h, "set_password", Wrong, "none")
    /\ UNCHANGED <<db, challenged, codeHistory, opened>>

SetPassword(h, new) ==
    /\ pc[h] = "set_password"
    /\ password' = IF exists THEN new ELSE password
    /\ Finish(h)
    /\ UNCHANGED <<exists, secret, enabled, recovery, minted, challenged,
                   codeHistory, opened>>

(* totp_setup, of an account with a password, and no password is asked; a   *)
(* cached account is at most older, and so refused more.                    *)
Setup(h) ==
    /\ exists /\ HasPassword /\ minted < MaxMint
    /\ pc[h] = "idle"
    /\ minted' = minted + 1
    /\ batch' = [batch EXCEPT ![h] = minted + 1]
    /\ Goto(h, "store_secret")
    /\ UNCHANGED <<accountRow, recovery, challenged, answer, nth, factor, sure, codeHistory, opened>>

(* Its UPDATE: whatever was enabled before is not. *)
StoreSecret(h) ==
    /\ pc[h] = "store_secret"
    /\ secret' = IF exists THEN batch[h] ELSE secret
    /\ enabled' = FALSE
    /\ Unsure
    /\ Goto(h, "delete_codes")
    /\ UNCHANGED <<exists, password, recovery, minted, challenged, answer, batch, nth, factor,
                   codeHistory, opened>>

(* totp_recovery_codes. *)
NewCodes(h, w) ==
    /\ exists /\ HasTotp /\ w = password /\ minted < MaxMint
    /\ pc[h] = "idle"
    /\ minted' = minted + 1
    /\ batch' = [batch EXCEPT ![h] = minted + 1]
    /\ Goto(h, "delete_codes")
    /\ UNCHANGED <<accountRow, recovery, challenged, answer, nth, factor, sure, codeHistory, opened>>

(* totp_disable: the secret in one statement, the codes in another, and an  *)
(* error of either is ignored.                                              *)
Disable(h, w) ==
    /\ exists /\ w = password
    /\ Start(h, "clear_secret", Wrong, "none")
    /\ UNCHANGED <<db, challenged, codeHistory, opened>>

ClearSecret(h) ==
    /\ pc[h] = "clear_secret"
    /\ \/ secret' = NoSecret /\ enabled' = FALSE /\ Unsure
       \/ UNCHANGED <<secret, enabled, sure>>
    /\ Goto(h, "delete_codes")
    /\ UNCHANGED <<exists, password, recovery, minted, challenged, answer, batch,
                   nth, factor, codeHistory, opened>>

(* reset_recovery_codes: the old ones go in one statement, the new ones     *)
(* come in one by one, and none does without its account.  An error of any  *)
(* of them is ignored.  A handler that disables 2FA has no batch and is     *)
(* through after the first.                                                 *)
WithoutUsedCodes == [c \in Code |-> IF recovery[c] = "used" THEN "deleted" ELSE recovery[c]]  \* mutant: only the used ones go
WithoutCodes == [c \in Code |-> IF recovery[c] = "none" THEN "none" ELSE "deleted"]

DeleteCodes(h) ==
    /\ pc[h] = "delete_codes"
    /\ \/ /\ recovery' = WithoutCodes
          /\ hit' = (hit \cup 1..minted) \ {batch[h]}
          /\ retired' = shown
       \/ UNCHANGED <<recovery, hit, retired>>
    /\ IF batch[h] = 0
       THEN Finish(h)
       ELSE /\ Goto(h, "insert_code")
            /\ nth' = [nth EXCEPT ![h] = 1]
            /\ UNCHANGED <<answer, batch, factor, sure>>
    /\ UNCHANGED <<accountRow, minted, challenged, shown, lost, opened>>

MoreCodesFewer(n) == n < CodeCount  \* mutant: one code fewer than is shown
MoreCodes(n) == n <= CodeCount

InsertCode(h) ==
    /\ pc[h] = "insert_code" /\ MoreCodes(nth[h])
    /\ \/ /\ exists
          /\ recovery' = [recovery EXCEPT ![<<batch[h], nth[h]>>] = "unused"]
          /\ UNCHANGED lost
       \/ lost' = lost \cup {<<batch[h], nth[h]>>} /\ UNCHANGED recovery
    /\ nth' = [nth EXCEPT ![h] = @ + 1]
    /\ UNCHANGED <<accountRow, minted, challenged, pc, answer, batch, factor, sure,
                   shown, hit, retired, opened>>

ShowCodes(h) ==
    /\ pc[h] = "insert_code" /\ ~MoreCodes(nth[h])
    /\ shown' = shown \cup {batch[h]}
    /\ Finish(h)
    /\ UNCHANGED <<db, challenged, hit, retired, lost, opened>>

(* totp_enable. *)
Enable(h, c) ==
    /\ secret # NoSecret /\ Verify(secret, c)
    /\ Start(h, "set_enabled", Wrong, "none")
    /\ UNCHANGED <<db, challenged, codeHistory, opened>>

SetEnabled(h) ==
    /\ pc[h] = "set_enabled"
    /\ enabled' = exists
    /\ Finish(h)
    /\ UNCHANGED <<exists, password, secret, recovery, minted, challenged,
                   codeHistory, opened>>

(* delete_account, from its re-authentication on. *)
DeleteAccount(h, w, c) ==
    /\ exists /\ HasPassword /\ w = password
    /\ HasTotp => Verify(secret, c)
    /\ Start(h, "purge", Wrong, IF HasTotp THEN "totp" ELSE "none")
    /\ UNCHANGED <<db, challenged, codeHistory, opened>>

PurgeAccount(h) ==
    /\ pc[h] = "purge"
    /\ exists' = FALSE /\ password' = NoPassword /\ secret' = NoSecret /\ enabled' = FALSE
    /\ recovery' = [c \in Code |-> IF recovery[c] = "none" THEN "none" ELSE "deleted"]
    /\ Finish(h)
    /\ UNCHANGED <<minted, challenged, codeHistory, opened>>

(* A client hangs up: its handler is dropped at the await it is at. *)
Disconnect(h) ==
    /\ pc[h] # "idle"
    /\ Finish(h)
    /\ UNCHANGED <<db, challenged, codeHistory, opened>>

-----------------------------------------------------------------------------
Init ==
    /\ exists = TRUE /\ password \in Password \cup {NoPassword}
    /\ secret = NoSecret /\ enabled = FALSE
    /\ recovery = [c \in Code |-> "none"]
    /\ minted = 0 /\ challenged = FALSE
    /\ pc = [h \in Handler |-> "idle"]
    /\ answer = [h \in Handler |-> Wrong]
    /\ batch = [h \in Handler |-> 0] /\ nth = [h \in Handler |-> 0]
    /\ factor = [h \in Handler |-> "none"] /\ sure = [h \in Handler |-> FALSE]
    /\ shown = {} /\ hit = {} /\ retired = {} /\ lost = {}
    /\ opened = [c \in Code |-> 0]

Step(h) ==
    \/ ConsumeRecoveryCode(h) \/ SaveSession(h)
    \/ \E w \in Password : SetPassword(h, w)
    \/ StoreSecret(h) \/ ClearSecret(h) \/ DeleteCodes(h) \/ InsertCode(h) \/ ShowCodes(h)
    \/ SetEnabled(h) \/ PurgeAccount(h)

Request(h) ==
    \/ Setup(h)
    \/ \E w \in Password :
          \/ SignIn(h, w) \/ ChangePassword(h, w) \/ NewCodes(h, w) \/ Disable(h, w)
          \/ \E c \in Answers : DeleteAccount(h, w, c)
    \/ \E c \in Answers : VerifyTotp(h, c) \/ Enable(h, c)

Environment ==
    \/ ForgetChallenge
    \/ \E h \in Handler : Disconnect(h)

Next ==
    \/ \E h \in Handler : Step(h) \/ Request(h)
    \/ Environment

Spec == Init /\ [][Next]_vars

-----------------------------------------------------------------------------
Place == {"idle", "save", "consume", "set_password", "store_secret", "clear_secret",
          "delete_codes", "insert_code", "set_enabled", "purge"}

(* Every variable holds a value of its kind, and only generated secrets and *)
(* codes are about.                                                         *)
TypeOK ==
    /\ exists \in BOOLEAN /\ enabled \in BOOLEAN /\ challenged \in BOOLEAN
    /\ password \in Password \cup {NoPassword}
    /\ minted \in 0..MaxMint /\ secret \in 0..minted
    /\ recovery \in [Code -> {"none", "unused", "used", "deleted"}]
    /\ pc \in [Handler -> Place]
    /\ answer \in [Handler -> Answer]
    /\ batch \in [Handler -> 0..minted] /\ nth \in [Handler -> 0..CodeCount + 1]
    /\ factor \in [Handler -> {"none", "totp", "recovery"}]
    /\ sure \in [Handler -> BOOLEAN]
    /\ shown \subseteq 1..minted /\ hit \subseteq 1..minted /\ retired \subseteq 1..minted
    /\ lost \subseteq Code
    /\ opened \in [Code -> Nat]

(* While 2FA is on from the first statement of a request to its last, who   *)
(* signs in with the password needs a second factor for a session, and an   *)
(* authenticator, not a recovery code, to delete the account: auth.rs:432.  *)
SecondFactorAsked ==
    \A h \in Handler :
        /\ pc[h] \in {"save", "purge"} /\ sure[h] => factor[h] # "none"
        /\ pc[h] = "purge" => factor[h] # "recovery"

(* Once a deletion has gone through, for newer codes or to disable 2FA,     *)
(* none of those the user was shown before opens anything, whatever is      *)
(* being inserted or consumed.  A deletion that failed leaves the old codes *)
(* good, although security.rs:273 and the page say otherwise.               *)
ReplacedCodesAreDead == \A c \in Code : c[1] \in retired => recovery[c] # "unused"

(* The codes a user was shown are all there, until they are used or the     *)
(* account deletes them again, except those whose INSERT failed, which are  *)
(* shown all the same.                                                      *)
ShownCodesAreThere ==
    exists => \A c \in Code : c[1] \in shown \ hit /\ c \notin lost => recovery[c] \in {"unused", "used"}

(* What the recovery codes look like to who only knows BurnOnce: a code is  *)
(* owed while a request that has spent it has not got its session yet.      *)
CodeStatus ==
    [c \in Code |->
        IF recovery[c] = "none" THEN "unborn"
        ELSE IF recovery[c] = "unused" THEN "kept"
        ELSE IF \E h \in Handler : /\ pc[h] = "save" /\ factor[h] = "recovery"
                                   /\ answer[h].of = c[1] /\ answer[h].nth = c[2]
        THEN "owed" ELSE "gone"]

Promise == INSTANCE BurnOnce WITH Item <- Code, status <- CodeStatus, shown <- opened

(* A recovery code opens at most one session, whoever races for it, and     *)
(* none once it was deleted.                                                *)
CodesBurnOnce == Promise!Spec
=============================================================================
