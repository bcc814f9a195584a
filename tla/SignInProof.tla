----------------------------- MODULE SignInProof -----------------------------
(***************************************************************************)
(* What is proved of a sign-in, for any number of requests.                 *)
(*                                                                         *)
(* Of SignIn, for any passwords, secrets and codes: its type, that the      *)
(* second factor is asked for, that replaced codes are dead and the codes   *)
(* that were shown are there, and that each opens one session at most.      *)
(*                                                                         *)
(* Of Throttle, for any quota, threshold and window: its type, that the     *)
(* limiter holds its rate and says rightly when to come back, that the      *)
(* lockout bounds the guesses and that a lock goes on for its window.       *)
(***************************************************************************)
EXTENDS SignIn, Throttle, FiniteSetTheorems, TLAPS

LEMMA CodeParts ==
    /\ \A c \in Code : c = <<c[1], c[2]>> /\ c[1] \in Secret /\ c[2] \in 1..CodeCount
    /\ \A b \in Secret, n \in 1..CodeCount : <<b, n>> \in Code
    /\ \A b, n : <<b, n>> \in Code => b \in Secret /\ n \in 1..CodeCount
    /\ \A b, n : <<b, n>>[1] = b /\ <<b, n>>[2] = n
BY DEF Code

LEMMA AnswersTyped ==
    ASSUME BoundAssumption, minted \in Nat
    PROVE  /\ Answers \subseteq Answer /\ Wrong \in Answer
           /\ \A s \in Secret : TotpCode(s) \in Answer
BY DEF Answers, Answer, Wrong, TotpCode, RecoveryCode, Secret, BoundAssumption

-----------------------------------------------------------------------------
(* What holds between the codes and the handlers that work on them.          *)

(* A batch is one handler's until it is shown, and no other's.               *)
Replacing == {"store_secret", "delete_codes", "insert_code"}

BatchInv ==
    /\ \A h \in Handler : pc[h] \notin Replacing => batch[h] = 0
    /\ \A h \in Handler : pc[h] = "insert_code" => batch[h] # 0 /\ nth[h] >= 1
    /\ \A h \in Handler : batch[h] # 0 => batch[h] \notin shown
    /\ \A g, h \in Handler : batch[g] # 0 /\ batch[g] = batch[h] => g = h
    /\ retired \subseteq shown

(* Codes that have not been inserted are in nobody's hands.                  *)
FreshInv ==
    /\ \A c \in Code : c[1] > minted => recovery[c] = "none"
    /\ \A h \in Handler, c \in Code :
          c[1] = batch[h] /\ (pc[h] = "insert_code" => c[2] >= nth[h]) => recovery[c] = "none"

(* Those that have been are there, unless somebody deletes after it, or the  *)
(* INSERT failed.                                                            *)
WrittenInv ==
    \A h \in Handler, c \in Code :
        /\ exists /\ pc[h] = "insert_code" /\ batch[h] \notin hit
        /\ c[1] = batch[h] /\ c[2] < nth[h] /\ c \notin lost
        => recovery[c] \in {"unused", "used"}

(* Who was convinced by a recovery code has spent it, alone.                 *)
Spent(h) == <<answer[h].of, answer[h].nth>>
Saver(h) == pc[h] = "save" /\ factor[h] = "recovery"

SaverInv ==
    /\ \A h \in Handler : factor[h] = "recovery" => pc[h] = "save"
    /\ \A h \in Handler : Saver(h) => Spent(h) \in Code /\ recovery[Spent(h)] \in {"used", "deleted"}
    /\ \A g, h \in Handler : Saver(g) /\ Saver(h) /\ Spent(g) = Spent(h) => g = h

CodesInv ==
    /\ TypeOK /\ BatchInv /\ FreshInv /\ WrittenInv /\ SaverInv
    /\ SecondFactorAsked /\ ReplacedCodesAreDead /\ ShownCodesAreThere

LEMMA CodesInit == Init => CodesInv
<1> SUFFICES ASSUME Init PROVE CodesInv
    OBVIOUS
<1>1. TypeOK
    <2>1. MaxMint \in Nat /\ CodeCount \in Nat
        BY BoundAssumption
    <2>2. Wrong \in Answer
        BY DEF Wrong, Answer
    <2>3. /\ minted \in 0..MaxMint /\ secret \in 0..minted
          /\ batch \in [Handler -> 0..minted] /\ nth \in [Handler -> 0..CodeCount + 1]
          /\ answer \in [Handler -> Answer] /\ opened \in [Code -> Nat]
        BY <2>1, <2>2 DEF Init, NoSecret
    <2>4. /\ exists \in BOOLEAN /\ enabled \in BOOLEAN /\ challenged \in BOOLEAN
          /\ sure \in [Handler -> BOOLEAN]
        BY Zenon DEF Init
    <2>5. /\ password \in Password \cup {NoPassword}
          /\ recovery \in [Code -> {"none", "unused", "used", "deleted"}]
          /\ pc \in [Handler -> Place]
          /\ factor \in [Handler -> {"none", "totp", "recovery"}]
          /\ shown \subseteq 1..minted /\ hit \subseteq 1..minted /\ retired \subseteq 1..minted
          /\ lost \subseteq Code
        BY DEF Init, Place
    <2> QED
        BY <2>3, <2>4, <2>5 DEF TypeOK
<1>2. BatchInv /\ SaverInv /\ SecondFactorAsked
    BY DEF Init, BatchInv, SaverInv, Saver, SecondFactorAsked
<1>3. FreshInv /\ WrittenInv
    BY DEF Init, FreshInv, WrittenInv
<1>4. ReplacedCodesAreDead /\ ShownCodesAreThere
    BY DEF Init, ReplacedCodesAreDead, ShownCodesAreThere
<1> QED
    BY <1>1, <1>2, <1>3, <1>4 DEF CodesInv

-----------------------------------------------------------------------------
(* What beginning and ending a request does to its locals.                   *)
Others(h) ==
    \A g \in Handler \ {h} :
        /\ pc'[g] = pc[g] /\ answer'[g] = answer[g] /\ factor'[g] = factor[g]
        /\ batch'[g] = batch[g] /\ nth'[g] = nth[g]
        /\ sure'[g] => sure[g]

LEMMA StartMoves ==
    ASSUME TypeOK, NEW h \in Handler, NEW place \in Place, NEW c \in Answer,
           NEW by \in {"none", "totp", "recovery"}, Start(h, place, c, by)
    PROVE  /\ pc' \in [Handler -> Place] /\ answer' \in [Handler -> Answer]
           /\ factor' \in [Handler -> {"none", "totp", "recovery"}]
           /\ sure' \in [Handler -> BOOLEAN]
           /\ pc[h] = "idle" /\ pc'[h] = place /\ answer'[h] = c /\ factor'[h] = by
           /\ sure'[h] => enabled /\ secret # NoSecret
           /\ batch' = batch /\ nth' = nth
           /\ Others(h)
<1>1. sure' \in [Handler -> BOOLEAN]
    BY Zenon DEF Start, TypeOK
<1>2. sure'[h] => enabled /\ secret # NoSecret
    BY DEF Start, TypeOK
<1>3. \A g \in Handler \ {h} : sure'[g] => sure[g]
    BY DEF Start, TypeOK
<1>4. pc' \in [Handler -> Place] /\ answer' \in [Handler -> Answer]
    BY DEF Start, Goto, TypeOK
<1>5. /\ factor' \in [Handler -> {"none", "totp", "recovery"}]
      /\ pc[h] = "idle" /\ pc'[h] = place /\ answer'[h] = c /\ factor'[h] = by
      /\ batch' = batch /\ nth' = nth
    BY DEF Start, Goto, TypeOK
<1>6. \A g \in Handler \ {h} :
          /\ pc'[g] = pc[g] /\ answer'[g] = answer[g] /\ factor'[g] = factor[g]
          /\ batch'[g] = batch[g] /\ nth'[g] = nth[g]
    BY DEF Start, Goto, TypeOK
<1> QED
    BY <1>1, <1>2, <1>3, <1>4, <1>5, <1>6 DEF Others

LEMMA FinishMoves ==
    ASSUME TypeOK, NEW h \in Handler, Finish(h)
    PROVE  /\ pc' \in [Handler -> Place] /\ answer' \in [Handler -> Answer]
           /\ factor' \in [Handler -> {"none", "totp", "recovery"}]
           /\ sure' \in [Handler -> BOOLEAN]
           /\ batch' \in [Handler -> 0..minted] /\ nth' \in [Handler -> 0..CodeCount + 1]
           /\ pc'[h] = "idle" /\ factor'[h] = "none" /\ batch'[h] = 0
           /\ Others(h)
<1>1. sure' \in [Handler -> BOOLEAN]
    BY Zenon DEF Finish, TypeOK
<1>2. \A g \in Handler \ {h} : sure'[g] => sure[g]
    BY DEF Finish, TypeOK
<1>3. Wrong \in Answer /\ 0 \in 0..minted /\ 0 \in 0..CodeCount + 1
    BY BoundAssumption DEF Wrong, Answer, TypeOK
<1>4. /\ pc' \in [Handler -> Place] /\ answer' \in [Handler -> Answer]
      /\ factor' \in [Handler -> {"none", "totp", "recovery"}]
      /\ batch' \in [Handler -> 0..minted] /\ nth' \in [Handler -> 0..CodeCount + 1]
    BY <1>3 DEF Finish, Goto, TypeOK, Place
<1>5. /\ pc'[h] = "idle" /\ factor'[h] = "none" /\ batch'[h] = 0
      /\ \A g \in Handler \ {h} :
          /\ pc'[g] = pc[g] /\ answer'[g] = answer[g] /\ factor'[g] = factor[g]
          /\ batch'[g] = batch[g] /\ nth'[g] = nth[g]
    BY DEF Finish, Goto, TypeOK
<1> QED
    BY <1>1, <1>2, <1>4, <1>5 DEF Others

(* The invariants, but for the type, where only the locals of h change, and  *)
(* h is at nothing that they are about.                                      *)
LEMMA OthersCodes ==
    ASSUME CodesInv, NEW h \in Handler, Others(h), batch'[h] = 0, pc'[h] \notin Replacing,
           factor'[h] # "recovery",
           pc'[h] \in {"save", "purge"} /\ sure'[h] => factor'[h] # "none",
           UNCHANGED <<recovery, minted, codeHistory>>, exists' => exists
    PROVE  /\ BatchInv' /\ FreshInv' /\ WrittenInv' /\ SaverInv'
           /\ SecondFactorAsked' /\ ReplacedCodesAreDead' /\ ShownCodesAreThere'
<1> USE DEF CodesInv, codeHistory
<1>1. BatchInv'
    <2>1. \A g \in Handler \ {h} : pc'[g] = pc[g] /\ batch'[g] = batch[g] /\ nth'[g] = nth[g]
        BY DEF Others
    <2>2. shown' = shown /\ retired' = retired
        OBVIOUS
    <2>3. \A g, k \in Handler : batch'[g] # 0 /\ batch'[g] = batch'[k] => g = k
        BY <2>1 DEF BatchInv
    <2> QED
        BY <2>1, <2>2, <2>3 DEF BatchInv, Replacing
<1>2. FreshInv'
    <2>1. \A c \in Code : c[1] # 0
        BY CodeParts DEF Secret
    <2> QED
        BY <2>1 DEF FreshInv, Others
<1>3. WrittenInv'
    BY DEF WrittenInv, Others, Replacing
<1>4. SaverInv'
    <2>1. \A g \in Handler : Saver(g)' => g # h /\ Saver(g) /\ Spent(g)' = Spent(g)
        BY DEF Saver, Spent, Others
    <2>2. \A g \in Handler : factor'[g] = "recovery" => pc'[g] = "save"
        BY DEF SaverInv, Others
    <2> QED
        BY <2>1, <2>2 DEF SaverInv
<1>5. SecondFactorAsked'
    BY DEF SecondFactorAsked, Others
<1>6. ReplacedCodesAreDead' /\ ShownCodesAreThere'
    BY DEF ReplacedCodesAreDead, ShownCodesAreThere
<1> QED
    BY <1>1, <1>2, <1>3, <1>4, <1>5, <1>6

-----------------------------------------------------------------------------
(* The steps.  First the requests that come in.                              *)
LEMMA StartCodes ==
    ASSUME CodesInv, NEW h \in Handler, NEW place \in Place \ Replacing, NEW c \in Answer,
           NEW by \in {"none", "totp"}, Start(h, place, c, by),
           place \in {"save", "purge"} => (HasTotp => by # "none"),
           challenged' \in BOOLEAN, UNCHANGED <<db, codeHistory, opened>>
    PROVE  CodesInv'
<1> USE DEF CodesInv
<1>1. /\ pc' \in [Handler -> Place] /\ answer' \in [Handler -> Answer]
      /\ factor' \in [Handler -> {"none", "totp", "recovery"}]
      /\ sure' \in [Handler -> BOOLEAN]
      /\ pc[h] = "idle" /\ pc'[h] = place /\ answer'[h] = c /\ factor'[h] = by
      /\ sure'[h] => HasTotp
      /\ batch' = batch /\ nth' = nth
      /\ Others(h)
    BY StartMoves DEF HasTotp
<1>2. TypeOK'
    BY <1>1 DEF TypeOK, db, accountRow, codeHistory
<1>3. batch'[h] = 0
    BY <1>1 DEF BatchInv, Replacing
<1>4. UNCHANGED <<recovery, minted, codeHistory>> /\ (exists' => exists)
    BY DEF db, accountRow
<1> QED
    BY <1>1, <1>2, <1>3, <1>4, OthersCodes

LEMMA SetupCodes ==
    ASSUME CodesInv, NEW h \in Handler, Setup(h) \/ \E w \in Password : NewCodes(h, w)
    PROVE  CodesInv'
<1> USE DEF CodesInv, codeHistory
<1>1. /\ minted < MaxMint /\ pc[h] = "idle" /\ minted' = minted + 1
      /\ batch' = [batch EXCEPT ![h] = minted + 1]
      /\ Goto(h, "store_secret") \/ Goto(h, "delete_codes")
      /\ UNCHANGED <<accountRow, recovery, challenged, answer, nth, factor, sure, codeHistory, opened>>
    BY DEF Setup, NewCodes
<1>2. /\ MaxMint \in Nat /\ minted \in Nat /\ minted' \in 0..MaxMint /\ minted + 1 # 0
      /\ 0..minted \subseteq 0..minted' /\ 1..minted \subseteq 1..minted'
      /\ minted + 1 \in 1..minted' /\ minted + 1 \notin 1..minted
    BY <1>1, BoundAssumption DEF TypeOK
<1>3. secret' \in 0..minted'
    BY <1>1, <1>2 DEF TypeOK, accountRow
<1>4. batch' \in [Handler -> 0..minted'] /\ pc' \in [Handler -> Place]
    BY <1>1, <1>2 DEF TypeOK, Goto, Place
<1>5. TypeOK'
    BY <1>1, <1>2, <1>3, <1>4 DEF TypeOK, accountRow
<1>6. /\ batch'[h] = minted + 1 /\ pc'[h] \in {"store_secret", "delete_codes"}
      /\ \A g \in Handler \ {h} : pc'[g] = pc[g] /\ batch'[g] = batch[g]
      /\ \A g \in Handler : batch[g] # minted + 1 /\ factor[h] # "recovery"
    BY <1>1, <1>2 DEF TypeOK, Goto, SaverInv
<1>7. BatchInv'
    <2>1. \A g, k \in Handler : batch'[g] # 0 /\ batch'[g] = batch'[k] => g = k
        BY <1>6 DEF BatchInv
    <2>2. shown \subseteq 1..minted
        BY DEF TypeOK
    <2> QED
        BY <1>1, <1>2, <1>6, <2>1, <2>2 DEF BatchInv, Replacing
<1>8. FreshInv'
    <2>1. \A c \in Code : c[1] \in Nat
        BY CodeParts, BoundAssumption DEF Secret
    <2>2. \A c \in Code : c[1] > minted' => recovery'[c] = "none"
        BY <1>1, <1>2, <2>1 DEF FreshInv
    <2>3. \A c \in Code : c[1] = minted + 1 => recovery[c] = "none"
        BY <1>2 DEF FreshInv
    <2> QED
        BY <1>1, <1>6, <2>2, <2>3 DEF FreshInv
<1>9. WrittenInv' /\ ReplacedCodesAreDead' /\ ShownCodesAreThere'
    BY <1>1, <1>6 DEF WrittenInv, ReplacedCodesAreDead, ShownCodesAreThere, accountRow
<1>10. SaverInv'
    <2>1. \A g \in Handler : Saver(g)' => g # h /\ Saver(g) /\ Spent(g)' = Spent(g)
        BY <1>1, <1>6 DEF Saver, Spent
    <2>2. \A g \in Handler : factor'[g] = "recovery" => pc'[g] = "save"
        BY <1>1, <1>6 DEF SaverInv
    <2> QED
        BY <1>1, <2>1, <2>2 DEF SaverInv
<1>11. SecondFactorAsked'
    BY <1>1, <1>6 DEF SecondFactorAsked
<1> QED
    BY <1>5, <1>7, <1>8, <1>9, <1>10, <1>11

LEMMA RequestCodes ==
    ASSUME CodesInv, NEW h \in Handler, Request(h)
    PROVE  CodesInv'
<1>0. /\ Answers \subseteq Answer /\ Wrong \in Answer /\ TypeOK /\ challenged \in BOOLEAN
      /\ {"save", "consume", "set_password", "clear_secret", "set_enabled", "purge"}
            \subseteq Place \ Replacing
    BY AnswersTyped, BoundAssumption DEF CodesInv, TypeOK, Place, Replacing
<1>1. CASE Setup(h) \/ \E w \in Password : NewCodes(h, w)
    BY <1>1, SetupCodes
<1>2. ASSUME NEW w \in Password, SignIn(h, w)
      PROVE  CodesInv'
    <2>1. CASE HasTotp
        <3>1. UNCHANGED <<db, codeHistory, opened, pc, locals>> /\ challenged' = TRUE
            BY <1>2, <2>1 DEF SignIn
        <3>2. challenged' \in BOOLEAN
            BY <3>1, Zenon
        <3>3. TypeOK'
            BY <1>0, <3>1, <3>2 DEF TypeOK, db, accountRow, locals, codeHistory
        <3> QED
            BY <3>1, <3>3
            DEF CodesInv, BatchInv, FreshInv, WrittenInv, SaverInv, Saver, Spent, SecondFactorAsked,
                ReplacedCodesAreDead, ShownCodesAreThere, db, accountRow, locals, codeHistory
    <2>2. CASE ~HasTotp
        BY <1>0, <1>2, <2>2, StartCodes DEF SignIn
    <2> QED
        BY <2>1, <2>2
<1>3. ASSUME NEW w \in Password, ChangePassword(h, w) \/ Disable(h, w)
      PROVE  CodesInv'
    BY <1>0, <1>3, StartCodes DEF ChangePassword, Disable
<1>4. ASSUME NEW w \in Password, NEW c \in Answers, DeleteAccount(h, w, c)
      PROVE  CodesInv'
    BY <1>0, <1>4, StartCodes DEF DeleteAccount
<1>5. ASSUME NEW c \in Answers, VerifyTotp(h, c) \/ Enable(h, c)
      PROVE  CodesInv'
    BY <1>0, <1>5, StartCodes DEF VerifyTotp, Enable
<1> QED
    BY <1>1, <1>2, <1>3, <1>4, <1>5 DEF Request

-----------------------------------------------------------------------------
(* Then the steps of a request that has come in.                             *)
LEMMA FinishCodes ==
    ASSUME CodesInv, NEW h \in Handler, Finish(h),
           UNCHANGED <<recovery, minted, challenged, codeHistory>>, exists' => exists,
           exists' \in BOOLEAN, enabled' \in BOOLEAN, password' \in Password \cup {NoPassword},
           secret' \in 0..minted, opened' \in [Code -> Nat]
    PROVE  CodesInv'
<1>1. /\ pc' \in [Handler -> Place] /\ answer' \in [Handler -> Answer]
      /\ factor' \in [Handler -> {"none", "totp", "recovery"}]
      /\ sure' \in [Handler -> BOOLEAN]
      /\ batch' \in [Handler -> 0..minted] /\ nth' \in [Handler -> 0..CodeCount + 1]
      /\ pc'[h] = "idle" /\ factor'[h] = "none" /\ batch'[h] = 0
      /\ Others(h)
    BY FinishMoves DEF CodesInv
<1>2. TypeOK'
    BY <1>1 DEF CodesInv, TypeOK, codeHistory
<1> QED
    BY <1>1, <1>2, OthersCodes DEF CodesInv, Replacing

LEMMA ConsumeCodes ==
    ASSUME CodesInv, NEW h \in Handler, ConsumeRecoveryCode(h)
    PROVE  CodesInv'
<1> USE DEF CodesInv, codeHistory
<1> DEFINE c == Spent(h)
<1>1. /\ pc[h] = "consume" /\ UNCHANGED <<accountRow, minted, challenged, codeHistory, opened>>
      /\ IF answer[h].kind = "recovery" /\ Unused(c)
         THEN /\ recovery' = [recovery EXCEPT ![c] = "used"]
              /\ factor' = [factor EXCEPT ![h] = "recovery"]
              /\ Goto(h, "save")
              /\ UNCHANGED <<answer, batch, nth, sure>>
         ELSE UNCHANGED recovery /\ Finish(h)
    BY DEF ConsumeRecoveryCode, Spent
<1>2. CASE UNCHANGED recovery /\ Finish(h)
    BY <1>1, <1>2, FinishCodes DEF TypeOK, accountRow
<1>3. CASE /\ Unused(c) /\ recovery' = [recovery EXCEPT ![c] = "used"]
           /\ factor' = [factor EXCEPT ![h] = "recovery"]
           /\ Goto(h, "save")
           /\ UNCHANGED <<answer, batch, nth, sure>>
    <2>1. /\ c \in Code /\ recovery[c] = "unused"
          /\ \A d \in Code : recovery'[d] = IF d = c THEN "used" ELSE recovery[d]
        BY <1>3 DEF Unused, TypeOK
    <2>2. /\ pc' \in [Handler -> Place] /\ pc'[h] = "save" /\ factor'[h] = "recovery"
          /\ factor' \in [Handler -> {"none", "totp", "recovery"}]
          /\ \A g \in Handler \ {h} : pc'[g] = pc[g] /\ factor'[g] = factor[g]
        BY <1>3 DEF TypeOK, Goto, Place
    <2>3. TypeOK'
        BY <1>1, <1>3, <2>1, <2>2 DEF TypeOK, accountRow
    <2>4. BatchInv'
        BY <1>1, <1>3, <2>2 DEF BatchInv, Replacing
    <2>5. FreshInv'
        BY <1>1, <1>3, <2>1, <2>2 DEF FreshInv
    <2>6. WrittenInv' /\ ReplacedCodesAreDead' /\ ShownCodesAreThere'
        BY <1>1, <1>3, <2>1, <2>2 DEF WrittenInv, ReplacedCodesAreDead, ShownCodesAreThere, accountRow
    <2>7. SaverInv'
        <3>1. \A g \in Handler \ {h} : Saver(g)' => Saver(g) /\ Spent(g)' = Spent(g) /\ Spent(g) # c
            BY <1>3, <2>1, <2>2 DEF Saver, Spent, SaverInv
        <3>2. Spent(h)' = c
            BY <1>3 DEF Spent
        <3>3. \A g \in Handler : factor'[g] = "recovery" => pc'[g] = "save"
            BY <2>2 DEF SaverInv
        <3>4. \A g \in Handler : Saver(g)' => Spent(g)' \in Code /\ recovery'[Spent(g)'] \in {"used", "deleted"}
            BY <2>1, <3>1, <3>2 DEF SaverInv
        <3>5. \A g, k \in Handler : Saver(g)' /\ Saver(k)' /\ Spent(g)' = Spent(k)' => g = k
            BY <3>1, <3>2 DEF SaverInv
        <3> QED
            BY <3>3, <3>4, <3>5 DEF SaverInv
    <2>8. SecondFactorAsked'
        BY <1>3, <2>2 DEF SecondFactorAsked
    <2> QED
        BY <2>3, <2>4, <2>5, <2>6, <2>7, <2>8
<1> QED
    BY <1>1, <1>2, <1>3

LEMMA ClearCodes ==
    ASSUME CodesInv, NEW h \in Handler, StoreSecret(h) \/ ClearSecret(h)
    PROVE  CodesInv'
<1> USE DEF CodesInv, codeHistory
<1>1. /\ pc[h] \in {"store_secret", "clear_secret"}
      /\ Goto(h, "delete_codes")
      /\ UNCHANGED <<exists, password, recovery, minted, challenged, answer, batch,
                     nth, factor, codeHistory, opened>>
      /\ secret' \in {NoSecret, batch[h], secret}
      /\ (enabled' = FALSE /\ Unsure) \/ UNCHANGED <<enabled, sure>>
    BY DEF StoreSecret, ClearSecret
<1>2. /\ pc' \in [Handler -> Place] /\ pc'[h] = "delete_codes"
      /\ \A g \in Handler \ {h} : pc'[g] = pc[g]
    BY <1>1 DEF TypeOK, Goto, Place
<1>3. sure' \in [Handler -> BOOLEAN] /\ enabled' \in BOOLEAN
    <2>1. CASE enabled' = FALSE /\ Unsure
        BY <2>1, Zenon DEF Unsure
    <2>2. CASE UNCHANGED <<enabled, sure>>
        BY <2>2 DEF TypeOK
    <2> QED
        BY <1>1, <2>1, <2>2
<1>4. \A g \in Handler : sure'[g] => sure[g]
    BY <1>1 DEF Unsure, TypeOK
<1>5. secret' \in 0..minted
    BY <1>1, BoundAssumption DEF TypeOK, NoSecret
<1>6. TypeOK'
    BY <1>1, <1>2, <1>3, <1>5 DEF TypeOK
<1>7. BatchInv'
    BY <1>1, <1>2 DEF BatchInv, Replacing
<1>8. FreshInv'
    BY <1>1, <1>2 DEF FreshInv
<1>9. WrittenInv' /\ ReplacedCodesAreDead' /\ ShownCodesAreThere'
    BY <1>1, <1>2 DEF WrittenInv, ReplacedCodesAreDead, ShownCodesAreThere
<1>10. SaverInv'
    <2>1. \A g \in Handler : Saver(g)' => g # h /\ Saver(g) /\ Spent(g)' = Spent(g)
        BY <1>1, <1>2 DEF Saver, Spent
    <2>2. \A g \in Handler : factor'[g] = "recovery" => pc'[g] = "save"
        BY <1>1, <1>2 DEF SaverInv
    <2> QED
        BY <1>1, <2>1, <2>2 DEF SaverInv
<1>11. SecondFactorAsked'
    BY <1>1, <1>2, <1>4 DEF SecondFactorAsked
<1> QED
    BY <1>6, <1>7, <1>8, <1>9, <1>10, <1>11

LEMMA DeletedCodes ==
    ASSUME TypeOK
    PROVE  /\ WithoutCodes \in [Code -> {"none", "unused", "used", "deleted"}]
           /\ \A c \in Code : WithoutCodes[c] = IF recovery[c] = "none" THEN "none" ELSE "deleted"
BY DEF WithoutCodes

LEMMA DeleteCodesCodes ==
    ASSUME CodesInv, NEW h \in Handler, DeleteCodes(h)
    PROVE  CodesInv'
<1> USE DEF CodesInv, codeHistory
<1>1. /\ pc[h] = "delete_codes"
      /\ \/ /\ recovery' = WithoutCodes
            /\ hit' = (hit \cup 1..minted) \ {batch[h]} /\ retired' = shown
         \/ UNCHANGED <<recovery, hit, retired>>
      /\ UNCHANGED <<accountRow, minted, challenged, shown, lost, opened>>
    BY DEF DeleteCodes
<1>2. /\ recovery' \in [Code -> {"none", "unused", "used", "deleted"}]
      /\ \A c \in Code : /\ recovery'[c] = "none" <=> recovery[c] = "none"
                         /\ recovery'[c] \in {recovery[c], "deleted"}
    BY <1>1, DeletedCodes DEF TypeOK
<1>3. /\ pc' \in [Handler -> Place] /\ answer' \in [Handler -> Answer]
      /\ factor' \in [Handler -> {"none", "totp", "recovery"}]
      /\ sure' \in [Handler -> BOOLEAN]
      /\ batch' \in [Handler -> 0..minted] /\ nth' \in [Handler -> 0..CodeCount + 1]
      /\ Others(h) /\ pc'[h] \in {"idle", "insert_code"} /\ factor'[h] # "recovery"
      /\ batch'[h] = batch[h]
      /\ pc'[h] = "insert_code" <=> batch[h] # 0
      /\ pc'[h] = "insert_code" => nth'[h] = 1
    <2>1. CASE batch[h] = 0
        BY <2>1, FinishMoves DEF DeleteCodes
    <2>2. CASE batch[h] # 0
        <3>1. /\ Goto(h, "insert_code") /\ nth' = [nth EXCEPT ![h] = 1]
              /\ UNCHANGED <<answer, batch, factor, sure>>
            BY <2>2 DEF DeleteCodes
        <3>2. 1 \in 0..CodeCount + 1
            BY BoundAssumption
        <3> QED
            BY <1>1, <2>2, <3>1, <3>2 DEF Goto, TypeOK, Place, Others, SaverInv
    <2> QED
        BY <2>1, <2>2
<1>4. /\ hit' \subseteq 1..minted /\ retired' \subseteq shown
      /\ \/ \A b \in 1..minted : b = batch[h] \/ b \in hit'
         \/ UNCHANGED <<recovery, hit, retired>>
    BY <1>1 DEF TypeOK, BatchInv
<1>5. TypeOK'
    BY <1>1, <1>2, <1>3, <1>4 DEF TypeOK, accountRow
<1>6. BatchInv'
    <2>1. \A g \in Handler \ {h} : pc'[g] = pc[g] /\ batch'[g] = batch[g] /\ nth'[g] = nth[g]
        BY <1>3 DEF Others
    <2>2. \A g, k \in Handler : batch'[g] # 0 /\ batch'[g] = batch'[k] => g = k
        BY <1>3, <2>1 DEF BatchInv
    <2> QED
        BY <1>1, <1>3, <1>4, <2>1, <2>2 DEF BatchInv, Replacing
<1>7. FreshInv'
    <2>1. \A g \in Handler : batch'[g] = batch[g] /\ (g # h => pc'[g] = pc[g] /\ nth'[g] = nth[g])
        BY <1>3 DEF Others
    <2>2. ASSUME NEW g \in Handler, NEW c \in Code, c[1] = batch'[g],
                 pc'[g] = "insert_code" => c[2] >= nth'[g]
          PROVE  recovery[c] = "none"
        BY <1>1, <2>1, <2>2 DEF FreshInv
    <2>3. \A c \in Code : c[1] > minted' => recovery'[c] = "none"
        BY <1>1, <1>2 DEF FreshInv
    <2> QED
        BY <1>2, <2>2, <2>3 DEF FreshInv
<1>8. WrittenInv'
    <2>1. ASSUME NEW g \in Handler, NEW c \in Code, exists', pc'[g] = "insert_code",
                 batch'[g] \notin hit', c[1] = batch'[g], c[2] < nth'[g], c \notin lost'
          PROVE  recovery'[c] \in {"unused", "used"}
        <3>1. g # h
            <4>1. ~(c[2] < 1)
                BY CodeParts, BoundAssumption
            <4> QED
                BY <1>3, <2>1, <4>1
        <3>2. pc[g] = "insert_code" /\ batch'[g] = batch[g] /\ nth'[g] = nth[g]
            BY <1>3, <2>1, <3>1 DEF Others
        <3>3. batch[g] # batch[h] /\ batch[g] \in 1..minted
            <4>1. batch[g] # 0 /\ batch[g] # batch[h] /\ batch[g] \in 0..minted /\ minted \in Nat
                BY <3>1, <3>2, BoundAssumption DEF BatchInv, TypeOK
            <4> QED
                BY <4>1
        <3>4. UNCHANGED <<recovery, hit>>
            BY <1>4, <2>1, <3>2, <3>3
        <3> QED
            BY <1>1, <2>1, <3>2, <3>4 DEF WrittenInv, accountRow
    <2> QED
        BY <2>1 DEF WrittenInv
<1>9. ReplacedCodesAreDead'
    <2>1. CASE recovery' = WithoutCodes
        BY <2>1, DeletedCodes DEF ReplacedCodesAreDead
    <2>2. CASE UNCHANGED <<recovery, hit, retired>>
        BY <2>2 DEF ReplacedCodesAreDead
    <2> QED
        BY <1>1, <2>1, <2>2
<1>10. ShownCodesAreThere'
    <2>1. CASE UNCHANGED <<recovery, hit, retired>>
        BY <1>1, <2>1 DEF ShownCodesAreThere, accountRow
    <2>2. CASE \A b \in 1..minted : b = batch[h] \/ b \in hit'
        <3>1. ASSUME NEW b \in shown
              PROVE  b \in hit'
            <4>1. b \in 1..minted /\ b # 0
                BY DEF TypeOK
            <4>2. b # batch[h]
                BY <4>1 DEF BatchInv
            <4> QED
                BY <2>2, <4>1, <4>2
        <3>2. shown' \ hit' = {}
            BY <1>1, <3>1
        <3> QED
            BY <3>2 DEF ShownCodesAreThere
    <2> QED
        BY <1>4, <2>1, <2>2
<1>11. SaverInv'
    <2>1. \A g \in Handler : Saver(g)' => g # h /\ Saver(g) /\ Spent(g)' = Spent(g)
        BY <1>3 DEF Saver, Spent, Others
    <2>2. \A g \in Handler : factor'[g] = "recovery" => pc'[g] = "save"
        BY <1>3 DEF SaverInv, Others
    <2> QED
        BY <1>2, <2>1, <2>2 DEF SaverInv
<1>12. SecondFactorAsked'
    BY <1>3 DEF SecondFactorAsked, Others
<1> QED
    BY <1>5, <1>6, <1>7, <1>8, <1>9, <1>10, <1>11, <1>12

LEMMA InsertCodes ==
    ASSUME CodesInv, NEW h \in Handler, InsertCode(h)
    PROVE  CodesInv'
<1> USE DEF CodesInv, codeHistory
<1> DEFINE c == <<batch[h], nth[h]>>
<1>1. /\ pc[h] = "insert_code" /\ nth[h] <= CodeCount
      /\ \/ exists /\ recovery' = [recovery EXCEPT ![c] = "unused"] /\ UNCHANGED lost
         \/ lost' = lost \cup {c} /\ UNCHANGED recovery
      /\ nth' = [nth EXCEPT ![h] = nth[h] + 1]
      /\ UNCHANGED <<accountRow, minted, challenged, pc, answer, batch, factor, sure,
                     shown, hit, retired, opened>>
    BY DEF InsertCode, MoreCodes
<1>2. /\ batch[h] # 0 /\ nth[h] >= 1 /\ nth[h] \in Nat /\ CodeCount \in Nat /\ minted \in Nat
      /\ batch[h] \in Secret /\ nth[h] \in 1..CodeCount /\ nth[h] + 1 \in 0..CodeCount + 1
    BY <1>1, BoundAssumption DEF BatchInv, TypeOK, Secret
<1>3. c \in Code /\ c[1] = batch[h] /\ c[2] = nth[h] /\ recovery[c] = "none"
    <2>1. c \in Code /\ c[1] = batch[h] /\ c[2] = nth[h]
        BY <1>2, CodeParts
    <2> QED
        BY <1>2, <2>1 DEF FreshInv
<1>4. /\ \A d \in Code : d # c => recovery'[d] = recovery[d]
      /\ recovery'[c] = "unused" \/ (recovery'[c] = recovery[c] /\ c \in lost')
      /\ lost \subseteq lost' /\ lost' \subseteq Code
    BY <1>1, <1>3 DEF TypeOK
<1>5. /\ nth' \in [Handler -> 0..CodeCount + 1] /\ nth'[h] = nth[h] + 1
      /\ \A g \in Handler \ {h} : nth'[g] = nth[g]
      /\ \A g \in Handler : nth'[g] >= nth[g] /\ nth[g] \in Nat
    BY <1>1, <1>2 DEF TypeOK
<1>6. TypeOK'
    <2>1. recovery' \in [Code -> {"none", "unused", "used", "deleted"}]
        BY <1>1, <1>3 DEF TypeOK
    <2> QED
        BY <1>1, <1>4, <1>5, <2>1 DEF TypeOK, accountRow
<1>7. BatchInv'
    BY <1>1, <1>2, <1>5 DEF BatchInv, Replacing
<1>8. \A d \in Code : d[1] \in Nat /\ d[2] \in Nat /\ d = <<d[1], d[2]>>
    BY CodeParts, BoundAssumption DEF Secret
<1>9. FreshInv'
    <2>1. \A d \in Code : d[1] > minted' => recovery'[d] = "none"
        <3>1. batch[h] <= minted
            BY <1>2 DEF TypeOK
        <3> QED
            BY <1>1, <1>2, <1>3, <1>4, <1>8, <3>1 DEF FreshInv
    <2>2. ASSUME NEW g \in Handler, NEW d \in Code, d[1] = batch'[g],
                 pc'[g] = "insert_code" => d[2] >= nth'[g]
          PROVE  recovery'[d] = "none"
        <3>1. recovery[d] = "none"
            BY <1>1, <1>5, <1>8, <2>2 DEF FreshInv
        <3>2. d # c
            <4>1. CASE g = h
                BY <1>1, <1>2, <1>3, <1>5, <2>2, <4>1
            <4>2. CASE g # h
                BY <1>1, <1>2, <1>3, <2>2, <4>2 DEF BatchInv
            <4> QED
                BY <4>1, <4>2
        <3> QED
            BY <1>4, <3>1, <3>2
    <2> QED
        BY <2>1, <2>2 DEF FreshInv
<1>10. WrittenInv'
    <2>1. ASSUME NEW g \in Handler, NEW d \in Code, exists', pc'[g] = "insert_code",
                 batch'[g] \notin hit', d[1] = batch'[g], d[2] < nth'[g], d \notin lost'
          PROVE  recovery'[d] \in {"unused", "used"}
        <3>1. CASE d = c
            BY <1>1, <1>4, <2>1, <3>1 DEF accountRow
        <3>2. CASE d # c
            <4>1. d[2] < nth[g]
                <5>1. CASE g = h
                    <6>1. d[2] # nth[h]
                        BY <1>1, <1>8, <2>1, <3>2, <5>1
                    <6> QED
                        BY <1>2, <1>5, <1>8, <2>1, <5>1, <6>1
                <5>2. CASE g # h
                    BY <1>5, <2>1, <5>2
                <5> QED
                    BY <5>1, <5>2
            <4> QED
                BY <1>1, <1>4, <2>1, <3>2, <4>1 DEF WrittenInv, accountRow
        <3> QED
            BY <3>1, <3>2
    <2> QED
        BY <2>1 DEF WrittenInv
<1>11. ReplacedCodesAreDead'
    <2>1. batch[h] \notin retired
        BY <1>2 DEF BatchInv
    <2> QED
        BY <1>1, <1>3, <1>4, <2>1 DEF ReplacedCodesAreDead
<1>12. ShownCodesAreThere'
    BY <1>1, <1>3, <1>4 DEF ShownCodesAreThere, accountRow
<1>13. SaverInv'
    <2>1. \A g \in Handler : Saver(g)' = Saver(g) /\ Spent(g)' = Spent(g)
        BY <1>1 DEF Saver, Spent
    <2>2. \A g \in Handler : Saver(g) => recovery'[Spent(g)] = recovery[Spent(g)]
        BY <1>3, <1>4 DEF SaverInv
    <2>3. \A g \in Handler : factor'[g] = "recovery" => pc'[g] = "save"
        BY <1>1 DEF SaverInv
    <2> QED
        BY <2>1, <2>2, <2>3 DEF SaverInv
<1>14. SecondFactorAsked'
    BY <1>1 DEF SecondFactorAsked
<1> QED
    BY <1>6, <1>7, <1>9, <1>10, <1>11, <1>12, <1>13, <1>14

LEMMA ShowCodesCodes ==
    ASSUME CodesInv, NEW h \in Handler, ShowCodes(h)
    PROVE  CodesInv'
<1> USE DEF CodesInv
<1>1. /\ pc[h] = "insert_code" /\ ~(nth[h] <= CodeCount)
      /\ shown' = shown \cup {batch[h]} /\ Finish(h)
      /\ UNCHANGED <<db, challenged, hit, retired, lost, opened>>
    BY DEF ShowCodes, MoreCodes
<1>2. /\ pc' \in [Handler -> Place] /\ answer' \in [Handler -> Answer]
      /\ factor' \in [Handler -> {"none", "totp", "recovery"}]
      /\ sure' \in [Handler -> BOOLEAN]
      /\ batch' \in [Handler -> 0..minted] /\ nth' \in [Handler -> 0..CodeCount + 1]
      /\ pc'[h] = "idle" /\ factor'[h] = "none" /\ batch'[h] = 0
      /\ Others(h)
    BY <1>1, FinishMoves
<1>3. /\ batch[h] # 0 /\ batch[h] \in 1..minted /\ nth[h] \in Nat /\ CodeCount \in Nat
      /\ shown' \subseteq 1..minted
    <2>1. minted \in Nat /\ CodeCount \in Nat /\ shown \subseteq 1..minted
        BY BoundAssumption DEF TypeOK
    <2>2. batch[h] # 0
        BY <1>1 DEF BatchInv
    <2>3. batch[h] \in 0..minted /\ nth[h] \in 0..CodeCount + 1
        BY DEF TypeOK
    <2>4. batch[h] \in 1..minted /\ nth[h] \in Nat
        BY <2>1, <2>2, <2>3
    <2> QED
        BY <1>1, <2>1, <2>2, <2>4
<1>4. TypeOK'
    BY <1>1, <1>2, <1>3 DEF TypeOK, db, accountRow
<1>5. \A g \in Handler \ {h} : /\ pc'[g] = pc[g] /\ batch'[g] = batch[g] /\ nth'[g] = nth[g]
    BY <1>2 DEF Others
<1>6. BatchInv'
    <2>1. \A g, k \in Handler : batch'[g] # 0 /\ batch'[g] = batch'[k] => g = k
        BY <1>2, <1>5 DEF BatchInv
    <2>2. \A g \in Handler : batch'[g] # 0 => g # h /\ batch'[g] # batch[h]
        BY <1>2, <1>5 DEF BatchInv
    <2> QED
        BY <1>1, <1>2, <1>5, <2>1, <2>2 DEF BatchInv, Replacing
<1>7. FreshInv'
    <2>1. \A c \in Code : c[1] # 0
        BY CodeParts DEF Secret
    <2> QED
        BY <1>1, <1>2, <1>5, <2>1 DEF FreshInv, db
<1>8. WrittenInv'
    BY <1>1, <1>2, <1>5 DEF WrittenInv, db, accountRow
<1>9. ReplacedCodesAreDead'
    BY <1>1 DEF ReplacedCodesAreDead, db
<1>10. ShownCodesAreThere'
    <2>1. \A c \in Code : c[2] < nth[h]
        BY <1>1, <1>3, CodeParts
    <2> QED
        BY <1>1, <2>1 DEF ShownCodesAreThere, WrittenInv, db, accountRow
<1>11. SaverInv'
    <2>1. \A g \in Handler : Saver(g)' => g # h /\ Saver(g) /\ Spent(g)' = Spent(g)
        BY <1>2 DEF Saver, Spent, Others
    <2>2. \A g \in Handler : factor'[g] = "recovery" => pc'[g] = "save"
        BY <1>2 DEF SaverInv, Others
    <2> QED
        BY <1>1, <2>1, <2>2 DEF SaverInv, db
<1>12. SecondFactorAsked'
    BY <1>2 DEF SecondFactorAsked, Others
<1> QED
    BY <1>4, <1>6, <1>7, <1>8, <1>9, <1>10, <1>11, <1>12

LEMMA PurgeCodes ==
    ASSUME CodesInv, NEW h \in Handler, PurgeAccount(h)
    PROVE  CodesInv'
<1> USE DEF CodesInv, codeHistory
<1>1. /\ pc[h] = "purge" /\ exists' = FALSE /\ password' = NoPassword
      /\ secret' = NoSecret /\ enabled' = FALSE /\ recovery' = WithoutCodes /\ Finish(h)
      /\ UNCHANGED <<minted, challenged, codeHistory, opened>>
    BY DEF PurgeAccount, WithoutCodes
<1>2. /\ recovery' \in [Code -> {"none", "unused", "used", "deleted"}]
      /\ \A c \in Code : recovery'[c] = IF recovery[c] = "none" THEN "none" ELSE "deleted"
    BY <1>1, DeletedCodes
<1>3. /\ pc' \in [Handler -> Place] /\ answer' \in [Handler -> Answer]
      /\ factor' \in [Handler -> {"none", "totp", "recovery"}]
      /\ sure' \in [Handler -> BOOLEAN]
      /\ batch' \in [Handler -> 0..minted] /\ nth' \in [Handler -> 0..CodeCount + 1]
      /\ pc'[h] = "idle" /\ factor'[h] = "none" /\ batch'[h] = 0
      /\ Others(h)
    BY <1>1, FinishMoves
<1>4. exists' \in BOOLEAN /\ enabled' \in BOOLEAN
    BY <1>1, Zenon
<1>5. secret' \in 0..minted
    BY <1>1, BoundAssumption DEF TypeOK, NoSecret
<1>6. TypeOK'
    BY <1>1, <1>2, <1>3, <1>4, <1>5 DEF TypeOK
<1>7. \A g \in Handler \ {h} : /\ pc'[g] = pc[g] /\ batch'[g] = batch[g] /\ nth'[g] = nth[g]
    BY <1>3 DEF Others
<1>8. BatchInv'
    <2>1. \A g, k \in Handler : batch'[g] # 0 /\ batch'[g] = batch'[k] => g = k
        BY <1>3, <1>7 DEF BatchInv
    <2> QED
        BY <1>1, <1>3, <1>7, <2>1 DEF BatchInv, Replacing
<1>9. FreshInv'
    <2>1. \A c \in Code : c[1] # 0
        BY CodeParts DEF Secret
    <2>2. ASSUME NEW g \in Handler, NEW c \in Code, c[1] = batch'[g],
                 pc'[g] = "insert_code" => c[2] >= nth'[g]
          PROVE  recovery[c] = "none"
        BY <1>3, <1>7, <2>1, <2>2 DEF FreshInv
    <2>3. \A c \in Code : c[1] > minted' => recovery'[c] = "none"
        BY <1>1, <1>2 DEF FreshInv
    <2> QED
        BY <1>2, <2>2, <2>3 DEF FreshInv
<1>10. WrittenInv' /\ ReplacedCodesAreDead' /\ ShownCodesAreThere'
    BY <1>1, <1>2 DEF WrittenInv, ReplacedCodesAreDead, ShownCodesAreThere
<1>11. SaverInv'
    <2>1. \A g \in Handler : Saver(g)' => g # h /\ Saver(g) /\ Spent(g)' = Spent(g)
        BY <1>3 DEF Saver, Spent, Others
    <2>2. \A g \in Handler : factor'[g] = "recovery" => pc'[g] = "save"
        BY <1>3 DEF SaverInv, Others
    <2> QED
        BY <1>2, <2>1, <2>2 DEF SaverInv
<1>12. SecondFactorAsked'
    BY <1>3 DEF SecondFactorAsked, Others
<1> QED
    BY <1>6, <1>8, <1>9, <1>10, <1>11, <1>12

LEMMA StepCodes ==
    ASSUME CodesInv, NEW h \in Handler, Step(h)
    PROVE  CodesInv'
<1>0. TypeOK /\ TRUE \in BOOLEAN /\ FALSE \in BOOLEAN
    BY Zenon DEF CodesInv
<1>1. CASE SaveSession(h)
    <2>1. opened' \in [Code -> Nat]
        <3>1. CASE factor[h] = "recovery"
            <4>1. Spent(h) \in Code /\ opened' = [opened EXCEPT ![Spent(h)] = opened[Spent(h)] + 1]
                BY <1>1, <3>1 DEF SaveSession, CodesInv, SaverInv, Saver, Spent
            <4> QED
                BY <1>0, <4>1 DEF TypeOK
        <3>2. CASE factor[h] # "recovery"
            BY <1>0, <1>1, <3>2 DEF SaveSession, TypeOK
        <3> QED
            BY <3>1, <3>2
    <2> QED
        BY <1>0, <1>1, <2>1, FinishCodes DEF SaveSession, TypeOK, db, accountRow
<1>2. ASSUME NEW w \in Password, SetPassword(h, w)
      PROVE  CodesInv'
    BY <1>0, <1>2, FinishCodes DEF SetPassword, TypeOK, codeHistory
<1>3. CASE SetEnabled(h)
    <2>1. enabled' \in BOOLEAN
        BY <1>0, <1>3, Zenon DEF SetEnabled, TypeOK
    <2> QED
        BY <1>0, <1>3, <2>1, FinishCodes DEF SetEnabled, TypeOK, codeHistory
<1> QED
    BY <1>1, <1>2, <1>3, ConsumeCodes, ClearCodes, DeleteCodesCodes, InsertCodes, ShowCodesCodes,
       PurgeCodes
    DEF Step

LEMMA CodesNext == CodesInv /\ [Next]_vars => CodesInv'
<1> SUFFICES ASSUME CodesInv, [Next]_vars PROVE CodesInv'
    OBVIOUS
<1>1. CASE ForgetChallenge \/ UNCHANGED vars
    <2>1. UNCHANGED <<db, pc, locals, codeHistory, opened>>
        BY <1>1 DEF ForgetChallenge, vars
    <2>2. challenged' \in BOOLEAN
        <3>1. challenged' = FALSE \/ challenged' = challenged
            BY <1>1, Zenon DEF ForgetChallenge, vars
        <3>2. challenged \in BOOLEAN
            BY DEF CodesInv, TypeOK
        <3> QED
            BY <3>1, <3>2, Zenon
    <2>3. TypeOK'
        BY <2>1, <2>2 DEF CodesInv, TypeOK, db, accountRow, locals, codeHistory
    <2> QED
        BY <2>1, <2>3
        DEF CodesInv, BatchInv, FreshInv, WrittenInv, SaverInv, Saver, Spent, SecondFactorAsked,
            ReplacedCodesAreDead, ShownCodesAreThere, db, accountRow, locals, codeHistory
<1>2. ASSUME NEW h \in Handler, Disconnect(h)
      PROVE  CodesInv'
    BY <1>2, FinishCodes DEF Disconnect, CodesInv, TypeOK, db, accountRow
<1> QED
    BY <1>1, <1>2, StepCodes, RequestCodes DEF Next, Environment

(* The inductive invariant: every batch that is being written is one         *)
(* handler's, its codes are not there before they are inserted, and who was  *)
(* convinced by a code has spent it alone.                                   *)
THEOREM CodesCorrect == Spec => []CodesInv
BY CodesInit, CodesNext, PTL DEF Spec

(* The account, its codes and the handlers keep their types, and a batch or  *)
(* secret that is about was generated.                                       *)
THEOREM TypeCorrect == Spec => []TypeOK
<1>1. CodesInv => TypeOK
    BY DEF CodesInv
<1> QED
    BY <1>1, CodesCorrect, PTL

(* While 2FA stays on, nobody gets a session without a second factor or      *)
(* deletes the account by a recovery code.                                   *)
THEOREM FactorCorrect == Spec => []SecondFactorAsked
<1>1. CodesInv => SecondFactorAsked
    BY DEF CodesInv
<1> QED
    BY <1>1, CodesCorrect, PTL

(* A deletion of the codes that goes through kills every batch that had been *)
(* shown, however it is interleaved with handlers that insert theirs.        *)
THEOREM ReplacedCorrect == Spec => []ReplacedCodesAreDead
<1>1. CodesInv => ReplacedCodesAreDead
    BY DEF CodesInv
<1> QED
    BY <1>1, CodesCorrect, PTL

(* What a user was shown is in the table until it is used, unless the        *)
(* account deleted codes again after that batch was generated, or the code   *)
(* is one whose INSERT failed.                                               *)
THEOREM ShownCorrect == Spec => []ShownCodesAreThere
<1>1. CodesInv => ShownCodesAreThere
    BY DEF CodesInv
<1> QED
    BY <1>1, CodesCorrect, PTL

-----------------------------------------------------------------------------
(* The recovery codes keep the promise of BurnOnce.                          *)

(* Somebody has spent the code and has no session for it yet.                *)
Owed(c) ==
    \E h \in Handler : /\ pc[h] = "save" /\ factor[h] = "recovery"
                       /\ answer[h].of = c[1] /\ answer[h].nth = c[2]

LEMMA SaverOwes ==
    ASSUME NEW h \in Handler, NEW c \in Code
    PROVE  Saver(h) /\ Spent(h) = c
           <=> /\ pc[h] = "save" /\ factor[h] = "recovery"
               /\ answer[h].of = c[1] /\ answer[h].nth = c[2]
<1>1. PICK x, y : c = <<x, y>>
    BY CodeParts
<1> QED
    BY <1>1 DEF Saver, Spent

(* A handler that neither is nor comes to be about to save its session.      *)
LEMMA SameOwed ==
    ASSUME NEW h \in Handler, Others(h), ~Saver(h), ~(pc'[h] = "save" /\ factor'[h] = "recovery")
    PROVE  \A c \in Code : Owed(c)' <=> Owed(c)
BY DEF Owed, Others, Saver

LEMMA SameCodes ==
    ASSUME recovery' = recovery, \A c \in Code : Owed(c)' <=> Owed(c)
    PROVE  CodeStatus' = CodeStatus
BY DEF CodeStatus, Owed

LEMMA UnusedIsFree ==
    ASSUME CodesInv, NEW c \in Code, recovery[c] \in {"none", "unused"}
    PROVE  ~Owed(c)
BY SaverOwes DEF CodesInv, SaverInv, Owed

LEMMA WithdrawCodes ==
    ASSUME CodesInv, recovery' = WithoutCodes, opened' = opened,
           \A c \in Code : Owed(c)' <=> Owed(c)
    PROVE  Promise!Next
<1>1. PICK ids \in SUBSET Code : ids = {c \in Code : recovery[c] = "unused"}
    OBVIOUS
<1>2. \A c \in ids : CodeStatus[c] = "kept"
    BY <1>1 DEF CodeStatus
<1>3. ASSUME NEW c \in Code
      PROVE  CodeStatus'[c] = IF c \in ids THEN "gone" ELSE CodeStatus[c]
    <2>1. recovery'[c] = IF recovery[c] = "none" THEN "none" ELSE "deleted"
        BY DeletedCodes DEF CodesInv
    <2>2. Owed(c)' <=> Owed(c)
        OBVIOUS
    <2>3. c \in ids => ~Owed(c)
        BY <1>1, UnusedIsFree
    <2> QED
        BY <1>1, <2>1, <2>2, <2>3 DEF CodeStatus, Owed
<1>4. CodeStatus' = [c \in Code |-> IF c \in ids THEN "gone" ELSE CodeStatus[c]]
    BY <1>3 DEF CodeStatus
<1>5. Promise!Withdraw(ids)
    BY <1>2, <1>4 DEF Promise!Withdraw
<1> QED
    BY <1>5 DEF Promise!Next

(* Who has spent a code and is through leaves it gone: it was the only one.  *)
LEMMA SaverLeaves ==
    ASSUME CodesInv, NEW h \in Handler, NEW c \in Code, Saver(h), Spent(h) = c,
           Finish(h), recovery' = recovery
    PROVE  CodeStatus[c] = "owed" /\ CodeStatus' = [CodeStatus EXCEPT ![c] = "gone"]
<1>1. pc'[h] = "idle" /\ Others(h)
    BY FinishMoves DEF CodesInv
<1>2. Owed(c) /\ recovery[c] \notin {"none", "unused"}
    BY SaverOwes DEF Owed, CodesInv, SaverInv
<1>3. ~Owed(c)'
    <2>1. \A g \in Handler \ {h} : ~(Saver(g) /\ Spent(g) = c)
        BY DEF CodesInv, SaverInv
    <2>2. \A g \in Handler \ {h} : ~(/\ pc[g] = "save" /\ factor[g] = "recovery"
                                    /\ answer[g].of = c[1] /\ answer[g].nth = c[2])
        BY <2>1, SaverOwes
    <2> QED
        BY <1>1, <2>2 DEF Owed, Others
<1>4. \A other \in Code \ {c} : Owed(other)' <=> Owed(other)
    <2>1. \A other \in Code \ {c} : ~(Saver(h) /\ Spent(h) = other)
        OBVIOUS
    <2>2. \A other \in Code \ {c} : ~(/\ pc[h] = "save" /\ factor[h] = "recovery"
                                      /\ answer[h].of = other[1] /\ answer[h].nth = other[2])
        BY <2>1, SaverOwes
    <2> QED
        BY <1>1, <2>2 DEF Owed, Others
<1>5. CodeStatus[c] = "owed" /\ CodeStatus'[c] = "gone"
    BY <1>2, <1>3 DEF CodeStatus, Owed
<1>6. \A other \in Code \ {c} : CodeStatus'[other] = CodeStatus[other]
    BY <1>4 DEF CodeStatus, Owed
<1>7. CodeStatus' = [CodeStatus EXCEPT ![c] = "gone"]
    <2>1. CodeStatus'[c] = "gone"
        BY <1>5
    <2> QED
        BY <1>6, <2>1 DEF CodeStatus
<1> QED
    BY <1>5, <1>7

LEMMA QuietRequest ==
    ASSUME CodesInv, NEW h \in Handler, Request(h)
    PROVE  CodeStatus' = CodeStatus /\ opened' = opened
<1>0. TypeOK /\ Answers \subseteq Answer /\ Wrong \in Answer
    BY AnswersTyped, BoundAssumption DEF CodesInv, TypeOK
<1>1. ASSUME NEW place \in Place, NEW c \in Answer, NEW by \in {"none", "totp"},
             Start(h, place, c, by), recovery' = recovery
      PROVE  CodeStatus' = CodeStatus
    <2>1. pc[h] = "idle" /\ factor'[h] = by /\ Others(h)
        BY <1>0, <1>1, StartMoves
    <2> QED
        BY <1>1, <2>1, SameOwed, SameCodes DEF Saver
<1>2. {"save", "consume", "set_password", "clear_secret", "set_enabled", "purge"} \subseteq Place
    BY DEF Place
<1>3. ASSUME Setup(h) \/ \E w \in Password : NewCodes(h, w)
      PROVE  CodeStatus' = CodeStatus /\ opened' = opened
    <2>1. /\ pc[h] = "idle" /\ (Goto(h, "store_secret") \/ Goto(h, "delete_codes"))
          /\ UNCHANGED <<recovery, answer, factor, opened>>
        BY <1>3 DEF Setup, NewCodes
    <2>2. pc'[h] # "save" /\ \A g \in Handler \ {h} : pc'[g] = pc[g]
        BY <1>0, <2>1 DEF Goto, TypeOK
    <2>3. \A c \in Code : Owed(c)' <=> Owed(c)
        BY <2>1, <2>2 DEF Owed
    <2> QED
        BY <2>1, <2>3, SameCodes
<1>4. ASSUME NEW w \in Password, SignIn(h, w)
      PROVE  CodeStatus' = CodeStatus /\ opened' = opened
    <2>1. recovery' = recovery /\ opened' = opened
        BY <1>4 DEF SignIn, db
    <2>2. CASE HasTotp
        <3>1. UNCHANGED <<pc, answer, factor>>
            BY <1>4, <2>2 DEF SignIn, locals
        <3>2. \A c \in Code : Owed(c)' <=> Owed(c)
            BY <3>1 DEF Owed
        <3> QED
            BY <2>1, <3>2, SameCodes
    <2>3. CASE ~HasTotp
        BY <1>0, <1>1, <1>2, <1>4, <2>1, <2>3 DEF SignIn
    <2> QED
        BY <2>2, <2>3
<1>5. ASSUME NEW w \in Password, ChangePassword(h, w) \/ Disable(h, w)
      PROVE  CodeStatus' = CodeStatus /\ opened' = opened
    BY <1>0, <1>1, <1>2, <1>5 DEF ChangePassword, Disable, db
<1>6. ASSUME NEW w \in Password, NEW c \in Answers, DeleteAccount(h, w, c)
      PROVE  CodeStatus' = CodeStatus /\ opened' = opened
    BY <1>0, <1>1, <1>2, <1>6 DEF DeleteAccount, db
<1>7. ASSUME NEW c \in Answers, VerifyTotp(h, c) \/ Enable(h, c)
      PROVE  CodeStatus' = CodeStatus /\ opened' = opened
    BY <1>0, <1>1, <1>2, <1>7 DEF VerifyTotp, Enable, db
<1> QED
    BY <1>3, <1>4, <1>5, <1>6, <1>7 DEF Request

(* A handler that ends, having spent a code or not.                          *)
LEMMA EndOfRequest ==
    ASSUME CodesInv, NEW h \in Handler, Finish(h), recovery' = recovery,
           \/ opened' = opened
           \/ Saver(h) /\ opened' = [opened EXCEPT ![Spent(h)] = @ + 1]
    PROVE  Promise!Next \/ (CodeStatus' = CodeStatus /\ opened' = opened)
<1>1. pc'[h] = "idle" /\ Others(h)
    BY FinishMoves DEF CodesInv
<1>2. CASE Saver(h)
    <2>1. PICK c \in Code : c = Spent(h)
        BY <1>2 DEF CodesInv, SaverInv
    <2>2. CodeStatus[c] = "owed" /\ CodeStatus' = [CodeStatus EXCEPT ![c] = "gone"]
        BY <1>2, <2>1, SaverLeaves
    <2>3. opened' = opened \/ opened' = [opened EXCEPT ![c] = @ + 1]
        BY <2>1
    <2>4. Promise!Show(c)
        BY <2>2, <2>3 DEF Promise!Show
    <2> QED
        BY <2>4 DEF Promise!Next
<1>3. CASE ~Saver(h)
    BY <1>1, <1>3, SameOwed, SameCodes
<1> QED
    BY <1>2, <1>3

LEMMA PromiseContinue ==
    ASSUME CodesInv, NEW h \in Handler, Step(h)
    PROVE  Promise!Next \/ (CodeStatus' = CodeStatus /\ opened' = opened)
<1>0. TypeOK
    BY DEF CodesInv
<1>1. CASE ConsumeRecoveryCode(h)
    <2>1. PICK c : c = <<answer[h].of, answer[h].nth>>
        OBVIOUS
    <2>2. pc[h] = "consume" /\ opened' = opened
        BY <1>1 DEF ConsumeRecoveryCode
    <2>3. CASE answer[h].kind = "recovery" /\ Unused(c)
        <3>1. /\ c \in Code /\ recovery[c] = "unused"
              /\ recovery' = [recovery EXCEPT ![c] = "used"]
              /\ factor' = [factor EXCEPT ![h] = "recovery"]
              /\ pc' = [pc EXCEPT ![h] = "save"] /\ answer' = answer
            BY <1>1, <2>1, <2>3 DEF ConsumeRecoveryCode, Unused, Goto
        <3>2. /\ pc'[h] = "save" /\ factor'[h] = "recovery"
              /\ \A g \in Handler \ {h} : pc'[g] = pc[g] /\ factor'[g] = factor[g]
            BY <1>0, <3>1 DEF TypeOK
        <3>3. c = <<c[1], c[2]>> /\ answer[h].of = c[1] /\ answer[h].nth = c[2]
            BY <2>1
        <3>4. Owed(c)'
            BY <3>1, <3>2, <3>3 DEF Owed
        <3>5. ASSUME NEW other \in Code, other # c
              PROVE  Owed(other)' <=> Owed(other)
            <4>1. ~(answer[h].of = other[1] /\ answer[h].nth = other[2])
                BY <2>1, <3>5, CodeParts
            <4> QED
                BY <2>2, <3>1, <3>2, <4>1 DEF Owed
        <3>6. CodeStatus[c] = "kept" /\ CodeStatus'[c] = "owed"
            BY <1>0, <3>1, <3>4 DEF CodeStatus, Owed, TypeOK
        <3>7. ASSUME NEW other \in Code, other # c
              PROVE  CodeStatus'[other] = CodeStatus[other]
            <4>1. recovery'[other] = recovery[other]
                BY <1>0, <3>1, <3>7 DEF TypeOK
            <4>2. Owed(other)' <=> Owed(other)
                BY <3>5, <3>7
            <4> QED
                BY <4>1, <4>2 DEF CodeStatus, Owed
        <3>8. CodeStatus' = [CodeStatus EXCEPT ![c] = "owed"]
            BY <3>1, <3>6, <3>7 DEF CodeStatus
        <3>9. Promise!Burn(c)
            BY <2>2, <3>6, <3>8 DEF Promise!Burn
        <3> QED
            BY <3>1, <3>9 DEF Promise!Next
    <2>4. CASE ~(answer[h].kind = "recovery" /\ Unused(c))
        <3>1. recovery' = recovery /\ Finish(h)
            BY <1>1, <2>1, <2>4 DEF ConsumeRecoveryCode
        <3> QED
            BY <2>2, <3>1, EndOfRequest
    <2> QED
        BY <2>3, <2>4
<1>2. CASE SaveSession(h)
    <2>1. /\ pc[h] = "save" /\ Finish(h) /\ recovery' = recovery
          /\ \/ opened' = opened
             \/ factor[h] = "recovery" /\ opened' = [opened EXCEPT ![Spent(h)] = @ + 1]
        BY <1>2 DEF SaveSession, db, Spent
    <2> QED
        BY <2>1, EndOfRequest DEF Saver
<1>3. CASE \/ \E w \in Password : SetPassword(h, w)
           \/ ShowCodes(h) \/ SetEnabled(h)
    <2>1. Finish(h) /\ recovery' = recovery /\ opened' = opened
        BY <1>3 DEF SetPassword, ShowCodes, SetEnabled, db
    <2> QED
        BY <2>1, EndOfRequest
<1>4. CASE StoreSecret(h) \/ ClearSecret(h)
    <2>1. /\ pc[h] # "save" /\ pc' = [pc EXCEPT ![h] = "delete_codes"]
          /\ UNCHANGED <<recovery, answer, factor, opened>>
        BY <1>4 DEF StoreSecret, ClearSecret, Goto
    <2>2. pc'[h] # "save" /\ \A g \in Handler \ {h} : pc'[g] = pc[g]
        BY <1>0, <2>1 DEF TypeOK
    <2>3. \A c \in Code : Owed(c)' <=> Owed(c)
        BY <2>1, <2>2 DEF Owed
    <2> QED
        BY <2>1, <2>3, SameCodes
<1>5. CASE DeleteCodes(h)
    <2>1. /\ pc[h] = "delete_codes" /\ opened' = opened
          /\ recovery' \in {WithoutCodes, recovery}
        BY <1>5 DEF DeleteCodes
    <2>2. Others(h) /\ pc'[h] # "save"
        <3>1. CASE batch[h] = 0
            BY <1>0, <1>5, <3>1, FinishMoves DEF DeleteCodes
        <3>2. CASE batch[h] # 0
            BY <1>0, <1>5, <3>2 DEF DeleteCodes, Goto, Others, TypeOK
        <3> QED
            BY <3>1, <3>2
    <2>3. \A c \in Code : Owed(c)' <=> Owed(c)
        BY <2>1, <2>2, SameOwed DEF Saver
    <2> QED
        BY <2>1, <2>3, WithdrawCodes, SameCodes
<1>6. CASE InsertCode(h)
    <2>1. PICK b, n : b = batch[h] /\ n = nth[h]
        OBVIOUS
    <2>2. /\ pc[h] = "insert_code" /\ MoreCodes(n)
          /\ recovery' \in {[recovery EXCEPT ![<<b, n>>] = "unused"], recovery}
          /\ UNCHANGED <<pc, answer, factor, opened>>
        BY <1>6, <2>1 DEF InsertCode
    <2>3. \A c \in Code : Owed(c)' <=> Owed(c)
        BY <2>2 DEF Owed
    <2>4. CASE recovery' = recovery
        BY <2>2, <2>3, <2>4, SameCodes
    <2>5. CASE recovery' = [recovery EXCEPT ![<<b, n>>] = "unused"]
        <3>1. b \in Secret /\ n \in 1..CodeCount
            <4>1. b \in 0..minted /\ b # 0 /\ n \in 0..CodeCount + 1 /\ n >= 1 /\ n <= CodeCount
                BY <1>0, <2>1, <2>2 DEF CodesInv, BatchInv, TypeOK, MoreCodes
            <4>2. minted \in 0..MaxMint /\ MaxMint \in Nat /\ CodeCount \in Nat
                BY <1>0, BoundAssumption DEF TypeOK
            <4> QED
                BY <4>1, <4>2 DEF Secret
        <3>2. PICK c \in Code : c = <<b, n>> /\ c[1] = b /\ c[2] = n
            BY <3>1, CodeParts
        <3>3. recovery[c] = "none"
            <4>1. c[2] >= nth[h]
                BY <2>1, <3>1, <3>2, BoundAssumption
            <4> QED
                BY <2>1, <3>2, <4>1 DEF CodesInv, FreshInv
        <3>4. recovery' = [recovery EXCEPT ![c] = "unused"]
            BY <2>5, <3>2
        <3>5. CodeStatus[c] = "unborn" /\ CodeStatus'[c] = "kept"
            BY <1>0, <3>3, <3>4 DEF CodeStatus, TypeOK
        <3>6. \A other \in Code \ {c} : CodeStatus'[other] = CodeStatus[other]
            BY <1>0, <2>3, <3>4 DEF CodeStatus, Owed, TypeOK
        <3>7. CodeStatus' = [CodeStatus EXCEPT ![c] = "kept"]
            BY <3>5, <3>6 DEF CodeStatus
        <3>8. Promise!Publish(c)
            BY <2>2, <3>5, <3>7 DEF Promise!Publish
        <3> QED
            BY <3>8 DEF Promise!Next
    <2> QED
        BY <2>2, <2>4, <2>5
<1>7. CASE PurgeAccount(h)
    <2>1. pc[h] = "purge" /\ recovery' = WithoutCodes /\ opened' = opened /\ Finish(h)
        BY <1>7 DEF PurgeAccount, WithoutCodes
    <2>2. Others(h) /\ pc'[h] = "idle"
        BY <1>0, <2>1, FinishMoves
    <2>3. \A c \in Code : Owed(c)' <=> Owed(c)
        BY <2>1, <2>2, SameOwed DEF Saver
    <2> QED
        BY <2>1, <2>3, WithdrawCodes
<1> QED
    BY <1>1, <1>2, <1>3, <1>4, <1>5, <1>6, <1>7 DEF Step

LEMMA PromiseCodes ==
    ASSUME CodesInv, [Next]_vars
    PROVE  [Promise!Next]_(Promise!abstract)
<1>1. ASSUME NEW h \in Handler, Disconnect(h)
      PROVE  Promise!Next \/ (CodeStatus' = CodeStatus /\ opened' = opened)
    BY <1>1, EndOfRequest DEF Disconnect, db
<1>2. CASE ForgetChallenge \/ UNCHANGED vars
    <2>1. UNCHANGED <<recovery, pc, answer, factor, opened>>
        BY <1>2 DEF ForgetChallenge, vars, db, locals
    <2>2. CodeStatus' = CodeStatus
        BY <2>1 DEF CodeStatus
    <2> QED
        BY <2>1, <2>2 DEF Promise!abstract
<1> QED
    BY <1>1, <1>2, QuietRequest, PromiseContinue DEF Next, Environment, Promise!abstract

(* The recovery codes implement BurnOnce: whoever races for a code, and      *)
(* whatever replaces, disables or deletes meanwhile, it opens at most one    *)
(* session, and none once it was deleted.                                    *)
THEOREM CodesBurn == Spec => CodesBurnOnce
<1>1. Init => Promise!Init
    BY DEF Init, Promise!Init, CodeStatus
<1>2. CodesInv /\ [Next]_vars => [Promise!Next]_(Promise!abstract)
    BY PromiseCodes
<1> QED
    BY <1>1, <1>2, CodesCorrect, PTL DEF Spec, CodesBurnOnce, Promise!Spec

-----------------------------------------------------------------------------
(* Throttle, the limiter and the lockout a sign-in passes first.  It shares  *)
(* no variable with SignIn.  Its assumptions, as the proofs cite them:       *)
LEMMA ThrottleConstants ==
    /\ Rate \in Nat \ {0} /\ Interval \in Nat \ {0} /\ MaxClock \in Nat
    /\ Threshold \in Nat \ {0} /\ Window \in Nat \ {0} /\ MaxCount \in Nat \ {0}
    /\ IsFiniteSet(Caller) /\ MaxCount >= Threshold - 1 + Cardinality(Caller)
BY QuotaAssumption, LockoutAssumption, CallerAssumption, ClockAssumption

LEMMA PerBounds == Per \in Nat /\ Per >= Interval
<1>1. PICK more \in Nat : Rate = more + 1
    BY ThrottleConstants
<1>2. more * Interval \in Nat /\ (more + 1) * Interval = more * Interval + Interval
    BY <1>1, ThrottleConstants
<1> QED
    BY <1>1, <1>2, ThrottleConstants DEF Per

LEMMA QuotientBelowOne ==
    ASSUME NEW a \in Int, NEW d \in Nat \ {0}, a \div d < 1
    PROVE  a < d
OBVIOUS

LEMMA QuotientBounds ==
    ASSUME NEW n \in Int, NEW a \in Int, NEW d \in Nat \ {0}, n * d <= a
    PROVE  n <= a \div d
OBVIOUS

-----------------------------------------------------------------------------
(* What the proofs about Throttle carry along.                               *)

(* Who was admitted may be: a request does not forget what it was asked.     *)
ArrivalInv == \A h \in Caller : gate[h] = "insert" => ~Limited(at[h], read[h])
FoundInv == \A h \in Caller : found[h].started <= now

(* Every request admitted since has moved tat by an interval, so requests    *)
(* that are few intervals apart are few.                                     *)
Intervals(n) == n * Interval

SpacedInv ==
    \A j \in 1..Len(admitted) :
        tat >= admitted[j] + Intervals(Len(admitted) - j + 1)
GapsInv ==
    \A j, k \in 1..Len(admitted) :
        j <= k => Intervals(k - j + 1 - Rate) <= admitted[k] - admitted[j]

TypeInv == ThrottleTypeOK /\ ArrivalInv /\ FoundInv
QuotaInv == SpacedInv /\ GapsInv

LEMMA NewTatBounds ==
    ASSUME NEW t \in Nat, NEW x \in Nat
    PROVE  /\ NewTat(t, x) \in Nat
           /\ NewTat(t, x) >= t + Interval /\ NewTat(t, x) >= x + Interval
           /\ ~Limited(t, x) => NewTat(t, x) <= t + Per
BY PerBounds, ThrottleConstants DEF NewTat, Later, Limited

(* Where the answer says when to come back, that is what of Per tat has used.*)
LEMMA RetryValue ==
    ASSUME NEW t \in Nat, NEW x \in Nat
    PROVE  /\ RetryAt(t, x) \in Nat \cup {NoTime}
           /\ RetryAt(t, x) # NoTime
              => RetryAt(t, x) = NewTat(t, x) - Per + Interval
<1> DEFINE spare == Spare(t, x)
<1> NewTat(t, x) \in Nat /\ Per \in Nat /\ Interval \in Nat \ {0}
    BY NewTatBounds, PerBounds, ThrottleConstants
<1>1. spare = t - (NewTat(t, x) - Per) /\ spare \in Int
    BY DEF Spare
<1> HIDE DEF spare
<1>2. 2 * spare + Interval \in Int /\ 2 * Interval \in Nat \ {0}
    BY <1>1, ThrottleConstants
<1>3. ASSUME Remaining(t, x) < 1
      PROVE  spare < Interval
    <2>1. (2 * spare + Interval) \div (2 * Interval) < 1
        BY <1>2, <1>3 DEF Remaining, Later, spare
    <2>2. 2 * spare + Interval < 2 * Interval
        BY <1>2, <2>1, QuotientBelowOne
    <2> QED
        BY <1>1, <2>2, ThrottleConstants
<1>4. CASE Remaining(t, x) < 1
    <2>1. RetryAt(t, x) = t + Interval - spare
        BY <1>4 DEF RetryAt, spare
    <2>2. spare < Interval
        BY <1>3, <1>4
    <2> QED
        BY <1>1, <2>1, <2>2
<1>5. CASE ~(Remaining(t, x) < 1)
    BY <1>5 DEF RetryAt
<1> QED
    BY <1>4, <1>5

-----------------------------------------------------------------------------
(* The type of Throttle, and that nothing it stores is of later.             *)
LEMMA ThrottleTyped ==
    ASSUME ThrottleInit
    PROVE  TypeInv
<1> USE DEF ThrottleInit
<1>1. now \in Time /\ tat \in 0..(now + Per)
    BY PerBounds, ThrottleConstants DEF Time
<1>2. attempts \in Attempts /\ attempts.started <= now
    BY ThrottleConstants DEF NoAttempts, NoTime, Attempts, Time
<1>3. /\ at \in [Caller -> 0..now] /\ clock \in [Caller -> 0..now]
      /\ read \in [Caller -> 0..(now + Per)]
    BY PerBounds
<1>4. found \in [Caller -> Attempts] /\ FoundInv
    BY <1>2 DEF FoundInv
<1>5. admitted \in Seq(Time)
    OBVIOUS
<1>6. ThrottleTypeOK
    BY <1>1, <1>2, <1>3, <1>4, <1>5 DEF ThrottleTypeOK, Gate
<1>7. ArrivalInv
    BY DEF ArrivalInv
<1> QED
    BY <1>4, <1>6, <1>7 DEF TypeInv

LEMMA NextAttemptsTyped ==
    ASSUME now \in Time, NEW t \in 0..now,
           NEW w \in Attempts, w.started <= now
    PROVE  NextAttempts(w, t) \in Attempts /\ NextAttempts(w, t).started <= now
<1>1. w.count \in 0..MaxCount /\ w.started \in Time \cup {NoTime}
    BY DEF Attempts
<1>2. t \in Time /\ t <= now
    BY ThrottleConstants DEF Time
<1>3. Saturated(w.count + 1) \in 0..MaxCount
    BY <1>1, ThrottleConstants DEF Saturated
<1> QED
    BY <1>1, <1>2, <1>3, ThrottleConstants DEF NextAttempts, Attempts, Time

(* The lockout's steps leave the limiter alone, and the other way round.     *)
LEMMA ThrottleTypeStep ==
    ASSUME TypeInv, [ThrottleNext]_throttleVars
    PROVE  TypeInv'
<1> USE DEF TypeInv, ThrottleTypeOK
<1> now \in Nat /\ Per \in Nat /\ Interval \in Nat \ {0}
    BY PerBounds, ThrottleConstants DEF Time
<1>1. ASSUME NEW h \in Caller, Arrive(h)
      PROVE  TypeInv'
    <2>1. retryAt' \in Nat \cup {NoTime}
        BY <1>1, RetryValue DEF Arrive
    <2>2. gate' \in [Caller -> Gate]
        BY <1>1 DEF Arrive, Enter, Gate
    <2>3. at' \in [Caller -> 0..now] /\ read' \in [Caller -> 0..(now + Per)]
        <3>1. now \in 0..now
            OBVIOUS
        <3> QED
            BY <1>1, <3>1 DEF Arrive
    <2>4. ArrivalInv'
        BY <1>1 DEF Arrive, Enter, ArrivalInv, Limited
    <2> QED
        BY <1>1, <2>1, <2>2, <2>3, <2>4 DEF Arrive, lockout, FoundInv
<1>2. ASSUME NEW h \in Caller, Insert(h)
      PROVE  TypeInv'
    <2>1. at[h] \in Nat /\ at[h] <= now /\ read[h] \in Nat /\ ~Limited(at[h], read[h])
        BY <1>2 DEF Insert, ArrivalInv
    <2>2. tat' \in 0..(now + Per)
        <3>1. tat' = NewTat(at[h], read[h])
            BY <1>2 DEF Insert
        <3>2. tat' \in Nat /\ tat' <= at[h] + Per
            BY <2>1, <3>1, NewTatBounds
        <3> QED
            BY <2>1, <3>2
    <2>3. retryAt' \in Nat \cup {NoTime}
        BY <1>2, <2>1, RetryValue DEF Insert
    <2>4. admitted' \in Seq(Time)
        <3>1. at[h] \in Time
            BY <2>1, ThrottleConstants DEF Time
        <3> QED
            BY <1>2, <3>1 DEF Insert
    <2>5. /\ gate' \in [Caller -> Gate]
          /\ at' \in [Caller -> 0..now] /\ read' \in [Caller -> 0..(now + Per)]
        BY <1>2 DEF Insert, Enter, Gate
    <2>6. ArrivalInv'
        BY <1>2 DEF Insert, Enter, ArrivalInv, Limited
    <2> QED
        BY <1>2, <2>2, <2>3, <2>4, <2>5, <2>6 DEF Insert, lockout, FoundInv
<1>3. ASSUME NEW h \in Caller, \/ CheckLock(h) \/ Succeed(h)
      PROVE  TypeInv'
    <2>1. gate' \in [Caller -> Gate]
        BY <1>3 DEF CheckLock, Succeed, Enter, Gate
    <2>2. ArrivalInv'
        BY <1>3 DEF CheckLock, Succeed, Enter, ArrivalInv, Limited, limiter
    <2> QED
        BY <1>3, <2>1, <2>2 DEF CheckLock, Succeed, limiter, lockout, FoundInv
<1>4. ASSUME NEW h \in Caller, \/ Fail(h) \/ FailElsewhere(h) \/ GetFailures(h)
      PROVE  TypeInv'
    <2>1. gate' \in [Caller -> Gate]
        BY <1>4 DEF Fail, FailElsewhere, GetFailures, Enter, Gate
    <2>2. ArrivalInv'
        BY <1>4 DEF Fail, FailElsewhere, GetFailures, Enter, ArrivalInv, Limited, limiter
    <2>3. found' \in [Caller -> Attempts] /\ FoundInv'
        BY <1>4 DEF Fail, FailElsewhere, GetFailures, FoundInv
    <2>4. clock' \in [Caller -> 0..now]
        <3>1. now \in 0..now
            OBVIOUS
        <3> QED
            BY <1>4, <3>1 DEF Fail, FailElsewhere, GetFailures
    <2> QED
        BY <1>4, <2>1, <2>2, <2>3, <2>4 DEF Fail, FailElsewhere, GetFailures, limiter
<1>5. ASSUME NEW h \in Caller, PutFailures(h)
      PROVE  TypeInv'
    <2>1. attempts' \in Attempts /\ attempts'.started <= now
        BY <1>5, NextAttemptsTyped DEF PutFailures, FoundInv
    <2>2. gate' \in [Caller -> Gate]
        BY <1>5 DEF PutFailures, Enter, Gate
    <2>3. ArrivalInv'
        BY <1>5 DEF PutFailures, Enter, ArrivalInv, Limited, limiter
    <2>4. NoAttempts \in Attempts /\ NoAttempts.started <= now
        BY ThrottleConstants DEF NoAttempts, Attempts, NoTime
    <2>5. found' \in [Caller -> Attempts] /\ FoundInv' /\ clock' \in [Caller -> 0..now]
        BY <1>5, <2>4 DEF PutFailures, FoundInv
    <2>6. raced' \in BOOLEAN
        BY <1>5 DEF PutFailures
    <2>7. guessed' \in Nat
        BY <1>5 DEF PutFailures
    <2> QED
        BY <1>5, <2>1, <2>2, <2>3, <2>5, <2>6, <2>7 DEF PutFailures, limiter
<1>6. ASSUME EvictArrival
      PROVE  TypeInv'
    <2>1. ArrivalInv'
        BY <1>6 DEF EvictArrival, ArrivalInv, Limited
    <2> QED
        BY <1>6, <2>1 DEF EvictArrival, lockout, FoundInv
<1>7. ASSUME EvictAttempts
      PROVE  TypeInv'
    <2>1. attempts' \in Attempts /\ attempts'.started <= now
        BY <1>7, ThrottleConstants DEF EvictAttempts, NoAttempts, Attempts, NoTime
    <2>2. ArrivalInv'
        BY <1>7 DEF EvictAttempts, ArrivalInv, Limited, limiter
    <2> QED
        BY <1>7, <2>1, <2>2 DEF EvictAttempts, limiter, FoundInv
<1>8. ASSUME Tick
      PROVE  TypeInv'
    <2>1. now' \in Time /\ now' = now + 1
        BY <1>8, ThrottleConstants DEF Tick, Time
    <2>2. tat' \in 0..(now' + Per) /\ attempts'.started <= now'
        BY <1>8, <2>1 DEF Tick, limiter, lockout, Attempts, Time, NoTime
    <2>3. /\ at' \in [Caller -> 0..now'] /\ read' \in [Caller -> 0..(now' + Per)]
          /\ clock' \in [Caller -> 0..now']
        BY <1>8, <2>1 DEF Tick, limiter, lockout
    <2>4. ArrivalInv'
        BY <1>8 DEF Tick, ArrivalInv, Limited, limiter
    <2>5. FoundInv'
        <3>1. \A h \in Caller : found[h].started \in Int
            BY DEF Attempts, Time, NoTime
        <3> QED
            BY <1>8, <2>1, <3>1 DEF Tick, FoundInv, lockout
    <2> QED
        BY <1>8, <2>1, <2>2, <2>3, <2>4, <2>5 DEF Tick, limiter, lockout
<1>9. CASE UNCHANGED throttleVars
    BY <1>9 DEF throttleVars, limiter, lockout, ArrivalInv, FoundInv, Limited
<1> QED
    BY <1>1, <1>2, <1>3, <1>4, <1>5, <1>6, <1>7, <1>8, <1>9 DEF ThrottleNext, Proceed

(* Everything keeps its type, a request that was found to be admissible      *)
(* stays so, and nothing that was read is of later.                          *)
THEOREM ThrottleTypeInductive == ThrottleSpec => []TypeInv
<1>1. ThrottleInit => TypeInv
    BY ThrottleTyped
<1>2. TypeInv /\ [ThrottleNext]_throttleVars => TypeInv'
    BY ThrottleTypeStep
<1> QED
    BY <1>1, <1>2, PTL DEF ThrottleSpec

-----------------------------------------------------------------------------
(* The quota.                                                                *)

LEMMA IntervalMultiples ==
    ASSUME NEW n \in Int
    PROVE  /\ Intervals(n) \in Int
           /\ n <= 0 => Intervals(n) <= 0
           /\ n = 1 => Intervals(n) = Interval
           /\ Intervals(n + 1) = Intervals(n) + Interval
           /\ Intervals(n - Rate) = Intervals(n) - Per
<1>1. /\ \A i \in Int : /\ (n - Rate) * i = n * i - Rate * i
                       /\ (n + 1) * i = n * i + i
                       /\ n * i \in Int
      /\ \A i \in Nat : n <= 0 => n * i <= 0
    BY ThrottleConstants
<1> QED
    BY <1>1, ThrottleConstants DEF Intervals, Per

LEMMA QuotaInsert ==
    ASSUME TypeInv, QuotaInv, NEW h \in Caller, Insert(h)
    PROVE  QuotaInv'
<1> DEFINE n == Len(admitted)
<1>1. /\ now \in Nat /\ at[h] \in Nat /\ read[h] \in Nat /\ ~Limited(at[h], read[h])
      /\ Per \in Nat /\ Interval \in Nat \ {0} /\ Rate \in Nat /\ n \in Nat
      /\ \A j \in 1..n : admitted[j] \in Nat
    BY PerBounds, ThrottleConstants DEF TypeInv, ThrottleTypeOK, Time, Insert, ArrivalInv
<1>2. /\ tat' = NewTat(at[h], read[h]) /\ tat' \in Nat
      /\ tat' >= at[h] + Interval /\ tat' >= read[h] + Interval
    BY <1>1, NewTatBounds DEF Insert
<1>3. CASE tat # read[h]
    <2>1. admitted' = <<>>
        BY <1>3 DEF Insert
    <2> QED
        BY <2>1 DEF QuotaInv, SpacedInv, GapsInv
<1>4. CASE tat = read[h]
    <2>1. /\ Len(admitted') = n + 1 /\ admitted'[n + 1] = at[h]
          /\ \A j \in 1..n : admitted'[j] = admitted[j]
        BY <1>1, <1>4 DEF Insert, TypeInv, ThrottleTypeOK
    <2>2. ASSUME NEW j \in 1..(n + 1)
          PROVE  tat' >= admitted'[j] + Intervals(n + 1 - j + 1)
        <3>1. CASE j = n + 1
            <4>1. Intervals(n + 1 - j + 1) = Interval
                BY <1>1, <3>1, IntervalMultiples
            <4> QED
                BY <1>1, <1>2, <2>1, <3>1, <4>1
        <3>2. CASE j \in 1..n
            <4>1. tat >= admitted[j] + Intervals(n - j + 1)
                BY <3>2 DEF QuotaInv, SpacedInv
            <4>2. /\ n - j + 1 \in Int /\ n + 1 - j + 1 = (n - j + 1) + 1
                  /\ admitted[j] \in Nat /\ admitted'[j] = admitted[j]
                BY <1>1, <2>1, <3>2
            <4>3. /\ Intervals(n - j + 1) \in Int
                  /\ Intervals(n + 1 - j + 1) = Intervals(n - j + 1) + Interval
                BY <4>2, IntervalMultiples
            <4>4. tat \in Nat /\ tat' >= tat + Interval
                BY <1>1, <1>2, <1>4
            <4> QED
                BY <1>1, <1>2, <4>1, <4>2, <4>3, <4>4
        <3> QED
            BY <1>1, <3>1, <3>2
    <2>3. ASSUME NEW j \in 1..(n + 1), NEW k \in 1..(n + 1), j <= k
          PROVE  Intervals(k - j + 1 - Rate) <= admitted'[k] - admitted'[j]
        <3>1. CASE k \in 1..n
            BY <1>1, <2>1, <2>3, <3>1 DEF QuotaInv, GapsInv
        <3>2. CASE k = n + 1 /\ j = n + 1
            <4>1. k - j + 1 - Rate \in Int /\ k - j + 1 - Rate <= 0
                BY <3>2, <1>1, ThrottleConstants
            <4>2. Intervals(k - j + 1 - Rate) <= 0
                BY <4>1, IntervalMultiples
            <4> QED
                BY <1>1, <2>1, <3>2, <4>2
        <3>3. CASE k = n + 1 /\ j \in 1..n
            <4>1. tat >= admitted[j] + Intervals(n - j + 1)
                BY <3>3 DEF QuotaInv, SpacedInv
            <4>2. at[h] >= tat - Per + Interval
                BY <1>1, <1>4 DEF Limited
            <4>3. /\ Intervals(n - j + 1) \in Int
                  /\ Intervals(n - j + 2) = Intervals(n - j + 1) + Interval
                  /\ Intervals(n - j + 2 - Rate) = Intervals(n - j + 2) - Per
                <5>1. Rate \in Int /\ n - j + 1 \in Int /\ n - j + 2 \in Int /\ n - j + 1 + 1 = n - j + 2
                    BY <1>1, <3>3
                <5>2. /\ Intervals(n - j + 1) \in Int
                      /\ Intervals(n - j + 1 + 1) = Intervals(n - j + 1) + Interval
                    BY <5>1, IntervalMultiples
                <5>3. Intervals(n - j + 2 - Rate) = Intervals(n - j + 2) - Per
                    BY <5>1, IntervalMultiples
                <5> QED
                    BY <5>1, <5>2, <5>3
            <4>4. k - j + 1 - Rate = n - j + 2 - Rate
                BY <1>1, <3>3, ThrottleConstants
            <4>5. /\ tat \in Nat /\ admitted[j] \in Nat
                  /\ admitted'[j] = admitted[j] /\ admitted'[k] = at[h]
                BY <1>1, <1>4, <2>1, <3>3
            <4>6. Intervals(k - j + 1 - Rate) = Intervals(n - j + 1) + Interval - Per
                BY <1>1, <4>3, <4>4
            <4>7. admitted'[k] - admitted'[j] = at[h] - admitted[j]
                BY <4>5
            <4>8. at[h] - admitted[j] >= Intervals(n - j + 1) + Interval - Per
                <5>1. at[h] \in Int /\ Per \in Int /\ Interval \in Int /\ Intervals(n - j + 1) \in Int
                    BY <1>1, <4>3
                <5>2. PICK m \in Int : m = Intervals(n - j + 1)
                    BY <5>1
                <5>3. tat >= admitted[j] + m /\ at[h] >= tat - Per + Interval
                    BY <4>1, <4>2, <5>2
                <5>4. at[h] - admitted[j] >= m + Interval - Per
                    BY <4>5, <5>1, <5>3
                <5> QED
                    BY <5>2, <5>4
            <4> QED
                BY <1>1, <4>3, <4>5, <4>6, <4>7, <4>8
        <3> QED
            BY <1>1, <3>1, <3>2, <3>3
    <2> QED
        BY <2>1, <2>2, <2>3 DEF QuotaInv, SpacedInv, GapsInv
<1> QED
    BY <1>3, <1>4

LEMMA QuotaStep ==
    ASSUME TypeInv, QuotaInv, [ThrottleNext]_throttleVars
    PROVE  QuotaInv'
<1>1. ASSUME UNCHANGED <<tat, admitted>>
      PROVE  QuotaInv'
    BY <1>1 DEF QuotaInv, SpacedInv, GapsInv
<1>2. ASSUME NEW h \in Caller, Insert(h)
      PROVE  QuotaInv'
    BY <1>2, QuotaInsert
<1>3. ASSUME EvictArrival
      PROVE  QuotaInv'
    <2>1. admitted' = <<>>
        BY <1>3 DEF EvictArrival
    <2> QED
        BY <2>1 DEF QuotaInv, SpacedInv, GapsInv
<1>4. CASE UNCHANGED throttleVars
    BY <1>1, <1>4 DEF throttleVars, limiter
<1>5. CASE \E h \in Caller : Arrive(h)
    BY <1>1, <1>5 DEF Arrive
<1>6. CASE EvictAttempts \/ Tick
    BY <1>1, <1>6 DEF EvictAttempts, Tick, limiter
<1>7. CASE \E h \in Caller : \/ FailElsewhere(h) \/ CheckLock(h) \/ Succeed(h)
                              \/ Fail(h) \/ GetFailures(h) \/ PutFailures(h)
    BY <1>1, <1>7 DEF FailElsewhere, Fail, CheckLock, Succeed, GetFailures, PutFailures, limiter
<1> QED
    BY <1>2, <1>3, <1>4, <1>5, <1>6, <1>7 DEF ThrottleNext, Proceed

LEMMA QuotaGivesRate ==
    ASSUME TypeInv, QuotaInv
    PROVE  RateHolds
<1> SUFFICES ASSUME NEW j \in 1..Len(admitted), NEW k \in 1..Len(admitted), j <= k
             PROVE  k - j + 1 <= Rate + (admitted[k] - admitted[j]) \div Interval
    BY DEF RateHolds
<1>1. /\ Len(admitted) \in Nat /\ admitted[k] - admitted[j] \in Int
      /\ Rate \in Nat /\ Interval \in Nat \ {0}
    BY ThrottleConstants DEF TypeInv, ThrottleTypeOK, Time
<1>2. (k - j + 1 - Rate) * Interval <= admitted[k] - admitted[j]
    BY DEF QuotaInv, GapsInv, Intervals
<1>3. k - j + 1 - Rate \in Int
    BY <1>1
<1>4. k - j + 1 - Rate <= (admitted[k] - admitted[j]) \div Interval
    BY <1>1, <1>2, <1>3, QuotientBounds
<1>5. (admitted[k] - admitted[j]) \div Interval \in Int
    BY <1>1
<1> QED
    BY <1>1, <1>4, <1>5

(* No client gets more than its quota, and a request more for every interval *)
(* it waits, whatever quota and interval the route has: between requests     *)
(* that did not overlap, while its entry is not evicted.                     *)
THEOREM RateCorrect == ThrottleSpec => []RateHolds
<1>1. ThrottleSpec => []TypeInv
    BY ThrottleTypeInductive
<1>2. ThrottleInit => QuotaInv
    BY DEF ThrottleInit, QuotaInv, SpacedInv, GapsInv
<1>3. TypeInv /\ QuotaInv /\ [ThrottleNext]_throttleVars => QuotaInv'
    BY QuotaStep
<1>4. TypeInv /\ QuotaInv => RateHolds
    BY QuotaGivesRate
<1> QED
    BY <1>1, <1>2, <1>3, <1>4, PTL DEF ThrottleSpec

-----------------------------------------------------------------------------
(* The answer that says when to come back.                                   *)

(* What RetryWorks says of the moment and the tat it is measured against.    *)
LEMMA RetryIsRight ==
    ASSUME NEW x \in Nat, NEW w \in Nat, w = x - Per + Interval
    PROVE  /\ ~Limited(w, x)
           /\ \A t \in 0..(w - Interval - 1) : Limited(t, x)
BY PerBounds, ThrottleConstants DEF Limited

LEMMA RetryStep ==
    ASSUME TypeInv, RetryWorks, [ThrottleNext]_throttleVars
    PROVE  RetryWorks'
<1> /\ now \in Nat /\ tat \in Nat /\ Per \in Nat /\ Per >= Interval /\ Interval \in Nat \ {0}
    BY PerBounds, ThrottleConstants DEF TypeInv, ThrottleTypeOK, Time
<1>1. ASSUME UNCHANGED <<tat, retryAt>>
      PROVE  RetryWorks'
    BY <1>1 DEF RetryWorks, Limited
<1>2. ASSUME NEW h \in Caller, Arrive(h)
      PROVE  RetryWorks'
    <2>1. CASE ~Limited(now, tat)
        BY <1>1, <1>2, <2>1 DEF Arrive
    <2>2. CASE Limited(now, tat) /\ retryAt' # NoTime
        <3>1. retryAt' = RetryAt(now, tat) /\ tat' = tat
            BY <1>2, <2>2 DEF Arrive
        <3>2. NewTat(now, tat) = tat + Interval
            BY <2>2 DEF NewTat, Later, Limited
        <3>3. retryAt' = tat + Interval - Per + Interval
            BY <2>2, <3>1, <3>2, RetryValue
        <3>4. retryAt' \in Nat
            BY <2>2, <3>1, RetryValue
        <3> QED
            BY <2>2, <3>1, <3>3, <3>4 DEF RetryWorks, Limited
    <2> QED
        BY <2>1, <2>2 DEF RetryWorks
<1>3. ASSUME NEW h \in Caller, Insert(h), retryAt' # NoTime
      PROVE  RetryWorks'
    <2>1. at[h] \in Nat /\ read[h] \in Nat
        BY <1>3 DEF TypeInv, ThrottleTypeOK
    <2>2. tat' = NewTat(at[h], read[h]) /\ retryAt' = RetryAt(at[h], read[h])
        BY <1>3 DEF Insert
    <2>3. tat' \in Nat
        BY <2>1, <2>2, NewTatBounds
    <2>4. retryAt' \in Nat /\ retryAt' = tat' - Per + Interval
        BY <1>3, <2>1, <2>2, RetryValue
    <2> QED
        BY <2>3, <2>4, RetryIsRight DEF RetryWorks, Limited
<1>4. ASSUME EvictArrival
      PROVE  RetryWorks'
    BY <1>4 DEF EvictArrival, RetryWorks
<1>5. CASE UNCHANGED throttleVars
    BY <1>1, <1>5 DEF throttleVars, limiter
<1>6. CASE EvictAttempts \/ Tick
    BY <1>1, <1>6 DEF EvictAttempts, Tick, limiter
<1>7. CASE \E h \in Caller : \/ FailElsewhere(h) \/ CheckLock(h) \/ Succeed(h)
                              \/ Fail(h) \/ GetFailures(h) \/ PutFailures(h)
    BY <1>1, <1>7 DEF FailElsewhere, Fail, CheckLock, Succeed, GetFailures, PutFailures, limiter
<1>8. CASE \E h \in Caller : Insert(h)
    BY <1>3, <1>8 DEF RetryWorks
<1> QED
    BY <1>2, <1>4, <1>5, <1>6, <1>7, <1>8 DEF ThrottleNext, Proceed

(* A client that comes back when an answer said so is admitted, and was sent *)
(* away for at most an interval too long, whatever the quota.                *)
THEOREM RetryCorrect == ThrottleSpec => []RetryWorks
<1>1. ThrottleSpec => []TypeInv
    BY ThrottleTypeInductive
<1>2. ThrottleInit => RetryWorks
    BY DEF ThrottleInit, RetryWorks
<1>3. TypeInv /\ RetryWorks /\ [ThrottleNext]_throttleVars => RetryWorks'
    BY RetryStep
<1> QED
    BY <1>1, <1>2, <1>3, PTL DEF ThrottleSpec

-----------------------------------------------------------------------------
(* The guesses behind the lock.                                              *)

(* Past the check, with a password that is not counted yet.                  *)
Past == {h \in Caller : gate[h] \in {"compare", "get", "put"}}

LEMMA PastCount ==
    /\ \A S \in SUBSET Caller :
          IsFiniteSet(S) /\ Cardinality(S) \in Nat /\ Cardinality(S) <= Cardinality(Caller)
    /\ \A S \in SUBSET Caller : \A h \in S :
          Cardinality(S \ {h}) = Cardinality(S) - 1 /\ Cardinality(S) >= 1
    /\ Cardinality(Caller) \in Nat
<1>1. IsFiniteSet(Caller) /\ Cardinality(Caller) \in Nat
    BY FS_CardinalityType, ThrottleConstants
<1>2. ASSUME NEW S \in SUBSET Caller
      PROVE  IsFiniteSet(S) /\ Cardinality(S) \in Nat /\ Cardinality(S) <= Cardinality(Caller)
    BY <1>1, FS_Subset, FS_CardinalityType
<1>3. ASSUME NEW S \in SUBSET Caller, NEW h \in S
      PROVE  Cardinality(S \ {h}) = Cardinality(S) - 1 /\ Cardinality(S) >= 1
    <2>1. IsFiniteSet(S) /\ Cardinality(S) \in Nat /\ Cardinality(S \ {h}) \in Nat
        BY <1>2
    <2>2. Cardinality(S \ {h}) = Cardinality(S) - 1
        BY <2>1, FS_RemoveElement
    <2> QED
        BY <2>1, <2>2
<1> QED
    BY <1>1, <1>2, <1>3

(* The bound, of any window and any handlers.                                *)
Bounded(w, n, S) ==
    /\ n <= w.count
    /\ n + Cardinality(S) <= Threshold - 1 + Cardinality(Caller)

GuessesInv == Running(attempts) /\ ~raced => Bounded(attempts, guessed, Past)

LEMMA GuessesSame ==
    ASSUME GuessesInv, UNCHANGED <<now, lockout>>, Past' = Past
    PROVE  GuessesInv'
BY DEF GuessesInv, lockout, Running, RunningAt

LEMMA GuessesMean == GuessesInv <=> GuessesAreBounded
BY DEF GuessesInv, Bounded, Past, GuessesAreBounded

(* Whoever fails was past the check: what is counted for him is not expected *)
(* of him any longer.                                                        *)
LEMMA GuessesPut ==
    ASSUME TypeInv, GuessesInv, NEW h \in Caller, PutFailures(h)
    PROVE  GuessesInv'
<1> SUFFICES ASSUME ~raced', Running(attempts)'
             PROVE  Bounded(attempts', guessed', Past')
    BY DEF GuessesInv
<1> DEFINE mine == IF gate[h] = "put" THEN 1 ELSE 0
           all == Cardinality(Caller)
           goesOn == RunningAt(attempts, clock[h])
<1>1. /\ attempts' = NextAttempts(attempts, clock[h]) /\ attempts = found[h]
      /\ goesOn => ~raced /\ Running(attempts)
      /\ guessed' = IF goesOn THEN guessed + mine ELSE mine
    <2>1. /\ attempts' = NextAttempts(attempts, clock[h]) /\ attempts = found[h]
          /\ goesOn => ~raced
          /\ guessed' = IF goesOn THEN guessed + mine ELSE mine
          /\ now' = now
        BY DEF PutFailures, TypeInv, ThrottleTypeOK
    <2>2. goesOn => attempts'.started = attempts.started /\ attempts # NoAttempts
        BY <2>1 DEF NextAttempts, RunningAt
    <2> QED
        BY <2>1, <2>2 DEF Running, RunningAt
<1>2. /\ attempts.count \in 0..MaxCount /\ guessed \in Nat /\ mine \in {0, 1}
      /\ Threshold \in Nat \ {0} /\ MaxCount \in Nat \ {0} /\ all \in Nat
      /\ MaxCount >= Threshold - 1 + all /\ all >= 1
    <2>1. all >= 1
        BY PastCount
    <2> QED
        BY <2>1, PastCount, ThrottleConstants DEF TypeInv, ThrottleTypeOK, Attempts
<1>3. Cardinality(Past) \in Nat /\ Cardinality(Past) <= all /\ Cardinality(Past) >= mine
    <2>1. Past \in SUBSET Caller
        BY DEF Past
    <2>2. Cardinality(Past) \in Nat /\ Cardinality(Past) <= all
        BY <2>1, PastCount
    <2>3. CASE gate[h] = "put"
        <3>1. h \in Past
            BY <2>3 DEF Past
        <3> QED
            BY <2>1, <2>2, <2>3, <3>1, PastCount
    <2>4. CASE gate[h] # "put"
        BY <2>2, <2>4
    <2> QED
        BY <2>2, <2>3, <2>4
<1>4. Cardinality(Past') = Cardinality(Past) - mine
    <2>1. Past' = Past \ {h}
        BY DEF PutFailures, Enter, Past, TypeInv, ThrottleTypeOK
    <2>2. CASE gate[h] = "put"
        BY <2>1, <2>2, PastCount DEF Past
    <2>3. CASE gate[h] # "put"
        <3>1. h \notin Past
            BY <2>3 DEF PutFailures, Past
        <3> QED
            BY <1>3, <2>1, <2>3, <3>1
    <2> QED
        BY <2>2, <2>3
<1>5. CASE goesOn
    <2>1. guessed <= attempts.count /\ guessed + Cardinality(Past) <= Threshold - 1 + all
        BY <1>1, <1>5 DEF GuessesInv, Bounded
    <2>2. attempts'.count = Saturated(attempts.count + 1)
        BY <1>1, <1>5 DEF NextAttempts
    <2>3. guessed' = guessed + mine /\ guessed' <= attempts'.count
        BY <1>1, <1>2, <1>3, <1>5, <2>1, <2>2 DEF Saturated
    <2> QED
        BY <1>2, <1>3, <1>4, <2>1, <2>3 DEF Bounded
<1>6. CASE ~goesOn
    <2>1. guessed' = mine /\ attempts'.count = 1
        BY <1>1, <1>6 DEF NextAttempts
    <2> QED
        BY <1>2, <1>3, <1>4, <2>1 DEF Bounded
<1> QED
    BY <1>5, <1>6

LEMMA GuessesCheck ==
    ASSUME TypeInv, GuessesInv, NEW h \in Caller, CheckLock(h)
    PROVE  GuessesInv'
<1>1. UNCHANGED <<now, lockout>>
    BY DEF CheckLock
<1>2. CASE Locked(attempts)
    <2>1. Past' = Past
        BY <1>2 DEF CheckLock, Enter, Past, TypeInv, ThrottleTypeOK
    <2> QED
        BY <1>1, <2>1, GuessesSame
<1>3. CASE ~Locked(attempts) /\ Running(attempts) /\ ~raced
    <2>1. guessed <= attempts.count /\ attempts.count < Threshold
        <3>1. attempts.count \in Nat /\ Threshold \in Nat
            BY ThrottleConstants DEF TypeInv, ThrottleTypeOK, Attempts
        <3> QED
            BY <1>3, <3>1 DEF GuessesInv, Bounded, Locked
    <2>2. Past' \in SUBSET Caller
        BY DEF Past
    <2>3. Cardinality(Past') \in Nat /\ Cardinality(Past') <= Cardinality(Caller)
        BY <2>2, PastCount
    <2>4. /\ guessed \in Nat /\ attempts.count \in Nat
          /\ Threshold \in Nat /\ Cardinality(Caller) \in Nat
        BY PastCount, ThrottleConstants DEF TypeInv, ThrottleTypeOK, Attempts
    <2>5. guessed + Cardinality(Past') <= Threshold - 1 + Cardinality(Caller)
        BY <2>1, <2>3, <2>4
    <2> QED
        BY <1>1, <2>1, <2>5 DEF GuessesInv, lockout, Bounded
<1>4. CASE ~(Running(attempts) /\ ~raced)
    BY <1>1, <1>4 DEF GuessesInv, Running, RunningAt, lockout
<1> QED
    BY <1>2, <1>3, <1>4

LEMMA GuessesStep ==
    ASSUME TypeInv, GuessesInv, [ThrottleNext]_throttleVars
    PROVE  GuessesInv'
<1> USE DEF TypeInv, ThrottleTypeOK
<1>1. ASSUME NEW h \in Caller,
             \/ Arrive(h) \/ Insert(h) \/ Fail(h) \/ FailElsewhere(h) \/ GetFailures(h)
      PROVE  GuessesInv'
    <2>1. Past' = Past
        BY <1>1 DEF Arrive, Insert, Fail, FailElsewhere, GetFailures, Enter, Past
    <2>2. UNCHANGED <<now, attempts, guessed, raced>>
        BY <1>1 DEF Arrive, Insert, Fail, FailElsewhere, GetFailures, lockout
    <2> QED
        BY <2>1, <2>2 DEF GuessesInv, Running, RunningAt, Bounded
<1>2. ASSUME NEW h \in Caller, CheckLock(h)
      PROVE  GuessesInv'
    BY <1>2, GuessesCheck
<1>3. ASSUME NEW h \in Caller, Succeed(h)
      PROVE  GuessesInv'
    <2>1. Past' = Past \ {h} /\ h \in Past
        BY <1>3 DEF Succeed, Enter, Past
    <2>2. Cardinality(Past') = Cardinality(Past) - 1 /\ Cardinality(Past) \in Nat
        BY <2>1, PastCount DEF Past
    <2>3. UNCHANGED <<now, attempts, guessed, raced>>
        BY <1>3 DEF Succeed, lockout
    <2>4. guessed \in Nat /\ Threshold \in Nat /\ Cardinality(Caller) \in Nat
        BY PastCount, ThrottleConstants
    <2>5. guessed + Cardinality(Past) <= Threshold - 1 + Cardinality(Caller)
          => guessed' + Cardinality(Past') <= Threshold - 1 + Cardinality(Caller)
        BY <2>2, <2>3, <2>4
    <2> QED
        BY <2>3, <2>5 DEF GuessesInv, Running, RunningAt, Bounded
<1>4. ASSUME NEW h \in Caller, PutFailures(h)
      PROVE  GuessesInv'
    BY <1>4, GuessesPut
<1>5. ASSUME EvictArrival
      PROVE  GuessesInv'
    <2>1. Past' = Past
        BY <1>5 DEF EvictArrival, Past
    <2> QED
        BY <1>5, <2>1, GuessesSame DEF EvictArrival
<1>6. ASSUME EvictAttempts
      PROVE  GuessesInv'
    BY <1>6 DEF EvictAttempts, GuessesInv, Running, RunningAt
<1>7. ASSUME Tick
      PROVE  GuessesInv'
    <2>1. now \in Nat /\ Window \in Nat /\ attempts.started \in Int
        BY ThrottleConstants DEF Attempts, Time, NoTime
    <2>2. Running(attempts)' => Running(attempts)
        BY <1>7, <2>1 DEF Tick, Running, RunningAt, lockout
    <2> QED
        BY <1>7, <2>2 DEF Tick, GuessesInv, Bounded, Past, lockout
<1>8. CASE UNCHANGED throttleVars
    <2>1. Past' = Past
        BY <1>8 DEF throttleVars, Past
    <2> QED
        BY <1>8, <2>1, GuessesSame DEF throttleVars
<1> QED
    BY <1>1, <1>2, <1>3, <1>4, <1>5, <1>6, <1>7, <1>8 DEF ThrottleNext, Proceed

(* While failures are counted one at a time, no more wrong passwords are     *)
(* compared in a window than the threshold and the requests in flight allow: *)
(* for any threshold, window and number of requests.                         *)
THEOREM GuessesCorrect == ThrottleSpec => []GuessesAreBounded
<1>1. ThrottleSpec => []TypeInv
    BY ThrottleTypeInductive
<1>2. ThrottleInit => GuessesInv
    BY DEF ThrottleInit, GuessesInv, Running, RunningAt
<1>3. TypeInv /\ GuessesInv /\ [ThrottleNext]_throttleVars => GuessesInv'
    BY GuessesStep
<1>4. GuessesInv => GuessesAreBounded
    BY GuessesMean
<1> QED
    BY <1>1, <1>2, <1>3, <1>4, PTL DEF ThrottleSpec

-----------------------------------------------------------------------------
(* The lock.                                                                 *)

LEMMA LockStep ==
    ASSUME TypeInv, ThrottleNext, Locked(attempts), ~Locked(attempts)'
    PROVE  now' >= attempts.started + Window \/ attempts' = NoAttempts \/ raced'
<1> USE DEF TypeInv, ThrottleTypeOK
<1>1. /\ now \in Nat /\ Window \in Nat /\ attempts.started \in Int
      /\ attempts.count \in 0..MaxCount /\ MaxCount \in Nat /\ Threshold \in Nat \ {0}
    BY ThrottleConstants DEF Attempts, Time, NoTime
<1>2. ASSUME UNCHANGED <<now, attempts>>
      PROVE  FALSE
    BY <1>2 DEF Locked, Running, RunningAt
<1>3. ASSUME NEW h \in Caller, PutFailures(h), ~raced'
      PROVE  FALSE
    <2>1. attempts = found[h] /\ attempts' = NextAttempts(attempts, clock[h]) /\ now' = now
        BY <1>3 DEF PutFailures
    <2>2. attempts' = [count |-> Saturated(attempts.count + 1), started |-> attempts.started]
        <3>1. RunningAt(attempts, clock[h])
            <4>1. clock[h] \in Nat /\ clock[h] <= now
                BY <1>1
            <4> QED
                BY <1>1, <4>1 DEF Locked, Running, RunningAt
        <3> QED
            BY <2>1, <3>1 DEF NextAttempts
    <2>3. Saturated(attempts.count + 1) >= Threshold
        <3>1. Cardinality(Caller) \in Nat /\ Cardinality(Caller) >= 1
            BY PastCount
        <3>2. MaxCount >= Threshold
            BY <1>1, <3>1, ThrottleConstants
        <3> QED
            BY <1>1, <3>2 DEF Saturated, Locked
    <2>4. attempts' # NoAttempts
        BY <1>1, <2>2, <2>3, ThrottleConstants DEF NoAttempts
    <2> QED
        BY <2>1, <2>2, <2>3, <2>4 DEF Locked, Running, RunningAt
<1>4. ASSUME EvictAttempts
      PROVE  attempts' = NoAttempts
    BY <1>4 DEF EvictAttempts
<1>5. ASSUME Tick
      PROVE  now' >= attempts.started + Window
    BY <1>1, <1>5 DEF Tick, Locked, Running, RunningAt, lockout
<1>6. CASE EvictArrival
    BY <1>2, <1>6 DEF EvictArrival, lockout
<1>7. CASE \E h \in Caller : \/ Arrive(h) \/ Insert(h) \/ CheckLock(h) \/ Succeed(h)
                              \/ Fail(h) \/ FailElsewhere(h) \/ GetFailures(h)
    BY <1>2, <1>7 DEF Arrive, Insert, CheckLock, Succeed, Fail, FailElsewhere,
                      GetFailures, lockout
<1> QED
    BY <1>3, <1>4, <1>5, <1>6, <1>7 DEF ThrottleNext, Proceed

(* A lock that holds goes on for the window from its first failure, whatever *)
(* fails meanwhile, but for two failures counted at once and an eviction.    *)
THEOREM LockCorrect == ThrottleSpec => LockHolds
<1>1. ThrottleSpec => []TypeInv
    BY ThrottleTypeInductive
<1>2. TypeInv /\ [ThrottleNext]_throttleVars
      => [Locked(attempts) /\ ~Locked(attempts)'
          => now' >= attempts.started + Window \/ attempts' = NoAttempts \/ raced']_throttleVars
    BY LockStep
<1> QED
    BY <1>1, <1>2, PTL DEF ThrottleSpec, LockHolds

(* Everything keeps its type, and no entry is of later.                      *)
THEOREM ThrottleTypeCorrect == ThrottleSpec => []ThrottleTypeOK
<1>1. ThrottleSpec => []TypeInv
    BY ThrottleTypeInductive
<1>2. TypeInv => ThrottleTypeOK
    BY DEF TypeInv
<1> QED
    BY <1>1, <1>2, PTL
=============================================================================
