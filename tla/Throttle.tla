------------------------------ MODULE Throttle ------------------------------
(***************************************************************************)
(* What stands before a password: the GCRA rate limiter of the login route *)
(* and the soft lockout behind it, as one client address meets them.  Both *)
(* keep an entry per address in a cache that may evict it, and both change *)
(* their entry by a get and an insert that other requests come between.    *)
(*                                                                         *)
(* Time is whole units; the half interval the code rounds by is exact when *)
(* Interval is even.  For the limiter a missing entry is one of time 0.    *)
(***************************************************************************)
EXTENDS Integers, FiniteSets, Sequences

CONSTANTS
    Caller,     \* the requests that may be in flight together
    Rate,       \* the quota: this many requests
    Interval,   \* in Rate * Interval units, the layer's per
    Threshold,  \* THRESHOLD of the lockout
    Window,     \* WINDOW of the lockout
    MaxCount,   \* u32::MAX, where its counter stops
    MaxClock    \* bound: the clock stops here

Time == 0..MaxClock
NoTime == -1
Per == Rate * Interval

ASSUME QuotaAssumption == Rate \in Nat \ {0} /\ Interval \in Nat \ {0}
ASSUME LockoutAssumption == /\ Threshold \in Nat \ {0} /\ Window \in Nat \ {0}
                            /\ MaxCount \in Nat \ {0}
ASSUME CallerAssumption ==
    IsFiniteSet(Caller) /\ MaxCount >= Threshold - 1 + Cardinality(Caller)
ASSUME ClockAssumption == MaxClock \in Nat

VARIABLES
    now,       \* the clock
    tat,       \* the theoretical arrival time in the limiter's cache
    attempts,  \* the AttemptWindow in the lockout's table
    gate,      \* where each request is
    at,        \* when its request arrived
    read,      \* the arrival time it found in the cache
    clock,     \* what the clock said when it registered a failure
    found,     \* the AttemptWindow it then found in the table
    admitted,  \* history: when requests were admitted, one after the other
    retryAt,   \* history: when the last answer said to come back
    guessed,   \* history: the wrong passwords in this AttemptWindow
    raced      \* history: whether two failures of it were counted at once

limiter == <<tat, at, read, admitted, retryAt>>
lockout == <<attempts, clock, found, guessed, raced>>
throttleVars == <<now, gate, limiter, lockout>>

-----------------------------------------------------------------------------
(* RateLimitLayer::process. *)
Later(t, u) == IF t > u THEN t ELSE u

NewTatFromNow(t, x) == t + Interval  \* mutant: tat.max(now) is now
NewTat(t, x) == Later(x, t) + Interval

LimitedLate(t, x) == t < x - Per  \* mutant: the tolerance is per, not tau
Limited(t, x) == t < x - (Per - Interval)

(* diff, rounded to the nearest number of intervals, and no less than none. *)
Spare(t, x) == t - (NewTat(t, x) - Per)
Remaining(t, x) == Later((2 * Spare(t, x) + Interval) \div (2 * Interval), 0)

RetryAtOnce(t, x) == IF Remaining(t, x) < 1 THEN t - Spare(t, x) ELSE NoTime  \* mutant: without an interval
RetryAt(t, x) == IF Remaining(t, x) < 1 THEN t + Interval - Spare(t, x) ELSE NoTime

Enter(h, place) == gate' = [gate EXCEPT ![h] = place]

(* A request for the login route reads the clock and the cache.  A limited  *)
(* one is answered at once, and changes nothing.                            *)
Arrive(h) ==
    /\ gate[h] = "idle"
    /\ IF Limited(now, tat)
       THEN retryAt' = RetryAt(now, tat) /\ UNCHANGED <<gate, at, read>>
       ELSE /\ Enter(h, "insert")
            /\ at' = [at EXCEPT ![h] = now]
            /\ read' = [read EXCEPT ![h] = tat]
            /\ UNCHANGED retryAt
    /\ UNCHANGED <<now, tat, admitted, lockout>>

(* It stores its arrival time and passes on.  The history of admissions     *)
(* starts anew when it overwrites what somebody stored meanwhile.           *)
Insert(h) ==
    /\ gate[h] = "insert"
    /\ tat' = NewTat(at[h], read[h])
    /\ retryAt' = RetryAt(at[h], read[h])
    /\ admitted' = IF tat = read[h] THEN Append(admitted, at[h]) ELSE <<>>
    /\ at' = [at EXCEPT ![h] = 0]
    /\ read' = [read EXCEPT ![h] = 0]
    /\ Enter(h, "check")
    /\ UNCHANGED <<now, lockout>>

EvictArrival ==
    /\ tat # 0
    /\ tat' = 0 /\ admitted' = <<>> /\ retryAt' = NoTime
    /\ UNCHANGED <<now, gate, at, read, lockout>>

-----------------------------------------------------------------------------
(* The lockout. *)
NoAttempts == [count |-> 0, started |-> NoTime]
RunningAt(w, t) == w # NoAttempts /\ t - w.started < Window
Running(w) == RunningAt(w, now)

LockedLate(w) == Running(w) /\ w.count > Threshold  \* mutant: one more than THRESHOLD
Locked(w) == Running(w) /\ w.count >= Threshold

Saturated(n) == IF n > MaxCount THEN MaxCount ELSE n

NextAttemptsFresh(w, t) ==  \* mutant: a lock that is met starts anew
    [count |-> IF RunningAt(w, t) /\ ~Locked(w) THEN Saturated(w.count + 1) ELSE 1,
     started |-> IF RunningAt(w, t) /\ ~Locked(w) THEN w.started ELSE t]
NextAttempts(w, t) ==
    [count |-> IF RunningAt(w, t) THEN Saturated(w.count + 1) ELSE 1,
     started |-> IF RunningAt(w, t) THEN w.started ELSE t]

(* authenticate asks before it loads the account and compares hashes. *)
CheckLock(h) ==
    /\ gate[h] = "check"
    /\ Enter(h, IF Locked(attempts) THEN "idle" ELSE "compare")
    /\ UNCHANGED <<now, limiter, lockout>>

Succeed(h) ==
    /\ gate[h] = "compare"
    /\ Enter(h, "idle")
    /\ UNCHANGED <<now, limiter, lockout>>

(* register_failure: it reads the clock, then the table, and what the two   *)
(* were decides what it inserts.                                            *)
Fail(h) ==
    /\ gate[h] = "compare"
    /\ clock' = [clock EXCEPT ![h] = now]
    /\ Enter(h, "get")
    /\ UNCHANGED <<now, limiter, attempts, found, guessed, raced>>

(* The second factor, the username and the deletion form register failures  *)
(* too.  They do not ask about the lock first, and have limits of their own *)
(* that are not modelled.                                                   *)
FailElsewhere(h) ==
    /\ gate[h] = "idle"
    /\ clock' = [clock EXCEPT ![h] = now]
    /\ Enter(h, "get_elsewhere")
    /\ UNCHANGED <<now, limiter, attempts, found, guessed, raced>>

GetFailures(h) ==
    /\ gate[h] \in {"get", "get_elsewhere"}
    /\ found' = [found EXCEPT ![h] = attempts]
    /\ Enter(h, IF gate[h] = "get" THEN "put" ELSE "put_elsewhere")
    /\ UNCHANGED <<now, limiter, attempts, clock, guessed, raced>>

PutFailures(h) ==
    LET mine == IF gate[h] = "put" THEN 1 ELSE 0
        goesOn == RunningAt(found[h], clock[h])
    IN  /\ gate[h] \in {"put", "put_elsewhere"}
        /\ attempts' = NextAttempts(found[h], clock[h])
        /\ raced' = (attempts # found[h] \/ (raced /\ goesOn))
        /\ guessed' = IF raced' THEN 0 ELSE IF goesOn THEN guessed + mine ELSE mine
        /\ clock' = [clock EXCEPT ![h] = 0]
        /\ found' = [found EXCEPT ![h] = NoAttempts]
        /\ Enter(h, "idle")
        /\ UNCHANGED <<now, limiter>>

EvictAttempts ==
    /\ attempts # NoAttempts
    /\ attempts' = NoAttempts /\ guessed' = 0 /\ raced' = FALSE
    /\ UNCHANGED <<now, gate, limiter, clock, found>>

Tick ==
    /\ now < MaxClock
    /\ now' = now + 1
    /\ UNCHANGED <<gate, limiter, lockout>>

-----------------------------------------------------------------------------
ThrottleInit ==
    /\ now = 0 /\ tat = 0 /\ attempts = NoAttempts
    /\ gate = [h \in Caller |-> "idle"]
    /\ at = [h \in Caller |-> 0] /\ read = [h \in Caller |-> 0]
    /\ clock = [h \in Caller |-> 0] /\ found = [h \in Caller |-> NoAttempts]
    /\ admitted = <<>> /\ retryAt = NoTime /\ guessed = 0 /\ raced = FALSE

Proceed(h) ==
    \/ Insert(h) \/ CheckLock(h) \/ Succeed(h)
    \/ Fail(h) \/ GetFailures(h) \/ PutFailures(h)

ThrottleNext ==
    \/ \E h \in Caller : Arrive(h) \/ FailElsewhere(h) \/ Proceed(h)
    \/ EvictArrival \/ EvictAttempts \/ Tick

ThrottleSpec == ThrottleInit /\ [][ThrottleNext]_throttleVars

-----------------------------------------------------------------------------
Gate == {"idle", "insert", "check", "compare", "get", "put", "get_elsewhere", "put_elsewhere"}
Attempts == [count : 0..MaxCount, started : Time \cup {NoTime}]

(* Every variable holds a value of its kind, and no entry is of later.      *)
ThrottleTypeOK ==
    /\ now \in Time
    /\ tat \in 0..(now + Per)
    /\ attempts \in Attempts /\ attempts.started <= now
    /\ gate \in [Caller -> Gate]
    /\ at \in [Caller -> 0..now]
    /\ read \in [Caller -> 0..(now + Per)]
    /\ clock \in [Caller -> 0..now]
    /\ found \in [Caller -> Attempts]
    /\ admitted \in Seq(Time)
    /\ retryAt \in Nat \cup {NoTime}
    /\ guessed \in Nat /\ raced \in BOOLEAN

(* No client gets more than its quota, and one request more for every       *)
(* interval it waits: between requests that did not overlap, and while its  *)
(* entry is not evicted.                                                    *)
RateHolds ==
    \A j, k \in 1..Len(admitted) :
        j <= k => k - j + 1 <= Rate + (admitted[k] - admitted[j]) \div Interval

(* Who comes back when an answer said so, and nobody else came, is admitted:*)
(* ratelimit.rs:194 "a client that honours it never retries too early"; and *)
(* has waited at most an interval longer than needed.                       *)
RetryWorks ==
    retryAt # NoTime => /\ ~Limited(retryAt, tat)
                        /\ \A t \in 0..(retryAt - Interval - 1) : Limited(t, tat)

(* While failures are counted one at a time, an address has no more wrong   *)
(* passwords compared in a window than the threshold, and as many as were   *)
(* past the check when it was reached.                                      *)
GuessesAreBounded ==
    Running(attempts) /\ ~raced
    => /\ guessed <= attempts.count
       /\ guessed + Cardinality({h \in Caller : gate[h] \in {"compare", "get", "put"}})
            <= Threshold - 1 + Cardinality(Caller)

(* A lock that holds goes on for WINDOW from its first failure, whatever    *)
(* fails meanwhile: lockout.rs:27; but for two failures counted at once.    *)
LockHolds ==
    [][Locked(attempts) /\ ~Locked(attempts)'
       => now' >= attempts.started + Window \/ attempts' = NoAttempts \/ raced']_throttleVars
=============================================================================
