---------------------------- MODULE TimedTaskProofs ----------------------------
(***************************************************************************)
(* Theorems about TimedTask, for any length of a second, policy, lease,    *)
(* files, limits and number of workers: what the order of texts may cost,  *)
(* which files pass, and that a summary is whole.                          *)
(***************************************************************************)
EXTENDS TimedTask, FiniteSetTheorems, TLAPS

-------------------------------------------------------------------------------
\* Lemmas about Deadlines.

LEMMA SecondType == Second \in Nat \ {0}
BY DeadlinesAssumption

LEMMA DivideBySecond ==
  \A t \in Int : /\ t \div Second \in Int /\ t % Second \in 0 .. Second - 1
                 /\ t = Second * (t \div Second) + (t % Second)
BY SecondType

LEMMA DivideByHundred ==
  \A x \in Int : x \div 100 \in Int /\ 100 * (x \div 100) <= x
                 /\ x < 100 * (x \div 100) + 100
OBVIOUS

\* A text that is not after another is of a time at most a second after it.
LEMMA TextOrder ==
  ASSUME NEW a \in Int, NEW b \in Int, NotAfter(a, b) PROVE a < b + Second
<1>1. FormatTime(a).seconds = a \div Second /\ FormatTime(b).seconds = b \div Second
  BY DEF FormatTime
<1>2. a \div Second <= b \div Second
  BY <1>1, DivideBySecond DEF NotAfter, Before, TextLess
<1>3. Second * (a \div Second) <= Second * (b \div Second)
  BY <1>2, SecondType, DivideBySecond
<1> DEFINE x == Second * (a \div Second)
           y == Second * (b \div Second)
<1>4. /\ x \in Int /\ y \in Int /\ Second \in Int /\ x <= y
      /\ a % Second \in 0 .. Second - 1 /\ b % Second \in 0 .. Second - 1
      /\ a = x + (a % Second) /\ b = y + (b % Second)
  BY <1>3, SecondType, DivideBySecond
<1> HIDE DEF x, y
<1> QED BY <1>4

\* The wait the docs speak of is that of the code, before the jitter.
LEMMA DocumentedIs ==
  ASSUME NEW n \in Nat \ {0}
  PROVE  /\ Documented(n) = (IF Doubled(n) > RetryMax THEN RetryMax ELSE Doubled(n)) * Second
         /\ Documented(n) \in Int
<1>1. Doubled(n) \in Int
  BY DEF Doubled
<1>2. RetryMax \in Nat /\ Second \in Nat
  BY DeadlinesAssumption
<1> DEFINE x == Doubled(n) * Second
           y == RetryMax * Second
           w == (IF Doubled(n) > RetryMax THEN RetryMax ELSE Doubled(n)) * Second
<1>3. x \in Int /\ y \in Int
  BY <1>1, <1>2
<1>4. w \in {x, y} /\ w <= x /\ w <= y
  BY <1>1, <1>2, <1>3
<1> HIDE DEF x, y, w
<1>5. \A v \in {x, y} : v <= x /\ v <= y => v = w
  BY <1>3, <1>4
<1>6. Documented(n) = w
  BY <1>4, <1>5 DEF Documented, x, y
<1> QED BY <1>3, <1>4, <1>6 DEF w

\* The delays lie in the window of the docs.
LEMMA DelayWindow ==
  ASSUME NEW n \in Nat \ {0}, NEW d \in Delay(n)
  PROVE  /\ d \in Int
         /\ 100 * d > (100 - Jitter) * Documented(n) - 100
         /\ 100 * d <= (100 + Jitter) * Documented(n)
<1> DEFINE w == Documented(n)
           lo == w * (100 - Jitter)
           hi == w * (100 + Jitter)
<1>1. w \in Int /\ Jitter \in Int
  BY DocumentedIs, DeadlinesAssumption
<1>2. lo \in Int /\ hi \in Int
  BY <1>1
<1>3. d \in (lo \div 100) .. (hi \div 100)
  BY DocumentedIs DEF Delay, Spread
<1>4. (100 - Jitter) * Documented(n) = lo /\ (100 + Jitter) * Documented(n) = hi
  BY <1>1
<1> HIDE DEF lo, hi
<1>5. d \in Int /\ 100 * d > lo - 100 /\ 100 * d <= hi
  BY <1>2, <1>3, DivideByHundred
<1> QED BY <1>4, <1>5

-------------------------------------------------------------------------------
\* t lies past the shortest backoff of the n-th failure.
Past(t, n) == 100 * (t - failedAt) > (100 - Jitter) * Documented(n) - 100

\* Whoever may still run has an attempt left.
AttemptsLeft == /\ row.status \in {"PENDING", "PROCESSING"} => row.attempts < MaxAttempts
                /\ \A copy \in copies : copy.attempts < MaxAttempts

Types == TypeOK /\ AttemptsLeft

LEMMA LimitType == /\ MaxAttempts \in Nat \ {0}
                   /\ \A x : x = 0 => x \in 0 .. MaxAttempts /\ x < MaxAttempts
<1>1. /\ MaxAttempts \in Nat \ {0} /\ 0 \in 0 .. MaxAttempts
      /\ 0 < MaxAttempts
  BY ConfigAssumption DEF Configured
<1> QED BY <1>1, Zenon

\* A copy whose version is the row's is the row; the fence rests on it.
CopiesFenced == \A copy \in copies :
  /\ copy.version <= row.version
  /\ row.status = "PROCESSING" /\ copy.version = row.version => copy = row

\* While it runs a row has the lease of its claim, and its backoff is behind it.
ClaimTimes == row.status = "PROCESSING" =>
  /\ row.lease = claimedAt + Lease
  /\ row.attempts > 0 => Past(now + Second, row.attempts)

\* While it waits, its time is past the backoff, or the clock is.
WaitTimes == row.status = "PENDING" /\ row.attempts > 0 =>
  Past(row.next, row.attempts) \/ Past(now + Second, row.attempts)

IInv == Types /\ CopiesFenced /\ ClaimTimes /\ WaitTimes /\ BackoffBounded

LEMMA NoLeaseType == NoLease \in Int
BY DEF NoLease

LEMMA NoneIsNotMore == \A x : x = 0 => x \in Nat /\ ~(x > 0)
<1>1. 0 \in Nat /\ ~(0 > 0)
  OBVIOUS
<1> QED BY <1>1, Zenon

LEMMA PastLater ==
  ASSUME Types, NEW n \in Nat \ {0}, NEW s \in Int, NEW t \in Int, s <= t,
         Past(s, n)
  PROVE  Past(t, n)
<1> DEFINE bound == (100 - Jitter) * Documented(n) - 100
<1>1. bound \in Int
  BY DocumentedIs, DeadlinesAssumption
<1>2. 100 * (s - failedAt) > bound
  BY DEF Past
<1> HIDE DEF bound
<1>3. 100 * (t - failedAt) > bound
  BY <1>1, <1>2 DEF Types, TypeOK
<1> QED BY <1>3 DEF Past, bound

-------------------------------------------------------------------------------
\* The steps.

LEMMA ClaimKeeps == IInv /\ Claim => IInv'
<1> SUFFICES ASSUME IInv, Claim PROVE IInv'
  OBVIOUS
<1> USE DEF IInv
<1>1. /\ row.status = "PENDING" /\ now \in Nat /\ Lease \in Nat /\ Timed(row)
      /\ row.next < now + Second /\ row.attempts < MaxAttempts
  BY TextOrder, ConfigAssumption DEF Claim, Types, TypeOK, AttemptsLeft, Timed, Configured
<1>2. /\ row'.status = "PROCESSING" /\ row'.lease = now + Lease
      /\ row'.version = row.version + 1 /\ row'.attempts = row.attempts
      /\ row'.next = row.next /\ row'.stage = row.stage
      /\ Timed(row')
      /\ copies' = copies \cup {row'} /\ claimedAt' = now
      /\ now' = now /\ failedAt' = failedAt
  BY <1>1 DEF Claim, Timed
<1>3. Types'
  <2>1. TypeOK'
    BY <1>1, <1>2 DEF Types, TypeOK, Timed
  <2>2. AttemptsLeft'
    BY <1>1, <1>2 DEF Types, AttemptsLeft
  <2> QED BY <2>1, <2>2 DEF Types
<1>4. CopiesFenced'
  BY <1>1, <1>2 DEF CopiesFenced, Types, TypeOK, AttemptsLeft, Timed
<1>5. ClaimTimes'
  <2>1. ASSUME row.attempts > 0 PROVE Past(now + Second, row.attempts)
    <3>1. /\ row.attempts \in Nat \ {0} /\ now + Second \in Int
          /\ row.next \in Int /\ row.next <= now + Second
      BY <1>1, <2>1, SecondType DEF Timed
    <3> QED BY <1>1, <2>1, <3>1, PastLater DEF WaitTimes
  <2> QED BY <1>2, <2>1 DEF ClaimTimes, Past
<1>6. WaitTimes' /\ BackoffBounded'
  BY <1>2 DEF WaitTimes, BackoffBounded
<1> QED BY <1>3, <1>4, <1>5, <1>6

LEMMA ReclaimKeeps == IInv /\ ReclaimExpired => IInv'
<1> SUFFICES ASSUME IInv, ReclaimExpired PROVE IInv'
  OBVIOUS
<1> USE DEF IInv
<1>1. row.status = "PROCESSING" /\ now \in Nat /\ Timed(row)
  BY DEF ReclaimExpired, Types, TypeOK
<1>2. /\ row'.status = "PENDING" /\ row'.code = "" /\ row'.next = now
      /\ row'.version = row.version + 1 /\ row'.attempts = row.attempts
      /\ Timed(row')
      /\ UNCHANGED <<now, copies, failedAt, claimedAt>>
  BY <1>1, NoLeaseType DEF ReclaimExpired, Timed
<1>3. Types'
  <2>1. TypeOK'
    BY <1>1, <1>2 DEF Types, TypeOK, Timed
  <2>2. AttemptsLeft'
    BY <1>1, <1>2 DEF Types, AttemptsLeft
  <2> QED BY <2>1, <2>2 DEF Types
<1>4. CopiesFenced'
  <2>1. \A copy \in copies : copy.version \in Nat /\ copy.version <= row.version
    BY DEF CopiesFenced, Types, TypeOK, AttemptsLeft, Timed
  <2>2. row.version \in Nat
    BY <1>1 DEF Timed
  <2>3. copies' = copies /\ row'.status # "PROCESSING" /\ row'.version = row.version + 1
    BY <1>2
  <2>4. \A copy \in copies : copy.version <= row'.version
    BY <2>1, <2>2, <2>3
  <2> QED BY <2>3, <2>4 DEF CopiesFenced
<1>5. WaitTimes'
  BY <1>1, <1>2 DEF WaitTimes, ClaimTimes, Past
<1>6. ClaimTimes' /\ BackoffBounded'
  BY <1>2 DEF ClaimTimes, BackoffBounded
<1> QED BY <1>3, <1>4, <1>5, <1>6

\* A write that takes effect, of a row that no longer runs.
LEMMA WriteKeeps ==
  ASSUME IInv, NEW copy \in copies, NEW new, Timed(new),
         new.status # "PROCESSING", Write(copy, new),
         copies' = copies \ {copy}, UNCHANGED <<now, claimedAt>>,
         row' = row => UNCHANGED failedAt
  PROVE  /\ Timed(row') /\ CopiesFenced' /\ ClaimTimes'
         /\ \/ row' = row
            \/ /\ row' # row /\ copy = row
               /\ row'.status = new.status /\ row'.stage = new.stage
               /\ row'.attempts = new.attempts
               /\ row'.next = new.next /\ row'.code = new.code
<1> USE DEF IInv
<1> DEFINE r == [new EXCEPT !.lease = NoLease, !.version = row.version + 1]
<1>1. row.version \in Nat /\ Timed(row)
  BY DEF Types, TypeOK, AttemptsLeft, Timed
<1>2. /\ r.status = new.status /\ r.stage = new.stage /\ r.attempts = new.attempts
      /\ r.next = new.next /\ r.code = new.code /\ r.version = row.version + 1
      /\ Timed(r)
  BY <1>1, NoLeaseType DEF Timed
<1> HIDE DEF r
<1>3. CASE row.status = "PROCESSING" /\ row.version = copy.version
  <2>1. row' = r /\ copy = row
    BY <1>3 DEF Write, CopiesFenced, r
  <2>2. CopiesFenced'
    BY <1>1, <1>2, <2>1 DEF CopiesFenced, Types, TypeOK, AttemptsLeft, Timed
  <2>3. r # row
    BY <1>1, <1>2
  <2> QED BY <1>2, <2>1, <2>2, <2>3 DEF ClaimTimes, Timed
<1>4. CASE ~(row.status = "PROCESSING" /\ row.version = copy.version)
  <2>1. row' = row
    BY <1>4 DEF Write
  <2> QED BY <1>1, <2>1 DEF CopiesFenced, ClaimTimes, Timed, Past
<1> QED BY <1>3, <1>4

LEMMA CompleteKeeps ==
  ASSUME IInv, NEW copy \in copies, NEW summary, Complete(copy, summary),
         copies' = copies \ {copy}, UNCHANGED <<now, claimedAt>>
  PROVE  IInv' /\ ~TakenBack
<1> USE DEF IInv
<1> DEFINE new == IF copy.stage = "DONE"
                  THEN [copy EXCEPT !.status = "SUCCEEDED", !.attempts = 0]
                  ELSE [copy EXCEPT !.status = "PENDING", !.stage = NextStage[@],
                                    !.attempts = 0, !.code = "",
                                    !.summary = summary, !.next = now]
<1>1. Timed(copy) /\ now \in Nat
  BY DEF Types, TypeOK
<1>4. 0 \in 0 .. MaxAttempts /\ 0 < MaxAttempts
  BY LimitType
<1>2. CASE copy.stage = "DONE"
  <2>1. /\ Timed(new) /\ new.status = "SUCCEEDED"
    BY <1>1, <1>2, <1>4 DEF Timed
  <2>2. Write(copy, new) /\ failedAt' = failedAt
    BY DEF Complete
  <2> HIDE DEF new
  <2>3. /\ Timed(row') /\ CopiesFenced' /\ ClaimTimes'
        /\ row' = row \/ row'.status = "SUCCEEDED"
    BY <2>1, <2>2, WriteKeeps
  <2>4. Types'
    BY <2>2, <2>3 DEF Types, TypeOK, AttemptsLeft, Timed
  <2>5. WaitTimes' /\ BackoffBounded' /\ ~TakenBack
    BY <2>2, <2>3 DEF WaitTimes, BackoffBounded, Past, TakenBack
  <2> QED BY <2>3, <2>4, <2>5
<1>3. CASE copy.stage # "DONE"
  <2>1. /\ Timed(new) /\ new.status = "PENDING" /\ new.attempts = 0
        /\ new.code = "" /\ new.stage # copy.stage
    BY <1>1, <1>3, <1>4 DEF Timed, NextStage
  <2>2. Write(copy, new) /\ failedAt' = failedAt
    BY DEF Complete
  <2> HIDE DEF new
  <2>3. /\ Timed(row') /\ CopiesFenced' /\ ClaimTimes'
        /\ \/ row' = row
           \/ /\ copy = row /\ row'.attempts = 0 /\ row'.code = ""
              /\ row'.stage # row.stage
    BY <2>1, <2>2, WriteKeeps
  <2>4. Types'
    <3>1. TypeOK'
      BY <2>2, <2>3 DEF Types, TypeOK
    <3>2. AttemptsLeft'
      BY <1>4, <2>3 DEF Types, AttemptsLeft
    <3> QED BY <3>1, <3>2 DEF Types
  <2>5. ASSUME row' = row PROVE WaitTimes' /\ BackoffBounded' /\ ~TakenBack
    BY <2>2, <2>5 DEF WaitTimes, BackoffBounded, Past, TakenBack
  <2>6. ASSUME row' # row PROVE WaitTimes' /\ BackoffBounded' /\ ~TakenBack
    <3>1. row'.attempts = 0 /\ row'.code = "" /\ row'.stage # row.stage
      BY <2>3, <2>6
    <3>2. ~(row'.attempts > 0)
      BY <3>1, NoneIsNotMore, Zenon
    <3>4. WaitTimes'
      BY <3>2, Zenon DEF WaitTimes
    <3>3. BackoffBounded' /\ ~TakenBack
      BY <3>1 DEF BackoffBounded, TakenBack
    <3> QED BY <3>3, <3>4
  <2> QED BY <2>3, <2>4, <2>5, <2>6
<1> QED BY <1>2, <1>3

LEMMA FailKeeps ==
  ASSUME IInv, NEW copy \in copies, NEW code, FailStage(copy, code),
         copies' = copies \ {copy}, UNCHANGED <<now, claimedAt>>
  PROVE  IInv' /\ ~TakenBack
<1> USE DEF IInv
<1> DEFINE n == copy.attempts + 1
           end == n >= MaxAttempts
           New(d) == [copy EXCEPT !.status = IF end THEN "FAILED" ELSE "PENDING",
                                  !.attempts = n, !.code = code,
                                  !.next = IF end THEN now ELSE now + d]
<1>1. Timed(copy) /\ now \in Nat /\ n \in Nat \ {0}
  BY DEF Types, TypeOK, AttemptsLeft, Timed
<1>2. PICK d \in Delay(n) : Write(copy, New(d))
  BY DEF FailStage
<1>3. failedAt' = IF row' = row THEN failedAt ELSE now
  BY DEF FailStage
<1>4. /\ d \in Int
      /\ 100 * d > (100 - Jitter) * Documented(n) - 100
      /\ 100 * d <= (100 + Jitter) * Documented(n)
  BY <1>1, DelayWindow
<1>10. n \in 0 .. MaxAttempts /\ (~end => n < MaxAttempts)
  BY <1>1, LimitType DEF Types, AttemptsLeft, Timed
<1>5. /\ Timed(New(d)) /\ New(d).status # "PROCESSING" /\ New(d).attempts = n
      /\ New(d).status = "PENDING" => New(d).next = now + d /\ n < MaxAttempts
  BY <1>1, <1>4, <1>10 DEF Timed
<1> HIDE DEF New
<1>6. /\ Timed(row') /\ CopiesFenced' /\ ClaimTimes'
      /\ \/ row' = row
         \/ /\ row' # row /\ copy = row /\ row'.attempts = n
            /\ row'.status = "PENDING" => row'.next = now + d /\ n < MaxAttempts
            /\ row'.status # "PROCESSING"
  BY <1>2, <1>3, <1>5, WriteKeeps
<1>7. Types'
  <2>1. TypeOK'
    BY <1>1, <1>3, <1>6 DEF Types, TypeOK
  <2>2. AttemptsLeft'
    BY <1>6 DEF Types, AttemptsLeft
  <2> QED BY <2>1, <2>2 DEF Types
<1>8. CASE row' = row
  <2>1. failedAt' = failedAt /\ now' = now
    BY <1>3, <1>8
  <2>2. WaitTimes' /\ BackoffBounded' /\ ~TakenBack
    BY <1>8, <2>1 DEF WaitTimes, BackoffBounded, Past, TakenBack
  <2> QED BY <1>6, <1>7, <2>2
<1>9. CASE row' # row
  <2>1. failedAt' = now /\ copy = row /\ row'.attempts = n
    BY <1>3, <1>6, <1>9
  <2>2. n # row.attempts
    BY <1>1, <2>1 DEF Timed
  <2>3. row'.status = "PENDING" => row'.next - failedAt' = d
    BY <1>1, <1>4, <1>6, <1>9, <2>1
  <2> HIDE DEF n
  <2>4. WaitTimes'
    BY <1>4, <2>1, <2>3 DEF WaitTimes, Past
  <2>5. BackoffBounded'
    BY <1>4, <2>1, <2>3 DEF BackoffBounded
  <2> QED BY <1>6, <1>7, <2>1, <2>2, <2>4, <2>5 DEF TakenBack
<1> QED BY <1>6, <1>7, <1>8, <1>9

LEMMA ProcessKeeps ==
  ASSUME IInv, NEW copy \in copies, Process(copy) PROVE IInv' /\ ~TakenBack
<1>1. copies' = copies \ {copy} /\ UNCHANGED <<now, claimedAt>>
  BY DEF Process
<1>2. copy.stage \in {"VALIDATE", "EXTRACT", "SCAN", "DONE"}
  BY DEF IInv, Types, TypeOK, AttemptsLeft, Timed
<1>3. (\E summary : Complete(copy, summary)) \/ (\E code : FailStage(copy, code))
  <2>1. CASE copy.stage = "VALIDATE"
    BY <2>1 DEF Process
  <2>2. CASE copy.stage = "EXTRACT"
    BY <2>2 DEF Process
  <2>3. CASE copy.stage = "SCAN"
    BY <2>3 DEF Process
  <2>4. CASE copy.stage = "DONE"
    BY <2>4 DEF Process
  <2> QED BY <1>2, <2>1, <2>2, <2>3, <2>4
<1> QED BY <1>1, <1>3, CompleteKeeps, FailKeeps

LEMMA TickKeeps == IInv /\ Tick => IInv'
<1> SUFFICES ASSUME IInv, Tick PROVE IInv'
  OBVIOUS
<1> USE DEF IInv
<1>1. /\ now \in Nat /\ now' = now + 1
      /\ UNCHANGED <<row, copies, failedAt, claimedAt>>
  BY DEF Tick, Types, TypeOK
<1>2. Types'
  BY <1>1 DEF Types, TypeOK, AttemptsLeft, Timed
<1>5. CopiesFenced' /\ BackoffBounded'
  BY <1>1 DEF CopiesFenced, BackoffBounded
<1>3. ASSUME row.attempts > 0, Past(now + Second, row.attempts)
      PROVE  Past(now' + Second, row.attempts)
  <2>1. /\ row.attempts \in Nat \ {0} /\ now + Second \in Int
        /\ now' + Second \in Int /\ now + Second <= now' + Second
    BY <1>1, <1>3, SecondType DEF Types, TypeOK, AttemptsLeft, Timed
  <2> QED BY <1>3, <2>1, PastLater
<1>4. ClaimTimes' /\ WaitTimes'
  BY <1>1, <1>3 DEF ClaimTimes, WaitTimes, Past
<1> QED BY <1>2, <1>4, <1>5

\* A step that changes neither the row nor the times, and adds no copy.
LEMMA IdleKeeps ==
  ASSUME IInv, UNCHANGED <<now, row, failedAt, claimedAt>>, copies' \subseteq copies
  PROVE  IInv'
BY DEF IInv, Types, TypeOK, AttemptsLeft, Timed, CopiesFenced, ClaimTimes, WaitTimes, BackoffBounded, Past

LEMMA InitIsInductive == Init => IInv
<1> SUFFICES ASSUME Init PROVE IInv
  OBVIOUS
<1>0. now \in 0 .. Second - 1 /\ copies = {} /\ failedAt = 0 /\ claimedAt = 0
  BY Zenon DEF Init
<1>1. row = [status |-> "PENDING", stage |-> "VALIDATE", attempts |-> 0,
             code |-> "", summary |-> <<>>, lease |-> NoLease, next |-> now,
             version |-> 0]
  BY Zenon DEF Init
<1>2. now \in Nat
  BY <1>0, SecondType
<1>3. /\ row.status = "PENDING" /\ row.stage = "VALIDATE" /\ row.attempts = 0
      /\ row.code = "" /\ row.lease = NoLease /\ row.next = now /\ row.version = 0
      /\ DOMAIN row = {"status", "stage", "attempts", "code", "summary",
                       "lease", "next", "version"}
  BY <1>1
<1>4. Timed(row)
  <2>1. row.attempts \in 0 .. MaxAttempts /\ row.version \in Nat
    BY <1>3, NoneIsNotMore, LimitType, Zenon
  <2>4. now \in Int
    BY <1>2
  <2>2. row.lease \in Int /\ row.next \in Int
    BY <1>3, <2>4, NoLeaseType, Zenon
  <2>3. /\ row.status \in {"PENDING", "PROCESSING", "SUCCEEDED", "FAILED"}
        /\ row.stage \in {"VALIDATE", "EXTRACT", "SCAN", "DONE"}
    BY <1>3
  <2> QED BY <1>3, <2>1, <2>2, <2>3, Zenon DEF Timed
<1>5. Types /\ CopiesFenced
  <2>1. failedAt \in Nat /\ claimedAt \in Nat
    BY <1>0
  <2>2. row.attempts < MaxAttempts
    BY <1>3, LimitType, Zenon
  <2> QED BY <1>0, <1>2, <1>4, <2>1, <2>2, Zenon
          DEF Types, TypeOK, AttemptsLeft, CopiesFenced
<1>6. ~(row.attempts > 0)
  BY <1>3, NoneIsNotMore, Zenon
<1>7. WaitTimes
  BY <1>6, Zenon DEF WaitTimes
<1>8. ClaimTimes /\ BackoffBounded
  BY <1>3 DEF ClaimTimes, BackoffBounded
<1> QED BY <1>5, <1>7, <1>8 DEF IInv

LEMMA StepKeeps == IInv /\ [Next]_vars => IInv'
<1> SUFFICES ASSUME IInv, [Next]_vars PROVE IInv'
  OBVIOUS
<1>1. CASE Claim
  BY <1>1, ClaimKeeps
<1>2. CASE ReclaimExpired
  BY <1>2, ReclaimKeeps
<1>3. CASE Crash
  BY <1>3, IdleKeeps DEF Crash
<1>4. CASE Tick
  BY <1>4, TickKeeps
<1>5. CASE Damage
  BY <1>5, IdleKeeps DEF Damage
<1>6. ASSUME NEW copy \in copies, Process(copy) PROVE IInv'
  BY <1>6, ProcessKeeps
<1>7. CASE UNCHANGED vars
  BY <1>7, IdleKeeps DEF vars
<1> QED BY <1>1, <1>2, <1>3, <1>4, <1>5, <1>6, <1>7 DEF Next

\* The invariant of the times of a task, inductive.
THEOREM TimesInvariant == Spec => []IInv
<1> QED BY InitIsInductive, StepKeeps, PTL DEF Spec

\* The clock, the row and the copies keep their types, whatever a file holds.
THEOREM TimedTypes == Spec => []TypeOK
<1>1. IInv => TypeOK
  BY DEF IInv, Types
<1> QED BY <1>1, TimesInvariant, PTL

\* No wait is longer than the backoff the docs give, and its jitter.
THEOREM BackoffsAreBounded == Spec => []BackoffBounded
<1>1. IInv => BackoffBounded
  BY DEF IInv
<1> QED BY <1>1, TimesInvariant, PTL

\* However times compare as text, and whatever is lost or reclaimed between,
\* a failed stage starts again at most a second before its backoff is over.
THEOREM BackoffsAreKept == Spec => BackoffRespected
<1>1. IInv /\ [Next]_vars =>
        [Starts /\ row.attempts > 0 =>
          100 * ((now + Second) - failedAt)
            > (100 - Jitter) * Documented(row.attempts) - 100]_vars
  <2> SUFFICES ASSUME IInv, Next, Starts, row.attempts > 0
               PROVE  100 * ((now + Second) - failedAt)
                        > (100 - Jitter) * Documented(row.attempts) - 100
    OBVIOUS
  <2>1. CASE Claim
    <3>1. /\ row.attempts \in Nat \ {0} /\ row.next \in Int /\ now + Second \in Int
          /\ row.next < now + Second
      BY <2>1, SecondType, TextOrder DEF Claim, IInv, Types, TypeOK, AttemptsLeft, Timed
    <3>2. Past(now + Second, row.attempts)
      BY <3>1, PastLater DEF IInv, WaitTimes, Starts
    <3> QED BY <3>2 DEF Past
  <2>2. ASSUME NEW copy \in copies, Process(copy) PROVE FALSE
    <3>1. row' = row
      BY <2>2 DEF Process, Complete, FailStage, Write, Starts
    <3> QED BY <3>1 DEF Starts
  <2>3. CASE ReclaimExpired \/ Crash \/ Tick \/ Damage
    BY <2>3 DEF ReclaimExpired, Crash, Tick, Damage, Starts
  <2> QED BY <2>1, <2>2, <2>3 DEF Next
<1> QED BY <1>1, TimesInvariant, PTL DEF Spec, BackoffRespected

\* A lease holds till its end, less a second, and nothing but its end takes a
\* claim back.
THEOREM LeasesAreKept == Spec => LeaseRespected
<1>1. IInv /\ [Next]_vars => [TakenBack => now + Second > claimedAt + Lease]_vars
  <2> SUFFICES ASSUME IInv, Next, TakenBack PROVE now + Second > claimedAt + Lease
    OBVIOUS
  <2>1. CASE ReclaimExpired
    <3>1. row.lease \in Int /\ now \in Int /\ row.lease = claimedAt + Lease
      BY <2>1 DEF ReclaimExpired, IInv, Types, TypeOK, AttemptsLeft, Timed, ClaimTimes
    <3>2. NotAfter(row.lease, now)
      BY <2>1 DEF ReclaimExpired, NotAfter
    <3> QED BY <3>1, <3>2, TextOrder, SecondType
  <2>2. ASSUME NEW copy \in copies, Process(copy) PROVE FALSE
    BY <2>2, ProcessKeeps
  <2>3. CASE Claim \/ Crash \/ Tick \/ Damage
    BY <2>3 DEF Claim, Crash, Tick, Damage, TakenBack
  <2> QED BY <2>1, <2>2, <2>3 DEF Next
<1> QED BY <1>1, TimesInvariant, PTL DEF Spec, LeaseRespected

-------------------------------------------------------------------------------
(***************************************************************************)
(* Lemmas about FileContent: least and greatest places in a file, and what *)
(* is left of a text that is cut where characters start.                   *)
(***************************************************************************)
LEMMA LeastExists ==
  ASSUME NEW S \in SUBSET Nat, S # {}
  PROVE  \E i \in S : \A j \in S : i <= j
<1>1. PICK i \in S : \A j \in S : ~(<<j, i>> \in OpToRel(<, Nat))
  BY NatLessThanWellFounded, WFMin
<1>2. \A j \in S : ~(j < i)
  BY <1>1 DEF OpToRel
<1> QED BY <1>2

LEMMA GreatestExists ==
  ASSUME NEW n \in Nat, NEW S \in SUBSET (0 .. n), S # {}
  PROVE  \E i \in S : \A j \in S : i >= j
<1> DEFINE T == {n - i : i \in S}
<1>1. \A i \in S : i \in Int /\ n - i \in Nat
  OBVIOUS
<1>2. T \in SUBSET Nat /\ T # {}
  BY <1>1
<1>3. PICK k \in T : \A j \in T : k <= j
  <2> HIDE DEF T
  <2> QED BY <1>2, LeastExists
<1>4. PICK i \in S : k = n - i
  OBVIOUS
<1>5. \A j \in S : n - i <= n - j
  BY <1>3, <1>4
<1> QED BY <1>1, <1>5

LEMMA CutIs ==
  ASSUME NEW s \in Seq(Byte), NEW a \in 1 .. Len(s) + 1, NEW b \in 0 .. Len(s),
         a <= b + 1
  PROVE  /\ SubSeq(s, a, b) \in Seq(Byte) /\ Len(SubSeq(s, a, b)) = b - a + 1
         /\ DOMAIN SubSeq(s, a, b) = 1 .. b - a + 1
         /\ \A i \in 1 .. b - a + 1 : SubSeq(s, a, b)[i] = s[a + i - 1]
OBVIOUS

\* A text that is cut where characters start, or ends, is text.
LEMMA CutIsText ==
  ASSUME NEW s \in Seq(Byte), UTF8(s),
         NEW a \in 1 .. Len(s) + 1, NEW b \in 0 .. Len(s), a <= b + 1,
         a <= Len(s) => s[a] # "cont", b < Len(s) => s[b + 1] # "cont"
  PROVE  UTF8(SubSeq(s, a, b))
<1> DEFINE t == SubSeq(s, a, b)
<1>1. /\ t \in Seq(Byte) /\ Len(t) = b - a + 1 /\ DOMAIN t = 1 .. b - a + 1
      /\ \A i \in 1 .. b - a + 1 : t[i] = s[a + i - 1]
  BY CutIs
<1> HIDE DEF t
<1>2. ASSUME NEW i \in DOMAIN t, t[i] = "lead"
      PROVE  i < Len(t) /\ t[i + 1] = "cont"
  <2>1. /\ i \in 1 .. b - a + 1 /\ a + i - 1 \in DOMAIN s
        /\ s[a + i - 1] = "lead"
    BY <1>1, <1>2
  <2>2. a + i - 1 < Len(s) /\ s[(a + i - 1) + 1] = "cont"
    BY <2>1 DEF UTF8
  <2>3. (a + i - 1) + 1 # b + 1
    BY <2>1, <2>2
  <2>4. i < b - a + 1 /\ i + 1 \in 1 .. b - a + 1 /\ a + (i + 1) - 1 = (a + i - 1) + 1
    BY <2>1, <2>3
  <2> QED BY <1>1, <2>2, <2>4
<1>3. ASSUME NEW i \in DOMAIN t, t[i] = "cont"
      PROVE  i > 1 /\ t[i - 1] = "lead"
  <2>1. /\ i \in 1 .. b - a + 1 /\ a + i - 1 \in DOMAIN s
        /\ s[a + i - 1] = "cont"
    BY <1>1, <1>3
  <2>2. s[(a + i - 1) - 1] = "lead"
    BY <2>1 DEF UTF8
  <2>3. a + i - 1 # a
    <3>1. SUFFICES ASSUME a + i - 1 = a PROVE FALSE
      OBVIOUS
    <3>2. a \in DOMAIN s /\ s[a] = "cont"
      BY <2>1, <3>1
    <3> QED BY <3>2
  <2>4. i > 1 /\ i - 1 \in 1 .. b - a + 1 /\ a + (i - 1) - 1 = (a + i - 1) - 1
    <3>1. a \in Int /\ b \in Int /\ i \in Int /\ 1 <= i /\ i <= b - a + 1
      BY <2>1
    <3>2. i # 1
      BY <2>3, <3>1
    <3> QED BY <3>1, <3>2
  <2> QED BY <1>1, <2>2, <2>4
<1> QED BY <1>2, <1>3 DEF UTF8, t

LEMMA JoinIs ==
  ASSUME NEW s \in Seq(Byte), NEW t \in Seq(Byte)
  PROVE  s \o t \in Seq(Byte) /\ Len(s \o t) = Len(s) + Len(t)
OBVIOUS

LEMMA JoinIsText ==
  ASSUME NEW s \in Seq(Byte), NEW t \in Seq(Byte), UTF8(s), UTF8(t)
  PROVE  s \o t \in Seq(Byte) /\ Len(s \o t) = Len(s) + Len(t) /\ UTF8(s \o t)
<1> DEFINE u == s \o t
<1>1. /\ u \in Seq(Byte) /\ Len(u) = Len(s) + Len(t) /\ DOMAIN u = 1 .. Len(s) + Len(t)
      /\ \A i \in 1 .. Len(s) : u[i] = s[i]
      /\ \A i \in 1 .. Len(t) : u[Len(s) + i] = t[i]
  OBVIOUS
<1>2. \A i \in 1 .. Len(s) + Len(t) :
        i \in 1 .. Len(s) \/ (i - Len(s) \in 1 .. Len(t) /\ i = Len(s) + (i - Len(s)))
  OBVIOUS
<1> HIDE DEF u
<1>3. ASSUME NEW i \in DOMAIN u, u[i] = "lead"
      PROVE  i < Len(u) /\ u[i + 1] = "cont"
  <2>1. CASE i \in 1 .. Len(s)
    <3>1. i < Len(s) /\ s[i + 1] = "cont"
      BY <1>1, <1>3, <2>1 DEF UTF8
    <3>2. i + 1 \in 1 .. Len(s)
      BY <2>1, <3>1
    <3> QED BY <1>1, <3>1, <3>2
  <2>2. CASE i - Len(s) \in 1 .. Len(t) /\ i = Len(s) + (i - Len(s))
    <3> DEFINE k == i - Len(s)
    <3>1. k < Len(t) /\ t[k + 1] = "cont"
      BY <1>1, <1>3, <2>2 DEF UTF8
    <3>2. k + 1 \in 1 .. Len(t) /\ Len(s) + (k + 1) = i + 1
      BY <2>2, <3>1
    <3> QED BY <1>1, <3>1, <3>2
  <2> QED BY <1>1, <1>2, <2>1, <2>2
<1>4. ASSUME NEW i \in DOMAIN u, u[i] = "cont"
      PROVE  i > 1 /\ u[i - 1] = "lead"
  <2>1. CASE i \in 1 .. Len(s)
    <3>1. i > 1 /\ s[i - 1] = "lead"
      BY <1>1, <1>4, <2>1 DEF UTF8
    <3>2. i - 1 \in 1 .. Len(s)
      BY <2>1, <3>1
    <3> QED BY <1>1, <3>1, <3>2
  <2>2. CASE i - Len(s) \in 1 .. Len(t) /\ i = Len(s) + (i - Len(s))
    <3> DEFINE k == i - Len(s)
    <3>1. k > 1 /\ t[k - 1] = "lead"
      BY <1>1, <1>4, <2>2 DEF UTF8
    <3>2. k - 1 \in 1 .. Len(t) /\ Len(s) + (k - 1) = i - 1
      BY <2>2, <3>1
    <3> QED BY <1>1, <3>1, <3>2
  <2> QED BY <1>1, <1>2, <2>1, <2>2
<1> QED BY <1>1, <1>3, <1>4 DEF UTF8, u

LEMMA UpToIs ==
  ASSUME NEW s \in Seq(Byte), NEW n \in Nat
  PROVE  /\ UpTo(s, n) \in Seq(Byte) /\ Len(UpTo(s, n)) <= n
         /\ Len(UpTo(s, n)) <= Len(s)
         /\ \A i \in DOMAIN UpTo(s, n) : i \in DOMAIN s /\ UpTo(s, n)[i] = s[i]
         /\ \A i \in DOMAIN s : i <= n => i \in DOMAIN UpTo(s, n)
         /\ Len(s) <= n => UpTo(s, n) = s
BY DEF UpTo

\* The first lines end where the file does, or a line.
LEMMA FirstLinesIs ==
  ASSUME NEW s \in Seq(Byte), NEW n \in Nat
  PROVE  \E m \in 0 .. Len(s) : /\ FirstLines(s, n) = SubSeq(s, 1, m)
                                /\ m < Len(s) => s[m + 1] = "nl"
<1> DEFINE last == {i \in Lines(s) : Cardinality({j \in Lines(s) : j <= i}) = n}
           k == IF last = {} THEN Len(s) ELSE (CHOOSE i \in last : TRUE) - 1
<1>1. FirstLines(s, n) = UpTo(s, k)
  BY DEF FirstLines
<1>2. last \subseteq Lines(s)
  OBVIOUS
<1> HIDE DEF last
<1>3. CASE last = {}
  <2>1. FirstLines(s, n) = SubSeq(s, 1, Len(s))
    BY <1>1, <1>3 DEF UpTo
  <2> QED BY <2>1
<1>4. CASE last # {}
  <2>1. PICK i \in last : k = i - 1
    BY <1>4
  <2>2. i \in 1 .. Len(s) /\ s[i] = "nl"
    BY <1>2 DEF Lines
  <2>3. FirstLines(s, n) = SubSeq(s, 1, i - 1)
    <3> HIDE DEF k
    <3> QED BY <1>1, <2>1, <2>2 DEF UpTo
  <2> QED BY <2>2, <2>3
<1> QED BY <1>3, <1>4

LEMMA FirstLinesAreText ==
  ASSUME NEW s \in Seq(Byte), NEW n \in Nat
  PROVE  FirstLines(s, n) \in Seq(Byte) /\ (UTF8(s) => UTF8(FirstLines(s, n)))
<1>1. PICK m \in 0 .. Len(s) : /\ FirstLines(s, n) = SubSeq(s, 1, m)
                               /\ m < Len(s) => s[m + 1] = "nl"
  BY FirstLinesIs
<1>2. 1 \in 1 .. Len(s) + 1 /\ 1 <= m + 1
  OBVIOUS
<1>3. FirstLines(s, n) \in Seq(Byte)
  BY <1>1, <1>2, CutIs
<1>4. ASSUME UTF8(s) PROVE UTF8(FirstLines(s, n))
  <2>1. 1 <= Len(s) => s[1] # "cont"
    BY <1>4 DEF UTF8
  <2> QED BY <1>1, <1>2, <1>4, <2>1, CutIsText
<1> QED BY <1>3, <1>4

\* The places of what is no white space.
Ink(s) == {i \in DOMAIN s : s[i] \notin White}

LEMMA TrimmedIs ==
  ASSUME NEW s \in Seq(Byte)
  PROVE  \/ Ink(s) = {} /\ Trimmed(s) = <<>>
         \/ \E a, b \in Ink(s) : /\ \A j \in Ink(s) : a <= j /\ j <= b
                                 /\ Trimmed(s) = SubSeq(s, a, b)
<1>1. CASE Ink(s) = {}
  BY <1>1 DEF Ink, Trimmed
<1>2. CASE Ink(s) # {}
  <2> DEFINE a == CHOOSE i \in Ink(s) : \A j \in Ink(s) : i <= j
             b == CHOOSE i \in Ink(s) : \A j \in Ink(s) : i >= j
  <2>1. Trimmed(s) = SubSeq(s, a, b)
    BY <1>2 DEF Ink, Trimmed
  <2>2. Ink(s) \in SUBSET Nat /\ Ink(s) \in SUBSET (0 .. Len(s)) /\ Len(s) \in Nat
    BY DEF Ink
  <2>3. \E i \in Ink(s) : \A j \in Ink(s) : i <= j
    BY <1>2, <2>2, LeastExists
  <2>4. \E i \in Ink(s) : \A j \in Ink(s) : i >= j
    BY <1>2, <2>2, GreatestExists
  <2>5. a \in Ink(s) /\ \A j \in Ink(s) : a <= j
    BY <2>3
  <2>6. b \in Ink(s) /\ \A j \in Ink(s) : b >= j
    BY <2>4
  <2> HIDE DEF a, b
  <2>7. \A j \in Ink(s) : a <= j /\ j <= b
    BY <2>2, <2>5, <2>6
  <2> QED BY <2>1, <2>5, <2>6, <2>7
<1> QED BY <1>1, <1>2

LEMMA NothingIsText == <<>> \in Seq(Byte) /\ UTF8(<<>>)
BY DEF UTF8

LEMMA TrimmedIsText ==
  ASSUME NEW s \in Seq(Byte)
  PROVE  Trimmed(s) \in Seq(Byte) /\ (UTF8(s) => UTF8(Trimmed(s)))
<1>1. CASE Trimmed(s) = <<>>
  BY <1>1, NothingIsText
<1>2. ASSUME NEW a \in Ink(s), NEW b \in Ink(s),
             \A j \in Ink(s) : a <= j /\ j <= b, Trimmed(s) = SubSeq(s, a, b)
      PROVE  Trimmed(s) \in Seq(Byte) /\ (UTF8(s) => UTF8(Trimmed(s)))
  <2>1. /\ a \in 1 .. Len(s) /\ b \in 1 .. Len(s) /\ a <= b
        /\ a \in 1 .. Len(s) + 1 /\ b \in 0 .. Len(s) /\ a <= b + 1
    BY <1>2 DEF Ink
  <2>2. Trimmed(s) \in Seq(Byte)
    BY <1>2, <2>1, CutIs
  <2>3. ASSUME UTF8(s) PROVE UTF8(Trimmed(s))
    <3>1. ASSUME s[a] = "cont" PROVE FALSE
      <4>1. a > 1 /\ s[a - 1] = "lead"
        <5>1. a \in DOMAIN s
          BY <2>1
        <5> QED BY <2>3, <3>1, <5>1 DEF UTF8
      <4>2. a - 1 \in DOMAIN s /\ ~(a <= a - 1)
        BY <2>1, <4>1
      <4>3. a - 1 \in Ink(s)
        BY <4>1, <4>2 DEF Ink, White
      <4> QED BY <1>2, <4>2, <4>3
    <3>2. ASSUME b < Len(s), s[b + 1] = "cont" PROVE FALSE
      <4>1. b + 1 \in DOMAIN s /\ ~(b + 1 <= b)
        BY <2>1, <3>2
      <4>2. b + 1 \in Ink(s)
        BY <3>2, <4>1 DEF Ink, White
      <4> QED BY <1>2, <4>1, <4>2
    <3> QED BY <1>2, <2>1, <2>3, <3>1, <3>2, CutIsText
  <2> QED BY <2>2, <2>3
<1> QED BY <1>1, <1>2, TrimmedIs

(***************************************************************************)
(* The keys of a YAML file.  The rank of a place among places is an        *)
(* injection into 1 .. the number of places, hence onto it; the place      *)
(* after one that is chosen, if chosen, comes next.                        *)
(***************************************************************************)
Rank(i, P) == Cardinality({j \in P : j <= i})
Place(n, P) == CHOOSE i \in P : Rank(i, P) = n

LEMMA UpToPlace ==
  ASSUME NEW N \in Nat, NEW P \in SUBSET (1 .. N), NEW i \in P
  PROVE  /\ IsFiniteSet(P) /\ IsFiniteSet({j \in P : j <= i})
         /\ Cardinality(P) \in Nat /\ Rank(i, P) \in 1 .. Cardinality(P)
<1> DEFINE T == {j \in P : j <= i}
<1>1. i \in T /\ T \subseteq P
  OBVIOUS
<1>2. IsFiniteSet(1 .. N)
  BY FS_Interval
<1>3. IsFiniteSet(P)
  BY <1>2, FS_Subset
<1> HIDE DEF T
<1>4. IsFiniteSet(T) /\ Cardinality(T) <= Cardinality(P)
  BY <1>1, <1>3, FS_Subset
<1>5. Cardinality(T) \in Nat /\ Cardinality(P) \in Nat
  BY <1>3, <1>4, FS_CardinalityType
<1>6. IsFiniteSet({i}) /\ Cardinality({i}) = 1
  BY FS_Singleton
<1>7. Cardinality({i}) <= Cardinality(T)
  <2>1. {i} \subseteq T
    BY <1>1
  <2> QED BY <1>4, <2>1, FS_Subset
<1>8. Cardinality(T) \in 1 .. Cardinality(P)
  BY <1>4, <1>5, <1>6, <1>7
<1> QED BY <1>3, <1>4, <1>5, <1>8 DEF Rank, T

LEMMA RankIsStrict ==
  ASSUME NEW N \in Nat, NEW P \in SUBSET (1 .. N), NEW i \in P, NEW k \in P, i < k
  PROVE  Rank(i, P) < Rank(k, P)
<1> DEFINE T == {j \in P : j <= i}
           U == {j \in P : j <= k}
<1>0. \A j \in P : j \in Nat
  OBVIOUS
<1>1. T \subseteq U /\ k \in U /\ k \notin T
  <2>1. i \in Nat /\ k \in Nat /\ k <= k /\ ~(k <= i)
    BY <1>0
  <2>2. \A j \in P : j <= i => j <= k
    BY <1>0, <2>1
  <2> QED BY <2>1, <2>2
<1>2. IsFiniteSet(U) /\ IsFiniteSet(T)
  BY UpToPlace
<1> HIDE DEF T, U
<1>3. Cardinality(T) <= Cardinality(U) /\ Cardinality(T) # Cardinality(U)
  BY <1>1, <1>2, FS_Subset
<1>4. Cardinality(T) \in Nat /\ Cardinality(U) \in Nat
  BY <1>2, FS_CardinalityType
<1>5. Cardinality(T) < Cardinality(U)
  BY <1>3, <1>4
<1> QED BY <1>5 DEF Rank, T, U

LEMMA CountTo ==
  ASSUME NEW a \in Int, NEW c \in Nat, a = 1
  PROVE  IsFiniteSet(a .. c) /\ Cardinality(a .. c) = c
<1> DEFINE count == IF a > c THEN 0 ELSE c - a + 1
<1>1. a \in Int /\ c \in Int /\ count = c
  OBVIOUS
<1>2. IsFiniteSet(a .. c) /\ Cardinality(a .. c) = count
  BY <1>1, FS_Interval, Zenon
<1> HIDE DEF count
<1> QED BY <1>1, <1>2, Zenon

\* Every number up to that of the places is the rank of one of them, and of
\* one only.
LEMMA PlaceIs ==
  ASSUME NEW N \in Nat, NEW P \in SUBSET (1 .. N), NEW n \in 1 .. Cardinality(P)
  PROVE  Place(n, P) \in P /\ Rank(Place(n, P), P) = n
<1> DEFINE c == Cardinality(P)
           T == 1 .. c
           rank == [i \in P |-> Rank(i, P)]
<1>1. IsFiniteSet(P) /\ c \in Nat
  <2>1. IsFiniteSet(1 .. N)
    BY FS_Interval
  <2>2. IsFiniteSet(P)
    BY <2>1, FS_Subset
  <2> QED BY <2>2, FS_CardinalityType
<1>2. rank \in [P -> T]
  BY UpToPlace
<1>3. ASSUME NEW i \in P, NEW k \in P, rank[i] = rank[k] PROVE i = k
  <2>1. Rank(i, P) = Rank(k, P)
    BY <1>3
  <2>2. Rank(i, P) \in 1 .. c
    BY UpToPlace
  <2>3. i < k \/ k < i \/ i = k
    OBVIOUS
  <2>4. i < k => Rank(i, P) < Rank(k, P)
    BY RankIsStrict
  <2>5. k < i => Rank(k, P) < Rank(i, P)
    BY RankIsStrict
  <2> HIDE DEF rank, c
  <2> QED BY <2>1, <2>2, <2>3, <2>4, <2>5
<1>4. n \in T
  OBVIOUS
<1> HIDE DEF rank
<1>5. rank \in Injection(P, T)
  BY <1>2, <1>3 DEF Injection, IsInjective
<1>6. IsFiniteSet(T) /\ Cardinality(T) = c
  <2> DEFINE a == 1
  <2>1. a \in Int /\ a = 1
    OBVIOUS
  <2> HIDE DEF a, c
  <2>2. IsFiniteSet(a .. c) /\ Cardinality(a .. c) = c
    BY <1>1, <2>1, CountTo, Zenon
  <2> QED BY <2>2 DEF a
<1>7. rank \in Surjection(P, T)
  BY <1>5, <1>6, <1>1, FS_Injection
<1>8. PICK i \in P : rank[i] = n
  BY <1>4, <1>7 DEF Surjection
<1>9. Rank(i, P) = n
  BY <1>8 DEF rank
<1> QED BY <1>9 DEF Place

\* Of places next to each other the ranks are, too.
LEMMA NextPlace ==
  ASSUME NEW N \in Nat, NEW P \in SUBSET (1 .. N), NEW i \in P, i + 1 \in P
  PROVE  Rank(i + 1, P) = Rank(i, P) + 1
<1> DEFINE T == {j \in P : j <= i}
           k == i + 1
           U == {j \in P : j <= k}
<1>0. \A j \in P : j \in Nat
  OBVIOUS
<1>1. U = T \cup {k} /\ k \notin T
  <2>1. i \in Nat /\ k \in Nat /\ k \in P /\ k <= k /\ ~(k <= i)
    BY <1>0
  <2>2. \A j \in P : j <= k <=> j <= i \/ j = k
    BY <1>0, <2>1
  <2> HIDE DEF k
  <2> QED BY <2>1, <2>2
<1>2. IsFiniteSet(T)
  BY UpToPlace
<1> HIDE DEF T, k, U
<1>3. Cardinality(U) = Cardinality(T) + 1
  BY <1>1, <1>2, FS_AddElement
<1> QED BY <1>3 DEF Rank, T, k, U

\* The bytes at places that hold whole characters, of a text, are text.
LEMMA BytesAtAreText ==
  ASSUME NEW s \in Seq(Byte), NEW P \in SUBSET DOMAIN s
  PROVE  /\ BytesAt(s, P) \in Seq(Byte)
         /\ UTF8(s) /\ (\A i \in P : /\ s[i] = "lead" => i + 1 \in P
                                     /\ s[i] = "cont" => i - 1 \in P) => UTF8(BytesAt(s, P))
<1> DEFINE t == BytesAt(s, P)
           c == Cardinality(P)
           N == Len(s)
<1>1. N \in Nat /\ P \in SUBSET (1 .. N) /\ DOMAIN s = 1 .. N
  OBVIOUS
<1>2. c \in Nat
  <2>1. IsFiniteSet(1 .. N)
    BY <1>1, FS_Interval
  <2>2. IsFiniteSet(P)
    BY <1>1, <2>1, FS_Subset
  <2> QED BY <2>2, FS_CardinalityType
<1>3. t = [n \in 1 .. c |-> s[Place(n, P)]]
  BY DEF BytesAt, Place, Rank
<1> HIDE DEF t, c, N
<1>4. \A n \in 1 .. c : Place(n, P) \in P /\ Rank(Place(n, P), P) = n
  BY <1>1, PlaceIs DEF c
<1>5. \A n \in 1 .. c : s[Place(n, P)] \in Byte
  BY <1>1, <1>4
<1>6. t \in Seq(Byte) /\ Len(t) = c /\ DOMAIN t = 1 .. c
  BY <1>2, <1>3, <1>5
<1>7. \A i \in P : Rank(i, P) \in 1 .. c
  BY <1>1, UpToPlace DEF c
<1>8. \A i \in P : Place(Rank(i, P), P) = i
  <2> SUFFICES ASSUME NEW i \in P PROVE Place(Rank(i, P), P) = i
    OBVIOUS
  <2> DEFINE k == Place(Rank(i, P), P)
  <2>1. k \in P /\ Rank(k, P) = Rank(i, P) /\ Rank(i, P) \in 1 .. c
    BY <1>4, <1>7
  <2> HIDE DEF k
  <2>2. k < i \/ i < k \/ i = k
    BY <1>1, <2>1
  <2>3. k < i => Rank(k, P) < Rank(i, P)
    BY <1>1, <2>1, RankIsStrict
  <2>4. i < k => Rank(i, P) < Rank(k, P)
    BY <1>1, <2>1, RankIsStrict
  <2>5. k = i
    BY <1>2, <2>1, <2>2, <2>3, <2>4
  <2> QED BY <2>5 DEF k
<1>9. ASSUME UTF8(s), \A i \in P : /\ s[i] = "lead" => i + 1 \in P
                                   /\ s[i] = "cont" => i - 1 \in P
      PROVE  UTF8(t)
  <2>1. ASSUME NEW n \in DOMAIN t, t[n] = "lead" PROVE n < Len(t) /\ t[n + 1] = "cont"
    <3> DEFINE i == Place(n, P)
    <3>1. i \in P /\ Rank(i, P) = n /\ s[i] = "lead" /\ n \in 1 .. c
      BY <1>3, <1>4, <1>6, <2>1
    <3> HIDE DEF i
    <3>2. i \in DOMAIN s /\ i \in Int
      BY <3>1
    <3>3. s[i + 1] = "cont"
      BY <1>9, <3>1, <3>2 DEF UTF8
    <3>4. i + 1 \in P
      BY <1>9, <3>1
    <3>5. Rank(i + 1, P) = n + 1
      BY <1>1, <3>1, <3>4, NextPlace
    <3>6. n + 1 \in 1 .. c /\ Place(n + 1, P) = i + 1
      BY <1>7, <1>8, <3>4, <3>5
    <3> QED BY <1>2, <1>3, <1>6, <3>1, <3>3, <3>6
  <2>2. ASSUME NEW n \in DOMAIN t, t[n] = "cont" PROVE n > 1 /\ t[n - 1] = "lead"
    <3> DEFINE i == Place(n, P)
    <3>1. i \in P /\ Rank(i, P) = n /\ s[i] = "cont" /\ n \in 1 .. c
      BY <1>3, <1>4, <1>6, <2>2
    <3> HIDE DEF i
    <3>2. i \in DOMAIN s /\ i \in Int
      BY <3>1
    <3>3. s[i - 1] = "lead"
      BY <1>9, <3>1, <3>2 DEF UTF8
    <3>4. i - 1 \in P /\ (i - 1) + 1 = i /\ (i - 1) + 1 \in P
      BY <1>9, <3>1, <3>2
    <3>5. Rank((i - 1) + 1, P) = Rank(i - 1, P) + 1
      BY <1>1, <3>4, NextPlace
    <3>6. n = Rank(i - 1, P) + 1 /\ Rank(i - 1, P) \in 1 .. c
      BY <1>7, <3>1, <3>4, <3>5
    <3>7. n - 1 \in 1 .. c /\ n - 1 = Rank(i - 1, P) /\ n > 1
      BY <1>2, <3>6
    <3>8. Place(n - 1, P) = i - 1
      BY <1>8, <3>4, <3>7
    <3> QED BY <1>3, <3>3, <3>7, <3>8
  <2> QED BY <2>1, <2>2 DEF UTF8
<1> QED BY <1>6, <1>9 DEF t

\* A key, with the byte after it, holds whole characters.
LEMMA KeysAreText ==
  ASSUME NEW s \in Seq(Byte)
  PROVE  /\ BytesAt(s, KeyPlaces(s)) \in Seq(Byte)
         /\ UTF8(s) => UTF8(BytesAt(s, KeyPlaces(s)))
<1> DEFINE P == KeyPlaces(s)
<1>1. P \in SUBSET DOMAIN s
  BY DEF KeyPlaces
<1>2. ASSUME UTF8(s), NEW i \in P
      PROVE  /\ s[i] = "lead" => i + 1 \in P
             /\ s[i] = "cont" => i - 1 \in P
  <2> DEFINE First(a, e) == \A b, f \in DOMAIN s :
               IsKey(s, b, f) /\ SubSeq(s, b, f) = SubSeq(s, a, e) => a <= b
  <2>1. PICK a \in DOMAIN s, e \in DOMAIN s :
          IsKey(s, a, e) /\ i \in a .. e + 1 /\ First(a, e)
    BY <1>2 DEF KeyPlaces
  <2>2. ASSUME NEW j \in DOMAIN s, j \in a .. e + 1 PROVE j \in P
    BY <2>1, <2>2 DEF KeyPlaces
  <2> HIDE DEF First, P
  <2>3. i \in DOMAIN s
    BY <1>1, <1>2
  <2>4. /\ a <= e /\ (a = 1 \/ s[a - 1] = "nl")
        /\ \E c \in DOMAIN s : c > e /\ s[c] = "colon"
                             /\ \A j \in e + 1 .. c - 1 : s[j] = "space"
    BY <2>1 DEF IsKey
  <2>5. e + 1 \in DOMAIN s /\ s[e + 1] \in {"colon", "space"}
    <3>1. PICK c \in DOMAIN s : c > e /\ s[c] = "colon"
                             /\ \A j \in e + 1 .. c - 1 : s[j] = "space"
      BY <2>4
    <3>2. c = e + 1 \/ e + 1 \in e + 1 .. c - 1
      BY <3>1
    <3>3. e + 1 \in DOMAIN s
      BY <3>1
    <3> QED BY <3>1, <3>2, <3>3
  <2>6. ASSUME s[i] = "lead" PROVE i + 1 \in P
    <3>1. i # e + 1
      BY <2>5, <2>6
    <3>2. i + 1 \in DOMAIN s /\ i + 1 \in a .. e + 1
      BY <2>1, <2>3, <2>5, <3>1
    <3> QED BY <2>2, <3>2
  <2>7. ASSUME s[i] = "cont" PROVE i - 1 \in P
    <3>1. i > 1 /\ s[i - 1] = "lead"
      BY <1>2, <2>3, <2>7 DEF UTF8
    <3>2. i # a
      BY <2>4, <3>1
    <3>3. i - 1 \in DOMAIN s /\ i - 1 \in a .. e + 1
      BY <2>1, <2>3, <3>1, <3>2
    <3> QED BY <2>2, <3>3
  <2> QED BY <2>6, <2>7
<1> HIDE DEF P
<1>3. BytesAt(s, P) \in Seq(Byte) /\ (UTF8(s) => UTF8(BytesAt(s, P)))
  BY <1>1, <1>2, BytesAtAreText
<1> QED BY <1>3 DEF P

\* What is shown of a file that is text is text.
LEMMA ShownIsText ==
  ASSUME NEW ext \in Ext, NEW s \in Seq(Byte),
         ext = ".json" => IsObject(Trimmed(s))
  PROVE  Shown(ext, s) \in Seq(Byte) /\ (UTF8(s) => UTF8(Shown(ext, s)))
<1>1. CASE ext = ".json"
  <2> DEFINE t == Trimmed(s)
  <2>1. t \in Seq(Byte) /\ (UTF8(s) => UTF8(t))
    BY TrimmedIsText
  <2>2. Shown(ext, s) = SubSeq(t, 2, Len(t) - 1)
    BY <1>1 DEF Shown, Names
  <2>3. Len(t) >= 2 /\ t[1] = "open" /\ t[Len(t)] = "close"
    BY <1>1 DEF IsObject
  <2> HIDE DEF t
  <2>4. /\ 2 \in 1 .. Len(t) + 1 /\ Len(t) - 1 \in 0 .. Len(t)
        /\ 2 <= (Len(t) - 1) + 1 /\ (Len(t) - 1) + 1 = Len(t)
    <3>1. Len(t) \in Nat /\ Len(t) >= 2
      BY <2>1, <2>3
    <3> QED BY <3>1
  <2>5. Shown(ext, s) \in Seq(Byte)
    BY <2>1, <2>2, <2>4, CutIs
  <2>6. ASSUME UTF8(t) PROVE UTF8(Shown(ext, s))
    <3>1. t[2] # "cont"
      <4>1. SUFFICES ASSUME t[2] = "cont" PROVE FALSE
        OBVIOUS
      <4>2. 2 \in DOMAIN t /\ 2 - 1 = 1
        BY <2>1, <2>3
      <4>3. t[1] = "lead"
        BY <2>6, <4>1, <4>2 DEF UTF8
      <4> QED BY <2>3, <4>3
    <3> QED BY <2>1, <2>2, <2>3, <2>4, <2>6, <3>1, CutIsText
  <2> QED BY <2>1, <2>5, <2>6
<1>2. CASE ext = ".csv"
  BY <1>2, FirstLinesAreText DEF Shown
<1>3. CASE ext = ".yaml"
  <2>1. Shown(ext, s) = BytesAt(s, KeyPlaces(s))
    BY <1>3 DEF Shown
  <2> QED BY <2>1, KeysAreText, Zenon
<1>4. CASE ext \notin {".json", ".csv", ".yaml"}
  <2>1. PreviewLines \in Nat
    BY ContentAssumption
  <2> QED BY <1>4, <2>1, FirstLinesAreText DEF Shown
<1> QED BY <1>1, <1>2, <1>3, <1>4

\* A summary is cut where a character starts, and keeps to its limit.
LEMMA TruncatedIs ==
  ASSUME NEW s \in Seq(Byte)
  PROVE  /\ TruncateSummary(s) \in Seq(Byte) /\ Len(TruncateSummary(s)) <= MaxSummarySize
         /\ UTF8(s) => UTF8(TruncateSummary(s))
<1>1. MaxSummarySize \in Nat /\ MaxSummarySize >= 3
  BY ContentAssumption
<1>2. CASE Len(s) <= MaxSummarySize
  BY <1>2 DEF TruncateSummary
<1>3. CASE ~(Len(s) <= MaxSummarySize)
  <2> DEFINE room == MaxSummarySize - Len(Marker)
             At(n) == /\ n > 0 => s[n + 1] # "cont"
                      /\ \A m \in n + 1 .. room : s[m + 1] = "cont"
             limit == CHOOSE n \in 0 .. room : At(n)
             S == {n \in 0 .. room : n > 0 => s[n + 1] # "cont"}
  <2>1. TruncateSummary(s) = UpTo(s, limit) \o Marker
    BY <1>3 DEF TruncateSummary
  <2>2. Marker \in Seq(Byte) /\ Len(Marker) = 2 /\ UTF8(Marker)
    <3>1. "nl" \in Byte /\ "a" \in Byte
      BY DEF Byte
    <3>2. Marker = <<"nl", "a">> /\ DOMAIN Marker = {1, 2}
      BY DEF Marker
    <3>3. Marker[1] = "nl" /\ Marker[2] = "a"
      BY <3>2
    <3> QED BY <3>1, <3>2, <3>3 DEF UTF8
  <2>3. room \in Nat /\ room + 2 = MaxSummarySize /\ room < Len(s)
    BY <1>1, <1>3, <2>2
  <2> HIDE DEF room
  <2>4. \E n \in 0 .. room : At(n)
    <3>1. 0 \in S /\ S \in SUBSET (0 .. room)
      BY <2>3
    <3>2. PICK n \in S : \A m \in S : n >= m
      <4> HIDE DEF S
      <4> QED BY <2>3, <3>1, GreatestExists
    <3>3. ASSUME NEW m \in n + 1 .. room, s[m + 1] # "cont" PROVE FALSE
      <4>1. m \in 0 .. room /\ ~(n >= m)
        BY <2>3, <3>3
      <4> QED BY <3>2, <3>3, <4>1
    <3> QED BY <3>3
  <2>5. limit \in 0 .. room /\ At(limit)
    <3> HIDE DEF At
    <3> QED BY <2>4
  <2> HIDE DEF limit
  <2>6. /\ limit \in 0 .. Len(s) /\ limit < Len(s) /\ limit <= room
        /\ 1 \in 1 .. Len(s) + 1 /\ 1 <= limit + 1
    BY <2>3, <2>5
  <2>7. UpTo(s, limit) = SubSeq(s, 1, limit)
    BY <2>6 DEF UpTo
  <2>8. /\ SubSeq(s, 1, limit) \in Seq(Byte)
        /\ Len(SubSeq(s, 1, limit)) = limit
    <3>1. limit - 1 + 1 = limit
      BY <2>6
    <3> QED BY <2>6, <3>1, CutIs
  <2>9. ASSUME UTF8(s) PROVE UTF8(SubSeq(s, 1, limit))
    <3>1. 1 <= Len(s) => s[1] # "cont"
      BY <2>9 DEF UTF8
    <3>2. s[limit + 1] # "cont"
      <4>1. CASE limit = 0
        BY <2>6, <3>1, <4>1
      <4>2. CASE limit > 0
        BY <2>5, <4>2
      <4> QED BY <2>6, <4>1, <4>2
    <3> QED BY <2>6, <2>9, <3>1, <3>2, CutIsText
  <2>10. /\ TruncateSummary(s) \in Seq(Byte)
         /\ Len(TruncateSummary(s)) = limit + 2
    <3> DEFINE u == SubSeq(s, 1, limit)
    <3>1. u \in Seq(Byte) /\ Len(u) = limit
      BY <2>8
    <3>2. TruncateSummary(s) = u \o Marker
      BY <2>1, <2>7
    <3> HIDE DEF u
    <3>3. u \o Marker \in Seq(Byte) /\ Len(u \o Marker) = Len(u) + Len(Marker)
      BY <2>2, <3>1, JoinIs
    <3> QED BY <2>2, <3>1, <3>2, <3>3
  <2>11. ASSUME UTF8(s) PROVE UTF8(TruncateSummary(s))
    BY <2>1, <2>2, <2>7, <2>8, <2>9, <2>11, JoinIsText
  <2> QED BY <2>3, <2>6, <2>10, <2>11
<1> QED BY <1>2, <1>3

LEMMA ExtractIsWhole ==
  ASSUME NEW f, f.ext \in Ext, NEW s \in Seq(Byte), Extractable(f, s)
  PROVE  /\ Len(Extract(f, s)) <= MaxSummarySize
         /\ UTF8(s) => UTF8(Extract(f, s))
<1> DEFINE shown == Shown(f.ext, s)
<1>1. shown \in Seq(Byte) /\ (UTF8(s) => UTF8(shown))
  BY ShownIsText DEF Extractable
<1>2. Counts \in Seq(Byte) /\ UTF8(Counts)
  <2>1. "a" \in Byte
    BY DEF Byte
  <2>2. Counts = <<"a">> /\ DOMAIN Counts = {1} /\ Counts[1] = "a"
    BY DEF Counts
  <2> QED BY <2>1, <2>2 DEF UTF8
<1>3. Extract(f, s) = TruncateSummary(Counts \o shown)
  BY DEF Extract
<1> HIDE DEF shown
<1>4. Counts \o shown \in Seq(Byte)
  BY <1>1, <1>2
<1>5. UTF8(s) => UTF8(Counts \o shown)
  BY <1>1, <1>2, JoinIsText
<1> QED BY <1>3, <1>4, <1>5, TruncatedIs

-------------------------------------------------------------------------------
\* What VALIDATE makes of a file.

LEMMA FirstCodeIs ==
  ASSUME NEW checks, DOMAIN checks \in SUBSET Nat,
         \A i \in DOMAIN checks : checks[i][2] # ""
  PROVE  FirstCode(checks) = "" <=> \A i \in DOMAIN checks : checks[i][1]
<1> DEFINE failed == {i \in DOMAIN checks : ~checks[i][1]}
           first == CHOOSE i \in failed : \A j \in failed : i <= j
<1>1. FirstCode(checks) = IF failed = {} THEN "" ELSE checks[first][2]
  BY Zenon DEF FirstCode
<1>2. failed = {} <=> \A i \in DOMAIN checks : checks[i][1]
  BY Zenon
<1>3. failed \subseteq DOMAIN checks
  OBVIOUS
<1> HIDE DEF failed
<1>4. CASE failed = {}
  BY <1>1, <1>2, <1>4, Zenon
<1>5. CASE failed # {}
  <2>1. failed \in SUBSET Nat
    BY <1>3
  <2>2. \E i \in failed : \A j \in failed : i <= j
    BY <1>5, <2>1, LeastExists
  <2>3. first \in failed
    BY <2>2, Zenon
  <2>4. FirstCode(checks) # ""
    BY <1>1, <1>3, <1>5, <2>3, Zenon
  <2> QED BY <1>2, <1>5, <2>4, Zenon
<1> QED BY <1>4, <1>5, Zenon

\* A file passes when it passes every check.
Passes(f, s) ==
  /\ f.ext \in Allowed /\ MimeCompatible(f.ext, f.mime) /\ s # Missing
  /\ ValidMagic(f.ext, UpTo(s, PrefixSize))
  /\ f.size # 0 /\ f.size <= MaxFileSize /\ s = f.sha

LEMMA ValidateIs == \A f, s : Validate(f, s) = "" <=> Passes(f, s)
<1> TAKE f, s
<1> DEFINE c1 == f.ext \in Allowed
           c2 == MimeCompatible(f.ext, f.mime)
           c3 == s # Missing
           c4 == ValidMagic(f.ext, UpTo(s, PrefixSize))
           c5 == f.size # 0
           c6 == f.size <= MaxFileSize
           c7 == s = f.sha
           checks == << <<c1, "ERR_UNSUPPORTED_EXTENSION">>,
                        <<c2, "ERR_MIME_MISMATCH">>,
                        <<c3, "ERR_MAGIC_MISMATCH">>,
                        <<c4, "ERR_MAGIC_MISMATCH">>,
                        <<c5, "ERR_EMPTY_FILE">>,
                        <<c6, "ERR_FILE_TOO_LARGE">>,
                        <<c7, "ERR_HASH_MISMATCH">> >>
<1>1. Validate(f, s) = FirstCode(checks)
  BY DEF Validate
<1>2. Passes(f, s) <=> c1 /\ c2 /\ c3 /\ c4 /\ c5 /\ c6 /\ c7
  BY DEF Passes
<1> HIDE DEF c1, c2, c3, c4, c5, c6, c7
<1>3. /\ DOMAIN checks = 1 .. 7
      /\ checks[1][1] = c1 /\ checks[1][2] # ""
      /\ checks[2][1] = c2 /\ checks[2][2] # ""
      /\ checks[3][1] = c3 /\ checks[3][2] # ""
      /\ checks[4][1] = c4 /\ checks[4][2] # ""
      /\ checks[5][1] = c5 /\ checks[5][2] # ""
      /\ checks[6][1] = c6 /\ checks[6][2] # ""
      /\ checks[7][1] = c7 /\ checks[7][2] # ""
  OBVIOUS
<1> HIDE DEF checks
<1>4. 1 .. 7 = {1, 2, 3, 4, 5, 6, 7} /\ 1 .. 7 \in SUBSET Nat
  OBVIOUS
<1>5. \A i \in DOMAIN checks : checks[i][2] # ""
  BY <1>3, <1>4, Zenon
<1>6. FirstCode(checks) = "" <=> \A i \in DOMAIN checks : checks[i][1]
  BY <1>3, <1>4, <1>5, FirstCodeIs, Zenon
<1>7. (\A i \in DOMAIN checks : checks[i][1]) <=> c1 /\ c2 /\ c3 /\ c4 /\ c5 /\ c6 /\ c7
  BY <1>3, <1>4, Zenon
<1> QED BY <1>1, <1>2, <1>6, <1>7, Zenon

\* The first line ends before the first end of a line.
LEMMA FirstLineEnds ==
  ASSUME NEW s \in Seq(Byte)
  PROVE  \E m \in 0 .. Len(s) : /\ FirstLines(s, 1) = SubSeq(s, 1, m)
                                /\ m < Len(s) => s[m + 1] = "nl"
                                /\ \A j \in 1 .. m : s[j] # "nl"
<1> DEFINE Upto(i) == {j \in Lines(s) : j <= i}
           last == {i \in Lines(s) : Cardinality(Upto(i)) = 1}
           k == IF last = {} THEN Len(s) ELSE (CHOOSE i \in last : TRUE) - 1
<1>1. FirstLines(s, 1) = UpTo(s, k)
  BY DEF FirstLines
<1>2. /\ \A i \in DOMAIN s : s[i] = "nl" <=> i \in Lines(s)
      /\ \A i \in Lines(s) : i \in 1 .. Len(s) /\ i \in DOMAIN s
      /\ Lines(s) \in SUBSET Nat
  BY DEF Lines
<1>3. ASSUME NEW i \in Lines(s), \A j \in Lines(s) : i <= j PROVE i \in last
  <2>1. Upto(i) = {i}
    BY <1>2, <1>3
  <2> QED BY <1>3, <2>1, FS_Singleton, Zenon
<1>4. ASSUME NEW i \in last PROVE i \in Lines(s) /\ \A j \in Lines(s) : i <= j
  <2>1. /\ i \in Lines(s) /\ i \in Upto(i) /\ Upto(i) \subseteq 1 .. Len(s)
        /\ \A j \in Lines(s) : j <= i => j \in Upto(i)
    BY <1>2, <1>4
  <2>2. Cardinality(Upto(i)) = 1
    BY <1>4, Zenon
  <2> HIDE DEF Upto
  <2>3. IsFiniteSet(Upto(i))
    <3>1. IsFiniteSet(1 .. Len(s))
      BY FS_Interval
    <3> QED BY <2>1, <3>1, FS_Subset
  <2>4. \A S : IsFiniteSet(S) /\ Cardinality(S) = 1 => \E x : S = {x}
    BY FS_Singleton
  <2>5. \E x : Upto(i) = {x}
    BY <2>2, <2>3, <2>4, Zenon
  <2>6. \A j \in Lines(s) : j <= i => j = i
    BY <2>1, <2>5
  <2> QED BY <1>2, <2>1, <2>6
<1> HIDE DEF last
<1>5. CASE last = {}
  <2>1. Lines(s) = {}
    <3>1. SUFFICES ASSUME Lines(s) # {} PROVE FALSE
      OBVIOUS
    <3>2. \E i \in Lines(s) : \A j \in Lines(s) : i <= j
      BY <1>2, <3>1, LeastExists
    <3> QED BY <1>3, <1>5, <3>2
  <2>2. FirstLines(s, 1) = SubSeq(s, 1, Len(s))
    BY <1>1, <1>5 DEF UpTo
  <2>3. Len(s) \in 0 .. Len(s) /\ \A j \in 1 .. Len(s) : s[j] # "nl"
    BY <1>2, <2>1
  <2> QED BY <2>2, <2>3
<1>6. CASE last # {}
  <2>1. PICK i \in last : k = i - 1
    BY <1>6
  <2>2. i \in 1 .. Len(s) /\ s[i] = "nl"
    BY <1>2, <1>4
  <2>3. FirstLines(s, 1) = SubSeq(s, 1, i - 1)
    <3> HIDE DEF k
    <3> QED BY <1>1, <2>1, <2>2 DEF UpTo
  <2>4. ASSUME NEW j \in 1 .. i - 1, s[j] = "nl" PROVE FALSE
    <3>1. j \in DOMAIN s /\ ~(i <= j)
      BY <2>2, <2>4
    <3>2. j \in Lines(s)
      BY <1>2, <2>4, <3>1
    <3> QED BY <1>4, <3>1, <3>2
  <2>5. i - 1 \in 0 .. Len(s) /\ (i - 1) + 1 = i
    BY <2>2
  <2> QED BY <2>2, <2>3, <2>4, <2>5
<1> QED BY <1>5, <1>6

\* What is trimmed is empty when there is no ink.
LEMMA TrimmedHasInk ==
  ASSUME NEW s \in Seq(Byte)
  PROVE  Trimmed(s) # <<>> <=> Ink(s) # {}
<1>1. CASE Ink(s) = {}
  BY <1>1 DEF Trimmed, Ink
<1>2. CASE Ink(s) # {}
  <2>1. PICK a \in Ink(s), b \in Ink(s) : a <= b /\ Trimmed(s) = SubSeq(s, a, b)
    BY <1>2, TrimmedIs
  <2>2. /\ a \in 1 .. Len(s) + 1 /\ b \in 0 .. Len(s) /\ a <= b + 1
        /\ b - a + 1 >= 1
    BY <2>1 DEF Ink
  <2>3. Len(Trimmed(s)) = b - a + 1
    BY <2>1, <2>2, CutIs
  <2> QED BY <1>2, <2>2, <2>3
<1> QED BY <1>1, <1>2

LEMMA FirstLineIs ==
  ASSUME NEW s \in Seq(Byte)
  PROVE  Trimmed(FirstLines(s, 1)) # <<>>
           <=> \E i \in DOMAIN s : s[i] \notin White /\ \A j \in 1 .. i : s[j] # "nl"
<1>1. PICK m \in 0 .. Len(s) : /\ FirstLines(s, 1) = SubSeq(s, 1, m)
                               /\ m < Len(s) => s[m + 1] = "nl"
                               /\ \A j \in 1 .. m : s[j] # "nl"
  BY FirstLineEnds
<1> DEFINE f == SubSeq(s, 1, m)
           inked == \E i \in 1 .. m : s[i] \notin White
           first == \E i \in DOMAIN s : s[i] \notin White /\ \A j \in 1 .. i : s[j] # "nl"
<1>2. f \in Seq(Byte) /\ DOMAIN f = 1 .. m /\ \A i \in 1 .. m : i \in DOMAIN s /\ f[i] = s[i]
  OBVIOUS
<1> HIDE DEF f
<1>3. FirstLines(s, 1) = f
  BY <1>1 DEF f
<1>4. /\ m < Len(s) => s[m + 1] = "nl"
      /\ \A j \in 1 .. m : s[j] # "nl"
  BY <1>1, Zenon
<1>5. Ink(f) # {} <=> inked
  BY <1>2 DEF Ink
<1>6. Trimmed(f) # <<>> <=> Ink(f) # {}
  BY <1>2, TrimmedHasInk
<1>7. inked => first
  <2>1. \A i \in 1 .. m : i \in DOMAIN s /\ \A j \in 1 .. i : j \in 1 .. m
    BY <1>2
  <2> QED BY <1>4, <2>1, Zenon
<1>8. first => inked
  <2>1. SUFFICES ASSUME NEW i \in DOMAIN s, s[i] \notin White,
                        \A j \in 1 .. i : s[j] # "nl"
                 PROVE  i \in 1 .. m
    OBVIOUS
  <2>2. i \in 1 .. Len(s) /\ m \in Nat /\ Len(s) \in Nat
    OBVIOUS
  <2>3. ASSUME m < i PROVE m < Len(s) /\ m + 1 \in 1 .. i
    BY <2>2, <2>3
  <2>4. ~(m < i)
    BY <1>4, <2>1, <2>3
  <2> QED BY <2>2, <2>4
<1> HIDE DEF inked, first
<1>9. Trimmed(FirstLines(s, 1)) # <<>> <=> first
  BY <1>3, <1>5, <1>6, <1>7, <1>8, Zenon
<1> QED BY <1>9 DEF first

\* What is recorded of a file that holds s.
LEMMA MimeIs ==
  ASSUME NEW ext \in Allowed, NEW s \in Seq(Byte), s # <<>>
  PROVE  MimeCompatible(ext, Save(ext, s).mime) <=> s[1] # "%PDF"
<1> DEFINE t == UpTo(s, SniffSize)
           mime == Save(ext, s).mime
<1>1. mime = DetectContentType(t)
  BY DEF Save
<1>2. t[1] = s[1]
  <2>1. SniffSize \in Nat /\ SniffSize >= 1 /\ 1 \in DOMAIN s
    BY ContentAssumption
  <2>2. 1 \in DOMAIN t
    BY <2>1, UpToIs
  <2> QED BY <2>1, <2>2, UpToIs
<1> HIDE DEF t, mime
<1>3. CASE s[1] = "%PDF"
  <2>1. mime = "application/pdf"
    BY <1>1, <1>2, <1>3 DEF DetectContentType
  <2>2. ~MimeCompatible(ext, mime)
    BY <2>1 DEF MimeCompatible
  <2> QED BY <1>3, <2>2 DEF mime
<1>4. CASE s[1] # "%PDF"
  <2>1. mime \in {"application/octet-stream", "text/plain"}
    BY <1>1, <1>2, <1>4 DEF DetectContentType
  <2>2. MimeCompatible(ext, mime)
    BY <2>1 DEF MimeCompatible
  <2> QED BY <1>4, <2>2 DEF mime
<1> QED BY <1>3, <1>4

LEMMA MissingIsNoFile == Missing \notin Seq(Byte)
<1>1. "missing" \notin Byte
  BY DEF Byte
<1>2. Missing[1] = "missing" /\ Len(Missing) = 1
  BY DEF Missing
<1>3. \A s \in Seq(Byte) : Len(s) = 1 => s[1] \in Byte
  OBVIOUS
<1> QED BY <1>1, <1>2, <1>3

\* A file that the prefix holds passes exactly when it is acceptable.
LEMMA PassesIs ==
  ASSUME NEW ext \in Ext, NEW s \in Seq(Byte),
         Len(s) <= MaxFileSize, Len(s) <= PrefixSize
  PROVE  Passes(Save(ext, s), s) <=> Acceptable(ext, s)
<1> DEFINE f == Save(ext, s)
<1>1. f.ext = ext /\ f.size = Len(s) /\ f.sha = s
  BY DEF Save
<1>2. UpTo(s, PrefixSize) = s
  <2>1. PrefixSize \in Nat
    BY ContentAssumption
  <2> QED BY <2>1, UpToIs
<1>3. ext \in Allowed <=> ext # ".exe"
  BY DEF Allowed
<1>4. Len(s) # 0 <=> s # <<>>
  OBVIOUS
<1>5. Passes(f, s) <=> /\ ext \in Allowed /\ MimeCompatible(ext, f.mime)
                       /\ ValidMagic(ext, s) /\ s # <<>>
  BY <1>1, <1>2, <1>4, MissingIsNoFile DEF Passes
<1>6. ASSUME ext \in Allowed, s # <<>>
      PROVE  MimeCompatible(ext, f.mime) <=> s[1] # "%PDF"
  BY <1>6, MimeIs
<1>7. Trimmed(FirstLines(s, 1)) # <<>>
        <=> \E i \in DOMAIN s : s[i] \notin White /\ \A j \in 1 .. i : s[j] # "nl"
  BY FirstLineIs
<1> HIDE DEF f
<1> DEFINE nul == Has(s, "nul")
           pdf == s[1] = "%PDF"
           json == ext = ".json" => Trimmed(s) = <<>> \/ Trimmed(s)[1] = "open"
           line == Trimmed(FirstLines(s, 1)) # <<>>
           first == \E i \in DOMAIN s : s[i] \notin White /\ \A j \in 1 .. i : s[j] # "nl"
<1>8. ValidMagic(ext, s) <=>
        ~nul /\ UTF8(s) /\ json /\ (ext = ".csv" /\ s # <<>> => line)
  BY DEF ValidMagic
<1>9. Acceptable(ext, s) <=>
        /\ ext # ".exe" /\ s # <<>> /\ UTF8(s) /\ ~nul /\ ~pdf /\ json
        /\ ext = ".csv" => first
  BY DEF Acceptable, IsText
<1> HIDE DEF nul, pdf, json, line, first
<1> QED BY <1>3, <1>5, <1>6, <1>7, <1>8, <1>9 DEF nul, pdf, line, first, f

-------------------------------------------------------------------------------
(***************************************************************************)
(* What the stages make of the file.  The row keeps what they decided, and *)
(* the fence makes the copy whose write takes effect the row itself.       *)
(***************************************************************************)
FileIs == /\ \E u \in Uploads : Len(u[2]) <= MaxFileSize /\ file = Save(u[1], u[2])
          /\ disk = Missing \/ disk \in Seq(Byte)

FileInv == IInv /\ FileIs /\ FilesJudged /\ SummaryWhole

LEMMA FileType ==
  ASSUME FileIs
  PROVE  /\ file.ext \in Ext /\ file.sha \in Seq(Byte) /\ Len(file.sha) <= MaxFileSize
         /\ file = Save(file.ext, file.sha)
<1>1. PICK u \in Uploads : Len(u[2]) <= MaxFileSize /\ file = Save(u[1], u[2])
  BY DEF FileIs
<1>2. u[1] \in Ext /\ u[2] \in Seq(Byte)
  BY UploadsAssumption
<1>3. file.ext = u[1] /\ file.sha = u[2]
  BY <1>1 DEF Save
<1> QED BY <1>1, <1>2, <1>3

\* What VALIDATE says of the file that was uploaded.
LEMMA ValidateJudges ==
  ASSUME FileIs, Len(file.sha) <= PrefixSize
  PROVE  /\ Validate(file, disk) = "" => Acceptable(file.ext, file.sha)
         /\ Validate(file, disk) # "" /\ disk = file.sha => ~Acceptable(file.ext, file.sha)
<1>1. Passes(file, file.sha) <=> Acceptable(file.ext, file.sha)
  BY FileType, PassesIs
<1>2. Passes(file, disk) => disk = file.sha
  BY DEF Passes
<1> QED BY <1>1, <1>2, ValidateIs

\* A write that takes effect is of the row, and sets what it says.
LEMMA WriteSets ==
  ASSUME IInv, NEW copy \in copies, NEW new, Write(copy, new),
         {"stage", "code", "summary"} \subseteq DOMAIN new
  PROVE  \/ row' = row
         \/ /\ copy = row /\ row'.stage = new.stage /\ row'.code = new.code
            /\ row'.summary = new.summary
BY DEF Write, IInv, CopiesFenced

LEMMA CompleteSets ==
  ASSUME IInv, NEW copy \in copies, NEW summary, Complete(copy, summary)
  PROVE  \/ row' = row
         \/ /\ copy = row /\ row.stage = "DONE" /\ row'.stage = "DONE"
            /\ row'.summary = row.summary /\ row'.code = row.code
         \/ /\ copy = row /\ row.stage # "DONE" /\ row'.stage = NextStage[row.stage]
            /\ row'.code = "" /\ row'.summary = summary
<1>1. Timed(copy)
  BY DEF IInv, Types, TypeOK
<1>2. CASE copy.stage = "DONE"
  <2> DEFINE new == [copy EXCEPT !.status = "SUCCEEDED", !.attempts = 0]
  <2>1. Write(copy, new)
    BY <1>2 DEF Complete
  <2>2. /\ {"stage", "code", "summary"} \subseteq DOMAIN new
        /\ new.stage = copy.stage /\ new.summary = copy.summary
        /\ new.code = copy.code
    BY <1>1 DEF Timed
  <2> HIDE DEF new
  <2> QED BY <1>2, <2>1, <2>2, WriteSets
<1>3. CASE copy.stage # "DONE"
  <2> DEFINE new == [copy EXCEPT !.status = "PENDING", !.stage = NextStage[@],
                                 !.attempts = 0, !.code = "",
                                 !.summary = summary, !.next = now]
  <2>1. Write(copy, new)
    BY <1>3 DEF Complete
  <2>2. /\ {"stage", "code", "summary"} \subseteq DOMAIN new
        /\ new.stage = NextStage[copy.stage] /\ new.code = ""
        /\ new.summary = summary
    BY <1>1 DEF Timed
  <2> HIDE DEF new
  <2> QED BY <1>3, <2>1, <2>2, WriteSets
<1> QED BY <1>2, <1>3

LEMMA FailSets ==
  ASSUME IInv, NEW copy \in copies, NEW code, FailStage(copy, code)
  PROVE  \/ row' = row
         \/ /\ copy = row /\ row'.stage = row.stage /\ row'.code = code
            /\ row'.summary = row.summary
<1> DEFINE n == copy.attempts + 1
           New(d) == [copy EXCEPT !.status = IF n >= MaxAttempts THEN "FAILED" ELSE "PENDING",
                                  !.attempts = n, !.code = code,
                                  !.next = IF n >= MaxAttempts THEN now ELSE now + d]
<1>1. Timed(copy)
  BY DEF IInv, Types, TypeOK
<1>2. PICK d \in Delay(n) : Write(copy, New(d))
  BY DEF FailStage
<1>3. /\ {"stage", "code", "summary"} \subseteq DOMAIN New(d)
      /\ New(d).stage = copy.stage /\ New(d).code = code
      /\ New(d).summary = copy.summary
  BY <1>1 DEF Timed
<1> HIDE DEF New
<1> QED BY <1>2, <1>3, WriteSets

\* What a worker makes of the file of its row.
LEMMA ProcessSets ==
  ASSUME IInv, NEW copy \in copies, Process(copy)
  PROVE  \/ row' = row
         \/ /\ row.stage = "VALIDATE" /\ row'.stage = "EXTRACT"
            /\ Validate(file, disk) = ""
         \/ /\ row.stage = "VALIDATE" /\ row'.stage = "VALIDATE"
            /\ Validate(file, disk) # ""
         \/ /\ row.stage = "EXTRACT" /\ row'.stage = "EXTRACT"
         \/ /\ row.stage = "EXTRACT" /\ row'.stage = "SCAN"
            /\ Extractable(file, disk) /\ row'.summary = Extract(file, disk)
         \/ /\ row.stage \in {"SCAN", "DONE"} /\ row'.stage \in {"SCAN", "DONE"}
            /\ row'.summary = row.summary
<1>1. copy.stage \in {"VALIDATE", "EXTRACT", "SCAN", "DONE"}
  BY DEF IInv, Types, TypeOK, Timed
<1>2. /\ NextStage["VALIDATE"] = "EXTRACT" /\ NextStage["EXTRACT"] = "SCAN"
      /\ NextStage["SCAN"] = "DONE"
  BY DEF NextStage
<1>3. CASE copy.stage = "VALIDATE"
  <2>1. CASE Validate(file, disk) = ""
    <3>1. Complete(copy, copy.summary)
      BY <1>3, <2>1 DEF Process
    <3> QED BY <1>2, <1>3, <2>1, <3>1, CompleteSets
  <2>2. CASE Validate(file, disk) # ""
    <3>1. FailStage(copy, Validate(file, disk))
      BY <1>3, <2>2 DEF Process
    <3>2. row' = row \/ (copy = row /\ row'.stage = row.stage)
      BY <3>1, FailSets
    <3> QED BY <1>3, <2>2, <3>2
  <2> QED BY <2>1, <2>2
<1>4. CASE copy.stage = "EXTRACT"
  <2>1. CASE Extractable(file, disk)
    <3>1. Complete(copy, Extract(file, disk))
      BY <1>4, <2>1 DEF Process
    <3> QED BY <1>2, <1>4, <2>1, <3>1, CompleteSets
  <2>2. CASE ~Extractable(file, disk)
    <3>1. FailStage(copy, "ERR_EXTRACT_FAILED")
      BY <1>4, <2>2 DEF Process
    <3>2. row' = row \/ (copy = row /\ row'.stage = row.stage)
      BY <3>1, FailSets
    <3> QED BY <1>4, <3>2
  <2> QED BY <2>1, <2>2
<1>5. CASE copy.stage \in {"SCAN", "DONE"}
  <2>1. Complete(copy, copy.summary) \/ FailStage(copy, "ERR_SCAN_FAILED")
    BY <1>5 DEF Process
  <2> QED BY <1>2, <1>5, <2>1, CompleteSets, FailSets
<1> QED BY <1>1, <1>3, <1>4, <1>5

\* A step that changes neither what the row says of the file, but for taking
\* back its code, nor the file, but for damage.
LEMMA FileIdle ==
  ASSUME FileInv, row'.stage = row.stage, row'.code \in {row.code, ""},
         row'.summary = row.summary, file' = file,
         disk' = disk \/ disk' # file.sha
  PROVE  FilesJudged' /\ SummaryWhole'
BY DEF FileInv, FilesJudged, SummaryWhole

LEMMA FileProcess ==
  ASSUME FileInv, NEW copy \in copies, Process(copy)
  PROVE  FilesJudged' /\ SummaryWhole'
<1> USE DEF FileInv
<1>1. file' = file /\ disk' = disk
  BY DEF Process
<1>2. CASE row' = row
  BY <1>1, <1>2 DEF FilesJudged, SummaryWhole
<1>3. CASE row.stage = "VALIDATE" /\ row'.stage = "EXTRACT" /\ Validate(file, disk) = ""
  BY <1>1, <1>3, ValidateJudges DEF FilesJudged, SummaryWhole
<1>4. CASE row.stage = "VALIDATE" /\ row'.stage = "VALIDATE" /\ Validate(file, disk) # ""
  BY <1>1, <1>4, ValidateJudges DEF FilesJudged, SummaryWhole
<1>5. CASE row.stage = "EXTRACT" /\ row'.stage = "EXTRACT"
  BY <1>1, <1>5 DEF FilesJudged, SummaryWhole
<1>6. CASE /\ row.stage = "EXTRACT" /\ row'.stage = "SCAN"
           /\ Extractable(file, disk) /\ row'.summary = Extract(file, disk)
  <2>1. disk \in Seq(Byte)
    BY <1>6 DEF FileIs, Extractable
  <2>2. /\ Len(row'.summary) <= MaxSummarySize
        /\ UTF8(disk) => UTF8(row'.summary)
    BY <1>6, <2>1, FileType, ExtractIsWhole
  <2> QED BY <1>1, <1>6, <2>2 DEF FilesJudged, SummaryWhole
<1>7. CASE /\ row.stage \in {"SCAN", "DONE"} /\ row'.stage \in {"SCAN", "DONE"}
           /\ row'.summary = row.summary
  BY <1>1, <1>7 DEF FilesJudged, SummaryWhole
<1> QED BY <1>2, <1>3, <1>4, <1>5, <1>6, <1>7, ProcessSets

LEMMA FileInit == Init => FileInv
<1> SUFFICES ASSUME Init PROVE FileInv
  OBVIOUS
<1>1. IInv
  BY InitIsInductive
<1>2. row.stage = "VALIDATE" /\ row.code = ""
  BY Zenon DEF Init
<1>3. PICK u \in Uploads : Len(u[2]) <= MaxFileSize /\ file = Save(u[1], u[2]) /\ disk = u[2]
  BY Zenon DEF Init
<1>4. FileIs
  BY <1>3, UploadsAssumption DEF FileIs
<1>5. FilesJudged /\ SummaryWhole
  BY <1>2 DEF FilesJudged, SummaryWhole
<1> QED BY <1>1, <1>4, <1>5 DEF FileInv

LEMMA FileStep == FileInv /\ [Next]_vars => FileInv'
<1> SUFFICES ASSUME FileInv, [Next]_vars PROVE FileInv'
  OBVIOUS
<1>1. IInv'
  BY StepKeeps DEF FileInv
<1>2. file' = file /\ (disk' = disk \/ (disk = file.sha /\ disk' # disk
                                         /\ disk' \in {Missing, <<"a">>}))
  BY DEF Next, Claim, Process, ReclaimExpired, Crash, Tick, Damage, vars
<1>3. FileIs'
  <2>1. <<"a">> \in Seq(Byte)
    <3>1. "a" \in Byte
      BY DEF Byte
    <3> QED BY <3>1
  <2> QED BY <1>2, <2>1 DEF FileInv, FileIs
<1>4. ASSUME NEW copy \in copies, Process(copy) PROVE FilesJudged' /\ SummaryWhole'
  BY <1>4, FileProcess
<1>5. ASSUME Claim \/ ReclaimExpired \/ Crash \/ Tick \/ Damage \/ UNCHANGED vars
      PROVE  FilesJudged' /\ SummaryWhole'
  <2>1. /\ row'.stage = row.stage /\ row'.code \in {row.code, ""}
        /\ row'.summary = row.summary
    <3>1. Timed(row)
      BY DEF FileInv, IInv, Types, TypeOK
    <3>2. CASE Claim
      BY <3>1, <3>2 DEF Claim, Timed
    <3>3. CASE ReclaimExpired
      BY <3>1, <3>3 DEF ReclaimExpired, Timed
    <3>4. CASE Crash \/ Tick \/ Damage \/ UNCHANGED vars
      BY <3>4 DEF Crash, Tick, Damage, vars
    <3> QED BY <1>5, <3>2, <3>3, <3>4
  <2>2. disk' = disk \/ disk' # file.sha
    BY <1>2
  <2> QED BY <1>2, <2>1, <2>2, FileIdle
<1> QED BY <1>1, <1>3, <1>4, <1>5 DEF FileInv, Next

\* The invariant of a task and its file, inductive.
THEOREM FileInvariant == Spec => []FileInv
<1> QED BY FileInit, FileStep, PTL DEF Spec

\* Whatever is lost, reclaimed or written over meanwhile, the files that pass
\* VALIDATE are the acceptable ones; an acceptable one fails only when it is
\* no longer what was uploaded.
THEOREM FilesAreJudged == Spec => []FilesJudged
<1>1. FileInv => FilesJudged
  BY DEF FileInv
<1> QED BY <1>1, FileInvariant, PTL

\* No summary is over its limit, and none of a text ends within a character.
THEOREM SummariesAreWhole == Spec => []SummaryWhole
<1>1. FileInv => SummaryWhole
  BY DEF FileInv
<1> QED BY <1>1, FileInvariant, PTL

-------------------------------------------------------------------------------
(***************************************************************************)
(* Which texts VALIDATE refuses: those its prefix cuts within a character. *)
(***************************************************************************)
LEMMA FirstCodeFails ==
  ASSUME NEW checks, DOMAIN checks \in SUBSET Nat, FirstCode(checks) # ""
  PROVE  \E i \in DOMAIN checks : ~checks[i][1] /\ FirstCode(checks) = checks[i][2]
<1> DEFINE failed == {i \in DOMAIN checks : ~checks[i][1]}
           first == CHOOSE i \in failed : \A j \in failed : i <= j
<1>1. FirstCode(checks) = IF failed = {} THEN "" ELSE checks[first][2]
  BY Zenon DEF FirstCode
<1>2. \A i \in failed : i \in DOMAIN checks /\ ~checks[i][1]
  OBVIOUS
<1> HIDE DEF failed
<1>3. failed # {} /\ failed \in SUBSET Nat
  BY <1>1, <1>2
<1>4. \E i \in failed : \A j \in failed : i <= j
  BY <1>3, LeastExists
<1>5. first \in failed
  BY <1>4, Zenon
<1> QED BY <1>1, <1>2, <1>3, <1>5, Zenon

LEMMA MagicMismatchIs ==
  ASSUME NEW f, NEW s, Validate(f, s) = "ERR_MAGIC_MISMATCH", s # Missing
  PROVE  ~ValidMagic(f.ext, UpTo(s, PrefixSize))
<1> DEFINE c1 == f.ext \in Allowed
           c2 == MimeCompatible(f.ext, f.mime)
           c3 == s # Missing
           c4 == ValidMagic(f.ext, UpTo(s, PrefixSize))
           c5 == f.size # 0
           c6 == f.size <= MaxFileSize
           c7 == s = f.sha
           checks == << <<c1, "ERR_UNSUPPORTED_EXTENSION">>,
                        <<c2, "ERR_MIME_MISMATCH">>,
                        <<c3, "ERR_MAGIC_MISMATCH">>,
                        <<c4, "ERR_MAGIC_MISMATCH">>,
                        <<c5, "ERR_EMPTY_FILE">>,
                        <<c6, "ERR_FILE_TOO_LARGE">>,
                        <<c7, "ERR_HASH_MISMATCH">> >>
<1>1. FirstCode(checks) = "ERR_MAGIC_MISMATCH"
  BY DEF Validate
<1>2. c3
  OBVIOUS
<1> SUFFICES ~c4
  OBVIOUS
<1> HIDE DEF c1, c2, c3, c4, c5, c6, c7
<1>3. /\ DOMAIN checks = 1 .. 7 /\ checks[3][1] = c3 /\ checks[4][1] = c4
      /\ \A i \in 1 .. 7 : i \notin {3, 4} => checks[i][2] # "ERR_MAGIC_MISMATCH"
  OBVIOUS
<1> HIDE DEF checks
<1>4. DOMAIN checks \in SUBSET Nat
  BY <1>3
<1>5. PICK i \in DOMAIN checks : ~checks[i][1] /\ checks[i][2] = "ERR_MAGIC_MISMATCH"
  BY <1>1, <1>4, FirstCodeFails
<1>6. i = 3 \/ i = 4
  BY <1>3, <1>5
<1> QED BY <1>2, <1>3, <1>5, <1>6, Zenon

\* A text whose prefix is none is cut within a character.
LEMMA CutWithin ==
  ASSUME NEW s \in Seq(Byte), IsText(s), ~ValidMagic(".txt", UpTo(s, PrefixSize))
  PROVE  Len(s) > PrefixSize /\ s[PrefixSize] = "lead"
<1> DEFINE t == UpTo(s, PrefixSize)
<1>1. PrefixSize \in Nat \ {0}
  BY ContentAssumption
<1>2. ~Has(t, "nul")
  BY <1>1, UpToIs DEF IsText, Has
<1>3. ~UTF8(t)
  BY <1>2 DEF ValidMagic
<1>4. UTF8(s)
  BY DEF IsText
<1>5. Len(s) > PrefixSize
  <2>1. Len(s) <= PrefixSize => t = s
    BY <1>1, UpToIs
  <2> HIDE DEF t
  <2> QED BY <1>1, <1>3, <1>4, <2>1
<1>6. t = SubSeq(s, 1, PrefixSize)
  BY <1>5 DEF UpTo
<1>7. s[PrefixSize + 1] = "cont"
  <2>1. SUFFICES ASSUME s[PrefixSize + 1] # "cont" PROVE UTF8(t)
    BY <1>3
  <2>2. /\ 1 \in 1 .. Len(s) + 1 /\ PrefixSize \in 0 .. Len(s)
        /\ 1 <= PrefixSize + 1
    BY <1>1, <1>5
  <2>3. s[1] # "cont"
    <3>1. 1 \in DOMAIN s
      BY <1>1, <1>5
    <3> QED BY <1>4, <3>1 DEF UTF8
  <2> HIDE DEF t
  <2> QED BY <1>4, <1>6, <2>1, <2>2, <2>3, CutIsText
<1>8. PrefixSize + 1 \in DOMAIN s /\ (PrefixSize + 1) - 1 = PrefixSize
  BY <1>1, <1>5
<1> QED BY <1>4, <1>5, <1>7, <1>8 DEF UTF8

\* A code that VALIDATE gave is what it would say again.
CodeSaid == row.code = "ERR_MAGIC_MISMATCH" /\ disk = file.sha =>
              Validate(file, disk) = "ERR_MAGIC_MISMATCH"

\* The codes a worker may leave on its row.
LEMMA ProcessCodes ==
  ASSUME IInv, NEW copy \in copies, Process(copy)
  PROVE  row'.code \in {row.code, "", Validate(file, disk),
                        "ERR_EXTRACT_FAILED", "ERR_SCAN_FAILED"}
<1>1. ASSUME NEW code, FailStage(copy, code) PROVE row'.code \in {row.code, code}
  BY <1>1, FailSets
<1>2. ASSUME NEW summary, Complete(copy, summary) PROVE row'.code \in {row.code, ""}
  BY <1>2, CompleteSets
<1>3. \/ \E summary : Complete(copy, summary)
      \/ FailStage(copy, Validate(file, disk))
      \/ FailStage(copy, "ERR_EXTRACT_FAILED")
      \/ FailStage(copy, "ERR_SCAN_FAILED")
  <2>1. copy.stage \in {"VALIDATE", "EXTRACT", "SCAN", "DONE"}
    BY DEF IInv, Types, TypeOK, Timed
  <2>2. CASE copy.stage = "VALIDATE"
    BY <2>2 DEF Process
  <2>3. CASE copy.stage = "EXTRACT"
    BY <2>3 DEF Process
  <2>4. CASE copy.stage \in {"SCAN", "DONE"}
    BY <2>4 DEF Process
  <2> QED BY <2>1, <2>2, <2>3, <2>4
<1>4. CASE \E summary : Complete(copy, summary)
  BY <1>2, <1>4
<1>5. CASE FailStage(copy, Validate(file, disk))
  BY <1>1, <1>5
<1>6. CASE FailStage(copy, "ERR_EXTRACT_FAILED")
  BY <1>1, <1>6
<1>7. CASE FailStage(copy, "ERR_SCAN_FAILED")
  BY <1>1, <1>7
<1> QED BY <1>3, <1>4, <1>5, <1>6, <1>7

LEMMA CodeStep == FileInv /\ CodeSaid /\ [Next]_vars => CodeSaid'
<1> SUFFICES ASSUME FileInv, CodeSaid, [Next]_vars PROVE CodeSaid'
  OBVIOUS
<1>1. Timed(row)
  BY DEF FileInv, IInv, Types, TypeOK
<1>2. CASE Claim
  BY <1>1, <1>2 DEF Claim, CodeSaid, Timed
<1>3. CASE ReclaimExpired
  BY <1>1, <1>3 DEF ReclaimExpired, CodeSaid, Timed
<1>4. CASE Crash \/ Tick \/ Damage \/ UNCHANGED vars
  BY <1>4 DEF Crash, Tick, Damage, vars, CodeSaid
<1>5. ASSUME NEW copy \in copies, Process(copy) PROVE CodeSaid'
  <2>1. file' = file /\ disk' = disk
    BY <1>5 DEF Process
  <2>2. row'.code \in {row.code, "", Validate(file, disk),
                       "ERR_EXTRACT_FAILED", "ERR_SCAN_FAILED"}
    BY <1>5, ProcessCodes DEF FileInv
  <2> QED BY <2>1, <2>2 DEF CodeSaid
<1> QED BY <1>2, <1>3, <1>4, <1>5 DEF Next

\* The one way in which Validate refuses a text: its prefix ends within a
\* character. This is all that TextIsAccepted misses.
THEOREM RefusedOnlyWhenCut == Spec => []RefusedWhenCut
<1>1. Init => CodeSaid
  <2> SUFFICES ASSUME Init PROVE CodeSaid
    OBVIOUS
  <2>1. row.code = ""
    BY Zenon DEF Init
  <2> QED BY <2>1 DEF CodeSaid
<1>2. FileInv /\ CodeSaid => RefusedWhenCut
  <2> SUFFICES ASSUME FileInv, CodeSaid, file.ext = ".txt", IsText(file.sha),
                      disk = file.sha, row.code = "ERR_MAGIC_MISMATCH"
               PROVE  Len(file.sha) > PrefixSize /\ file.sha[PrefixSize] = "lead"
    BY DEF RefusedWhenCut
  <2>1. file.sha \in Seq(Byte) /\ disk # Missing
    BY FileType, MissingIsNoFile DEF FileInv
  <2>2. ~ValidMagic(".txt", UpTo(file.sha, PrefixSize))
    BY <2>1, MagicMismatchIs DEF CodeSaid
  <2> QED BY <2>1, <2>2, CutWithin
<1> QED BY <1>1, <1>2, CodeStep, FileInvariant, PTL DEF Spec
===============================================================================
