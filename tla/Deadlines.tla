------------------------------- MODULE Deadlines -------------------------------
(***************************************************************************)
(* Times, as the table keeps them: text, compared as text.  RFC3339Nano    *)
(* writes no trailing zeros of the fraction, and "." < "0".."9" < "Z", so  *)
(* within a second the order of the texts is not the order of the times.   *)
(* And the backoff of internal/service/retry.go, in the same ticks.        *)
(***************************************************************************)
EXTENDS Integers, Sequences

CONSTANTS
  Radix, Digits,   \* a second has Radix^Digits ticks (10 and 9 in the code)
  RetryMax,        \* RetryPolicy.Max, in seconds
  Jitter           \* RetryPolicy.Jitter, in percent

Second == Radix ^ Digits

ASSUME DeadlinesAssumption ==
  /\ Radix \in Nat \ {0, 1} /\ Digits \in Nat
  /\ Second \in Nat \ {0}
  /\ RetryMax \in Nat \ {0} /\ Jitter \in 0 .. 99

\* The characters after the seconds, ordered as in ASCII.
Point == -1
Zulu  == Radix

\* Down to the seconds a text has a fixed width: its order is that of the
\* seconds.  The rest is "Z", or a point, the digits that count, and "Z".
Digit(t, k) == ((t % Second) \div (Radix ^ (Digits - k))) % Radix
LastDigit(t) ==
  CHOOSE n \in 0 .. Digits : /\ n > 0 => Digit(t, n) # 0
                             /\ \A k \in n + 1 .. Digits : Digit(t, k) = 0
FormatTime(t) ==
  [seconds |-> t \div Second,
   rest |-> IF LastDigit(t) = 0 THEN <<Zulu>>
            ELSE <<Point>> \o [k \in 1 .. LastDigit(t) |-> Digit(t, k)] \o <<Zulu>>]

\* Strings are compared character by character; no rest is a prefix of another.
RestLess(a, b) == \E i \in DOMAIN a \cap DOMAIN b :
                    a[i] < b[i] /\ \A j \in 1 .. i - 1 : a[j] = b[j]
TextLess(a, b) == \/ a.seconds < b.seconds
                  \/ a.seconds = b.seconds /\ RestLess(a.rest, b.rest)

\* "a < b" and "a <= b" of two columns.
Before(a, b)    == TextLess(FormatTime(a), FormatTime(b))
NotAfter(a, b)  == Before(a, b) \/ FormatTime(a) = FormatTime(b)

-------------------------------------------------------------------------------
\* Delay(attempt): doubled from a second on, capped, and only then spread.
Spread(seconds) == (seconds * Second * (100 - Jitter)) \div 100
                     .. (seconds * Second * (100 + Jitter)) \div 100
Doubled(n) == 2 ^ (n - 1)
DelayVariant(n)    == Spread(Doubled(n))             \* no cap
DelayVariantAll(n) ==                                \* jitter down to nothing
  0 .. (IF Doubled(n) > RetryMax THEN RetryMax ELSE Doubled(n)) * Second
Delay(n) == Spread(IF Doubled(n) > RetryMax THEN RetryMax ELSE Doubled(n))
===============================================================================
