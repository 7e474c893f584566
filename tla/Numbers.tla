------------------------------- MODULE Numbers --------------------------------
(***************************************************************************)
(* Strings that are numbers, as the string and hash commands tell them     *)
(* apart (util.c, object.c).  Characters are numbers: 0 to 9 the digits,   *)
(* 10 the minus, 11 a letter, 12 the zero byte.  Integers are -9 to 8, so  *)
(* that they have one digit and the range is as lopsided as a long long's. *)
(***************************************************************************)
EXTENDS Integers, Sequences, SequencesExt

LLONG_MIN == 0 - 9
LLONG_MAX == 8
Minus == 10

ll2string(n) == IF n < 0 THEN <<Minus, -n>> ELSE IF n > 9 THEN <<n \div 10, n % 10>> ELSE <<n>>

Digits(s) == s # <<>> /\ \A i \in DOMAIN s : s[i] \in 0..9
Decimal(s) == FoldLeft(LAMBDA n, d : 10 * n + d, 0, s)

\* The canonical form only: no leading zero, no minus zero, within the range.
IsInteger(s) ==
    \/ Len(s) = 1 /\ s[1] \in 0..LLONG_MAX
    \/ Len(s) = 2 /\ s[1] = Minus /\ s[2] \in 1..(0 - LLONG_MIN)
string2ll(s) == IF s[1] = Minus THEN 0 - s[2] ELSE s[1]

\* strtold() also takes leading zeroes.
IsFloat(s) == Digits(s) \/ (s # <<>> /\ s[1] = Minus /\ Digits(Tail(s)))
strtold(s) == IF s[1] = Minus THEN 0 - Decimal(Tail(s)) ELSE Decimal(s)

\* The check of INCRBY and HINCRBY before they add.
WouldOverflow(old, incr) ==
    \/ incr < 0 /\ old < 0 /\ incr < LLONG_MIN - old
    \/ incr > 0 /\ old > 0 /\ incr > LLONG_MAX - old
=============================================================================
