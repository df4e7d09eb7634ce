----------------------------- MODULE Timestamps -----------------------------
(***************************************************************************)
(* The timestamps that the store keeps in its TEXT columns.                *)
(*                                                                         *)
(* Every time is written with time.RFC3339Nano (sqliteTimeFormat), and SQL *)
(* compares the texts, not the times.  RFC3339Nano drops the trailing      *)
(* zeros of the fraction, and the point too when the fraction is zero:     *)
(* "00:00:07Z" but "00:00:07.5Z".  Because 'Z' sorts after '.' and after   *)
(* every digit, the text of a whole second is greater than the text of     *)
(* every other instant of that second.                                     *)
(*                                                                         *)
(* A time is a number of ticks and a second holds TicksPerSecond of them:  *)
(* the fraction is one digit, which either is zero and disappears or is    *)
(* not.  A longer fraction repeats the same effect at every digit.  With   *)
(* TicksPerSecond = 1 no text has a fraction and the order is the order of *)
(* the times.                                                              *)
(***************************************************************************)
EXTENDS Integers

CONSTANT TicksPerSecond

\* One fraction digit can tell at most ten instants of a second apart.
ASSUME TicksAssumption == TicksPerSecond \in 1..10

(* SQL NULL in a timestamp column. *)
NullTime == -1

(* The rank of the text of t among all texts. *)
TextRank(t) ==
    LET fraction == t % TicksPerSecond
    IN  t - fraction + (IF fraction = 0 THEN TicksPerSecond ELSE fraction)

(* The SQL comparisons a < b and a <= b on timestamp columns. *)
TextLess(a, b) == TextRank(a) < TextRank(b)
TextLeq(a, b)  == TextRank(a) <= TextRank(b)
=============================================================================
