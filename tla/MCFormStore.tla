----------------------------- MODULE MCFormStore -----------------------------
(* Small instances of FormStore for TLC. *)
EXTENDS FormStore, TLC

CONSTANTS t1, t2, c1, c2, k1, k2, short, long

\* A short line and one twice as long: with room for three bytes, a form of
\* <<long, long>> runs one byte past regbuf, and one of three is too long.
MCLineSize == [l \in Lines |-> IF l = long THEN 2 ELSE 1]

==============================================================================
