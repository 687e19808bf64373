----------------------------- MODULE SeqNumbers -----------------------------
(***************************************************************************)
(* The unsigned 32-bit sequence numbers of the journals, as every storage  *)
(* counts and compares them: a save has the number after that of the data  *)
(* it follows, and its parity names the file it goes to.                   *)
(***************************************************************************)
EXTENDS Integers

CONSTANT HalfSeq  \* half the range of a sequence number (2^31 in the program)

Seq32 == 0..(2 * HalfSeq - 1)
Files == 0..1

\* Unsigned 32-bit increment of a sequence number.
Succ(s) == IF s = 2 * HalfSeq - 1 THEN 0 ELSE s + 1

\* Fault: an unsigned comparison.
NewerUnsigned(a, b) == a > b

\* (s32)(a - b) > 0 on 32-bit numbers.
Newer(a, b) ==
    LET d == IF a >= b THEN a - b ELSE a - b + 2 * HalfSeq
    IN  0 < d /\ d < HalfSeq

\* Fault: there is only one journal.
TargetOne(s) == 1

\* The file a save that follows sequence s rewrites.
Target(s) == Succ(s) % 2
=============================================================================
