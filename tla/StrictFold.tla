----------------------------- MODULE StrictFold -----------------------------
(* FoldLeft of SequencesExt, for an op that mentions its first argument     *)
(* more than once: TLC evaluates an argument at each mention, and with      *)
(* nested calls that is exponential in the length.  Here the value of a     *)
(* prefix is bound before op is applied to it.                              *)
EXTENDS Naturals, Sequences

FoldStrictly(op(_, _), base, seq) ==
  LET upTo[n \in 0 .. Len(seq)] ==
        IF n = 0 THEN base
        ELSE CHOOSE y \in {op(x, seq[n]) : x \in {upTo[n - 1]}} : TRUE
  IN  upTo[Len(seq)]
=============================================================================
