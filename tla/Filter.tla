-------------------------------- MODULE Filter --------------------------------
(***************************************************************************)
(* The elements of a sequence that satisfy a condition, in their order:    *)
(* the filter() and splice() of the queues.  It is SelectSeq, as a         *)
(* recursive function and with the condition as a set: the provers know    *)
(* nothing of SelectSeq.                                                   *)
(***************************************************************************)
EXTENDS Naturals, Sequences

Only(s, S) ==
  LET upTo[n \in 0..Len(s)] ==
        IF n = 0 THEN <<>>
        ELSE IF s[n] \in S THEN Append(upTo[n - 1], s[n]) ELSE upTo[n - 1]
  IN  upTo[Len(s)]
=============================================================================
