-------------------------------- MODULE Lines --------------------------------
(***************************************************************************)
(* What a line of the queue keeps when a whole-state write joins it          *)
(* (src/src/kernel/core/writeQueue.ts).                                      *)
(***************************************************************************)
EXTENDS Naturals, Sequences

\* line.filter: those of a line that are in a set, in the line's order.
Only(s, S) ==
    LET upto[i \in 0 .. Len(s)] ==
            IF i = 0 THEN <<>>
            ELSE IF s[i] \in S THEN Append(upto[i - 1], s[i]) ELSE upto[i - 1]
    IN  upto[Len(s)]

=============================================================================
