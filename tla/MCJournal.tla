----------------------------- MODULE MCJournal -----------------------------
(***************************************************************************)
(* Journal for TLC: no surface differs from another.  One surface that is  *)
(* edited twice, damaged and pushed; one that is edited by both sides,      *)
(* damaged and pulled; and two whose brackets overlap a compaction, opened  *)
(* by the application or the paper command.                                 *)
(***************************************************************************)
EXTENDS Journal, TLC

Pushing(k) ==
    [keys |-> {k}, recover |-> {TRUE}, link |-> {"push"},
     local |-> 2, remote |-> 0, moreAtOpen |-> 0, rots |-> 1]

Pulling(k) == [Pushing(k) EXCEPT !.link = {"pull"}, !.local = 1, !.remote = 1]

Compacting ==
    [keys |-> Key, recover |-> BOOLEAN, link |-> {},
     local |-> 3, remote |-> 0, moreAtOpen |-> 1, rots |-> 0]

AllCasts == {Pushing(k) : k \in Key} \cup {Pulling(k) : k \in Key} \cup {Compacting}

Symmetry == Permutations(Key)

=============================================================================
