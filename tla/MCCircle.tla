------------------------------ MODULE MCCircle ------------------------------
(***************************************************************************)
(* Values for TLC: what is published, by whom, and what comes between.      *)
(***************************************************************************)
EXTENDS Circle

CONSTANTS d1, d2, p1, p2

Never == [e \in Event |-> 0]
Follow(of, devices, v, times) ==
    [log |-> of, devices |-> devices, speaks |-> v, copied |-> FALSE, hasty |-> FALSE, times |-> times]

\* The person is forgotten and met again, the book comes and goes, the process dies.
Parts ==
    Follow("book", {d1}, 2, [Never EXCEPT !["publish"] = 2, !["forget"] = 1, !["meet"] = 2,
                                          !["restart"] = 1, !["move"] = 1])
\* The same of a shelf, which may be hidden.
PartsFromShelf ==
    Follow("shelf", {d1}, 2, [Never EXCEPT !["publish"] = 1, !["forget"] = 1, !["meet"] = 2, !["hide"] = 1])
\* Others are served first, under another frame.
ServesOthers == Follow("book", {d1}, 2, [Never EXCEPT !["publish"] = 3, !["serve"] = 1, !["reframe"] = 1])
\* Both devices publish; one's store is a copy of the other's, and a call fails.
Copies ==
    [Follow("book", {d1, d2}, 2, [Never EXCEPT !["publish"] = 2, !["lose"] = 1])
        EXCEPT !.copied = TRUE]
\* Each gets a newer build, which serves another chain.
Upgrades == Follow("book", {d1, d2}, 1, [Never EXCEPT !["publish"] = 3, !["upgrade"] = 2])
\* A delegation ends.
Ages == Follow("book", {d1}, 2, [Never EXCEPT !["publish"] = 2, !["reframe"] = 1, !["lapse"] = 1])
\* A shelf is hidden and shown again.
Hides == Follow("shelf", {d1, d2}, 2, [Never EXCEPT !["publish"] = 2, !["hide"] = 2, !["lose"] = 1])

MCCasts == {Parts, PartsFromShelf, ServesOthers, Copies, Upgrades, Ages, Hides}
=============================================================================
