--------------------------- MODULE MCSyncSession ---------------------------
(* SyncSession for TLC: the casts. *)
EXTENDS SyncSession

Still == [satchels |-> {1}, adders |-> {}, removers |-> {}, returners |-> {}, swept |-> FALSE,
          skew |-> 1, acts |-> 2, lost |-> 0]

\* One reader removes the book and opens it again, both turn pages.
Away == [Still EXCEPT !.removers = {1}, !.returners = {1}, !.swept = TRUE, !.skew = 2, !.acts = 5]

\* Two satchels turn pages, a connection is lost.
Roaming == [Still EXCEPT !.satchels = {1, 2}, !.acts = 2, !.lost = 1]

\* Everything at once, about one satchel.
Wild == [Still EXCEPT !.adders = {1}, !.removers = {0, 1}, !.returners = {0, 1},
                      !.acts = 3, !.lost = 1]

AllCasts == {Away, Roaming, Wild}

\* The shelf's reader removes the book, and opens it again.
ShelfReturns == {[Still EXCEPT !.removers = {0}, !.returners = {0}, !.acts = 5]}

\* The shelf's reader removes the book for good.
ShelfRemoves == {[Still EXCEPT !.removers = {0}, !.acts = 4]}

\* A satchel's reader opens a removed book again, whose record the trash kept.
Restored == {[Still EXCEPT !.removers = {1}, !.returners = {1}, !.acts = 5]}

=============================================================================
