---------------------------- MODULE MCFlatStore ----------------------------
(* FlatStore with its two keys; the browser has a list of cards, and somebody *)
(* flushes who wrote nothing (the close of the window).                      *)
EXTENDS FlatStore, TLC

OldCards == [k \in Key |-> IF k = cards THEN 1 ELSE 0]

=============================================================================
