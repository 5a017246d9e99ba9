--------------------------- MODULE MCHybridClock ---------------------------
(* HybridClock for TLC: one device with a durable store, one with a store  *)
(* that writes late, so the two are not interchangeable.                   *)
EXTENDS HybridClock

CONSTANTS d1, d2

\* The device that saves durably talks most.
FewCalls == [d \in Device |-> IF d = d1 THEN 2 ELSE 1]

ThreeCalls == [d \in Device |-> 3]

=============================================================================
