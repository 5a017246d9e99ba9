----------------------------- MODULE MCAppLife -----------------------------
(***************************************************************************)
(* Three commands, whatever is there: the lock's residual needs three.  The *)
(* application alone, whatever is there.  The application with a command    *)
(* beside it, in a library that nobody holds.                               *)
(***************************************************************************)
EXTENDS AppLife

CONSTANTS app, c1, c2, c3, ghost, stranger, empty, none

Processes == {app, c1, c2, c3}
Anything == {ghost, stranger, empty, none}
Casts ==
    {[started |-> {c1, c2, c3}, found |-> Anything],
     [started |-> {app}, found |-> Anything],
     [started |-> {app, c1}, found |-> {none}]}
=============================================================================
