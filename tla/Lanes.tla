------------------------------- MODULE Lanes -------------------------------
(***************************************************************************)
(* What a queue of writes promises to those who ask it for them, whatever  *)
(* it keeps inside (src/src/kernel/core/writeQueue.ts:1-114): a lane for   *)
(* each key, in which accepted writes run one at a time and in order.  A   *)
(* write is waiting from the time it is accepted until it runs, and only a *)
(* whole-state write that a later one of its key replaces never does.      *)
(***************************************************************************)
EXTENDS Integers, Sequences, FiniteSets, FiniteSetsExt

CONSTANTS Key, Cap, MaxTasks

VARIABLES
    asked,     \* asked[n]: the key and the mode of the n-th write
    told,      \* told[n]: what its caller was told
    running,   \* the writes that run
    idler      \* a caller of idle

vars == <<asked, told, running, idler>>

Mode == {"replace", "append", "shared"}
Task == 1 .. Len(asked)

Init == asked = <<>> /\ told = <<>> /\ running = {} /\ idler = "none"

\* The writes of a key that are accepted and have not begun.
Waiting(k) == {n \in Task : asked[n].key = k /\ told[n] = "nothing"} \ running

Wholes(k) == {n \in Waiting(k) : asked[n].mode = "replace"}
Edits(k)  == {n \in Waiting(k) : asked[n].mode # "replace"}

Free(k) == \A n \in running : asked[n].key # k

Asked(k, mode) ==
    /\ Len(asked) < MaxTasks
    /\ asked' = Append(asked, [key |-> k, mode |-> mode])
    /\ UNCHANGED idler

\* A write is accepted: it begins if its lane is free.  Whole-state writes that
\* a newer one replaces are told so; nothing else leaves a lane without running.
Accept(k, mode) ==
    LET n == Len(asked) + 1
        replaced == IF mode = "replace" THEN Wholes(k) ELSE {}
    IN
    /\ Asked(k, mode)
    /\ told' = [w \in 1 .. n |-> IF w = n THEN "nothing"
                                 ELSE IF w \in replaced THEN "superseded" ELSE told[w]]
    /\ running' = IF Free(k) THEN running \cup {n} ELSE running

\* A write is refused because its lane is full, which for a stranger's is when
\* half of it is: the other half is the reader's.
Refuse(k, mode) ==
    /\ Asked(k, mode)
    /\ \/ mode = "append" /\ Cardinality(Edits(k)) >= Cap
       \/ mode = "shared" /\ Cardinality(Edits(k)) >= Cap \div 2
    /\ told' = Append(told, "refused")
    /\ UNCHANGED running

\* A write comes to its end, well or not, and the oldest waiting one of its lane
\* begins.
End(n) ==
    /\ n \in running
    /\ \E verdict \in {"saved", "failed"} : told' = [told EXCEPT ![n] = verdict]
    /\ LET rest == Waiting(asked[n].key) IN
       running' = (running \ {n}) \cup (IF rest = {} THEN {} ELSE {Min(rest)})
    /\ UNCHANGED <<asked, idler>>

\* idle is called, and answers when every write there is has been answered.
CallIdle == idler = "none" /\ idler' = "waiting" /\ UNCHANGED <<asked, told, running>>

IdleDone ==
    /\ idler = "waiting" /\ \A n \in Task : told[n] # "nothing"
    /\ idler' = "done" /\ UNCHANGED <<asked, told, running>>

Next ==
    \/ \E k \in Key, mode \in Mode : Accept(k, mode) \/ Refuse(k, mode)
    \/ \E n \in running : End(n)
    \/ CallIdle \/ IdleDone

Spec == Init /\ [][Next]_vars

=============================================================================
