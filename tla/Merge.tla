------------------------------- MODULE Merge -------------------------------
(***************************************************************************)
(* The pure merge of two copies of a book's record                          *)
(* (src/src/capabilities/sync/lib/merge.ts, mergeRecord).                   *)
(*                                                                         *)
(* A REGISTER is a stamp and a value; the stamp -1 is that of a register    *)
(* nobody ever set, 0 the epoch of records from before stamps.  A value is  *)
(* its place in the order of canonical JSON, which is all the merge asks of *)
(* it.  A record from before stamps lists its tags without a clock: their   *)
(* registers are then read out of the list, at the day the book was added.  *)
(***************************************************************************)
EXTENDS Integers

Unset == [at |-> -1, v |-> 0]

\* The states of reading, in the order of their JSON.
Finished == 1
Reading == 2
Want == 3

\* A wrong form: at equal stamps, the second argument.
PickSecond(a, b) == IF a.at > b.at THEN a ELSE b

\* The later stamp's value; at equal stamps, the one whose JSON is greater.
Pick(a, b) ==
    IF a.at < b.at THEN b
    ELSE IF a.at > b.at THEN a
    ELSE IF a.v < b.v THEN b ELSE a

\* A wrong form: the schema is not looked at first, nor the JSON last.
MergeMetaByParse(a, b) == IF a.parsed > b.parsed THEN a ELSE b

\* What the file said of itself: a parsed one over one never parsed, then the
\* newer schema, then the later parse, then the JSON.  parsed -1 is never.
MergeMeta(a, b) ==
    IF a.parsed = -1 /\ b.parsed # -1 THEN b
    ELSE IF b.parsed = -1 /\ a.parsed # -1 THEN a
    ELSE IF a.schema # b.schema THEN (IF a.schema > b.schema THEN a ELSE b)
    ELSE IF a.parsed # b.parsed THEN (IF a.parsed > b.parsed THEN a ELSE b)
    ELSE IF a.v < b.v THEN b ELSE a

\* -1 is "not there".
Earliest(m, n) == IF m = -1 THEN n ELSE IF n = -1 THEN m ELSE IF m < n THEN m ELSE n
Latest(m, n) == IF m < n THEN n ELSE m

\* A wrong form: finished is a register of its own.
FinishedApart(status, finished) == finished

\* Where there is a status, finished says what it says.
FinishedBy(status, finished) ==
    IF status.at = -1 THEN finished
    ELSE [at |-> status.at, v |-> IF status.v = Finished THEN 1 ELSE 0]

MergeTags(a, b) == [t \in DOMAIN a |-> Pick(a[t], b[t])]

\* A clock, or a list of tags that is read as one.
HasRegisters(r) == r.clocked \/ \E t \in DOMAIN r.tags : r.tags[t] # Unset

\* Each group whole from its winner, and finished by the status that won.
Join(a, b) ==
    LET status == Pick(a.status, b.status) IN
    [meta     |-> MergeMeta(a.meta, b.meta),
     position |-> Pick(a.position, b.position),
     status   |-> status,
     finished |-> FinishedBy(status, Pick(a.finished, b.finished)),
     tags     |-> MergeTags(a.tags, b.tags),
     clocked  |-> HasRegisters(a) \/ HasRegisters(b),
     added    |-> Earliest(a.added, b.added),
     opened   |-> Latest(a.opened, b.opened)]

\* Two replicas that are the same have nothing to reconcile: a list of tags is
\* not made a clock then.
MergeRecord(a, b) == IF a = b THEN a ELSE Join(a, b)

=============================================================================
