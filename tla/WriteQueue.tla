----------------------------- MODULE WriteQueue -----------------------------
(***************************************************************************)
(* The kernel's queue of writes (src/src/kernel/core/writeQueue.ts): one    *)
(* write at a time per key, in the order they were asked for; a whole-state *)
(* write replaces the waiting whole-state writes and nothing else; a line   *)
(* has an end.  A task runs by itself up to its first await, and what it    *)
(* asks for in that first breath is asked of a queue in mid-call.           *)
(***************************************************************************)
EXTENDS Integers, Sequences, SequencesExt, FiniteSets, Lines

CONSTANTS
    Key,
    Cap,        \* MAX_APPENDED
    MaxTasks    \* bound: how many writes are asked for

ASSUME WriteQueueAssumption == {Cap, MaxTasks} \subseteq Nat

Mode == {"replace", "append", "shared"}
Told == {"nothing", "saved", "failed", "refused", "superseded"}

VARIABLES
    asked,     \* asked[n]: the key and the mode of the n-th write
    told,      \* told[n]: what became of its promise
    line,      \* line[k]: the writes waiting
    flight,    \* flight[k]: those whose task runs, one for each drain
    running,   \* the keys that are taken
    breath,    \* the tasks in their first breath, the innermost last
    saved,     \* the writes whose state is on disk
    idler,     \* a caller of idle
    awaited    \* the keys it waits for

vars == <<asked, told, line, flight, running, breath, saved, idler, awaited>>

Task == 1 .. Len(asked)

\* Types; and a key with work is a key that is taken.
TypeOK ==
    /\ asked \in Seq([key : Key, mode : Mode])
    /\ told \in [Task -> Told]
    /\ \A k \in Key : ToSet(line[k]) \cup flight[k] \subseteq {n \in Task : asked[n].key = k}
    /\ running \subseteq Key /\ awaited \subseteq running
    /\ \A k \in Key : line[k] # <<>> \/ flight[k] # {} => k \in running
    /\ ToSet(breath) \cup saved \subseteq Task
    /\ idler \in {"none", "waiting", "done"}

Init ==
    /\ asked = <<>> /\ told = <<>>
    /\ line = [k \in Key |-> <<>>]
    /\ flight = [k \in Key |-> {}]
    /\ running = {} /\ breath = <<>> /\ saved = {}
    /\ idler = "none" /\ awaited = {}

-----------------------------------------------------------------------------
Appended(k) == Only(line[k], {n \in Task : asked[n].mode # "replace"})

\* MAX_APPENDED_SHARED is half the line.
HasRoom(k, mode) ==
    mode = "replace" \/ Len(Appended(k)) < (IF mode = "shared" THEN Cap \div 2 ELSE Cap)

\* What of the line stays when a write joins it.
Kept(k, mode) == IF mode = "replace" THEN Appended(k) ELSE line[k]

\* A wrong form: the key is taken when its first task lets go.
ClaimedLate(k, point) == IF point = "await" THEN {k} ELSE {}

\* The key is taken before its first task runs.
Claimed(k, point) == IF point = "start" THEN {k} ELSE {}

\* enqueue, where there is room: the superseded are told they are saved, and an
\* idle key's drain starts its first task before enqueue returns.
Join(k, mode) ==
    LET n == Len(asked) + 1
        superseded == IF mode = "replace"
                      THEN {w \in ToSet(line[k]) : asked[w].mode = "replace"} ELSE {}
    IN
    /\ told' = [w \in 1 .. n |-> IF w = n THEN "nothing"
                                 ELSE IF w \in superseded THEN "superseded" ELSE told[w]]
    /\ IF k \in running
       THEN /\ line' = [line EXCEPT ![k] = Append(Kept(k, mode), n)]
            /\ UNCHANGED <<flight, running, breath>>
       ELSE /\ flight' = [flight EXCEPT ![k] = @ \cup {n}]
            /\ running' = running \cup Claimed(k, "start")
            /\ breath' = Append(breath, n)
            /\ UNCHANGED line

Refuse == /\ told' = Append(told, "refused")
          /\ UNCHANGED <<line, flight, running, breath>>

\* push, append and appendShared, from the event loop or a task's first breath.
Ask(k, mode) ==
    /\ Len(asked) < MaxTasks
    /\ asked' = Append(asked, [key |-> k, mode |-> mode])
    /\ IF HasRoom(k, mode) THEN Join(k, mode) ELSE Refuse
    /\ UNCHANGED <<saved, idler, awaited>>

\* The innermost task comes to its first await.
Awaits ==
    /\ breath # <<>>
    /\ breath' = Front(breath)
    /\ running' = running \cup Claimed(asked[Last(breath)].key, "await")
    /\ UNCHANGED <<asked, told, line, flight, saved, idler, awaited>>

\* A whole-state write has in it what the earlier ones of its key had.
SavedBy(n) ==
    IF asked[n].mode # "replace" THEN {n}
    ELSE {w \in 1 .. n : asked[w] = asked[n]}

\* A wrong form: a task that throws ends its drain with the key taken.
DrainsOnIfWell(k, ok) == ok /\ line[k] # <<>>

\* The drain goes on while there is anything in the line.
DrainsOn(k, ok) == line[k] # <<>>

\* drain: a task resolves or throws, its caller is told, and the next one of
\* the line starts; or the key is free.
Ends(k, n, ok) ==
    /\ breath = <<>> /\ n \in flight[k]
    /\ told' = [told EXCEPT ![n] = IF ok THEN "saved" ELSE "failed"]
    /\ saved' = IF ok THEN saved \cup SavedBy(n) ELSE saved
    /\ IF DrainsOn(k, ok)
       THEN /\ line' = [line EXCEPT ![k] = Tail(@)]
            /\ flight' = [flight EXCEPT ![k] = (@ \ {n}) \cup {Head(line[k])}]
            /\ breath' = <<Head(line[k])>>
            /\ UNCHANGED <<running, awaited>>
       ELSE /\ flight' = [flight EXCEPT ![k] = @ \ {n}]
            /\ running' = IF line[k] = <<>> THEN running \ {k} ELSE running
            /\ awaited' = IF line[k] = <<>> THEN awaited \ {k} ELSE awaited
            /\ UNCHANGED <<line, breath>>
    /\ UNCHANGED <<asked, idler>>

\* idle, called from the event loop.
CallIdle ==
    /\ breath = <<>> /\ idler = "none"
    /\ idler' = "waiting" /\ awaited' = running
    /\ UNCHANGED <<asked, told, line, flight, running, breath, saved>>

Quiet == running = {} /\ \A k \in Key : line[k] = <<>>

\* What it waited for is done: it looks again.
IdleWakes ==
    /\ breath = <<>> /\ idler = "waiting" /\ awaited = {}
    /\ IF Quiet THEN idler' = "done" /\ UNCHANGED awaited
       ELSE awaited' = running /\ UNCHANGED idler
    /\ UNCHANGED <<asked, told, line, flight, running, breath, saved>>

-----------------------------------------------------------------------------
Drains == \E k \in Key : \E n \in flight[k], ok \in BOOLEAN : Ends(k, n, ok)

\* Nothing more is asked for: that all of it is answered is Answered's to say.
Done == Len(asked) = MaxTasks /\ UNCHANGED vars

Next ==
    \/ \E k \in Key, mode \in Mode : Ask(k, mode)
    \/ Awaits \/ Drains \/ CallIdle \/ IdleWakes \/ Done

Spec == Init /\ [][Next]_vars

\* Tasks come to an end, of their own or by the timeout of what they await.
FairSpec == Spec /\ WF_vars(Awaits) /\ WF_vars(Drains) /\ WF_vars(IdleWakes)

-----------------------------------------------------------------------------
\* What callers see of the queue: the lines, the taken keys and the tasks in
\* mid-call are its own.
L == INSTANCE Lanes WITH running <- UNION {flight[k] : k \in Key}

\* The queue keeps the promise of Lanes: two writes of a key never run at once,
\* a task that asks for another in its first breath included; they run in the
\* order they were asked for; no accepted edit is dropped; strangers never take
\* the reader's half; idle answers when all there is, what tasks asked for
\* meanwhile included, has been answered (writeQueue.ts:1-10, :51-65, :104-114,
\* :193-242).
KeepsItsLanes == L!Spec

\* Every write is answered, whichever others fail, and idle too.
Answered ==
    /\ \A n \in 1 .. MaxTasks : (n \in Task) ~> (n \in Task /\ told[n] # "nothing")
    /\ (idler = "waiting") ~> (idler = "done")

\* A write its caller was told is saved is saved, or will be by one that runs
\* (writeQueue.ts:200-203).  The code does not hold to it: the one that replaced
\* it may fail.
SupersededIsSaved ==
    \A n \in Task : told[n] = "superseded" =>
        \/ n \in saved
        \/ \E w \in n + 1 .. Len(asked) : asked[w] = asked[n] /\ told[w] = "nothing"

=============================================================================
