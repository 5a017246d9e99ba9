----------------------------- MODULE FileStore -----------------------------
(***************************************************************************)
(* The reader's flat store (src/src/kernel/core/fileStore.ts): a few keys,  *)
(* read from one file before anything is drawn, answered from memory, and   *)
(* written behind the writer's back, whole, one write after another.        *)
(*                                                                         *)
(* What a key holds is counted: its n-th value is n, and 0 is no value.     *)
(* The file system (FileSystem, fileStore.ts:62) is the environment: its    *)
(* write is atomic, and one that fails may have put the new file there all  *)
(* the same, since the directory is synced after the rename                *)
(* (src/src-tauri/src/atomic.rs:190-191).                                   *)
(***************************************************************************)
EXTENDS Integers, FiniteSets

CONSTANTS
    Key,
    Caller,      \* who calls flush: one call of each at a time
    Legacy,      \* Legacy[k]: what the browser's storage has of k
    MaxSets,     \* bound: values a key is given
    MaxChained,  \* bound: writes chained in one process
    MaxFails,    \* bound: writes that fail
    MaxCrashes,  \* bound: processes that end
    MaxDamage    \* bound: times the file is damaged

ASSUME FileStoreAssumption ==
    /\ {MaxSets, MaxChained, MaxFails, MaxCrashes, MaxDamage} \subseteq Nat
    /\ Legacy \in [Key -> 0 .. MaxSets]

VARIABLES
    file,       \* what is at the store's path: "absent", "good", "damaged"
    disk,       \* the values in it
    phase,      \* the process: "closed", "opening" (its seed is written), "open"
    held,       \* contents
    dirty,      \* something changed since the last write was chained
    queued,     \* a coalescing callback waits
    chained,    \* writes chained on inFlight in this process
    done,       \* and how many of them are over
    busy,       \* one is under way
    writing,    \* with this snapshot
    failed,     \* not healthy: lastFailure is there
    unmovable,  \* the damaged file is still in its place
    calls,      \* calls of flush that wait
    promised,   \* what a flush that resolved said is down (history)
    asides,     \* how many damaged files were moved aside
    spent       \* the bounds used up

process == <<phase, held, dirty, queued, chained, done, busy, writing, failed, unmovable, calls>>
vars == <<file, disk, process, promised, asides, spent>>

Values == [Key -> Nat]
Nothing == [k \in Key |-> 0]

Call == [by : Caller, until : Nat, want : Values]

\* Types; a write is under way only if it was chained, and none ever is while
\* the damaged file is in its place.
TypeOK ==
    /\ file \in {"absent", "good", "damaged"}
    /\ phase \in {"closed", "opening", "open"}
    /\ disk \in Values /\ held \in Values /\ writing \in Values /\ promised \in Values
    /\ dirty \in BOOLEAN /\ queued \in BOOLEAN /\ busy \in BOOLEAN
    /\ failed \in BOOLEAN /\ unmovable \in BOOLEAN
    /\ chained \in Nat /\ done \in 0 .. chained
    /\ busy => done < chained
    /\ unmovable => ~dirty /\ chained = 0
    /\ calls \subseteq Call
    /\ asides \in Nat
    /\ spent \in [fails : Nat, crashes : Nat, damage : Nat]

Init ==
    /\ file = "absent" /\ disk = Nothing
    /\ phase = "closed" /\ held = Nothing
    /\ dirty = FALSE /\ queued = FALSE
    /\ chained = 0 /\ done = 0
    /\ busy = FALSE /\ writing = Nothing
    /\ failed = FALSE /\ unmovable = FALSE
    /\ calls = {} /\ promised = Nothing /\ asides = 0
    /\ spent = [fails |-> 0, crashes |-> 0, damage |-> 0]

-----------------------------------------------------------------------------
(* Opening *)

\* A new process: nothing chained but the write of a seed.
Fresh(seed) ==
    /\ chained' = IF seed THEN 1 ELSE 0
    /\ phase' = IF seed THEN "opening" ELSE "open"
    /\ UNCHANGED <<disk, dirty, queued, done, busy, writing, calls, promised, spent>>

\* openFileStore finds a file it can read.
OpenGood ==
    /\ phase = "closed" /\ file = "good"
    /\ held' = disk
    /\ failed' = FALSE /\ unmovable' = FALSE
    /\ Fresh(FALSE)
    /\ UNCHANGED <<file, asides>>

\* It finds none: what the browser's storage gives up is copied, key by key,
\* and written before the store is handed out.
OpenFirst(readable) ==
    /\ phase = "closed" /\ file = "absent"
    /\ held' = [k \in Key |-> IF k \in readable THEN Legacy[k] ELSE 0]
    /\ failed' = FALSE /\ unmovable' = FALSE
    /\ Fresh(held' # Nothing)
    /\ UNCHANGED <<file, asides>>

\* A wrong form: a file that could not be moved is written over.
StuckIfKept(moved) == FALSE

\* Nothing may be written over a damaged file that is still there.
Stuck(moved) == ~moved

\* It finds one it cannot read: moved aside if it can be, and nothing held.
OpenDamaged(moved) ==
    /\ phase = "closed" /\ file = "damaged"
    /\ held' = Nothing
    /\ unmovable' = Stuck(moved) /\ failed' = Stuck(moved)
    /\ file' = IF moved THEN "absent" ELSE file
    /\ asides' = IF moved THEN asides + 1 ELSE asides
    /\ Fresh(FALSE)

-----------------------------------------------------------------------------
(* Keeping *)

\* What setItem says: it holds the value in any case.
Refuses == unmovable \/ failed

\* setItem queues a write unless nothing may be written.
Queues == ~unmovable

\* setItem, up to its throw.
Hold(k, value) ==
    /\ phase = "open" /\ chained < MaxChained
    /\ held' = [held EXCEPT ![k] = value]

SetItem(k, value) ==
    /\ Hold(k, value)
    /\ dirty' = (dirty \/ Queues)
    /\ queued' = (queued \/ Queues)
    /\ UNCHANGED <<file, disk, phase, chained, done, busy, writing, failed, unmovable, calls,
                   promised, asides, spent>>

\* The coalescing callback of enqueue.
Callback ==
    /\ phase = "open" /\ queued
    /\ queued' = FALSE /\ dirty' = FALSE
    /\ chained' = IF dirty THEN chained + 1 ELSE chained
    /\ UNCHANGED <<file, disk, phase, held, done, busy, writing, failed, unmovable, calls,
                   promised, asides, spent>>

\* The write a flush waits for.
Until(changed) == IF changed THEN chained + 1 ELSE chained

\* flush, up to its await; want is what it will have said is down.
FlushOf(c, changed, want) ==
    /\ \A call \in calls : call.by # c
    /\ chained' = IF changed THEN chained + 1 ELSE chained
    /\ calls' = calls \cup {[by |-> c, until |-> Until(changed), want |-> want]}
    /\ dirty' = FALSE
    /\ UNCHANGED <<file, disk, phase, done, busy, writing, failed, unmovable, promised, asides, spent>>

Flush(c) ==
    /\ phase = "open"
    /\ FlushOf(c, dirty, held)
    /\ UNCHANGED <<held, queued>>

\* setItem that does not throw and flush, in one breath.
SetAndFlush(k, value, c) ==
    /\ Hold(k, value) /\ ~Refuses
    /\ FlushOf(c, TRUE, held')
    /\ queued' = TRUE

Due(call) == call.until <= done

More(v, w) == [k \in Key |-> IF v[k] < w[k] THEN w[k] ELSE v[k]]

\* A wrong form: a flush never raises.
RaisesNever == FALSE

\* flush raises what is wrong with the last write.
Raises == failed

\* The rest of flush.
Answer(call) ==
    /\ call \in calls /\ Due(call)
    /\ calls' = calls \ {call}
    /\ promised' = IF Raises THEN promised ELSE More(promised, call.want)
    /\ UNCHANGED <<file, disk, phase, held, dirty, queued, chained, done, busy, writing, failed,
                   unmovable, asides, spent>>

\* inFlight.then: every write that was chained runs.
Runs == done < chained

\* writeNow, up to its await: the snapshot is of the moment it runs.
WriteStarts ==
    /\ phase # "closed" /\ ~busy /\ Runs
    /\ busy' = TRUE /\ writing' = held
    /\ UNCHANGED <<file, disk, phase, held, dirty, queued, chained, done, failed, unmovable, calls,
                   promised, asides, spent>>

\* A wrong form: a write that failed is swallowed and forgotten.
FailsNever(ok) == FALSE

\* writeNow swallows a failure and keeps why.
Fails(ok) == ~ok

\* The new file is in its place, or the old one still is.
Lands(landed) ==
    /\ file' = IF landed THEN "good" ELSE file
    /\ disk' = IF landed THEN writing ELSE disk

\* The rest of writeNow.  Who waits for the write before goes on first.
WriteEnds(ok, landed) ==
    /\ busy /\ ~\E call \in calls : Due(call)
    /\ ok => landed
    /\ ~ok => spent.fails < MaxFails
    /\ busy' = FALSE /\ writing' = Nothing /\ done' = done + 1
    /\ failed' = Fails(ok)
    /\ Lands(landed)
    /\ phase' = "open"
    /\ spent' = IF ok THEN spent ELSE [spent EXCEPT !.fails = @ + 1]
    /\ UNCHANGED <<held, dirty, queued, chained, unmovable, calls, promised, asides>>

-----------------------------------------------------------------------------
(* The environment *)

\* The process ends, in a write or not.
Crash(landed) ==
    /\ phase # "closed" /\ spent.crashes < MaxCrashes
    /\ landed => busy
    /\ phase' = "closed"
    /\ Lands(landed)
    /\ held' = Nothing /\ dirty' = FALSE /\ queued' = FALSE /\ chained' = 0 /\ done' = 0
    /\ busy' = FALSE /\ writing' = Nothing /\ failed' = FALSE /\ unmovable' = FALSE /\ calls' = {}
    /\ spent' = [spent EXCEPT !.crashes = @ + 1]
    /\ UNCHANGED <<promised, asides>>

\* The file is damaged, and what was promised of it is lost.
Damage ==
    /\ phase = "closed" /\ file = "good" /\ spent.damage < MaxDamage
    /\ file' = "damaged" /\ promised' = Nothing
    /\ spent' = [spent EXCEPT !.damage = @ + 1]
    /\ UNCHANGED <<disk, process, asides>>

\* What every user of the store leaves to it.
Behind ==
    \/ OpenGood
    \/ \E readable \in SUBSET Key : OpenFirst(readable)
    \/ \E moved \in BOOLEAN : OpenDamaged(moved)
    \/ Callback
    \/ \E call \in calls : Answer(call)
    \/ WriteStarts
    \/ \E ok, landed \in BOOLEAN : WriteEnds(ok, landed)
    \/ \E landed \in BOOLEAN : Crash(landed)
    \/ Damage

Next ==
    \/ Behind
    \/ \E k \in Key : \E value \in held[k] .. MaxSets : SetItem(k, value)
    \/ \E c \in Caller : Flush(c)
    \/ \E k \in Key, c \in Caller : \E value \in held[k] .. MaxSets : SetAndFlush(k, value, c)

Spec == Init /\ [][Next]_vars

-----------------------------------------------------------------------------
(* Properties *)

Down == IF file = "good" THEN disk ELSE Nothing

\* A flush that resolves means the bytes are down (fileStore.ts:262): whatever
\* fails, dies or is chained meanwhile, what it promised is in the file.
FlushMeansDown == \A k \in Key : promised[k] <= Down[k]

\* Nothing is forgotten: what memory holds and the file does not is going to be
\* written, or the store says it is not healthy.
NothingForgotten ==
    phase = "open" /\ ~dirty /\ done = chained => failed \/ held = Down

\* Bytes that cannot be read are never written over: they leave their place
\* only by being moved aside.
DamagedIsKept == [][file = "damaged" /\ file' # "damaged" => asides' = asides + 1]_vars

\* A seed is for the first run (fileStore.ts:30, :87): a store that was ever on
\* disk does not take the old browser values again.  The code does not hold to
\* it once a damaged file was moved aside.
SeedsOnce == [][asides > 0 => phase' # "opening"]_vars

=============================================================================
