---------------------------- MODULE HybridClock ----------------------------
(***************************************************************************)
(* The hybrid logical clock of the sync capability: the stamps themselves  *)
(* (src/src/kernel/core/hlc.ts) and the clock with state                   *)
(* (src/src/capabilities/sync/lib/clock.ts), as the capability composes it *)
(* over the settings store (src/src/capabilities/sync/index.ts).           *)
(*                                                                         *)
(* A stamp is a wall time, a counter and the issuing device, written so    *)
(* that string order is the lexicographic order of the three.  Here it is  *)
(* a TIME (ms and counter) in the set of the device that issued it: two    *)
(* devices never issue the same string, so what can go wrong is between    *)
(* the times one device issues, and between those and what it witnessed.   *)
(*                                                                         *)
(* Nothing bounds how a wall clock moves.  A process may die at any point  *)
(* and be started again; what it reads back is what its store had on disk. *)
(***************************************************************************)
EXTENDS Integers, FiniteSets

CONSTANTS
    Device,       \* the devices of one reader
    MaxMs,        \* HLC_MAX_MS: the last millisecond a stamp can spell
    MaxCounter,   \* HLC_MAX_COUNTER
    MaxAhead,     \* MAX_WITNESS_AHEAD_MS: a century, in the code
    LegacyMs,     \* the wall times of the records that predate the clock
    Late,         \* the devices whose save() reaches the disk later, as settings do
    MaxCalls      \* bound: calls of now() on each device

ASSUME ClockAssumption ==
    /\ MaxMs \in Nat /\ MaxCounter \in Nat /\ MaxAhead \in Nat
    /\ MaxCalls \in [Device -> Nat]
    /\ LegacyMs \subseteq 0 .. MaxMs
    /\ Late \subseteq Device

VARIABLES
    up,      \* up[d]: the process of d is running
    floor,   \* floor[d]: ms and counter of createClock's closure
    kept,    \* kept[d]: the floor in the settings store's memory
    disk,    \* disk[d]: the floor in the file under it
    calls,   \* calls[d]: how often now() was called on d, over all its runs
    issued,  \* issued[d]: every time now() ever returned on d (history)
    seen,    \* seen[d]: every time d ever accepted from elsewhere (history)
    high     \* high[d]: the furthest wall reading d ever took (history)

vars == <<up, floor, kept, disk, calls, issued, seen, high>>

-----------------------------------------------------------------------------
(* Times *)

Time == [ms : 0 .. MaxMs, counter : 0 .. MaxCounter]

\* Where the closure stands before its first stamp: the first one at ms 0 is
\* (0, 0).  The store holds the same value until a floor was ever saved.
NoFloor == [ms |-> 0, counter |-> -1]

Before(s, t) == \/ s.ms < t.ms
                \/ s.ms = t.ms /\ s.counter < t.counter

AtMost(s, t) == s = t \/ Before(s, t)

\* What now() moves the floor to when it reads the wall at w.
NextFloor(f, w) ==
    IF w > f.ms THEN [ms |-> w, counter |-> 0]
    ELSE IF f.counter >= MaxCounter THEN [ms |-> f.ms + 1, counter |-> 0]
    ELSE [ms |-> f.ms, counter |-> f.counter + 1]

\* makeHlc refuses a time past the last millisecond.
Spellable(f) == f.ms <= MaxMs

Further(a, b) == IF a > b THEN a ELSE b

LegacyTime == {[ms |-> m, counter |-> 0] : m \in LegacyMs}

\* Every time anybody could put in front of a device: its peers' stamps, its
\* own that come back by way of a peer, and those of records without a clock.
Offered == LegacyTime \cup UNION {issued[e] : e \in Device}

-----------------------------------------------------------------------------
TypeOK ==
    /\ up \in [Device -> BOOLEAN]
    /\ floor \in [Device -> [ms : Nat, counter : -1 .. MaxCounter]]
    /\ kept \in [Device -> Time \cup {NoFloor}]
    /\ disk \in [Device -> Time \cup {NoFloor}]
    /\ calls \in [Device -> Nat]
    /\ issued \in [Device -> SUBSET Time]
    /\ seen \in [Device -> SUBSET Time]
    /\ high \in [Device -> 0 .. MaxMs]

Init ==
    /\ up = [d \in Device |-> FALSE]
    /\ floor = [d \in Device |-> NoFloor]
    /\ kept = [d \in Device |-> NoFloor]
    /\ disk = [d \in Device |-> NoFloor]
    /\ calls = [d \in Device |-> 0]
    /\ issued = [d \in Device |-> {}]
    /\ seen = [d \in Device |-> {}]
    /\ high = [d \in Device |-> 0]

\* save(): the settings store holds the floor at once; whether the file does
\* depends on the store the clock was given.
Save(d, f) ==
    /\ kept' = [kept EXCEPT ![d] = f]
    /\ disk' = IF d \in Late THEN disk ELSE [disk EXCEPT ![d] = f]

\* A wrong form: a floor that is there is not loaded.
StartAfresh(d) ==
    /\ ~up[d]
    /\ up' = [up EXCEPT ![d] = TRUE]
    /\ floor' = [floor EXCEPT ![d] = NoFloor]
    /\ kept' = [kept EXCEPT ![d] = disk[d]]
    /\ UNCHANGED <<disk, calls, issued, seen, high>>

\* createClock: the floor is what the last run left behind.
Start(d) ==
    /\ ~up[d]
    /\ up' = [up EXCEPT ![d] = TRUE]
    /\ floor' = [floor EXCEPT ![d] = disk[d]]
    /\ kept' = [kept EXCEPT ![d] = disk[d]]
    /\ UNCHANGED <<disk, calls, issued, seen, high>>

\* The device goes away without a word.
Crash(d) ==
    /\ up[d]
    /\ up' = [up EXCEPT ![d] = FALSE]
    /\ UNCHANGED <<floor, kept, disk, calls, issued, seen, high>>

\* The store's own write lands, some time after the save that asked for it.
Flush(d) ==
    /\ up[d] /\ disk[d] # kept[d]
    /\ disk' = [disk EXCEPT ![d] = kept[d]]
    /\ UNCHANGED <<up, floor, kept, calls, issued, seen, high>>

\* now(), at wall reading w: the floor moves, and unless the time cannot be
\* spelled it is saved and returned.  A refused spelling leaves the moved floor.
Now(d, w) ==
    /\ up[d] /\ calls[d] < MaxCalls[d]
    /\ LET f == NextFloor(floor[d], w) IN
        /\ floor' = [floor EXCEPT ![d] = f]
        /\ IF Spellable(f)
           THEN /\ Save(d, f)
                /\ issued' = [issued EXCEPT ![d] = @ \cup {f}]
           ELSE UNCHANGED <<kept, disk, issued>>
    /\ calls' = [calls EXCEPT ![d] = @ + 1]
    /\ high' = [high EXCEPT ![d] = Further(@, w)]
    /\ UNCHANGED <<up, seen>>

\* A wrong form: the raised floor is not saved.
WitnessUnsaved(d, t, w) ==
    /\ up[d] /\ t.ms <= w + MaxAhead
    /\ seen' = [seen EXCEPT ![d] = @ \cup {t}]
    /\ floor' = [floor EXCEPT ![d] = IF AtMost(t, @) THEN @ ELSE t]
    /\ high' = [high EXCEPT ![d] = Further(@, w)]
    /\ UNCHANGED <<up, kept, disk, calls, issued>>

\* A wrong form: any stamp is plausible.
WitnessAnything(d, t, w) ==
    /\ up[d]
    /\ seen' = [seen EXCEPT ![d] = @ \cup {t}]
    /\ IF AtMost(t, floor[d])
       THEN UNCHANGED <<floor, kept, disk>>
       ELSE /\ floor' = [floor EXCEPT ![d] = t]
            /\ Save(d, t)
    /\ high' = [high EXCEPT ![d] = Further(@, w)]
    /\ UNCHANGED <<up, calls, issued>>

\* witness(), accepted: not implausibly far ahead of this wall.  A time at or
\* below the floor changes nothing; one above it becomes the floor.
Witness(d, t, w) ==
    /\ up[d] /\ t.ms <= w + MaxAhead
    /\ seen' = [seen EXCEPT ![d] = @ \cup {t}]
    /\ IF AtMost(t, floor[d])
       THEN UNCHANGED <<floor, kept, disk>>
       ELSE /\ floor' = [floor EXCEPT ![d] = t]
            /\ Save(d, t)
    /\ high' = [high EXCEPT ![d] = Further(@, w)]
    /\ UNCHANGED <<up, calls, issued>>

Next ==
    \E d \in Device :
        \/ Start(d)
        \/ Crash(d)
        \/ Flush(d)
        \/ \E w \in 0 .. MaxMs : Now(d, w)
        \/ \E w \in 0 .. MaxMs : \E t \in Offered : Witness(d, t, w)

Spec == Init /\ [][Next]_vars

-----------------------------------------------------------------------------
(* What the clock is for *)

\* This step is a now() that returned a stamp to its caller.
Returned(d) == calls'[d] # calls[d] /\ Spellable(floor'[d])

\* A stamp now() returns is above every stamp the device ever returned, in
\* this run or in one that crashed: "strictly above every stamp this device
\* has ever issued" (clock.ts:10).  Only where save() is durable.
IssuedInOrder ==
    [][\A d \in Device \ Late : Returned(d) =>
            \A s \in issued[d] : Before(s, floor'[d])]_vars

\* A stamp now() returns beats everything the device accepted from elsewhere,
\* however long ago and across restarts, so an edit made after hearing of
\* another one wins over it (clock.ts:10, :19).  Only where save() is durable.
BeatsWitnessed ==
    [][\A d \in Device \ Late : Returned(d) =>
            \A t \in seen[d] : Before(t, floor'[d])]_vars

\* What a device says last wins: a stamp is above all that it issued or accepted
\* before, whatever its wall does.
StampsAdvance == IssuedInOrder /\ BeatsWitnessed

\* However far ahead other devices' clocks are, a floor runs past this
\* device's own wall by at most the witness bound, and one millisecond per
\* call; so no peer can push a clock beyond the times makeHlc can spell while
\* the own wall is sane (clock.ts:96-104).
DriftBounded ==
    \A d \in Device : floor[d].ms <= high[d] + MaxAhead + calls[d]

\* What survives a store that writes late: the floor on disk never falls, and
\* no stamp is returned at or below it, however crashes and writes interleave.
DiskFloorHolds ==
    [][\A d \in Device :
            /\ AtMost(disk[d], disk'[d])
            /\ Returned(d) => Before(disk[d], floor'[d])]_vars

\* "a crash after a caller has seen a stamp cannot lead to that stamp being
\* issued again" (clock.ts:24-26).  The code does not hold to it over a late
\* store.
NeverIssuedTwice ==
    [][\A d \in Device : Returned(d) => floor'[d] \notin issued[d]]_vars

=============================================================================
