----------------------------- MODULE ShelfIndex -----------------------------
(***************************************************************************)
(* The shelf and its cache (src/src/kernel/core/libraryStore.ts,            *)
(* bookIndex.ts): every book's record is in its own folder and is the       *)
(* truth; the row on the screen predicts it, and index.json, written whole  *)
(* and behind, saves the next launch a scan of every folder.                *)
(*                                                                         *)
(* A record is how many changes it holds.  A change is a position ("tick"), *)
(* whose rewrite of the index is put off and whose book is noted in         *)
(* index.dirty, or any other ("now").  The queues are WriteQueue's: a lane  *)
(* for each book, one for the index, where only a push replaces a push.     *)
(* A step that writes a file goes on to what the store does when it hears   *)
(* of it, up to the next write.                                             *)
(***************************************************************************)
EXTENDS Naturals, Sequences, FiniteSets, Lines

CONSTANTS
    Book,
    NoIndex,        \* there is no index.json, or none that counts
    MaxChanges,     \* bound: changes made
    MaxFails,       \* bound: file operations that fail
    MaxCrashes      \* bound: processes that end undrained, at any moment

ASSUME ShelfIndexAssumption ==
    /\ {MaxChanges, MaxFails, MaxCrashes} \subseteq Nat
    /\ NoIndex \notin [Book -> Nat]

VARIABLES
    record,    \* book.json of every book
    index,     \* index.json
    marker,    \* index.dirty: the books it names, none if it is not there
    row,       \* books: the shelf as it is shown
    dirty,     \* the dirty list
    moved,     \* the generation moved since the index write under way began
    timer,     \* flushTimer is armed
    lane,      \* the lane of each book: "tick", "now", "repair"
    indexLane, \* the lane of the index, its first task under way or not
    at,        \* where that task is: "waiting", "writing", "clearing", "restating"
    snapshot,  \* the rows it writes
    doomed,    \* invalidateIndex is under way
    stage,     \* "closed", "open", then the stages of the drain: "flushed", "again", "drained"
    kept,      \* the positions whose saving was answered (history)
    behind,    \* the books whose record landed since the index last had them (history)
    carried,   \* of them, those that the index write under way has (history)
    cut,       \* the books a process left half done, until their folder is read (history)
    deaf,      \* a write failed that nobody repairs, or a marker left behind was written
               \* over, and the index was not written since (history)
    spent      \* the bounds used up

history == <<behind, carried, cut, deaf>>
shelfVars == <<record, index, marker, row, dirty, moved, timer, lane, indexLane, at, snapshot,
               doomed, stage, kept, history, spent>>

Values == [Book -> Nat]
Nothing == [b \in Book |-> 0]

\* A task on the index's lane: a push of the whole index, by a commit, its
\* repair or a flush, or the marker a tick appends, naming some books.
IndexTask == [does : {"push", "mark"}, by : {"commit", "repair", "flush"}, of : SUBSET Book,
              names : SUBSET Book, value : Nat]

Flushing == \E i \in 1 .. Len(indexLane) : indexLane[i].by = "flush"

\* Types; at most one flush is on the lane, and the marker is stated only by
\* the task that is first there.
ShelfTypes ==
    /\ record \in Values /\ row \in Values /\ snapshot \in Values /\ kept \in Values
    /\ index \in Values \cup {NoIndex}
    /\ marker \subseteq Book /\ dirty \subseteq Book
    /\ moved \in BOOLEAN /\ timer \in BOOLEAN /\ doomed \in BOOLEAN
    /\ lane \in [Book -> Seq({"tick", "now", "repair"})]
    /\ indexLane \in Seq(IndexTask)
    /\ at \in {"waiting", "writing", "clearing", "restating"}
    /\ at # "waiting" => indexLane # <<>> /\ Head(indexLane).does = "push"
    /\ Cardinality({i \in 1 .. Len(indexLane) : indexLane[i].by = "flush"}) <= 1
    /\ stage \in {"closed", "open", "flushed", "again", "drained"}
    /\ behind \subseteq Book /\ carried \subseteq behind /\ cut \subseteq Book /\ deaf \in BOOLEAN
    /\ spent \in [changes : Nat, fails : Nat, crashes : Nat]

ShelfInit ==
    /\ record = Nothing /\ index = NoIndex /\ marker = {}
    /\ row = Nothing /\ dirty = {} /\ moved = FALSE /\ timer = FALSE
    /\ lane = [b \in Book |-> <<>>] /\ indexLane = <<>> /\ at = "waiting"
    /\ snapshot = Nothing /\ doomed = FALSE /\ stage = "closed" /\ kept = Nothing
    /\ behind = {} /\ carried = {} /\ cut = {} /\ deaf = FALSE
    /\ spent = [changes |-> 0, fails |-> 0, crashes |-> 0]

Idle == indexLane = <<>> /\ \A b \in Book : lane[b] = <<>>
AtRest == Idle /\ ~doomed
Running == stage # "closed"

\* One more operation of the file system fails.
MayFail(ok) == ok \/ spent.fails < MaxFails
Counted(ok) == IF ok THEN spent ELSE [spent EXCEPT !.fails = @ + 1]

-----------------------------------------------------------------------------
(* Opening *)

\* What loadShelf shows: the cache, with the books the marker names read again,
\* or a scan of every folder.
Loaded == [b \in Book |-> IF index = NoIndex \/ b \in marker THEN record[b] ELSE index[b]]

\* A wrong form: only a scan is worth writing.
OnlyScans == index = NoIndex

\* The cache is written again after a scan or a refresh.
Rewrites == index = NoIndex \/ marker # {}

\* Only an index that landed takes the marker with it.
TakesMarker(wrote) == Rewrites /\ wrote

\* loadShelf; removed is whether the marker's removal, which may fail, did not.  If
\* the index was not written the dirty list is empty all the same.
Open(wrote, removed) ==
    /\ stage = "closed" /\ MayFail(wrote)
    /\ ~wrote => Rewrites
    /\ stage' = "open"
    /\ row' = Loaded
    /\ index' = IF Rewrites /\ wrote THEN Loaded ELSE index
    /\ marker' = IF TakesMarker(wrote) /\ removed THEN {} ELSE marker
    /\ spent' = Counted(wrote)
    /\ cut' = IF index = NoIndex THEN {} ELSE cut \ marker
    /\ behind' = IF wrote THEN {} ELSE marker
    /\ deaf' = FALSE /\ carried' = {}
    /\ UNCHANGED <<record, dirty, moved, timer, lane, indexLane, at, snapshot, doomed, kept>>

-----------------------------------------------------------------------------
(* The lane of the index *)

Waiting == IF at = "waiting" THEN indexLane ELSE Tail(indexLane)
UnderWay == IF at = "waiting" THEN <<>> ELSE <<Head(indexLane)>>
Marks == {task \in IndexTask : task.does = "mark"}

\* writeIndexNow: a push replaces the pushes that wait, which are answered.
Push(by, of) ==
    UnderWay \o Only(Waiting, Marks)
             \o <<[does |-> "push", by |-> by, of |-> of, names |-> {}, value |-> 0]>>

\* markDirty: the book joins, and the marker is appended if it did.
Joined(b) == b \notin dirty
Mark(b) ==
    IF Joined(b)
    THEN Append(indexLane, [does |-> "mark", by |-> "commit", of |-> {b}, names |-> dirty \cup {b},
                       value |-> record[b] + 1])
    ELSE indexLane

\* Who hears that the first task failed: a commit repairs, a repair throws the
\* index away, a flush only says so.
Heard(ok) ==
    LET task == Head(indexLane) IN
    /\ indexLane' = Tail(indexLane) /\ at' = "waiting"
    /\ lane' = [b \in Book |-> IF ~ok /\ task.by = "commit" /\ b \in task.of
                               THEN Append(lane[b], "repair") ELSE lane[b]]
    /\ doomed' = (doomed \/ (~ok /\ task.by = "repair"))

\* Nobody repairs what only a flush asked for.
Unrepaired(ok) == ~ok /\ Head(indexLane).by = "flush"

IndexStarts ==
    /\ indexLane # <<>> /\ at = "waiting" /\ Head(indexLane).does = "push"
    /\ at' = "writing" /\ snapshot' = row /\ moved' = FALSE
    /\ carried' = behind
    /\ UNCHANGED <<record, index, marker, row, dirty, timer, lane, indexLane, doomed, stage, kept, behind,
                   cut, deaf, spent>>

\* A wrong form: whatever was dirtied meanwhile, the list is cleared.
SawIt == TRUE

\* The generation is the one it captured.
SawAll == ~moved

\* The index is in its place: clear the list and the marker, restate it, or
\* neither.
IndexLands ==
    /\ at = "writing"
    /\ index' = snapshot /\ snapshot' = Nothing
    /\ IF SawAll /\ dirty = {}
       THEN Heard(TRUE) /\ UNCHANGED dirty
       ELSE /\ at' = IF SawAll THEN "clearing" ELSE "restating"
            /\ dirty' = IF SawAll THEN {} ELSE dirty
            /\ UNCHANGED <<lane, indexLane, doomed>>
    /\ behind' = behind \ carried /\ carried' = {} /\ deaf' = FALSE
    /\ UNCHANGED <<record, marker, row, moved, timer, stage, kept, cut, spent>>

\* It would not write; or only the directory would not be synced.
IndexFails(landed) ==
    /\ at = "writing" /\ MayFail(FALSE)
    /\ index' = IF landed THEN snapshot ELSE index
    /\ snapshot' = Nothing
    /\ Heard(FALSE)
    /\ carried' = {} /\ deaf' = (deaf \/ Unrepaired(FALSE))
    /\ spent' = Counted(FALSE)
    /\ UNCHANGED <<record, marker, row, dirty, moved, timer, stage, kept, behind, cut>>

\* clearDirtyMarker, whose failure nobody hears.
MarkerCleared(removed) ==
    /\ at = "clearing" /\ MayFail(removed)
    /\ marker' = IF removed THEN {} ELSE marker
    /\ Heard(TRUE)
    /\ spent' = Counted(removed)
    /\ UNCHANGED <<record, index, row, dirty, moved, timer, snapshot, stage, kept, history>>

\* The marker stated again, of every book that is dirty.
MarkerRestated(ok) ==
    /\ at = "restating" /\ MayFail(ok)
    /\ marker' = IF ok THEN dirty ELSE marker
    /\ Heard(ok)
    /\ deaf' = (deaf \/ Unrepaired(ok))
    /\ spent' = Counted(ok)
    /\ UNCHANGED <<record, index, row, dirty, moved, timer, snapshot, stage, kept, behind, carried, cut>>

\* Of these books only the marker says that the index is behind.
OnlyMarked == (behind \cap marker) \ dirty

\* The marker of a book that joined; its tick is answered.
MarkerWritten(ok) ==
    /\ indexLane # <<>> /\ at = "waiting" /\ Head(indexLane).does = "mark" /\ MayFail(ok)
    /\ LET task == Head(indexLane) IN
        /\ marker' = IF ok THEN task.names ELSE marker
        /\ kept' = [b \in Book |-> IF ok /\ b \in task.of /\ kept[b] < task.value
                                   THEN task.value ELSE kept[b]]
        /\ deaf' = (deaf \/ (ok /\ ~(OnlyMarked \subseteq task.names)))
    /\ Heard(ok)
    /\ spent' = Counted(ok)
    /\ UNCHANGED <<record, index, row, dirty, moved, timer, snapshot, stage, behind, carried, cut>>

\* invalidateIndex, the last resort, whose failure it keeps to itself.
Invalidate(removed) ==
    /\ doomed /\ MayFail(removed)
    /\ doomed' = FALSE
    /\ index' = IF removed THEN NoIndex ELSE index
    /\ deaf' = (deaf \/ ~removed)
    /\ spent' = Counted(removed)
    /\ UNCHANGED <<record, marker, row, dirty, moved, timer, lane, indexLane, at, snapshot, stage, kept,
                   behind, carried, cut>>

-----------------------------------------------------------------------------
(* The lanes of the books *)

\* updateWith and commit: the row is shown first, and the change waits its turn.
Change(b, what) ==
    /\ stage = "open" /\ spent.changes < MaxChanges
    /\ row' = [row EXCEPT ![b] = @ + 1]
    /\ lane' = [lane EXCEPT ![b] = Append(@, what)]
    /\ spent' = [spent EXCEPT !.changes = @ + 1]
    /\ UNCHANGED <<record, index, marker, dirty, moved, timer, indexLane, at, snapshot, doomed, stage, kept,
                   history>>

Next1(b) == Head(lane[b])
Writes(b) == lane[b] # <<>> /\ Next1(b) # "repair"

\* The row is what its folder holds, of which the index does not know.
IndexLags(b) == behind' = behind \cup {b} /\ carried' = carried \ {b} /\ cut' = cut \ {b}

\* The change is applied to what is on disk, and the row is what landed.
Land(b) ==
    /\ record' = [record EXCEPT ![b] = @ + 1]
    /\ row' = [row EXCEPT ![b] = record[b] + 1]
    /\ lane' = [lane EXCEPT ![b] = Tail(@)]
    /\ IndexLags(b)

\* A position landed: the book is dirty, and the flush is armed.
TickLands(b) ==
    /\ Writes(b) /\ Next1(b) = "tick"
    /\ Land(b)
    /\ dirty' = dirty \cup {b} /\ moved' = TRUE /\ timer' = TRUE
    /\ indexLane' = Mark(b)
    /\ kept' = IF Joined(b) THEN kept ELSE [kept EXCEPT ![b] = record[b] + 1]
    /\ UNCHANGED <<index, marker, at, snapshot, doomed, stage, deaf, spent>>

\* Any other change landed: the index is rewritten now.
ChangeLands(b) ==
    /\ Writes(b) /\ Next1(b) = "now"
    /\ Land(b)
    /\ indexLane' = Push("commit", {b})
    /\ UNCHANGED <<index, marker, dirty, moved, timer, at, snapshot, doomed, stage, kept, deaf, spent>>

\* It did not, or only the directory was not synced: what it predicted is
\* repaired, behind everything that waits in its lane.
ChangeFails(b, landed) ==
    /\ Writes(b) /\ MayFail(FALSE)
    /\ record' = [record EXCEPT ![b] = IF landed THEN @ + 1 ELSE @]
    /\ lane' = [lane EXCEPT ![b] = Append(Tail(@), "repair")]
    /\ spent' = Counted(FALSE)
    /\ UNCHANGED <<index, marker, row, dirty, moved, timer, indexLane, at, snapshot, doomed, stage, kept,
                   history>>

\* What the folder holds.
Truth(b) == record[b]

\* The folder wins, and the corrected picture is to reach the disk.
Repair(b) ==
    /\ lane[b] # <<>> /\ Next1(b) = "repair"
    /\ row' = [row EXCEPT ![b] = Truth(b)]
    /\ lane' = [lane EXCEPT ![b] = Tail(@)]
    /\ indexLane' = Push("repair", {b})
    /\ IndexLags(b)
    /\ UNCHANGED <<record, index, marker, dirty, moved, timer, at, snapshot, doomed, stage, kept, deaf, spent>>

-----------------------------------------------------------------------------
(* Flushing *)

\* flushIndex: one in flight, which a second call shares.
PushesOne == dirty # {} /\ ~Flushing

\* flushIndex disarms the timer, whoever called it.
FlushIndex ==
    /\ timer' = FALSE
    /\ indexLane' = IF PushesOne THEN Push("flush", {}) ELSE indexLane

\* The timer fires, or the window loses the focus.
Flush(fired) ==
    /\ Running
    /\ fired => timer
    /\ FlushIndex
    /\ UNCHANGED <<record, index, marker, row, dirty, moved, lane, at, snapshot, doomed, stage, kept,
                   history, spent>>

\* The drain flushes before it is idle, and after.
Flushes == {"open", "flushed"}

\* The stages of the drain; whoever waits for one to end waits for idle.
Drain(before, after) ==
    /\ stage = before
    /\ before # "open" => Idle
    /\ stage' = after
    /\ IF before \in Flushes THEN FlushIndex ELSE UNCHANGED <<timer, indexLane>>
    /\ UNCHANGED <<record, index, marker, row, dirty, moved, lane, at, snapshot, doomed, kept,
                   history, spent>>

\* Books whose change waits for its record, or whose record is in neither the index nor
\* the marker.
HalfDone == {b \in Book : lane[b] # <<>>} \cup (behind \ marker)

\* The process ends: memory is gone.
ProcessEnds ==
    /\ stage' = "closed"
    /\ cut' = cut \cup HalfDone
    /\ behind' = {} /\ carried' = {} /\ deaf' = FALSE
    /\ row' = Nothing /\ dirty' = {} /\ moved' = FALSE /\ timer' = FALSE
    /\ lane' = [b \in Book |-> <<>>] /\ indexLane' = <<>> /\ at' = "waiting"
    /\ snapshot' = Nothing /\ doomed' = FALSE
    /\ UNCHANGED <<record, index, marker, kept>>

\* The drain waits for the lanes, not for an invalidation.
Quit ==
    /\ stage = "drained"
    /\ ProcessEnds /\ UNCHANGED spent

Crash ==
    /\ Running /\ spent.crashes < MaxCrashes
    /\ ProcessEnds /\ spent' = [spent EXCEPT !.crashes = @ + 1]

-----------------------------------------------------------------------------
ShelfNext ==
    \/ \E wrote, removed \in BOOLEAN : Open(wrote, removed)
    \/ IndexStarts
    \/ IndexLands
    \/ \E landed \in BOOLEAN : IndexFails(landed)
    \/ \E removed \in BOOLEAN : MarkerCleared(removed)
    \/ \E ok \in BOOLEAN : MarkerRestated(ok)
    \/ \E ok \in BOOLEAN : MarkerWritten(ok)
    \/ \E removed \in BOOLEAN : Invalidate(removed)
    \/ \E b \in Book, what \in {"tick", "now"} : Change(b, what)
    \/ \E b \in Book : TickLands(b)
    \/ \E b \in Book : ChangeLands(b)
    \/ \E b \in Book, landed \in BOOLEAN : ChangeFails(b, landed)
    \/ \E b \in Book : Repair(b)
    \/ \E fired \in BOOLEAN : Flush(fired)
    \/ Drain("open", "flushed")
    \/ Drain("flushed", "again")
    \/ Drain("again", "drained")
    \/ Quit
    \/ Crash

ShelfSpec == ShelfInit /\ [][ShelfNext]_shelfVars

-----------------------------------------------------------------------------
(* Properties *)

\* Where nothing is under way the shelf shows what the folders hold, whatever
\* was predicted, failed or landed out of sight (libraryStore.ts:857).
SettledIsTrue == Running /\ Idle => \A b \in Book \ cut : row[b] = record[b]

\* The next launch shows what the folders hold, whenever the process before it
\* ended: of every book but one whose change it had under way, or whose record
\* neither the index nor the marker had (bookIndex.ts:41, libraryStore.ts:1153).
LoadIsTrue ==
    [][stage = "closed" /\ stage' = "open" => \A b \in Book \ cut : row'[b] = record[b]]_shelfVars

\* There is no such book where nothing is under way, unless a write failed that
\* nobody repairs or a tick's marker replaced the one that an earlier process left;
\* and neither lasts past the next write of the index (libraryStore.ts:902-923).
RestIsWhole ==
    Running /\ AtRest /\ ~deaf => index = NoIndex \/ HalfDone = {}

\* A drain in which nothing failed leaves an index that has every change
\* (services.ts:1017).
DrainIsComplete ==
    stage = "drained" /\ spent.fails = 0 =>
        index # NoIndex /\ \A b \in Book \ cut : index[b] = record[b]

\* Those that say of what the reader sees, what is at rest and what is drained that
\* it is true.
ShelfIsTrue == SettledIsTrue /\ RestIsWhole /\ DrainIsComplete

-----------------------------------------------------------------------------
(* What the comments say and the code does not hold to. *)

\* "the timer is the ceiling" (libraryStore.ts:616): while a book waits for the
\* index, a rewrite is on its way or the timer is armed.  Not so when a blur
\* shares a flush that began before the last tick.
TimerIsTheCeiling == dirty # {} => timer \/ indexLane # <<>>

\* "every write goes to book.json FIRST and here second" (bookIndex.ts:16).  Not
\* so of the rows of the other books, which are predictions.
IndexIsSecond == index # NoIndex => \A b \in Book : index[b] <= record[b]

\* "a subscriber hears once per change" (libraryStore.ts:863): while no write
\* fails a row does not go back.  Not so with two changes of a book under way.
RowsOnlyGrow ==
    [][spent'.fails = 0 /\ Running /\ stage' # "closed" => \A b \in Book : row[b] <= row'[b]]_shelfVars

\* "never a lost position" (bookIndex.ts:43): the next launch shows what was
\* answered as saved.  Not so of the second tick of a book whose first marker
\* still waits.
NeverALostPosition ==
    [][stage = "closed" /\ stage' = "open" => \A b \in Book : kept[b] <= row'[b]]_shelfVars

=============================================================================
