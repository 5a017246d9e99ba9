------------------------------ MODULE Removal ------------------------------
(***************************************************************************)
(* One book that is removed, restored and added again: the register of      *)
(* src/src/kernel/core/presence.ts, the trash of bookTrash.ts with its file *)
(* by file moves and its rollback, the operations of libraryStore.ts that   *)
(* call them, on the book's one lane, and the recovery at launch.  A call   *)
(* on the file system is a step: the process may die before each, and the   *)
(* calls that bookTrash.ts expects to fail may fail.                        *)
(*                                                                         *)
(* A file is the set of things the reader wrote into it, each with the      *)
(* stamp of its writing; a record's own stamp is its newest.  The book's    *)
(* bytes are there or not with the folder.                                  *)
(***************************************************************************)
EXTENDS Integers, FiniteSets

CONSTANTS
    None, Due,
    MaxStamp,    \* bound: the clock
    MaxDay,      \* bound: days
    MaxCrashes,  \* bound: how often the process dies
    MaxFaults    \* bound: how many kinds of call fail, each once

ASSUME RemovalAssumption ==
    /\ {MaxStamp, MaxDay, MaxCrashes, MaxFaults} \subseteq Nat
    /\ \A S \in SUBSET (0 .. MaxStamp) : None # S
    /\ None \notin Nat /\ Due \notin Nat /\ None # Due

File == {"record", "marks"}

VARIABLES
    live, trash,   \* what each file holds in books/<id>, in trash/<id>
    aside,         \* ... and in trash/<id> under its .displaced name
    liveDir, trashDir,
    stamp,         \* .removed: the day of the removal, or None
    reg,           \* the book's entry in the presence register
    row,           \* the book is on the shelf
    import,        \* its bytes are being written, and no add was asked for yet
    pc, why,       \* the step of the operation on the lane, and which one it is
    todo, moved, displaced,
    listed,        \* the launch's sweep: Due, the day it listed the book, or None
    now, day, crashes,
    faults,        \* the kinds of call that have failed
    \* What only the properties read:
    wrote,         \* wrote[f]: what the reader wrote there, until its stay was over
    away,          \* the reader removed it, and was not told otherwise
    touched,       \* the day of the last removal, or of a restore that left something
    unstamped      \* touched was not written down

files == <<live, trash, aside>>
folders == <<liveDir, trashDir, stamp>>
disk == <<files, folders, reg>>
shelf == <<row, import, listed>>
op == <<pc, why>>
tries == <<todo, moved, displaced>>
run == <<shelf, op, tries>>
bounds == <<day, crashes, faults>>
stay == <<touched, unstamped>>
ghosts == <<wrote, away, stay>>
vars == <<disk, run, now, bounds, ghosts>>

Nothing == [f \in File |-> None]
In(c) == IF c = None THEN {} ELSE c
Held(c) == {f \in File : c[f] # None}

Init ==
    /\ live = Nothing /\ trash = Nothing /\ aside = Nothing
    /\ liveDir = FALSE /\ trashDir = FALSE /\ stamp = None
    /\ reg = [state |-> "none", at |-> 0]
    /\ row = FALSE /\ import = FALSE /\ pc = "idle" /\ why = "none"
    /\ todo = {} /\ moved = {} /\ displaced = {} /\ listed = Due
    /\ now = 0 /\ day = 0 /\ crashes = 0 /\ faults = {}
    /\ wrote = [f \in File |-> {}] /\ away = FALSE /\ touched = 0 /\ unstamped = FALSE

Goes(p) == pc' = p
Fails(call) ==
    /\ call \notin faults /\ Cardinality(faults) < MaxFaults
    /\ faults' = faults \cup {call} /\ UNCHANGED <<day, crashes>>

\* notePresence: only a strictly newer stamp writes.
Notes(s, at) == reg' = IF at > reg.at THEN [state |-> s, at |-> at] ELSE reg

-----------------------------------------------------------------------------
(***************************************************************************)
(* The reader.                                                             *)
(***************************************************************************)
Tick == now < MaxStamp /\ now' = now + 1

\* A tag, a position, a rating: into the record that is there.  A mark: into the
\* file that is there, or a first one, beside bytes that are still being written
\* too.
Write(f) ==
    /\ pc = "idle" /\ liveDir /\ Tick
    /\ IF f = "record" THEN row /\ live[f] # None ELSE row \/ import
    /\ live' = [live EXCEPT ![f] = In(@) \cup {now'}]
    /\ wrote' = [wrote EXCEPT ![f] = @ \cup {now'}]
    /\ UNCHANGED <<trash, aside, folders, reg, run, bounds, away, stay>>

\* An import writes the bytes first, into the folder and off the lane.
Import ==
    /\ pc # "down" /\ why # "recover" /\ ~import
    /\ import' = TRUE /\ liveDir' = TRUE
    /\ UNCHANGED <<files, trashDir, stamp, reg, row, op, tries, listed, now, bounds, ghosts>>

\* What add's guard decides, in the lane: a removed book is restored before it is
\* written.
Add ==
    /\ pc = "idle" /\ import
    /\ import' = FALSE /\ why' = "add"
    /\ LET first == IF reg.state = "removed" THEN "restore" ELSE "again"
       IN Goes(first) /\ todo' = Held(trash)
    /\ liveDir' = (liveDir \/ trashDir) /\ away' = FALSE
    /\ UNCHANGED <<files, trashDir, stamp, reg, row, moved, displaced, listed, now, bounds, wrote, stay>>

Restore ==
    /\ pc = "idle" /\ trashDir
    /\ Goes("restore") /\ why' = "restore" /\ todo' = Held(trash)
    /\ liveDir' = TRUE /\ away' = FALSE
    /\ UNCHANGED <<files, trashDir, stamp, reg, shelf, moved, displaced, now, bounds, wrote, stay>>

\* The register first, the rename second; the row has gone already.
Remove ==
    /\ pc = "idle" /\ row /\ Tick
    /\ row' = FALSE /\ why' = "remove" /\ Goes("evict")
    /\ Notes("removed", now') /\ away' = TRUE
    /\ UNCHANGED <<files, folders, import, tries, listed, bounds, wrote, stay>>

-----------------------------------------------------------------------------
(***************************************************************************)
(* trashBook.                                                              *)
(***************************************************************************)
\* No folder: nothing to move.  No entry: one rename.  An entry: file by file.
Evict ==
    /\ pc = "evict"
    /\ \/ /\ ~liveDir
          /\ Goes(IF why = "recover" THEN "load" ELSE "idle")
          /\ UNCHANGED <<disk, todo, bounds>>
       \/ /\ liveDir /\ trashDir
          /\ Goes("take") /\ todo' = Held(live)
          /\ UNCHANGED <<disk, bounds>>
       \/ /\ liveDir /\ ~trashDir
          /\ trash' = live /\ live' = Nothing
          /\ trashDir' = TRUE /\ liveDir' = FALSE
          /\ Goes("stamp")
          /\ UNCHANGED <<aside, stamp, reg, todo, bounds>>
       \/ /\ liveDir /\ ~trashDir /\ Fails("move")
          /\ Goes("failed")
          /\ UNCHANGED <<disk, todo>>
    /\ UNCHANGED <<shelf, why, moved, displaced, now, ghosts>>

TakeRest == <<folders, reg, shelf, why, now, ghosts>>

HeldAside(f) == displaced \cup {f}

\* The trashed copy that is in the way is held aside.
Displace(f) ==
    /\ pc = "take" /\ f \in todo /\ trash[f] # None
    /\ aside' = [aside EXCEPT ![f] = trash[f]]
    /\ trash' = [trash EXCEPT ![f] = None]
    /\ displaced' = HeldAside(f)
    /\ UNCHANGED <<live, pc, todo, moved, bounds, TakeRest>>

Take(f) ==
    /\ pc = "take" /\ f \in todo /\ trash[f] = None
    /\ trash' = [trash EXCEPT ![f] = live[f]]
    /\ live' = [live EXCEPT ![f] = None]
    /\ moved' = moved \cup {f} /\ todo' = todo \ {f}
    /\ UNCHANGED <<aside, pc, displaced, bounds, TakeRest>>

TakeFails ==
    /\ pc = "take" /\ todo # {} /\ Fails("move")
    /\ Goes("back")
    /\ UNCHANGED <<files, tries, TakeRest>>

\* What was held aside goes once all of it has moved, whoever held it.
Taken ==
    /\ pc = "take" /\ todo = {}
    /\ Goes("stamp")
    /\ aside' = Nothing /\ liveDir' = FALSE
    /\ moved' = {} /\ displaced' = {}
    /\ UNCHANGED <<live, trash, trashDir, stamp, reg, shelf, why, todo, now, bounds, ghosts>>

\* Best effort: the removal stands without its stamp.
Stamp ==
    /\ pc = "stamp"
    /\ touched' = day
    /\ \/ stamp' = day /\ unstamped' = FALSE /\ UNCHANGED bounds
       \/ Fails("stamp") /\ unstamped' = TRUE /\ UNCHANGED stamp
    /\ Goes(IF why = "recover" THEN "load" ELSE "idle")
    /\ UNCHANGED <<files, liveDir, trashDir, reg, shelf, why, tries, now, wrote, away>>

BackRest == <<folders, reg, shelf, why, todo, now, ghosts>>

\* The rollback: the live ones first.
PutBack(f) ==
    /\ pc = "back" /\ f \in moved
    /\ moved' = moved \ {f}
    /\ \/ /\ live' = [live EXCEPT ![f] = trash[f]]
          /\ trash' = [trash EXCEPT ![f] = None]
          /\ UNCHANGED bounds
       \/ Fails("back") /\ UNCHANGED <<live, trash>>
    /\ UNCHANGED <<aside, pc, displaced, BackRest>>

\* Only onto a name nothing is at.
Unoccupied(f) == trash[f] = None

Replace(f) ==
    /\ pc = "back" /\ moved = {} /\ f \in displaced
    /\ displaced' = displaced \ {f}
    /\ \/ /\ Unoccupied(f)
          /\ trash' = [trash EXCEPT ![f] = aside[f]]
          /\ aside' = [aside EXCEPT ![f] = None]
          /\ UNCHANGED bounds
       \/ /\ ~Unoccupied(f)
          /\ UNCHANGED <<trash, aside, bounds>>
       \/ Fails("back") /\ UNCHANGED <<trash, aside>>
    /\ UNCHANGED <<live, pc, moved, BackRest>>

RolledBack ==
    /\ pc = "back" /\ moved = {} /\ displaced = {}
    /\ Goes("failed")
    /\ UNCHANGED <<disk, shelf, why, tries, now, bounds, ghosts>>

\* evictFolder: the row comes back, and the register is told, if it can be.  The
\* launch's recovery goes on to the next book.
Failed ==
    /\ pc = "failed" /\ todo' = {}
    /\ IF why = "recover"
       THEN Goes("load") /\ UNCHANGED <<reg, row, now, bounds, away>>
       ELSE /\ Goes("idle") /\ row' = TRUE /\ away' = FALSE
            /\ \/ Tick /\ Notes("live", now') /\ UNCHANGED bounds
               \/ Fails("register") /\ UNCHANGED <<reg, now>>
    /\ UNCHANGED <<files, folders, import, why, moved, displaced, listed, wrote, stay>>

-----------------------------------------------------------------------------
(***************************************************************************)
(* restoreBook, and what follows it in add and in restore.                  *)
(***************************************************************************)
\* A name already live wins; a move may fail.
BringBack(f) ==
    /\ pc \in {"restore", "again"} /\ f \in todo
    /\ todo' = todo \ {f}
    /\ \/ live[f] # None /\ UNCHANGED <<live, trash, bounds>>
       \/ /\ live[f] = None
          /\ live' = [live EXCEPT ![f] = trash[f]]
          /\ trash' = [trash EXCEPT ![f] = None]
          /\ UNCHANGED bounds
       \/ live[f] = None /\ Fails("bring") /\ UNCHANGED <<live, trash>>
    /\ UNCHANGED <<aside, folders, reg, shelf, op, moved, displaced, now, ghosts>>

\* The entry goes when it is empty of the book; else it has a stay of its own.
BroughtBack ==
    /\ pc \in {"restore", "again"} /\ todo = {}
    /\ Goes(IF pc = "restore" THEN "settle" ELSE "rescue")
    /\ IF ~trashDir THEN UNCHANGED <<trashDir, aside, stamp, stay, bounds>>
       ELSE IF Held(trash) = {}
       THEN /\ trashDir' = FALSE /\ aside' = Nothing /\ stamp' = None
            /\ UNCHANGED <<stay, bounds>>
       ELSE /\ UNCHANGED <<trashDir, aside>> /\ touched' = day
            /\ \/ stamp' = day /\ unstamped' = FALSE /\ UNCHANGED bounds
               \/ Fails("stamp") /\ unstamped' = TRUE /\ UNCHANGED stamp
    /\ UNCHANGED <<live, trash, liveDir, reg, shelf, why, tries, now, wrote, away>>

\* The register hears about the return; an add tries the trash once more.
Settle ==
    /\ pc = "settle" /\ Tick /\ Notes("live", now')
    /\ IF why = "add" THEN Goes("again") /\ todo' = Held(trash)
       ELSE Goes("rescue") /\ UNCHANGED todo
    /\ UNCHANGED <<files, folders, shelf, why, moved, displaced, bounds, ghosts>>

AfterMarks == IF why = "add" THEN "write" ELSE "row"

\* A wrong form: the trashed marks are left where they are.
RescuesNone == {}

\* rescueStrandedMarks: the marks the live file does not have.
Rescued == In(trash["marks"])

Rescue ==
    /\ pc = "rescue"
    /\ \/ /\ trash["marks"] # None
          /\ live' = [live EXCEPT !["marks"] = In(@) \cup Rescued]
          /\ Goes("rescued") /\ UNCHANGED bounds
       \/ trash["marks"] # None /\ Fails("rescue") /\ Goes(AfterMarks) /\ UNCHANGED live
       \/ trash["marks"] = None /\ Goes(AfterMarks) /\ UNCHANGED <<live, bounds>>
    /\ UNCHANGED <<trash, aside, folders, reg, shelf, why, tries, now, ghosts>>

Drop(f, p) ==
    /\ trash' = [trash EXCEPT ![f] = None]
    /\ Goes(p)
    /\ UNCHANGED <<live, aside, folders, reg, import, why, tries, listed, now, bounds, ghosts>>

MarksDropped == pc = "rescued" /\ Drop("marks", AfterMarks) /\ UNCHANGED row

\* mergeStranded, and the parse: what both records hold, or a first one, which has
\* the time of its adding.
WriteRecord ==
    /\ pc = "write"
    /\ live' = [live EXCEPT !["record"] = LET both == In(@) \cup In(trash["record"])
                                         IN IF both = {} THEN {now} ELSE both]
    /\ liveDir' = TRUE
    /\ Goes("written")
    /\ UNCHANGED <<trash, aside, trashDir, stamp, reg, shelf, why, tries, now, bounds, ghosts>>

RecordDropped == pc = "written" /\ Drop("record", "row") /\ UNCHANGED row

Shown ==
    /\ pc = "row"
    /\ Goes("idle")
    /\ row' = (live["record"] # None)
    /\ UNCHANGED <<disk, import, why, tries, listed, now, bounds, ghosts>>

-----------------------------------------------------------------------------
(***************************************************************************)
(* The sweep, the end of the process, and the launch.                       *)
(***************************************************************************)
Stay == 1

\* expiredTrash reads, once after a launch and off the lane.
List ==
    /\ listed = Due /\ pc # "down" /\ why # "recover"
    /\ listed' = IF trashDir /\ stamp # None /\ day - stamp >= Stay THEN day ELSE None
    /\ UNCHANGED <<disk, row, import, op, tries, now, bounds, ghosts>>

\* A wrong form: what was listed is taken.
AsListed == TRUE

\* The stamp as it is now.
Expired == stamp # None /\ stamp <= listed - Stay

\* purgeTrashed, on the lane.
Purge ==
    /\ pc = "idle" /\ listed \notin {Due, None}
    /\ listed' = None
    /\ IF trashDir /\ Expired
       THEN /\ trash' = Nothing /\ aside' = Nothing /\ trashDir' = FALSE /\ stamp' = None
            /\ wrote' = [f \in File |-> wrote[f] \cap In(live[f])]
       ELSE UNCHANGED <<trash, aside, trashDir, stamp, wrote>>
    /\ UNCHANGED <<live, liveDir, reg, row, import, op, tries, now, bounds, away, stay>>

DayPasses ==
    /\ day < MaxDay /\ day' = day + 1
    /\ UNCHANGED <<disk, run, now, crashes, faults, ghosts>>

Crash ==
    /\ pc # "down" /\ crashes < MaxCrashes
    /\ crashes' = crashes + 1
    /\ Goes("down")
    /\ unstamped' = (unstamped \/ pc = "stamp")
    /\ row' = FALSE /\ import' = FALSE /\ why' = "none" /\ listed' = Due
    /\ todo' = {} /\ moved' = {} /\ displaced' = {}
    /\ UNCHANGED <<disk, now, day, faults, wrote, away, touched>>

RecordStamp == IF In(live["record"]) = {} THEN 0 ELSE CHOOSE s \in live["record"] : \A t \in live["record"] : t <= s

\* A wrong form: whatever the record says.
RegisterAlone == reg.state = "removed" /\ liveDir

\* A removal the register has and the folder does not, of a record no newer.
Pending == reg.state = "removed" /\ liveDir /\ RecordStamp <= reg.at

\* finishPendingRemovals, before anything else.
Launch ==
    /\ pc = "down"
    /\ why' = "recover"
    /\ Goes(IF Pending THEN "evict" ELSE "load")
    /\ UNCHANGED <<disk, shelf, tries, now, bounds, ghosts>>

\* loadShelf.
Load ==
    /\ pc = "load"
    /\ Goes("idle") /\ why' = "none"
    /\ row' = (live["record"] # None)
    /\ UNCHANGED <<disk, import, tries, listed, now, bounds, ghosts>>

-----------------------------------------------------------------------------
Next ==
    \/ \E f \in File : Write(f) \/ Displace(f) \/ Take(f) \/ PutBack(f) \/ Replace(f) \/ BringBack(f)
    \/ Import \/ Add \/ Restore \/ Remove
    \/ Evict \/ TakeFails \/ Taken \/ Stamp \/ RolledBack \/ Failed
    \/ BroughtBack \/ Settle \/ Rescue \/ MarksDropped \/ WriteRecord \/ RecordDropped \/ Shown
    \/ List \/ Purge \/ DayPasses \/ Crash \/ Launch \/ Load

Spec == Init /\ [][Next]_vars

-----------------------------------------------------------------------------
Content == {None} \cup SUBSET (0 .. MaxStamp)
TypeOK ==
    /\ {live, trash, aside} \subseteq [File -> Content]
    /\ {liveDir, trashDir, row, import, away, unstamped} \subseteq BOOLEAN
    /\ stamp \in {None} \cup 0 .. MaxDay /\ listed \in {None, Due} \cup 0 .. MaxDay
    /\ reg \in [state : {"none", "live", "removed"}, at : 0 .. MaxStamp]
    /\ {todo, moved, displaced} \subseteq SUBSET File
    /\ now \in 0 .. MaxStamp /\ {day, touched} \subseteq 0 .. MaxDay
    /\ crashes \in 0 .. MaxCrashes /\ Cardinality(faults) <= MaxFaults
    /\ wrote \in [File -> SUBSET (1 .. MaxStamp)]

Copies(f) == In(live[f]) \cup In(trash[f]) \cup In(aside[f])

\* What the reader wrote into a book is in some copy of its file until a whole stay in
\* the trash is over, through every removal, restore, import and sweep, and through a
\* removal that fails, which leaves the record where the shelf has its row: as long as
\* no process dies, and no call fails that leaves a part of the book behind in the
\* trash, where the next removal writes over it.
AllKept ==
    crashes = 0 /\ faults \cap {"back", "bring", "rescue"} = {}
        => /\ \A f \in File : wrote[f] \subseteq Copies(f)
           /\ pc = "idle" /\ row => live["record"] # None

\* And the newest of it is, whatever dies and whatever fails: no move, rollback or
\* recovery puts an older copy over it.
NewestKept == \A f \in File : wrote[f] # {} => \E n \in wrote[f] \cap Copies(f) : \A m \in wrote[f] : m <= n

\* Nothing is lost.
NothingLost == AllKept /\ NewestKept

\* The shelf that a launch reads is the one the reader left: a removal that the reader
\* saw is done by then, wherever the process died, and a book whose removal failed and
\* that the reader wrote in since is still there, whatever the register says.
LaunchKeepsTheDecision ==
    pc = "load" => /\ away /\ faults = {} => ~liveDir
                   /\ ~away /\ reg.state = "removed" /\ (\E s \in wrote["record"] : s > reg.at)
                        => live["record"] # None

\* Nothing leaves the trash before its stay is over, counted from the last removal,
\* or from the last restore that left it behind; a stamp that was not written is
\* another matter (README, divergences).
KeptItsStay == [][~unstamped /\ trashDir /\ ~trashDir' /\ pc = "idle" => day - touched >= Stay]_vars

\* "A reader who removes a book and adds it again finds their highlights waiting"
\* (bookTrash.ts:14-17).
HighlightsWait == faults = {} => \A f \in File : wrote[f] \subseteq Copies(f)

=============================================================================
