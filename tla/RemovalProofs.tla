--------------------------- MODULE RemovalProofs ---------------------------
(***************************************************************************)
(* Proofs about Removal, for every bound.                                   *)
(*                                                                         *)
(* Three arguments.  The newest thing the reader wrote into a file is in the *)
(* live copy if there is one, and else in the trashed one (NewestIsAhead):   *)
(* every move takes the copy that is ahead, and what was put aside is never  *)
(* ahead.  Without a crash, and without the faults that leave a part of the  *)
(* book behind, nothing is ever in both places while a removal runs, so      *)
(* nothing is put aside at all (Whole).  And the register's stamp tells      *)
(* which side of the reader's last decision a record is on (Decided).        *)
(***************************************************************************)
EXTENDS Removal, TLAPS, FiniteSetTheorems, WellFoundedInduction

\* Stamps are of the past.
Past ==
    /\ reg.at <= now
    /\ \A f \in File : \A s \in Copies(f) \cup wrote[f] : s <= now

\* What is in a folder is in a folder that is there, and the stamp in the trash's.
InFolders ==
    /\ Held(live) # {} => liveDir
    /\ Held(trash) \cup Held(aside) # {} \/ stamp # None => trashDir
    /\ pc \in {"restore", "settle", "again", "rescue", "rescued"} /\ trashDir => liveDir
    /\ pc \in {"take", "back", "stamp"} => trashDir
    /\ pc \in {"take", "back"} => liveDir

\* Where an operation stands.
OnItsWay ==
    /\ pc = "take" => todo = Held(live)
    /\ moved \cap Held(live) = {}
    /\ pc \notin {"take", "back"} => moved = {} /\ displaced = {}
    /\ pc = "rescued" => live["marks"] # None /\ In(trash["marks"]) \subseteq live["marks"]
    /\ pc = "written" => live["record"] # None /\ In(trash["record"]) \subseteq live["record"]
    /\ pc \in {"back", "failed"} => faults # {}
    /\ pc \in {"down", "idle"} => why # "recover"
    /\ pc \in {"load"} => why = "recover"
    /\ why = "recover" => pc \in {"evict", "take", "back", "stamp", "failed", "load"}

-----------------------------------------------------------------------------
\* c has the newest of what the reader wrote into f.
HasNewest(f, c) == \E n \in wrote[f] \cap In(c) : \A m \in wrote[f] : m <= n

\* The newest is in the live copy, or in the trashed one of a file that has no other.
NewestIsAhead ==
    \A f \in File : wrote[f] # {} =>
        HasNewest(f, live[f]) \/ (live[f] = None /\ HasNewest(f, trash[f]))

-----------------------------------------------------------------------------
\* Nobody died, and nothing failed that leaves a part of the book behind.
Calm == crashes = 0 /\ faults \cap {"back", "bring", "rescue"} = {}

\* Where the copies are, at each step of a removal ...
Removing ==
    /\ pc \in {"evict", "take", "back", "stamp", "failed"} => ~row
    /\ pc \in {"evict", "failed"} => trash = Nothing /\ live["record"] # None
    /\ pc \in {"take", "back"} =>
          /\ "record" \in Held(live) \cup moved
          /\ Held(trash) = moved
    /\ pc = "stamp" => live = Nothing

\* ... and of a restore.
Restoring ==
    /\ pc \in {"restore", "again"} =>
          /\ \A f \in Held(trash) : f \notin todo => live[f] # None
          /\ todo \subseteq Held(trash)
          /\ "record" \in Held(trash) => "record" \in todo /\ live["record"] = None
    /\ pc \in {"settle", "rescue", "rescued"} => trash["record"] = None
    /\ pc \in {"write", "written", "row"} => trash = Nothing

Intact ==
    /\ aside = Nothing /\ displaced = {}
    /\ pc \notin {"down", "load"} /\ why # "recover"
    /\ \A f \in File : wrote[f] \subseteq Copies(f)
    /\ pc = "idle" => /\ row <=> live["record"] # None
                      /\ row => trash = Nothing
    /\ Removing /\ Restoring

Whole == Calm => Intact

-----------------------------------------------------------------------------
\* The reader wrote in the record since the register was last told.
WroteSince == \E s \in wrote["record"] : s > reg.at

\* A record that is newer than the register's removal is where the shelf finds it ...
WrittenIsLive == reg.state = "removed" /\ WroteSince => live["record"] # None

\* ... and no removal is under way of one.
NoneSince == pc \in {"evict", "take", "back", "stamp", "failed"} => ~WroteSince

\* As long as nothing failed, a removal the reader saw is in the register, and no
\* record is newer.
Recorded ==
    away /\ faults = {} => /\ reg.state = "removed"
                           /\ \A s \in Copies("record") \cup wrote["record"] : s <= reg.at

Returning == {"restore", "settle", "again", "rescue", "rescued", "write", "written", "row"}

\* A book that is away has no row, and nothing brings it back.
StaysAway ==
    /\ away /\ faults = {} => ~row
    /\ pc \in Returning => ~away

\* The recovery has removed it.
Recovered == pc \in {"load", "stamp"} /\ why = "recover" /\ away /\ faults = {} => ~liveDir

Decided == WrittenIsLive /\ NoneSince /\ Recorded /\ StaysAway /\ Recovered

-----------------------------------------------------------------------------
\* The stamp is of the last touch, unless it could not be written; the sweep lists
\* what it saw in the past.
Stamped ==
    /\ trashDir /\ ~unstamped /\ pc # "stamp" => stamp = touched
    /\ listed \notin {Due, None} => listed <= day

IInv ==
    /\ TypeOK /\ IsFiniteSet(faults) /\ Past /\ InFolders /\ OnItsWay
    /\ NewestIsAhead /\ Whole /\ Decided /\ Stamped

-----------------------------------------------------------------------------
(* Types *)

LEMMA Constants ==
    /\ MaxStamp \in Nat /\ MaxDay \in Nat /\ MaxCrashes \in Nat /\ MaxFaults \in Nat
    /\ None \notin Nat /\ Due \notin Nat /\ None # Due
    /\ \A S \in SUBSET (0 .. MaxStamp) : None # S
BY RemovalAssumption

LEMMA NothingTypes == Nothing \in [File -> Content] /\ Held(Nothing) = {}
BY DEF Nothing, Content, Held

\* One more call fails: they are finitely many, and no more than may.
LEMMA FailsTypes ==
    ASSUME NEW call, Fails(call), IsFiniteSet(faults), Cardinality(faults) <= MaxFaults
    PROVE  IsFiniteSet(faults') /\ Cardinality(faults') <= MaxFaults /\ UNCHANGED <<day, crashes>>
<1>1. faults' = faults \cup {call} /\ call \notin faults /\ Cardinality(faults) < MaxFaults
  BY DEF Fails
<1>2. IsFiniteSet(faults') /\ Cardinality(faults') = Cardinality(faults) + 1
  BY <1>1, FS_AddElement
<1>3. Cardinality(faults) \in Nat
  BY FS_CardinalityType
<1> QED
  BY <1>1, <1>2, <1>3, Constants DEF Fails

FaultsTypes ==
    /\ IsFiniteSet(faults) /\ Cardinality(faults) <= MaxFaults
    /\ day \in 0 .. MaxDay /\ crashes \in 0 .. MaxCrashes

LEMMA FaultsStep == FaultsTypes /\ [Next]_vars => FaultsTypes'
<1> SUFFICES ASSUME FaultsTypes, [Next]_vars PROVE FaultsTypes'
  OBVIOUS
<1>1. \/ UNCHANGED bounds
      \/ \E call : Fails(call)
      \/ DayPasses
      \/ Crash
  BY DEF Next, vars, Write, Displace, Take, PutBack, Replace, BringBack, Import, Add, Restore, Remove,
         Evict, TakeFails, Taken, Stamp, RolledBack, Failed, BroughtBack, Settle, Rescue, MarksDropped,
         WriteRecord, RecordDropped, Drop, Shown, List, Purge, Launch, Load
<1>2. CASE UNCHANGED bounds
  BY <1>2 DEF bounds, FaultsTypes
<1>3. ASSUME NEW call, Fails(call) PROVE FaultsTypes'
  BY <1>3, FailsTypes DEF FaultsTypes
<1>4. CASE DayPasses
  BY <1>4, Constants DEF DayPasses, FaultsTypes
<1>5. CASE Crash
  BY <1>5, Constants DEF Crash, FaultsTypes
<1> QED
  BY <1>1, <1>2, <1>3, <1>4, <1>5

DataTypes ==
    /\ live \in [File -> Content] /\ trash \in [File -> Content] /\ aside \in [File -> Content]
    /\ reg \in [state : {"none", "live", "removed"}, at : 0 .. MaxStamp]
    /\ now \in 0 .. MaxStamp
    /\ wrote \in [File -> SUBSET (1 .. MaxStamp)]
    /\ todo \subseteq File /\ moved \subseteq File /\ displaced \subseteq File

DayTypes ==
    /\ stamp \in {None} \cup 0 .. MaxDay /\ touched \in 0 .. MaxDay
    /\ listed \in {None, Due} \cup 0 .. MaxDay

FlagTypes ==
    /\ liveDir \in BOOLEAN /\ trashDir \in BOOLEAN /\ row \in BOOLEAN
    /\ import \in BOOLEAN /\ away \in BOOLEAN /\ unstamped \in BOOLEAN

LEMMA TypeParts == TypeOK /\ IsFiniteSet(faults) <=> FaultsTypes /\ DataTypes /\ DayTypes /\ FlagTypes
<1>1. /\ {live, trash, aside} \subseteq [File -> Content]
          <=> live \in [File -> Content] /\ trash \in [File -> Content] /\ aside \in [File -> Content]
      /\ {todo, moved, displaced} \subseteq SUBSET File
          <=> todo \subseteq File /\ moved \subseteq File /\ displaced \subseteq File
      /\ {day, touched} \subseteq 0 .. MaxDay <=> day \in 0 .. MaxDay /\ touched \in 0 .. MaxDay
  OBVIOUS
<1>2. {liveDir, trashDir, row, import, away, unstamped} \subseteq BOOLEAN <=> FlagTypes
  BY DEF FlagTypes
<1> QED
  BY <1>1, <1>2, Zenon DEF TypeOK, FaultsTypes, DataTypes, DayTypes

\* What a stamp is added to, and what is put together, are contents again.
LEMMA ContentTypes ==
    /\ \A c \in Content : In(c) \in SUBSET (0 .. MaxStamp)
    /\ None \in Content /\ SUBSET (0 .. MaxStamp) \subseteq Content
BY DEF Content, In

LEMMA DataStep == DataTypes /\ [Next]_vars => DataTypes'
<1> SUFFICES ASSUME DataTypes, [Next]_vars PROVE DataTypes'
  OBVIOUS
<1> USE Constants, ContentTypes, NothingTypes DEF DataTypes
<1>1. ASSUME NEW f \in File, Write(f) PROVE DataTypes'
  <2>1. now' = now + 1 /\ now' \in 1 .. MaxStamp
    BY <1>1 DEF Write, Tick
  <2>2. In(live[f]) \cup {now'} \in Content
    BY <2>1
  <2> QED
    BY <1>1, <2>1, <2>2 DEF Write, run, tries, folders
<1>2. ASSUME NEW f \in File, Displace(f) \/ Take(f) \/ PutBack(f) \/ Replace(f) \/ BringBack(f)
      PROVE  DataTypes'
  BY <1>2 DEF Displace, Take, PutBack, Replace, BringBack, TakeRest, BackRest, HeldAside, ghosts
<1>3. CASE Import \/ Add \/ Restore
  BY <1>3 DEF Import, Add, Restore, files, tries, Held, ghosts
<1>4. CASE Remove
  BY <1>4 DEF Remove, Tick, Notes, files, tries
<1>5. CASE Evict \/ TakeFails \/ Taken \/ Stamp \/ RolledBack
  BY <1>5 DEF Evict, TakeFails, Taken, Stamp, RolledBack, files, disk, tries, ghosts, TakeRest, Held
<1>6. CASE Failed \/ Settle
  BY <1>6 DEF Failed, Settle, Tick, Notes, files, tries, Held, ghosts
<1>7. CASE BroughtBack
  BY <1>7 DEF BroughtBack, tries
<1>8. CASE Rescue
  BY <1>8 DEF Rescue, Rescued, tries, ghosts, File
<1>9. CASE WriteRecord
  <2>1. (LET both == In(live["record"]) \cup In(trash["record"])
         IN IF both = {} THEN {now} ELSE both) \in Content
    BY DEF File
  <2> QED
    BY <1>9, <2>1 DEF WriteRecord, tries, ghosts
<1>10. CASE MarksDropped \/ RecordDropped
  BY <1>10 DEF MarksDropped, RecordDropped, Drop, tries, ghosts
<1>11. CASE Purge
  BY <1>11 DEF Purge, tries
<1>12. CASE Shown \/ List \/ DayPasses \/ Crash \/ Launch \/ Load
  BY <1>12 DEF Shown, List, DayPasses, Crash, Launch, Load, disk, files, run, tries, ghosts
<1>13. CASE UNCHANGED vars
  BY <1>13 DEF vars, disk, files, run, tries, ghosts
<1> QED
  BY <1>1, <1>2, <1>3, <1>4, <1>5, <1>6, <1>7, <1>8, <1>9, <1>10, <1>11, <1>12, <1>13 DEF Next

LEMMA DayStep == FaultsTypes /\ DayTypes /\ [Next]_vars => DayTypes'
<1> SUFFICES ASSUME FaultsTypes, DayTypes, [Next]_vars PROVE DayTypes'
  OBVIOUS
<1>1. day \in 0 .. MaxDay
  BY DEF FaultsTypes
<1>2. /\ stamp' \in {stamp, None, day}
      /\ touched' \in {touched, day}
      /\ listed' \in {listed, None, Due, day}
  BY DEF Next, vars, disk, folders, run, shelf, bounds, ghosts, stay, TakeRest, BackRest, Write, Displace,
         Take, PutBack, Replace, BringBack, Import, Add, Restore, Remove,
         Evict, TakeFails, Taken, Stamp, RolledBack, Failed, BroughtBack, Settle, Rescue, MarksDropped,
         WriteRecord, RecordDropped, Drop, Shown, List, Purge, Launch, Load, DayPasses, Crash
<1> QED
  BY <1>1, <1>2 DEF DayTypes

LEMMA FlagStep == FlagTypes /\ [Next]_vars => FlagTypes'
<1> SUFFICES ASSUME FlagTypes, [Next]_vars PROVE FlagTypes'
  OBVIOUS
<1>1. /\ liveDir' \in {liveDir, TRUE, FALSE, liveDir \/ trashDir} /\ trashDir' \in {trashDir, TRUE, FALSE}
      /\ row' \in {row, TRUE, FALSE, live["record"] # None}
  BY DEF Next, vars, disk, folders, run, shelf, bounds, ghosts, stay, TakeRest, BackRest, Write, Displace,
         Take, PutBack, Replace, BringBack, Import, Add, Restore, Remove,
         Evict, TakeFails, Taken, Stamp, RolledBack, Failed, BroughtBack, Settle, Rescue, MarksDropped,
         WriteRecord, RecordDropped, Drop, Shown, List, Purge, Launch, Load, DayPasses, Crash
<1>2. import' \in {import, TRUE, FALSE} /\ away' \in {away, TRUE, FALSE}
  BY DEF Next, vars, disk, folders, run, shelf, bounds, ghosts, stay, TakeRest, BackRest, Write, Displace,
         Take, PutBack, Replace, BringBack, Import, Add, Restore, Remove,
         Evict, TakeFails, Taken, Stamp, RolledBack, Failed, BroughtBack, Settle, Rescue, MarksDropped,
         WriteRecord, RecordDropped, Drop, Shown, List, Purge, Launch, Load, DayPasses, Crash
<1>3. unstamped' \in {unstamped, TRUE, FALSE, unstamped \/ pc = "stamp"}
  BY DEF Next, vars, disk, folders, run, shelf, bounds, ghosts, stay, TakeRest, BackRest, Write, Displace,
         Take, PutBack, Replace, BringBack, Import, Add, Restore, Remove,
         Evict, TakeFails, Taken, Stamp, RolledBack, Failed, BroughtBack, Settle, Rescue, MarksDropped,
         WriteRecord, RecordDropped, Drop, Shown, List, Purge, Launch, Load, DayPasses, Crash
<1>4. /\ liveDir \in BOOLEAN /\ trashDir \in BOOLEAN /\ row \in BOOLEAN
      /\ import \in BOOLEAN /\ away \in BOOLEAN /\ unstamped \in BOOLEAN
  BY DEF FlagTypes
<1>5. liveDir' \in BOOLEAN /\ trashDir' \in BOOLEAN /\ row' \in BOOLEAN
  BY <1>1, <1>4, Zenon
<1>6. import' \in BOOLEAN /\ away' \in BOOLEAN /\ unstamped' \in BOOLEAN
  BY <1>2, <1>3, <1>4, Zenon
<1> QED
  BY <1>5, <1>6 DEF FlagTypes

LEMMA TypesStep == TypeOK /\ IsFiniteSet(faults) /\ [Next]_vars => (TypeOK /\ IsFiniteSet(faults))'
<1> SUFFICES ASSUME TypeOK, IsFiniteSet(faults), [Next]_vars PROVE (TypeOK /\ IsFiniteSet(faults))'
  OBVIOUS
<1>1. FaultsTypes /\ DataTypes /\ DayTypes /\ FlagTypes
  BY TypeParts
<1>2. FaultsTypes' /\ DataTypes' /\ DayTypes' /\ FlagTypes'
  BY <1>1, FaultsStep, DataStep, DayStep, FlagStep
<1>3. (FaultsTypes /\ DataTypes /\ DayTypes /\ FlagTypes)' => (TypeOK /\ IsFiniteSet(faults))'
  BY TypeParts, PTL
<1> QED
  BY <1>2, <1>3

-----------------------------------------------------------------------------
(* Stamps, folders and the stage of an operation *)

LEMMA PastStep == DataTypes /\ Past /\ [Next]_vars => Past'
<1> SUFFICES ASSUME DataTypes, Past, [Next]_vars PROVE Past'
  OBVIOUS
<1> USE Constants, ContentTypes DEF DataTypes, Past, Copies, In
<1>1. ASSUME NEW f \in File, Write(f) PROVE Past'
  <2>1. now' = now + 1 /\ UNCHANGED reg
    BY <1>1 DEF Write, Tick
  <2>2. \A g \in File : Copies(g)' \cup wrote'[g] \subseteq Copies(g) \cup wrote[g] \cup {now'}
    BY <1>1 DEF Write
  <2> QED
    BY <2>1, <2>2
<1>2. ASSUME NEW f \in File, Displace(f) \/ Take(f) \/ PutBack(f) \/ Replace(f) \/ BringBack(f)
      PROVE  Past'
  BY <1>2 DEF Displace, Take, PutBack, Replace, BringBack, TakeRest, BackRest, HeldAside, ghosts
<1>3. CASE Import \/ Add \/ Restore
  BY <1>3 DEF Import, Add, Restore, files, tries, ghosts
<1>4. CASE Remove \/ Failed \/ Settle
  BY <1>4 DEF Remove, Failed, Settle, Tick, Notes, files, tries, ghosts
<1>5. CASE Evict \/ TakeFails \/ Taken \/ Stamp \/ RolledBack
  BY <1>5 DEF Evict, TakeFails, Taken, Stamp, RolledBack, files, disk, tries, ghosts, TakeRest, Nothing
<1>6. CASE BroughtBack \/ Purge
  BY <1>6 DEF BroughtBack, Purge, tries, Nothing
<1>7. CASE Rescue
  BY <1>7 DEF Rescue, Rescued, tries, ghosts, File
<1>8. CASE WriteRecord
  BY <1>8 DEF WriteRecord, tries, ghosts, File
<1>9. CASE MarksDropped \/ RecordDropped
  BY <1>9 DEF MarksDropped, RecordDropped, Drop, tries, ghosts
<1>10. CASE Shown \/ List \/ DayPasses \/ Crash \/ Launch \/ Load
  BY <1>10 DEF Shown, List, DayPasses, Crash, Launch, Load, disk, files, run, tries, ghosts
<1>11. CASE UNCHANGED vars
  BY <1>11 DEF vars, disk, files, run, tries, ghosts
<1> QED
  BY <1>1, <1>2, <1>3, <1>4, <1>5, <1>6, <1>7, <1>8, <1>9, <1>10, <1>11 DEF Next

LEMMA InFoldersStep == DataTypes /\ InFolders /\ OnItsWay /\ [Next]_vars => InFolders'
<1> SUFFICES ASSUME DataTypes, InFolders, OnItsWay, [Next]_vars PROVE InFolders'
  OBVIOUS
<1> USE Constants, NothingTypes DEF DataTypes, InFolders, Held
<1>1. ASSUME NEW f \in File, Write(f) PROVE InFolders'
  BY <1>1 DEF Write, folders, run, op
<1>2. ASSUME NEW f \in File, Displace(f) \/ Take(f) PROVE InFolders'
  <2>1. pc = "take" /\ pc' = pc /\ UNCHANGED <<liveDir, trashDir, stamp>>
    BY <1>2 DEF Displace, Take, TakeRest, folders
  <2> QED
    BY <2>1
<1>3. ASSUME NEW f \in File, PutBack(f) \/ Replace(f) PROVE InFolders'
  <2>1. pc = "back" /\ pc' = pc /\ UNCHANGED <<liveDir, trashDir, stamp>>
    BY <1>3 DEF PutBack, Replace, BackRest, folders
  <2> QED
    BY <2>1
<1>4. ASSUME NEW f \in File, BringBack(f) PROVE InFolders'
  BY <1>4 DEF BringBack, folders, op
<1>5. CASE Import
  BY <1>5 DEF Import, files, op
<1>6. CASE Add \/ Restore
  <2>1. UNCHANGED <<live, trash, aside, trashDir, stamp>> /\ pc' \in {"restore", "again"}
    BY <1>6 DEF Add, Restore, files, Goes
  <2>2. liveDir \/ trashDir => liveDir'
    BY <1>6 DEF Add, Restore
  <2> QED
    BY <2>1, <2>2
<1>7. CASE Remove \/ Failed \/ Settle
  BY <1>7 DEF Remove, Failed, Settle, files, folders, Goes
<1>8. CASE Evict
  BY <1>8 DEF Evict, disk, files, folders, Goes
<1>9. CASE TakeFails
  BY <1>9 DEF TakeFails, files, folders, TakeRest, Goes
<1>10. CASE Taken
  <2>1. Held(live) = {} /\ Held(live') = {} /\ trashDir
    BY <1>10 DEF Taken, OnItsWay
  <2> QED
    BY <1>10, <2>1 DEF Taken, Goes
<1>11. CASE Stamp
  <2>1. UNCHANGED <<live, trash, aside, liveDir, trashDir>> /\ trashDir /\ pc' \in {"load", "idle"}
    BY <1>11 DEF Stamp, files, Goes
  <2> QED
    BY <2>1
<1>12. CASE RolledBack
  BY <1>12 DEF RolledBack, disk, files, folders, Goes
<1>13. CASE BroughtBack \/ Purge
  BY <1>13 DEF BroughtBack, Purge, Goes, op
<1>14. CASE Rescue \/ WriteRecord
  BY <1>14 DEF Rescue, WriteRecord, folders, Goes, AfterMarks
<1>15. CASE MarksDropped \/ RecordDropped
  BY <1>15 DEF MarksDropped, RecordDropped, Drop, folders, Goes, AfterMarks
<1>16. CASE Shown \/ List \/ DayPasses \/ Crash \/ Launch \/ Load
  BY <1>16 DEF Shown, List, DayPasses, Crash, Launch, Load, disk, files, folders, run, op, Goes
<1>17. CASE UNCHANGED vars
  BY <1>17 DEF vars, disk, files, folders, run, op
<1> QED
  BY <1>1, <1>2, <1>3, <1>4, <1>5, <1>6, <1>7, <1>8, <1>9, <1>10, <1>11, <1>12, <1>13, <1>14,
     <1>15, <1>16, <1>17 DEF Next

LEMMA OnItsWayStep == DataTypes /\ OnItsWay /\ [Next]_vars => OnItsWay'
<1> SUFFICES ASSUME DataTypes, OnItsWay, [Next]_vars PROVE OnItsWay'
  OBVIOUS
<1> USE Constants, ContentTypes, NothingTypes DEF DataTypes, OnItsWay, Held, In, Goes
<1>1. ASSUME NEW f \in File, Write(f) PROVE OnItsWay'
  BY <1>1 DEF Write, run, op, tries, bounds
<1>2. ASSUME NEW f \in File, Displace(f) \/ Take(f) PROVE OnItsWay'
  BY <1>2 DEF Displace, Take, TakeRest, HeldAside, bounds
<1>3. ASSUME NEW f \in File, PutBack(f) \/ Replace(f) PROVE OnItsWay'
  BY <1>3 DEF PutBack, Replace, BackRest, bounds, Fails
<1>4. ASSUME NEW f \in File, BringBack(f) PROVE OnItsWay'
  BY <1>4 DEF BringBack, op, bounds, Fails
<1>5. CASE Import \/ Add \/ Restore \/ Remove
  BY <1>5 DEF Import, Add, Restore, Remove, files, op, tries, bounds
<1>6. CASE Evict
  BY <1>6 DEF Evict, disk, files, Fails, bounds
<1>7. CASE TakeFails \/ Taken \/ Stamp \/ RolledBack
  BY <1>7 DEF TakeFails, Taken, Stamp, RolledBack, files, disk, tries, TakeRest, Fails, bounds
<1>8. CASE Failed \/ Settle
  BY <1>8 DEF Failed, Settle, files
<1>9. CASE BroughtBack \/ Purge
  BY <1>9 DEF BroughtBack, Purge, op, tries
<1>10. CASE Rescue
  BY <1>10 DEF Rescue, Rescued, AfterMarks, tries, File
<1>11. CASE WriteRecord
  BY <1>11 DEF WriteRecord, tries, File
<1>12. CASE MarksDropped \/ RecordDropped
  BY <1>12 DEF MarksDropped, RecordDropped, Drop, tries, AfterMarks
<1>13. CASE Shown \/ List \/ DayPasses \/ Crash \/ Launch \/ Load
  BY <1>13 DEF Shown, List, DayPasses, Crash, Launch, Load, disk, files, run, op, tries, bounds
<1>14. CASE UNCHANGED vars
  BY <1>14 DEF vars, disk, files, run, op, tries, bounds
<1> QED
  BY <1>1, <1>2, <1>3, <1>4, <1>5, <1>6, <1>7, <1>8, <1>9, <1>10, <1>11, <1>12, <1>13, <1>14 DEF Next

\* A removal that finds no entry goes on to its stamp, and so does one that has
\* taken everything; whoever dies in between leaves it unstamped.
LEMMA StampedStep == FaultsTypes /\ DayTypes /\ Stamped /\ [Next]_vars => Stamped'
<1> SUFFICES ASSUME FaultsTypes, DayTypes, Stamped, [Next]_vars PROVE Stamped'
  OBVIOUS
<1> USE Constants DEF Stamped
<1>1. listed' \notin {Due, None} => listed' <= day'
  <2>1. listed' \in {listed, None, Due, day} /\ (listed' = listed \/ ~DayPasses)
    BY DEF Next, vars, disk, run, shelf, TakeRest, BackRest, Write, Displace,
           Take, PutBack, Replace, BringBack, Import, Add, Restore, Remove,
           Evict, TakeFails, Taken, Stamp, RolledBack, Failed, BroughtBack, Settle, Rescue, MarksDropped,
           WriteRecord, RecordDropped, Drop, Shown, List, Purge, Launch, Load, DayPasses, Crash
  <2>2. day' = day \/ DayPasses
    BY DEF Next, vars, bounds, Write, Displace,
           Take, PutBack, Replace, BringBack, Import, Add, Restore, Remove,
           Evict, TakeFails, Taken, Stamp, RolledBack, Failed, BroughtBack, Settle, Rescue, MarksDropped,
           WriteRecord, RecordDropped, Drop, Shown, List, Purge, Launch, Load, Crash, Fails
  <2>3. day \in 0 .. MaxDay /\ listed \in {None, Due} \cup 0 .. MaxDay
    BY DEF FaultsTypes, DayTypes
  <2> QED
    BY <2>1, <2>2, <2>3 DEF DayPasses
<1>2. trashDir' /\ ~unstamped' /\ pc' # "stamp" => stamp' = touched'
  <2>1. CASE UNCHANGED <<trashDir, unstamped, stamp, touched>> /\ (pc' = pc \/ pc # "stamp")
    BY <2>1
  <2>2. CASE Evict
    BY <2>2 DEF Evict, disk, folders, ghosts, stay, Goes
  <2>3. CASE Taken
    BY <2>3 DEF Taken, Goes
  <2>4. CASE Stamp
    BY <2>4 DEF Stamp
  <2>5. CASE BroughtBack
    BY <2>5 DEF BroughtBack, stay
  <2>6. CASE Purge
    BY <2>6 DEF Purge, stay
  <2>7. CASE Crash
    BY <2>7 DEF Crash, disk, folders
  <2>8. \/ UNCHANGED <<trashDir, unstamped, stamp, touched>> /\ (pc' = pc \/ pc # "stamp")
        \/ Evict \/ Taken \/ Stamp \/ BroughtBack \/ Purge \/ Crash
    BY DEF Next, vars, disk, folders, run, op, shelf, bounds, ghosts, stay, TakeRest, BackRest, Write, Displace,
           Take, PutBack, Replace, BringBack, Import, Add, Restore, Remove,
           TakeFails, RolledBack, Failed, Settle, Rescue, MarksDropped,
           WriteRecord, RecordDropped, Drop, Shown, List, Launch, Load, DayPasses
  <2> QED
    BY <2>1, <2>2, <2>3, <2>4, <2>5, <2>6, <2>7, <2>8
<1> QED
  BY <1>1, <1>2

-----------------------------------------------------------------------------
(* The newest copy *)

\* What a file has after a step is what it had: the copies may move as long as the
\* newest stays ahead.
LEMMA NewestStep ==
    DataTypes /\ InFolders /\ OnItsWay /\ Past /\ NewestIsAhead /\ [Next]_vars => NewestIsAhead'
<1> SUFFICES ASSUME DataTypes, InFolders, OnItsWay, Past, NewestIsAhead, [Next]_vars PROVE NewestIsAhead'
  OBVIOUS
<1> USE Constants, ContentTypes, NothingTypes DEF DataTypes, NewestIsAhead, HasNewest, In, Held
<1>1. ASSUME NEW f \in File, Write(f) PROVE NewestIsAhead'
  <2>1. now' = now + 1 /\ now \in Nat /\ UNCHANGED trash
    BY <1>1 DEF Write, Tick
  <2>2. \A g \in File \ {f} : live'[g] = live[g] /\ wrote'[g] = wrote[g]
    BY <1>1 DEF Write
  <2>3. now' \in wrote'[f] \cap In(live'[f]) /\ wrote'[f] = wrote[f] \cup {now'}
    <3>1. now' \in 0 .. MaxStamp
      BY <1>1, <2>1 DEF Write, Tick
    <3>2. In(live[f]) \cup {now'} \in SUBSET (0 .. MaxStamp)
      BY <3>1
    <3>3. live'[f] = In(live[f]) \cup {now'} /\ wrote'[f] = wrote[f] \cup {now'}
      BY <1>1 DEF Write
    <3> QED
      BY <3>2, <3>3
  <2>4. \A m \in wrote'[f] : m <= now'
    BY <2>1, <2>3 DEF Past
  <2> QED
    BY <2>1, <2>2, <2>3, <2>4
<1>2. ASSUME NEW f \in File, Displace(f) PROVE NewestIsAhead'
  BY <1>2 DEF Displace, TakeRest, ghosts, OnItsWay
<1>3. ASSUME NEW f \in File, Take(f) PROVE NewestIsAhead'
  BY <1>3 DEF Take, TakeRest, ghosts, OnItsWay
<1>4. ASSUME NEW f \in File, PutBack(f) PROVE NewestIsAhead'
  BY <1>4 DEF PutBack, BackRest, ghosts, OnItsWay
<1>5. ASSUME NEW f \in File, Replace(f) PROVE NewestIsAhead'
  BY <1>5 DEF Replace, BackRest, ghosts, Unoccupied
<1>6. ASSUME NEW f \in File, BringBack(f) PROVE NewestIsAhead'
  BY <1>6 DEF BringBack, ghosts
<1>7. CASE Evict
  BY <1>7 DEF Evict, disk, files, ghosts, InFolders, Nothing
<1>8. CASE Rescue
  BY <1>8 DEF Rescue, Rescued, ghosts, File
<1>9. CASE WriteRecord
  BY <1>9 DEF WriteRecord, ghosts, File
<1>10. CASE MarksDropped \/ RecordDropped
  BY <1>10 DEF MarksDropped, RecordDropped, Drop, ghosts, OnItsWay
<1>11. CASE Purge
  BY <1>11 DEF Purge, Nothing
<1>12. CASE UNCHANGED <<live, trash, wrote>>
  BY <1>12
<1>13. \/ \E f \in File : Write(f) \/ Displace(f) \/ Take(f) \/ PutBack(f) \/ Replace(f) \/ BringBack(f)
       \/ Evict \/ Rescue \/ WriteRecord \/ MarksDropped \/ RecordDropped \/ Purge
       \/ UNCHANGED <<live, trash, wrote>>
  BY DEF Next, vars, disk, files, run, ghosts, TakeRest, BackRest, Import, Add, Restore, Remove,
         TakeFails, Taken, Stamp, RolledBack, Failed, BroughtBack, Settle,
         Shown, List, Launch, Load, DayPasses, Crash
<1> QED
  BY <1>1, <1>2, <1>3, <1>4, <1>5, <1>6, <1>7, <1>8, <1>9, <1>10, <1>11, <1>12, <1>13

-----------------------------------------------------------------------------
(* All the copies, as long as nobody dies *)

\* What is calm after a step was calm before, and the step was not the end of the
\* process or a fault that leaves something behind.
LEMMA CalmBefore ==
    ASSUME FaultsTypes, [Next]_vars, Calm'
    PROVE  Calm /\ ~Crash /\ \A call \in {"back", "bring", "rescue"} : ~Fails(call)
<1> USE Constants
<1>1. \/ UNCHANGED bounds
      \/ \E call : Fails(call)
      \/ DayPasses
      \/ Crash
  BY DEF Next, vars, Write, Displace, Take, PutBack, Replace, BringBack, Import, Add, Restore, Remove,
         Evict, TakeFails, Taken, Stamp, RolledBack, Failed, BroughtBack, Settle, Rescue, MarksDropped,
         WriteRecord, RecordDropped, Drop, Shown, List, Purge, Launch, Load
<1>2. ~Crash
  BY DEF Crash, Calm, FaultsTypes
<1> QED
  BY <1>1, <1>2 DEF bounds, Fails, DayPasses, Calm

LEMMA WholeStep ==
    FaultsTypes /\ DataTypes /\ InFolders /\ OnItsWay /\ Whole /\ [Next]_vars => Whole'
<1> SUFFICES ASSUME FaultsTypes, DataTypes, InFolders, OnItsWay, Whole, [Next]_vars, Calm' PROVE Intact'
  BY DEF Whole
<1>0. Intact /\ ~Crash /\ \A call \in {"back", "bring", "rescue"} : ~Fails(call)
  BY CalmBefore DEF Whole
<1> USE <1>0, Constants, ContentTypes, NothingTypes
        DEF DataTypes, Intact, Removing, Restoring, Copies, In, Held, Goes
<1>1. ASSUME NEW f \in File, Write(f) PROVE Intact'
  <2>1. now' \in 0 .. MaxStamp
    BY <1>1 DEF Write, Tick
  <2>2. In(live[f]) \cup {now'} \in SUBSET (0 .. MaxStamp)
    BY <2>1
  <2>3. live'[f] # None /\ In(live'[f]) = In(live[f]) \cup {now'} /\ \A g \in File \ {f} : live'[g] = live[g]
    BY <1>1, <2>2 DEF Write
  <2>4. wrote'[f] = wrote[f] \cup {now'} /\ \A g \in File \ {f} : wrote'[g] = wrote[g]
    BY <1>1 DEF Write
  <2>5. \A g \in File : wrote'[g] \subseteq Copies(g)'
    BY <1>1, <2>3, <2>4 DEF Write
  <2>6. live'["record"] # None <=> live["record"] # None
    BY <1>1, <2>3 DEF Write, File
  <2>7. UNCHANGED <<trash, aside, row, pc, why, displaced>> /\ pc = "idle"
    BY <1>1 DEF Write, run, op, shelf, tries
  <2> QED
    BY <2>5, <2>6, <2>7
<1>2. ASSUME NEW f \in File, Displace(f) PROVE Intact'
  BY <1>2 DEF Displace, OnItsWay
<1>3. ASSUME NEW f \in File, Take(f) PROVE Intact'
  BY <1>3 DEF Take, TakeRest, shelf, ghosts, OnItsWay
<1>4. ASSUME NEW f \in File, PutBack(f) PROVE Intact'
  BY <1>4 DEF PutBack, BackRest, shelf, ghosts, OnItsWay
<1>5. ASSUME NEW f \in File, Replace(f) PROVE Intact'
  BY <1>5 DEF Replace
<1>6. ASSUME NEW f \in File, BringBack(f) PROVE Intact'
  BY <1>6 DEF BringBack, op, shelf, ghosts
<1>7. CASE Import
  BY <1>7 DEF Import, files, op, tries, ghosts
<1>8. CASE Add
  BY <1>8 DEF Add, files
<1>9. CASE Restore
  BY <1>9 DEF Restore, files, shelf
<1>10. CASE Remove
  BY <1>10 DEF Remove, files, tries
<1>11. CASE Evict
  <2>1. liveDir /\ ~row /\ pc = "evict" /\ UNCHANGED <<row, why, displaced, moved, wrote, aside>>
    BY <1>11 DEF Evict, disk, files, shelf, ghosts, InFolders, File
  <2>2. CASE trashDir
    <3>1. pc' = "take" /\ UNCHANGED <<live, trash>>
      BY <1>11, <2>1, <2>2 DEF Evict, disk, files
    <3>2. moved = {}
      BY <2>1 DEF OnItsWay
    <3>3. Held(trash') = moved' /\ "record" \in Held(live')
      BY <2>1, <3>1, <3>2, NothingTypes DEF File
    <3>4. Intact' <=> /\ aside' = Nothing /\ displaced' = {} /\ why' # "recover" /\ ~row'
                      /\ \A f \in File : wrote'[f] \subseteq Copies(f)'
      BY <3>1, <3>3, Zenon
    <3> QED
      BY <2>1, <3>1, <3>4
  <2>3. CASE ~trashDir /\ pc' = "stamp"
    <3>1. trash' = live /\ live' = Nothing
      BY <1>11, <2>1, <2>3 DEF Evict
    <3> QED
      BY <2>1, <2>3, <3>1
  <2>4. CASE ~trashDir /\ pc' # "stamp"
    <3>1. pc' = "failed" /\ UNCHANGED <<live, trash>>
      BY <1>11, <2>1, <2>4 DEF Evict, disk, files
    <3> QED
      BY <2>1, <3>1
  <2> QED
    BY <2>2, <2>3, <2>4
<1>12. CASE TakeFails
  BY <1>12 DEF TakeFails, files, tries, shelf, ghosts, TakeRest
<1>13. CASE Taken
  BY <1>13 DEF Taken, shelf, ghosts, OnItsWay
<1>14. CASE Stamp
  <2>1. ~row /\ live["record"] = None
    BY <1>14 DEF Stamp, Nothing, File
  <2>2. pc' = "idle" /\ UNCHANGED <<live, trash, aside, row, why, displaced, wrote>>
    BY <1>14 DEF Stamp, files, shelf, tries
  <2> QED
    BY <2>1, <2>2
<1>15. CASE RolledBack
  BY <1>15 DEF RolledBack, disk, files, shelf, tries, ghosts
<1>16. CASE Failed
  BY <1>16 DEF Failed, files
<1>17. CASE BroughtBack
  <2>1. UNCHANGED <<live, trash, row, why, displaced, todo, wrote>> /\ aside' = Nothing /\ todo = {}
    BY <1>17 DEF BroughtBack, shelf, tries
  <2>2. trash["record"] = None
    BY <1>17, <2>1 DEF BroughtBack, File
  <2>3. pc' \in {"settle", "rescue"}
    BY <1>17 DEF BroughtBack
  <2> QED
    BY <2>1, <2>2, <2>3
<1>18. CASE Settle
  BY <1>18 DEF Settle, files, shelf, ghosts
<1>19. CASE Rescue
  BY <1>19 DEF Rescue, Rescued, AfterMarks, shelf, tries, ghosts, File
<1>20. CASE MarksDropped
  BY <1>20 DEF MarksDropped, Drop, AfterMarks, tries, ghosts, OnItsWay, File
<1>21. CASE WriteRecord
  BY <1>21 DEF WriteRecord, shelf, tries, ghosts, File
<1>22. CASE RecordDropped
  BY <1>22 DEF RecordDropped, Drop, tries, ghosts
<1>23. CASE Shown
  BY <1>23 DEF Shown, disk, files, tries, ghosts
<1>24. CASE List \/ DayPasses
  BY <1>24 DEF List, DayPasses, disk, files, run, op, shelf, tries, ghosts
<1>25. CASE Purge
  BY <1>25 DEF Purge, op, tries
<1>26. CASE Launch \/ Load
  BY <1>26 DEF Launch, Load
<1>27. CASE UNCHANGED vars
  BY <1>27 DEF vars, disk, files, run, op, shelf, tries, ghosts
<1> QED
  BY <1>1, <1>2, <1>3, <1>4, <1>5, <1>6, <1>7, <1>8, <1>9, <1>10, <1>11, <1>12, <1>13, <1>14, <1>15,
     <1>16, <1>17, <1>18, <1>19, <1>20, <1>21, <1>22, <1>23, <1>24, <1>25, <1>26, <1>27 DEF Next

-----------------------------------------------------------------------------
(* The decision *)

\* A set of stamps has a newest.
LEMMA NewestOf ==
    ASSUME NEW S \in SUBSET (0 .. MaxStamp), S # {}
    PROVE  \E s \in S : \A t \in S : t <= s
<1> DEFINE Above == {n \in Nat : \A t \in S : t <= n}
<1>1. MaxStamp \in Above /\ S \subseteq Nat
  BY Constants
<1>2. PICK n \in Above : \A m \in Above : ~(m < n)
  <2>1. \E n \in Above : \A m \in Above : <<m, n>> \notin OpToRel(<, Nat)
    BY <1>1, NatLessThanWellFounded, WFMin
  <2>2. \A m, n \in Nat : <<m, n>> \in OpToRel(<, Nat) <=> m < n
    BY DEF OpToRel
  <2>3. Above \subseteq Nat
    OBVIOUS
  <2> QED
    BY <2>1, <2>2, <2>3
<1>3. n \in S
  <2> SUFFICES ASSUME n \notin S PROVE FALSE
    OBVIOUS
  <2>1. PICK t \in S : t \in Nat
    BY <1>1
  <2>2. n - 1 \in Above
    BY <1>1, <2>1
  <2> QED
    BY <1>2, <2>2
<1> QED
  BY <1>3

LEMMA RecordStampIsNewest ==
    ASSUME NEW c \in Content, live["record"] = c
    PROVE  /\ \A t \in In(c) : t <= RecordStamp
           /\ RecordStamp \in In(c) \/ RecordStamp = 0
<1>1. CASE In(c) = {}
  BY <1>1 DEF RecordStamp
<1>2. CASE In(c) # {}
  <2>1. c # None /\ In(c) = c /\ c \in SUBSET (0 .. MaxStamp)
    BY <1>2 DEF In, Content
  <2>2. RecordStamp = CHOOSE s \in c : \A t \in c : t <= s
    BY <1>2, <2>1 DEF RecordStamp
  <2>3. \E s \in c : \A t \in c : t <= s
    BY <1>2, <2>1, NewestOf
  <2> QED
    BY <2>1, <2>2, <2>3
<1> QED
  BY <1>1, <1>2

\* A launch that finishes a removal finds no newer record.
LEMMA PendingIsOlder ==
    ASSUME DataTypes, NewestIsAhead, WrittenIsLive, Pending
    PROVE  ~WroteSince
<1> SUFFICES ASSUME WroteSince PROVE FALSE
  OBVIOUS
<1> USE Constants DEF DataTypes
<1>1. PICK s \in wrote["record"] : s > reg.at
  BY DEF WroteSince
<1>2. live["record"] # None
  BY DEF WrittenIsLive, Pending
<1>3. PICK n \in wrote["record"] \cap In(live["record"]) : \A m \in wrote["record"] : m <= n
  BY <1>1, <1>2 DEF NewestIsAhead, HasNewest, File
<1>4. live["record"] \in Content
  BY DEF File
<1>5. n <= RecordStamp /\ (RecordStamp \in In(live["record"]) \/ RecordStamp = 0)
  BY <1>3, <1>4, RecordStampIsNewest
<1>6. RecordStamp \in Nat /\ n \in Nat /\ s \in Nat /\ reg.at \in Nat /\ s <= n
  BY <1>1, <1>3, <1>4, <1>5, ContentTypes DEF File
<1>7. RecordStamp <= reg.at
  BY DEF Pending
<1> QED
  BY <1>1, <1>5, <1>6, <1>7

LEMMA NoneSinceStep ==
    DataTypes /\ Past /\ OnItsWay /\ NewestIsAhead /\ WrittenIsLive /\ NoneSince /\ [Next]_vars => NoneSince'
<1> SUFFICES ASSUME DataTypes, Past, OnItsWay, NewestIsAhead, WrittenIsLive, NoneSince, [Next]_vars
             PROVE  NoneSince'
  OBVIOUS
<1>1. CASE Launch
  <2>1. pc' = "evict" => ~WroteSince
    BY <1>1, PendingIsOlder DEF Launch, Goes
  <2> QED
    BY <1>1, <2>1 DEF Launch, disk, ghosts, WroteSince, NoneSince, Goes
<1>2. CASE Remove
  <2>1. reg'.at = now' /\ now' = now + 1
    BY <1>2 DEF Remove, Tick, Notes, Past, DataTypes
  <2> QED
    BY <1>2, <2>1, Constants DEF Remove, Past, WroteSince, DataTypes, File, NoneSince
<1>3. CASE /\ UNCHANGED <<wrote, reg>>
           /\ \/ pc' \notin {"evict", "take", "back", "stamp", "failed"}
              \/ pc \in {"evict", "take", "back", "stamp", "failed"}
  BY <1>3 DEF NoneSince, WroteSince
<1>4. CASE pc' \notin {"evict", "take", "back", "stamp", "failed"}
  BY <1>4 DEF NoneSince
<1>5. \/ Launch \/ Remove
      \/ pc' \notin {"evict", "take", "back", "stamp", "failed"}
      \/ /\ UNCHANGED <<wrote, reg>>
         /\ \/ pc' \notin {"evict", "take", "back", "stamp", "failed"}
            \/ pc \in {"evict", "take", "back", "stamp", "failed"}
  BY DEF Next, vars, disk, run, op, ghosts, TakeRest, BackRest, Write, Displace,
         Take, PutBack, Replace, BringBack, Import, Add, Restore, 
         Evict, TakeFails, Taken, Stamp, RolledBack, Failed, BroughtBack, Settle, Rescue, MarksDropped,
         WriteRecord, RecordDropped, Drop, AfterMarks, Shown, List, Purge, DayPasses, Crash, Load, Goes
<1> QED
  BY <1>1, <1>2, <1>3, <1>4, <1>5

LEMMA WrittenIsLiveStep ==
    DataTypes /\ Past /\ OnItsWay /\ WrittenIsLive /\ NoneSince /\ [Next]_vars => WrittenIsLive'
<1> SUFFICES ASSUME DataTypes, Past, OnItsWay, WrittenIsLive, NoneSince, [Next]_vars
             PROVE  WrittenIsLive'
  OBVIOUS
<1> USE Constants, ContentTypes DEF DataTypes, WrittenIsLive, WroteSince, In, Goes, File
<1>1. ASSUME NEW f \in File, Write(f) PROVE WrittenIsLive'
  <2>1. now' \in 0 .. MaxStamp
    BY <1>1 DEF Write, Tick
  <2>2. In(live[f]) \cup {now'} \in SUBSET (0 .. MaxStamp)
    BY <2>1
  <2>3. live'[f] # None
    BY <1>1, <2>2 DEF Write
  <2>4. f # "record" => wrote'["record"] = wrote["record"] /\ live'["record"] = live["record"]
    BY <1>1 DEF Write
  <2>5. UNCHANGED reg
    BY <1>1 DEF Write
  <2> QED
    BY <2>3, <2>4, <2>5
<1>2. CASE UNCHANGED <<wrote, reg>> /\ pc \in {"evict", "take", "back", "stamp", "failed"}
  BY <1>2 DEF NoneSince
<1>3. CASE Remove
  <2>1. reg'.at = now' /\ now' = now + 1
    BY <1>3 DEF Remove, Tick, Notes, Past
  <2> QED
    BY <1>3, <2>1 DEF Remove, Past
<1>4. CASE reg'.state = "live"
  BY <1>4
<1>5. CASE UNCHANGED <<wrote, reg>> /\ (live["record"] # None => live'["record"] # None)
  BY <1>5
<1>6. CASE UNCHANGED <<live, reg>> /\ wrote'["record"] \subseteq wrote["record"]
  BY <1>6
<1>7. CASE Failed \/ Settle
  <2>1. UNCHANGED <<reg, wrote, live>> \/ reg'.state = "live"
    BY <1>7 DEF Failed, Settle, Notes, Tick, Past, files, ghosts
  <2> QED
    BY <2>1, <1>4, <1>5
<1>8. ASSUME NEW f \in File, BringBack(f) PROVE WrittenIsLive'
  <2>1. UNCHANGED <<wrote, reg>> /\ (live["record"] # None => live'["record"] # None)
    BY <1>8 DEF BringBack, ghosts
  <2> QED
    BY <2>1, <1>5
<1>9. CASE Rescue \/ WriteRecord
  <2>1. UNCHANGED <<wrote, reg>> /\ (live["record"] # None => live'["record"] # None)
    BY <1>9 DEF Rescue, Rescued, WriteRecord, ghosts
  <2> QED
    BY <2>1, <1>5
<1>10. CASE Purge
  BY <1>10, <1>6 DEF Purge
<1>11. \/ UNCHANGED <<wrote, reg>> /\ pc \in {"evict", "take", "back", "stamp", "failed"}
       \/ UNCHANGED <<wrote, reg, live>>
       \/ Remove \/ Failed \/ Settle \/ Rescue \/ WriteRecord \/ Purge
       \/ \E f \in File : Write(f) \/ BringBack(f)
  BY DEF Next, vars, disk, files, ghosts, TakeRest, BackRest, Displace,
         Take, PutBack, Replace, Import, Add, Restore,
         Evict, TakeFails, Taken, Stamp, RolledBack, BroughtBack, MarksDropped,
         RecordDropped, Drop, Shown, List, DayPasses, Crash, Launch, Load
<1> QED
  BY <1>1, <1>2, <1>3, <1>5, <1>7, <1>8, <1>9, <1>10, <1>11

\* What has failed has failed.
LEMMA NothingFailed ==
    ASSUME [Next]_vars, faults' = {}
    PROVE  faults = {} /\ \A call : ~Fails(call)
<1>1. \/ UNCHANGED faults
      \/ \E call : Fails(call)
  BY DEF Next, vars, bounds, Write, Displace, Take, PutBack, Replace, BringBack, Import, Add, Restore, Remove,
         Evict, TakeFails, Taken, Stamp, RolledBack, Failed, BroughtBack, Settle, Rescue, MarksDropped,
         WriteRecord, RecordDropped, Drop, Shown, List, Purge, DayPasses, Crash, Launch, Load
<1>2. \A call : ~Fails(call)
  BY DEF Fails
<1> QED
  BY <1>1, <1>2

LEMMA StaysAwayStep ==
    DataTypes /\ InFolders /\ OnItsWay /\ StaysAway /\ Recovered /\ [Next]_vars => StaysAway'
<1> SUFFICES ASSUME DataTypes, InFolders, OnItsWay, StaysAway, Recovered, [Next]_vars PROVE StaysAway'
  OBVIOUS
<1> USE DEF StaysAway
<1>0. faults' = {} => faults = {}
  BY NothingFailed
<1>1. CASE UNCHANGED <<away, row>> /\ (pc' \notin Returning \/ pc \in Returning)
  BY <1>0, <1>1
<1>2. CASE away' = FALSE
  BY <1>2
<1>3. CASE row' = FALSE /\ pc' \notin Returning
  BY <1>3
<1>4. CASE Load
  <2>1. pc' \notin Returning /\ UNCHANGED <<away, faults>> /\ row' = (live["record"] # None)
    BY <1>4 DEF Load, Goes, Returning, ghosts, bounds
  <2>2. away /\ faults = {} => live["record"] = None
    BY <1>4 DEF Load, Recovered, OnItsWay, InFolders, Held, File
  <2> QED
    BY <2>1, <2>2
<1>5. CASE Shown
  <2>1. ~away /\ UNCHANGED away
    BY <1>5 DEF Shown, Returning, ghosts
  <2> QED
    BY <2>1
<1>6. \/ UNCHANGED <<away, row>> /\ (pc' \notin Returning \/ pc \in Returning)
      \/ away' = FALSE
      \/ row' = FALSE /\ pc' \notin Returning
      \/ Load \/ Shown
  BY DEF Next, vars, disk, run, op, shelf, ghosts, TakeRest, BackRest, Write, Displace,
         Take, PutBack, Replace, BringBack, Import, Add, Restore, Remove,
         Evict, TakeFails, Taken, Stamp, RolledBack, Failed, BroughtBack, Settle, Rescue, MarksDropped,
         WriteRecord, RecordDropped, Drop, AfterMarks, List, Purge, DayPasses, Crash, Launch, Goes, Returning
<1> QED
  BY <1>1, <1>2, <1>3, <1>4, <1>5, <1>6

\* As long as nothing fails, only a restore or an add puts a copy where there was none.
LEMMA RecordedStep ==
    DataTypes /\ Past /\ OnItsWay /\ Recorded /\ StaysAway /\ [Next]_vars => Recorded'
<1> SUFFICES ASSUME DataTypes, Past, OnItsWay, Recorded, StaysAway, [Next]_vars, away', faults' = {}
             PROVE  /\ reg'.state = "removed"
                    /\ \A s \in Copies("record")' \cup wrote'["record"] : s <= reg'.at
  BY DEF Recorded
<1> USE Constants, ContentTypes DEF DataTypes, Copies, In, File
<1>0. faults = {} /\ \A call : ~Fails(call)
  BY NothingFailed
<1>1. CASE Remove
  <2>1. reg' = [state |-> "removed", at |-> now'] /\ now' = now + 1
    BY <1>1 DEF Remove, Tick, Notes, Past
  <2>2. UNCHANGED <<live, trash, aside, wrote>>
    BY <1>1 DEF Remove, files
  <2> QED
    BY <2>1, <2>2 DEF Past
<1>2. CASE away /\ UNCHANGED reg /\ wrote'["record"] \subseteq wrote["record"]
           /\ Copies("record")' \subseteq Copies("record")
  BY <1>0, <1>2 DEF Recorded
<1>3. ASSUME NEW f \in File, Write(f) PROVE f = "marks" /\ away
  <2>1. UNCHANGED away
    BY <1>3 DEF Write
  <2> QED
    BY <1>0, <1>3, <2>1 DEF Write, StaysAway
<1>4. ASSUME NEW f \in File, Write(f)
      PROVE  /\ UNCHANGED reg /\ wrote'["record"] \subseteq wrote["record"]
             /\ Copies("record")' \subseteq Copies("record")
  BY <1>3, <1>4 DEF Write
<1>5. ASSUME NEW f \in File, Displace(f) \/ Take(f) \/ PutBack(f) \/ Replace(f)
      PROVE  /\ away /\ UNCHANGED reg /\ UNCHANGED wrote
             /\ Copies("record")' \subseteq Copies("record")
  <2>1. away /\ UNCHANGED <<reg, wrote>>
    BY <1>5 DEF Displace, Take, PutBack, Replace, TakeRest, BackRest, ghosts
  <2>2. {live'["record"], trash'["record"], aside'["record"]}
           \subseteq {None, live["record"], trash["record"], aside["record"]}
    <3>1. CASE Displace(f)
      BY <3>1 DEF Displace
    <3>2. CASE Take(f)
      BY <3>2 DEF Take
    <3>3. CASE PutBack(f)
      BY <3>3 DEF PutBack
    <3>4. CASE Replace(f)
      BY <3>4 DEF Replace
    <3> QED
      BY <1>5, <3>1, <3>2, <3>3, <3>4
  <2> QED
    BY <2>1, <2>2
<1>6. CASE Evict \/ Taken \/ Purge
  <2>1. UNCHANGED <<away, reg>> /\ wrote'["record"] \subseteq wrote["record"]
    <3>1. CASE Evict \/ Taken
      BY <3>1 DEF Evict, Taken, disk, ghosts
    <3>2. CASE Purge
      <4>1. CASE trashDir /\ Expired
        <5>1. wrote'["record"] = wrote["record"] \cap In(live["record"])
          BY <3>2, <4>1 DEF Purge
        <5> QED
          BY <3>2, <5>1 DEF Purge
      <4>2. CASE ~(trashDir /\ Expired)
        BY <3>2, <4>2 DEF Purge
      <4> QED
        BY <4>1, <4>2
    <3> QED
      BY <1>6, <3>1, <3>2
  <2>2. Copies("record")' \subseteq Copies("record")
    <3>1. CASE Evict
      BY <3>1 DEF Evict, disk, files, Nothing
    <3>2. ASSUME NEW c, c["record"] = None PROVE In(c["record"]) = {}
      BY <3>2 DEF In
    <3>3. CASE Taken
      <4>1. aside' = Nothing /\ UNCHANGED <<live, trash>>
        BY <3>3 DEF Taken
      <4> QED
        BY <4>1, <3>2 DEF Nothing
    <3>4. CASE Purge
      <4>1. live' = live /\ (trash' = Nothing \/ trash' = trash) /\ (aside' = Nothing \/ aside' = aside)
        BY <3>4 DEF Purge
      <4> QED
        BY <4>1, <3>2 DEF Nothing
    <3> QED
      BY <1>6, <3>1, <3>3, <3>4
  <2> QED
    BY <1>2, <2>1, <2>2
<1>7. CASE UNCHANGED <<live, trash, aside, reg, wrote, away>>
  BY <1>2, <1>7
<1>8. CASE Failed
  BY <1>0, <1>8 DEF Failed, OnItsWay
<1>9. CASE pc \in Returning /\ UNCHANGED away
  BY <1>9 DEF StaysAway
<1>10. \/ \E f \in File : Write(f) \/ Displace(f) \/ Take(f) \/ PutBack(f) \/ Replace(f)
       \/ Remove \/ Evict \/ Taken \/ Purge \/ Failed
       \/ UNCHANGED <<live, trash, aside, reg, wrote, away>>
       \/ pc \in Returning /\ UNCHANGED away
  <2> DEFINE Still == UNCHANGED <<live, trash, aside, reg, wrote, away>>
             Back  == pc \in Returning /\ UNCHANGED away
  <2>1. ASSUME NEW f \in File, BringBack(f) PROVE Back
    BY <2>1 DEF BringBack, ghosts, Returning
  <2>2. ASSUME Import \/ Add \/ Restore PROVE Still \/ Back
    BY <2>2 DEF Import, Add, Restore, disk, files, ghosts
  <2>3. ASSUME TakeFails \/ Stamp \/ RolledBack \/ BroughtBack PROVE Still \/ Back
    <3>1. CASE TakeFails
      BY <3>1 DEF TakeFails, TakeRest, disk, files, ghosts
    <3>2. CASE Stamp \/ RolledBack
      BY <3>2 DEF Stamp, RolledBack, disk, files, ghosts
    <3>3. CASE BroughtBack
      BY <3>3 DEF BroughtBack, Returning
    <3> QED
      BY <2>3, <3>1, <3>2, <3>3
  <2>4. ASSUME Settle \/ Rescue \/ MarksDropped \/ WriteRecord \/ RecordDropped PROVE Back
    BY <2>4 DEF Settle, Rescue, MarksDropped, WriteRecord, RecordDropped, Drop, ghosts, Returning
  <2>5. ASSUME Shown \/ List \/ DayPasses \/ Crash \/ Launch \/ Load PROVE Still \/ Back
    BY <2>5 DEF Shown, List, DayPasses, Crash, Launch, Load, disk, files, ghosts
  <2>6. ASSUME UNCHANGED vars PROVE Still
    BY <2>6 DEF vars, disk, files, ghosts
  <2> HIDE DEF Still, Back
  <2>7. ASSUME NEW f \in File, Write(f) \/ Displace(f) \/ Take(f) \/ PutBack(f) \/ Replace(f) \/ BringBack(f)
        PROVE  \/ Write(f) \/ Displace(f) \/ Take(f) \/ PutBack(f) \/ Replace(f)
               \/ Back
    BY <2>1, <2>7
  <2>8. \/ \E f \in File : Write(f) \/ Displace(f) \/ Take(f) \/ PutBack(f) \/ Replace(f)
        \/ Remove \/ Evict \/ Taken \/ Purge \/ Failed \/ Still \/ Back
    <3>1. CASE UNCHANGED vars
      BY <2>6, <3>1
    <3>2. CASE \E f \in File : \/ Write(f) \/ Displace(f) \/ Take(f) \/ PutBack(f)
                               \/ Replace(f) \/ BringBack(f)
      BY <2>7, <3>2
    <3> QED
      BY <2>2, <2>3, <2>4, <2>5, <3>1, <3>2 DEF Next
  <2> QED
    BY <2>8 DEF Still, Back
<1>11. CASE \E f \in File : Write(f)
  BY <1>2, <1>3, <1>4, <1>11
<1>12. CASE \E f \in File : Displace(f) \/ Take(f) \/ PutBack(f) \/ Replace(f)
  BY <1>2, <1>5, <1>12
<1> QED
  BY <1>1, <1>6, <1>7, <1>8, <1>9, <1>10, <1>11, <1>12

LEMMA RecoveredStep ==
    DataTypes /\ OnItsWay /\ Recorded /\ Recovered /\ [Next]_vars => Recovered'
<1> SUFFICES ASSUME DataTypes, OnItsWay, Recorded, Recovered, [Next]_vars,
                    pc' \in {"load", "stamp"}, why' = "recover", away', faults' = {}
             PROVE  ~liveDir'
  BY DEF Recovered
<1> USE DEF Goes
<1>0. faults = {} /\ \A call : ~Fails(call)
  BY NothingFailed
<1>1. CASE Launch
  <2>1. away /\ ~Pending /\ UNCHANGED liveDir
    BY <1>1 DEF Launch, ghosts, disk, folders
  <2>2. RecordStamp <= reg.at
    <3>1. live["record"] \in Content
      BY DEF DataTypes, File
    <3>2. RecordStamp \in In(live["record"]) \/ RecordStamp = 0
      BY <3>1, RecordStampIsNewest
    <3>3. \A s \in In(live["record"]) : s <= reg.at
      BY <1>0, <2>1 DEF Recorded, Copies
    <3> QED
      BY <3>2, <3>3, Constants DEF DataTypes
  <2> QED
    BY <1>0, <2>1, <2>2 DEF Pending, Recorded
<1>2. CASE Evict
  BY <1>0, <1>2 DEF Evict, disk, folders
<1>3. CASE Taken
  BY <1>3 DEF Taken
<1>4. CASE Stamp
  BY <1>0, <1>4 DEF Stamp, Recovered
<1>5. CASE Failed
  BY <1>0, <1>5 DEF Failed, OnItsWay
<1>6. CASE UNCHANGED <<pc, why, away, liveDir>>
  BY <1>0, <1>6 DEF Recovered
<1>7. CASE Import
  BY <1>7 DEF Import, op
<1>8. CASE why' = "recover" /\ pc' \in {"load", "stamp"}
  <2>1. \/ Launch \/ Evict \/ Taken \/ Stamp \/ Failed \/ Import
        \/ UNCHANGED <<pc, why, away, liveDir>>
        \/ pc' \notin {"load", "stamp"}
    BY DEF Next, vars, disk, folders, run, op, shelf, ghosts, TakeRest, BackRest, Write, Displace,
           Take, PutBack, Replace, BringBack, Add, Restore, Remove,
           TakeFails, RolledBack, BroughtBack, Settle, Rescue, MarksDropped,
           WriteRecord, RecordDropped, Drop, AfterMarks, Shown, List, Purge, DayPasses, Crash, Load
  <2> QED
    BY <1>1, <1>2, <1>3, <1>4, <1>5, <1>6, <1>7, <1>8, <2>1
<1> QED
  BY <1>8

-----------------------------------------------------------------------------
(* Theorems *)

LEMMA InitIInv == Init => IInv
<1> SUFFICES ASSUME Init PROVE IInv
  OBVIOUS
<1> USE Constants, NothingTypes DEF Init
<1>1. FaultsTypes
  BY FS_EmptySet DEF FaultsTypes
<1>2. DataTypes
  BY DEF DataTypes
<1>3. DayTypes
  BY DEF DayTypes
<1>4. FlagTypes
  BY Zenon DEF FlagTypes
<1>5. Past /\ InFolders /\ OnItsWay /\ NewestIsAhead
  BY DEF Past, Copies, In, Nothing, InFolders, OnItsWay, NewestIsAhead, Held
<1>6. Whole
  BY DEF Whole, Intact, Removing, Restoring, Nothing, File
<1>7. Decided
  BY DEF Decided, WrittenIsLive, WroteSince, NoneSince, Recorded, StaysAway, Returning, Recovered, File
<1>8. Stamped
  BY DEF Stamped
<1> QED
  BY <1>1, <1>2, <1>3, <1>4, <1>5, <1>6, <1>7, <1>8, TypeParts DEF IInv

LEMMA NextIInv == IInv /\ [Next]_vars => IInv'
<1> SUFFICES ASSUME IInv, [Next]_vars PROVE IInv'
  OBVIOUS
<1>1. FaultsTypes /\ DataTypes /\ DayTypes /\ FlagTypes
  BY TypeParts DEF IInv
<1>2. (TypeOK /\ IsFiniteSet(faults))'
  BY TypesStep DEF IInv
<1>3. Past' /\ InFolders' /\ OnItsWay' /\ NewestIsAhead' /\ Whole' /\ Stamped'
  BY <1>1, PastStep, InFoldersStep, OnItsWayStep, NewestStep, WholeStep, StampedStep DEF IInv
<1>4. Decided'
  BY <1>1, NoneSinceStep, WrittenIsLiveStep, StaysAwayStep, RecordedStep, RecoveredStep DEF IInv, Decided
<1> QED
  BY <1>2, <1>3, <1>4 DEF IInv

LEMMA AlwaysIInv == Spec => []IInv
BY InitIInv, NextIInv, PTL DEF Spec

\* Every variable of a removal and a restore has its type.
THEOREM TypesCorrect == Spec => []TypeOK
<1>1. IInv => TypeOK
  BY DEF IInv
<1> QED
  BY <1>1, AlwaysIInv, PTL

\* Nothing the reader wrote is lost before a stay in the trash is over, as long as
\* nobody dies and nothing is left behind; and the newest of it never is.
THEOREM LosesNothing == Spec => []NothingLost
<1>1. IInv => AllKept
  <2> SUFFICES ASSUME IInv, Calm PROVE AllKept
    BY DEF AllKept, Calm
  <2>1. Intact
    BY DEF IInv, Whole
  <2> QED
    BY <2>1 DEF AllKept, Intact
<1>2. IInv => NewestKept
  BY DEF IInv, NewestIsAhead, HasNewest, NewestKept, Copies
<1> QED
  BY <1>1, <1>2, AlwaysIInv, PTL DEF NothingLost

\* What a launch leaves on the shelf is what the reader last decided.
THEOREM LaunchDecidesAsTheReader == Spec => []LaunchKeepsTheDecision
<1>1. IInv => LaunchKeepsTheDecision
  BY DEF IInv, Decided, WrittenIsLive, WroteSince, Recovered, OnItsWay, LaunchKeepsTheDecision
<1> QED
  BY <1>1, AlwaysIInv, PTL

\* The sweep takes nothing before its stay is over.
THEOREM KeepsItsStay == Spec => KeptItsStay
<1>1. IInv /\ [Next]_vars
        => [~unstamped /\ trashDir /\ ~trashDir' /\ pc = "idle" => day - touched >= Stay]_vars
  <2> SUFFICES ASSUME IInv, Next, ~unstamped, trashDir, ~trashDir', pc = "idle"
               PROVE  day - touched >= Stay
    OBVIOUS
  <2>1. Purge
    BY DEF Next, vars, disk, folders, run, TakeRest, BackRest, Write, Displace,
           Take, PutBack, Replace, BringBack, Import, Add, Restore, Remove,
           Evict, TakeFails, Taken, Stamp, RolledBack, Failed, BroughtBack, Settle, Rescue, MarksDropped,
           WriteRecord, RecordDropped, Drop, Shown, List, DayPasses, Crash, Launch, Load
  <2>2. Expired /\ listed \notin {Due, None}
    BY <2>1 DEF Purge
  <2>3. stamp = touched /\ listed <= day
    BY <2>2 DEF IInv, Stamped
  <2>4. FaultsTypes /\ DayTypes
    BY TypeParts DEF IInv
  <2> QED
    BY <2>2, <2>3, <2>4, Constants DEF Expired, Stay, FaultsTypes, DayTypes
<1> QED
  BY <1>1, AlwaysIInv, PTL DEF Spec, KeptItsStay

=============================================================================
