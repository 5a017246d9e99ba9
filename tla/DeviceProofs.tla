---------------------------- MODULE DeviceProofs ---------------------------
(***************************************************************************)
(* Proofs about what one device keeps for its sync: its clock, HybridClock,*)
(* for every set of devices and every bound, and its journal, Journal, for *)
(* every set of surfaces, every cast and every bound, the journal being    *)
(* opened once in each process (~Reload).                                  *)
(*                                                                         *)
(* The clock.  A running clock's floor is the floor its store holds,       *)
(* except for a clock that ran past the last millisecond, whose store      *)
(* holds the last time there is (InStep).  Where save() is durable the     *)
(* disk is that store, so all that was issued or witnessed is at or below  *)
(* it (Covered), and what now() returns is above the floor it began from.  *)
(*                                                                         *)
(* The journal.  File and index give the same answers to everything that   *)
(* is asked of either (Same), so what is proved of the lines on disk holds *)
(* of the lines in memory.  A step is then one of few: it adds a line that *)
(* follows all others (Fresh), the file being compacted or not, or it may  *)
(* have added one and the journal is poisoned or gone (Goes), or it leaves *)
(* the lines alone.  What is owed: a surface whose local edit the peer     *)
(* lacks is in the outbox or has an open begin (Debts, Pushing).  What is  *)
(* certified: a surface outside todo whose begins are all answered is what *)
(* its head says, and what a power cut would bring back is not (Certain,   *)
(* Reverts, Covering).  What a follower has: it may lack what is below its *)
(* cursor only where the folder went back behind the journal, and then the *)
(* flag is up and the next open looks at that surface (Followed, Doubtful, *)
(* with Epochs: an epoch that has been told is never given again).         *)
(***************************************************************************)
EXTENDS HybridClock, Journal, TLAPS, WellFoundedInduction

-----------------------------------------------------------------------------
(* The clock *)

\* The last time makeHlc can spell.
Top == [ms |-> MaxMs, counter |-> MaxCounter]

\* A running clock against its store: equal, or stuck past the end of time.
InStep ==
    \A d \in Device : up[d] =>
        \/ Spellable(floor[d]) /\ floor[d] = kept[d]
        \/ ~Spellable(floor[d]) /\ kept[d] = Top

\* The disk never runs ahead of the store's memory.
DiskBehind == \A d \in Device : up[d] => AtMost(disk[d], kept[d])

IInv == TypeOK /\ InStep /\ DiskBehind

\* Where save() is durable: the disk is the store, and covers the whole history.
Covered ==
    \A d \in Device \ Late :
        /\ up[d] => disk[d] = kept[d]
        /\ \A s \in issued[d] \cup seen[d] : AtMost(s, disk[d])

-----------------------------------------------------------------------------
(* Times *)

Floors == [ms : Nat, counter : -1 .. MaxCounter]

\* The order of times is transitive, mixed forms included.
LEMMA Transitive ==
    ASSUME NEW r \in Floors, NEW s \in Floors, NEW t \in Floors
    PROVE  /\ AtMost(r, s) /\ AtMost(s, t) => AtMost(r, t)
           /\ AtMost(r, s) /\ Before(s, t) => Before(r, t)
           /\ Before(r, s) => AtMost(r, s)
BY ClockAssumption DEF Floors, AtMost, Before

\* The order is total, and records are told apart by their two fields.
LEMMA Total ==
    ASSUME NEW s \in Floors, NEW t \in Floors
    PROVE  AtMost(s, t) \/ Before(t, s)
BY ClockAssumption DEF Floors, AtMost, Before

LEMMA TimesAreFloors == Time \cup {NoFloor} \subseteq Floors
BY ClockAssumption DEF Time, NoFloor, Floors

\* A step of the floor goes up, by at most one millisecond past floor and wall.
LEMMA NextFloorRises ==
    ASSUME NEW f \in Floors, NEW w \in 0 .. MaxMs
    PROVE  /\ NextFloor(f, w) \in [ms : Nat, counter : 0 .. MaxCounter]
           /\ Before(f, NextFloor(f, w))
           /\ NextFloor(f, w).ms <= Further(f.ms, w) + 1
           /\ Spellable(NextFloor(f, w)) => NextFloor(f, w) \in Time
           /\ Spellable(f) /\ ~Spellable(NextFloor(f, w)) => f = Top
           /\ ~Spellable(f) => ~Spellable(NextFloor(f, w))
BY ClockAssumption DEF Floors, NextFloor, Before, Further, Spellable, Time, Top

\* Nothing that can be spelled is above the last time.
LEMMA TopIsLast ==
    ASSUME NEW t \in Time \cup {NoFloor}
    PROVE  AtMost(t, Top)
BY ClockAssumption DEF Time, NoFloor, Top, AtMost, Before

-----------------------------------------------------------------------------
(* The invariant *)

LEMMA InitIInv == Init => IInv
BY ClockAssumption DEF Init, IInv, TypeOK, InStep, DiskBehind, NoFloor, Time

LEMMA OfferedAreTimes == TypeOK => Offered \subseteq Time
BY ClockAssumption DEF TypeOK, Offered, LegacyTime, Time

\* What now() does to the state, in one place.
LEMMA NowKeepsIInv ==
    ASSUME IInv, NEW d \in Device, NEW w \in 0 .. MaxMs, Now(d, w)
    PROVE  IInv'
<1> DEFINE f == NextFloor(floor[d], w)
<1>1. floor[d] \in Floors /\ kept[d] \in Floors /\ disk[d] \in Floors
  BY TimesAreFloors DEF IInv, TypeOK, Floors
<1>2. /\ f \in [ms : Nat, counter : 0 .. MaxCounter]
      /\ Before(floor[d], f)
      /\ Spellable(f) => f \in Time
      /\ Spellable(floor[d]) /\ ~Spellable(f) => floor[d] = Top
      /\ ~Spellable(floor[d]) => ~Spellable(f)
  BY <1>1, NextFloorRises
<1>3. f \in Floors
  BY <1>2 DEF Floors
<1> HIDE DEF f
<1>4. /\ up[d] /\ up' = up /\ seen' = seen
      /\ floor' = [floor EXCEPT ![d] = f]
      /\ calls' = [calls EXCEPT ![d] = @ + 1]
      /\ high' = [high EXCEPT ![d] = Further(@, w)]
  BY DEF Now, f
<1>5. CASE Spellable(f)
  <2>1. /\ kept' = [kept EXCEPT ![d] = f]
        /\ disk' = disk \/ disk' = [disk EXCEPT ![d] = f]
        /\ issued' = [issued EXCEPT ![d] = @ \cup {f}]
    BY <1>5 DEF Now, Save, f
  <2>2. TypeOK'
    BY <1>2, <1>4, <1>5, <2>1, ClockAssumption DEF IInv, TypeOK, Further
  <2>3. InStep'
    BY <1>4, <1>5, <2>1 DEF IInv, TypeOK, InStep
  <2>4. AtMost(disk[d], f)
    <3>1. AtMost(disk[d], kept[d])
      BY <1>4 DEF IInv, DiskBehind
    <3>2. kept[d] = floor[d]
      BY <1>2, <1>4, <1>5 DEF IInv, InStep
    <3> QED
      BY <1>1, <1>2, <1>3, <3>1, <3>2, Transitive
  <2>5. AtMost(f, f)
    BY DEF AtMost
  <2>6. DiskBehind'
    BY <1>4, <2>1, <2>4, <2>5 DEF IInv, TypeOK, DiskBehind
  <2> QED
    BY <2>2, <2>3, <2>6 DEF IInv
<1>6. CASE ~Spellable(f)
  <2>1. kept' = kept /\ disk' = disk /\ issued' = issued
    BY <1>6 DEF Now, f
  <2>2. TypeOK'
    BY <1>2, <1>4, <2>1, ClockAssumption DEF IInv, TypeOK, Further
  <2>3. kept[d] = Top
    BY <1>2, <1>4, <1>6 DEF IInv, InStep
  <2>4. InStep'
    BY <1>4, <1>6, <2>1, <2>3 DEF IInv, TypeOK, InStep
  <2>5. DiskBehind'
    BY <1>4, <2>1 DEF IInv, DiskBehind
  <2> QED
    BY <2>2, <2>4, <2>5 DEF IInv
<1> QED
  BY <1>5, <1>6

\* And what witness() does.
LEMMA WitnessKeepsIInv ==
    ASSUME IInv, NEW d \in Device, NEW w \in 0 .. MaxMs, NEW t \in Offered,
           Witness(d, t, w)
    PROVE  IInv'
<1>1. t \in Time
  BY OfferedAreTimes DEF IInv
<1>2. floor[d] \in Floors /\ kept[d] \in Floors /\ disk[d] \in Floors /\ t \in Floors
  BY <1>1, TimesAreFloors DEF IInv, TypeOK, Floors
<1>3. /\ up[d] /\ up' = up /\ calls' = calls /\ issued' = issued
      /\ seen' = [seen EXCEPT ![d] = @ \cup {t}]
      /\ high' = [high EXCEPT ![d] = Further(@, w)]
  BY DEF Witness
<1>4. CASE AtMost(t, floor[d])
  <2>1. floor' = floor /\ kept' = kept /\ disk' = disk
    BY <1>4 DEF Witness
  <2>2. TypeOK'
    BY <1>1, <1>3, <2>1, ClockAssumption DEF IInv, TypeOK, Further
  <2> QED
    BY <1>3, <2>1, <2>2 DEF IInv, InStep, DiskBehind
<1>5. CASE ~AtMost(t, floor[d])
  <2>1. /\ floor' = [floor EXCEPT ![d] = t]
        /\ kept' = [kept EXCEPT ![d] = t]
        /\ disk' = disk \/ disk' = [disk EXCEPT ![d] = t]
    BY <1>5 DEF Witness, Save
  <2>2. TypeOK'
    <3>1. floor' \in [Device -> Floors]
      BY <1>2, <2>1 DEF IInv, TypeOK, Floors
    <3>2. /\ kept' \in [Device -> Time \cup {NoFloor}]
          /\ disk' \in [Device -> Time \cup {NoFloor}]
          /\ seen' \in [Device -> SUBSET Time]
      BY <1>1, <1>3, <2>1 DEF IInv, TypeOK
    <3>3. high' \in [Device -> 0 .. MaxMs]
      BY <1>3, ClockAssumption DEF IInv, TypeOK, Further
    <3> QED
      BY <1>3, <3>1, <3>2, <3>3 DEF IInv, TypeOK, Floors
  <2>3. Spellable(t)
    BY <1>1 DEF Time, Spellable
  <2>4. InStep'
    BY <1>3, <2>1, <2>3 DEF IInv, TypeOK, InStep
  <2>5. Before(floor[d], t)
    BY <1>2, <1>5, Total
  <2>6. kept[d] = floor[d]
    <3>1. SUFFICES ASSUME ~Spellable(floor[d]) PROVE FALSE
      BY <1>3 DEF IInv, InStep
    <3> QED
      BY <1>1, <2>5, <3>1, ClockAssumption DEF Time, Before, Spellable, IInv, TypeOK
  <2>7. AtMost(disk[d], t) /\ AtMost(t, t)
    <3>1. AtMost(disk[d], floor[d])
      BY <1>3, <2>6 DEF IInv, DiskBehind
    <3>2. Before(disk[d], t)
      BY <1>2, <2>5, <3>1, Transitive
    <3> QED
      BY <3>2 DEF AtMost
  <2>8. DiskBehind'
    BY <1>3, <2>1, <2>7 DEF IInv, TypeOK, DiskBehind
  <2> QED
    BY <2>2, <2>4, <2>8 DEF IInv
<1> QED
  BY <1>4, <1>5

LEMMA StepKeepsIInv == IInv /\ [Next]_vars => IInv'
<1> SUFFICES ASSUME IInv, [Next]_vars PROVE IInv'
  OBVIOUS
<1>1. ASSUME NEW d \in Device, Start(d) PROVE IInv'
  <2>1. TypeOK'
    BY <1>1, TimesAreFloors DEF IInv, TypeOK, Start, Floors
  <2>2. Spellable(disk[d])
    BY ClockAssumption DEF IInv, TypeOK, Time, NoFloor, Spellable
  <2>3. InStep'
    BY <1>1, <2>2 DEF IInv, TypeOK, InStep, Start
  <2>4. DiskBehind'
    BY <1>1 DEF IInv, TypeOK, DiskBehind, Start, AtMost
  <2> QED
    BY <2>1, <2>3, <2>4 DEF IInv
<1>2. ASSUME NEW d \in Device, Crash(d) PROVE IInv'
  BY <1>2 DEF IInv, TypeOK, InStep, DiskBehind, Crash
<1>3. ASSUME NEW d \in Device, Flush(d) PROVE IInv'
  <2>1. TypeOK' /\ InStep'
    BY <1>3 DEF IInv, TypeOK, InStep, Flush
  <2>2. DiskBehind'
    BY <1>3 DEF IInv, TypeOK, DiskBehind, Flush, AtMost
  <2> QED
    BY <2>1, <2>2 DEF IInv
<1>4. ASSUME NEW d \in Device, NEW w \in 0 .. MaxMs, Now(d, w) PROVE IInv'
  BY <1>4, NowKeepsIInv
<1>5. ASSUME NEW d \in Device, NEW w \in 0 .. MaxMs, NEW t \in Offered,
             Witness(d, t, w)
      PROVE  IInv'
  BY <1>5, WitnessKeepsIInv
<1>6. CASE UNCHANGED vars
  BY <1>6 DEF IInv, TypeOK, InStep, DiskBehind, vars
<1> QED
  BY <1>1, <1>2, <1>3, <1>4, <1>5, <1>6 DEF Next

\* A running clock and its store keep step, whatever the store's timing.
THEOREM InvariantHolds == Spec => []IInv
<1>1. IInv /\ [Next]_vars => IInv'
  BY StepKeepsIInv
<1> QED
  BY InitIInv, <1>1, PTL DEF Spec

\* Every variable keeps its type.
THEOREM TypeCorrect == Spec => []TypeOK
<1>1. IInv => TypeOK
  BY DEF IInv
<1> QED
  BY InvariantHolds, <1>1, PTL

-----------------------------------------------------------------------------
(* What the disk holds, whenever the store writes *)

\* The floor a now() starts from covers the disk, so what it returns is above.
LEMMA StepKeepsDiskFloor ==
    ASSUME IInv, [Next]_vars, NEW d \in Device
    PROVE  /\ AtMost(disk[d], disk'[d])
           /\ Returned(d) => Before(disk[d], floor'[d])
<1>0. disk[d] \in Floors /\ kept[d] \in Floors /\ floor[d] \in Floors
  BY TimesAreFloors DEF IInv, TypeOK, Floors
<1>1. ASSUME NEW e \in Device, Start(e) \/ Crash(e) \/ Flush(e)
      PROVE  AtMost(disk[d], disk'[d]) /\ calls' = calls
  BY <1>1 DEF Start, Crash, Flush, IInv, TypeOK, DiskBehind, AtMost
<1>2. ASSUME NEW e \in Device, NEW w \in 0 .. MaxMs, Now(e, w)
      PROVE  /\ AtMost(disk[d], disk'[d])
             /\ Returned(d) => Before(disk[d], floor'[d])
  <2>1. CASE e # d
    BY <1>2, <2>1 DEF Now, Save, IInv, TypeOK, AtMost, Returned
  <2>2. CASE e = d
    <3> DEFINE f == NextFloor(floor[d], w)
    <3>1. /\ f \in Floors
          /\ Before(floor[d], f)
          /\ ~Spellable(floor[d]) => ~Spellable(f)
      BY <1>0, NextFloorRises DEF Floors
    <3>2. floor'[d] = f /\ up[d]
      BY <1>2, <2>2 DEF Now, IInv, TypeOK
    <3>3. CASE ~Spellable(f)
      BY <1>2, <2>2, <3>2, <3>3 DEF Now, AtMost, Returned
    <3>4. CASE Spellable(f)
      <4>1. AtMost(disk[d], floor[d])
        BY <3>1, <3>2, <3>4 DEF IInv, InStep, DiskBehind
      <4>2. Before(disk[d], f) /\ AtMost(disk[d], f)
        BY <1>0, <3>1, <4>1, Transitive DEF AtMost
      <4>3. disk'[d] = disk[d] \/ disk'[d] = f
        BY <1>2, <2>2, <3>4 DEF Now, Save, IInv, TypeOK
      <4> QED
        BY <3>2, <4>2, <4>3 DEF AtMost
    <3> QED
      BY <3>3, <3>4
  <2> QED
    BY <2>1, <2>2
<1>3. ASSUME NEW e \in Device, NEW w \in 0 .. MaxMs, NEW t \in Offered,
             Witness(e, t, w)
      PROVE  AtMost(disk[d], disk'[d]) /\ calls' = calls
  <2>1. CASE disk'[d] = disk[d]
    BY <1>3, <2>1 DEF Witness, AtMost
  <2>2. CASE disk'[d] # disk[d]
    <3>1. e = d /\ up[d] /\ disk'[d] = t /\ ~AtMost(t, floor[d])
      BY <1>3, <2>2 DEF Witness, Save, IInv, TypeOK
    <3>2. t \in Time /\ t \in Floors
      BY OfferedAreTimes, TimesAreFloors DEF IInv
    <3>3. Before(floor[d], t)
      BY <1>0, <3>1, <3>2, Total
    <3>4. Spellable(floor[d])
      BY <1>0, <3>2, <3>3, ClockAssumption DEF Time, Floors, Before, Spellable
    <3>5. AtMost(disk[d], floor[d])
      BY <3>1, <3>4 DEF IInv, InStep, DiskBehind
    <3> QED
      BY <1>0, <1>3, <3>1, <3>2, <3>3, <3>5, Transitive DEF Witness, AtMost
  <2> QED
    BY <2>1, <2>2
<1>4. CASE UNCHANGED vars
  BY <1>4 DEF vars, AtMost, Returned
<1> QED
  BY <1>1, <1>2, <1>3, <1>4 DEF Next, Returned

\* However late the store writes and whenever the process dies, the floor on
\* disk never falls, and no stamp is returned at or below it.
THEOREM DiskFloorAlwaysHolds == Spec => DiskFloorHolds
<1>1. IInv /\ [Next]_vars =>
        [\A d \in Device :
            /\ AtMost(disk[d], disk'[d])
            /\ Returned(d) => Before(disk[d], floor'[d])]_vars
  BY StepKeepsDiskFloor
<1> QED
  BY InvariantHolds, <1>1, PTL DEF Spec, DiskFloorHolds

-----------------------------------------------------------------------------
(* What a durable save() adds *)

LEMMA InitCovered == Init => Covered
BY DEF Init, Covered

LEMMA StepKeepsCovered ==
    ASSUME IInv, Covered, [Next]_vars
    PROVE  Covered'
<1> SUFFICES ASSUME NEW d \in Device \ Late
             PROVE  /\ up'[d] => disk'[d] = kept'[d]
                    /\ \A s \in issued'[d] \cup seen'[d] : AtMost(s, disk'[d])
  BY DEF Covered
<1>0. /\ disk[d] \in Floors /\ disk'[d] \in Floors
      /\ issued[d] \cup seen[d] \subseteq Floors
  BY StepKeepsIInv, TimesAreFloors DEF IInv, TypeOK
<1>1. AtMost(disk[d], disk'[d])
  BY StepKeepsDiskFloor
<1>2. \A s \in issued[d] \cup seen[d] : AtMost(s, disk'[d])
  BY <1>0, <1>1, Transitive DEF Covered
<1>3. ASSUME NEW e \in Device, Start(e) \/ Crash(e) \/ Flush(e)
      PROVE  /\ up'[d] => disk'[d] = kept'[d]
             /\ issued' = issued /\ seen' = seen
  BY <1>3 DEF Start, Crash, Flush, Covered, IInv, TypeOK
<1>4. ASSUME NEW e \in Device, NEW w \in 0 .. MaxMs, Now(e, w)
      PROVE  /\ up'[d] => disk'[d] = kept'[d]
             /\ \A s \in issued'[d] \ issued[d] : AtMost(s, disk'[d])
             /\ seen' = seen
  BY <1>4 DEF Now, Save, Covered, IInv, TypeOK, AtMost
<1>5. ASSUME NEW e \in Device, NEW w \in 0 .. MaxMs, NEW t \in Offered,
             Witness(e, t, w)
      PROVE  /\ up'[d] => disk'[d] = kept'[d]
             /\ \A s \in seen'[d] \ seen[d] : AtMost(s, disk'[d])
             /\ issued' = issued
  <2>1. CASE ~AtMost(t, floor[e])
    BY <1>5, <2>1 DEF Witness, Save, Covered, IInv, TypeOK, AtMost
  <2>2. CASE AtMost(t, floor[e])
    <3>1. /\ disk' = disk /\ kept' = kept /\ up' = up /\ issued' = issued
          /\ seen' = [seen EXCEPT ![e] = @ \cup {t}] /\ up[e]
      BY <1>5, <2>2 DEF Witness
    <3>2. t \in Time
      BY OfferedAreTimes DEF IInv
    <3>3. AtMost(t, kept[e])
      BY <2>2, <3>1, <3>2, TopIsLast DEF IInv, InStep
    <3> QED
      BY <3>1, <3>3 DEF Covered, IInv, TypeOK
  <2> QED
    BY <2>1, <2>2
<1>6. CASE UNCHANGED vars
  BY <1>6, <1>2 DEF vars, Covered
<1> QED
  BY <1>2, <1>3, <1>4, <1>5, <1>6 DEF Next

\* A now() returns above everything in the history.
LEMMA ReturnedAboveHistory ==
    ASSUME IInv, Covered, [Next]_vars, NEW d \in Device \ Late, Returned(d)
    PROVE  \A s \in issued[d] \cup seen[d] : Before(s, floor'[d])
<1>1. PICK e \in Device, w \in 0 .. MaxMs : Now(e, w)
  BY DEF Returned, Next, vars, Start, Crash, Flush, Witness
<1>2. floor'[d] \in Floors /\ disk[d] \in Floors /\ issued[d] \cup seen[d] \subseteq Floors
  BY StepKeepsIInv, TimesAreFloors DEF IInv, TypeOK, Floors
<1>3. Before(disk[d], floor'[d])
  BY StepKeepsDiskFloor
<1> QED
  BY <1>2, <1>3, Transitive DEF Covered

LEMMA CoveredHolds == Spec => []Covered
<1>1. IInv /\ Covered /\ [Next]_vars => Covered'
  BY StepKeepsCovered
<1> QED
  BY InitCovered, InvariantHolds, <1>1, PTL DEF Spec

\* Where save() is durable, every stamp is above all the device issued before,
\* across every crash.
THEOREM IssuesInOrder == Spec => IssuedInOrder
<1>1. IInv /\ Covered /\ [Next]_vars =>
        [\A d \in Device \ Late : Returned(d) =>
            \A s \in issued[d] : Before(s, floor'[d])]_vars
  BY ReturnedAboveHistory
<1> QED
  BY InvariantHolds, CoveredHolds, <1>1, PTL DEF Spec, IssuedInOrder

\* Where save() is durable, every stamp beats all the device ever witnessed.
THEOREM WitnessedAreBeaten == Spec => BeatsWitnessed
<1>1. IInv /\ Covered /\ [Next]_vars =>
        [\A d \in Device \ Late : Returned(d) =>
            \A t \in seen[d] : Before(t, floor'[d])]_vars
  BY ReturnedAboveHistory
<1> QED
  BY InvariantHolds, CoveredHolds, <1>1, PTL DEF Spec, BeatsWitnessed

\* So a stamp is above all the device ever issued or accepted.
THEOREM StampsAdvanceAlways == Spec => StampsAdvance
  BY IssuesInOrder, WitnessedAreBeaten DEF StampsAdvance

-----------------------------------------------------------------------------
(* How far a floor can run ahead *)

\* The bound holds of all three copies of the floor: a restart brings the one
\* on disk back.
Drift ==
    \A d \in Device :
        /\ floor[d].ms <= high[d] + MaxAhead + calls[d]
        /\ kept[d].ms <= high[d] + MaxAhead + calls[d]
        /\ disk[d].ms <= high[d] + MaxAhead + calls[d]

LEMMA StepKeepsDrift ==
    ASSUME IInv, Drift, [Next]_vars
    PROVE  Drift'
<1> DEFINE Bounded(d) == /\ floor'[d].ms <= high'[d] + MaxAhead + calls'[d]
                         /\ kept'[d].ms <= high'[d] + MaxAhead + calls'[d]
                         /\ disk'[d].ms <= high'[d] + MaxAhead + calls'[d]
<1> SUFFICES ASSUME NEW d \in Device PROVE Bounded(d)
  BY DEF Drift
<1>0. /\ floor[d] \in Floors /\ kept[d] \in Floors /\ disk[d] \in Floors
      /\ high[d] \in Nat /\ calls[d] \in Nat
  BY TimesAreFloors, ClockAssumption DEF IInv, TypeOK, Floors
<1>1. ASSUME NEW e \in Device, Start(e) \/ Crash(e) \/ Flush(e)
      PROVE  Bounded(d)
  BY <1>1 DEF Start, Crash, Flush, Drift, IInv, TypeOK
<1>2. ASSUME NEW e \in Device, NEW w \in 0 .. MaxMs, Now(e, w)
      PROVE  Bounded(d)
  <2>1. CASE e # d
    BY <1>2, <2>1 DEF Now, Save, Drift, IInv, TypeOK
  <2>2. CASE e = d
    <3> DEFINE f == NextFloor(floor[d], w)
    <3>1. f.ms \in Nat /\ f.ms <= Further(floor[d].ms, w) + 1
      BY <1>0, NextFloorRises
    <3>2. /\ floor'[d] = f
          /\ high'[d] = Further(high[d], w)
          /\ calls'[d] = calls[d] + 1
          /\ kept'[d] = kept[d] \/ kept'[d] = f
          /\ disk'[d] = disk[d] \/ disk'[d] = f
      BY <1>2, <2>2 DEF Now, Save, IInv, TypeOK
    <3> HIDE DEF f
    <3>3. f.ms <= Further(high[d], w) + MaxAhead + calls[d] + 1
      BY <1>0, <3>1, ClockAssumption DEF Further, Drift, Floors
    <3>4. high[d] + MaxAhead + calls[d] <= Further(high[d], w) + MaxAhead + calls[d] + 1
      BY <1>0, ClockAssumption DEF Further
    <3> QED
      BY <1>0, <3>1, <3>2, <3>3, <3>4, ClockAssumption DEF Drift, Floors, Further
  <2> QED
    BY <2>1, <2>2
<1>3. ASSUME NEW e \in Device, NEW w \in 0 .. MaxMs, NEW t \in Offered,
             Witness(e, t, w)
      PROVE  Bounded(d)
  <2>1. CASE e # d
    BY <1>3, <2>1 DEF Witness, Save, Drift, IInv, TypeOK
  <2>2. CASE e = d
    <3>1. t \in Time /\ t.ms <= w + MaxAhead
      BY <1>3, OfferedAreTimes DEF IInv, Witness
    <3>2. /\ high'[d] = Further(high[d], w) /\ calls'[d] = calls[d]
          /\ floor'[d] \in {floor[d], t}
          /\ kept'[d] \in {kept[d], t}
          /\ disk'[d] \in {disk[d], t}
      BY <1>3, <2>2 DEF Witness, Save, IInv, TypeOK
    <3>3. t.ms <= Further(high[d], w) + MaxAhead + calls[d]
      BY <1>0, <3>1, ClockAssumption DEF Further, Time
    <3>4. high[d] + MaxAhead + calls[d] <= Further(high[d], w) + MaxAhead + calls[d]
      BY <1>0, ClockAssumption DEF Further
    <3> QED
      BY <1>0, <3>1, <3>2, <3>3, <3>4, ClockAssumption DEF Drift, Floors, Time, Further
  <2> QED
    BY <2>1, <2>2
<1>4. CASE UNCHANGED vars
  BY <1>4 DEF vars, Drift
<1> QED
  BY <1>1, <1>2, <1>3, <1>4 DEF Next

\* No peer can carry a clock further past its own wall than the witness bound.
THEOREM DriftIsBounded == Spec => []DriftBounded
<1>1. Init => Drift
  BY ClockAssumption DEF Init, Drift, NoFloor
<1>2. IInv /\ Drift /\ [Next]_vars => Drift'
  BY StepKeepsDrift
<1>3. Drift => DriftBounded
  BY DEF Drift, DriftBounded
<1> QED
  BY InvariantHolds, <1>1, <1>2, <1>3, PTL DEF Spec

-----------------------------------------------------------------------------
(* The journal *)

\* A line of the file.
Line ==
    [seq : Nat \ {0}, kind : {"begin", "commit", "acked"}, key : Key, epoch : Nat, rev : Nat,
     begin : Nat, origin : {"local", "remote"}, digest : [l : Int, r : Int]]

\* What a surface holds.
Held == [l : Nat, r : Nat]

\* A process has the journal.
Up == phase \in {"build", "recover", "open"}

\* The last line of a set, as a set.
Newest(S) == IF S = {} THEN {} ELSE {Latest(S)}

\* Two sets of lines of which the shorter has lost nothing that is asked of either.
Same(A, B) ==
    /\ A \subseteq B
    /\ \A k \in Key : /\ Newest(Commits(A, k)) = Newest(Commits(B, k))
                      /\ Newest(Locals(A, k)) = Newest(Locals(B, k))
                      /\ Newest(Acks(A, k)) = Newest(Acks(B, k))
                      /\ Dangling(A, k) = Dangling(B, k)

\* A line names earlier lines only, and a surface there is.
Fit(e) == e.rev <= e.seq /\ e.begin < e.seq /\ e.key \in cast.keys

\* Lines the loader accepts.
Sound(L) == L \subseteq Line /\ (\A e \in L : Fit(e)) /\ LoaderAccepts(L)

\* A file is finite.
Bounded(L) == \E n \in Nat : \A e \in L : e.seq <= n

\* Types, in the form the proofs use.
Typed ==
    /\ {torn, rotten, stranded, dirty, poisoned, unsure} \subseteq BOOLEAN
    /\ meta \in [epoch : Nat, nextSeq : Nat \ {0}, state : {"none", "building", "ready", "rotten"}]
    /\ folder \in [Key -> Held] /\ before \in [Key -> Held] /\ made \in [Key -> Held]
    /\ phase \in {"down", "aside", "build", "recover", "open", "closed"}
    /\ next \in Nat \ {0} /\ epoch \in Nat
    /\ todo \subseteq cast.keys
    /\ bracket \in [Key -> {Idle} \cup [stage : {"begun", "written"}, seq : Nat,
                                        origin : {"local", "remote"}, bound : BOOLEAN]]
    /\ push \in {NoPush} \cup [stage : {"offered", "answered"}, key : cast.keys, rev : Nat]
    /\ peerHas \in [Key -> Nat]
    /\ follower \in [epoch : Nat, since : Nat, got : [Key -> Held]]
    /\ faults \in Nat /\ rots \in Nat /\ cast \in Casts /\ cast.keys \subseteq Key

\* No surface holds an edit that was not made, or less than before its last write.
Made ==
    \A k \in Key : /\ folder[k].l <= made[k].l /\ folder[k].r <= made[k].r
                   /\ before[k].l <= folder[k].l /\ before[k].r <= folder[k].r
                   /\ peerHas[k] <= made[k].l

\* What is on disk and what the index has absorbed.
Kept ==
    /\ Sound(log) /\ Sound(mem) /\ Bounded(log)
    /\ Up => \A e \in log \cup mem : e.seq < next
    /\ ~Up => mem = {}
    /\ rotten => phase = "down" /\ rots > 0
    /\ stranded => rots > 0
    /\ phase = "aside" => log = {} /\ rots > 0 /\ ~torn
    /\ Up /\ ~poisoned => ~torn /\ Same(log, mem)
    /\ poisoned => phase = "open"
    /\ ~stranded => \A e \in log \cup mem : Locals(log, e.key) # {}

\* What holds at each stage of an open, and of a process.
Stages ==
    /\ phase = "build" => meta.state \in {"none", "building"}
    /\ phase \in {"recover", "open", "closed"} => meta.state = "ready"
    /\ meta.state = "ready" /\ ~stranded => \A k \in cast.keys : Commits(log, k) # {}
    /\ phase = "open" => dirty /\ todo = {}
    /\ phase \in {"build", "recover"} => before = folder
    /\ phase # "open" => push = NoPush

\* The epoch an open would find.
Coming ==
    IF Named /\ ~rotten THEN meta.epoch
    ELSE IF log # {} /\ ~rotten THEN Latest(log).epoch
    ELSE rots + 1

Epochs ==
    /\ Up => epoch = Coming
    /\ Up => \A e \in mem : e.epoch = epoch
    /\ Named => \A e \in log : e.epoch = meta.epoch
    /\ \A e \in log : e.epoch <= rots + 1
    /\ Named => meta.epoch <= rots + 1
    /\ follower.epoch <= rots + 1
    /\ rotten \/ phase = "aside" \/ (~Named /\ log = {}) => follower.epoch <= rots
    /\ ~stranded /\ follower.epoch = Coming => follower.since = 0 \/ \E e \in log : follower.since <= e.seq

\* The begin of the write in flight.
BracketOf(L, k) == {b \in Dangling(L, k) : b.seq = bracket[k].seq /\ b.origin = bracket[k].origin}

\* A write in flight has its begin in the file, and the flag is up.
Brackets ==
    \A k \in Key : bracket[k] # Idle =>
        /\ k \in cast.keys
        /\ phase \in {"open", "closed"} /\ dirty
        /\ BracketOf(log, k) # {}
        /\ phase = "open" => BracketOf(mem, k) # {} /\ bracket[k].bound

\* Begins of local edits that nothing has answered.
LocalBegins(L, k) == {b \in Dangling(L, k) : b.origin = "local"}

\* The peer has what the surface holds, or will be offered it, or a rebuild was cut
\* off and the journal has yet to hear of the surface.
Owed(L, k) ==
    \/ folder[k].l <= peerHas[k]
    \/ InOutbox(L, k)
    \/ stranded /\ Locals(L, k) = {}
    \/ LocalBegins(L, k) # {}

\* What is in the folder is owed.
Debts == \A k \in cast.keys : Commits(log, k) # {} => Owed(log, k)

\* The revision on offer is no newer than the outbox, and a reply is for what the folder held.
Pushing ==
    push # NoPush /\ ~poisoned =>
        /\ Locals(mem, push.key) # {} /\ push.rev <= Latest(Locals(mem, push.key)).rev
        /\ push.stage = "answered" /\ Latest(Locals(mem, push.key)).rev = push.rev =>
              folder[push.key].l <= peerHas[push.key] \/ LocalBegins(mem, push.key) # {}

\* What the last commit says of a surface.
Head(L, k) == Latest(Commits(L, k)).digest
True(L, k) == Commits(L, k) # {} => Head(L, k) \in {folder[k], NoDigest}

\* Where the journal is known to say what the folders hold.
Certain ==
    /\ ~dirty => \A k \in cast.keys : True(log, k)
    /\ Up /\ ~unsure => \A k \in cast.keys \ todo : Dangling(mem, k) = {} => True(log, k)
    /\ phase = "build" /\ dirty /\ ~unsure => todo = cast.keys
    /\ phase = "recover" /\ dirty /\ ~unsure => \A k \in cast.keys \ todo :
          Unsettled(mem) = {} /\ LastDigest(mem, k) \in {NoDigest, folder[k]}

\* What a power cut would bring back is not what the journal last said.
Reverts ==
    phase = "open" => \A k \in cast.keys :
        Dangling(log, k) = {} => before[k] = folder[k] \/ True(log, k)

\* A folder holds at least what its head says.
Covering ==
    phase = "open" /\ ~unsure => \A k \in cast.keys :
        Commits(log, k) # {} => Covers(folder[k], Head(log, k))

\* The follower lacks what was committed below its cursor.
Misses(L, k) ==
    /\ Commits(L, k) # {}
    /\ Latest(Commits(L, k)).epoch = follower.epoch /\ Latest(Commits(L, k)).seq <= follower.since
    /\ ~Covers(follower.got[k], Head(L, k))

\* The next open, or this one, has the surface to look at yet.
Doubtful(k) ==
    /\ dirty
    /\ Head(log, k) # folder[k] \/ Dangling(log, k) # {}
    /\ \/ ~Up \/ unsure \/ k \in todo
       \/ phase \in {"build", "recover"} /\ Dangling(log, k) # {}

\* What the follower lacks, the journal is still to say again.
Followed == ~stranded => \A k \in cast.keys : Misses(log, k) => Doubtful(k)

JInv ==
    /\ Typed /\ Made /\ Kept /\ Stages /\ Epochs /\ Brackets
    /\ Debts /\ Pushing /\ Certain /\ Reverts /\ Covering /\ Followed

-----------------------------------------------------------------------------
(* Greatest elements *)

\* A set of numbers that a number bounds has a greatest.
LEMMA GreatestOf ==
    ASSUME NEW S \in SUBSET Nat, S # {}, NEW n \in Nat, \A m \in S : m <= n
    PROVE  \E g \in S : \A m \in S : m <= g
<1> DEFINE T == {n - m : m \in S}
<1>1. T \in SUBSET Nat /\ T # {}
  <2>1. \A m \in S : n - m \in Nat
    OBVIOUS
  <2> QED
    BY <2>1
<1>2. PICK t \in T : \A u \in T : ~(<<u, t>> \in OpToRel(<, Nat))
  BY <1>1, NatLessThanWellFounded, WFMin
<1>3. PICK g \in S : t = n - g
  BY <1>2
<1>4. ASSUME NEW m \in S PROVE m <= g
  <2>1. n - m \in T /\ n - m \in Nat /\ t \in Nat
    BY <1>1, <1>2
  <2>2. ~(n - m < t)
    BY <1>2, <2>1 DEF OpToRel
  <2> QED
    BY <2>1, <2>2, <1>3
<1> QED
  BY <1>4

LEMMA LargestIs ==
    ASSUME NEW S \in SUBSET Nat, S # {}, NEW n \in Nat, \A m \in S : m <= n
    PROVE  Largest(S) \in S /\ \A m \in S : m <= Largest(S)
BY GreatestOf DEF Largest

\* Of lines below a bound one is the latest.
LEMMA LatestIs ==
    ASSUME NEW L \in SUBSET Line, L # {}, NEW n \in Nat, \A e \in L : e.seq <= n
    PROVE  Latest(L) \in L /\ \A f \in L : f.seq <= Latest(L).seq
<1> DEFINE S == {e.seq : e \in L}
<1>1. S \in SUBSET Nat /\ S # {} /\ \A m \in S : m <= n
  BY DEF Line
<1>2. PICK g \in S : \A m \in S : m <= g
  BY <1>1, GreatestOf
<1>3. \E e \in L : \A f \in L : f.seq <= e.seq
  BY <1>2
<1> QED
  BY <1>3 DEF Latest

\* A line after all of them is the latest.
LEMMA LatestAdded ==
    ASSUME NEW L \in SUBSET Line, NEW e \in Line, \A f \in L : f.seq < e.seq
    PROVE  Latest(L \cup {e}) = e
<1>1. \A f \in L \cup {e} : f.seq <= e.seq
  BY DEF Line
<1>2. \A g \in L \cup {e} : (\A f \in L \cup {e} : f.seq <= g.seq) => g = e
  BY DEF Line
<1> QED
  BY <1>1, <1>2 DEF Latest

-----------------------------------------------------------------------------
(* Lines *)

\* What the loader accepts it accepts a part of.
LEMMA SoundPart == ASSUME NEW A, NEW B, Sound(B), A \subseteq B PROVE Sound(A)
BY DEF Sound, LoaderAccepts

LEMMA SameItself == ASSUME NEW A PROVE Same(A, A)
BY DEF Same

\* A line of another key, or of another kind, is nothing to the lines of a kind.
LEMMA CommitsAdded ==
    ASSUME NEW L, NEW e, NEW k
    PROVE  /\ Commits(L \cup {e}, k) =
                 IF e.kind = "commit" /\ e.key = k THEN Commits(L, k) \cup {e} ELSE Commits(L, k)
           /\ Locals(L \cup {e}, k) =
                 IF e.kind = "commit" /\ e.key = k /\ e.origin = "local"
                 THEN Locals(L, k) \cup {e} ELSE Locals(L, k)
           /\ Acks(L \cup {e}, k) =
                 IF e.kind = "acked" /\ e.key = k THEN Acks(L, k) \cup {e} ELSE Acks(L, k)
           /\ Digested(L \cup {e}, k) =
                 IF e.kind = "commit" /\ e.key = k /\ e.digest # NoDigest
                 THEN Digested(L, k) \cup {e} ELSE Digested(L, k)
BY DEF Commits, Locals, Acks, Digested

\* What a line leaves of the begins that nothing had answered.
StillDangling(D, e, k) ==
    IF e.key # k \/ e.kind = "acked" THEN D
    ELSE IF e.kind = "begin" THEN D \cup {e}
    ELSE {b \in D : e.begin # 0 /\ e.begin # b.seq}

\* A begin dangles; a commit answers its own, or all before it.
LEMMA DanglingAdded ==
    ASSUME NEW L, Sound(L), NEW e \in Line, \A f \in L : f.seq < e.seq, NEW k
    PROVE  Dangling(L \cup {e}, k) = StillDangling(Dangling(L, k), e, k)
<1>1. L \subseteq Line /\ \A f \in L : f.begin < f.seq
  BY DEF Sound, Fit
<1>2. CASE e.key # k \/ e.kind = "acked"
  <2>1. Commits(L \cup {e}, k) = Commits(L, k)
    BY <1>2, CommitsAdded
  <2> QED
    BY <1>2, <2>1 DEF Dangling, StillDangling
<1>3. CASE e.key = k /\ e.kind = "begin"
  <2>1. Commits(L \cup {e}, k) = Commits(L, k)
    BY <1>3, CommitsAdded
  <2>2. \A c \in Commits(L, k) : c.begin # e.seq /\ c.seq < e.seq
    BY <1>1 DEF Commits, Line
  <2> QED
    BY <1>3, <2>1, <2>2 DEF Dangling, StillDangling
<1>4. CASE e.key = k /\ e.kind = "commit"
  <2>1. Commits(L \cup {e}, k) = Commits(L, k) \cup {e}
    BY <1>4, CommitsAdded
  <2>2. \A b \in L : b \in Line /\ b.seq < e.seq
    BY <1>1
  <2>3. e.kind # "begin"
    BY <1>4
  <2>4. ASSUME NEW b
        PROVE b \in Dangling(L \cup {e}, k) <=> b \in Dangling(L, k) /\ e.begin # 0 /\ e.begin # b.seq
    <3>1. b \in L => (e.begin = 0 => e.seq < b.seq) <=> e.begin # 0
      BY <2>2 DEF Line
    <3> QED
      BY <2>1, <2>3, <3>1 DEF Dangling
  <2>5. Dangling(L \cup {e}, k) \subseteq L \cup {e} /\ Dangling(L, k) \subseteq L
    BY DEF Dangling
  <2> QED
    BY <1>4, <2>4, <2>5 DEF StillDangling
<1> QED
  BY <1>2, <1>3, <1>4 DEF Line

\* A new revision is past every one there is.
LEMMA RevsAreBelow ==
    ASSUME NEW L, Sound(L), NEW k, NEW n \in Nat, \A e \in L : e.seq < n, n # 0
    PROVE  /\ LastRev(L, k) \in Nat /\ AckedRev(L, k) \in Nat /\ NextRev(L, k) \in Nat
           /\ \A e \in Commits(L, k) : e.rev <= LastRev(L, k)
           /\ \A e \in Acks(L, k) : e.rev <= AckedRev(L, k)
           /\ LastRev(L, k) = 0 \/ \E e \in Commits(L, k) : e.rev = LastRev(L, k)
           /\ AckedRev(L, k) = 0 \/ \E e \in Acks(L, k) : e.rev = AckedRev(L, k)
           /\ LastRev(L, k) < NextRev(L, k) /\ AckedRev(L, k) < NextRev(L, k)
           /\ NextRev(L, k) <= n
<1>1. \A e \in L : e.rev \in Nat /\ e.seq \in Nat /\ e.rev < n
  BY DEF Sound, Fit, Line
<1> DEFINE R(S) == {0} \cup {e.rev : e \in S}
<1>2. ASSUME NEW S \in SUBSET L
      PROVE /\ Largest(R(S)) \in Nat /\ Largest(R(S)) < n
            /\ \A e \in S : e.rev <= Largest(R(S))
            /\ Largest(R(S)) = 0 \/ \E e \in S : e.rev = Largest(R(S))
  <2>1. R(S) \in SUBSET Nat /\ R(S) # {} /\ \A m \in R(S) : m < n
    BY <1>1
  <2>2. \A m \in R(S) : m <= n
    BY <2>1
  <2>3. Largest(R(S)) \in R(S) /\ \A m \in R(S) : m <= Largest(R(S))
    BY <2>1, <2>2, LargestIs
  <2> QED
    BY <2>1, <2>3
<1>3. Commits(L, k) \in SUBSET L /\ Acks(L, k) \in SUBSET L
  BY DEF Commits, Acks
<1>4. LastRev(L, k) = Largest(R(Commits(L, k))) /\ AckedRev(L, k) = Largest(R(Acks(L, k)))
  BY DEF LastRev, AckedRev
<1> HIDE DEF R
<1>5. /\ LastRev(L, k) \in Nat /\ LastRev(L, k) < n
      /\ \A e \in Commits(L, k) : e.rev <= LastRev(L, k)
      /\ LastRev(L, k) = 0 \/ \E e \in Commits(L, k) : e.rev = LastRev(L, k)
  BY <1>2, <1>3, <1>4
<1>6. /\ AckedRev(L, k) \in Nat /\ AckedRev(L, k) < n
      /\ \A e \in Acks(L, k) : e.rev <= AckedRev(L, k)
      /\ AckedRev(L, k) = 0 \/ \E e \in Acks(L, k) : e.rev = AckedRev(L, k)
  BY <1>2, <1>3, <1>4
<1>7. PICK a \in Nat, b \in Nat : a = LastRev(L, k) /\ b = AckedRev(L, k)
  BY <1>5, <1>6
<1>8. /\ Largest({a, b}) \in Nat /\ Largest({a, b}) < n
      /\ a <= Largest({a, b}) /\ b <= Largest({a, b})
  <2>1. {a, b} \in SUBSET Nat /\ {a, b} # {} /\ \A m \in {a, b} : m <= n
    BY <1>5, <1>6, <1>7
  <2>2. Largest({a, b}) \in {a, b} /\ \A m \in {a, b} : m <= Largest({a, b})
    BY <2>1, LargestIs
  <2> QED
    BY <2>2, <1>5, <1>6, <1>7
<1>9. NextRev(L, k) = Largest({a, b}) + 1
  BY <1>7 DEF NextRev
<1> QED
  BY <1>5, <1>6, <1>7, <1>8, <1>9

\* What the loader asks of a line that is new.
Follows(e, L) ==
    /\ e \in Line /\ Fit(e)
    /\ \A f \in L : f.seq < e.seq /\ f.epoch = e.epoch
    /\ e.kind # "begin" => \A f \in L : f.key = e.key /\ f.kind = e.kind => f.rev < e.rev
    /\ e.kind = "commit" /\ e.begin # 0 => \E b \in Dangling(L, e.key) : b.seq = e.begin /\ b.origin = e.origin

\* What follows a sound file can be loaded with it.
LEMMA SoundAdded ==
    ASSUME NEW L, Sound(L), NEW e, Follows(e, L)
    PROVE  Sound(L \cup {e})
<1>0. L \subseteq Line /\ e \in Line /\ LoaderAccepts(L)
  BY DEF Sound, Follows
<1>1. \A f \in L : f.begin < f.seq /\ f.seq < e.seq /\ f.epoch = e.epoch
  BY DEF Sound, Fit, Follows
<1>2. e.begin < e.seq
  BY DEF Follows, Fit
<1>3. \A f \in L : f.seq \in Nat /\ f.begin \in Nat /\ f.rev \in Nat /\ f.seq # 0
  BY <1>0 DEF Line
<1>4. e.seq \in Nat /\ e.begin \in Nat /\ e.rev \in Nat /\ e.seq # 0
  BY <1>0 DEF Line
<1>5. \A f, g \in L \cup {e} : f.epoch = g.epoch
  BY <1>0, <1>1 DEF LoaderAccepts
<1>6. \A f, g \in L \cup {e} : f.seq = g.seq => f = g
  <2>1. \A f, g \in L : f.seq = g.seq => f = g
    BY <1>0 DEF LoaderAccepts
  <2>2. \A f \in L : f.seq # e.seq
    BY <1>1, <1>3, <1>4
  <2> QED
    BY <2>1, <2>2
<1>7. \A f, g \in L \cup {e} :
         f.key = g.key /\ f.kind = g.kind /\ f.kind # "begin" /\ f.seq < g.seq => f.rev < g.rev
  <2>1. \A f, g \in L : f.key = g.key /\ f.kind = g.kind /\ f.kind # "begin" /\ f.seq < g.seq => f.rev < g.rev
    BY <1>0 DEF LoaderAccepts
  <2>2. \A g \in L : ~(e.seq < g.seq)
    BY <1>1, <1>3, <1>4
  <2>3. ~(e.seq < e.seq)
    BY <1>4
  <2>4. \A f \in L : f.key = e.key /\ f.kind = e.kind /\ f.kind # "begin" => f.rev < e.rev
    BY DEF Follows
  <2> QED
    BY <2>1, <2>2, <2>3, <2>4
<1>8. \A f, g \in L \cup {e} :
         f.kind = "commit" /\ g.kind = "begin" /\ f.begin = g.seq => g.key = f.key /\ g.origin = f.origin
  <2>1. \A f, g \in L : f.kind = "commit" /\ g.kind = "begin" /\ f.begin = g.seq
                           => g.key = f.key /\ g.origin = f.origin
    BY <1>0 DEF LoaderAccepts
  <2>2. \A f \in L \cup {e} : f.begin # e.seq
    BY <1>1, <1>2, <1>3, <1>4
  <2>3. ASSUME e.kind = "commit", NEW g \in L, g.kind = "begin", e.begin = g.seq
        PROVE g.key = e.key /\ g.origin = e.origin
    <3>1. e.begin # 0
      BY <1>3, <2>3
    <3>2. PICK b \in Dangling(L, e.key) : b.seq = e.begin /\ b.origin = e.origin
      BY <2>3, <3>1 DEF Follows
    <3>3. b \in L /\ b.key = e.key
      BY DEF Dangling
    <3>4. b = g
      BY <1>6, <2>3, <3>2, <3>3
    <3> QED
      BY <3>2, <3>3, <3>4
  <2> QED
    BY <2>1, <2>2, <2>3
<1>9. \A f, g \in L \cup {e} :
         f.kind = "commit" /\ g.kind = "commit" /\ f # g /\ f.begin # 0 => f.begin # g.begin
  <2>1. \A f, g \in L : f.kind = "commit" /\ g.kind = "commit" /\ f # g /\ f.begin # 0 => f.begin # g.begin
    BY <1>0 DEF LoaderAccepts
  <2>2. ASSUME e.kind = "commit", e.begin # 0, NEW g \in L, g.kind = "commit" PROVE e.begin # g.begin
    <3>1. PICK b \in Dangling(L, e.key) : b.seq = e.begin /\ b.origin = e.origin
      BY <2>2 DEF Follows
    <3>2. b \in L /\ b.kind = "begin" /\ b.key = e.key /\ \A c \in Commits(L, e.key) : c.begin # b.seq
      BY DEF Dangling
    <3>3. g.begin = b.seq => g.key = b.key
      BY <1>8, <2>2, <3>2
    <3> QED
      BY <2>2, <3>1, <3>2, <3>3 DEF Commits
  <2> QED
    BY <2>1, <2>2
<1>10. LoaderAccepts(L \cup {e})
  BY <1>5, <1>6, <1>7, <1>8, <1>9 DEF LoaderAccepts
<1> QED
  BY <1>0, <1>10 DEF Sound, Follows

LEMMA NewestPart ==
    ASSUME NEW L, Sound(L), NEW n \in Nat, \A e \in L : e.seq <= n,
           NEW S \in SUBSET L, NEW T \in SUBSET S, Newest(S) \subseteq T
    PROVE  Newest(T) = Newest(S)
<1>0. L \in SUBSET Line /\ S \in SUBSET Line /\ T \in SUBSET Line
  BY DEF Sound
<1>1. CASE S = {}
  BY <1>1
<1>2. CASE S # {}
  <2>1. Latest(S) \in S /\ \A f \in S : f.seq <= Latest(S).seq
    BY <1>0, <1>2, LatestIs
  <2>2. Latest(S) \in T
    BY <1>2 DEF Newest
  <2>3. Latest(T) \in T /\ \A f \in T : f.seq <= Latest(T).seq
    BY <1>0, <2>2, LatestIs
  <2>4. Latest(T).seq <= Latest(S).seq /\ Latest(S).seq <= Latest(T).seq
    BY <2>1, <2>2, <2>3
  <2>5. Latest(T).seq = Latest(S).seq
    BY <2>1, <2>3, <2>4, <1>0 DEF Line
  <2>6. Latest(T) = Latest(S)
    BY <2>1, <2>3, <2>5 DEF Sound, LoaderAccepts
  <2> QED
    BY <1>2, <2>2, <2>6 DEF Newest
<1> QED
  BY <1>1, <1>2

LEMMA NewestAdded ==
    ASSUME NEW L \in SUBSET Line, NEW e \in Line, \A f \in L : f.seq < e.seq
    PROVE  Newest(L \cup {e}) = {e}
BY LatestAdded DEF Newest

LEMMA NewestIs ==
    ASSUME NEW L \in SUBSET Line, NEW n \in Nat, \A e \in L : e.seq <= n
    PROVE  /\ Newest(L) \subseteq L
           /\ L # {} => Newest(L) = {Latest(L)} /\ Latest(L) \in L /\ \A f \in L : f.seq <= Latest(L).seq
           /\ L = {} <=> Newest(L) = {}
BY LatestIs DEF Newest

LEMMA PartsOfLines ==
    ASSUME NEW L, NEW k
    PROVE  /\ Commits(L, k) \subseteq L /\ Locals(L, k) \subseteq Commits(L, k)
           /\ Digested(L, k) \subseteq Commits(L, k) /\ Acks(L, k) \subseteq L
           /\ Dangling(L, k) \subseteq L
BY DEF Commits, Locals, Digested, Acks, Dangling

\* A line added to both keeps the answers the same.
LEMMA SameAdded ==
    ASSUME NEW A, NEW B, Same(A, B), Sound(B), NEW e \in Line, \A f \in B : f.seq < e.seq
    PROVE  Same(A \cup {e}, B \cup {e})
<1>1. A \subseteq B /\ Sound(A) /\ B \in SUBSET Line /\ A \in SUBSET Line
  BY SoundPart DEF Same, Sound
<1>2. ASSUME NEW k \in Key
      PROVE /\ Newest(Commits(A \cup {e}, k)) = Newest(Commits(B \cup {e}, k))
            /\ Newest(Locals(A \cup {e}, k)) = Newest(Locals(B \cup {e}, k))
            /\ Newest(Acks(A \cup {e}, k)) = Newest(Acks(B \cup {e}, k))
            /\ Dangling(A \cup {e}, k) = Dangling(B \cup {e}, k)
  <2>1. /\ Newest(Commits(A, k)) = Newest(Commits(B, k))
        /\ Newest(Locals(A, k)) = Newest(Locals(B, k))
        /\ Newest(Acks(A, k)) = Newest(Acks(B, k))
        /\ Dangling(A, k) = Dangling(B, k)
    BY DEF Same
  <2>2. ASSUME NEW S \in SUBSET B PROVE Newest(S \cup {e}) = {e}
    BY <1>1, NewestAdded
  <2>3. /\ Commits(A, k) \in SUBSET B /\ Commits(B, k) \in SUBSET B
        /\ Locals(A, k) \in SUBSET B /\ Locals(B, k) \in SUBSET B
        /\ Acks(A, k) \in SUBSET B /\ Acks(B, k) \in SUBSET B
    BY <1>1, PartsOfLines
  <2>4. Newest(Commits(A \cup {e}, k)) = Newest(Commits(B \cup {e}, k))
    <3>1. Commits(A \cup {e}, k) = IF e.kind = "commit" /\ e.key = k THEN Commits(A, k) \cup {e} ELSE Commits(A, k)
      BY CommitsAdded
    <3>2. Commits(B \cup {e}, k) = IF e.kind = "commit" /\ e.key = k THEN Commits(B, k) \cup {e} ELSE Commits(B, k)
      BY CommitsAdded
    <3>3. Newest(Commits(A, k) \cup {e}) = {e} /\ Newest(Commits(B, k) \cup {e}) = {e}
      BY <2>2, <2>3
    <3> QED
      BY <2>1, <3>1, <3>2, <3>3
  <2>5. Newest(Locals(A \cup {e}, k)) = Newest(Locals(B \cup {e}, k))
    <3>1. Locals(A \cup {e}, k) = IF e.kind = "commit" /\ e.key = k /\ e.origin = "local" THEN Locals(A, k) \cup {e} ELSE Locals(A, k)
      BY CommitsAdded
    <3>2. Locals(B \cup {e}, k) = IF e.kind = "commit" /\ e.key = k /\ e.origin = "local" THEN Locals(B, k) \cup {e} ELSE Locals(B, k)
      BY CommitsAdded
    <3>3. Newest(Locals(A, k) \cup {e}) = {e} /\ Newest(Locals(B, k) \cup {e}) = {e}
      BY <2>2, <2>3
    <3> QED
      BY <2>1, <3>1, <3>2, <3>3
  <2>6. Newest(Acks(A \cup {e}, k)) = Newest(Acks(B \cup {e}, k))
    <3>1. Acks(A \cup {e}, k) = IF e.kind = "acked" /\ e.key = k THEN Acks(A, k) \cup {e} ELSE Acks(A, k)
      BY CommitsAdded
    <3>2. Acks(B \cup {e}, k) = IF e.kind = "acked" /\ e.key = k THEN Acks(B, k) \cup {e} ELSE Acks(B, k)
      BY CommitsAdded
    <3>3. Newest(Acks(A, k) \cup {e}) = {e} /\ Newest(Acks(B, k) \cup {e}) = {e}
      BY <2>2, <2>3
    <3> QED
      BY <2>1, <3>1, <3>2, <3>3
  <2>7. Dangling(A \cup {e}, k) = Dangling(B \cup {e}, k)
    <3>1. \A f \in A : f.seq < e.seq
      BY <1>1
    <3>2. Dangling(A \cup {e}, k) = StillDangling(Dangling(A, k), e, k)
      BY <1>1, <3>1, DanglingAdded
    <3>3. Dangling(B \cup {e}, k) = StillDangling(Dangling(B, k), e, k)
      BY DanglingAdded
    <3> QED
      BY <2>1, <3>2, <3>3
  <2> QED
    BY <2>4, <2>5, <2>6, <2>7
<1> QED
  BY <1>1, <1>2 DEF Same

\* Compaction changes no answer.
LEMMA SameKept ==
    ASSUME NEW B, Sound(B), NEW n \in Nat, \A e \in B : e.seq <= n
    PROVE  Same(Keep(B), B)
<1>0. B \in SUBSET Line
  BY DEF Sound
<1>1. ASSUME NEW k \in Key
      PROVE /\ Commits(B, k) \in SUBSET Line /\ Locals(B, k) \in SUBSET Line /\ Acks(B, k) \in SUBSET Line
            /\ Newest(Commits(B, k)) \subseteq Commits(B, k) /\ Newest(Locals(B, k)) \subseteq Locals(B, k)
            /\ Newest(Acks(B, k)) \subseteq Acks(B, k)
  <2>1. Commits(B, k) \in SUBSET B /\ Locals(B, k) \in SUBSET B /\ Acks(B, k) \in SUBSET B
    BY PartsOfLines
  <2> QED
    BY <1>0, <2>1, NewestIs
<1>2. Keep(B) = UNION {Newest(Commits(B, k)) \cup Newest(Locals(B, k)) \cup Newest(Acks(B, k))
                          \cup Dangling(B, k) : k \in Key}
  BY DEF Keep, Newest
<1>3. Keep(B) \subseteq B
  BY <1>1, <1>2, PartsOfLines
<1>4. ASSUME NEW k \in Key
      PROVE /\ Newest(Commits(Keep(B), k)) = Newest(Commits(B, k))
            /\ Newest(Locals(Keep(B), k)) = Newest(Locals(B, k))
            /\ Newest(Acks(Keep(B), k)) = Newest(Acks(B, k))
            /\ Dangling(Keep(B), k) = Dangling(B, k)
  <2>1. /\ Newest(Commits(B, k)) \subseteq Keep(B) /\ Newest(Locals(B, k)) \subseteq Keep(B)
        /\ Newest(Acks(B, k)) \subseteq Keep(B) /\ Dangling(B, k) \subseteq Keep(B)
    BY <1>2
  <2>2. /\ Commits(Keep(B), k) \in SUBSET Commits(B, k)
        /\ Locals(Keep(B), k) \in SUBSET Locals(B, k)
        /\ Acks(Keep(B), k) \in SUBSET Acks(B, k)
    BY <1>3 DEF Commits, Locals, Acks
  <2>3. /\ Newest(Commits(B, k)) \subseteq Commits(Keep(B), k)
        /\ Newest(Locals(B, k)) \subseteq Locals(Keep(B), k)
        /\ Newest(Acks(B, k)) \subseteq Acks(Keep(B), k)
    BY <1>1, <2>1 DEF Commits, Locals, Acks
  <2>4. Commits(B, k) \in SUBSET B /\ Locals(B, k) \in SUBSET B /\ Acks(B, k) \in SUBSET B
    BY PartsOfLines
  <2>5. Newest(Commits(Keep(B), k)) = Newest(Commits(B, k))
    BY <2>2, <2>3, <2>4, NewestPart
  <2>6. Newest(Locals(Keep(B), k)) = Newest(Locals(B, k))
    BY <2>2, <2>3, <2>4, NewestPart
  <2>7. Newest(Acks(Keep(B), k)) = Newest(Acks(B, k))
    BY <2>2, <2>3, <2>4, NewestPart
  <2>8. Dangling(B, k) \subseteq Dangling(Keep(B), k)
    BY <2>1, <2>2 DEF Dangling
  <2>9. ASSUME NEW b \in Dangling(Keep(B), k) PROVE b \in Dangling(B, k)
    <3>1. b \in Keep(B) /\ b.kind = "begin" /\ b.key = k
      BY DEF Dangling
    <3>2. PICK j \in Key : b \in Newest(Commits(B, j)) \cup Newest(Locals(B, j)) \cup Newest(Acks(B, j))
                                   \cup Dangling(B, j)
      BY <1>2, <3>1
    <3>3. b \notin Newest(Commits(B, j)) /\ b \notin Newest(Locals(B, j)) /\ b \notin Newest(Acks(B, j))
      BY <1>1, <3>1 DEF Commits, Locals, Acks
    <3>4. b \in Dangling(B, j) /\ b.key = j
      BY <3>2, <3>3 DEF Dangling
    <3> QED
      BY <3>1, <3>4
  <2> QED
    BY <2>5, <2>6, <2>7, <2>8, <2>9
<1> QED
  BY <1>3, <1>4 DEF Same

LEMMA AckedRevIs ==
    ASSUME NEW L, Sound(L), NEW k, NEW n \in Nat, \A e \in L : e.seq < n, n # 0
    PROVE  AckedRev(L, k) = IF Acks(L, k) = {} THEN 0 ELSE Latest(Acks(L, k)).rev
<1>1. /\ AckedRev(L, k) \in Nat
      /\ \A e \in Acks(L, k) : e.rev <= AckedRev(L, k)
      /\ AckedRev(L, k) = 0 \/ \E e \in Acks(L, k) : e.rev = AckedRev(L, k)
  BY RevsAreBelow
<1>2. CASE Acks(L, k) = {}
  BY <1>1, <1>2
<1>3. CASE Acks(L, k) # {}
  <2>1. Acks(L, k) \in SUBSET Line /\ \A e \in Acks(L, k) : e.seq <= n
    BY PartsOfLines DEF Sound, Line
  <2>2. PICK a \in Acks(L, k) : a = Latest(Acks(L, k)) /\ \A f \in Acks(L, k) : f.seq <= a.seq
    BY <1>3, <2>1, LatestIs
  <2>3. ASSUME NEW f \in Acks(L, k) PROVE f.rev <= a.rev
    <3>1. f \in L /\ a \in L /\ f.kind = "acked" /\ a.kind = "acked" /\ f.key = k /\ a.key = k
      BY DEF Acks
    <3>2. CASE f.seq = a.seq
      <4>1. f = a
        BY <3>1, <3>2 DEF Sound, LoaderAccepts
      <4> QED
        BY <4>1, <2>1 DEF Line
    <3>3. CASE f.seq < a.seq
      <4>1. f.rev < a.rev
        BY <3>1, <3>3 DEF Sound, LoaderAccepts
      <4> QED
        BY <4>1, <2>1 DEF Line
    <3> QED
      BY <2>1, <2>2, <3>2, <3>3 DEF Line
  <2>4. a.rev \in Nat /\ \A f \in Acks(L, k) : f.rev \in Nat
    BY <2>1 DEF Line
  <2> QED
    BY <1>1, <1>3, <2>2, <2>3, <2>4
<1> QED
  BY <1>2, <1>3

LEMMA SameAsks ==
    ASSUME NEW A, NEW B, Same(A, B), Sound(B), NEW n \in Nat, \A e \in B : e.seq < n, n # 0, NEW k \in Key
    PROVE  /\ Commits(A, k) = {} <=> Commits(B, k) = {}
           /\ Commits(B, k) # {} => Latest(Commits(A, k)) = Latest(Commits(B, k))
           /\ Locals(A, k) = {} <=> Locals(B, k) = {}
           /\ Locals(B, k) # {} => Latest(Locals(A, k)) = Latest(Locals(B, k))
           /\ AckedRev(A, k) = AckedRev(B, k)
           /\ InOutbox(A, k) <=> InOutbox(B, k)
           /\ Dangling(A, k) = Dangling(B, k)
<1>1. A \subseteq B /\ Sound(A) /\ \A e \in A : e.seq < n
  BY SoundPart DEF Same
<1>2. /\ Newest(Commits(A, k)) = Newest(Commits(B, k))
      /\ Newest(Locals(A, k)) = Newest(Locals(B, k))
      /\ Newest(Acks(A, k)) = Newest(Acks(B, k))
      /\ Dangling(A, k) = Dangling(B, k)
  BY DEF Same
<1>3. /\ Commits(A, k) = {} <=> Commits(B, k) = {}
      /\ Commits(B, k) # {} => Latest(Commits(A, k)) = Latest(Commits(B, k))
  BY <1>2 DEF Newest
<1>4. /\ Locals(A, k) = {} <=> Locals(B, k) = {}
      /\ Locals(B, k) # {} => Latest(Locals(A, k)) = Latest(Locals(B, k))
  BY <1>2 DEF Newest
<1>5. /\ Acks(A, k) = {} <=> Acks(B, k) = {}
      /\ Acks(B, k) # {} => Latest(Acks(A, k)) = Latest(Acks(B, k))
  BY <1>2 DEF Newest
<1>6. AckedRev(A, k) = AckedRev(B, k)
  BY <1>1, <1>5, AckedRevIs
<1> QED
  BY <1>2, <1>3, <1>4, <1>6 DEF InOutbox

\* The shorter of two that say the same reaches as far.
LEMMA SameReaches ==
    ASSUME NEW A, NEW B, Same(A, B), Sound(B), NEW n \in Nat, \A e \in B : e.seq <= n, NEW e \in B
    PROVE  \E f \in A : e.seq <= f.seq
<1>0. B \in SUBSET Line /\ B # {}
  BY DEF Sound
<1>1. PICK m \in B : \A f \in B : f.seq <= m.seq
  BY <1>0, LatestIs
<1>2. m \in Line /\ m.key \in Key /\ m.kind \in {"begin", "commit", "acked"}
  BY <1>0 DEF Line
<1>3. ASSUME NEW S \in SUBSET B, m \in S PROVE Newest(S) = {m}
  <2>1. Latest(S) \in S /\ \A f \in S : f.seq <= Latest(S).seq
    BY <1>0, <1>3, LatestIs
  <2>2. Latest(S).seq <= m.seq /\ m.seq <= Latest(S).seq
    BY <1>1, <1>3, <2>1
  <2>3. Latest(S).seq = m.seq
    BY <1>0, <1>3, <2>1, <2>2 DEF Line
  <2>4. Latest(S) = m
    BY <1>3, <2>1, <2>3 DEF Sound, LoaderAccepts
  <2> QED
    BY <1>3, <2>4 DEF Newest
<1>4. m \in A
  <2>1. CASE m.kind = "commit"
    <3>1. Commits(B, m.key) \in SUBSET B /\ m \in Commits(B, m.key)
      BY <2>1 DEF Commits
    <3>2. Newest(Commits(A, m.key)) = {m}
      BY <1>2, <1>3, <3>1 DEF Same
    <3>3. Sound(A) /\ A \subseteq B /\ Commits(A, m.key) \subseteq A
      BY SoundPart, PartsOfLines DEF Same
    <3>4. Commits(A, m.key) \in SUBSET Line /\ \A f \in Commits(A, m.key) : f.seq <= n
      BY <3>3, <1>0
    <3>5. Newest(Commits(A, m.key)) \subseteq Commits(A, m.key)
      BY <3>4, NewestIs
    <3> QED
      BY <3>2, <3>3, <3>5
  <2>2. CASE m.kind = "acked"
    <3>1. Acks(B, m.key) \in SUBSET B /\ m \in Acks(B, m.key)
      BY <2>2 DEF Acks
    <3>2. Newest(Acks(A, m.key)) = {m}
      BY <1>2, <1>3, <3>1 DEF Same
    <3>3. Sound(A) /\ A \subseteq B /\ Acks(A, m.key) \subseteq A
      BY SoundPart, PartsOfLines DEF Same
    <3>4. Acks(A, m.key) \in SUBSET Line /\ \A f \in Acks(A, m.key) : f.seq <= n
      BY <3>3, <1>0
    <3>5. Newest(Acks(A, m.key)) \subseteq Acks(A, m.key)
      BY <3>4, NewestIs
    <3> QED
      BY <3>2, <3>3, <3>5
  <2>3. CASE m.kind = "begin"
    <3>1. \A c \in Commits(B, m.key) : c.begin # m.seq /\ (c.begin = 0 => c.seq < m.seq)
      <4>1. SUFFICES ASSUME NEW c \in Commits(B, m.key)
                     PROVE c.begin # m.seq /\ c.seq < m.seq
        OBVIOUS
      <4>2. c \in B /\ c.kind = "commit" /\ c.begin < c.seq /\ c.seq <= m.seq
        BY <1>1 DEF Commits, Sound, Fit
      <4>3. c.seq # m.seq
        BY <2>3, <4>2 DEF Sound, LoaderAccepts
      <4> QED
        BY <4>2, <4>3, <1>0 DEF Line
    <3>2. m \in Dangling(B, m.key)
      BY <2>3, <3>1 DEF Dangling
    <3> QED
      BY <3>2, <1>2 DEF Same, Dangling
  <2> QED
    BY <1>2, <2>1, <2>2, <2>3
<1> QED
  BY <1>1, <1>4

-----------------------------------------------------------------------------
(* A line is appended *)

\* A line as the journal makes them: the next number, the epoch under way.
Fresh(e) ==
    /\ Follows(e, mem) /\ e.seq = next /\ e.epoch = epoch
    /\ e.kind = "commit" => /\ e.rev = NextRev(mem, e.key)
                            /\ e.digest \in {folder[e.key], NoDigest}
                            /\ e.origin = "remote" => e.begin # 0
    /\ stranded \/ (e.kind = "commit" /\ e.origin = "local") \/ Locals(mem, e.key) # {}

\* Numbers run ahead of every line.
LEMMA UpIsNumbered ==
    ASSUME JInv, Up
    PROVE  /\ next \in Nat /\ next # 0 /\ log \in SUBSET Line /\ mem \in SUBSET Line
           /\ \A f \in log \cup mem : f.seq < next /\ f.seq <= next
BY DEF JInv, Typed, Kept, Sound, Line

\* A fresh line fits the file and the index.
LEMMA FreshIsSound ==
    ASSUME JInv, Up, ~poisoned, NEW e, Fresh(e)
    PROVE  /\ e \in Line /\ log \subseteq mem
           /\ \A f \in log \cup mem : f.seq < e.seq
           /\ Sound(mem \cup {e}) /\ Sound(log \cup {e})
           /\ Same(log \cup {e}, mem \cup {e})
           /\ Bounded(log \cup {e})
<1>1. Sound(mem) /\ Same(log, mem)
  BY DEF JInv, Kept
<1>2. log \subseteq mem
  BY <1>1 DEF Same
<1>3. e \in Line /\ \A f \in log \cup mem : f.seq < e.seq
  BY UpIsNumbered DEF Fresh, Follows
<1>4. Sound(mem \cup {e})
  BY <1>1, SoundAdded DEF Fresh
<1>5. Sound(log \cup {e})
  BY <1>2, <1>4, SoundPart
<1>6. Same(log \cup {e}, mem \cup {e})
  BY <1>1, <1>3, SameAdded
<1>7. \A f \in log \cup {e} : f.seq <= next
  BY UpIsNumbered DEF Fresh
<1> QED
  BY <1>2, <1>3, <1>4, <1>5, <1>6, <1>7, UpIsNumbered DEF Bounded

\* What is no commit of a surface leaves its head, and does not answer its begins.
LEMMA FreshElsewhere ==
    ASSUME JInv, Up, ~poisoned, NEW e, Fresh(e), NEW k, ~(e.kind = "commit" /\ e.key = k)
    PROVE  /\ Commits(log \cup {e}, k) = Commits(log, k)
           /\ Locals(log \cup {e}, k) = Locals(log, k)
           /\ Dangling(log, k) \subseteq Dangling(log \cup {e}, k)
           /\ Dangling(mem, k) \subseteq Dangling(mem \cup {e}, k)
           /\ e.key # k \/ e.kind = "acked" => Dangling(log \cup {e}, k) = Dangling(log, k)
<1>1. Sound(mem) /\ Sound(log) /\ e \in Line
  BY DEF JInv, Kept, Fresh, Follows
<1>2. e.kind \in {"begin", "commit", "acked"} /\ (\A f \in mem : f.seq < e.seq) /\ (\A f \in log : f.seq < e.seq)
  <2>1. e.kind \in {"begin", "commit", "acked"}
    BY <1>1 DEF Line
  <2> QED
    BY <2>1, FreshIsSound
<1>3. Dangling(mem \cup {e}, k) = StillDangling(Dangling(mem, k), e, k)
  BY <1>1, <1>2, DanglingAdded
<1>4. Dangling(log \cup {e}, k) = StillDangling(Dangling(log, k), e, k)
  BY <1>1, <1>2, DanglingAdded
<1>5. Commits(log \cup {e}, k) = Commits(log, k) /\ Locals(log \cup {e}, k) = Locals(log, k)
  BY CommitsAdded
<1> QED
  BY <1>2, <1>3, <1>4, <1>5 DEF StillDangling

\* A commit is the head of its surface.
LEMMA FreshHead ==
    ASSUME JInv, Up, ~poisoned, NEW e, Fresh(e), e.kind = "commit"
    PROVE  /\ Commits(log \cup {e}, e.key) # {}
           /\ Latest(Commits(log \cup {e}, e.key)) = e
           /\ e.origin = "local" => /\ Locals(log \cup {e}, e.key) # {}
                                    /\ Latest(Locals(log \cup {e}, e.key)) = e
           /\ e.origin # "local" => Locals(log \cup {e}, e.key) = Locals(log, e.key)
           /\ Acks(log \cup {e}, e.key) = Acks(log, e.key)
<1>1. e \in Line /\ (\A f \in log : f.seq < e.seq) /\ Sound(log)
  BY FreshIsSound DEF JInv, Kept
<1>2. /\ Commits(log \cup {e}, e.key) = Commits(log, e.key) \cup {e}
      /\ e.origin = "local" => Locals(log \cup {e}, e.key) = Locals(log, e.key) \cup {e}
      /\ e.origin # "local" => Locals(log \cup {e}, e.key) = Locals(log, e.key)
      /\ Acks(log \cup {e}, e.key) = Acks(log, e.key)
  BY CommitsAdded
<1>3. Commits(log, e.key) \in SUBSET Line /\ Locals(log, e.key) \in SUBSET Line
  BY <1>1, PartsOfLines DEF Sound
<1>4. Latest(Commits(log, e.key) \cup {e}) = e
  <2>1. \A f \in Commits(log, e.key) : f.seq < e.seq
    BY <1>1, PartsOfLines
  <2> QED
    BY <1>1, <1>3, <2>1, LatestAdded
<1>5. Latest(Locals(log, e.key) \cup {e}) = e
  <2>1. \A f \in Locals(log, e.key) : f.seq < e.seq
    BY <1>1, PartsOfLines
  <2> QED
    BY <1>1, <1>3, <2>1, LatestAdded
<1> QED
  BY <1>2, <1>4, <1>5

LEMMA FreshHasLocals ==
    ASSUME JInv, Up, ~poisoned, ~stranded, NEW e, Fresh(e), NEW f \in mem \cup {e}
    PROVE  Locals(log \cup {e}, f.key) # {}
<1>1. CASE f.key = e.key /\ e.kind = "commit" /\ e.origin = "local"
  BY <1>1, FreshHead
<1>2. CASE f = e /\ Locals(mem, e.key) # {}
  <2>1. Sound(mem) /\ Same(log, mem) /\ e.key \in Key
    BY DEF JInv, Kept, Fresh, Follows, Line
  <2>2. Locals(log, e.key) # {}
    <3>1. next \in Nat /\ next # 0 /\ \A g \in mem : g.seq < next
      BY UpIsNumbered
    <3> QED
      BY <1>2, <2>1, <3>1, SameAsks
  <2> QED
    BY <1>2, <2>2 DEF Locals, Commits
<1>3. CASE f \in mem
  <2>1. Locals(log, f.key) # {}
    BY <1>3 DEF JInv, Kept
  <2> QED
    BY <2>1 DEF Locals, Commits
<1> QED
  BY <1>1, <1>2, <1>3 DEF Fresh

\* A commit from the folder says what is in it.
LEMMA FreshIsTrue ==
    ASSUME JInv, Up, ~poisoned, NEW e, Fresh(e), NEW k,
           True(log, k) \/ (e.kind = "commit" /\ e.key = k)
    PROVE  True(log \cup {e}, k)
<1>1. CASE e.kind = "commit" /\ e.key = k
  BY <1>1, FreshHead DEF True, Head, Fresh
<1>2. CASE ~(e.kind = "commit" /\ e.key = k)
  BY <1>2, FreshElsewhere DEF True, Head
<1> QED
  BY <1>1, <1>2

\* No cursor is past a line that is new.
LEMMA FreshIsPastCursors ==
    ASSUME JInv, Up, ~stranded, follower.epoch = epoch
    PROVE  follower.since < next
<1>1. follower.since = 0 \/ \E f \in log : follower.since <= f.seq
  BY DEF JInv, Epochs
<1>2. follower.since \in Nat
  BY DEF JInv, Typed
<1> QED
  BY <1>1, <1>2, UpIsNumbered DEF Line

\* A fresh line is not one a follower lacks.
LEMMA FreshIsNotMissed ==
    ASSUME JInv, Up, ~poisoned, ~stranded, NEW e, Fresh(e), NEW k, Misses(log \cup {e}, k)
    PROVE  Misses(log, k) /\ ~(e.kind = "commit" /\ e.key = k)
<1>1. CASE e.kind = "commit" /\ e.key = k
  <2>1. e.epoch = follower.epoch /\ e.seq <= follower.since
    BY <1>1, FreshHead DEF Misses
  <2>2. follower.since < e.seq
    BY <2>1, FreshIsPastCursors DEF Fresh
  <2>3. follower.since \in Nat /\ e.seq \in Nat
    BY UpIsNumbered DEF JInv, Typed, Fresh
  <2> QED
    BY <2>1, <2>2, <2>3
<1>2. CASE ~(e.kind = "commit" /\ e.key = k)
  BY <1>2, FreshElsewhere DEF Misses, Head
<1> QED
  BY <1>1, <1>2

\* A line leaves owed what was owed.
LEMMA FreshIsOwed ==
    ASSUME JInv, Up, ~poisoned, NEW e, Fresh(e), NEW k \in cast.keys,
           e.kind = "acked" /\ e.key = k => folder[k].l <= peerHas[k] \/ LocalBegins(log, k) # {},
           Commits(log \cup {e}, k) # {}
    PROVE  Owed(log \cup {e}, k)
<1>0. k \in Key /\ e \in Line /\ Sound(log) /\ Sound(log \cup {e}) /\ Sound(mem) /\ Same(log, mem)
  BY FreshIsSound DEF JInv, Kept, Typed
<1>1. e.kind \in {"begin", "commit", "acked"} /\ e.origin \in {"local", "remote"}
  BY <1>0 DEF Line
<1>2. CASE e.kind # "commit" \/ e.key # k
  <2>1. /\ Commits(log \cup {e}, k) = Commits(log, k)
        /\ Locals(log \cup {e}, k) = Locals(log, k)
        /\ Dangling(log, k) \subseteq Dangling(log \cup {e}, k)
    BY <1>2, FreshElsewhere
  <2>2. Owed(log, k)
    BY <2>1 DEF JInv, Debts
  <2>3. CASE e.kind = "acked" /\ e.key = k
    BY <2>1, <2>3 DEF Owed, LocalBegins
  <2>4. CASE ~(e.kind = "acked" /\ e.key = k)
    <3>1. Acks(log \cup {e}, k) = Acks(log, k)
      BY <2>4 DEF Acks
    <3> QED
      BY <2>1, <2>2, <3>1 DEF Owed, LocalBegins, InOutbox, AckedRev
  <2> QED
    BY <2>3, <2>4
<1>3. CASE e.kind = "commit" /\ e.key = k /\ e.origin = "local"
  <2>1. Latest(Locals(log \cup {e}, k)) = e /\ Locals(log \cup {e}, k) # {} /\ Acks(log \cup {e}, k) = Acks(log, k)
    BY <1>3, FreshHead
  <2>2. AckedRev(log \cup {e}, k) = AckedRev(mem, k)
    <3>1. next \in Nat /\ next # 0 /\ \A f \in mem : f.seq < next
      BY UpIsNumbered
    <3>2. AckedRev(log, k) = AckedRev(mem, k)
      BY <1>0, <3>1, SameAsks
    <3> QED
      BY <2>1, <3>2 DEF AckedRev
  <2>3. AckedRev(mem, k) < NextRev(mem, k) /\ AckedRev(mem, k) \in Nat /\ NextRev(mem, k) \in Nat
    BY <1>0, UpIsNumbered, RevsAreBelow
  <2>4. e.rev > AckedRev(mem, k)
    BY <1>3, <2>3 DEF Fresh
  <2> QED
    BY <2>1, <2>2, <2>4 DEF Owed, InOutbox
<1>4. CASE e.kind = "commit" /\ e.key = k /\ e.origin = "remote"
  <2>1. Locals(log \cup {e}, k) = Locals(log, k) /\ Acks(log \cup {e}, k) = Acks(log, k)
    BY <1>4, FreshHead
  <2>2. stranded \/ Locals(mem, k) # {}
    BY <1>4 DEF Fresh
  <2>3. stranded \/ Locals(log, k) # {}
    <3>1. next \in Nat /\ next # 0 /\ \A f \in mem : f.seq < next
      BY UpIsNumbered
    <3> QED
      BY <1>0, <2>2, <3>1, SameAsks
  <2>4. Owed(log, k)
    <3>1. CASE Locals(log, k) # {}
      BY <3>1, PartsOfLines DEF JInv, Debts
    <3>2. CASE Locals(log, k) = {}
      BY <2>3, <3>2 DEF Owed
    <3> QED
      BY <3>1, <3>2
  <2>5. \A f \in log : f.seq < e.seq
    BY FreshIsSound
  <2>6. Dangling(log \cup {e}, k) = {b \in Dangling(log, k) : e.begin # 0 /\ e.begin # b.seq}
    <3>1. Dangling(log \cup {e}, k) = StillDangling(Dangling(log, k), e, k)
      BY <1>0, <2>5, DanglingAdded
    <3> QED
      BY <1>4, <3>1 DEF StillDangling
  <2>7. PICK b \in Dangling(mem, k) : b.seq = e.begin /\ b.origin = "remote"
    BY <1>4 DEF Fresh, Follows
  <2>8. \A c \in LocalBegins(log, k) : c.seq # e.begin
    <3>1. SUFFICES ASSUME NEW c \in LocalBegins(log, k), c.seq = b.seq PROVE FALSE
      BY <2>7
    <3>2. c \in mem /\ b \in mem /\ c.origin = "local"
      BY <1>0 DEF LocalBegins, Dangling, Same
    <3>3. c = b
      BY <1>0, <3>1, <3>2 DEF Sound, LoaderAccepts
    <3> QED
      BY <2>7, <3>2, <3>3
  <2>9. LocalBegins(log \cup {e}, k) = LocalBegins(log, k)
    BY <1>4, <2>6, <2>8 DEF LocalBegins, Fresh
  <2> QED
    BY <2>1, <2>4, <2>9 DEF Owed, InOutbox, AckedRev
<1> QED
  BY <1>1, <1>2, <1>3, <1>4

\* Whatever says the same as the index with the line in it says the same as the file with it.
LEMMA FreshAnyhow ==
    ASSUME JInv, Up, ~poisoned, NEW e, Fresh(e), NEW L, Same(L, mem \cup {e}), NEW k \in Key
    PROVE  /\ Commits(L, k) = {} <=> Commits(log \cup {e}, k) = {}
           /\ Commits(L, k) # {} => Latest(Commits(L, k)) = Latest(Commits(log \cup {e}, k))
           /\ Locals(L, k) = {} <=> Locals(log \cup {e}, k) = {}
           /\ Locals(L, k) # {} => Latest(Locals(L, k)) = Latest(Locals(log \cup {e}, k))
           /\ Dangling(L, k) = Dangling(log \cup {e}, k)
           /\ True(L, k) <=> True(log \cup {e}, k)
           /\ Misses(L, k) <=> Misses(log \cup {e}, k)
           /\ Owed(L, k) <=> Owed(log \cup {e}, k)
<1>1. Same(log \cup {e}, mem \cup {e}) /\ Sound(mem \cup {e})
  BY FreshIsSound
<1>2. next + 1 \in Nat /\ next + 1 # 0 /\ \A f \in mem \cup {e} : f.seq < next + 1
  <2>1. next \in Nat /\ e.seq = next /\ \A f \in mem : f.seq < next
    BY UpIsNumbered DEF Fresh
  <2>2. \A f \in mem : f.seq \in Nat
    BY UpIsNumbered DEF Line
  <2> QED
    BY <2>1, <2>2
<1> DEFINE M == mem \cup {e}
           A == log \cup {e}
           n == next + 1
<1>0. /\ Same(A, M) /\ Sound(M) /\ Same(L, M)
      /\ n \in Nat /\ n # 0 /\ \A f \in M : f.seq < n
  BY <1>1, <1>2
<1> HIDE DEF M, A, n
<1>3. /\ Commits(L, k) = {} <=> Commits(M, k) = {}
      /\ Commits(M, k) # {} => Latest(Commits(L, k)) = Latest(Commits(M, k))
      /\ Locals(L, k) = {} <=> Locals(M, k) = {}
      /\ Locals(M, k) # {} => Latest(Locals(L, k)) = Latest(Locals(M, k))
      /\ InOutbox(L, k) <=> InOutbox(M, k)
      /\ Dangling(L, k) = Dangling(M, k)
  BY <1>0, SameAsks
<1>4. /\ Commits(A, k) = {} <=> Commits(M, k) = {}
      /\ Commits(M, k) # {} => Latest(Commits(A, k)) = Latest(Commits(M, k))
      /\ Locals(A, k) = {} <=> Locals(M, k) = {}
      /\ Locals(M, k) # {} => Latest(Locals(A, k)) = Latest(Locals(M, k))
      /\ InOutbox(A, k) <=> InOutbox(M, k)
      /\ Dangling(A, k) = Dangling(M, k)
  BY <1>0, SameAsks
<1>5. /\ Commits(L, k) = {} <=> Commits(A, k) = {}
      /\ Commits(L, k) # {} => Latest(Commits(L, k)) = Latest(Commits(A, k))
      /\ Locals(L, k) = {} <=> Locals(A, k) = {}
      /\ Locals(L, k) # {} => Latest(Locals(L, k)) = Latest(Locals(A, k))
      /\ Dangling(L, k) = Dangling(A, k)
      /\ InOutbox(L, k) <=> InOutbox(A, k)
  BY <1>3, <1>4
<1>6. True(L, k) <=> True(A, k)
  BY <1>5 DEF True, Head
<1>7. Misses(L, k) <=> Misses(A, k)
  BY <1>5 DEF Misses, Head
<1>8. Owed(L, k) <=> Owed(A, k)
  BY <1>5 DEF Owed, LocalBegins
<1> QED
  BY <1>5, <1>6, <1>7, <1>8 DEF A

-----------------------------------------------------------------------------
(* What an append leaves of the invariant, where it succeeds and where it breaks *)

\* What an append leaves alone.
StillStands ==
    /\ UNCHANGED <<stranded, dirty, folder, peerHas, follower, rots, cast>>
    /\ meta'.state = meta.state /\ meta'.epoch = meta.epoch

\* After the append of e: the line is down and absorbed, the file being compacted or
\* not; or it may be down and the journal is poisoned, or the open failed.
LineDown(e) ==
    /\ Same(log', mem \cup {e}) /\ Same(mem', mem \cup {e}) /\ Same(log', mem') /\ next' = next + 1
    /\ UNCHANGED <<torn, rotten, phase, epoch, poisoned, before>>
    /\ unsure => unsure'

LineLost(e) ==
    /\ log' = log \/ Same(log', mem \cup {e})
    /\ torn' \in BOOLEAN /\ rotten' = rotten
    /\ \/ /\ mem' = mem /\ next' = next + 1 /\ poisoned' = TRUE
          /\ phase = "open" /\ UNCHANGED <<phase, epoch, before, unsure, todo>>
       \/ phase' = "down" /\ Forgotten

Goes(e) == LineDown(e) \/ LineLost(e)

LEMMA GoesEither ==
    ASSUME NEW e, Goes(e)
    PROVE  /\ log' = log \/ Same(log', mem \cup {e})
           /\ rotten' = rotten
           /\ \/ phase' = phase /\ epoch' = epoch /\ before' = before /\ (unsure => unsure')
              \/ phase' = "down" /\ mem' = {}
           /\ mem' \subseteq mem \cup {e}
BY DEF Goes, LineDown, LineLost, Forgotten, Same

LEMMA AppendGoes ==
    ASSUME JInv, Up, ~poisoned, NEW e
    PROVE  /\ Append(e) => rotten' = rotten /\ torn' = torn /\ log' = log \cup {e} /\ next' = next + 1
           /\ AppendBreaks(e) => rotten' = rotten /\ torn' \in BOOLEAN /\ log' \in {log, log \cup {e}}
BY DEF JInv, Kept, Typed, Up, Append, AppendBreaks

LEMMA BrokenOpenGoes ==
    ASSUME JInv, Up, ~poisoned, NEW e, Fresh(e), OpenBreaks(e)
    PROVE  Goes(e) /\ StillStands /\ phase' = "down" /\ Forgotten /\ UNCHANGED <<push, bracket, made>>
<1>1. Same(log \cup {e}, mem \cup {e})
  BY FreshIsSound
<1>2. rotten' = rotten /\ torn' \in BOOLEAN /\ log' \in {log, log \cup {e}}
  BY AppendGoes DEF OpenBreaks
<1>3. LineLost(e)
  BY <1>1, <1>2 DEF OpenBreaks, LineLost
<1> QED
  BY <1>3 DEF OpenBreaks, Goes, StillStands, others

\* File and index after an append, whole or broken.
LEMMA KeptAfter ==
    ASSUME JInv, Up, ~poisoned, NEW e, Fresh(e), Goes(e), StillStands
    PROVE  Kept'
<1>1. /\ Sound(mem \cup {e}) /\ \A f \in mem \cup {e} : f.key \in Key
      /\ ~stranded => \A f \in mem \cup {e} : Locals(log \cup {e}, f.key) # {}
  BY FreshIsSound, FreshHasLocals DEF Sound, Line
<1>2. /\ Sound(mem) /\ Sound(log) /\ Bounded(log) /\ log \subseteq mem
      /\ ~torn /\ ~rotten /\ (~stranded => \A f \in log \cup mem : Locals(log, f.key) # {})
      /\ (stranded => rots > 0) /\ phase # "aside"
  BY DEF JInv, Kept, Up, Same
<1>3. next \in Nat /\ (\A f \in mem \cup {e} : f.seq \in Nat /\ f.seq < next + 1)
  BY UpIsNumbered DEF Fresh, Line
<1>4. mem' \subseteq mem \cup {e} /\ log' \subseteq mem \cup {e}
  BY <1>2, GoesEither DEF Same
<1>5. Sound(log') /\ Sound(mem') /\ Bounded(log')
  <2>1. \A f \in log' : f.seq <= next + 1
    BY <1>3, <1>4
  <2> QED
    BY <1>1, <1>3, <1>4, <2>1, SoundPart DEF Bounded
<1>6. ASSUME ~stranded PROVE \A f \in log' \cup mem' : Locals(log', f.key) # {}
  <2>1. CASE Same(log', mem \cup {e})
    BY <1>1, <1>4, <1>6, <2>1, FreshAnyhow
  <2>2. CASE log' = log /\ mem' \subseteq mem
    BY <1>2, <1>6, <2>2
  <2> QED
    BY <2>1, <2>2, <1>2 DEF Goes, LineDown, LineLost, Forgotten
<1>7. /\ (Sound(log) /\ Sound(mem) /\ Bounded(log))'
      /\ ~stranded' => \A f \in log' \cup mem' : Locals(log, f.key)' # {}
      /\ stranded' => rots' > 0
      /\ phase' # "aside"
  <2>1. cast' = cast /\ stranded' = stranded /\ rots' = rots
    BY DEF StillStands
  <2>2. \A f : Locals(log', f.key) = Locals(log, f.key)'
    BY DEF Locals, Commits
  <2>3. phase' # "aside"
    BY <1>2, GoesEither
  <2> QED
    BY <1>2, <1>5, <1>6, <2>1, <2>2, <2>3 DEF Sound, Fit, Bounded
<1>8. CASE LineDown(e)
  <2>1. \A f \in log' \cup mem' : f.seq < next'
    BY <1>3, <1>4, <1>8 DEF LineDown
  <2>2. Same(log, mem)'
    BY <1>8 DEF LineDown, Same
  <2>3. Up' /\ poisoned' = poisoned /\ rotten' = FALSE /\ torn' = FALSE
    BY <1>2, <1>8 DEF LineDown, Up, JInv, Typed
  <2> QED
    BY <1>7, <2>1, <2>2, <2>3 DEF Kept
<1>9. CASE LineLost(e) /\ poisoned' = TRUE /\ phase' = "open" /\ mem' = mem /\ next' = next + 1
  <2>1. \A f \in log' \cup mem' : f.seq < next'
    BY <1>3, <1>4, <1>9 DEF LineLost
  <2>2. rotten' = FALSE
    BY <1>2, <1>9 DEF LineLost, JInv, Typed
  <2> QED
    BY <1>7, <1>9, <2>1, <2>2 DEF Kept, Up
<1>10. CASE LineLost(e) /\ phase' = "down" /\ Forgotten
  <2>1. rotten' = FALSE
    BY <1>2, <1>10 DEF LineLost, JInv, Typed
  <2> QED
    BY <1>7, <1>10, <2>1 DEF Kept, Up, Forgotten
<1> QED
  BY <1>8, <1>9, <1>10 DEF Goes, LineLost

\* The epoch under way is one that was given.
LEMMA EpochIsGiven ==
    ASSUME JInv, Up
    PROVE  epoch <= rots + 1 /\ epoch = Coming /\ rotten = FALSE
<1>1. epoch = Coming /\ rotten = FALSE /\ rots \in Nat
  BY DEF JInv, Epochs, Kept, Up, Typed
<1>2. log # {} => Latest(log) \in log
  BY UpIsNumbered, LatestIs
<1> QED
  BY <1>1, <1>2 DEF Coming, JInv, Epochs

\* The epochs after an append.
LEMMA EpochsAfter ==
    ASSUME JInv, Up, ~poisoned, NEW e, Fresh(e), Goes(e), StillStands
    PROVE  Epochs'
<1>1. epoch <= rots + 1 /\ epoch = Coming /\ rotten = FALSE /\ rotten' = FALSE /\ e.epoch = epoch
  BY EpochIsGiven, GoesEither DEF Fresh
<1>2. \A f \in mem \cup {e} : f.epoch = epoch
  BY <1>1 DEF JInv, Epochs
<1>3. log' = log \/ (log' \subseteq mem \cup {e} /\ Same(log', mem \cup {e}))
  BY GoesEither DEF Same
<1>4. next \in Nat /\ mem \cup {e} \in SUBSET Line /\ log \in SUBSET Line
      /\ Sound(mem \cup {e}) /\ \A f \in mem \cup {e} : f.seq <= next
  <2>1. next \in Nat /\ mem \in SUBSET Line /\ log \in SUBSET Line /\ \A f \in mem : f.seq <= next
    BY UpIsNumbered
  <2>2. e \in Line /\ e.seq = next /\ Sound(mem \cup {e})
    BY FreshIsSound DEF Fresh
  <2> QED
    BY <2>1, <2>2
<1>5. Same(log', mem \cup {e}) => \E f \in log' : next <= f.seq
  BY <1>4, SameReaches DEF Fresh
<1>6. /\ meta'.state = meta.state /\ meta'.epoch = meta.epoch /\ rots' = rots /\ follower' = follower
      /\ stranded' = stranded /\ phase' # "aside"
  BY GoesEither DEF StillStands, Up
<1>7. Coming' = epoch
  <2>1. Named' <=> Named
    BY <1>6 DEF Named
  <2>2. CASE Named
    BY <1>1, <1>6, <2>1, <2>2 DEF Coming
  <2>3. CASE ~Named /\ log' = log
    BY <1>1, <1>6, <2>1, <2>3 DEF Coming
  <2>4. CASE ~Named /\ log' \subseteq mem \cup {e} /\ Same(log', mem \cup {e})
    <3>1. log' # {} /\ log' \in SUBSET Line /\ \A f \in log' : f.seq <= next
      BY <1>4, <1>5, <2>4
    <3>2. Latest(log') \in log'
      BY <1>4, <3>1, LatestIs
    <3>3. Coming' = Latest(log').epoch
      BY <1>1, <2>1, <2>4, <3>1 DEF Coming
    <3> QED
      BY <1>2, <2>4, <3>2, <3>3
  <2> QED
    BY <1>3, <2>2, <2>3, <2>4
<1>8. Up' => epoch' = epoch
  BY GoesEither DEF Up
<1>9. Named' => \A f \in log' : f.epoch = meta'.epoch
  <2>1. Named => epoch = meta.epoch
    BY <1>1 DEF Coming
  <2> QED
    BY <1>2, <1>3, <1>6, <2>1 DEF Named, JInv, Epochs
<1>10. \A f \in log' : f.epoch <= rots' + 1
  BY <1>1, <1>2, <1>3, <1>6 DEF JInv, Epochs
<1>11. /\ Named' => meta'.epoch <= rots' + 1
       /\ follower'.epoch <= rots' + 1
       /\ rotten' \/ phase' = "aside" \/ (~Named' /\ log' = {}) => follower'.epoch <= rots'
  BY <1>1, <1>3, <1>5, <1>6 DEF JInv, Epochs, Named
<1>12. ~stranded' /\ follower'.epoch = Coming' =>
          follower'.since = 0 \/ \E f \in log' : follower'.since <= f.seq
  <2>1. SUFFICES ASSUME ~stranded, follower.epoch = epoch
                 PROVE follower.since = 0 \/ \E f \in log' : follower.since <= f.seq
    BY <1>6, <1>7
  <2>2. follower.since < next /\ follower.since \in Nat
    BY <2>1, FreshIsPastCursors DEF JInv, Typed
  <2>3. CASE log' = log
    BY <1>1, <2>1, <2>3 DEF JInv, Epochs
  <2>4. CASE Same(log', mem \cup {e}) /\ log' \subseteq mem \cup {e}
    <3>1. PICK f \in log' : next <= f.seq
      BY <1>5, <2>4
    <3>2. f.seq \in Nat
      BY <1>4, <2>4 DEF Line
    <3> QED
      BY <1>4, <2>2, <3>1, <3>2
  <2> QED
    BY <1>3, <2>3, <2>4
<1> QED
  BY <1>2, <1>7, <1>8, <1>9, <1>10, <1>11, <1>12, GoesEither DEF Epochs

\* How the head, the begins and the rest of a surface come through.
LEMMA SaysAfter ==
    ASSUME JInv, Up, ~poisoned, NEW e, Fresh(e), Goes(e), NEW k \in cast.keys
    PROVE  /\ k \in Key
           /\ \/ log' = log
              \/ /\ Same(log', mem \cup {e})
                 /\ True(log', k) <=> True(log \cup {e}, k)
                 /\ Misses(log', k) <=> Misses(log \cup {e}, k)
                 /\ Owed(log', k) <=> Owed(log \cup {e}, k)
                 /\ Dangling(log', k) = Dangling(log \cup {e}, k)
                 /\ Commits(log', k) = {} <=> Commits(log \cup {e}, k) = {}
                 /\ Commits(log', k) # {} => Head(log', k) = Head(log \cup {e}, k)
<1>1. k \in Key
  BY DEF JInv, Typed
<1>2. CASE log' = log
  BY <1>1, <1>2
<1>3. CASE Same(log', mem \cup {e})
  BY <1>1, <1>3, FreshAnyhow DEF Head
<1> QED
  BY <1>2, <1>3, GoesEither

\* What is owed after an append.
LEMMA DebtsAfter ==
    ASSUME JInv, Up, ~poisoned, NEW e, Fresh(e), Goes(e), StillStands,
           e.kind = "acked" => folder[e.key].l <= peerHas[e.key] \/ LocalBegins(log, e.key) # {}
    PROVE  Debts'
<1>1. ASSUME NEW k \in cast.keys, Commits(log', k) # {} PROVE Owed(log', k)
  <2>1. CASE log' = log
    BY <1>1, <2>1 DEF JInv, Debts
  <2>2. CASE log' # log
    BY <1>1, <2>2, FreshIsOwed, SaysAfter
  <2> QED
    BY <2>1, <2>2
<1>2. folder' = folder /\ peerHas' = peerHas /\ cast' = cast /\ stranded' = stranded
  BY DEF StillStands
<1> QED
  BY <1>1, <1>2 DEF Debts, Owed

\* The line is down, and answers for surface k.
AnswersFor(e, k) == Same(log', mem \cup {e}) /\ e.kind = "commit" /\ e.key = k

\* What is missed was missed before, and is no commit's.
LEMMA FollowedAfter ==
    ASSUME JInv, Up, ~poisoned, NEW e, Fresh(e), Goes(e), StillStands,
           \A k \in todo : k \in todo' \/ phase' = "down" \/ AnswersFor(e, k)
    PROVE  Followed'
<1>0. SUFFICES ASSUME ~stranded' PROVE \A k \in cast'.keys : Misses(log, k)' => Doubtful(k)'
  BY DEF Followed
<1>1. folder' = folder /\ follower' = follower /\ cast' = cast /\ dirty' = dirty /\ ~stranded
  BY <1>0 DEF StillStands
<1>2. ASSUME NEW k \in cast.keys, Misses(log', k)
      PROVE /\ Misses(log, k) /\ ~AnswersFor(e, k)
            /\ Head(log', k) = Head(log, k) /\ Dangling(log, k) \subseteq Dangling(log', k)
  <2>1. CASE Same(log', mem \cup {e})
    <3>1. /\ Misses(log \cup {e}, k) /\ k \in Key /\ Dangling(log', k) = Dangling(log \cup {e}, k)
          /\ Commits(log', k) # {} => Head(log', k) = Head(log \cup {e}, k)
      BY <1>2, <2>1, FreshAnyhow DEF JInv, Typed, Head
    <3>2. Misses(log, k) /\ ~(e.kind = "commit" /\ e.key = k)
      BY <1>1, <3>1, FreshIsNotMissed
    <3>3. Commits(log \cup {e}, k) = Commits(log, k) /\ Dangling(log, k) \subseteq Dangling(log \cup {e}, k)
      BY <3>2, FreshElsewhere
    <3>4. Head(log \cup {e}, k) = Head(log, k) /\ Commits(log', k) # {}
      BY <1>2, <3>3 DEF Head, Misses
    <3> QED
      BY <3>1, <3>2, <3>3, <3>4 DEF AnswersFor
  <2>2. CASE log' = log /\ ~Same(log', mem \cup {e})
    BY <1>2, <2>2 DEF AnswersFor
  <2> QED
    BY <2>1, <2>2, GoesEither
<1>3. ASSUME NEW k \in cast.keys, Misses(log', k) PROVE Doubtful(k)'
  <2>1. Doubtful(k)
    BY <1>1, <1>2, <1>3 DEF JInv, Followed
  <2>2. Head(log', k) = Head(log, k) /\ Dangling(log, k) \subseteq Dangling(log', k)
    BY <1>2, <1>3
  <2>3. dirty' /\ (Head(log', k) # folder'[k] \/ Dangling(log', k) # {})
    BY <1>1, <2>1, <2>2 DEF Doubtful
  <2>4. CASE phase' = "down"
    BY <2>3, <2>4 DEF Doubtful, Up, Head
  <2>5. CASE phase' = phase /\ (unsure => unsure') /\ phase' # "down"
    <3>1. unsure \/ k \in todo \/ (phase \in {"build", "recover"} /\ Dangling(log, k) # {}) \/ ~Up
      BY <2>1 DEF Doubtful
    <3>2. unsure' \/ k \in todo' \/ (phase' \in {"build", "recover"} /\ Dangling(log', k) # {})
      BY <1>2, <1>3, <2>2, <2>5, <3>1
    <3> QED
      BY <2>3, <3>2 DEF Doubtful, Head
  <2> QED
    BY <2>4, <2>5, GoesEither
<1> QED
  BY <1>1, <1>3 DEF Misses, Head

\* What a power cut would undo, after an append.
LEMMA RevertsAfter ==
    ASSUME JInv, Up, ~poisoned, NEW e, Fresh(e), Goes(e), StillStands
    PROVE  Reverts' /\ Covering'
<1>1. folder' = folder /\ cast' = cast
  BY DEF StillStands
<1>2. ASSUME phase' = "open", NEW k \in cast.keys, Dangling(log', k) = {}
      PROVE before'[k] = folder[k] \/ True(log', k)
  <2>1. phase = "open" /\ before' = before
    BY <1>2, GoesEither
  <2>2. CASE log' = log
    BY <1>2, <2>1, <2>2 DEF JInv, Reverts
  <2>3. CASE log' # log /\ e.kind = "commit" /\ e.key = k
    BY <2>3, FreshIsTrue, SaysAfter
  <2>4. CASE log' # log /\ ~(e.kind = "commit" /\ e.key = k)
    <3>1. Dangling(log, k) = {}
      BY <1>2, <2>4, FreshElsewhere, SaysAfter
    <3>2. before[k] = folder[k] \/ True(log, k)
      BY <2>1, <3>1 DEF JInv, Reverts
    <3> QED
      BY <2>1, <2>4, <3>2, FreshIsTrue, SaysAfter
  <2> QED
    BY <2>2, <2>3, <2>4
<1>3. ASSUME phase' = "open", ~unsure', NEW k \in cast.keys, Commits(log', k) # {}
      PROVE Covers(folder[k], Head(log', k))
  <2>1. phase = "open" /\ ~unsure
    BY <1>3, GoesEither
  <2>2. Commits(log, k) # {} => Covers(folder[k], Head(log, k))
    BY <2>1 DEF JInv, Covering
  <2>3. CASE log' # log /\ e.kind = "commit" /\ e.key = k
    <3>1. Head(log', k) \in {folder[k], NoDigest}
      <4>1. Commits(log \cup {e}, k) # {} /\ Head(log \cup {e}, k) = e.digest
        BY <2>3, FreshHead DEF Head
      <4>2. Head(log', k) = e.digest
        BY <2>3, <4>1, SaysAfter
      <4> QED
        BY <2>3, <4>2 DEF Fresh
    <3>2. folder[k] \in Held
      BY SaysAfter DEF JInv, Typed
    <3> QED
      BY <3>1, <3>2 DEF Covers, NoDigest, Held
  <2>4. CASE log' # log /\ ~(e.kind = "commit" /\ e.key = k)
    <3>1. Commits(log \cup {e}, k) = Commits(log, k)
      BY <2>4, FreshElsewhere
    <3>2. Head(log', k) = Head(log, k) /\ Commits(log, k) # {}
      BY <1>3, <2>4, <3>1, SaysAfter DEF Head
    <3> QED
      BY <2>2, <3>2
  <2>5. CASE log' = log
    BY <1>3, <2>2, <2>5
  <2> QED
    BY <2>3, <2>4, <2>5
<1>4. \A k : True(log', k) => True(log, k)'
  BY <1>1 DEF True, Head
<1> QED
  BY <1>1, <1>2, <1>3, <1>4 DEF Reverts, Covering, Head, Commits

\* Of what is certain, the part that holds while the journal opens and runs.
LEMMA TruthsAfter ==
    ASSUME JInv, Up, ~poisoned, NEW e, Fresh(e), Goes(e), StillStands,
           \A k \in todo : k \in todo' \/ phase' = "down" \/ AnswersFor(e, k)
    PROVE  /\ ~dirty' => \A k \in cast'.keys : True(log, k)'
           /\ Up' /\ ~unsure' => \A k \in cast'.keys \ todo' : Dangling(mem', k) = {} => True(log, k)'
<1>1. folder' = folder /\ cast' = cast /\ dirty' = dirty
  BY DEF StillStands
<1>2. \A k : True(log', k) => True(log, k)'
  BY <1>1 DEF True, Head
<1>3. ASSUME NEW k \in cast.keys, True(log, k) \/ AnswersFor(e, k) PROVE True(log', k)
  <2>1. CASE Same(log', mem \cup {e})
    <3>1. True(log \cup {e}, k)
      BY <1>3, FreshIsTrue DEF AnswersFor
    <3>2. k \in Key
      BY DEF JInv, Typed
    <3> QED
      BY <2>1, <3>1, <3>2, FreshAnyhow
  <2>2. CASE log' = log /\ ~Same(log', mem \cup {e})
    BY <1>3, <2>2 DEF AnswersFor
  <2> QED
    BY <2>1, <2>2, GoesEither
<1>4. ASSUME ~dirty', NEW k \in cast.keys PROVE True(log, k)
  BY <1>1, <1>4 DEF JInv, Certain
<1>5. ASSUME Up', ~unsure', NEW k \in cast.keys \ todo', Dangling(mem', k) = {} PROVE True(log', k)
  <2>1. ~unsure /\ phase' # "down" /\ k \in Key
    BY <1>5, GoesEither DEF Up, JInv, Typed
  <2>2. CASE AnswersFor(e, k)
    BY <1>3, <2>2
  <2>3. CASE ~AnswersFor(e, k)
    <3>1. k \notin todo
      BY <1>5, <2>1, <2>3
    <3>2. mem' = mem \/ (Same(mem', mem \cup {e}) /\ Same(log', mem \cup {e}))
      BY <2>1 DEF Goes, LineDown, LineLost
    <3>3. Dangling(mem, k) = {}
      <4>1. CASE mem' = mem
        BY <1>5, <4>1
      <4>2. CASE Same(mem', mem \cup {e}) /\ Same(log', mem \cup {e})
        <5>1. Dangling(mem, k) \subseteq Dangling(mem \cup {e}, k)
          BY <2>3, <4>2, FreshElsewhere DEF AnswersFor
        <5>2. Dangling(mem', k) = Dangling(mem \cup {e}, k)
          BY <2>1, <4>2 DEF Same
        <5> QED
          BY <1>5, <5>1, <5>2
      <4> QED
        BY <3>2, <4>1, <4>2
    <3>4. True(log, k)
      BY <2>1, <3>1, <3>3 DEF JInv, Certain
    <3> QED
      BY <1>3, <3>4
  <2> QED
    BY <2>2, <2>3
<1> QED
  BY <1>1, <1>2, <1>3, <1>4, <1>5

\* A bracket keeps its begin, unless the line is a commit of its surface.
LEMMA BracketsAfter ==
    ASSUME JInv, Up, ~poisoned, NEW e, Fresh(e), Goes(e), StillStands,
           NEW k \in Key, bracket'[k] = bracket[k], bracket[k] # Idle, ~(e.kind = "commit" /\ e.key = k),
           phase' = phase
    PROVE  /\ k \in cast'.keys /\ phase' \in {"open", "closed"} /\ dirty'
           /\ BracketOf(log, k)' # {}
           /\ phase' = "open" => BracketOf(mem, k)' # {} /\ bracket'[k].bound
<1>1. cast' = cast /\ dirty' = dirty /\ k \in cast.keys
  BY DEF StillStands, JInv, Brackets
<1>2. Dangling(log, k) \subseteq Dangling(log', k)
  BY <1>1, SaysAfter, FreshElsewhere
<1>3. Dangling(mem, k) \subseteq Dangling(mem', k)
  <2>1. phase = "open"
    BY DEF Up, JInv, Brackets
  <2>2. mem' = mem \/ Same(mem', mem \cup {e})
    BY <2>1 DEF Goes, LineDown, LineLost
  <2>3. Dangling(mem, k) \subseteq Dangling(mem \cup {e}, k)
    BY FreshElsewhere
  <2> QED
    BY <2>2, <2>3 DEF Same
<1>4. BracketOf(log, k) # {} /\ (phase = "open" => BracketOf(mem, k) # {})
  BY DEF JInv, Brackets
<1> QED
  BY <1>1, <1>2, <1>3, <1>4 DEF BracketOf, JInv, Brackets

\* The stages after an append.
LEMMA StagesAfter ==
    ASSUME JInv, Up, ~poisoned, NEW e, Fresh(e), Goes(e), StillStands,
           todo' \subseteq todo, phase' # "open" => push' = NoPush
    PROVE  Stages'
<1>1. folder' = folder /\ cast' = cast /\ dirty' = dirty /\ meta'.state = meta.state /\ stranded' = stranded
  BY DEF StillStands
<1>2. ASSUME NEW k \in cast.keys, Commits(log, k) # {} PROVE Commits(log', k) # {}
  <2>1. Commits(log \cup {e}, k) # {}
    BY <1>2 DEF Commits
  <2> QED
    BY <1>2, <2>1, SaysAfter
<1>3. meta'.state = "ready" /\ ~stranded' => \A k \in cast'.keys : Commits(log', k) # {}
  BY <1>1, <1>2 DEF JInv, Stages
<1>4. phase' = phase \/ phase' = "down"
  BY GoesEither
<1> QED
  BY <1>1, <1>3, <1>4, GoesEither DEF JInv, Stages

-----------------------------------------------------------------------------
(* The lines that are appended *)

\* Every commit the journal makes is a fresh line.
LEMMA CommitIsFresh ==
    ASSUME JInv, Up, ~poisoned, NEW k \in cast.keys, NEW b \in Nat, NEW o \in {"local", "remote"},
           NEW d \in {folder[k], NoDigest},
           (b = 0 /\ o = "local") \/ \E g \in Dangling(mem, k) : g.seq = b /\ g.origin = o
    PROVE  Fresh(CommitLine(k, NextRev(mem, k), b, o, d))
<1>0. /\ k \in Key /\ Sound(mem) /\ Sound(log) /\ mem \in SUBSET Line /\ log \subseteq mem
      /\ next \in Nat /\ next # 0 /\ epoch \in Nat /\ \A f \in mem : f.seq < next
      /\ \A f \in mem : f.epoch = epoch
  BY UpIsNumbered DEF JInv, Typed, Kept, Epochs, Same
<1>1. /\ NextRev(mem, k) \in Nat /\ NextRev(mem, k) <= next /\ LastRev(mem, k) \in Nat
      /\ LastRev(mem, k) < NextRev(mem, k)
      /\ \A f \in Commits(mem, k) : f.rev <= LastRev(mem, k)
  BY <1>0, RevsAreBelow
<1>2. PICK e : e = CommitLine(k, NextRev(mem, k), b, o, d)
  OBVIOUS
<1>3. /\ e.seq = next /\ e.kind = "commit" /\ e.key = k /\ e.epoch = epoch /\ e.rev = NextRev(mem, k)
      /\ e.begin = b /\ e.origin = o /\ e.digest = d
  BY <1>2 DEF CommitLine
<1>4. d \in [l : Int, r : Int]
  BY <1>0 DEF JInv, Typed, Held, NoDigest
<1>5. e \in Line
  BY <1>0, <1>1, <1>2, <1>4 DEF CommitLine, Line
<1>6. b < next
  <2>1. CASE b = 0
    BY <1>0, <2>1
  <2>2. CASE \E g \in Dangling(mem, k) : g.seq = b
    BY <1>0, <2>2, PartsOfLines
  <2> QED
    BY <2>1, <2>2
<1>7. Fit(e)
  BY <1>1, <1>3, <1>6 DEF Fit
<1>8. \A f \in mem : f.key = k /\ f.kind = "commit" => f.rev < e.rev
  <2>1. SUFFICES ASSUME NEW f \in mem, f.key = k, f.kind = "commit" PROVE f.rev < e.rev
    OBVIOUS
  <2>2. f \in Commits(mem, k) /\ f.rev \in Nat
    BY <1>0, <2>1 DEF Commits, Line
  <2> QED
    BY <1>1, <1>3, <2>2
<1>9. Follows(e, mem)
  BY <1>0, <1>3, <1>5, <1>7, <1>8 DEF Follows
<1>10. o = "remote" => b # 0 /\ (stranded \/ Locals(mem, k) # {})
  <2>1. SUFFICES ASSUME o = "remote" PROVE b # 0 /\ (stranded \/ Locals(mem, k) # {})
    OBVIOUS
  <2>2. PICK g \in Dangling(mem, k) : g.seq = b
    BY <2>1
  <2>3. g \in mem /\ g.key = k
    BY DEF Dangling
  <2>4. stranded \/ Locals(log, k) # {}
    BY <2>3 DEF JInv, Kept
  <2> QED
    BY <1>0, <2>2, <2>3, <2>4 DEF Line, Locals, Commits
<1>11. Fresh(e)
  BY <1>3, <1>9, <1>10 DEF Fresh
<1> QED
  BY <1>2, <1>11

\* Every surface of an open journal has a local commit, or a rebuild was cut off.
LEMMA OpenHasCommits ==
    ASSUME JInv, Up, ~poisoned, meta.state = "ready", NEW k \in cast.keys
    PROVE  /\ stranded \/ (Commits(mem, k) # {} /\ Locals(mem, k) # {})
           /\ Commits(mem, k) # {} =>
                 Commits(log, k) # {} /\ Latest(Commits(mem, k)) = Latest(Commits(log, k))
           /\ Locals(mem, k) # {} => Latest(Locals(mem, k)) \in Locals(mem, k)
<1>1. k \in Key /\ Same(log, mem) /\ Sound(mem) /\ (stranded \/ Commits(log, k) # {})
  BY DEF JInv, Typed, Kept, Stages
<1>2. next \in Nat /\ next # 0 /\ \A f \in mem : f.seq < next /\ f.seq <= next
  BY UpIsNumbered
<1>3. /\ Commits(mem, k) = {} <=> Commits(log, k) = {}
      /\ Commits(mem, k) # {} => Latest(Commits(mem, k)) = Latest(Commits(log, k))
  BY <1>1, <1>2, SameAsks
<1>4. stranded \/ Locals(log, k) # {}
  BY <1>1 DEF JInv, Kept, Commits
<1>5. stranded \/ Locals(mem, k) # {}
  BY <1>1, <1>2, <1>4, SameAsks
<1>6. Locals(mem, k) \in SUBSET Line /\ \A f \in Locals(mem, k) : f.seq <= next
  BY <1>1, <1>2, PartsOfLines DEF Sound
<1> QED
  BY <1>1, <1>2, <1>3, <1>5, <1>6, LatestIs

\* Every begin is a fresh line.
LEMMA BeginIsFresh ==
    ASSUME JInv, Up, ~poisoned, meta.state = "ready", NEW k \in cast.keys, NEW o \in {"local", "remote"}
    PROVE  Fresh(BeginLine(k, o))
<1>0. /\ k \in Key /\ next \in Nat /\ next # 0 /\ epoch \in Nat /\ \A f \in mem : f.seq < next
      /\ \A f \in mem : f.epoch = epoch
  BY UpIsNumbered DEF JInv, Typed, Epochs
<1>1. PICK e : e = BeginLine(k, o)
  OBVIOUS
<1>2. /\ e.seq = next /\ e.kind = "begin" /\ e.key = k /\ e.epoch = epoch /\ e.rev = 0
      /\ e.begin = 0 /\ e \in Line
  BY <1>0, <1>1 DEF BeginLine, Line, NoDigest
<1>3. Follows(e, mem)
  BY <1>0, <1>2 DEF Follows, Fit
<1> QED
  BY <1>1, <1>2, <1>3, OpenHasCommits DEF Fresh

\* Every acknowledgement is a fresh line.
LEMMA AckIsFresh ==
    ASSUME JInv, Up, ~poisoned, meta.state = "ready", NEW k \in cast.keys,
           Locals(mem, k) # {}, NEW r, r = Latest(Locals(mem, k)).rev, AckedRev(mem, k) < r
    PROVE  Fresh(AckedLine(k, r))
<1>0. /\ k \in Key /\ next \in Nat /\ next # 0 /\ epoch \in Nat /\ \A f \in mem : f.seq < next
      /\ \A f \in mem : f.epoch = epoch /\ f \in Line
      /\ Sound(mem)
  BY UpIsNumbered DEF JInv, Typed, Epochs, Kept
<1>1. PICK g \in mem : r = g.rev
  BY OpenHasCommits, PartsOfLines
<1>2. r \in Nat /\ r <= next
  BY <1>0, <1>1 DEF Sound, Fit, Line
<1>3. PICK e : e = AckedLine(k, r)
  OBVIOUS
<1>4. /\ e.seq = next /\ e.kind = "acked" /\ e.key = k /\ e.epoch = epoch /\ e.rev = r
      /\ e.begin = 0 /\ e \in Line
  BY <1>0, <1>2, <1>3 DEF AckedLine, Line, NoDigest
<1>5. AckedRev(mem, k) \in Nat /\ \A f \in Acks(mem, k) : f.rev <= AckedRev(mem, k)
  BY <1>0, RevsAreBelow
<1>6. \A f \in mem : f.key = k /\ f.kind = "acked" => f.rev < r
  <2>1. SUFFICES ASSUME NEW f \in mem, f.key = k, f.kind = "acked" PROVE f.rev < r
    OBVIOUS
  <2>2. f \in Acks(mem, k) /\ f.rev \in Nat
    BY <1>0, <2>1 DEF Acks, Line
  <2> QED
    BY <1>2, <1>5, <2>2
<1>7. Follows(e, mem)
  BY <1>0, <1>2, <1>4, <1>6 DEF Follows, Fit
<1> QED
  BY <1>3, <1>4, <1>7, OpenHasCommits DEF Fresh

-----------------------------------------------------------------------------
(* Each step keeps the invariant *)

\* A device with a shelf and no journal.
LEMMA JournalStarts == ASSUME JournalInit PROVE JInv
<1>1. cast \in Casts /\ cast.keys \subseteq Key
  BY JournalAssumption DEF JournalInit
<1>2. log = {} /\ mem = {} /\ Sound({}) /\ Bounded({})
  BY DEF JournalInit, Sound, Bounded, LoaderAccepts
<1>3. \A k : Commits(log, k) = {}
  BY <1>2 DEF Commits
<1>4. Typed
  <2>1. /\ folder \in [Key -> Held] /\ before \in [Key -> Held] /\ made \in [Key -> Held]
        /\ follower \in [epoch : Nat, since : Nat, got : [Key -> Held]]
    BY DEF JournalInit, Nothing, Held
  <2>2. meta \in [epoch : Nat, nextSeq : Nat \ {0}, state : {"none", "building", "ready", "rotten"}]
    BY DEF JournalInit, NoMeta
  <2>3. /\ bracket \in [Key -> {Idle} \cup [stage : {"begun", "written"}, seq : Nat,
                                           origin : {"local", "remote"}, bound : BOOLEAN]]
        /\ push \in {NoPush} \cup [stage : {"offered", "answered"}, key : cast.keys, rev : Nat]
    BY DEF JournalInit
  <2>5. {torn, rotten, stranded, dirty, poisoned, unsure} \subseteq BOOLEAN
    BY DEF JournalInit
  <2>4. /\ phase \in {"down", "aside", "build", "recover", "open", "closed"}
        /\ next \in Nat \ {0} /\ epoch \in Nat
        /\ todo \subseteq cast.keys
        /\ peerHas \in [Key -> Nat]
        /\ faults \in Nat /\ rots \in Nat
    BY DEF JournalInit
  <2> QED
    BY <1>1, <2>1, <2>2, <2>3, <2>4, <2>5 DEF Typed
<1>5. Made /\ Kept /\ Stages
  BY <1>2 DEF JournalInit, Made, Kept, Stages, Nothing, NoMeta, Up
<1>6. Epochs
  BY <1>2 DEF JournalInit, Epochs, Coming, Named, Up, NoMeta
<1>7. Brackets /\ Pushing /\ Reverts /\ Covering
  BY DEF JournalInit, Brackets, Pushing, Reverts, Covering
<1>8. Debts /\ Certain /\ Followed
  BY <1>3 DEF JournalInit, Debts, Certain, True, Up, Followed, Misses
<1> QED
  BY <1>4, <1>5, <1>6, <1>7, <1>8 DEF JInv

\* An index with no line in its file has none.
LEMMA SameAsNothing ==
    ASSUME NEW L, Same({}, L), Sound(L)
    PROVE  L = {}
<1>1. SUFFICES ASSUME NEW e \in L PROVE FALSE
  OBVIOUS
<1>2. e.key \in Key /\ e.kind \in {"begin", "commit", "acked"}
  BY <1>1 DEF Sound, Line
<1>3. Commits(L, e.key) = {} /\ Acks(L, e.key) = {} /\ Dangling(L, e.key) = {}
  BY <1>2 DEF Same, Newest, Commits, Acks, Dangling
<1> QED
  BY <1>1, <1>2, <1>3 DEF Commits, Acks, Dangling

\* bootstrap, its meta written.
LEMMA BuildStartKeeps == ASSUME JInv, BuildStart PROVE JInv'
<1> USE DEF journalVars, memory, others
<1>0. Up /\ phase = "build" /\ ~poisoned /\ meta.state = "none" /\ ~rotten
  BY DEF BuildStart, JInv, Kept, Up
<1>1. epoch <= rots + 1 /\ epoch = Coming /\ log \subseteq mem /\ \A f \in mem : f.epoch = epoch
  BY <1>0, EpochIsGiven DEF JInv, Kept, Same, Epochs
<1>2. /\ meta'.epoch = epoch /\ meta'.state = "building"
      /\ stranded' = (stranded /\ log # {})
      /\ UNCHANGED <<log, torn, rotten, dirty, folder, before, made, phase, mem, next, epoch, poisoned, unsure,
                     todo, bracket, push, peerHas, follower, faults, rots, cast>>
  BY DEF BuildStart
<1>3. Typed'
  <2>1. meta' \in [epoch : Nat, nextSeq : Nat \ {0}, state : {"none", "building", "ready", "rotten"}]
    BY DEF JInv, Typed, BuildStart
  <2>2. stranded' \in BOOLEAN
    BY <1>2
  <2> QED
    BY <1>2, <2>1, <2>2 DEF JInv, Typed
<1>4. Made' /\ Pushing' /\ Reverts' /\ Covering'
  BY <1>2 DEF JInv, Made, Pushing, Reverts, Covering, True
<1>2a. ASSUME ~stranded' PROVE ~stranded \/ (log = {} /\ mem = {} /\ follower.epoch < epoch)
  <2>1. SUFFICES ASSUME stranded, log = {} PROVE mem = {} /\ follower.epoch < epoch
    BY <1>2, <1>2a
  <2>2. mem = {}
    BY <1>0, <2>1, SameAsNothing DEF JInv, Kept
  <2>3. epoch = rots + 1 /\ follower.epoch <= rots /\ rots \in Nat /\ follower.epoch \in Nat
    BY <1>0, <1>1, <2>1 DEF Coming, Named, JInv, Epochs, Typed
  <2> QED
    BY <2>2, <2>3
<1>5. Kept'
  BY <1>2, <1>2a DEF JInv, Kept, Sound, Fit, Up
<1>6. Stages'
  BY <1>0, <1>2 DEF JInv, Stages
<1>7. Coming' = epoch /\ Named'
  BY <1>0, <1>2 DEF Coming, Named
<1>8. Epochs'
  <2>1. ~stranded' /\ follower.epoch = epoch => follower.since = 0 \/ \E e \in log : follower.since <= e.seq
    BY <1>1, <1>2a DEF JInv, Epochs, Typed
  <2>2. \A e \in log : e.epoch = epoch
    BY <1>1
  <2> QED
    BY <1>0, <1>1, <1>2, <1>7, <2>1, <2>2 DEF JInv, Epochs, Up
<1>9. Brackets'
  BY <1>2 DEF JInv, Brackets, BracketOf
<1>10. Debts'
  BY <1>2 DEF JInv, Debts, Owed, Commits
<1>11. Certain'
  BY <1>2 DEF JInv, Certain, True, Up
<1>12. Followed'
  BY <1>2, <1>2a DEF JInv, Followed, Misses, Doubtful, Up, Commits
<1> QED
  BY <1>3, <1>4, <1>5, <1>6, <1>8, <1>9, <1>10, <1>11, <1>12 DEF JInv

\* bootstrap, ended.
LEMMA BuildDoneKeeps == ASSUME JInv, BuildDone PROVE JInv'
<1>0. Up /\ phase = "build" /\ ~poisoned /\ ~rotten /\ before = folder
  BY DEF BuildDone, JInv, Kept, Stages, Up
<1>1. epoch <= rots + 1 /\ epoch = Coming /\ log \subseteq mem /\ \A f \in mem : f.epoch = epoch
  BY <1>0, EpochIsGiven DEF JInv, Kept, Same, Epochs
<1>2. /\ meta'.epoch = epoch /\ meta'.state = "ready" /\ phase' = "recover"
      /\ UNCHANGED <<log, torn, rotten, stranded, dirty, folder, before, made, mem, next, epoch, poisoned, unsure,
                     todo, bracket, push, peerHas, follower, faults, rots, cast>>
  BY DEF BuildDone, others
<1>3. Typed'
  BY DEF JInv, Typed, BuildDone, others
<1>4. Made' /\ Pushing' /\ Reverts' /\ Covering'
  BY <1>0, <1>2 DEF JInv, Made, Pushing, Reverts, Covering, True
<1>5. Kept'
  BY <1>0, <1>2 DEF JInv, Kept, Sound, Fit, Up
<1>6. \A k \in cast.keys : Commits(log, k) # {}
  <2>1. SUFFICES ASSUME NEW k \in cast.keys PROVE Commits(log, k) # {}
    OBVIOUS
  <2>2. Commits(mem, k) # {} /\ Same(log, mem) /\ Sound(mem) /\ k \in Key
    BY <1>0 DEF BuildDone, JInv, Kept, Typed
  <2> QED
    BY <1>0, <2>2, UpIsNumbered, SameAsks
<1>7. Stages'
  BY <1>0, <1>2, <1>6 DEF JInv, Stages
<1>8. Coming' = epoch /\ Named'
  BY <1>0, <1>2 DEF Coming, Named
<1>9. Epochs'
  BY <1>0, <1>1, <1>2, <1>8 DEF JInv, Epochs, Up
<1>10. Brackets'
  BY <1>0, <1>2 DEF JInv, Brackets, BracketOf
<1>11. Debts'
  BY <1>2 DEF JInv, Debts, Owed
<1>12. Certain'
  BY <1>0, <1>2 DEF JInv, Certain, True, Up
<1>13. Followed'
  BY <1>0, <1>2 DEF JInv, Followed, Misses, Doubtful, Up
<1> QED
  BY <1>3, <1>4, <1>5, <1>7, <1>9, <1>10, <1>11, <1>12, <1>13 DEF JInv

\* The end of open: every surface has been looked at, or unsure is up.
LEMMA OpenDoneKeeps == ASSUME JInv, OpenDone PROVE JInv'
<1>0. Up /\ phase = "recover" /\ ~poisoned /\ ~rotten /\ before = folder /\ push = NoPush
  BY DEF OpenDone, JInv, Kept, Stages, Up
<1>1. /\ phase' = "open" /\ dirty' = TRUE /\ todo = {}
      /\ UNCHANGED <<log, torn, rotten, stranded, meta, folder, before, made, mem, next, epoch, poisoned, unsure,
                     todo, bracket, push, peerHas, follower, faults, rots, cast>>
  BY DEF OpenDone, others
<1>2. Typed'
  BY <1>1 DEF JInv, Typed
<1>3. Made' /\ Pushing' /\ Reverts' /\ Debts'
  BY <1>0, <1>1 DEF JInv, Made, Pushing, Reverts, Debts, Owed
<1>4. Kept'
  BY <1>0, <1>1 DEF JInv, Kept, Sound, Fit, Up
<1>5. Stages' /\ Brackets'
  BY <1>0, <1>1 DEF JInv, Stages, Brackets
<1>6. Epochs'
  BY <1>0, <1>1 DEF JInv, Epochs, Up, Coming, Named
<1>7. \A k \in cast.keys : Dangling(mem, k) = {} /\ Dangling(log, k) = {}
  BY <1>0 DEF OpenDone, Unsettled, JInv, Typed, Kept, Same
<1>8. Certain'
  BY <1>0, <1>1 DEF JInv, Certain, True, Up
<1>9. Covering'
  <2>1. SUFFICES ASSUME NEW k \in cast.keys, ~unsure, Commits(log, k) # {}
                 PROVE  Covers(folder[k], Head(log, k))
    BY <1>1 DEF Covering
  <2>2. Head(log, k) \in {folder[k], NoDigest} /\ folder[k] \in Held
    <3>1. True(log, k) /\ k \in Key
      BY <1>0, <1>1, <1>7, <2>1 DEF JInv, Certain, Typed
    <3> QED
      BY <2>1, <3>1 DEF True, JInv, Typed
  <2> QED
    BY <2>2 DEF Covers, NoDigest, Held
<1>10. Followed'
  <2>1. SUFFICES ASSUME ~stranded, NEW k \in cast.keys, Misses(log, k) PROVE Doubtful(k)'
    BY <1>1 DEF Followed, Misses
  <2>2. Doubtful(k)
    BY <2>1 DEF JInv, Followed
  <2>3. unsure
    BY <1>0, <1>1, <1>7, <2>2 DEF Doubtful
  <2> QED
    BY <1>1, <2>2, <2>3 DEF Doubtful
<1> QED
  BY <1>2, <1>3, <1>4, <1>5, <1>6, <1>8, <1>9, <1>10 DEF JInv

\* Damage from outside costs an epoch, and the next is one more.
LEMMA RotKeeps == ASSUME JInv, Rot PROVE JInv'
<1>0. ~Up /\ phase = "down" /\ rots \in Nat /\ rots' = rots + 1
  BY DEF Rot, Up, JInv, Typed
<1>1. UNCHANGED <<log, torn, stranded, dirty, folder, before, made, phase, mem, next, epoch, poisoned, unsure,
                     todo, bracket, push, peerHas, follower, faults, cast>>
  BY DEF Rot, others, memory
<1>2. /\ meta'.epoch = meta.epoch
      /\ \/ rotten' = TRUE /\ meta' = meta
         \/ meta'.state = "rotten" /\ rotten' = rotten
  BY DEF Rot, JInv, Typed
<1>3. Typed'
  <2>1. meta' \in [epoch : Nat, nextSeq : Nat \ {0}, state : {"none", "building", "ready", "rotten"}]
    BY DEF Rot, JInv, Typed
  <2>2. rotten' \in BOOLEAN /\ rots' \in Nat
    <3>1. rotten \in BOOLEAN
      BY DEF JInv, Typed
    <3>2. rotten' = TRUE \/ rotten' = rotten
      BY <1>2
    <3>3. rotten' \in BOOLEAN
      BY <3>1, <3>2
    <3>4. rots' \in Nat
      BY <1>0
    <3> QED
      BY <3>3, <3>4
  <2> QED
    BY <1>1, <2>1, <2>2 DEF JInv, Typed
<1>4. Made' /\ Pushing' /\ Reverts' /\ Debts' /\ Covering'
  BY <1>0, <1>1 DEF JInv, Made, Pushing, Reverts, Debts, Owed, Covering, Stages
<1>5. Kept'
  BY <1>0, <1>1 DEF JInv, Kept, Sound, Fit, Up
<1>6. Stages' /\ Brackets'
  BY <1>0, <1>1, <1>2 DEF JInv, Stages, Brackets
<1>7. log # {} => Latest(log) \in log
  BY LatestIs DEF JInv, Kept, Sound, Bounded
<1>8. Epochs'
  <2>1. /\ \A e \in log : e.epoch <= rots + 1 /\ e.epoch \in Nat
        /\ follower.epoch <= rots + 1 /\ meta.epoch \in Nat /\ follower.epoch \in Nat
        /\ Named => meta.epoch <= rots + 1 /\ \A e \in log : e.epoch = meta.epoch
    BY DEF JInv, Epochs, Typed, Kept, Sound, Line
  <2>2. Named' => Named /\ meta' = meta
    BY <1>2 DEF Named
  <2>3. follower.epoch = Coming' => Coming' = Coming
    <3>1. CASE rotten'
      BY <1>0, <1>1, <2>1, <3>1 DEF Coming
    <3>2. CASE ~rotten' /\ log = {}
      BY <1>0, <1>1, <1>2, <2>1, <3>2 DEF Coming, Named
    <3>3. CASE ~rotten' /\ log # {}
      BY <1>0, <1>1, <1>2, <1>7, <2>1, <3>3 DEF Coming, Named
    <3> QED
      BY <3>1, <3>2, <3>3
  <2>4. ~stranded /\ follower.epoch = Coming' => follower.since = 0 \/ \E e \in log : follower.since <= e.seq
    BY <2>3 DEF JInv, Epochs
  <2>5. (\A e \in log : e.epoch <= rots' + 1) /\ (Named' => meta.epoch <= rots' + 1) /\ follower.epoch <= rots'
    BY <1>0, <2>1, <2>2
  <2> QED
    BY <1>0, <1>1, <1>2, <2>1, <2>2, <2>4, <2>5 DEF Epochs, Up
<1>9. Certain'
  BY <1>0, <1>1 DEF JInv, Certain, True, Up
<1>10. Followed'
  BY <1>0, <1>1 DEF JInv, Followed, Misses, Doubtful, Up
<1> QED
  BY <1>3, <1>4, <1>5, <1>6, <1>8, <1>9, <1>10 DEF JInv

\* A write ends and is committed to nobody, or to a poisoned journal.
LEMMA BracketGivenUp ==
    ASSUME JInv, NEW k \in cast.keys, bracket' = [bracket EXCEPT ![k] = Idle],
           UNCHANGED <<log, torn, rotten, stranded, meta, dirty, folder, before, made, phase, mem, next, epoch, poisoned,
                       unsure, todo, push, peerHas, follower, faults, rots, cast>>
    PROVE  JInv'
<1>1. /\ bracket' = [bracket EXCEPT ![k] = Idle]
      /\ UNCHANGED <<log, torn, rotten, stranded, meta, dirty, folder, before, made, phase, mem, next, epoch, poisoned,
                     unsure, todo, push, peerHas, follower, faults, rots, cast>>
  OBVIOUS
<1>2. Typed'
  BY <1>1 DEF JInv, Typed
<1>3. Made' /\ Kept' /\ Stages' /\ Debts' /\ Pushing' /\ Reverts' /\ Covering'
  <2>1. Made' /\ Debts' /\ Pushing' /\ Reverts' /\ Covering'
    BY <1>1 DEF JInv, Made, Debts, Owed, Pushing, Reverts, True, Covering
  <2>2. Kept' /\ Stages'
    BY <1>1 DEF JInv, Kept, Sound, Fit, Up, Stages
  <2> QED
    BY <2>1, <2>2
<1>4. Epochs'
  BY <1>1 DEF JInv, Epochs, Up, Coming, Named
<1>5. Brackets'
  BY <1>1, <1>2 DEF JInv, Typed, Brackets, BracketOf
<1>6. Certain' /\ Followed'
  BY <1>1 DEF JInv, Certain, True, Up, Followed, Misses, Doubtful
<1> QED
  BY <1>2, <1>3, <1>4, <1>5, <1>6 DEF JInv

\* A surface is written under the begin that answers for it.
LEMMA WriteSurfaceKeeps == ASSUME JInv, NEW k \in cast.keys, WriteSurface(k) PROVE JInv'
<1>0. /\ k \in Key /\ bracket[k] # Idle /\ phase \in {"open", "closed"} /\ dirty
      /\ Dangling(log, k) # {} /\ (phase = "open" => Dangling(mem, k) # {})
      /\ bracket[k].origin = "local" =>
            LocalBegins(log, k) # {} /\ (phase = "open" => LocalBegins(mem, k) # {})
  <2>1. k \in Key /\ bracket[k] # Idle
    BY DEF WriteSurface, Idle, JInv, Typed
  <2> QED
    BY <2>1 DEF JInv, Brackets, BracketOf, LocalBegins
<1>1. UNCHANGED <<log, torn, rotten, stranded, meta, dirty, made, phase, mem, next, epoch, poisoned,
                     unsure, todo, push, peerHas, follower, rots, cast>>
  BY DEF WriteSurface, others, memory, journalFiles
<1>2. /\ folder \in [Key -> Held] /\ made \in [Key -> Held] /\ before \in [Key -> Held]
      /\ bracket \in [Key -> {Idle} \cup [stage : {"begun", "written"}, seq : Nat,
                                          origin : {"local", "remote"}, bound : BOOLEAN]]
  BY DEF JInv, Typed
<1>3. /\ Edited(k) \in Held /\ Edited(k).l <= made[k].l /\ Edited(k).r <= made[k].r
      /\ folder[k].l <= Edited(k).l /\ folder[k].r <= Edited(k).r
      /\ bracket[k].origin # "local" => Edited(k).l = folder[k].l
  <2>1. folder[k] \in Held /\ made[k] \in Held /\ folder[k].l <= made[k].l /\ folder[k].r <= made[k].r
    BY <1>0, <1>2 DEF JInv, Made
  <2> QED
    BY <2>1 DEF Edited, Held
<1>4. /\ folder' \in [Key -> Held] /\ before' = [before EXCEPT ![k] = folder[k]]
      /\ folder'[k] \in {folder[k], Edited(k)}
      /\ \A j \in Key : j # k => folder'[j] = folder[j] /\ before'[j] = before[j] /\ bracket'[j] = bracket[j]
      /\ before'[k] = folder[k]
      /\ bracket' \in {[bracket EXCEPT ![k].stage = "written"], [bracket EXCEPT ![k] = Idle]}
      /\ bracket'[k] \in {Idle, [bracket[k] EXCEPT !.stage = "written"]}
  BY <1>0, <1>2, <1>3 DEF WriteSurface
<1>5. /\ \A j \in Key : folder[j].l <= folder'[j].l /\ folder[j].r <= folder'[j].r
      /\ \A j \in Key : folder'[j].l <= made[j].l /\ folder'[j].r <= made[j].r
      /\ \A j \in Key : j # k \/ bracket[k].origin # "local" => folder'[j].l = folder[j].l
  <2>1. \A j \in Key : /\ folder[j].l \in Nat /\ folder[j].r \in Nat
                       /\ folder[j].l <= made[j].l /\ folder[j].r <= made[j].r
    BY <1>2 DEF Held, JInv, Made
  <2> QED
    BY <1>3, <1>4, <2>1
<1>6. bracket[k] \in [stage : {"begun", "written"}, seq : Nat, origin : {"local", "remote"}, bound : BOOLEAN]
  BY <1>0, <1>2
<1>7. Typed'
  <2>1. bracket' \in [Key -> {Idle} \cup [stage : {"begun", "written"}, seq : Nat,
                                          origin : {"local", "remote"}, bound : BOOLEAN]]
    BY <1>0, <1>2, <1>4, <1>6
  <2>2. before' \in [Key -> Held]
    BY <1>0, <1>2, <1>4
  <2>3. faults' \in Nat
    BY DEF WriteSurface, Fault, FaultWithin, JInv, Typed
  <2> QED
    BY <1>1, <1>4, <2>1, <2>2, <2>3 DEF JInv, Typed
<1>8. Made'
  <2>1. \A j \in Key : before'[j].l <= folder'[j].l /\ before'[j].r <= folder'[j].r
    BY <1>4, <1>5 DEF JInv, Made
  <2> QED
    BY <1>1, <1>5, <2>1 DEF JInv, Made
<1>9. Kept' /\ Stages'
  BY <1>0, <1>1 DEF JInv, Kept, Sound, Fit, Up, Stages
<1>10. Epochs'
  BY <1>1 DEF JInv, Epochs, Up, Coming, Named
<1>11. Brackets'
  <2>1. SUFFICES ASSUME NEW j \in Key, bracket'[j] # Idle
                 PROVE  /\ j \in cast.keys /\ phase \in {"open", "closed"} /\ dirty
                        /\ BracketOf(log, j)' # {}
                        /\ phase = "open" => BracketOf(mem, j)' # {} /\ bracket'[j].bound
    BY <1>1 DEF Brackets
  <2>2. bracket[j] # Idle /\ bracket'[j].seq = bracket[j].seq /\ bracket'[j].origin = bracket[j].origin
        /\ bracket'[j].bound = bracket[j].bound
    BY <1>0, <1>4, <1>6, <2>1
  <2>3. BracketOf(log, j)' = BracketOf(log, j) /\ BracketOf(mem, j)' = BracketOf(mem, j)
    BY <1>1, <2>2 DEF BracketOf
  <2> QED
    BY <2>2, <2>3 DEF JInv, Brackets
<1>12. Debts'
  <2>1. SUFFICES ASSUME NEW j \in cast.keys, Commits(log, j) # {} PROVE Owed(log, j)'
    BY <1>1 DEF Debts
  <2>2. Owed(log, j) /\ j \in Key
    BY <2>1 DEF JInv, Debts, Typed
  <2> QED
    BY <1>0, <1>1, <1>5, <2>2 DEF Owed
<1>13. Pushing'
  <2>1. SUFFICES ASSUME push # NoPush, ~poisoned PROVE Pushing'
    BY <1>1 DEF Pushing
  <2>2. phase = "open" /\ push.key \in Key
    BY <2>1 DEF JInv, Stages, Typed
  <2> QED
    BY <1>0, <1>1, <1>5, <2>1, <2>2 DEF JInv, Pushing
<1>14. Certain'
  <2>1. SUFFICES ASSUME Up, ~unsure, NEW j \in cast.keys \ todo, Dangling(mem, j) = {} PROVE True(log, j)'
    BY <1>0, <1>1 DEF Certain, Up
  <2>2. j # k /\ j \in Key /\ True(log, j)
    BY <1>0, <2>1 DEF Up, JInv, Certain, Typed
  <2> QED
    BY <1>1, <1>4, <2>2 DEF True
<1>15. Reverts'
  <2>1. SUFFICES ASSUME phase = "open", NEW j \in cast.keys, Dangling(log, j) = {}
                 PROVE  before'[j] = folder'[j] \/ True(log, j)'
    BY <1>1 DEF Reverts
  <2>2. j # k /\ j \in Key
    BY <1>0, <2>1 DEF JInv, Typed
  <2> QED
    BY <1>1, <1>4, <2>1, <2>2 DEF True, JInv, Reverts
<1>16. Covering'
  <2>1. SUFFICES ASSUME phase = "open", ~unsure, NEW j \in cast.keys, Commits(log, j) # {}
                 PROVE  Covers(folder'[j], Head(log, j))
    BY <1>1 DEF Covering
  <2>2. /\ folder[j] \in Held /\ folder'[j] \in Held /\ Covers(folder[j], Head(log, j)) /\ j \in Key
        /\ Commits(log, j) # {}
    BY <1>2, <1>4, <2>1 DEF JInv, Covering, Typed
  <2>3. Head(log, j).l \in Int /\ Head(log, j).r \in Int
    <3>1. Commits(log, j) \in SUBSET Line /\ Commits(log, j) \subseteq log
      BY PartsOfLines DEF JInv, Kept, Sound
    <3>2. Latest(Commits(log, j)) \in Line
      BY <2>2, <3>1, LatestIs DEF JInv, Kept, Bounded
    <3> QED
      BY <3>2 DEF Head, Line
  <2> QED
    BY <1>5, <2>2, <2>3 DEF Covers, Held
<1>17. Followed'
  <2>1. SUFFICES ASSUME ~stranded, NEW j \in cast.keys, Misses(log, j) PROVE Doubtful(j)'
    BY <1>1 DEF Followed, Misses
  <2>2. Doubtful(j) /\ j \in Key
    BY <2>1 DEF JInv, Followed, Typed
  <2>3. CASE j = k
    BY <1>0, <1>1, <2>2, <2>3 DEF Doubtful, Up
  <2>4. CASE j # k
    BY <1>1, <1>4, <2>2, <2>4 DEF Doubtful, Up
  <2> QED
    BY <2>3, <2>4
<1> QED
  BY <1>7, <1>8, <1>9, <1>10, <1>11, <1>12, <1>13, <1>14, <1>15, <1>16, <1>17 DEF JInv

\* close: the flag stays up where something is still to be looked at.
LEMMA CloseKeeps == ASSUME JInv, Close PROVE JInv'
<1>0. /\ Up /\ phase = "open" /\ meta.state = "ready" /\ ~rotten /\ dirty /\ todo = {} /\ ~Up'
  BY DEF Close, JInv, Kept, Stages, Up
<1>1. /\ meta' = [epoch |-> epoch, nextSeq |-> next, state |-> "ready"]
      /\ dirty' = StaysDirty /\ phase' = "closed" /\ push' = NoPush
      /\ mem' = {} /\ next' = 1 /\ epoch' = 0 /\ poisoned' = FALSE /\ unsure' = FALSE /\ todo' = {}
      /\ before' = [k \in Key |-> Nothing]
      /\ bracket' = [k \in Key |-> IF bracket[k] = Idle THEN Idle ELSE [bracket[k] EXCEPT !.bound = FALSE]]
      /\ UNCHANGED <<log, torn, rotten, stranded, folder, made, peerHas, follower, faults, rots, cast>>
  BY DEF Close, Forgotten
<1>2. meta'.epoch = meta.epoch /\ Named /\ Named'
  <2>1. epoch = meta.epoch /\ Named
    BY <1>0, EpochIsGiven DEF Coming, Named
  <2> QED
    BY <1>1, <2>1 DEF Named
<1>3. Typed'
  <2>1. meta' \in [epoch : Nat, nextSeq : Nat \ {0}, state : {"none", "building", "ready", "rotten"}]
    BY <1>1 DEF JInv, Typed
  <2>2. before' \in [Key -> Held]
    BY <1>1 DEF Held, Nothing
  <2>3. bracket' \in [Key -> {Idle} \cup [stage : {"begun", "written"}, seq : Nat,
                                          origin : {"local", "remote"}, bound : BOOLEAN]]
    <3>1. SUFFICES ASSUME NEW k \in Key, bracket[k] # Idle
                   PROVE  [bracket[k] EXCEPT !.bound = FALSE] \in
                             [stage : {"begun", "written"}, seq : Nat,
                              origin : {"local", "remote"}, bound : BOOLEAN]
      BY <1>1
    <3>2. bracket[k] \in [stage : {"begun", "written"}, seq : Nat,
                          origin : {"local", "remote"}, bound : BOOLEAN]
      BY <3>1 DEF JInv, Typed
    <3> QED
      BY <3>2
  <2>4. {torn', rotten', dirty', poisoned', unsure'} \subseteq BOOLEAN
    <3>1. torn' \in BOOLEAN /\ rotten' \in BOOLEAN
      BY <1>1 DEF JInv, Typed
    <3>2. dirty' \in BOOLEAN
      BY <1>1 DEF StaysDirty
    <3> QED
      BY <1>1, <3>1, <3>2
  <2> QED
    BY <1>1, <2>1, <2>2, <2>3, <2>4 DEF JInv, Typed
<1>4. Made'
  BY <1>1 DEF JInv, Typed, Made, Held, Nothing
<1>5. Kept'
  BY <1>0, <1>1 DEF JInv, Kept, Sound, Fit, Bounded, LoaderAccepts
<1>6. Stages' /\ Debts' /\ Pushing' /\ Reverts' /\ Covering'
  BY <1>0, <1>1 DEF JInv, Stages, Debts, Owed, Pushing, Reverts, Covering
<1>7. Epochs'
  <2>1. Coming' = Coming
    BY <1>1, <1>2 DEF Coming
  <2> QED
    BY <1>0, <1>1, <1>2, <2>1 DEF JInv, Epochs
<1>8. \A k \in Key : bracket'[k] # Idle =>
         /\ bracket[k] # Idle
         /\ bracket'[k].seq = bracket[k].seq /\ bracket'[k].origin = bracket[k].origin
  BY <1>1 DEF JInv, Typed
<1>9. Brackets'
  <2>1. SUFFICES ASSUME NEW k \in Key, bracket'[k] # Idle
                 PROVE  k \in cast.keys /\ dirty' /\ BracketOf(log, k)' # {}
    BY <1>1 DEF Brackets
  <2>2. k \in cast.keys /\ BracketOf(log, k) # {} /\ BracketOf(mem, k) # {}
    BY <1>0, <1>8, <2>1 DEF JInv, Brackets
  <2>3. BracketOf(log, k)' = BracketOf(log, k)
    BY <1>1, <1>8, <2>1 DEF BracketOf
  <2>4. StaysDirty
    BY <2>2 DEF BracketOf, StaysDirty, Unsettled
  <2> QED
    BY <1>1, <2>2, <2>3, <2>4
<1>10. Certain'
  <2>1. SUFFICES ASSUME ~StaysDirty, NEW k \in cast.keys PROVE True(log, k)
    BY <1>0, <1>1 DEF Certain, True
  <2>2. k \in cast.keys \ todo /\ ~unsure /\ Dangling(mem, k) = {}
    BY <1>0, <2>1 DEF StaysDirty, Unsettled, JInv, Typed
  <2> QED
    BY <1>0, <2>2 DEF JInv, Certain
<1>11. Followed'
  <2>1. SUFFICES ASSUME ~stranded, NEW k \in cast.keys, Misses(log, k) PROVE Doubtful(k)'
    BY <1>1 DEF Followed, Misses
  <2>2. Doubtful(k)
    BY <2>1 DEF JInv, Followed
  <2>3. StaysDirty
    BY <1>0, <2>2 DEF Doubtful, StaysDirty
  <2> QED
    BY <1>0, <1>1, <2>2, <2>3 DEF Doubtful
<1> QED
  BY <1>3, <1>4, <1>5, <1>6, <1>7, <1>9, <1>10, <1>11 DEF JInv

\* A power cut takes back a write whose flag is still up.
LEMMA DieKeeps == ASSUME JInv, Die PROVE JInv'
<1>0. ~rotten /\ ~Up' /\ (phase \in {"build", "recover"} => before = folder) /\ (phase = "open" => dirty)
  BY DEF Die, JInv, Kept, Stages, Up
<1>1. /\ phase' = "down" /\ push' = NoPush
      /\ mem' = {} /\ next' = 1 /\ epoch' = 0 /\ poisoned' = FALSE /\ unsure' = FALSE /\ todo' = {}
      /\ before' = [k \in Key |-> Nothing] /\ bracket' = [k \in Key |-> Idle]
      /\ UNCHANGED <<log, torn, rotten, stranded, meta, dirty, made, peerHas, follower, rots, cast>>
  BY DEF Die, Forgotten, journalFiles
<1>2. /\ folder \in [Key -> Held] /\ before \in [Key -> Held]
      /\ folder' = folder \/ (phase \notin {"closed", "aside"} /\
                                \E k \in Key : folder' = [folder EXCEPT ![k] = before[k]])
      /\ phase \in {"aside", "build", "recover", "open", "closed"}
  BY DEF Die, JInv, Typed
<1>3. /\ folder' \in [Key -> Held]
      /\ \A j \in Key : folder'[j] \in {folder[j], before[j]}
      /\ phase # "open" => folder' = folder
  <2>1. CASE folder' = folder
    BY <1>2, <2>1
  <2>2. CASE phase \notin {"closed", "aside"} /\ \E k \in Key : folder' = [folder EXCEPT ![k] = before[k]]
    BY <1>0, <1>2, <2>2
  <2> QED
    BY <1>2, <2>1, <2>2
<1>4. Typed'
  <2>1. faults' \in Nat
    BY DEF Die, Fault, FaultWithin, JInv, Typed
  <2>2. before' \in [Key -> Held]
    BY <1>1 DEF Held, Nothing
  <2>3. bracket' \in [Key -> {Idle} \cup [stage : {"begun", "written"}, seq : Nat,
                                          origin : {"local", "remote"}, bound : BOOLEAN]]
    BY <1>1
  <2>4. {torn', rotten', dirty', poisoned', unsure'} \subseteq BOOLEAN
    <3>1. torn' \in BOOLEAN /\ rotten' \in BOOLEAN /\ dirty' \in BOOLEAN
      BY <1>1 DEF JInv, Typed
    <3> QED
      BY <1>1, <3>1
  <2> QED
    BY <1>1, <1>3, <2>1, <2>2, <2>3, <2>4 DEF JInv, Typed
<1>5. \A j \in Key : /\ folder'[j].l <= folder[j].l /\ folder'[j].r <= folder[j].r
                     /\ folder[j].l \in Nat /\ folder[j].r \in Nat
                     /\ folder'[j].l \in Nat /\ folder'[j].r \in Nat
  BY <1>2, <1>3 DEF Held, JInv, Made
<1>6. Made'
  <2>1. SUFFICES ASSUME NEW j \in Key
                 PROVE  /\ folder'[j].l <= made[j].l /\ folder'[j].r <= made[j].r
                        /\ before'[j].l <= folder'[j].l /\ before'[j].r <= folder'[j].r
                        /\ peerHas[j] <= made[j].l
    BY <1>1 DEF Made
  <2>2. /\ folder[j].l <= made[j].l /\ folder[j].r <= made[j].r /\ peerHas[j] <= made[j].l
        /\ made[j].l \in Nat /\ made[j].r \in Nat
    BY DEF JInv, Made, Typed, Held
  <2> QED
    BY <1>1, <1>5, <2>2 DEF Nothing
<1>7. Kept'
  BY <1>0, <1>1 DEF JInv, Kept, Sound, Fit, Bounded, LoaderAccepts
<1>8. Stages' /\ Pushing' /\ Reverts' /\ Covering' /\ Brackets'
  BY <1>0, <1>1 DEF JInv, Stages, Pushing, Reverts, Covering, Brackets
<1>9. Epochs'
  <2>1. Coming' = Coming
    BY <1>1 DEF Coming, Named
  <2> QED
    BY <1>0, <1>1, <2>1 DEF JInv, Epochs, Named
<1>10. Debts'
  <2>1. SUFFICES ASSUME NEW k \in cast.keys, Commits(log, k) # {} PROVE Owed(log, k)'
    BY <1>1 DEF Debts
  <2>2. Owed(log, k) /\ k \in Key /\ peerHas[k] \in Nat
    BY <2>1 DEF JInv, Debts, Typed
  <2> QED
    BY <1>1, <1>5, <2>2 DEF Owed
<1>11. Certain'
  <2>1. SUFFICES ASSUME ~dirty, NEW k \in cast.keys PROVE True(log, k)'
    BY <1>0, <1>1 DEF Certain
  <2>2. folder' = folder /\ True(log, k)
    BY <1>0, <1>3, <2>1 DEF JInv, Certain
  <2> QED
    BY <1>1, <2>2 DEF True
<1>12. Followed'
  <2>1. SUFFICES ASSUME ~stranded, NEW k \in cast.keys, Misses(log, k) PROVE Doubtful(k)'
    BY <1>1 DEF Followed, Misses
  <2>2. Doubtful(k) /\ k \in Key /\ Commits(log, k) # {}
    BY <2>1 DEF JInv, Followed, Typed, Misses
  <2>3. Head(log, k) # folder'[k] \/ Dangling(log, k) # {}
    <3>1. CASE folder'[k] = folder[k]
      BY <2>2, <3>1 DEF Doubtful
    <3>2. CASE phase = "open" /\ folder'[k] = before[k] /\ Dangling(log, k) = {} /\ Head(log, k) # folder[k]
      <4>1. before[k] = folder[k] \/ True(log, k)
        BY <3>2 DEF JInv, Reverts
      <4>2. before[k] # NoDigest
        BY <1>2, <2>2 DEF Held, NoDigest
      <4> QED
        BY <2>2, <3>2, <4>1, <4>2 DEF True
    <3> QED
      BY <1>3, <2>2, <3>1, <3>2 DEF Doubtful
  <2> QED
    BY <1>0, <1>1, <2>2, <2>3 DEF Doubtful
<1> QED
  BY <1>4, <1>6, <1>7, <1>8, <1>9, <1>10, <1>11, <1>12 DEF JInv

\* In one process, an open finds what a process that is gone has left.
LEMMA LoadKeeps == ASSUME JInv, ~Reload, Load PROVE JInv'
<1> DEFINE stays == IF Named THEN meta ELSE NoMeta
<1>0. /\ phase = "down" /\ ~Up /\ rotten = FALSE /\ dirty \in BOOLEAN /\ push = NoPush
      /\ \A k \in Key : bracket[k] = Idle
  BY DEF Load, Opening, Refused, JInv, Typed, Stages, Brackets, Up
<1>1. LoaderAccepts(log) /\ log \in SUBSET Line /\ Sound(log)
  BY DEF JInv, Kept, Sound
<1>2. /\ log' = log /\ mem' = log /\ meta' = stays
      /\ epoch' = EpochOf(stays, log) /\ next' = NextSeq(stays, log)
      /\ phase' = IF stays.state = "ready" THEN "recover" ELSE "build"
      /\ torn' = FALSE /\ rotten' = FALSE /\ poisoned' = FALSE
      /\ before' = folder
      /\ UNCHANGED <<stranded, dirty, folder, made, bracket, push, peerHas, follower, faults, rots, cast>>
  BY <1>0 DEF Load, Named, others
<1>3. PICK recover \in cast.recover :
         /\ todo' = IF dirty /\ recover THEN cast.keys ELSE {}
         /\ unsure' = (dirty /\ ~recover)
  BY DEF Load, ReadFlag
<1>4. recover \in BOOLEAN
  BY <1>3, JournalAssumption DEF JInv, Typed
<1>5. stays \in [epoch : Nat, nextSeq : Nat \ {0}, state : {"none", "building", "ready"}]
  BY DEF JInv, Typed, Named, NoMeta
<1>6. PICK n \in Nat : \A e \in log : e.seq <= n
  BY <1>1 DEF JInv, Kept, Bounded
<1>7. log # {} => Latest(log) \in log /\ Latest(log) \in Line
  BY <1>1, <1>6, LatestIs
<1>8. next' \in Nat /\ next' # 0 /\ \A e \in log : e.seq < next'
  <2> DEFINE S == {0} \cup {e.seq : e \in log}
  <2>1. LastSeq(log) \in Nat /\ \A e \in log : e.seq <= LastSeq(log)
    <3>1. S \in SUBSET Nat /\ S # {} /\ (\A m \in S : m <= n) /\ n \in Nat
      BY <1>1, <1>6 DEF Line
    <3>2. Largest(S) \in S /\ \A m \in S : m <= Largest(S)
      <4> HIDE DEF S
      <4> QED
        BY <3>1, LargestIs
    <3> QED
      BY <3>1, <3>2 DEF LastSeq
  <2> DEFINE T == {stays.nextSeq, LastSeq(log) + 1}
  <2>2. Largest(T) \in T /\ \A m \in T : m <= Largest(T)
    <3>1. T \in SUBSET Nat /\ T # {} /\ stays.nextSeq + LastSeq(log) + 1 \in Nat
          /\ \A m \in T : m <= stays.nextSeq + LastSeq(log) + 1
      BY <1>5, <2>1
    <3> HIDE DEF T
    <3> QED
      BY <3>1, LargestIs
  <2>3. next' = Largest(T)
    BY <1>2 DEF NextSeq
  <2>4. \A e \in log : e.seq \in Nat
    BY <1>1 DEF Line
  <2>5. stays.nextSeq \in Nat /\ stays.nextSeq # 0
    BY <1>5
  <2>6. stays.nextSeq <= next' /\ LastSeq(log) + 1 <= next' /\ next' \in {stays.nextSeq, LastSeq(log) + 1}
    BY <2>2, <2>3
  <2> HIDE DEF stays
  <2> QED
    BY <2>1, <2>4, <2>5, <2>6
<1>9. epoch' \in Nat
  BY <1>2, <1>5, <1>7 DEF EpochOf, Line, JInv, Typed
<1>10. Typed'
  <2>1. phase' \in {"build", "recover"} /\ todo' \subseteq cast.keys
    BY <1>2, <1>3
  <2>2. meta' \in [epoch : Nat, nextSeq : Nat \ {0}, state : {"none", "building", "ready", "rotten"}]
    BY <1>2, <1>5
  <2>3. {torn', rotten', dirty', poisoned', unsure'} \subseteq BOOLEAN
    <3>1. unsure' \in BOOLEAN
      BY <1>3
    <3>2. dirty' \in BOOLEAN
      BY <1>0, <1>2
    <3> QED
      BY <1>2, <3>1, <3>2
  <2> QED
    BY <1>2, <1>8, <1>9, <2>1, <2>2, <2>3 DEF JInv, Typed
<1>11. Made'
  BY <1>2 DEF JInv, Made, Typed, Held
<1>12. Kept'
  <2>1. Same(log, log) /\ Bounded(log)
    BY <1>6, SameItself DEF Bounded
  <2>2. Sound(log)'
    BY <1>1, <1>2 DEF Sound, Fit, LoaderAccepts
  <2>3. /\ ~stranded => \A e \in log : Locals(log, e.key) # {}
        /\ stranded => rots > 0
    BY DEF JInv, Kept
  <2> QED
    BY <1>2, <1>8, <2>1, <2>2, <2>3 DEF Kept, Up, Sound, Fit, Bounded
<1>13. Stages'
  <2>1. stays.state = "ready" => meta.state = "ready"
    BY DEF NoMeta
  <2> QED
    BY <1>0, <1>2, <1>5, <2>1 DEF JInv, Stages
<1>15. Named' <=> Named
  BY <1>2 DEF Named, NoMeta
<1>16. epoch' = Coming'
  BY <1>2, <1>5, <1>15 DEF EpochOf, Coming, Named, NoMeta
<1>17. Coming' = Coming
  BY <1>0, <1>2, <1>15 DEF Coming
<1>18. Epochs'
  <2>1. /\ \A e \in log : e.epoch <= rots + 1
        /\ Named' => (\A e \in log : e.epoch = stays.epoch) /\ stays.epoch <= rots + 1
    BY <1>15 DEF JInv, Epochs
  <2>2. \A e \in log : e.epoch = epoch'
    BY <1>1, <1>2, <1>7, <1>15, <1>16, <2>1 DEF Coming, LoaderAccepts
  <2>3. ~Named' /\ log = {} => follower.epoch <= rots
    BY <1>15 DEF JInv, Epochs
  <2>5. ~stranded /\ follower.epoch = Coming' => follower.since = 0 \/ \E e \in log : follower.since <= e.seq
    BY <1>17 DEF JInv, Epochs
  <2>6. follower.epoch <= rots + 1
    BY DEF JInv, Epochs
  <2> HIDE DEF stays
  <2> QED
    BY <1>2, <1>16, <2>1, <2>2, <2>3, <2>5, <2>6 DEF Epochs
<1>19. Brackets' /\ Pushing' /\ Reverts' /\ Covering'
  BY <1>0, <1>2 DEF Brackets, Pushing, Reverts, Covering
<1>21. Debts'
  BY <1>2 DEF JInv, Debts, Owed
<1>22. \A k \in cast.keys : ~dirty => True(log, k)
  BY DEF True, JInv, Certain
<1>23. dirty => unsure' \/ todo' = cast.keys
  BY <1>3, <1>4
<1>24. Certain'
  BY <1>2, <1>22, <1>23 DEF Certain, True
<1>25. Followed'
  <2>1. SUFFICES ASSUME ~stranded, NEW k \in cast.keys, Misses(log, k) PROVE Doubtful(k)'
    BY <1>2 DEF Followed, Misses
  <2>3. Doubtful(k)
    BY <2>1 DEF JInv, Followed
  <2> QED
    BY <1>2, <1>23, <2>3 DEF Doubtful
<1> QED
  BY <1>10, <1>11, <1>12, <1>13, <1>18, <1>19, <1>21, <1>24, <1>25 DEF JInv

\* A journal that is refused was damaged since it was last open: meta stays, and
\* names an epoch that nothing on disk has a line of.
LEMMA MoveAsideKeeps == ASSUME JInv, ~Reload, MoveAside PROVE JInv'
<1>0. /\ phase = "down" /\ ~Up /\ ~Up' /\ rots > 0 /\ rots \in Nat /\ push = NoPush /\ mem = {}
      /\ follower.epoch <= rots /\ follower.epoch \in Nat
      /\ \A k \in Key : bracket[k] = Idle
  <2>1. phase = "down" /\ Refused /\ phase' = "aside"
    BY DEF MoveAside, Opening
  <2>2. rotten
    BY <2>1 DEF Refused, JInv, Kept, Sound, Epochs
  <2> QED
    BY <2>1, <2>2 DEF JInv, Typed, Kept, Stages, Brackets, Epochs, Up
<1>1. /\ log' = {} /\ torn' = FALSE /\ rotten' = FALSE /\ stranded' = Named /\ phase' = "aside"
      /\ meta' = IF Named THEN meta ELSE NoMeta
      /\ UNCHANGED <<dirty, folder, before, made, mem, next, epoch, poisoned, unsure, todo,
                     bracket, push, peerHas, follower, faults, rots, cast>>
  BY DEF MoveAside, others
<1>2. Typed'
  <2>1. meta' \in [epoch : Nat, nextSeq : Nat \ {0}, state : {"none", "building", "ready", "rotten"}]
    BY <1>1 DEF JInv, Typed, NoMeta
  <2>2. stranded' \in BOOLEAN
    BY <1>1 DEF Named
  <2> QED
    BY <1>1, <2>1, <2>2 DEF JInv, Typed
<1>3. Made' /\ Pushing' /\ Reverts' /\ Covering' /\ Brackets'
  BY <1>0, <1>1 DEF JInv, Made, Pushing, Reverts, Covering, Brackets
<1>4. Kept'
  BY <1>0, <1>1 DEF JInv, Kept, Sound, Bounded, LoaderAccepts, Up
<1>5. Named' <=> Named
  BY <1>1 DEF Named, NoMeta
<1>6. Stages'
  BY <1>0, <1>1, <1>5 DEF Stages, Named
<1>7. Epochs'
  <2>1. Named => meta.epoch <= rots + 1
    BY DEF JInv, Epochs
  <2>2. ~Named => Coming' = rots + 1
    BY <1>1, <1>5 DEF Coming
  <2>3. follower.epoch <= rots + 1 /\ follower.epoch # rots + 1
    BY <1>0
  <2> QED
    BY <1>0, <1>1, <1>5, <2>1, <2>2, <2>3 DEF Epochs
<1>8. \A k : Commits({}, k) = {}
  BY DEF Commits
<1>9. Debts' /\ Certain' /\ Followed'
  BY <1>0, <1>1, <1>8 DEF Debts, Certain, True, Followed, Misses
<1> QED
  BY <1>2, <1>3, <1>4, <1>6, <1>7, <1>9 DEF JInv

\* The rebuild goes on, under an epoch nobody has heard of.
LEMMA DropMetaKeeps == ASSUME JInv, DropMeta PROVE JInv'
<1>0. /\ phase = "aside" /\ ~Up /\ rots > 0 /\ rots \in Nat /\ push = NoPush /\ mem = {} /\ log = {}
      /\ torn = FALSE /\ rotten = FALSE /\ poisoned = FALSE
      /\ follower.epoch <= rots /\ follower.epoch \in Nat
      /\ \A k \in Key : bracket[k] = Idle
  BY DEF DropMeta, JInv, Typed, Kept, Stages, Brackets, Epochs, Up
<1>1. EpochOf(NoMeta, {}) = rots + 1
  BY DEF EpochOf, NoMeta
<1>2. next' \in Nat \ {0}
  <2>1. Largest({0}) = 0
    BY LargestIs
  <2>2. LastSeq({}) = Largest({0})
    BY DEF LastSeq
  <2>3. Largest({1}) = 1
    BY LargestIs
  <2>4. next' = Largest({1})
    BY <2>1, <2>2 DEF DropMeta, NextSeq, NoMeta
  <2> QED
    BY <2>3, <2>4
<1>3. /\ meta' \in {NoMeta, [epoch |-> rots + 1, nextSeq |-> 1, state |-> "building"]}
      /\ stranded' = FALSE /\ epoch' = rots + 1 /\ phase' = "build" /\ before' = folder
      /\ UNCHANGED <<log, torn, rotten, dirty, folder, made, mem, poisoned, bracket, push, peerHas,
                     follower, rots, cast>>
  BY <1>1 DEF DropMeta, others
<1>4. PICK recover \in cast.recover :
         /\ todo' = IF dirty /\ recover THEN cast.keys ELSE {}
         /\ unsure' = (dirty /\ ~recover)
  BY DEF DropMeta, ReadFlag
<1>5. recover \in BOOLEAN /\ dirty \in BOOLEAN
  BY <1>4, JournalAssumption DEF JInv, Typed
<1>6. Typed'
  <2>1. meta' \in [epoch : Nat, nextSeq : Nat \ {0}, state : {"none", "building", "ready", "rotten"}]
    BY <1>0, <1>3 DEF NoMeta
  <2>2. unsure' \in BOOLEAN /\ faults' \in Nat /\ todo' \subseteq cast.keys
    BY <1>4, <1>5 DEF DropMeta, Fault, FaultWithin, JInv, Typed
  <2>3. {torn', rotten', stranded', dirty', poisoned', unsure'} \subseteq BOOLEAN
    BY <1>0, <1>3, <1>5, <2>2
  <2>4. before' \in [Key -> Held] /\ epoch' \in Nat
    BY <1>0, <1>3 DEF JInv, Typed
  <2> QED
    BY <1>2, <1>3, <2>1, <2>2, <2>3, <2>4 DEF JInv, Typed
<1>7. Made'
  BY <1>3 DEF JInv, Made, Typed, Held
<1>8. Pushing' /\ Reverts' /\ Covering' /\ Brackets'
  BY <1>0, <1>3 DEF Pushing, Reverts, Covering, Brackets
<1>9. Kept'
  BY <1>0, <1>3, SameItself DEF Kept, Sound, Bounded, LoaderAccepts, Up
<1>10. Stages'
  BY <1>0, <1>3 DEF Stages, NoMeta
<1>11. Coming' = rots + 1
  BY <1>0, <1>3 DEF Coming, Named, NoMeta
<1>12. Epochs'
  <2>1. follower.epoch <= rots + 1 /\ follower.epoch # rots + 1
    BY <1>0
  <2> QED
    BY <1>0, <1>3, <1>11, <2>1 DEF Epochs, Named, NoMeta
<1>13. \A k : Commits({}, k) = {}
  BY DEF Commits
<1>14. Debts' /\ Certain' /\ Followed'
  BY <1>0, <1>3, <1>4, <1>5, <1>13 DEF Debts, Certain, True, Followed, Misses
<1> QED
  BY <1>6, <1>7, <1>8, <1>9, <1>10, <1>12, <1>14 DEF JInv

\* outbox: the newest revision is offered.
LEMMA OfferKeeps == ASSUME JInv, NEW k \in cast.keys, Offer(k) PROVE JInv'
<1>0. Up /\ phase = "open" /\ ~poisoned /\ meta.state = "ready"
  BY DEF Offer, Ready, Up, JInv, Stages
<1>1. /\ push' = [stage |-> "offered", key |-> k, rev |-> Latest(Locals(mem, k)).rev]
      /\ UNCHANGED <<log, torn, rotten, stranded, meta, dirty, folder, before, made, phase, mem, next, epoch, poisoned,
                     unsure, todo, bracket, peerHas, follower, faults, rots, cast>>
  BY DEF Offer, memory, journalFiles
<1>2. Locals(mem, k) # {} /\ Latest(Locals(mem, k)).rev \in Nat
  <2>1. Locals(mem, k) # {}
    BY DEF Offer, InOutbox
  <2>2. Latest(Locals(mem, k)) \in mem /\ mem \in SUBSET Line
    BY <1>0, <2>1, OpenHasCommits, PartsOfLines, UpIsNumbered
  <2> QED
    BY <2>1, <2>2 DEF Line
<1>3. Typed'
  BY <1>1, <1>2 DEF JInv, Typed
<1>4. Made' /\ Stages' /\ Debts' /\ Reverts' /\ Covering' /\ Brackets'
  <2>1. Made' /\ Stages' /\ Debts' /\ Reverts' /\ Covering'
    BY <1>0, <1>1 DEF JInv, Made, Stages, Debts, Owed, Reverts, True, Covering
  <2>2. Brackets'
    BY <1>1 DEF JInv, Brackets, BracketOf
  <2> QED
    BY <2>1, <2>2
<1>5. Pushing'
  <2>1. Latest(Locals(mem, k)).rev <= Latest(Locals(mem, k)).rev
    BY <1>2
  <2> QED
    BY <1>1, <1>2, <2>1 DEF Pushing
<1>6. Kept'
  BY <1>1 DEF JInv, Kept, Sound, Fit, Up
<1>7. Epochs'
  BY <1>1 DEF JInv, Epochs, Up, Coming, Named
<1>8. Certain' /\ Followed'
  BY <1>1 DEF JInv, Certain, True, Up, Followed, Misses, Doubtful
<1> QED
  BY <1>3, <1>4, <1>5, <1>6, <1>7, <1>8 DEF JInv

\* The link is lost, or its reply came late.
LEMMA PushGivenUp ==
    ASSUME JInv, push' = NoPush,
           UNCHANGED <<log, torn, rotten, stranded, meta, dirty, folder, before, made, phase, mem, next, epoch, poisoned,
                       unsure, todo, bracket, peerHas, follower, faults, rots, cast>>
    PROVE  JInv'
<1>1. /\ push' = NoPush
      /\ UNCHANGED <<log, torn, rotten, stranded, meta, dirty, folder, before, made, phase, mem, next, epoch, poisoned,
                     unsure, todo, bracket, peerHas, follower, faults, rots, cast>>
  OBVIOUS
<1>2. Typed'
  BY <1>1 DEF JInv, Typed
<1>3. Made' /\ Stages' /\ Debts' /\ Reverts' /\ Covering' /\ Brackets' /\ Pushing'
  <2>1. Made' /\ Stages' /\ Debts' /\ Reverts' /\ Covering' /\ Pushing'
    BY <1>1 DEF JInv, Made, Stages, Debts, Owed, Reverts, True, Covering, Pushing
  <2>2. Brackets'
    BY <1>1 DEF JInv, Brackets, BracketOf
  <2> QED
    BY <2>1, <2>2
<1>4. Kept'
  BY <1>1 DEF JInv, Kept, Sound, Fit, Up
<1>5. Epochs'
  BY <1>1 DEF JInv, Epochs, Up, Coming, Named
<1>6. Certain' /\ Followed'
  BY <1>1 DEF JInv, Certain, True, Up, Followed, Misses, Doubtful
<1> QED
  BY <1>2, <1>3, <1>4, <1>5, <1>6 DEF JInv

\* The peer takes what the folder holds by then.
LEMMA DeliverKeeps == ASSUME JInv, Deliver PROVE JInv'
<1> DEFINE k == push.key
           T == {peerHas[k], folder[k].l}
<1>0. /\ push # NoPush /\ push.stage = "offered"
      /\ push \in [stage : {"offered", "answered"}, key : cast.keys, rev : Nat]
      /\ phase = "open" /\ k \in Key /\ k \in cast.keys
  BY DEF Deliver, NoPush, JInv, Typed, Stages
<1>1. /\ peerHas' = [peerHas EXCEPT ![k] = Largest(T)]
      /\ push' = [push EXCEPT !.stage = "answered"]
      /\ UNCHANGED <<log, torn, rotten, stranded, meta, dirty, folder, before, made, phase, mem, next, epoch, poisoned,
                     unsure, todo, bracket, follower, faults, rots, cast>>
  BY DEF Deliver, memory, journalFiles
<1>2. /\ peerHas \in [Key -> Nat] /\ folder \in [Key -> Held] /\ made \in [Key -> Held]
      /\ \A j \in Key : folder[j].l <= made[j].l /\ peerHas[j] <= made[j].l
  BY DEF JInv, Typed, Made
<1>3. Largest(T) \in T /\ \A m \in T : m <= Largest(T)
  <2>1. T \in SUBSET Nat /\ T # {} /\ made[k].l \in Nat /\ \A m \in T : m <= made[k].l
    BY <1>0, <1>2 DEF Held
  <2> HIDE DEF T
  <2> QED
    BY <2>1, LargestIs
<1>4. peerHas'[k] \in {peerHas[k], folder[k].l} /\ peerHas[k] <= peerHas'[k] /\ folder[k].l <= peerHas'[k]
  BY <1>0, <1>1, <1>2, <1>3
<1>5. /\ peerHas' \in [Key -> Nat]
      /\ \A j \in Key : peerHas[j] <= peerHas'[j] /\ peerHas'[j] <= made[j].l
      /\ \A j \in Key : folder[j].l \in Nat /\ peerHas[j] \in Nat /\ peerHas'[j] \in Nat
  <2>1. Largest(T) \in Nat
    BY <1>0, <1>2, <1>3 DEF Held
  <2> HIDE DEF T
  <2>2. peerHas' \in [Key -> Nat]
    BY <1>1, <1>2, <2>1
  <2>3. \A j \in Key : j # k => peerHas'[j] = peerHas[j]
    BY <1>1, <1>2
  <2>4. peerHas'[k] <= made[k].l
    BY <1>0, <1>2, <1>4
  <2> QED
    BY <1>2, <1>4, <2>2, <2>3, <2>4 DEF Held
<1>6. Typed'
  <2>1. push' \in [stage : {"offered", "answered"}, key : cast.keys, rev : Nat]
    BY <1>0, <1>1
  <2> HIDE DEF T, k
  <2> QED
    BY <1>1, <1>5, <2>1 DEF JInv, Typed
<1>7. Made'
  BY <1>1, <1>5 DEF JInv, Made
<1>8. Debts'
  <2>1. SUFFICES ASSUME NEW j \in cast.keys, Commits(log, j) # {} PROVE Owed(log, j)'
    BY <1>1 DEF Debts
  <2>2. Owed(log, j) /\ j \in Key
    BY <2>1 DEF JInv, Debts, Typed
  <2>3. /\ peerHas[j] <= peerHas'[j] /\ folder'[j] = folder[j] /\ log' = log
        /\ folder[j].l \in Nat /\ peerHas[j] \in Nat /\ peerHas'[j] \in Nat
    BY <1>1, <1>5, <2>2
  <2>4. CASE folder[j].l <= peerHas[j]
    BY <2>3, <2>4 DEF Owed
  <2>5. CASE InOutbox(log, j) \/ LocalBegins(log, j) # {}
    BY <2>3, <2>5 DEF Owed
  <2>6. CASE stranded /\ Locals(log, j) = {}
    BY <1>1, <2>3, <2>6 DEF Owed
  <2> QED
    BY <2>2, <2>4, <2>5, <2>6 DEF Owed
<1>9. push'.key = k /\ push'.rev = push.rev /\ push'.stage = "answered"
  BY <1>0, <1>1
<1>10. Pushing'
  BY <1>0, <1>1, <1>4, <1>9 DEF JInv, Pushing
<1>11. Stages' /\ Reverts' /\ Covering' /\ Brackets'
  <2>1. Stages' /\ Reverts' /\ Covering'
    BY <1>0, <1>1 DEF JInv, Stages, Reverts, True, Covering
  <2>2. Brackets'
    BY <1>1 DEF JInv, Brackets, BracketOf
  <2> QED
    BY <2>1, <2>2
<1>12. Kept'
  BY <1>1 DEF JInv, Kept, Sound, Fit, Up
<1>13. Epochs'
  BY <1>1 DEF JInv, Epochs, Up, Coming, Named
<1>14. Certain' /\ Followed'
  BY <1>1 DEF JInv, Certain, True, Up, Followed, Misses, Doubtful
<1> QED
  BY <1>6, <1>7, <1>8, <1>10, <1>11, <1>12, <1>13, <1>14 DEF JInv

\* A follower takes what changed past its cursor.
LEMMA PullKeeps == ASSUME JInv, Pull PROVE JInv'
<1> DEFINE since == IF follower.epoch = epoch THEN follower.since ELSE 0
<1>0. Up /\ phase = "open" /\ ~poisoned /\ meta.state = "ready" /\ dirty /\ todo = {} /\ ~rotten
  BY DEF Pull, Ready, Up, JInv, Stages, Kept
<1>1. /\ follower' = [epoch |-> epoch, since |-> LastSeq(mem),
                      got |-> [k \in Key |-> IF \E e \in Feed(mem, since) : e.key = k THEN folder[k]
                                             ELSE follower.got[k]]]
      /\ UNCHANGED <<log, torn, rotten, stranded, meta, dirty, folder, before, made, phase, mem, next, epoch, poisoned,
                     unsure, todo, bracket, push, peerHas, faults, rots, cast>>
  BY DEF Pull, memory, journalFiles
<1>2. /\ Sound(mem) /\ Same(log, mem) /\ next \in Nat /\ mem \in SUBSET Line
      /\ \A e \in mem : e.seq <= next
  BY <1>0, UpIsNumbered DEF JInv, Kept
<1>3. /\ LastSeq(mem) \in Nat
      /\ LastSeq(mem) = 0 \/ \E e \in mem : LastSeq(mem) = e.seq
  <2> DEFINE S == {0} \cup {e.seq : e \in mem}
  <2>1. S \in SUBSET Nat /\ S # {} /\ \A m \in S : m <= next
    BY <1>2 DEF Line
  <2>2. Largest(S) \in S
    <3> HIDE DEF S
    <3> QED
      BY <1>2, <2>1, LargestIs
  <2> QED
    BY <2>1, <2>2 DEF LastSeq
<1>4. /\ follower'.epoch = epoch /\ follower'.since = LastSeq(mem)
      /\ \A k \in Key : follower'.got[k] = IF \E e \in Feed(mem, since) : e.key = k THEN folder[k]
                                           ELSE follower.got[k]
  BY <1>1
<1>5. Typed'
  <2>1. follower'.got \in [Key -> Held]
    BY <1>1 DEF JInv, Typed
  <2>2. follower' = [epoch |-> epoch, since |-> LastSeq(mem), got |-> follower'.got]
    BY <1>1
  <2>3. follower' \in [epoch : Nat, since : Nat, got : [Key -> Held]]
    BY <1>3, <2>1, <2>2 DEF JInv, Typed
  <2> QED
    BY <1>1, <2>3 DEF JInv, Typed
<1>6. Made' /\ Stages' /\ Debts' /\ Reverts' /\ Covering' /\ Brackets' /\ Pushing'
  <2>1. Made' /\ Stages' /\ Debts' /\ Reverts' /\ Covering' /\ Pushing'
    BY <1>1 DEF JInv, Made, Stages, Debts, Owed, Reverts, True, Covering, Pushing
  <2>2. Brackets'
    BY <1>1 DEF JInv, Brackets, BracketOf
  <2> QED
    BY <2>1, <2>2
<1>7. Kept'
  BY <1>1 DEF JInv, Kept, Sound, Fit, Up
<1>8. Epochs'
  <2>1. epoch <= rots + 1 /\ epoch = Coming
    BY <1>0, EpochIsGiven
  <2>2. Coming' = Coming /\ Named' /\ Named /\ Up'
    BY <1>0, <1>1 DEF Coming, Named, Up
  <2>3. LastSeq(mem) = 0 \/ \E f \in log : LastSeq(mem) <= f.seq
    BY <1>2, <1>3, SameReaches
  <2> QED
    BY <1>0, <1>1, <1>4, <2>1, <2>2, <2>3 DEF JInv, Epochs
<1>9. Certain'
  BY <1>1 DEF JInv, Certain, True, Up
<1>10. Followed'
  <2>1. SUFFICES ASSUME ~stranded, NEW k \in cast.keys, Misses(log, k)' PROVE Doubtful(k)'
    BY <1>1 DEF Followed
  <2>2. /\ Commits(log, k) # {} /\ ~Covers(follower'.got[k], Head(log, k)) /\ k \in Key
        /\ Commits(mem, k) # {} /\ Latest(Commits(mem, k)) = Latest(Commits(log, k))
    BY <1>0, <1>1, <2>1, OpenHasCommits DEF Misses, JInv, Typed
  <2>3. CASE \E e \in Feed(mem, since) : e.key = k
    <3>1. ~Covers(folder[k], Head(log, k))
      BY <1>4, <2>2, <2>3
    <3>2. unsure
      BY <1>0, <2>2, <3>1 DEF JInv, Covering
    <3>3. Head(log, k) # folder[k]
      BY <2>2, <3>1 DEF Covers, JInv, Typed, Held
    <3> QED
      BY <1>0, <1>1, <3>2, <3>3 DEF Doubtful
  <2>4. CASE ~\E e \in Feed(mem, since) : e.key = k
    <3> DEFINE c == Latest(Commits(mem, k))
    <3>1. ~Covers(follower.got[k], Head(log, k))
      BY <1>4, <2>2, <2>4
    <3>2. c \in Commits(mem, k) /\ c \in mem /\ \A f \in Commits(mem, k) : f.seq <= c.seq
      <4>1. Commits(mem, k) \in SUBSET Line /\ \A f \in Commits(mem, k) : f.seq <= next
        BY <1>2, PartsOfLines
      <4> QED
        BY <1>2, <2>2, <4>1, LatestIs, PartsOfLines
    <3>3. c.kind = "commit" /\ c.key = k
      BY <3>2 DEF Commits
    <3>4. ~(c.seq > since)
      BY <2>4, <3>2, <3>3 DEF Feed
    <3>5. c.seq \in Nat \ {0} /\ c.epoch = epoch
      BY <1>0, <1>2, <3>2 DEF Line, JInv, Epochs
    <3>6. follower.epoch = epoch /\ c.seq <= follower.since
      BY <3>4, <3>5 DEF JInv, Typed
    <3>7. Misses(log, k)
      BY <2>2, <3>1, <3>5, <3>6 DEF Misses
    <3>8. Doubtful(k)
      BY <2>1, <3>7 DEF JInv, Followed
    <3> QED
      BY <1>1, <3>8 DEF Doubtful, Up
  <2> QED
    BY <2>3, <2>4
<1> QED
  BY <1>5, <1>6, <1>7, <1>8, <1>9, <1>10 DEF JInv

\* A line of an open that has not ended.
LEMMA OpeningLine ==
    ASSUME JInv, phase \in {"build", "recover"}, NEW e, Fresh(e), Goes(e), StillStands, e.kind = "commit",
           UNCHANGED <<push, bracket, made, meta>>, unsure' \in BOOLEAN, faults' \in Nat, todo' \subseteq todo,
           \A k \in todo : k \in todo' \/ phase' = "down" \/ AnswersFor(e, k),
           phase' = "build" /\ dirty /\ ~unsure' => todo' = cast.keys,
           phase' = "recover" /\ dirty /\ ~unsure' => \A k \in cast.keys \ todo' :
               Unsettled(mem') = {} /\ LastDigest(mem', k) \in {NoDigest, folder[k]}
    PROVE  JInv'
<1>0. /\ Up /\ ~poisoned /\ push = NoPush /\ push' = NoPush
      /\ \A k \in Key : bracket[k] = Idle
  BY DEF Up, JInv, Kept, Stages, Brackets
<1>1. /\ UNCHANGED <<stranded, dirty, folder, peerHas, follower, rots, cast>>
      /\ phase' \in {phase, "down"} /\ rotten' = rotten
      /\ \/ LineDown(e)
         \/ torn' \in BOOLEAN /\ phase' = "down" /\ Forgotten
  BY DEF StillStands, Goes, LineDown, LineLost
<1>2. /\ before' = before \/ before' = [k \in Key |-> Nothing]
      /\ next' \in Nat \ {0} /\ epoch' \in Nat /\ poisoned' \in BOOLEAN /\ torn' \in BOOLEAN
  <2>1. next \in Nat /\ epoch \in Nat /\ torn \in BOOLEAN /\ poisoned \in BOOLEAN
    BY DEF JInv, Typed
  <2>2. CASE LineDown(e)
    <3>1. before' = before /\ next' = next + 1 /\ epoch' = epoch /\ torn' = torn /\ poisoned' = poisoned
      BY <2>2 DEF LineDown
    <3>2. next' \in Nat \ {0}
      BY <2>1, <3>1
    <3>3. torn' \in BOOLEAN /\ poisoned' \in BOOLEAN
      BY <2>1, <3>1
    <3> QED
      BY <2>1, <3>1, <3>2, <3>3
  <2>3. CASE torn' \in BOOLEAN /\ phase' = "down" /\ Forgotten
    <3>1. before' = [k \in Key |-> Nothing] /\ next' = 1 /\ epoch' = 0 /\ poisoned' = FALSE
      BY <2>3 DEF Forgotten
    <3>2. poisoned' \in BOOLEAN
      BY <3>1
    <3>3. next' \in Nat \ {0} /\ epoch' \in Nat
      BY <3>1
    <3> QED
      BY <2>3, <3>1, <3>2, <3>3
  <2> QED
    BY <1>1, <2>2, <2>3
<1>3. Typed'
  <2>1. before' \in [Key -> Held]
    BY <1>2 DEF Held, Nothing, JInv, Typed
  <2>2. {torn', rotten', stranded', dirty', poisoned', unsure'} \subseteq BOOLEAN
    <3>1. rotten' \in BOOLEAN /\ dirty' \in BOOLEAN /\ stranded' \in BOOLEAN
      BY <1>1 DEF JInv, Typed
    <3> QED
      BY <1>2, <3>1
  <2>3. phase' \in {"down", "build", "recover", "open", "closed"} /\ todo' \subseteq cast.keys
    BY <1>1 DEF JInv, Typed
  <2> QED
    BY <1>1, <1>2, <2>1, <2>2, <2>3 DEF JInv, Typed
<1>4. Made'
  BY <1>1, <1>2 DEF JInv, Made, Typed, Held, Nothing
<1>5. Brackets' /\ Pushing'
  BY <1>0 DEF Brackets, Pushing
<1>6. Kept' /\ Epochs' /\ Debts' /\ Followed' /\ Reverts' /\ Covering' /\ Stages'
  <2>1. Kept' /\ Epochs' /\ Reverts' /\ Covering'
    BY <1>0, KeptAfter, EpochsAfter, RevertsAfter
  <2>2. Debts' /\ Followed' /\ Stages'
    BY <1>0, DebtsAfter, FollowedAfter, StagesAfter
  <2> QED
    BY <2>1, <2>2
<1>7. Certain'
  <2>1. /\ ~dirty' => \A k \in cast'.keys : True(log, k)'
        /\ Up' /\ ~unsure' => \A k \in cast'.keys \ todo' : Dangling(mem', k) = {} => True(log, k)'
    BY <1>0, TruthsAfter
  <2> QED
    BY <1>1, <2>1 DEF Certain
<1> QED
  BY <1>3, <1>4, <1>5, <1>6, <1>7 DEF JInv

\* A line of an open journal.
LEMMA OpenLine ==
    ASSUME JInv, phase = "open", ~poisoned, NEW e, Fresh(e), Goes(e), StillStands,
           phase' = "open", todo' = todo, Typed', Made', Brackets', Pushing',
           e.kind = "acked" => folder[e.key].l <= peerHas[e.key] \/ LocalBegins(log, e.key) # {}
    PROVE  JInv'
<1>0. Up
  BY DEF Up
<1>1. Kept' /\ Epochs' /\ Reverts' /\ Covering'
  BY <1>0, KeptAfter, EpochsAfter, RevertsAfter
<1>2. Debts' /\ Followed' /\ Stages'
  BY <1>0, DebtsAfter, FollowedAfter, StagesAfter
<1>3. Certain'
  <2>1. /\ ~dirty' => \A k \in cast'.keys : True(log, k)'
        /\ Up' /\ ~unsure' => \A k \in cast'.keys \ todo' : Dangling(mem', k) = {} => True(log, k)'
    BY <1>0, TruthsAfter
  <2> QED
    BY <2>1 DEF Certain
<1> QED
  BY <1>1, <1>2, <1>3 DEF JInv

\* A line appended without a fault.
LEMMA AppendIsDown ==
    ASSUME JInv, Up, ~poisoned, NEW e, Fresh(e), Append(e), mem' = mem \cup {e},
           UNCHANGED <<phase, epoch, poisoned, before>>, unsure => unsure'
    PROVE  Goes(e) /\ log' = log \cup {e}
<1>1. rotten' = rotten /\ torn' = torn /\ log' = log \cup {e} /\ next' = next + 1
  BY AppendGoes DEF Append
<1>2. Same(log', mem \cup {e}) /\ Same(mem', mem \cup {e})
  BY <1>1, FreshIsSound, SameItself
<1>3. LineDown(e)
  BY <1>1, <1>2 DEF LineDown
<1> QED
  BY <1>1, <1>3 DEF Goes

\* A line whose append broke, in an open journal.
LEMMA FailedAppendIsLost ==
    ASSUME JInv, phase = "open", ~poisoned, NEW e, Fresh(e), FailedAppend(e),
           UNCHANGED <<phase, epoch, before, unsure, todo>>
    PROVE  Goes(e) /\ torn' \in BOOLEAN /\ rotten' = rotten /\ poisoned' = TRUE /\ mem' = mem /\ next' = next + 1
<1>0. Up
  BY DEF Up
<1>1. rotten' = rotten /\ torn' \in BOOLEAN /\ log' \in {log, log \cup {e}} /\ next' = next + 1
  BY <1>0, AppendGoes DEF FailedAppend
<1>2. Same(log \cup {e}, mem \cup {e})
  BY <1>0, FreshIsSound
<1>3. LineLost(e)
  BY <1>1, <1>2 DEF LineLost, FailedAppend
<1> QED
  BY <1>1, <1>3 DEF Goes, FailedAppend

\* An append that fails the open.
LEMMA OpenBreaksKeeps ==
    ASSUME JInv, phase \in {"build", "recover"}, NEW e, Fresh(e), e.kind = "commit", OpenBreaks(e)
    PROVE  JInv'
<1>0. Up /\ ~poisoned
  BY DEF Up, JInv, Kept
<1>1. Goes(e) /\ StillStands /\ phase' = "down" /\ Forgotten /\ UNCHANGED <<push, bracket, made>>
  BY <1>0, BrokenOpenGoes
<1>2. unsure' = FALSE /\ todo' = {}
  BY <1>1 DEF Forgotten
<1>3. unsure' \in BOOLEAN
  BY <1>2
<1>4. faults' \in Nat
  BY DEF OpenBreaks, FaultWithin, JInv, Typed
<1>5. meta' = meta
  BY DEF OpenBreaks
<1>6. todo' \subseteq todo
  BY <1>2
<1> QED
  BY <1>0, <1>1, <1>3, <1>4, <1>5, <1>6, OpeningLine

\* A baseline.
LEMMA BuildKeyKeeps == ASSUME JInv, NEW k \in cast.keys, BuildKey(k) PROVE JInv'
<1>0. Up /\ phase = "build" /\ ~poisoned /\ unsure \in BOOLEAN /\ faults \in Nat
  BY DEF BuildKey, Up, JInv, Kept, Typed
<1>1. PICK e : e = Baseline(k)
  OBVIOUS
<1>2. Fresh(e) /\ e.kind = "commit"
  BY <1>0, <1>1, CommitIsFresh DEF Baseline, CommitLine
<1>3. CASE Append(e) /\ mem' = mem \cup {e} /\
           UNCHANGED <<meta, stranded, dirty, folder, before, made, phase, epoch, poisoned, unsure, todo,
                       bracket, others, faults, rots, cast>>
  <2>1. Goes(e) /\ StillStands
    BY <1>0, <1>2, <1>3, AppendIsDown DEF StillStands, others
  <2>2. dirty /\ ~unsure => todo = cast.keys
    BY <1>0 DEF JInv, Certain
  <2> QED
    BY <1>0, <1>2, <1>3, <2>1, <2>2, OpeningLine DEF others
<1>4. CASE OpenBreaks(e)
  BY <1>0, <1>2, <1>4, OpenBreaksKeeps
<1> QED
  BY <1>1, <1>3, <1>4 DEF BuildKey

\* An unanswered begin is answered.
LEMMA RecoverDanglingKeeps == ASSUME JInv, NEW b \in mem, RecoverDangling(b) PROVE JInv'
<1>0. /\ Up /\ phase = "recover" /\ ~poisoned /\ unsure \in BOOLEAN /\ faults \in Nat
      /\ b.key \in cast.keys /\ b \in Dangling(mem, b.key) /\ b.seq \in Nat /\ b.origin \in {"local", "remote"}
      /\ Unsettled(mem) # {}
  BY DEF RecoverDangling, Unsettled, Dangling, Up, JInv, Kept, Typed, Sound, Fit, Line
<1>1. \A d \in {folder[b.key], NoDigest} : Fresh(Recovery(b, d)) /\ Recovery(b, d).kind = "commit"
  <2>1. SUFFICES ASSUME NEW d \in {folder[b.key], NoDigest}
                 PROVE  Fresh(Recovery(b, d)) /\ Recovery(b, d).kind = "commit"
    OBVIOUS
  <2>2. PICK k \in cast.keys : k = b.key
    BY <1>0
  <2>3. PICK s \in Nat : s = b.seq
    BY <1>0
  <2>4. PICK o \in {"local", "remote"} : o = b.origin
    BY <1>0
  <2>5. Fresh(CommitLine(k, NextRev(mem, k), s, o, d))
    BY <1>0, <2>1, <2>2, <2>3, <2>4, CommitIsFresh
  <2> QED
    BY <2>2, <2>3, <2>4, <2>5 DEF Recovery, CommitLine
<1>2. dirty /\ ~unsure => cast.keys \subseteq todo
  BY <1>0 DEF JInv, Certain
<1>3. ASSUME NEW d \in {folder[b.key], NoDigest}, Append(Recovery(b, d)), mem' = mem \cup {Recovery(b, d)},
             unsure' \in {unsure, TRUE}, faults' \in Nat,
             UNCHANGED <<meta, stranded, dirty, folder, before, made, phase, epoch, poisoned, todo,
                         bracket, others, rots, cast>>
      PROVE  JInv'
  <2>1. PICK e : e = Recovery(b, d)
    OBVIOUS
  <2>2. Fresh(e) /\ e.kind = "commit"
    BY <1>1, <2>1
  <2>3. unsure => unsure'
    BY <1>3
  <2>4. Goes(e) /\ StillStands
    BY <1>0, <1>3, <2>1, <2>2, <2>3, AppendIsDown DEF StillStands, others
  <2>5. unsure' \in BOOLEAN
    BY <1>0, <1>3
  <2>6. dirty /\ ~unsure' => cast.keys \ todo' = {}
    <3>1. SUFFICES ASSUME dirty, ~unsure' PROVE cast.keys \subseteq todo'
      OBVIOUS
    <3>2. ~unsure
      BY <2>3, <3>1
    <3>3. cast.keys \subseteq todo
      BY <1>2, <3>1, <3>2
    <3>4. todo' = todo
      BY <1>3
    <3> QED
      BY <3>3, <3>4
  <2> QED
    BY <1>0, <1>3, <2>2, <2>4, <2>5, <2>6, OpeningLine DEF others
<1>4. CASE OpenBreaks(Recovery(b, folder[b.key]))
  <2>1. PICK e : e = Recovery(b, folder[b.key])
    OBVIOUS
  <2>2. Fresh(e) /\ e.kind = "commit" /\ OpenBreaks(e)
    BY <1>1, <1>4, <2>1
  <2> QED
    BY <1>0, <2>2, OpenBreaksKeeps
<1>5. CASE Append(Recovery(b, folder[b.key])) /\ mem' = mem \cup {Recovery(b, folder[b.key])} /\
           UNCHANGED <<unsure, faults>> /\
           UNCHANGED <<meta, stranded, dirty, folder, before, made, phase, epoch, poisoned, todo, bracket, others, rots, cast>>
  BY <1>0, <1>3, <1>5
<1>6. CASE Fault /\ Append(Recovery(b, NoDigest)) /\ mem' = mem \cup {Recovery(b, NoDigest)} /\ unsure' = TRUE /\
           UNCHANGED <<meta, stranded, dirty, folder, before, made, phase, epoch, poisoned, todo, bracket, others, rots, cast>>
  <2>1. faults' \in Nat
    BY <1>0, <1>6 DEF Fault, FaultWithin
  <2> QED
    BY <1>3, <1>6, <2>1
<1> QED
  BY <1>4, <1>5, <1>6 DEF RecoverDangling

\* The last digest of a surface is its head's, where that has one.
LEMMA HeadSaysIt ==
    ASSUME JInv, Up, ~poisoned, NEW k \in Key, Commits(log, k) # {}, Head(log, k) # NoDigest
    PROVE  LastDigest(mem, k) = Head(log, k)
<1>1. /\ Sound(mem) /\ Same(log, mem) /\ next \in Nat /\ next # 0 /\ mem \in SUBSET Line
      /\ \A e \in mem : e.seq < next /\ e.seq <= next
  BY UpIsNumbered DEF JInv, Kept
<1>2. Commits(mem, k) # {} /\ Latest(Commits(mem, k)) = Latest(Commits(log, k))
  BY <1>1, SameAsks
<1>3. PICK c : c = Latest(Commits(mem, k))
  OBVIOUS
<1>4. c \in Commits(mem, k) /\ \A f \in Commits(mem, k) : f.seq <= c.seq
  <2>1. Commits(mem, k) \in SUBSET Line /\ \A f \in Commits(mem, k) : f.seq <= next
    BY <1>1, PartsOfLines
  <2> QED
    BY <1>1, <1>2, <1>3, <2>1, LatestIs
<1>5. c.digest = Head(log, k)
  BY <1>2, <1>3 DEF Head
<1>6. c \in Digested(mem, k) /\ Digested(mem, k) \subseteq Commits(mem, k)
  BY <1>4, <1>5 DEF Digested
<1>7. Latest(Digested(mem, k)) = c
  <2>1. Digested(mem, k) \in SUBSET Line /\ (\A f \in Digested(mem, k) : f.seq <= next) /\ Digested(mem, k) # {}
    BY <1>1, <1>6, PartsOfLines
  <2>2. Latest(Digested(mem, k)) \in Digested(mem, k) /\ c.seq <= Latest(Digested(mem, k)).seq
    BY <1>1, <1>6, <2>1, LatestIs
  <2>3. PICK d : d = Latest(Digested(mem, k))
    OBVIOUS
  <2>4. d \in mem /\ c \in mem /\ d.seq <= c.seq /\ c.seq <= d.seq /\ d.seq \in Nat /\ c.seq \in Nat
    BY <1>1, <1>4, <1>6, <2>2, <2>3, PartsOfLines DEF Line
  <2>5. d.seq = c.seq
    BY <2>4
  <2> QED
    BY <1>1, <2>3, <2>4, <2>5 DEF Sound, LoaderAccepts
<1> QED
  BY <1>5, <1>6, <1>7 DEF LastDigest

\* A surface that was looked at, and left as it was.
LEMMA LookedAt ==
    ASSUME JInv, NEW k \in todo, phase = "recover", Unsettled(mem) = {}, Looked(k),
           unsure' \in BOOLEAN, unsure => unsure', faults' \in Nat,
           unsure' \/ LastDigest(mem, k) \in {NoDigest, folder[k]},
           UNCHANGED <<log, torn, rotten, stranded, mem, next>>,
           UNCHANGED <<meta, stranded, dirty, folder, before, made, phase, epoch, poisoned, bracket, push, peerHas, follower, rots, cast>>
    PROVE  JInv'
<1>0. Up /\ ~poisoned /\ k \in cast.keys /\ k \in Key /\ todo' = todo \ {k} /\ todo \subseteq cast.keys
      /\ \A j \in Key : Dangling(mem, j) = {} /\ Dangling(log, j) = {}
  BY DEF Up, Looked, JInv, Kept, Typed, Unsettled, Same
<1>1. unsure' \/ (~unsure /\ ~unsure')
  OBVIOUS
<1>2. Typed'
  <2>1. {torn', rotten', stranded', dirty', poisoned', unsure'} \subseteq BOOLEAN
    BY DEF JInv, Typed
  <2> QED
    BY <1>0, <2>1 DEF JInv, Typed
<1>3. Made' /\ Debts' /\ Pushing' /\ Reverts' /\ Covering' /\ Brackets'
  <2>1. Made' /\ Debts' /\ Pushing'
    BY DEF JInv, Made, Debts, Owed, Pushing
  <2>2. Reverts' /\ Covering' /\ Brackets'
    BY <1>0 DEF JInv, Reverts, Covering, Brackets
  <2> QED
    BY <2>1, <2>2
<1>4. Kept' /\ Stages'
  <2>1. Kept'
    BY DEF JInv, Kept, Sound, Fit, Up
  <2>2. Stages'
    BY DEF JInv, Stages
  <2> QED
    BY <2>1, <2>2
<1>5. Epochs'
  BY DEF JInv, Epochs, Up, Coming, Named
<1>6. ~unsure' => True(log, k)
  <2>1. SUFFICES ASSUME ~unsure', Commits(log, k) # {}, Head(log, k) # NoDigest PROVE Head(log, k) = folder[k]
    BY DEF True
  <2>2. LastDigest(mem, k) = Head(log, k)
    BY <1>0, <2>1, HeadSaysIt
  <2> QED
    BY <2>1, <2>2
<1>7. Certain'
  <2>1. ~dirty => \A j \in cast.keys : True(log, j)
    BY DEF JInv, Certain
  <2>2. ~unsure' => \A j \in cast.keys \ todo' : True(log, j)
    <3>1. SUFFICES ASSUME ~unsure', NEW j \in cast.keys \ todo' PROVE True(log, j)
      OBVIOUS
    <3>2. CASE j = k
      BY <1>6, <3>1, <3>2
    <3>3. CASE j # k
      <4>1. j \in cast.keys \ todo /\ Dangling(mem, j) = {}
        BY <1>0, <3>3 DEF JInv, Typed
      <4> QED
        BY <1>0, <1>1, <3>1, <4>1 DEF JInv, Certain
    <3> QED
      BY <3>2, <3>3
  <2>3. dirty /\ ~unsure' => \A j \in cast.keys \ todo' : LastDigest(mem, j) \in {NoDigest, folder[j]}
    BY <1>0, <1>1 DEF JInv, Certain
  <2> QED
    BY <2>1, <2>2, <2>3 DEF Certain, True
<1>8. Followed'
  <2>1. SUFFICES ASSUME ~stranded, NEW j \in cast.keys, Misses(log, j) PROVE Doubtful(j)'
    BY DEF Followed, Misses
  <2>2. Doubtful(j) /\ j \in Key
    BY <2>1 DEF JInv, Followed, Typed
  <2>3. CASE j = k /\ ~unsure'
    <3>1. Head(log, k) \in {folder[k], NoDigest} /\ Head(log, k) # folder[k]
      BY <1>0, <1>6, <2>1, <2>2, <2>3 DEF True, Misses, Doubtful
    <3>2. follower.got[k] \in Held
      BY <1>0 DEF JInv, Typed
    <3>3. Covers(follower.got[k], Head(log, k))
      BY <3>1, <3>2 DEF Covers, NoDigest, Held
    <3> QED
      BY <2>1, <2>3, <3>3 DEF Misses
  <2>4. CASE unsure'
    BY <2>2, <2>4 DEF Doubtful
  <2>5. CASE j # k
    BY <1>0, <2>2, <2>5 DEF Doubtful, Up
  <2> QED
    BY <2>3, <2>4, <2>5
<1> QED
  BY <1>2, <1>3, <1>4, <1>5, <1>7, <1>8 DEF JInv

\* A surface is looked at, and committed anew where it differs.
LEMMA VerifyKeeps == ASSUME JInv, NEW k \in cast.keys, Verify(k) PROVE JInv'
<1>0. /\ Up /\ phase = "recover" /\ ~poisoned /\ Unsettled(mem) = {} /\ k \in todo /\ k \in Key
      /\ \A j \in Key : Dangling(mem, j) = {}
  BY DEF Verify, Up, JInv, Kept, Typed, Unsettled
<1>1. unsure \in BOOLEAN /\ faults \in Nat
  BY DEF JInv, Typed
<1>2. UNCHANGED <<meta, stranded, dirty, folder, before, made, phase, epoch, poisoned, bracket, push, peerHas, follower, rots, cast>>
  BY DEF Verify, others
<1>3. CASE /\ LastDigest(mem, k) \in {NoDigest, folder[k]}
           /\ Looked(k)
           /\ UNCHANGED <<log, torn, rotten, stranded, mem, next, unsure, faults>>
  <2>1. unsure' \in BOOLEAN /\ (unsure => unsure')
    BY <1>1, <1>3
  <2>2. faults' \in Nat
    BY <1>1, <1>3
  <2> QED
    BY <1>0, <1>2, <1>3, <2>1, <2>2, LookedAt
<1>4. CASE /\ Fault
           /\ Looked(k) /\ unsure' = TRUE
           /\ UNCHANGED <<log, torn, rotten, stranded, mem, next>>
  <2>1. faults' \in Nat
    BY <1>1, <1>4 DEF Fault, FaultWithin
  <2>2. unsure' \in BOOLEAN /\ unsure' /\ (unsure => unsure')
    BY <1>4
  <2> QED
    BY <1>0, <1>2, <1>4, <2>1, <2>2, LookedAt
<1>5. CASE /\ Append(Correction(k))
           /\ mem' = mem \cup {Correction(k)}
           /\ Looked(k)
           /\ UNCHANGED <<unsure, faults>>
  <2>1. PICK e : e = Correction(k)
    OBVIOUS
  <2>2. /\ Fresh(e) /\ e.kind = "commit" /\ e.key = k /\ e.begin = 0 /\ e.digest = folder[k]
    BY <1>0, <2>1, CommitIsFresh DEF Correction, CommitLine
  <2>3. Goes(e) /\ StillStands /\ mem' = mem \cup {e} /\ log' = log \cup {e}
    BY <1>0, <1>2, <1>5, <2>1, <2>2, AppendIsDown DEF StillStands
  <2>4. AnswersFor(e, k)
    BY <1>0, <2>2, <2>3, FreshIsSound DEF AnswersFor
  <2>5. /\ Sound(mem) /\ e \in Line /\ next \in Nat /\ (\A f \in mem : f.seq < e.seq /\ f.seq <= next)
        /\ mem \in SUBSET Line
    BY <1>0, <2>2, UpIsNumbered, FreshIsSound DEF JInv, Kept
  <2>6. Unsettled(mem') = {}
    <3>1. SUFFICES ASSUME NEW j \in Key PROVE Dangling(mem \cup {e}, j) = {}
      BY <2>3 DEF Unsettled
    <3>2. Dangling(mem \cup {e}, j) = StillDangling(Dangling(mem, j), e, j)
      BY <2>5, DanglingAdded
    <3> QED
      BY <1>0, <2>2, <3>2 DEF StillDangling
  <2>7. folder[k] # NoDigest
    BY <1>0 DEF JInv, Typed, Held, NoDigest
  <2>8. LastDigest(mem', k) = folder[k]
    <3>1. Digested(mem', k) = Digested(mem, k) \cup {e}
      BY <2>2, <2>3, <2>7, CommitsAdded
    <3>2. Digested(mem, k) \in SUBSET Line /\ \A f \in Digested(mem, k) : f.seq < e.seq
      BY <2>5, PartsOfLines
    <3>3. Latest(Digested(mem, k) \cup {e}) = e
      BY <2>5, <3>2, LatestAdded
    <3> QED
      BY <2>2, <3>1, <3>3 DEF LastDigest
  <2>9. ASSUME NEW j, j # k PROVE LastDigest(mem', j) = LastDigest(mem, j)
    <3>1. Digested(mem', j) = Digested(mem, j)
      BY <2>2, <2>3, <2>9, CommitsAdded
    <3> QED
      BY <3>1 DEF LastDigest
  <2>10. dirty /\ ~unsure => \A j \in cast.keys \ todo' : LastDigest(mem', j) \in {NoDigest, folder[j]}
    <3>1. SUFFICES ASSUME dirty, ~unsure, NEW j \in cast.keys \ todo' PROVE LastDigest(mem', j) \in {NoDigest, folder[j]}
      OBVIOUS
    <3>2. CASE j = k
      BY <2>8, <3>2
    <3>3. CASE j # k
      <4>1. j \notin todo
        BY <1>5, <3>1, <3>3 DEF Looked
      <4>2. LastDigest(mem, j) \in {NoDigest, folder[j]}
        BY <1>0, <3>1, <4>1 DEF JInv, Certain
      <4> QED
        BY <2>9, <3>3, <4>2
    <3> QED
      BY <3>2, <3>3
  <2>11. todo' \subseteq todo /\ \A j \in todo : j \in todo' \/ AnswersFor(e, j)
    BY <1>5, <2>4 DEF Looked
  <2>12. unsure' \in BOOLEAN /\ (unsure' <=> unsure)
    BY <1>1, <1>5
  <2>13. faults' \in Nat
    BY <1>1, <1>5
  <2>14. phase' = "recover" /\ UNCHANGED <<push, bracket, made, meta>>
    BY <1>0, <1>2
  <2> QED
    BY <1>0, <2>2, <2>3, <2>6, <2>10, <2>11, <2>12, <2>13, <2>14, OpeningLine
<1> QED
  BY <1>3, <1>4, <1>5 DEF Verify

\* The correction cannot be appended.
LEMMA VerifyFailsKeeps == ASSUME JInv, NEW k \in cast.keys, VerifyFails(k) PROVE JInv'
<1>1. PICK e : e = Correction(k)
  OBVIOUS
<1>2. Up /\ phase = "recover" /\ ~poisoned
  BY DEF VerifyFails, Up, JInv, Kept
<1>3. Fresh(e) /\ e.kind = "commit"
  BY <1>1, <1>2, CommitIsFresh DEF Correction, CommitLine
<1> QED
  BY <1>1, <1>2, <1>3, OpenBreaksKeeps DEF VerifyFails

\* begin.
LEMMA BeginKeeps == ASSUME JInv, NEW k \in cast.keys, NEW o \in {"local", "remote"}, Begin(k, o) PROVE JInv'
<1>0. /\ Up /\ phase = "open" /\ ~poisoned /\ meta.state = "ready" /\ k \in Key /\ bracket[k] = Idle /\ dirty
  BY DEF Begin, Ready, Up, JInv, Stages, Typed
<1>1. PICK e : e = BeginLine(k, o)
  OBVIOUS
<1>2. Fresh(e) /\ e.kind = "begin" /\ e.key = k /\ e.seq = next /\ e.origin = o
  BY <1>0, <1>1, BeginIsFresh DEF BeginLine
<1>3. UNCHANGED <<meta, stranded, dirty, folder, before, phase, epoch, unsure, todo, push, peerHas, follower, rots, cast>>
  BY DEF Begin, others
<1>4. StillStands /\ phase' = "open" /\ todo' = todo
  BY <1>0, <1>3 DEF StillStands
<1>5. /\ made \in [Key -> Held] /\ next \in Nat /\ next # 0 /\ faults \in Nat
      /\ bracket \in [Key -> {Idle} \cup [stage : {"begun", "written"}, seq : Nat,
                                          origin : {"local", "remote"}, bound : BOOLEAN]]
      /\ torn \in BOOLEAN /\ rotten \in BOOLEAN /\ stranded \in BOOLEAN /\ dirty \in BOOLEAN /\ unsure \in BOOLEAN /\ poisoned \in BOOLEAN
  BY DEF JInv, Typed
<1>6. CASE /\ Append(e)
           /\ mem' = mem \cup {e}
           /\ made' = IF o = "local" THEN [made EXCEPT ![k].l = @ + 1] ELSE [made EXCEPT ![k].r = @ + 1]
           /\ bracket' = [bracket EXCEPT ![k] =
                             [stage |-> "begun", seq |-> next, origin |-> o, bound |-> TRUE]]
           /\ UNCHANGED <<poisoned, faults>>
  <2>1. Goes(e) /\ log' = log \cup {e} /\ mem' = mem \cup {e}
    BY <1>0, <1>2, <1>3, <1>6, AppendIsDown
  <2>2. next' = next + 1 /\ torn' = torn /\ rotten' = rotten
    BY <1>0, <1>6, AppendGoes
  <2>3. /\ made' \in [Key -> Held]
        /\ \A j \in Key : made[j].l <= made'[j].l /\ made[j].r <= made'[j].r
    BY <1>0, <1>5, <1>6 DEF Held
  <2>4. Typed'
    <3>1. bracket' \in [Key -> {Idle} \cup [stage : {"begun", "written"}, seq : Nat,
                                            origin : {"local", "remote"}, bound : BOOLEAN]]
      BY <1>0, <1>5, <1>6
    <3>2. {torn', rotten', stranded', dirty', poisoned', unsure'} \subseteq BOOLEAN
      BY <1>3, <1>5, <1>6, <2>2
    <3>3. next' \in Nat \ {0} /\ faults' \in Nat
      BY <1>5, <1>6, <2>2
    <3> QED
      BY <1>3, <2>3, <3>1, <3>2, <3>3 DEF JInv, Typed
  <2>5. Made'
    <3>1. \A j \in Key : /\ folder[j].l \in Nat /\ folder[j].r \in Nat /\ peerHas[j] \in Nat
                         /\ made[j].l \in Nat /\ made[j].r \in Nat /\ made'[j].l \in Nat /\ made'[j].r \in Nat
      BY <2>3 DEF JInv, Typed, Held
    <3> QED
      BY <1>3, <2>3, <3>1 DEF JInv, Made
  <2>6. Brackets'
    <3>1. SUFFICES ASSUME NEW j \in Key, bracket'[j] # Idle
                   PROVE  /\ j \in cast'.keys /\ phase' \in {"open", "closed"} /\ dirty'
                          /\ BracketOf(log, j)' # {}
                          /\ phase' = "open" => BracketOf(mem, j)' # {} /\ bracket'[j].bound
      BY DEF Brackets
    <3>2. CASE j = k
      <4>1. bracket'[k].seq = next /\ bracket'[k].origin = o /\ bracket'[k].bound
        BY <1>0, <1>5, <1>6
      <4>2. /\ Sound(mem) /\ Sound(log) /\ e \in Line
            /\ (\A f \in mem : f.seq < e.seq) /\ (\A f \in log : f.seq < e.seq)
        BY <1>0, <1>2, FreshIsSound DEF JInv, Kept
      <4>3. /\ Dangling(mem \cup {e}, k) = StillDangling(Dangling(mem, k), e, k)
            /\ Dangling(log \cup {e}, k) = StillDangling(Dangling(log, k), e, k)
        BY <4>2, DanglingAdded
      <4>4. e \in Dangling(log', k) /\ e \in Dangling(mem', k)
        BY <1>2, <2>1, <4>3 DEF StillDangling
      <4>5. e \in BracketOf(log, k)' /\ e \in BracketOf(mem, k)'
        BY <1>2, <4>1, <4>4 DEF BracketOf
      <4> QED
        BY <1>0, <1>3, <3>2, <4>1, <4>5
    <3>3. CASE j # k
      <4>1. bracket'[j] = bracket[j] /\ bracket[j] # Idle
        BY <1>5, <1>6, <3>1, <3>3
      <4> QED
        BY <1>0, <1>2, <1>3, <1>4, <2>1, <4>1, BracketsAfter
    <3> QED
      BY <3>2, <3>3
  <2>7. Pushing'
    <3>1. SUFFICES ASSUME push # NoPush PROVE Pushing'
      BY <1>3 DEF Pushing
    <3>2. Locals(mem', push.key) = Locals(mem, push.key)
      <4>1. PICK j : j = push.key
        OBVIOUS
      <4>2. Locals(mem \cup {e}, j) =
                 IF e.kind = "commit" /\ e.key = j /\ e.origin = "local"
                 THEN Locals(mem, j) \cup {e} ELSE Locals(mem, j)
        BY CommitsAdded
      <4> QED
        BY <1>2, <2>1, <4>1, <4>2
    <3>3. Dangling(mem, push.key) \subseteq Dangling(mem', push.key)
      BY <1>0, <1>2, <2>1, FreshElsewhere
    <3>4. LocalBegins(mem, push.key) # {} => LocalBegins(mem', push.key) # {}
      BY <3>3 DEF LocalBegins
    <3> QED
      BY <1>0, <1>3, <3>1, <3>2, <3>4 DEF JInv, Pushing
  <2> QED
    BY <1>0, <1>2, <1>4, <2>1, <2>4, <2>5, <2>6, <2>7, OpenLine
<1>7. CASE /\ FailedAppend(e)
           /\ UNCHANGED <<bracket, made>>
  <2>1. Goes(e) /\ torn' \in BOOLEAN /\ rotten' = rotten /\ poisoned' = TRUE /\ mem' = mem /\ next' = next + 1
    BY <1>0, <1>2, <1>3, <1>7, FailedAppendIsLost
  <2>2. Typed'
    <3>1. {torn', rotten', stranded', dirty', poisoned', unsure'} \subseteq BOOLEAN
      BY <1>3, <1>5, <2>1
    <3>2. next' \in Nat \ {0} /\ faults' \in Nat
      BY <1>5, <1>7, <2>1 DEF FailedAppend, Fault, FaultWithin
    <3> QED
      BY <1>3, <1>7, <3>1, <3>2 DEF JInv, Typed
  <2>3. Made' /\ Pushing'
    BY <1>3, <1>7, <2>1 DEF JInv, Made, Pushing
  <2>4. Brackets'
    <3>1. SUFFICES ASSUME NEW j \in Key, bracket'[j] # Idle
                   PROVE  /\ j \in cast'.keys /\ phase' \in {"open", "closed"} /\ dirty'
                          /\ BracketOf(log, j)' # {}
                          /\ phase' = "open" => BracketOf(mem, j)' # {} /\ bracket'[j].bound
      BY DEF Brackets
    <3>2. bracket'[j] = bracket[j] /\ bracket[j] # Idle
      BY <1>7, <3>1
    <3> QED
      BY <1>0, <1>2, <1>3, <1>4, <2>1, <3>2, BracketsAfter
  <2> QED
    BY <1>0, <1>2, <1>4, <2>1, <2>2, <2>3, <2>4, OpenLine
<1> QED
  BY <1>1, <1>6, <1>7 DEF Begin

\* ack: the exact revision, and only once.
LEMMA AckKeeps == ASSUME JInv, Ack PROVE JInv'
<1> DEFINE k == push.key
           r == push.rev
<1>0. /\ Up /\ phase = "open" /\ ~poisoned /\ meta.state = "ready" /\ push # NoPush
      /\ push.stage = "answered" /\ k \in cast.keys /\ k \in Key /\ r \in Nat
  BY DEF Ack, Ready, Up, NoPush, JInv, Stages, Typed
<1>1. UNCHANGED <<meta, stranded, dirty, folder, before, made, phase, epoch, unsure, todo, bracket, peerHas, follower, rots, cast>>
      /\ push' = NoPush
  BY DEF Ack
<1>2. CASE UNCHANGED <<log, torn, rotten, stranded, mem, next, poisoned, faults>>
  BY <1>1, <1>2, PushGivenUp
<1>3. CASE /\ ~(Locals(mem, k) = {} \/ Latest(Locals(mem, k)).rev # r \/ AckedRev(mem, k) >= r)
           /\ \/ /\ Append(AckedLine(k, r))
                 /\ mem' = mem \cup {AckedLine(k, r)}
                 /\ UNCHANGED <<poisoned, faults>>
              \/ FailedAppend(AckedLine(k, r))
  <2>1. PICK e : e = AckedLine(k, r)
    OBVIOUS
  <2>2. AckedRev(mem, k) < r /\ r = Latest(Locals(mem, k)).rev
    <3>1. AckedRev(mem, k) \in Nat
      BY <1>0, UpIsNumbered, RevsAreBelow DEF JInv, Kept
    <3> QED
      BY <1>0, <1>3, <3>1
  <2>3. Fresh(e) /\ e.kind = "acked" /\ e.key = k
    <3>1. Locals(mem, k) # {}
      BY <1>3
    <3> HIDE DEF k, r
    <3> QED
      BY <1>0, <2>1, <2>2, <3>1, AckIsFresh DEF AckedLine
  <2>4. folder[k].l <= peerHas[k] \/ LocalBegins(log, k) # {}
    <3>1. folder[k].l <= peerHas[k] \/ LocalBegins(mem, k) # {}
      BY <1>0, <2>2 DEF JInv, Pushing
    <3>2. Dangling(log, k) = Dangling(mem, k)
      BY <1>0 DEF JInv, Kept, Same
    <3> QED
      BY <3>1, <3>2 DEF LocalBegins
  <2>5. StillStands /\ phase' = "open" /\ todo' = todo
    BY <1>0, <1>1 DEF StillStands
  <2>6. /\ Goes(e) /\ torn' \in BOOLEAN /\ rotten' \in BOOLEAN /\ poisoned' \in BOOLEAN
        /\ next' = next + 1 /\ faults' \in Nat
    <3>0. torn \in BOOLEAN /\ rotten \in BOOLEAN /\ poisoned \in BOOLEAN /\ faults \in Nat
      BY DEF JInv, Typed
    <3>1. CASE Append(e) /\ mem' = mem \cup {e} /\ UNCHANGED <<poisoned, faults>>
      <4>1. Goes(e)
        BY <1>0, <1>1, <2>3, <3>1, AppendIsDown
      <4>2. rotten' = rotten /\ torn' = torn /\ next' = next + 1
        BY <1>0, <3>1, AppendGoes
      <4>3. poisoned' = poisoned /\ faults' = faults
        BY <3>1
      <4> QED
        BY <3>0, <4>1, <4>2, <4>3
    <3>2. CASE FailedAppend(e)
      <4>1. Goes(e) /\ torn' \in BOOLEAN /\ rotten' = rotten /\ poisoned' = TRUE /\ next' = next + 1
        BY <1>0, <1>1, <2>3, <3>2, FailedAppendIsLost
      <4>2. faults' \in Nat
        BY <3>0, <3>2 DEF FailedAppend, Fault, FaultWithin
      <4> QED
        BY <3>0, <4>1, <4>2
    <3> QED
      BY <1>3, <2>1, <3>1, <3>2
  <2>7. Typed'
    <3>1. next' \in Nat \ {0}
      BY <2>6 DEF JInv, Typed
    <3>2. stranded' \in BOOLEAN /\ dirty' \in BOOLEAN /\ unsure' \in BOOLEAN
      BY <1>1 DEF JInv, Typed
    <3>3. {torn', rotten', stranded', dirty', poisoned', unsure'} \subseteq BOOLEAN
      BY <2>6, <3>2
    <3> HIDE DEF k, r
    <3> QED
      BY <1>1, <2>6, <3>1, <3>3 DEF JInv, Typed
  <2>8. Made' /\ Pushing'
    BY <1>1 DEF JInv, Made, Pushing
  <2>9. Brackets'
    <3>1. SUFFICES ASSUME NEW j \in Key, bracket'[j] # Idle
                   PROVE  /\ j \in cast'.keys /\ phase' \in {"open", "closed"} /\ dirty'
                          /\ BracketOf(log, j)' # {}
                          /\ phase' = "open" => BracketOf(mem, j)' # {} /\ bracket'[j].bound
      BY DEF Brackets
    <3>2. bracket'[j] = bracket[j] /\ bracket[j] # Idle
      BY <1>1, <3>1
    <3> QED
      BY <1>0, <1>1, <2>3, <2>5, <2>6, <3>2, BracketsAfter
  <2> QED
    BY <1>0, <2>3, <2>4, <2>5, <2>6, <2>7, <2>8, <2>9, OpenLine
<1> QED
  BY <1>2, <1>3 DEF Ack

\* A commit after an offer: the offer is of an older revision, or the commit is
\* of a remote edit and answers no local begin.
LEMMA PushingAfterCommit ==
    ASSUME JInv, phase = "open", ~poisoned, push # NoPush, NEW e, Fresh(e), e.kind = "commit",
           e.origin = "remote" => \E b \in Dangling(mem, e.key) : b.seq = e.begin /\ b.origin = "remote",
           NEW L, Same(L, mem \cup {e})
    PROVE  /\ Locals(L, push.key) # {} /\ push.rev <= Latest(Locals(L, push.key)).rev
           /\ push.stage = "answered" /\ Latest(Locals(L, push.key)).rev = push.rev =>
                 folder[push.key].l <= peerHas[push.key] \/ LocalBegins(L, push.key) # {}
<1>0. /\ Up /\ meta.state = "ready"
      /\ push \in [stage : {"offered", "answered"}, key : cast.keys, rev : Nat]
  BY DEF Up, JInv, Stages, Typed
<1>1. PICK k \in cast.keys : k = push.key
  BY <1>0
<1>2. k \in Key /\ push.rev \in Nat
  BY <1>0 DEF JInv, Typed
<1>3. /\ Locals(mem, k) # {} /\ push.rev <= Latest(Locals(mem, k)).rev
      /\ push.stage = "answered" /\ Latest(Locals(mem, k)).rev = push.rev =>
            folder[k].l <= peerHas[k] \/ LocalBegins(mem, k) # {}
  BY <1>1 DEF JInv, Pushing
<1> DEFINE M == mem \cup {e}
<1>4. /\ Sound(M) /\ Sound(mem) /\ e \in Line /\ next \in Nat /\ mem \in SUBSET Line
      /\ \A f \in mem : f.seq < e.seq
      /\ \A f \in M : f.seq < next + 1
  <2>1. Sound(M) /\ Sound(mem) /\ e \in Line /\ next \in Nat /\ mem \in SUBSET Line /\ \A f \in mem : f.seq < e.seq
    BY <1>0, UpIsNumbered, FreshIsSound DEF JInv, Kept
  <2>2. \A f \in M : f.seq < next + 1
    <3>1. \A f \in mem : f.seq < next /\ f.seq \in Nat
      BY <1>0, UpIsNumbered DEF Line
    <3> QED
      BY <2>1, <3>1 DEF Fresh
  <2> QED
    BY <2>1, <2>2
<1>5. /\ Locals(L, k) = {} <=> Locals(M, k) = {}
      /\ Locals(M, k) # {} => Latest(Locals(L, k)) = Latest(Locals(M, k))
      /\ Dangling(L, k) = Dangling(M, k)
  <2>1. next + 1 \in Nat /\ next + 1 # 0
    BY <1>4
  <2>2. PICK n \in Nat : n = next + 1
    BY <2>1
  <2>3. n # 0 /\ \A f \in M : f.seq < n
    BY <1>4, <2>1, <2>2
  <2>4. Same(L, M) /\ Sound(M)
    BY <1>4
  <2> HIDE DEF M
  <2> QED
    BY <1>2, <2>3, <2>4, SameAsks
<1>6. CASE e.key = k /\ e.origin = "local"
  <2>1. Locals(M, k) = Locals(mem, k) \cup {e}
    <3>1. Locals(mem \cup {e}, k) =
                 IF e.kind = "commit" /\ e.key = k /\ e.origin = "local"
                 THEN Locals(mem, k) \cup {e} ELSE Locals(mem, k)
      BY CommitsAdded
    <3> QED
      BY <1>6, <3>1
  <2>2. Latest(Locals(mem, k) \cup {e}) = e
    <3>1. Locals(mem, k) \in SUBSET Line /\ \A f \in Locals(mem, k) : f.seq < e.seq
      BY <1>4, PartsOfLines
    <3> QED
      BY <1>4, <3>1, LatestAdded
  <2>3. Latest(Locals(mem, k)).rev < e.rev
    <3>1. /\ NextRev(mem, k) \in Nat /\ LastRev(mem, k) \in Nat /\ LastRev(mem, k) < NextRev(mem, k)
          /\ \A f \in Commits(mem, k) : f.rev <= LastRev(mem, k)
      BY <1>0, <1>4, UpIsNumbered, RevsAreBelow
    <3>2. Latest(Locals(mem, k)) \in Commits(mem, k) /\ Latest(Locals(mem, k)).rev \in Nat
      BY <1>0, <1>3, <1>4, OpenHasCommits, PartsOfLines DEF Line
    <3> QED
      BY <1>6, <3>1, <3>2 DEF Fresh
  <2>4. Latest(Locals(mem, k)).rev \in Nat /\ e.rev \in Nat
    <3>1. Latest(Locals(mem, k)) \in mem
      BY <1>0, <1>3, OpenHasCommits, PartsOfLines
    <3> QED
      BY <1>4, <3>1 DEF Line
  <2>5. Latest(Locals(L, k)) = e /\ Locals(L, k) # {}
    BY <1>5, <2>1, <2>2
  <2> QED
    BY <1>1, <1>2, <1>3, <2>3, <2>4, <2>5
<1>7. CASE ~(e.key = k /\ e.origin = "local")
  <2>1. Locals(M, k) = Locals(mem, k)
    <3>1. Locals(mem \cup {e}, k) =
                 IF e.kind = "commit" /\ e.key = k /\ e.origin = "local"
                 THEN Locals(mem, k) \cup {e} ELSE Locals(mem, k)
      BY CommitsAdded
    <3> QED
      BY <1>7, <3>1
  <2>2. LocalBegins(mem, k) \subseteq LocalBegins(L, k)
    <3>1. Dangling(mem \cup {e}, k) = StillDangling(Dangling(mem, k), e, k)
      BY <1>4, DanglingAdded
    <3>2. CASE e.key # k
      BY <1>5, <3>1, <3>2 DEF LocalBegins, StillDangling
    <3>3. CASE e.key = k
      <4>1. e.origin = "remote"
        BY <1>4, <1>7, <3>3 DEF Line
      <4>2. PICK g \in Dangling(mem, k) : g.seq = e.begin /\ g.origin = "remote"
        BY <3>3, <4>1
      <4>3. g \in mem /\ g.seq # 0 /\ \A b \in mem : b.seq = g.seq => b = g
        BY <1>4, <4>2, PartsOfLines DEF Sound, LoaderAccepts, Line
      <4>4. \A b \in LocalBegins(mem, k) : b \in Dangling(mem, k) /\ b \in mem /\ b.seq # e.begin
        BY <4>2, <4>3 DEF LocalBegins, Dangling
      <4>5. e.begin # 0
        BY <4>2, <4>3
      <4> QED
        BY <1>5, <3>1, <3>3, <4>4, <4>5 DEF LocalBegins, StillDangling
    <3> QED
      BY <3>2, <3>3
  <2>3. Locals(L, k) # {} /\ Latest(Locals(L, k)) = Latest(Locals(mem, k))
    BY <1>3, <1>5, <2>1
  <2> QED
    BY <1>1, <1>3, <2>2, <2>3
<1> QED
  BY <1>6, <1>7

\* commit, with its compaction.
LEMMA CommitKeeps == ASSUME JInv, NEW k \in cast.keys, Commit(k) PROVE JInv'
<1>0. /\ Up /\ phase = "open" /\ meta.state = "ready" /\ k \in Key /\ dirty
      /\ bracket[k] # Idle /\ bracket' = [bracket EXCEPT ![k] = Idle]
  BY DEF Commit, Idle, Up, JInv, Stages, Typed, Brackets
<1>1. UNCHANGED <<stranded, dirty, folder, before, made, phase, epoch, unsure, todo, push, peerHas, follower, rots, cast>>
  BY DEF Commit, others
<1>2. CASE poisoned
  <2>1. UNCHANGED <<log, torn, rotten, stranded, meta, mem, next, poisoned, faults>>
    BY <1>2 DEF Commit
  <2> QED
    BY <1>0, <1>1, <2>1, BracketGivenUp
<1>3. CASE ~poisoned
  <2>0. Up /\ ~poisoned
    BY <1>0, <1>3
  <2>1. PICK b \in Dangling(mem, k) : b.seq = bracket[k].seq /\ b.origin = bracket[k].origin
    BY <1>0 DEF JInv, Brackets, BracketOf
  <2>2. b.seq \in Nat /\ b.origin \in {"local", "remote"}
    <3>1. b \in mem /\ mem \in SUBSET Line
      BY <2>0, <2>1, PartsOfLines, UpIsNumbered
    <3> QED
      BY <3>1 DEF Line
  <2>3. ASSUME NEW d \in {folder[k], NoDigest}
        PROVE  Fresh(Answer(k, d)) /\ Answer(k, d).kind = "commit" /\ Answer(k, d).key = k
               /\ Answer(k, d).begin = b.seq /\ Answer(k, d).origin = b.origin
    <3>1. PICK s \in Nat : s = b.seq
      BY <2>2
    <3>2. PICK o \in {"local", "remote"} : o = b.origin
      BY <2>2
    <3>3. Fresh(CommitLine(k, NextRev(mem, k), s, o, d))
      BY <2>0, <2>1, <2>3, <3>1, <3>2, CommitIsFresh
    <3> QED
      BY <2>1, <3>1, <3>2, <3>3 DEF Answer, CommitLine
  <2>4. ASSUME NEW d \in {folder[k], NoDigest}, faults' \in Nat,
               \/ poisoned' = poisoned /\ (AddAndCompact(Answer(k, d)) \/ AddAndFailToCompact(Answer(k, d)))
               \/ FailedAppend(Answer(k, d)) /\ UNCHANGED meta
        PROVE  JInv'
    <3>1. PICK e : e = Answer(k, d)
      OBVIOUS
    <3>2. Fresh(e) /\ e.kind = "commit" /\ e.key = k /\ e.begin = b.seq /\ e.origin = b.origin
      BY <2>3, <3>1
    <3>3. PICK M : M = mem \cup {e}
      OBVIOUS
    <3>4. /\ Same(log \cup {e}, M) /\ Sound(M) /\ next \in Nat /\ next # 0 /\ torn = FALSE /\ rotten = FALSE
          /\ \A f \in M : f.seq <= next
      <4>1. Same(log \cup {e}, mem \cup {e}) /\ Sound(mem \cup {e})
        BY <2>0, <3>2, FreshIsSound
      <4>2. torn = FALSE /\ rotten = FALSE
        <5>1. ~torn /\ ~rotten /\ torn \in BOOLEAN /\ rotten \in BOOLEAN
          BY <2>0, <1>0 DEF JInv, Kept, Typed
        <5> QED
          BY <5>1
      <4>3. \A f \in mem \cup {e} : f.seq <= next
        BY <2>0, <3>2, UpIsNumbered DEF Fresh
      <4> QED
        BY <2>0, <3>3, <4>1, <4>2, <4>3, UpIsNumbered
    <3>5. Same(Keep(M), M) /\ Same(M, M) /\ Same(Keep(M), Keep(M)) /\ Same(log \cup {e}, log \cup {e})
      BY <3>4, SameKept, SameItself
    <3>6. meta.epoch = epoch
      BY <1>0, <2>0, EpochIsGiven DEF Coming, Named
    <3>7. CASE poisoned' = poisoned /\ (AddAndCompact(e) \/ AddAndFailToCompact(e))
      <4>1. /\ next' = next + 1 /\ rotten' = FALSE /\ torn' = FALSE
            /\ \/ log' = Keep(M) /\ mem' = Keep(M) /\ meta' = [epoch |-> epoch, nextSeq |-> next', state |-> "ready"]
               \/ log' \in {log \cup {e}, Keep(M)} /\ mem' = M /\ meta' = meta
        <5>1. CASE AddAndCompact(e)
          <6>1. next' = next + 1 /\ rotten' = FALSE /\ torn' = FALSE
            BY <3>4, <5>1 DEF AddAndCompact
          <6>2. \/ log' = Keep(M) /\ mem' = Keep(M) /\ meta' = [epoch |-> epoch, nextSeq |-> next', state |-> "ready"]
                \/ log' = log \cup {e} /\ mem' = M /\ meta' = meta
            BY <3>3, <5>1 DEF AddAndCompact
          <6> QED
            BY <6>1, <6>2
        <5>2. CASE AddAndFailToCompact(e)
          <6>1. next' = next + 1 /\ rotten' = FALSE /\ torn' = FALSE
            BY <3>4, <5>2 DEF AddAndFailToCompact
          <6>2. log' \in {log \cup {e}, Keep(M)} /\ mem' = M /\ meta' = meta
            BY <3>3, <5>2 DEF AddAndFailToCompact
          <6> QED
            BY <6>1, <6>2
        <5> QED
          BY <3>7, <5>1, <5>2
      <4>2. Same(log', M) /\ Same(mem', M) /\ Same(log', mem')
        BY <3>4, <3>5, <4>1
      <4>3. torn' = torn /\ rotten' = rotten /\ (unsure => unsure')
        BY <1>1, <3>4, <4>1
      <4>4. LineDown(e)
        BY <1>1, <3>3, <3>7, <4>1, <4>2, <4>3 DEF LineDown
      <4>5. meta'.state = "ready" /\ meta'.epoch = epoch
            /\ meta' \in [epoch : Nat, nextSeq : Nat \ {0}, state : {"none", "building", "ready", "rotten"}]
        <5>1. next' \in Nat \ {0} /\ epoch \in Nat
          BY <3>4, <4>1 DEF JInv, Typed
        <5>2. CASE meta' = meta
          BY <1>0, <3>6, <5>2 DEF JInv, Typed
        <5>3. CASE meta' = [epoch |-> epoch, nextSeq |-> next', state |-> "ready"]
          BY <5>1, <5>3
        <5> QED
          BY <4>1, <5>2, <5>3
      <4>6. StillStands
        BY <1>0, <1>1, <3>6, <4>5 DEF StillStands
      <4>7. Typed'
        <5>1. {torn', rotten', stranded', dirty', poisoned', unsure'} \subseteq BOOLEAN
          <6>1. stranded' \in BOOLEAN /\ dirty' \in BOOLEAN /\ unsure' \in BOOLEAN
            BY <1>1 DEF JInv, Typed
          <6>2. poisoned' \in BOOLEAN
            BY <3>7 DEF JInv, Typed
          <6> QED
            BY <4>1, <6>1, <6>2
        <5>2. next' \in Nat \ {0}
          BY <3>4, <4>1
        <5>3. bracket' \in [Key -> {Idle} \cup [stage : {"begun", "written"}, seq : Nat,
                                                origin : {"local", "remote"}, bound : BOOLEAN]]
          BY <1>0 DEF JInv, Typed
        <5> QED
          BY <1>1, <2>4, <4>5, <5>1, <5>2, <5>3 DEF JInv, Typed
      <4>8. Pushing'
        <5>1. SUFFICES ASSUME push # NoPush
                       PROVE  /\ Locals(mem', push.key) # {} /\ push.rev <= Latest(Locals(mem', push.key)).rev
                              /\ push.stage = "answered" /\ Latest(Locals(mem', push.key)).rev = push.rev =>
                                    folder[push.key].l <= peerHas[push.key] \/ LocalBegins(mem', push.key) # {}
          BY <1>1 DEF Pushing
        <5>2. e.origin = "remote" => \E g \in Dangling(mem, e.key) : g.seq = e.begin /\ g.origin = "remote"
          BY <2>1, <3>2
        <5>3. PICK L : L = mem'
          OBVIOUS
        <5>4. Same(L, mem \cup {e})
          BY <3>3, <4>2, <5>3
        <5>5. /\ Locals(L, push.key) # {} /\ push.rev <= Latest(Locals(L, push.key)).rev
              /\ push.stage = "answered" /\ Latest(Locals(L, push.key)).rev = push.rev =>
                    folder[push.key].l <= peerHas[push.key] \/ LocalBegins(L, push.key) # {}
          BY <1>0, <2>0, <3>2, <5>1, <5>2, <5>4, PushingAfterCommit
        <5> QED
          BY <5>3, <5>5
      <4>9. Goes(e)
        BY <4>4 DEF Goes
      <4>10. Brackets'
        <5>1. SUFFICES ASSUME NEW j \in Key, bracket'[j] # Idle
                       PROVE  /\ j \in cast'.keys /\ phase' \in {"open", "closed"} /\ dirty'
                              /\ BracketOf(log, j)' # {}
                              /\ phase' = "open" => BracketOf(mem, j)' # {} /\ bracket'[j].bound
          BY DEF Brackets
        <5>2. j # k /\ bracket'[j] = bracket[j] /\ bracket[j] # Idle
          BY <1>0, <5>1 DEF JInv, Typed
        <5> QED
          BY <1>1, <2>0, <3>2, <4>6, <4>9, <5>2, BracketsAfter
      <4>11. Made'
        BY <1>1 DEF JInv, Made
      <4>12. phase' = "open" /\ todo' = todo
        BY <1>0, <1>1
      <4> QED
        BY <1>0, <2>0, <3>2, <4>6, <4>7, <4>8, <4>9, <4>10, <4>11, <4>12, OpenLine
    <3>8. CASE FailedAppend(e) /\ UNCHANGED meta
      <4>1. Goes(e) /\ torn' \in BOOLEAN /\ rotten' = rotten /\ poisoned' = TRUE /\ mem' = mem /\ next' = next + 1
        BY <1>0, <1>1, <2>0, <3>2, <3>8, FailedAppendIsLost
      <4>2. Typed'
        <5>1. {torn', rotten', stranded', dirty', poisoned', unsure'} \subseteq BOOLEAN
          <6>1. stranded' \in BOOLEAN /\ dirty' \in BOOLEAN /\ unsure' \in BOOLEAN
            BY <1>1 DEF JInv, Typed
          <6> QED
            BY <3>4, <4>1, <6>1
        <5>2. next' \in Nat \ {0}
          BY <3>4, <4>1
        <5>3. bracket' \in [Key -> {Idle} \cup [stage : {"begun", "written"}, seq : Nat,
                                                origin : {"local", "remote"}, bound : BOOLEAN]]
          BY <1>0 DEF JInv, Typed
        <5> QED
          BY <1>1, <2>4, <3>8, <5>1, <5>2, <5>3 DEF JInv, Typed
      <4>3. Made' /\ Pushing'
        BY <1>1, <4>1 DEF JInv, Made, Pushing
      <4>4. StillStands /\ phase' = "open" /\ todo' = todo
        BY <1>0, <1>1, <3>8 DEF StillStands
      <4>5. Brackets'
        <5>1. SUFFICES ASSUME NEW j \in Key, bracket'[j] # Idle
                       PROVE  /\ j \in cast'.keys /\ phase' \in {"open", "closed"} /\ dirty'
                              /\ BracketOf(log, j)' # {}
                              /\ phase' = "open" => BracketOf(mem, j)' # {} /\ bracket'[j].bound
          BY DEF Brackets
        <5>2. j # k /\ bracket'[j] = bracket[j] /\ bracket[j] # Idle
          BY <1>0, <5>1 DEF JInv, Typed
        <5> QED
          BY <1>1, <2>0, <3>2, <4>1, <4>4, <5>2, BracketsAfter
      <4> QED
        BY <1>0, <2>0, <3>2, <4>1, <4>2, <4>3, <4>4, <4>5, OpenLine
    <3> QED
      BY <2>4, <3>1, <3>7, <3>8
  <2>5. faults \in Nat
    BY DEF JInv, Typed
  <2>6. CASE AddAndCompact(Answer(k, folder[k])) /\ UNCHANGED faults /\ UNCHANGED poisoned
    BY <2>4, <2>5, <2>6
  <2>7. CASE AddAndFailToCompact(Answer(k, folder[k])) /\ UNCHANGED poisoned
    <3>1. faults' \in Nat
      BY <2>5, <2>7 DEF AddAndFailToCompact, Fault, FaultWithin
    <3> QED
      BY <2>4, <2>7, <3>1
  <2>8. CASE Fault /\ AddAndCompact(Answer(k, NoDigest)) /\ UNCHANGED poisoned
    <3>1. faults' \in Nat
      BY <2>5, <2>8 DEF Fault, FaultWithin
    <3> QED
      BY <2>4, <2>8, <3>1
  <2>9. CASE FailedAppend(Answer(k, folder[k])) /\ UNCHANGED meta
    <3>1. faults' \in Nat
      BY <2>5, <2>9 DEF FailedAppend, Fault, FaultWithin
    <3> QED
      BY <2>4, <2>9, <3>1
  <2> QED
    BY <1>3, <2>6, <2>7, <2>8, <2>9 DEF Commit
<1> QED
  BY <1>2, <1>3

-----------------------------------------------------------------------------
(* Every step, and the theorems *)

\* Every step keeps the invariant.
LEMMA JournalStepKeeps == ASSUME JInv, ~Reload, [JournalNext]_journalVars PROVE JInv'
<1>1. CASE Load \/ MoveAside \/ DropMeta \/ BuildStart \/ BuildDone \/ OpenDone \/ Close \/ Die \/ Rot
  BY <1>1, LoadKeeps, MoveAsideKeeps, DropMetaKeeps, BuildStartKeeps, BuildDoneKeeps, OpenDoneKeeps, CloseKeeps, DieKeeps, RotKeeps
<1>2. CASE \E b \in mem : RecoverDangling(b)
  BY <1>2, RecoverDanglingKeeps
<1>3. ASSUME NEW k \in cast.keys, BuildKey(k) \/ Verify(k) \/ VerifyFails(k) \/ WriteSurface(k) \/ Commit(k) \/ Offer(k)
      PROVE  JInv'
  BY <1>3, BuildKeyKeeps, VerifyKeeps, VerifyFailsKeeps, WriteSurfaceKeeps, CommitKeeps, OfferKeeps
<1>4. ASSUME NEW k \in cast.keys, CommitToNobody(k) PROVE JInv'
  BY <1>4, BracketGivenUp DEF CommitToNobody, journalFiles, memory, others
<1>5. ASSUME NEW k \in cast.keys, NEW o \in {"local", "remote"}, Begin(k, o) PROVE JInv'
  BY <1>5, BeginKeeps
<1>6. CASE PushLost
  BY <1>6, PushGivenUp DEF PushLost, journalFiles, memory
<1>7. CASE Deliver \/ Ack \/ Pull
  BY <1>7, DeliverKeeps, AckKeeps, PullKeeps
<1>8. CASE UNCHANGED journalVars
  <2>1. UNCHANGED <<log, torn, rotten, stranded, meta, dirty, folder, before, made, phase, mem, next, epoch, poisoned,
                     unsure, todo, bracket, push, peerHas, follower, faults, rots, cast>>
    BY <1>8 DEF journalVars, journalFiles, memory, others
  <2>2. Typed' /\ Made' /\ Debts' /\ Pushing' /\ Reverts' /\ Covering' /\ Stages'
    <3>1. Typed'
      BY <2>1 DEF JInv, Typed
    <3>2. Made' /\ Debts' /\ Pushing' /\ Reverts' /\ Covering' /\ Stages'
      BY <2>1 DEF JInv, Made, Debts, Owed, Pushing, Reverts, True, Covering, Stages
    <3> QED
      BY <3>1, <3>2
  <2>3. Kept' /\ Epochs'
    <3>1. Kept'
      BY <2>1 DEF JInv, Kept, Sound, Fit, Up
    <3>2. Epochs'
      BY <2>1 DEF JInv, Epochs, Up, Coming, Named
    <3> QED
      BY <3>1, <3>2
  <2>4. Brackets'
    BY <2>1 DEF JInv, Brackets, BracketOf
  <2>5. Certain' /\ Followed'
    BY <2>1 DEF JInv, Certain, True, Up, Followed, Misses, Doubtful
  <2> QED
    BY <2>2, <2>3, <2>4, <2>5 DEF JInv
<1> QED
  BY <1>1, <1>2, <1>3, <1>4, <1>5, <1>6, <1>7, <1>8 DEF JournalNext

\* The inductive invariant, while the journal is opened once in a process.
THEOREM JournalInvariant == ASSUME ~Reload PROVE JournalSpec => []JInv
<1>1. JournalInit => JInv
  BY JournalStarts
<1>2. JInv /\ [JournalNext]_journalVars => JInv'
  BY JournalStepKeeps
<1> QED
  BY <1>1, <1>2, PTL DEF JournalSpec

\* The file is one the next open accepts: journalScan.ts:43-51, journal.ts:361-383.
THEOREM JournalWellFormed == ASSUME ~Reload PROVE JournalSpec => []WellFormed
<1>1. JInv => WellFormed
  <2>1. SUFFICES ASSUME JInv PROVE JournalTypes /\ LoadsItsOwnFile
    BY DEF WellFormed
  <2>2. LoadsItsOwnFile
    BY <2>1 DEF LoadsItsOwnFile, Refused, JInv, Kept, Sound, Epochs
  <2>3. (\A e \in log : e.key \in Key) /\ (\A e \in mem : e.seq \in 1 .. next - 1)
    <3>1. \A e \in mem : e.seq \in Nat \ {0} /\ e.seq < next
      BY <2>1 DEF JInv, Kept, Sound, Line
    <3> QED
      BY <2>1, <3>1 DEF JInv, Typed, Kept, Sound, Line
  <2>4. ASSUME NEW k \in Key
        PROVE  /\ folder[k].l \in 0 .. made[k].l /\ folder[k].r \in 0 .. made[k].r
               /\ peerHas[k] \in 0 .. made[k].l
    BY <2>1 DEF JInv, Typed, Made, Held
  <2>5. ASSUME NEW k \in Key PROVE bracket[k].stage \in {"idle", "begun", "written"}
    <3>1. bracket[k] = Idle \/ bracket[k].stage \in {"begun", "written"}
      BY <2>1 DEF JInv, Typed
    <3> QED
      BY <3>1 DEF Idle
  <2>6. push.stage \in {"none", "offered", "answered"}
    <3>1. push = NoPush \/ push.stage \in {"offered", "answered"}
      BY <2>1 DEF JInv, Typed
    <3> QED
      BY <3>1 DEF NoPush
  <2>7. /\ {torn, rotten, stranded, dirty, poisoned, unsure} \subseteq BOOLEAN
        /\ meta.state \in {"none", "building", "ready", "rotten"}
        /\ phase \in {"down", "aside", "build", "recover", "open", "closed"}
        /\ todo \subseteq Key
    BY <2>1 DEF JInv, Typed
  <2> QED
    BY <2>2, <2>3, <2>4, <2>5, <2>6, <2>7 DEF JournalTypes
<1> QED
  BY <1>1, JournalInvariant, PTL

\* What is asked of the index is what the file says.
LEMMA ReadySays ==
    ASSUME JInv, Ready, NEW k \in cast.keys
    PROVE  /\ k \in Key /\ Up /\ phase = "open" /\ todo = {}
           /\ stranded \/ Commits(log, k) # {}
           /\ Commits(log, k) = {} <=> Commits(mem, k) = {}
           /\ Commits(log, k) # {} => Latest(Commits(mem, k)) = Latest(Commits(log, k))
           /\ Locals(log, k) = {} <=> Locals(mem, k) = {}
           /\ Dangling(log, k) = Dangling(mem, k)
           /\ InOutbox(log, k) <=> InOutbox(mem, k)
<1>1. /\ Up /\ phase = "open" /\ ~poisoned /\ todo = {} /\ (stranded \/ Commits(log, k) # {}) /\ k \in Key
      /\ Sound(mem) /\ Same(log, mem)
  BY DEF Ready, Up, JInv, Stages, Kept, Typed
<1>2. next \in Nat /\ next # 0 /\ \A e \in mem : e.seq < next
  BY <1>1, UpIsNumbered
<1>3. /\ Commits(log, k) = {} <=> Commits(mem, k) = {}
      /\ Commits(mem, k) # {} => Latest(Commits(log, k)) = Latest(Commits(mem, k))
      /\ Locals(log, k) = {} <=> Locals(mem, k) = {}
      /\ InOutbox(log, k) <=> InOutbox(mem, k)
      /\ Dangling(log, k) = Dangling(mem, k)
  BY <1>1, <1>2, SameAsks
<1> QED
  BY <1>1, <1>3

\* A local edit in the folder is owed until the peer holds it: journal.ts:1159-1203.
THEOREM JournalOwes == ASSUME ~Reload PROVE JournalSpec => []EditsAreOwed
<1>1. JInv => EditsAreOwed
  <2>1. SUFFICES ASSUME JInv, Ready, NEW k \in cast.keys, Dangling(mem, k) = {}
                 PROVE  folder[k].l <= peerHas[k] \/ InOutbox(mem, k) \/ (stranded /\ Locals(mem, k) = {})
    BY DEF EditsAreOwed, Settled
  <2>2. Owed(log, k)
    <3>1. CASE Commits(log, k) # {}
      BY <2>1, <3>1 DEF JInv, Debts
    <3>2. CASE Commits(log, k) = {}
      <4>1. Locals(log, k) = {}
        BY <3>2 DEF Locals
      <4> QED
        BY <2>1, <3>2, <4>1, ReadySays DEF Owed
    <3> QED
      BY <3>1, <3>2
  <2>3. LocalBegins(log, k) = {}
    BY <2>1, ReadySays DEF LocalBegins
  <2> QED
    BY <2>1, <2>2, <2>3, ReadySays DEF Owed
<1> QED
  BY <1>1, JournalInvariant, PTL

\* A device that pulls misses nothing: journal.ts:1144-1157, :930-957.
THEOREM JournalIsFollowed == ASSUME ~Reload PROVE JournalSpec => []FollowersMissNothing
<1>1. JInv => FollowersMissNothing
  <2>1. SUFFICES ASSUME JInv, Ready, ~unsure, ~stranded, follower.epoch = epoch, NEW k \in cast.keys,
                        Latest(Commits(mem, k)).seq <= follower.since
                 PROVE  Covers(follower.got[k], Latest(Commits(mem, k)).digest)
    BY DEF FollowersMissNothing
  <2>2. SUFFICES ASSUME ~Covers(follower.got[k], Latest(Commits(mem, k)).digest) PROVE FALSE
    OBVIOUS
  <2>3. /\ Commits(log, k) # {} /\ Latest(Commits(mem, k)) = Latest(Commits(log, k))
        /\ Up /\ phase = "open" /\ todo = {}
    BY <2>1, ReadySays
  <2>4. Latest(Commits(log, k)).epoch = epoch
    <3>1. Commits(log, k) \subseteq log /\ log \in SUBSET Line /\ log \subseteq mem
          /\ next \in Nat /\ \A e \in log : e.seq <= next
      BY <2>1, <2>3, UpIsNumbered, PartsOfLines DEF Ready, JInv, Kept, Same
    <3>2. Latest(Commits(log, k)) \in mem
      <4>1. Latest(Commits(log, k)) \in Commits(log, k)
        BY <2>3, <3>1, LatestIs
      <4> QED
        BY <3>1, <4>1
    <3> QED
      BY <2>1, <2>3, <3>2 DEF JInv, Epochs
  <2>5. Misses(log, k)
    BY <2>1, <2>2, <2>3, <2>4 DEF Misses, Head
  <2>6. Doubtful(k)
    BY <2>1, <2>5 DEF JInv, Followed
  <2> QED
    BY <2>1, <2>3, <2>6 DEF Doubtful
<1> QED
  BY <1>1, JournalInvariant, PTL

\* An open that ends, ends over the lines it has.
LEMMA OnlyOpenDoneOpens ==
    ASSUME JournalNext, phase = "recover", phase' = "open"
    PROVE  OpenDone
<1>1. CASE Load \/ MoveAside \/ DropMeta \/ BuildStart \/ BuildDone \/ OpenDone \/ Close \/ Die \/ Rot
  BY <1>1 DEF Load, MoveAside, DropMeta, Opening, BuildStart, BuildDone, Close, Die, Rot, memory
<1>2. ASSUME NEW b \in mem, RecoverDangling(b) PROVE FALSE
  BY <1>2 DEF RecoverDangling, OpenBreaks
<1>3. ASSUME NEW k \in cast.keys, BuildKey(k) \/ Verify(k) \/ VerifyFails(k) PROVE FALSE
  BY <1>3 DEF BuildKey, Verify, VerifyFails, OpenBreaks
<1>4. ASSUME NEW k \in cast.keys, NEW o \in {"local", "remote"}, Begin(k, o) PROVE FALSE
  BY <1>4 DEF Begin
<1>5. ASSUME NEW k \in cast.keys, WriteSurface(k) \/ Commit(k) \/ CommitToNobody(k) \/ Offer(k) PROVE FALSE
  BY <1>5 DEF WriteSurface, Commit, CommitToNobody, Offer, memory
<1>6. CASE Deliver \/ PushLost \/ Ack \/ Pull
  BY <1>6 DEF Deliver, PushLost, Ack, Pull, memory
<1> QED
  BY <1>1, <1>2, <1>3, <1>4, <1>5, <1>6 DEF JournalNext

\* What the journal says of the folders is true: journal.ts:650-728, :993-1010, :1046-1086.
THEOREM JournalCertifies == ASSUME ~Reload PROVE JournalSpec => Certified
<1>1. JInv => FolderCertified /\ CleanMeansCertified
  <2>1. ASSUME JInv, Ready, ~unsure, NEW k \in cast.keys, Dangling(mem, k) = {}
        PROVE  (stranded /\ Commits(mem, k) = {}) \/ Latest(Commits(mem, k)).digest \in {folder[k], NoDigest}
    <3>1. True(log, k)
      BY <2>1, ReadySays DEF JInv, Certain
    <3> QED
      BY <2>1, <3>1, ReadySays DEF True, Head
  <2>2. ASSUME JInv, ~dirty, rots = 0, meta.state = "ready", NEW k \in cast.keys
        PROVE  Latest(Commits(log, k)).digest \in {folder[k], NoDigest}
    BY <2>2 DEF JInv, Kept, Certain, Stages, True, Head
  <2> QED
    BY <2>1, <2>2 DEF FolderCertified, CleanMeansCertified, Settled
<1>2. JInv /\ [JournalNext]_journalVars =>
         [phase = "recover" /\ phase' = "open" /\ dirty /\ ~unsure =>
             \A k \in Key : Digested(mem', k) # {} => Latest(Digested(mem', k)).digest = folder[k]]_journalVars
  <2>1. SUFFICES ASSUME JInv, JournalNext, phase = "recover", phase' = "open", dirty, ~unsure,
                        NEW k \in Key, Digested(mem', k) # {}
                 PROVE  Latest(Digested(mem', k)).digest = folder[k]
    OBVIOUS
  <2>2. /\ mem' = mem /\ todo = {} /\ Up
        /\ Sound(mem) /\ mem \in SUBSET Line /\ next \in Nat /\ \A e \in mem : e.seq <= next
    <3>1. OpenDone
      BY <2>1, OnlyOpenDoneOpens
    <3>2. mem' = mem /\ todo = {} /\ Up
      BY <2>1, <3>1 DEF OpenDone, Up
    <3> QED
      BY <2>1, <3>2, UpIsNumbered DEF JInv, Kept
  <2>3. PICK c : c = Latest(Digested(mem, k))
    OBVIOUS
  <2>4. c \in Digested(mem, k)
    <3>1. Digested(mem, k) \in SUBSET Line /\ Digested(mem, k) # {} /\ \A f \in Digested(mem, k) : f.seq <= next
      BY <2>1, <2>2, PartsOfLines
    <3> QED
      BY <2>2, <2>3, <3>1, LatestIs
  <2>5. c.digest # NoDigest /\ k \in cast.keys
    BY <2>2, <2>4 DEF Digested, Commits, Sound, Fit
  <2>6. LastDigest(mem, k) \in {NoDigest, folder[k]}
    BY <2>1, <2>2, <2>5 DEF JInv, Certain
  <2>7. LastDigest(mem, k) = c.digest
    BY <2>3, <2>4 DEF LastDigest
  <2> QED
    BY <2>2, <2>3, <2>5, <2>6, <2>7
<1> QED
  BY <1>1, <1>2, JournalInvariant, PTL DEF JournalSpec, Certified, OpensVerified

=============================================================================
