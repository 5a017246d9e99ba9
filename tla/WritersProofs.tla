--------------------------- MODULE WritersProofs ---------------------------
(***************************************************************************)
(* Proofs about a library that has more than one writer: the processes of   *)
(* one machine, which take turns, and the devices, each with a copy.        *)
(*                                                                         *)
(* The lock, and the way out of the application, for every set of processes *)
(* and edits.  What a process is about to move aside, or has moved, it judged *)
(* to be no living process's (Judged).  As long as nobody moved a record that *)
(* it had not judged, a holder's record is in its place (InPlace).  Among    *)
(* two processes it may be moved, but nobody is left to publish until it is  *)
(* put back (OrPutBack).                                                     *)
(*                                                                         *)
(* The merge is a semilattice on records that agree with themselves, for    *)
(* every set of tags and every value; and in Replicas no register goes back *)
(* but a tag a rename over the shelf writes, status and finished stay one   *)
(* fact, and devices that took in the same edits hold the same registers,   *)
(* for any number of devices, tags, edits and copies in flight.             *)
(***************************************************************************)
EXTENDS AppLife, Replicas, TLAPS, FiniteSetTheorems

-----------------------------------------------------------------------------
(* The processes of one machine. *)

\* A process has the lock until it has let go of it.
Has(p) == step[p] \in {"hold", "release", "unlink"}

\* Nobody writes a record before it begins.
Written == {p \in Proc : path = p \/ \E q \in Proc : seen[q] = p \/ aside[q] = p}

RecordsBegan == Written \subseteq Began

\* What is moved, or about to be, was judged to be no living process's.
Judged ==
    \A q \in Proc : step[q] \in {"move", "back"} /\ seen[q] \in Proc => step[seen[q]] = "dead"

\* As long as nobody moved what it had not judged: what was moved is what was
\* judged, and the record of a holder is in its place.
InPlace ==
    ~moved => /\ \A q \in Proc : step[q] = "back" => aside[q] = seen[q]
              /\ \A p \in Proc : Has(p) => path = p

Two == \A p, q, r \in Began : p = q \/ q = r \/ p = r

\* Of two processes: the record of a holder is in its place, or the other one has
\* it aside, to put it back or for good.
HeldAside(p) == path = None /\ \E q \in Proc : step[q] \in {"back", "dead"} /\ aside[q] = p

OrPutBack == Two => \A p \in Proc : Has(p) => path = p \/ HeldAside(p)

LockInv == LockTypes /\ IsFiniteSet(Began) /\ RecordsBegan /\ Judged /\ InPlace /\ OrPutBack

-----------------------------------------------------------------------------
(* Types *)

LEMMA LockInitTypes == LockInit => LockTypes
<1> SUFFICES ASSUME LockInit PROVE LockTypes
  OBVIOUS
<1>1. MaxCrashes \in Nat
  BY DataLockAssumption
<1>2. crashes = 0 /\ moved = FALSE
  BY DEF LockInit
<1>3. crashes \in 0 .. MaxCrashes
  BY <1>1, <1>2
<1> QED
  BY <1>2, <1>3 DEF LockInit, LockTypes, Step

LEMMA LockStepTypes == LockTypes /\ [LockNext]_lockVars => LockTypes'
<1> SUFFICES ASSUME LockTypes, [LockNext]_lockVars PROVE LockTypes'
  OBVIOUS
<1> USE DataLockAssumption DEF LockTypes, Goes, Step
<1>1. ASSUME NEW p \in Proc, Acquires(p) PROVE LockTypes'
  <2>1. CASE Publish(p)
    BY <2>1 DEF Publish, Free
  <2>2. CASE ReadOwner(p) \/ Look(p) \/ Judge(p) \/ Pause(p)
    BY <2>2 DEF ReadOwner, Look, Judge, Pause
  <2>3. CASE MoveAside(p)
    BY <2>3 DEF MoveAside
  <2>4. CASE PutBack(p)
    BY <2>4 DEF PutBack, Restored
  <2> QED
    BY <1>1, <2>1, <2>2, <2>3, <2>4 DEF Acquires
<1>2. ASSUME NEW p \in Proc, Begin(p) \/ Refused(p) \/ Finish(p) \/ Releases(p) PROVE LockTypes'
  BY <1>2 DEF Begin, Refused, Finish, Releases, LetGo, Unlink, Exit
<1>3. ASSUME NEW p \in Proc, Crash(p) PROVE LockTypes'
  BY <1>3 DEF Crash
<1>4. CASE UNCHANGED lockVars
  BY <1>4 DEF lockVars
<1> QED
  BY <1>1, <1>2, <1>3, <1>4 DEF LockNext

-----------------------------------------------------------------------------
(* One writer *)

\* What any step does to the steps of the processes: one goes on, no process begins
\* twice, and the dead stay dead.
LEMMA OneGoesOn ==
    ASSUME LockTypes, [LockNext]_lockVars
    PROVE  /\ Began \subseteq Began'
           /\ \A p \in Proc : step[p] = "dead" => step'[p] = "dead"
           /\ \E p : Began' \subseteq Began \cup {p}
<1> USE DEF LockTypes, Goes, Began
<1>1. ASSUME NEW p \in Proc, NEW s, s # "idle", step[p] # "dead", step' = [step EXCEPT ![p] = s]
      PROVE  /\ Began \subseteq Began'
             /\ \A q \in Proc : step[q] = "dead" => step'[q] = "dead"
             /\ \E q : Began' \subseteq Began \cup {q}
  BY <1>1
<1>2. ASSUME NEW p \in Proc,
             Begin(p) \/ Acquires(p) \/ Refused(p) \/ Finish(p) \/ Releases(p) \/ Crash(p)
      PROVE  step[p] # "dead" /\ \E s \in Step \ {"idle"} : step' = [step EXCEPT ![p] = s]
  BY <1>2 DEF Begin, Acquires, Refused, Finish, Releases, Crash, Publish, ReadOwner, Look, Judge,
              Pause, MoveAside, PutBack, LetGo, Unlink, Exit, Runs, Step
<1>3. CASE UNCHANGED lockVars
  BY <1>3 DEF lockVars
<1> QED
  BY <1>1, <1>2, <1>3 DEF LockNext


LEMMA RecordsStep == LockTypes /\ RecordsBegan /\ [LockNext]_lockVars => RecordsBegan'
<1> SUFFICES ASSUME LockTypes, RecordsBegan, [LockNext]_lockVars PROVE RecordsBegan'
  OBVIOUS
<1> USE DataLockAssumption DEF LockTypes, RecordsBegan, Written, Began, Goes
<1>1. ASSUME NEW p \in Proc, Acquires(p) PROVE RecordsBegan'
  <2>1. CASE Publish(p)
    BY <2>1 DEF Publish, Free
  <2>2. CASE ReadOwner(p) \/ Look(p) \/ Judge(p) \/ Pause(p)
    BY <2>2 DEF ReadOwner, Look, Judge, Pause
  <2>3. CASE MoveAside(p)
    BY <2>3 DEF MoveAside
  <2>4. CASE PutBack(p)
    BY <2>4 DEF PutBack, Restored
  <2> QED
    BY <1>1, <2>1, <2>2, <2>3, <2>4 DEF Acquires
<1>2. ASSUME NEW p \in Proc, Begin(p) \/ Refused(p) \/ Finish(p) \/ Releases(p) PROVE RecordsBegan'
  BY <1>2 DEF Begin, Refused, Finish, Releases, LetGo, Unlink, Exit
<1>3. ASSUME NEW p \in Proc, Crash(p) PROVE RecordsBegan'
  BY <1>3 DEF Crash
<1>4. CASE UNCHANGED lockVars
  BY <1>4 DEF lockVars
<1> QED
  BY <1>1, <1>2, <1>3, <1>4 DEF LockNext

LEMMA JudgedStep ==
    LockTypes /\ RecordsBegan /\ Judged /\ [LockNext]_lockVars => Judged'
<1> SUFFICES ASSUME LockTypes, RecordsBegan, Judged, [LockNext]_lockVars PROVE Judged'
  OBVIOUS
<1>1. \A p \in Proc : step[p] = "dead" => step'[p] = "dead"
  BY OneGoesOn
<1> USE <1>1, DataLockAssumption DEF LockTypes, Judged, Goes
<1>2. ASSUME NEW p \in Proc, Judge(p) PROVE Judged'
  <2>1. seen[p] \in Proc => step[seen[p]] # "idle"
    BY DEF RecordsBegan, Written, Began
  <2>2. step'[p] = "move" /\ seen[p] \in Proc => step[seen[p]] = "dead"
    BY <1>2, <2>1 DEF Judge, Gone, Runs
  <2> QED
    BY <1>2, <2>2 DEF Judge
<1>3. ASSUME NEW p \in Proc, Acquires(p), ~Judge(p) PROVE Judged'
  BY <1>3 DEF Acquires, Publish, ReadOwner, Look, Pause, MoveAside, PutBack
<1>4. ASSUME NEW p \in Proc, Begin(p) \/ Refused(p) \/ Finish(p) \/ Releases(p) \/ Crash(p)
      PROVE  Judged'
  BY <1>4 DEF Begin, Refused, Finish, Releases, LetGo, Unlink, Exit, Crash
<1>5. CASE UNCHANGED lockVars
  BY <1>5 DEF lockVars
<1> QED
  BY <1>2, <1>3, <1>4, <1>5 DEF LockNext

LEMMA InPlaceStep ==
    LockTypes /\ RecordsBegan /\ Judged /\ InPlace /\ [LockNext]_lockVars => InPlace'
<1> SUFFICES ASSUME LockTypes, RecordsBegan, Judged, InPlace, [LockNext]_lockVars, ~moved'
             PROVE  InPlace'
  BY DEF InPlace
<1> USE DataLockAssumption DEF LockTypes, InPlace, Has, Goes
<1>1. ~moved
  BY DEF LockNext, lockVars, Begin, Acquires, Refused, Finish, Releases, Crash, Publish, ReadOwner,
         Look, Judge, Pause, MoveAside, PutBack, LetGo, Unlink, Exit
<1> USE <1>1
<1>2. ASSUME NEW p \in Proc, Publish(p) PROVE InPlace'
  BY <1>2 DEF Publish, Free
<1>3. ASSUME NEW p \in Proc, ReadOwner(p) \/ Look(p) \/ Judge(p) \/ Pause(p) PROVE InPlace'
  BY <1>3 DEF ReadOwner, Look, Judge, Pause
<1>4. ASSUME NEW p \in Proc, MoveAside(p) PROVE InPlace'
  <2>1. path # None => path = seen[p]
    BY <1>4 DEF MoveAside
  <2>2. \A q \in Proc : Has(q) => path # seen[p]
    BY <1>4 DEF MoveAside, Judged
  <2> QED
    BY <1>4, <2>1, <2>2 DEF MoveAside
<1>5. ASSUME NEW p \in Proc, PutBack(p) PROVE InPlace'
  BY <1>5 DEF PutBack, IsJudged
<1>6. ASSUME NEW p \in Proc, Begin(p) \/ Refused(p) \/ Finish(p) \/ LetGo(p) \/ Exit(p) \/ Crash(p)
      PROVE  InPlace'
  BY <1>6 DEF Begin, Refused, Finish, LetGo, Mine, Exit, Crash
<1>7. ASSUME NEW p \in Proc, Unlink(p) PROVE InPlace'
  BY <1>7 DEF Unlink
<1>8. CASE UNCHANGED lockVars
  BY <1>8 DEF lockVars
<1> QED
  BY <1>2, <1>3, <1>4, <1>5, <1>6, <1>7, <1>8 DEF LockNext, Acquires, Releases

LEMMA OrPutBackStep ==
    LockTypes /\ RecordsBegan /\ Judged /\ OrPutBack /\ [LockNext]_lockVars => OrPutBack'
<1> SUFFICES ASSUME LockTypes, RecordsBegan, Judged, OrPutBack, [LockNext]_lockVars, Two'
             PROVE  OrPutBack'
  BY DEF OrPutBack
<1>1. Two
  BY OneGoesOn DEF Two
<1> USE <1>1, DataLockAssumption DEF LockTypes, OrPutBack, HeldAside, Has, Goes, Two, Began
<1>2. ASSUME NEW p \in Proc, Publish(p) PROVE OrPutBack'
  <2>1. \A q \in Proc : Has(q) => ~HeldAside(q)
    BY <1>2 DEF Publish
  <2> QED
    BY <1>2, <2>1 DEF Publish, Free
<1>3. ASSUME NEW p \in Proc, ReadOwner(p) \/ Look(p) \/ Judge(p) \/ Pause(p) PROVE OrPutBack'
  BY <1>3 DEF ReadOwner, Look, Judge, Pause
<1>4. ASSUME NEW p \in Proc, MoveAside(p) PROVE OrPutBack'
  <2>1. \A q \in Proc : Has(q) => q # p /\ ~HeldAside(q)
    BY <1>4 DEF MoveAside
  <2> QED
    BY <1>4, <2>1 DEF MoveAside
<1>5. ASSUME NEW p \in Proc, PutBack(p) PROVE OrPutBack'
  <2>1. \A q \in Proc : Has(q) => seen[p] # q
    BY <1>5 DEF PutBack, Judged
  <2>2. ASSUME NEW q \in Proc, Has(q), HeldAside(q) PROVE aside[p] = q
    BY <1>5, <2>2 DEF PutBack
  <2> QED
    BY <1>5, <2>1, <2>2 DEF PutBack, IsJudged, Restored
<1>6. ASSUME NEW p \in Proc, Begin(p) \/ Refused(p) \/ Finish(p) \/ LetGo(p) \/ Exit(p) \/ Crash(p)
      PROVE  OrPutBack'
  BY <1>6 DEF Begin, Refused, Finish, LetGo, Mine, Exit, Crash
<1>7. ASSUME NEW p \in Proc, Unlink(p) PROVE OrPutBack'
  <2>1. \A q \in Proc : Has(q) /\ q # p => FALSE
    BY <1>7 DEF Unlink
  <2> QED
    BY <1>7, <2>1 DEF Unlink
<1>8. CASE UNCHANGED lockVars
  BY <1>8 DEF lockVars
<1> QED
  BY <1>2, <1>3, <1>4, <1>5, <1>6, <1>7, <1>8 DEF LockNext, Acquires, Releases

LEMMA LockInitInv == LockInit => LockInv
<1> SUFFICES ASSUME LockInit PROVE LockInv
  OBVIOUS
<1>1. LockTypes
  BY LockInitTypes
<1>2. Began = {}
  BY DEF LockInit, Began
<1>3. RecordsBegan
  BY DataLockAssumption DEF LockInit, RecordsBegan, Written, Left
<1>4. Judged /\ InPlace /\ OrPutBack
  BY DEF LockInit, Judged, InPlace, OrPutBack, Has
<1> QED
  BY <1>1, <1>2, <1>3, <1>4, FS_EmptySet DEF LockInv

LEMMA LockStepInv == LockInv /\ [LockNext]_lockVars => LockInv'
<1> SUFFICES ASSUME LockInv, [LockNext]_lockVars PROVE LockInv'
  OBVIOUS
<1>1. LockTypes' /\ RecordsBegan' /\ Judged' /\ InPlace' /\ OrPutBack'
  BY LockStepTypes, RecordsStep, JudgedStep, InPlaceStep, OrPutBackStep DEF LockInv
<1>2. PICK p : Began' \subseteq Began \cup {p}
  BY OneGoesOn DEF LockInv
<1>3. IsFiniteSet(Began \cup {p})
  BY FS_AddElement DEF LockInv
<1>4. IsFiniteSet(Began')
  BY <1>2, <1>3, FS_Subset
<1> QED
  BY <1>1, <1>4 DEF LockInv

\* A set of at most one thing, and a finite one of at most two.
LEMMA AtMostOne ==
    ASSUME NEW S, \A p, q \in S : p = q
    PROVE  Cardinality(S) <= 1
<1>1. CASE S = {}
  BY <1>1, FS_EmptySet
<1>2. ASSUME NEW p \in S PROVE Cardinality(S) <= 1
  <2>1. S = {p}
    BY <1>2
  <2>2. Cardinality({p}) = 1
    BY FS_Singleton
  <2> QED
    BY <2>1, <2>2
<1> QED
  BY <1>1, <1>2

LEMMA AtMostTwo ==
    ASSUME NEW S, IsFiniteSet(S), Cardinality(S) <= 2,
           NEW p \in S, NEW q \in S, NEW r \in S
    PROVE  p = q \/ q = r \/ p = r
<1> SUFFICES ASSUME p # q, q # r, p # r PROVE FALSE
  OBVIOUS
<1>1. IsFiniteSet({p}) /\ Cardinality({p}) = 1
  BY FS_Singleton
<1>2. IsFiniteSet({p} \cup {q}) /\ Cardinality({p} \cup {q}) = 2
  <2>1. PICK one : one = {p}
    OBVIOUS
  <2>2. IsFiniteSet(one) /\ Cardinality(one) = 1 /\ q \notin one
    BY <1>1, <2>1
  <2>3. IsFiniteSet(one \cup {q}) /\ Cardinality(one \cup {q}) = Cardinality(one) + 1
    BY <2>2, FS_AddElement
  <2> QED
    BY <2>1, <2>2, <2>3
<1>3. Cardinality(({p} \cup {q}) \cup {r}) = 3
  <2>1. PICK two : two = {p} \cup {q}
    OBVIOUS
  <2>2. IsFiniteSet(two) /\ Cardinality(two) = 2 /\ r \notin two
    BY <1>2, <2>1
  <2>3. Cardinality(two \cup {r}) = Cardinality(two) + 1
    BY <2>2, FS_AddElement
  <2> QED
    BY <2>1, <2>2, <2>3
<1>4. ({p} \cup {q}) \cup {r} \subseteq S
  OBVIOUS
<1>5. Cardinality(({p} \cup {q}) \cup {r}) <= Cardinality(S) /\ Cardinality(S) \in Nat
  BY <1>4, FS_Subset, FS_CardinalityType
<1> QED
  BY <1>3, <1>5

LEMMA LockInvMeans == LockInv => OneWriter
<1> SUFFICES ASSUME LockInv, Cardinality(Began) <= 2 \/ ~moved
             PROVE  Cardinality(Holders) <= 1
  BY DEF OneWriter
<1> USE DEF LockInv
<1>1. ASSUME NEW p \in Holders, NEW q \in Holders PROVE p = q
  <2>1. Has(p) /\ Has(q) /\ p \in Proc /\ q \in Proc
    BY DEF Holders, Has
  <2>2. CASE ~moved
    BY <2>1, <2>2 DEF InPlace
  <2>3. CASE Cardinality(Began) <= 2
    <3>1. Two
      BY <2>3, AtMostTwo DEF Two
    <3>2. (path = p \/ HeldAside(p)) /\ (path = q \/ HeldAside(q))
      BY <2>1, <3>1 DEF OrPutBack
    <3> QED
      BY <2>1, <3>1, <3>2, DataLockAssumption DEF HeldAside, Two, Began, Has
  <2> QED
    BY <2>2, <2>3
<1> QED
  BY <1>1, AtMostOne

\* The locks' states are of their types.
THEOREM LockTypesCorrect == LockSpec => []LockTypes
<1>1. LockInv => LockTypes
  BY DEF LockInv
<1> QED
  BY <1>1, LockInitInv, LockStepInv, PTL DEF LockSpec

\* Two processes never both hold the library: for any number of them as long as
\* nobody moved a record that it had not judged, and for two whatever they do
\* (lock.ts:520-527).
THEOREM OneWriterAtATime == LockSpec => []OneWriter
BY LockInitInv, LockStepInv, LockInvMeans, PTL DEF LockSpec

-----------------------------------------------------------------------------
(***************************************************************************)
(* The way out.  Until a teardown aborts, the journal opens or is open, so   *)
(* every edit is in a bracket (BeforeAbort).  A teardown that failed at       *)
(* nothing has what it was owed in the journal once it aborts (WhatIsOwed),   *)
(* for nobody is owed anything after it began.  A request passes out behind   *)
(* an answer, or behind a line that says something (NoSilentExit); and the    *)
(* flag is up as long as a bracket can be left without an end (FlagIsUp).     *)
(***************************************************************************)
Ended == shell \in {"gone", "killed"}

BeforeAbort ==
    /\ ~Ended /\ phase \in {"idle", "flush", "settle", "drain", "abort"} =>
        /\ journal \in {"opening", "open"}
        /\ \A e \in Edit : stage[e] \notin {"bare", "orphan", "unjournalled"}
    /\ ~Ended /\ Aborted => journal # "open"
    /\ ~Ended /\ journal = "opening" => \A e \in Edit : stage[e] = "none"

WhatIsOwed ==
    ~Ended => \A e \in owed :
        /\ stage[e] # "none"
        /\ phase # "idle" => stage[e] # "held"
        /\ ~failed /\ phase \notin {"idle", "flush", "settle"} => stage[e] # "copying"
        /\ ~failed /\ phase \in {"abort", "quiesce", "answer", "done"} => stage[e] = "journalled"

NoSilentExit ==
    /\ Ended => ~doneSeen
    /\ doneSeen => phase = "done"
    /\ phase \in {"answer", "done"} => journal # "closing" /\ (failed => said)
    /\ shell \in {"heard", "finished", "exit"} /\ ~said => doneSeen
    /\ phase = "done" /\ ~said => doneSeen
    /\ ~Ended /\ window = "gone" /\ ~said => doneSeen

FlagIsUp ==
    /\ ~Ended /\ journal = "open" => flag
    /\ ~Ended /\ journal = "closed" /\ ~said /\ flag => Dangling

ExitInv == ExitTypes /\ BeforeAbort /\ WhatIsOwed /\ NoSilentExit /\ FlagIsUp /\ FlagCovers /\ LossIsSaid

-----------------------------------------------------------------------------
LEMMA ExitInitInv == ExitInit => ExitInv
<1> SUFFICES ASSUME ExitInit PROVE ExitInv
  OBVIOUS
<1>1. ExitTypes
  BY DEF ExitInit, ExitTypes, Stage, Phase, JournalState
<1>2. LeftOpen = {}
  BY DEF ExitInit, LeftOpen
<1> QED
  BY <1>1, <1>2 DEF ExitInit, ExitInv, BeforeAbort, WhatIsOwed, NoSilentExit, FlagIsUp, FlagCovers,
                    LossIsSaid, Aborted

LEMMA EditStepsKeep == ExitInv /\ EditSteps => ExitInv'
<1> SUFFICES ASSUME ExitInv, EditSteps PROVE ExitInv'
  OBVIOUS
<1> USE DEF ExitInv
<1>1. UNCHANGED <<journal, flag>> /\ UNCHANGED ExitRest /\ Alive
  BY DEF EditSteps, Make, HandOver, Bracket, Land, Commit
<1>2. PICK e \in Edit : Make(e) \/ HandOver(e) \/ Bracket(e) \/ Land(e) \/ Commit(e)
  BY DEF EditSteps
<1>3. ExitTypes'
  BY <1>1, <1>2 DEF ExitTypes, ExitRest, Make, HandOver, Bracket, Land, Commit, Moves, Stage
<1>4. BeforeAbort' /\ WhatIsOwed'
  BY <1>1, <1>2 DEF ExitTypes, ExitRest, Make, HandOver, Bracket, Land, Commit, Moves, Bound, Alive,
                    BeforeAbort, WhatIsOwed, Ended, Aborted, Phase
<1>5. NoSilentExit' /\ LossIsSaid'
  BY <1>1 DEF ExitRest, NoSilentExit, LossIsSaid, Ended, Alive
<1>6. LeftOpen # LeftOpen' => journal = "open"
  BY <1>2 DEF ExitTypes, LeftOpen, Make, HandOver, Bracket, Land, Commit, Moves, Bound
<1>7. FlagIsUp' /\ FlagCovers'
  BY <1>1, <1>6 DEF ExitRest, FlagIsUp, FlagCovers, Dangling, Ended, Alive
<1> QED
  BY <1>3, <1>4, <1>5, <1>7

LEMMA TeardownStepsKeep == ExitInv /\ TeardownSteps => ExitInv'
<1> SUFFICES ASSUME ExitInv, TeardownSteps PROVE ExitInv'
  OBVIOUS
<1> USE DEF ExitInv
<1>1. ~Ended /\ ~Ended' /\ UNCHANGED <<stage, owed>> /\ UNCHANGED window
  BY DEF TeardownSteps, Flushed, Settled, Drained, BoundRunsOut, Abort, Quiesced, Answer, JournalOpens,
         JournalCloses, TeardownRest, ExitRest, Alive, Ended
<1>2. LeftOpen' = LeftOpen
  BY <1>1 DEF LeftOpen
<1>3. LossIsSaid'
  BY <1>1 DEF LossIsSaid, Ended
<1>4. CASE Flushed \/ Settled \/ Drained \/ BoundRunsOut
  <2> USE <1>4 DEF Flushed, Settled, Drained, BoundRunsOut, TeardownRest
  <2>1. UNCHANGED <<said, journal, flag, doneSeen, shell>> /\ (failed => failed')
    <3>1. UNCHANGED <<said, journal, flag, doneSeen, shell>>
      OBVIOUS
    <3>2. failed' \in {failed, TRUE}
      BY DEF BoundFailure
    <3>3. failed' = failed \/ failed' = TRUE
      BY <3>2
    <3>4. failed => failed'
      BY <3>3
    <3> QED
      BY <3>1, <3>4
  <2>2. ExitTypes'
    BY <1>1, <2>1 DEF ExitTypes, Phase, BoundFailure
  <2>3. BeforeAbort'
    BY <1>1, <2>1 DEF BeforeAbort, Aborted
  <2>4. WhatIsOwed'
    BY <1>1, <2>1 DEF WhatIsOwed, ExitTypes, BeforeAbort, Idle, BoundFailure, Stage
  <2>5. NoSilentExit'
    BY <1>1, <2>1 DEF NoSilentExit
  <2>6. FlagIsUp' /\ FlagCovers'
    BY <1>1, <1>2, <2>1 DEF FlagIsUp, FlagCovers, Dangling
  <2> QED
    BY <1>3, <2>2, <2>3, <2>4, <2>5, <2>6
<1>5. CASE Abort \/ Quiesced
  <2> USE <1>5 DEF Abort, Quiesced, TeardownRest, Bound
  <2>1. ExitTypes'
    BY <1>1 DEF ExitTypes, Phase, JournalState
  <2>2. BeforeAbort'
    BY <1>1 DEF BeforeAbort, Aborted
  <2>3. WhatIsOwed'
    BY <1>1 DEF WhatIsOwed
  <2>4. /\ said => said'
        /\ phase' = "answer" => journal # "closing" /\ UNCHANGED journal /\ (failed' => said')
        /\ phase' \in {"quiesce", "answer"} /\ UNCHANGED <<shell, doneSeen, flag>>
    <3>1. CASE Abort
      BY <3>1
    <3>2. CASE Quiesced
      <4>1. failed' = failed /\ said' = (said \/ failed)
        BY <3>2
      <4>2. journal # "closing" /\ UNCHANGED journal /\ phase' = "answer"
        BY <3>2 DEF Quiet
      <4>3. UNCHANGED <<shell, doneSeen, flag>>
        BY <3>2
      <4> QED
        BY <4>1, <4>2, <4>3
    <3> QED
      BY <1>5, <3>1, <3>2
  <2>5. NoSilentExit'
    BY <1>1, <2>4 DEF NoSilentExit
  <2>6. FlagIsUp' /\ FlagCovers'
    BY <1>1, <1>2, <2>4 DEF FlagIsUp, FlagCovers, Dangling
  <2> QED
    BY <1>3, <2>1, <2>2, <2>3, <2>5, <2>6
<1>6. CASE Answer
  <2> USE <1>6 DEF Answer
  <2>1. ExitTypes'
    BY <1>1 DEF ExitTypes, Phase
  <2>2. BeforeAbort'
    BY <1>1 DEF BeforeAbort, Aborted
  <2>3. WhatIsOwed'
    BY <1>1 DEF WhatIsOwed
  <2>4. NoSilentExit'
    BY <1>1 DEF NoSilentExit
  <2>5. FlagIsUp' /\ FlagCovers'
    BY <1>1, <1>2 DEF FlagIsUp, FlagCovers, Dangling
  <2> QED
    BY <1>3, <2>1, <2>2, <2>3, <2>4, <2>5
<1>7. CASE JournalOpens \/ JournalCloses
  <2> USE <1>7 DEF JournalOpens, JournalCloses, ExitRest
  <2>1. ExitTypes'
    BY <1>1 DEF ExitTypes, JournalState, Dangling
  <2>2. BeforeAbort'
    BY <1>1 DEF BeforeAbort, Aborted, ExitTypes, Phase
  <2>3. WhatIsOwed'
    BY <1>1 DEF WhatIsOwed
  <2>4. NoSilentExit'
    BY <1>1 DEF NoSilentExit
  <2>5. FlagIsUp' /\ FlagCovers'
    BY <1>1, <1>2 DEF FlagIsUp, FlagCovers, Dangling
  <2> QED
    BY <1>3, <2>1, <2>2, <2>3, <2>4, <2>5
<1> QED
  BY <1>4, <1>5, <1>6, <1>7 DEF TeardownSteps

\* Whoever asks first begins the teardown.
LEMMA BeginTeardownKeeps ==
    ASSUME ExitInv, BeginTeardown, ~Ended,
           UNCHANGED <<owed, failed, said, journal, flag, doneSeen>>,
           shell' \in {"up", "asked", "listens", "heard", "finished", "exit"},
           window' \in {"open", "closing", "stuck", "gone"}, window' = "gone" => window = "gone",
           shell' \in {"heard", "finished", "exit"} => shell' = shell
    PROVE  ExitInv'
<1> USE DEF ExitInv, BeginTeardown
<1>1. ~Ended'
  BY DEF Ended
<1>2. ExitTypes'
  BY DEF ExitTypes, Stage, Phase
<1>3. BeforeAbort' /\ WhatIsOwed'
  BY <1>1 DEF ExitTypes, BeforeAbort, WhatIsOwed, Aborted
<1>4. NoSilentExit' /\ LossIsSaid'
  BY <1>1 DEF NoSilentExit, LossIsSaid, Ended
<1>5. LeftOpen' = LeftOpen
  BY DEF ExitTypes, LeftOpen
<1>6. FlagIsUp' /\ FlagCovers'
  BY <1>1, <1>5 DEF FlagIsUp, FlagCovers, Dangling
<1> QED
  BY <1>2, <1>3, <1>4, <1>6

LEMMA WindowAndShellKeep ==
    ExitInv /\ (PressClose \/ WindowCloses \/ ExitRequested \/ ShellSteps) => ExitInv'
<1> SUFFICES ASSUME ExitInv, PressClose \/ WindowCloses \/ ExitRequested \/ ShellSteps PROVE ExitInv'
  OBVIOUS
<1> USE DEF ExitInv
<1>1. CASE PressClose
  <2>1. ~Ended
    BY <1>1 DEF PressClose, Alive, Ended
  <2> QED
    BY <1>1, <2>1, BeginTeardownKeeps DEF PressClose, ExitTypes, Ended
<1>2. CASE WindowCloses \/ ExitRequested \/ Heard \/ GraceRunsOut
  <2> USE <1>2 DEF WindowCloses, ExitRequested, Heard, GraceRunsOut, ShellRest, Defers, Passes
  <2>1. UNCHANGED <<stage, owed, phase, failed, journal, flag, doneSeen>> /\ ~Ended /\ ~Ended'
    BY DEF Ended, Alive
  <2>2. LeftOpen' = LeftOpen
    BY <2>1 DEF LeftOpen
  <2>3. ExitTypes'
    BY <2>1 DEF ExitTypes
  <2>4. BeforeAbort' /\ WhatIsOwed' /\ LossIsSaid'
    BY <2>1 DEF BeforeAbort, WhatIsOwed, LossIsSaid, Aborted, Ended
  <2>5. NoSilentExit' /\ FlagIsUp' /\ FlagCovers'
    BY <2>1, <2>2 DEF NoSilentExit, FlagIsUp, FlagCovers, Dangling
  <2> QED
    BY <2>3, <2>4, <2>5
<1>3. CASE Ask
  <2>1. ~Ended
    BY <1>3 DEF Ask, Ended
  <2>2. CASE ~doneSeen /\ Alive
    BY <1>3, <2>1, <2>2, BeginTeardownKeeps DEF Ask, ShellRest, ExitTypes
  <2>3. CASE doneSeen \/ ~Alive
    <3> USE <1>3, <2>3 DEF Ask, ShellRest
    <3>1. /\ UNCHANGED <<stage, owed, phase, failed, said, journal, flag, doneSeen, window>> /\ ~Ended'
          /\ shell' = "finished" => doneSeen \/ window = "gone"
      BY <2>1 DEF Ended, Alive
    <3>2. LeftOpen' = LeftOpen
      BY <3>1 DEF LeftOpen
    <3>3. ExitTypes'
      BY <3>1 DEF ExitTypes
    <3>4. BeforeAbort' /\ WhatIsOwed' /\ LossIsSaid'
      BY <2>1, <3>1 DEF BeforeAbort, WhatIsOwed, LossIsSaid, Aborted, Ended
    <3>5. NoSilentExit' /\ FlagIsUp' /\ FlagCovers'
      BY <2>1, <3>1, <3>2 DEF NoSilentExit, FlagIsUp, FlagCovers, Dangling
    <3> QED
      BY <3>3, <3>4, <3>5
  <2> QED
    BY <2>2, <2>3
<1>4. CASE Ends
  <2> USE <1>4 DEF Ends, Forgets
  <2>1. Ended' /\ ~Ended
    BY DEF Ended
  <2>2. LeftOpen' = LeftOpen
    BY DEF LeftOpen
  <2>3. ~said => \A e \in owed : stage[e] = "journalled"
    BY <2>1 DEF NoSilentExit, WhatIsOwed
  <2>4. LossIsSaid'
    BY <2>3 DEF LossIsSaid, Lost
  <2>5. ExitTypes'
    BY DEF ExitTypes, Phase, JournalState
  <2>6. BeforeAbort' /\ WhatIsOwed' /\ NoSilentExit'
    BY <2>1 DEF BeforeAbort, WhatIsOwed, NoSilentExit
  <2>7. FlagIsUp' /\ FlagCovers'
    BY <2>1, <2>2 DEF FlagIsUp, FlagCovers
  <2> QED
    BY <2>4, <2>5, <2>6, <2>7
<1> QED
  BY <1>1, <1>2, <1>3, <1>4 DEF ShellSteps

LEMMA KilledKeeps == ExitInv /\ Killed => ExitInv'
<1> SUFFICES ASSUME ExitInv, Killed PROVE ExitInv'
  OBVIOUS
<1> USE DEF ExitInv, Killed, Forgets
<1>1. Ended'
  BY DEF Ended
<1>2. LeftOpen' = LeftOpen
  BY DEF ExitTypes, LeftOpen
<1>3. ExitTypes'
  BY DEF ExitTypes, Stage, Phase, JournalState
<1>4. BeforeAbort' /\ WhatIsOwed' /\ NoSilentExit' /\ LossIsSaid'
  BY <1>1 DEF BeforeAbort, WhatIsOwed, NoSilentExit, LossIsSaid
<1>5. FlagIsUp' /\ FlagCovers'
  BY <1>1, <1>2 DEF FlagIsUp, FlagCovers
<1> QED
  BY <1>3, <1>4, <1>5

LEMMA ExitStepInv == ExitInv /\ [ExitNext]_exitVars => ExitInv'
<1> SUFFICES ASSUME ExitInv, [ExitNext]_exitVars PROVE ExitInv'
  OBVIOUS
<1>1. CASE UNCHANGED exitVars
  BY <1>1 DEF exitVars, ExitInv, ExitTypes, BeforeAbort, WhatIsOwed, NoSilentExit, FlagIsUp,
              FlagCovers, LossIsSaid, Ended, Aborted, LeftOpen, Dangling, Lost
<1> QED
  BY <1>1, EditStepsKeep, TeardownStepsKeep, WindowAndShellKeep, KilledKeeps DEF ExitNext

LEMMA ExitInvMeans == ExitInv => SignsAreTrue
<1> SUFFICES ASSUME ExitInv PROVE CleanQuit
  BY DEF ExitInv, SignsAreTrue
<1> SUFFICES ASSUME doneSeen, ~failed
             PROVE  /\ journal # "closing"
                    /\ journal = "closed" => \A e \in owed : stage[e] = "journalled"
                    /\ journal = "closed" /\ ~said /\ LeftOpen = {} => ~flag
  BY DEF CleanQuit
<1>1. ~Ended /\ phase = "done"
  BY DEF ExitInv, NoSilentExit
<1> QED
  BY <1>1 DEF ExitInv, NoSilentExit, WhatIsOwed, FlagIsUp, Dangling

\* Whatever order the askers, the timers and the disk come in, what an answer, a
\* flag and a silence say is so (shutdown.ts:223, closeWindow.ts).
THEOREM SignsOfAnExit == ExitSpec => []SignsAreTrue
BY ExitInitInv, ExitStepInv, ExitInvMeans, PTL DEF ExitSpec

-----------------------------------------------------------------------------
(***************************************************************************)
(* The application and the commands.  Each half of the composition does only *)
(* what its own module lets it do, so what was shown of each holds of both.  *)
(***************************************************************************)
LEMMA LifeSteps == [LifeNext]_lifeVars => [LockNext]_lockVars /\ [ExitNext]_exitVars
<1> SUFFICES ASSUME [LifeNext]_lifeVars PROVE [LockNext]_lockVars /\ [ExitNext]_exitVars
  OBVIOUS
<1> USE AppLifeAssumption
<1>1. ASSUME NEW p \in Proc, CliStep(p) PROVE LockNext /\ UNCHANGED exitVars
  BY <1>1 DEF CliStep, LockNext
<1>2. CASE AppStarts
  BY <1>2 DEF AppStarts, LockNext, Acquires, Releases
<1>3. CASE AppRuns
  BY <1>3 DEF AppRuns, ExitNext
<1>4. CASE ShellRuns
  BY <1>4 DEF ShellRuns, ExitNext, ShellSteps
<1>5. CASE AppExits
  BY <1>5 DEF AppExits, LockNext, ExitNext
<1>6. CASE AppReleases
  BY <1>6 DEF AppReleases, LockNext, Releases
<1>7. CASE AppEnds
  BY <1>7 DEF AppEnds, LockNext, ExitNext, ShellSteps, Releases
<1>8. CASE AppKilled
  BY <1>8 DEF AppKilled, LockNext, ExitNext
<1>9. CASE UNCHANGED lifeVars
  BY <1>9 DEF lifeVars
<1> QED
  BY <1>1, <1>2, <1>3, <1>4, <1>5, <1>6, <1>7, <1>8, <1>9 DEF LifeNext

LEMMA LifeInv == LifeSpec => [](LockInv /\ ExitInv)
<1>1. LifeInit => LockInv /\ ExitInv
  BY LockInitInv, ExitInitInv DEF LifeInit
<1>2. LockInv /\ ExitInv /\ [LifeNext]_lifeVars => (LockInv /\ ExitInv)'
  BY LifeSteps, LockStepInv, ExitStepInv
<1> QED
  BY <1>1, <1>2, PTL DEF LifeSpec

\* The application is one more process on the lock: it takes and lets go of it as
\* the protocol has it, whenever its webview and its shell end (lib.rs:782-792).
THEOREM LifeKeepsTheProtocol == LifeSpec => LockSpec
<1>1. LifeInit => LockInit
  BY DEF LifeInit
<1> QED
  BY <1>1, LifeSteps, PTL DEF LifeSpec, LockSpec

\* Types, of the lock and of the way out.
THEOREM LifeTypesCorrect == LifeSpec => [](LockTypes /\ ExitTypes)
<1>1. LockInv /\ ExitInv => LockTypes /\ ExitTypes
  BY DEF LockInv, ExitInv
<1> QED
  BY <1>1, LifeInv, PTL

\* The application and the commands never both hold the library (lock.ts:520-527).
THEOREM LifeHasOneWriter == LifeSpec => []OneWriter
BY LifeInv, LockInvMeans, PTL

\* A quit loses no edit without a word, whoever shares the library (shutdown.ts:223).
THEOREM LifeSignsAreTrue == LifeSpec => []SignsAreTrue
BY LifeInv, ExitInvMeans, PTL

\* What was owed comes to the disk under the lock, or something said that it was no
\* longer waited for (lib.rs:782-785): the lock is let go of only behind a request
\* that passed, and one passes in silence only when nothing is owed any more.
THEOREM OwedLandsUnderLock == LifeSpec => LandsUnderLock
<1>1. ASSUME ExitInv, [LifeNext]_lifeVars
      PROVE  [\A e \in owed : stage[e] \in {"begun", "bare"} /\ stage'[e] # stage[e] => Up \/ said]_lifeVars
  <2> SUFFICES ASSUME LifeNext, NEW e \in owed, stage[e] \in {"begun", "bare"}, stage'[e] # stage[e],
                      ~said
               PROVE  Up
    BY <1>1
  <2>1. Up \/ shell = "exit"
    <3>1. ASSUME NEW p \in Proc, CliStep(p) PROVE FALSE
      BY <3>1 DEF CliStep, exitVars
    <3>2. CASE AppStarts \/ AppReleases
      BY <3>2 DEF AppStarts, AppReleases, exitVars
    <3>3. CASE AppEnds
      BY <3>3 DEF AppEnds, Ends
    <3> QED
      BY <3>1, <3>2, <3>3 DEF LifeNext, AppRuns, ShellRuns, AppExits, AppKilled
  <2>2. shell # "exit"
    BY <1>1 DEF ExitInv, NoSilentExit, WhatIsOwed, Ended
  <2> QED
    BY <2>1, <2>2
<1> QED
  BY <1>1, LifeInv, PTL DEF LifeSpec, LandsUnderLock

-----------------------------------------------------------------------------
(* The merge *)

\* What parseRecord answers for any file: finished follows a status that is set.
Agrees(r) == r.finished = FinishedBy(r.status, r.finished)

Agreeing == {r \in Record : Agrees(r)}

\* pick is a maximum: it does not matter who asks, in what groups, how often.
LEMMA PickJoins ==
    ASSUME NEW a \in Register, NEW b \in Register, NEW c \in Register
    PROVE  /\ Pick(a, b) \in {a, b} /\ Pick(a, b) \in Register
           /\ Pick(a, b) = Pick(b, a)
           /\ Pick(Pick(a, b), c) = Pick(a, Pick(b, c))
           /\ Pick(a, a) = a
           /\ a.at <= Pick(a, b).at
BY DEF Register, Unset, Pick

LEMMA MetaJoins ==
    ASSUME NEW a \in [parsed : Int, schema : Int, v : Int],
           NEW b \in [parsed : Int, schema : Int, v : Int],
           NEW c \in [parsed : Int, schema : Int, v : Int]
    PROVE  /\ MergeMeta(a, b) \in {a, b}
           /\ MergeMeta(a, b) = MergeMeta(b, a)
           /\ MergeMeta(MergeMeta(a, b), c) = MergeMeta(a, MergeMeta(b, c))
           /\ MergeMeta(a, a) = a
BY DEF MergeMeta

LEMMA DaysJoin ==
    ASSUME NEW a \in {-1} \cup Nat, NEW b \in {-1} \cup Nat, NEW c \in {-1} \cup Nat
    PROVE  /\ Earliest(a, b) \in {-1} \cup Nat
           /\ Earliest(a, b) = Earliest(b, a)
           /\ Earliest(Earliest(a, b), c) = Earliest(a, Earliest(b, c))
           /\ Earliest(a, a) = a
           /\ a # -1 => Earliest(a, b) \in 0 .. a
BY DEF Earliest

LEMMA OpensJoin ==
    ASSUME NEW a \in Int, NEW b \in Int, NEW c \in Int
    PROVE  /\ Latest(a, b) \in Int /\ Latest(a, b) = Latest(b, a)
           /\ Latest(Latest(a, b), c) = Latest(a, Latest(b, c))
           /\ Latest(a, a) = a
BY DEF Latest

LEMMA FinishedKeeps ==
    ASSUME NEW s \in Register, NEW f \in Register
    PROVE  /\ FinishedBy(s, f) \in Register
           /\ FinishedBy(s, FinishedBy(s, f)) = FinishedBy(s, f)
BY DEF FinishedBy, Register, Unset, Finished

LEMMA TagsJoin ==
    ASSUME NEW a \in [Tag -> Register], NEW b \in [Tag -> Register], NEW c \in [Tag -> Register]
    PROVE  /\ MergeTags(a, b) \in [Tag -> Register]
           /\ MergeTags(a, b) = MergeTags(b, a)
           /\ MergeTags(MergeTags(a, b), c) = MergeTags(a, MergeTags(b, c))
           /\ MergeTags(a, a) = a
<1> DEFINE ab == MergeTags(a, b)
           bc == MergeTags(b, c)
<1>1. /\ ab \in [Tag -> Register] /\ bc \in [Tag -> Register]
      /\ MergeTags(b, a) \in [Tag -> Register]
  BY PickJoins DEF MergeTags
<1>2. ASSUME NEW t \in Tag
      PROVE  /\ ab[t] = Pick(a[t], b[t]) /\ bc[t] = Pick(b[t], c[t])
             /\ MergeTags(b, a)[t] = ab[t]
             /\ Pick(ab[t], c[t]) = Pick(a[t], bc[t])
             /\ Pick(a[t], a[t]) = a[t]
  <2>1. a[t] \in Register /\ b[t] \in Register /\ c[t] \in Register
    OBVIOUS
  <2>2. /\ ab[t] = Pick(a[t], b[t]) /\ bc[t] = Pick(b[t], c[t])
        /\ MergeTags(b, a)[t] = Pick(b[t], a[t])
    BY DEF MergeTags
  <2> QED BY <2>1, <2>2, PickJoins
<1>3. ab = MergeTags(b, a)
  BY <1>1, <1>2
<1>4. MergeTags(ab, c) = MergeTags(a, bc)
  <2>1. MergeTags(ab, c) = [t \in Tag |-> Pick(ab[t], c[t])]
    BY <1>1 DEF MergeTags
  <2>2. MergeTags(a, bc) = [t \in Tag |-> Pick(a[t], bc[t])]
    BY DEF MergeTags
  <2> QED BY <1>2, <2>1, <2>2
<1>5. MergeTags(a, a) = a
  BY <1>2 DEF MergeTags
<1> QED BY <1>1, <1>3, <1>4, <1>5

LEMMA SettledFields ==
    ASSUME NEW r \in Agreeing
    PROVE  /\ r.meta \in [parsed : Int, schema : Int, v : Int]
           /\ r.position \in Register /\ r.status \in Register /\ r.finished \in Register
           /\ r.tags \in [Tag -> Register] /\ r.clocked \in BOOLEAN
           /\ r.added \in {-1} \cup Nat /\ r.opened \in Int
           /\ r.finished = FinishedBy(r.status, r.finished)
BY DEF Agreeing, Record, Agrees

\* finished by the status that won, whichever way the others were grouped.
LEMMA FinishedJoins ==
    ASSUME NEW a \in Agreeing, NEW b \in Agreeing, NEW c \in Agreeing
    PROVE  FinishedBy(Pick(Pick(a.status, b.status), c.status),
                      Pick(FinishedBy(Pick(a.status, b.status), Pick(a.finished, b.finished)),
                           c.finished))
           = FinishedBy(Pick(a.status, Pick(b.status, c.status)),
                      Pick(a.finished,
                           FinishedBy(Pick(b.status, c.status), Pick(b.finished, c.finished))))
<1>1. /\ a.status \in Register /\ b.status \in Register /\ c.status \in Register
      /\ a.finished \in Register /\ b.finished \in Register /\ c.finished \in Register
  BY SettledFields
<1>2. Pick(Pick(a.status, b.status), c.status) = Pick(a.status, Pick(b.status, c.status))
  BY <1>1, PickJoins
<1>3. CASE Pick(a.status, Pick(b.status, c.status)).at = -1
  <2>1. a.status.at = -1 /\ b.status.at = -1 /\ c.status.at = -1
    BY <1>1, <1>3 DEF Pick, Register, Unset
  <2>2. Pick(a.status, b.status).at = -1 /\ Pick(b.status, c.status).at = -1
    BY <2>1 DEF Pick
  <2>3. Pick(Pick(a.finished, b.finished), c.finished)
        = Pick(a.finished, Pick(b.finished, c.finished))
    BY <1>1, PickJoins
  <2> QED BY <1>2, <1>3, <2>2, <2>3 DEF FinishedBy
<1>4. CASE Pick(a.status, Pick(b.status, c.status)).at # -1
  BY <1>2, <1>4 DEF FinishedBy
<1> QED BY <1>3, <1>4

\* What is read as a clock of tags is one after the merge, and nothing else is.
LEMMA ClocksJoin ==
    ASSUME NEW a \in Agreeing, NEW b \in Agreeing
    PROVE  /\ HasRegisters(a) \in BOOLEAN /\ HasRegisters(b) \in BOOLEAN
           /\ Join(a, b).clocked = (HasRegisters(a) \/ HasRegisters(b))
           /\ HasRegisters(Join(a, b)) <=> HasRegisters(a) \/ HasRegisters(b)
<1>1. /\ a.tags \in [Tag -> Register] /\ b.tags \in [Tag -> Register]
      /\ a.clocked \in BOOLEAN /\ b.clocked \in BOOLEAN
  BY SettledFields
<1>2. /\ HasRegisters(a) <=> a.clocked \/ \E t \in Tag : a.tags[t] # Unset
      /\ HasRegisters(b) <=> b.clocked \/ \E t \in Tag : b.tags[t] # Unset
  BY <1>1 DEF HasRegisters
<1>3. HasRegisters(a) \in BOOLEAN /\ HasRegisters(b) \in BOOLEAN
  BY <1>1 DEF HasRegisters
<1>4. Join(a, b).clocked = (HasRegisters(a) \/ HasRegisters(b))
  BY DEF Join
<1>5. /\ Join(a, b).tags \in [Tag -> Register]
      /\ \A t \in Tag : Join(a, b).tags[t] \in {a.tags[t], b.tags[t]}
  <2>1. Join(a, b).tags = [t \in Tag |-> Pick(a.tags[t], b.tags[t])]
    BY <1>1 DEF Join, MergeTags
  <2> QED BY <1>1, <2>1, PickJoins
<1>6. HasRegisters(Join(a, b)) <=>
          Join(a, b).clocked \/ \E t \in Tag : Join(a, b).tags[t] # Unset
  BY <1>5 DEF HasRegisters
<1>7. (\E t \in Tag : Join(a, b).tags[t] # Unset) => HasRegisters(a) \/ HasRegisters(b)
  BY <1>2, <1>5
<1> QED BY <1>3, <1>4, <1>6, <1>7

LEMMA JoinAgrees ==
    ASSUME NEW a \in Agreeing, NEW b \in Agreeing
    PROVE  Join(a, b) \in Agreeing
<1> DEFINE s == Pick(a.status, b.status)
           f == FinishedBy(s, Pick(a.finished, b.finished))
           g == MergeTags(a.tags, b.tags)
<1>1. /\ Pick(a.position, b.position) \in Register /\ s \in Register
      /\ Pick(a.finished, b.finished) \in Register
  BY SettledFields, PickJoins
<1>2. f \in Register /\ FinishedBy(s, f) = f
  <2> HIDE DEF s
  <2> QED BY <1>1, FinishedKeeps
<1>3. g \in [Tag -> Register]
  BY SettledFields, TagsJoin
<1>4. /\ MergeMeta(a.meta, b.meta) \in [parsed : Int, schema : Int, v : Int]
      /\ Earliest(a.added, b.added) \in {-1} \cup Nat
      /\ Latest(a.opened, b.opened) \in Int
  <2>1. MergeMeta(a.meta, b.meta) \in {a.meta, b.meta}
    BY DEF MergeMeta
  <2>2. Earliest(a.added, b.added) \in {a.added, b.added}
    BY DEF Earliest
  <2>3. Latest(a.opened, b.opened) \in {a.opened, b.opened}
    BY DEF Latest
  <2> QED BY <2>1, <2>2, <2>3, SettledFields
<1>5. (HasRegisters(a) \/ HasRegisters(b)) \in BOOLEAN
  BY ClocksJoin
<1>6. Join(a, b) = [meta |-> MergeMeta(a.meta, b.meta), position |-> Pick(a.position, b.position),
                    status |-> s, finished |-> f, tags |-> g,
                    clocked |-> HasRegisters(a) \/ HasRegisters(b),
                    added |-> Earliest(a.added, b.added), opened |-> Latest(a.opened, b.opened)]
  BY DEF Join
<1> HIDE DEF s, f, g
<1> QED BY <1>1, <1>2, <1>3, <1>4, <1>5, <1>6 DEF Agreeing, Record, Agrees

\* The body of the merge has an order of its own; but for the list of tags it
\* turns into a clock, a record joined with itself is what it was.
LEMMA JoinSettles ==
    ASSUME NEW a \in Agreeing, NEW b \in Agreeing, NEW c \in Agreeing
    PROVE  /\ Join(a, b) = Join(b, a)
           /\ Join(Join(a, b), c) = Join(a, Join(b, c))
           /\ Join(Join(a, b), b) = Join(a, b)
           /\ Registers(Join(a, a)) = Registers(a)
<1>1. Join(a, b) = Join(b, a)
  <2>1. (HasRegisters(a) \/ HasRegisters(b)) = (HasRegisters(b) \/ HasRegisters(a))
    OBVIOUS
  <2> QED BY <2>1, SettledFields, PickJoins, MetaJoins, DaysJoin, OpensJoin, TagsJoin DEF Join
<1>2. Join(Join(a, b), c) = Join(a, Join(b, c))
  <2>1. /\ Pick(Pick(a.position, b.position), c.position)
           = Pick(a.position, Pick(b.position, c.position))
        /\ Pick(Pick(a.status, b.status), c.status) = Pick(a.status, Pick(b.status, c.status))
    BY SettledFields, PickJoins
  <2>2. FinishedBy(Pick(Pick(a.status, b.status), c.status),
                   Pick(FinishedBy(Pick(a.status, b.status), Pick(a.finished, b.finished)), c.finished))
        = FinishedBy(Pick(a.status, Pick(b.status, c.status)),
                   Pick(a.finished, FinishedBy(Pick(b.status, c.status), Pick(b.finished, c.finished))))
    BY FinishedJoins
  <2>3. /\ MergeMeta(MergeMeta(a.meta, b.meta), c.meta) = MergeMeta(a.meta, MergeMeta(b.meta, c.meta))
        /\ MergeTags(MergeTags(a.tags, b.tags), c.tags) = MergeTags(a.tags, MergeTags(b.tags, c.tags))
    BY SettledFields, MetaJoins, TagsJoin
  <2>4. /\ Earliest(Earliest(a.added, b.added), c.added) = Earliest(a.added, Earliest(b.added, c.added))
        /\ Latest(Latest(a.opened, b.opened), c.opened) = Latest(a.opened, Latest(b.opened, c.opened))
    <3>1. /\ a.added \in {-1} \cup Nat /\ b.added \in {-1} \cup Nat /\ c.added \in {-1} \cup Nat
          /\ a.opened \in Int /\ b.opened \in Int /\ c.opened \in Int
      BY SettledFields
    <3> QED BY <3>1 DEF Earliest, Latest
  <2>5. (HasRegisters(Join(a, b)) \/ HasRegisters(c)) = (HasRegisters(a) \/ HasRegisters(Join(b, c)))
    <3>1. /\ HasRegisters(Join(a, b)) <=> HasRegisters(a) \/ HasRegisters(b)
          /\ HasRegisters(Join(b, c)) <=> HasRegisters(b) \/ HasRegisters(c)
      BY ClocksJoin
    <3> QED BY <3>1
  <2> QED BY <2>1, <2>2, <2>3, <2>4, <2>5 DEF Join
<1>3. Join(Join(a, b), b) = Join(a, b)
  <2> DEFINE s == Pick(a.status, b.status)
             f == Pick(a.finished, b.finished)
  <2>1. /\ Pick(Pick(a.position, b.position), b.position) = Pick(a.position, b.position)
        /\ Pick(s, b.status) = s /\ Pick(f, b.finished) = f
    <3>1. ASSUME NEW x \in Register, NEW y \in Register PROVE Pick(Pick(x, y), y) = Pick(x, y)
      BY PickJoins
    <3> QED BY <3>1, SettledFields
  <2>2. FinishedBy(s, Pick(FinishedBy(s, f), b.finished)) = FinishedBy(s, f)
    BY <2>1 DEF FinishedBy
  <2>3. MergeMeta(MergeMeta(a.meta, b.meta), b.meta) = MergeMeta(a.meta, b.meta)
    BY SettledFields, MetaJoins
  <2>4. MergeTags(MergeTags(a.tags, b.tags), b.tags) = MergeTags(a.tags, b.tags)
    BY SettledFields, TagsJoin
  <2>5. /\ Earliest(Earliest(a.added, b.added), b.added) = Earliest(a.added, b.added)
        /\ Latest(Latest(a.opened, b.opened), b.opened) = Latest(a.opened, b.opened)
    <3>1. a.opened \in Int /\ b.opened \in Int /\ a.added \in {-1} \cup Nat /\ b.added \in {-1} \cup Nat
      BY SettledFields
    <3> QED BY <3>1 DEF Earliest, Latest
  <2>6. (HasRegisters(Join(a, b)) \/ HasRegisters(b)) = (HasRegisters(a) \/ HasRegisters(b))
    <3>1. HasRegisters(Join(a, b)) <=> HasRegisters(a) \/ HasRegisters(b)
      BY ClocksJoin
    <3> QED BY <3>1
  <2> HIDE DEF s, f
  <2>7. /\ Join(a, b).status = s /\ Join(a, b).finished = FinishedBy(s, f)
        /\ Join(a, b).position = Pick(a.position, b.position)
        /\ Join(a, b).meta = MergeMeta(a.meta, b.meta) /\ Join(a, b).tags = MergeTags(a.tags, b.tags)
        /\ Join(a, b).added = Earliest(a.added, b.added) /\ Join(a, b).opened = Latest(a.opened, b.opened)
    BY DEF Join, s, f
  <2>8. Join(a, b) = [meta |-> MergeMeta(a.meta, b.meta), position |-> Pick(a.position, b.position),
                      status |-> s, finished |-> FinishedBy(s, f), tags |-> MergeTags(a.tags, b.tags),
                      clocked |-> HasRegisters(a) \/ HasRegisters(b),
                      added |-> Earliest(a.added, b.added), opened |-> Latest(a.opened, b.opened)]
    BY DEF Join, s, f
  <2>9. Join(Join(a, b), b) =
          [meta |-> MergeMeta(Join(a, b).meta, b.meta), position |-> Pick(Join(a, b).position, b.position),
           status |-> Pick(Join(a, b).status, b.status),
           finished |-> FinishedBy(Pick(Join(a, b).status, b.status), Pick(Join(a, b).finished, b.finished)),
           tags |-> MergeTags(Join(a, b).tags, b.tags),
           clocked |-> HasRegisters(Join(a, b)) \/ HasRegisters(b),
           added |-> Earliest(Join(a, b).added, b.added), opened |-> Latest(Join(a, b).opened, b.opened)]
    BY DEF Join
  <2> QED BY <2>1, <2>2, <2>3, <2>4, <2>5, <2>6, <2>7, <2>8, <2>9
<1>4. Registers(Join(a, a)) = Registers(a)
  <2>1. /\ Pick(a.position, a.position) = a.position /\ Pick(a.status, a.status) = a.status
        /\ Pick(a.finished, a.finished) = a.finished
    BY SettledFields, PickJoins
  <2>2. MergeTags(a.tags, a.tags) = a.tags
    BY SettledFields, TagsJoin
  <2>3. Earliest(a.added, a.added) = a.added
    BY DEF Earliest
  <2>4. a.finished = FinishedBy(a.status, a.finished)
    BY SettledFields
  <2> QED BY <2>1, <2>2, <2>3, <2>4 DEF Join, Registers
<1> QED BY <1>1, <1>2, <1>3, <1>4

\* mergeRecord is a semilattice (merge.ts:1-8): two devices that exchange their
\* copies agree, three may exchange in any order, and an echo changes nothing.
THEOREM MergeIsSemilattice ==
    ASSUME NEW a \in Agreeing, NEW b \in Agreeing, NEW c \in Agreeing
    PROVE  /\ MergeRecord(a, b) \in Agreeing
           /\ MergeRecord(a, b) = MergeRecord(b, a)
           /\ MergeRecord(MergeRecord(a, b), c) = MergeRecord(a, MergeRecord(b, c))
           /\ MergeRecord(MergeRecord(a, b), b) = MergeRecord(a, b)
<1>1. MergeRecord(a, b) \in Agreeing
  BY JoinAgrees DEF MergeRecord
<1>2. MergeRecord(a, b) = MergeRecord(b, a)
  BY JoinSettles DEF MergeRecord
<1>3. MergeRecord(MergeRecord(a, b), b) = MergeRecord(a, b)
  BY JoinSettles DEF MergeRecord
\* Where the three are not one, both ways are the body of the merge of all three.
<1>4. ASSUME NEW x \in Agreeing, NEW y \in Agreeing, NEW z \in Agreeing, ~(x = y /\ y = z)
      PROVE  MergeRecord(MergeRecord(x, y), z) = Join(Join(x, y), z)
  <2>1. CASE x = y
    <3>1. MergeRecord(MergeRecord(x, y), z) = Join(x, z)
      BY <1>4, <2>1 DEF MergeRecord
    <3>2. Join(Join(x, x), z) = Join(Join(z, x), x)
      <4>1. Join(x, x) \in Agreeing /\ Join(z, x) \in Agreeing
        BY JoinAgrees
      <4>2. Join(Join(x, x), z) = Join(z, Join(x, x)) /\ Join(Join(z, x), x) = Join(z, Join(x, x))
        BY <4>1, JoinSettles
      <4> QED BY <4>2
    <3>3. Join(Join(z, x), x) = Join(z, x) /\ Join(z, x) = Join(x, z)
      BY JoinSettles
    <3> QED BY <2>1, <3>1, <3>2, <3>3
  <2>2. CASE x # y /\ Join(x, y) = z
    <3>1. MergeRecord(MergeRecord(x, y), z) = z
      BY <2>2 DEF MergeRecord
    <3>2. Join(Join(x, y), Join(x, y)) = Join(x, y)
      <4>1. Join(Join(x, y), Join(x, y)) = Join(Join(Join(x, y), x), y)
        BY JoinAgrees, JoinSettles
      <4>2. Join(Join(x, y), x) = Join(x, y)
        <5>1. Join(Join(y, x), x) = Join(y, x) /\ Join(x, y) = Join(y, x)
          BY JoinSettles
        <5> QED BY <5>1
      <4>3. Join(Join(x, y), y) = Join(x, y)
        BY JoinSettles
      <4> QED BY <4>1, <4>2, <4>3
    <3> QED BY <2>2, <3>1, <3>2
  <2>3. CASE x # y /\ Join(x, y) # z
    BY <2>3 DEF MergeRecord
  <2> QED BY <2>1, <2>2, <2>3
<1>5. MergeRecord(MergeRecord(a, b), c) = MergeRecord(a, MergeRecord(b, c))
  <2>1. CASE a = b /\ b = c
    BY <2>1 DEF MergeRecord
  <2>2. CASE ~(a = b /\ b = c)
    <3>1. MergeRecord(MergeRecord(a, b), c) = Join(Join(a, b), c)
      BY <1>4, <2>2
    <3>2. MergeRecord(MergeRecord(b, c), a) = Join(Join(b, c), a)
      BY <1>4, <2>2
    <3>3. MergeRecord(b, c) \in Agreeing /\ Join(b, c) \in Agreeing
      BY JoinAgrees DEF MergeRecord
    <3>4. MergeRecord(MergeRecord(b, c), a) = MergeRecord(a, MergeRecord(b, c))
      <4> DEFINE bc == MergeRecord(b, c)
      <4> HIDE DEF bc
      <4>1. bc \in Agreeing => MergeRecord(bc, a) = MergeRecord(a, bc)
        BY JoinSettles DEF MergeRecord
      <4> QED BY <3>3, <4>1 DEF bc
    <3>5. Join(Join(b, c), a) = Join(a, Join(b, c)) /\ Join(Join(a, b), c) = Join(a, Join(b, c))
      BY <3>3, JoinSettles
    <3> QED BY <3>1, <3>2, <3>4, <3>5
  <2> QED BY <2>1, <2>2
<1> QED BY <1>1, <1>2, <1>3, <1>5

\* What a merge does to the registers, the shortcut for equal records included.
LEMMA MergesAsPicks ==
    ASSUME NEW a \in Agreeing, NEW b \in Agreeing
    PROVE  LET m == MergeRecord(a, b) IN
           /\ m \in Agreeing
           /\ m.position = Pick(a.position, b.position) /\ m.status = Pick(a.status, b.status)
           /\ \A t \in Tag : m.tags[t] = Pick(a.tags[t], b.tags[t])
           /\ m.added = Earliest(a.added, b.added)
<1>1. CASE a = b
  <2>1. \A x \in Register : Pick(x, x) = x
    BY PickJoins
  <2>2. Earliest(a.added, a.added) = a.added
    BY DEF Earliest
  <2> QED BY <1>1, <2>1, <2>2, SettledFields DEF MergeRecord
<1>2. CASE a # b
  <2>1. MergeRecord(a, b) = Join(a, b) /\ Join(a, b) \in Agreeing
    BY <1>2, JoinAgrees DEF MergeRecord
  <2>2. \A t \in Tag : Join(a, b).tags[t] = Pick(a.tags[t], b.tags[t])
    BY SettledFields DEF Join, MergeTags
  <2> QED BY <2>1, <2>2 DEF Join
<1> QED BY <1>1, <1>2

-----------------------------------------------------------------------------
(* The devices *)

\* Every copy anywhere agrees with itself, and a list of tags names no stamp that
\* somebody gave: none of those is missing from a message.
RecordsSettle ==
    /\ rec \in [Device -> Agreeing]
    /\ \A m \in sent : m.rec \in Agreeing

Listed(r) == ~r.clocked => \A t \in Tag : ~Issued(r.tags[t].at)

ListsAreOld ==
    /\ \A d \in Device : Listed(rec[d])
    /\ \A m \in sent : Listed(m.rec)

\* No stamp on a device that somebody gave is above the floor its next is taken
\* over.
UnderFloor ==
    /\ floor \in [Device -> Nat]
    /\ \A d \in Device :
        /\ Issued(rec[d].position.at) => rec[d].position.at <= floor[d]
        /\ Issued(rec[d].status.at) => rec[d].status.at <= floor[d]
        /\ \A t \in Tag : Issued(rec[d].tags[t].at) => rec[d].tags[t].at <= floor[d]

\* So is the stamp a rename took, which is above those of the tags it found.
TakenUnderFloor ==
    /\ taken \in [Device -> Nat]
    /\ found \in [Device -> [Tag -> Register]]
    /\ \A d \in Device :
        /\ taken[d] <= floor[d]
        /\ taken[d] # 0 => \A t \in Tag : Issued(found[d][t].at) => found[d][t].at < taken[d]

IInv == RecordsSettle /\ ListsAreOld /\ UnderFloor /\ TakenUnderFloor

LEMMA LegacySettles == Legacy \subseteq Agreeing
BY LegacyAssumption DEF Agreeing, Agrees

LEMMA StampsAreInts ==
    ASSUME NEW r \in Agreeing
    PROVE  /\ r.position.at \in Int /\ r.status.at \in Int /\ r.finished.at \in Int
           /\ \A t \in Tag : r.tags[t].at \in Int
           /\ r.added \in {-1} \cup Nat
BY DEF Agreeing, Record, Register, Unset

\* A stamp is somebody's, and new.
LEMMA StampsAreIssued ==
    ASSUME IInv, NEW d \in Device, NEW at \in Stamp(d)
    PROVE  /\ at \in Nat /\ at > floor[d] /\ floor[d] \in Nat
           /\ Giver(at) = d /\ Issued(at)
<1>1. at \in 1 .. MaxStamp /\ Giver(at) = d /\ at > floor[d]
  BY DEF Stamp, StampsOf
<1>2. d # 0 /\ floor[d] \in Nat
  BY DEF Device, IInv, UnderFloor
<1> QED BY <1>1, <1>2 DEF Issued

LEMMA InitSettles == Init => IInv
<1> SUFFICES ASSUME Init PROVE IInv
  OBVIOUS
<1>1. RecordsSettle
  BY LegacySettles DEF Init, RecordsSettle
<1>2. ASSUME NEW d \in Device
      PROVE  /\ ~Issued(rec[d].position.at) /\ ~Issued(rec[d].status.at)
             /\ \A t \in Tag : ~Issued(rec[d].tags[t].at)
  <2>1. rec[d] \in Legacy
    BY DEF Init
  <2> QED BY <2>1, LegacyAssumption
<1>3. ListsAreOld
  BY <1>2 DEF Init, ListsAreOld, Listed
<1>4. UnderFloor
  BY <1>2 DEF Init, UnderFloor
<1>5. TakenUnderFloor
  BY DEF Init, TakenUnderFloor, Register, Unset
<1> QED BY <1>1, <1>3, <1>4, <1>5 DEF IInv

\* What a step is to a device's registers.
Forward ==
    \A d \in Device :
        /\ Issued(rec[d].position.at) => rec[d].position.at <= rec'[d].position.at
        /\ Issued(rec[d].status.at) => rec[d].status.at <= rec'[d].status.at
        /\ \A t \in Tag : Issued(rec[d].tags[t].at) =>
              \/ rec[d].tags[t].at <= rec'[d].tags[t].at
              \/ Renaming(d) /\ rec[d].tags[t] # found[d][t]
        /\ rec[d].added # -1 => rec'[d].added \in 0 .. rec[d].added

\* A stamped edit of one device: an agreeing record, whose registers are those
\* held or carry the new stamp.
LEMMA EditSettles ==
    ASSUME IInv, NEW d \in Device, NEW at \in Stamp(d), NEW old, NEW next \in Agreeing,
           StampedChange(d, at, old, next),
           next.position.at \in {rec[d].position.at, at},
           next.status.at \in {rec[d].status.at, at},
           \A t \in Tag : next.tags[t].at \in {rec[d].tags[t].at, at},
           next.clocked \/ (~rec[d].clocked /\ next.tags = rec[d].tags),
           next.added = rec[d].added
    PROVE  IInv' /\ Forward
<1>1. at \in Nat /\ at > floor[d] /\ floor[d] \in Nat /\ Issued(at)
  BY StampsAreIssued
<1>2. /\ rec' = [rec EXCEPT ![d] = next] /\ floor' = [floor EXCEPT ![d] = at]
      /\ sent' = sent /\ taken' = taken /\ found' = found
  BY <1>1 DEF StampedChange, Change, Latest
<1>3. RecordsSettle'
  BY <1>2 DEF IInv, RecordsSettle
<1>4. ListsAreOld'
  BY <1>2 DEF IInv, RecordsSettle, ListsAreOld, Listed
<1>5. TakenUnderFloor'
  BY <1>1, <1>2 DEF IInv, TakenUnderFloor, UnderFloor
<1>6. ASSUME NEW e \in Device
      PROVE  /\ rec[e] \in Agreeing
             /\ rec'[e] = IF e = d THEN next ELSE rec[e]
             /\ floor'[e] = IF e = d THEN at ELSE floor[e]
             /\ floor[e] \in Nat
             /\ Issued(rec[e].position.at) => rec[e].position.at <= floor[e]
             /\ Issued(rec[e].status.at) => rec[e].status.at <= floor[e]
             /\ \A t \in Tag : Issued(rec[e].tags[t].at) => rec[e].tags[t].at <= floor[e]
  BY <1>2 DEF IInv, RecordsSettle, UnderFloor
<1>7. UnderFloor'
  <2>1. floor' \in [Device -> Nat]
    BY <1>1, <1>2 DEF IInv, UnderFloor
  <2>2. ASSUME NEW s \in Int, NEW e \in Device, Issued(s) => s <= floor[e]
        PROVE  Issued(s) => s <= floor'[e]
    BY <1>1, <1>6, <2>2
  <2>3. ASSUME NEW e \in Device
        PROVE  /\ Issued(rec[e].position.at) => rec[e].position.at <= floor'[e]
               /\ Issued(rec[e].status.at) => rec[e].status.at <= floor'[e]
               /\ \A t \in Tag : Issued(rec[e].tags[t].at) => rec[e].tags[t].at <= floor'[e]
    BY <1>6, <2>2, StampsAreInts
  <2>4. floor'[d] = at /\ at <= at
    BY <1>1, <1>6
  <2> QED BY <1>6, <2>1, <2>3, <2>4 DEF UnderFloor
<1>8. Forward
  <2>1. ASSUME NEW s \in Int, NEW n \in {s, at}, Issued(s) => s <= floor[d]
        PROVE  Issued(s) => s <= n
    BY <1>1, <2>1
  <2>2. /\ Issued(rec[d].position.at) => rec[d].position.at <= next.position.at
        /\ Issued(rec[d].status.at) => rec[d].status.at <= next.status.at
        /\ \A t \in Tag : Issued(rec[d].tags[t].at) => rec[d].tags[t].at <= next.tags[t].at
    BY <1>6, <2>1, StampsAreInts
  <2>3. ASSUME NEW e \in Device
        PROVE  /\ rec[e].position.at <= rec[e].position.at /\ rec[e].status.at <= rec[e].status.at
               /\ \A t \in Tag : rec[e].tags[t].at <= rec[e].tags[t].at
               /\ rec[e].added # -1 => rec[e].added \in 0 .. rec[e].added
    BY <1>6, StampsAreInts
  <2> QED BY <1>6, <2>2, <2>3 DEF Forward
<1> QED BY <1>3, <1>4, <1>5, <1>7, <1>8 DEF IInv

LEMMA ReceiveSettles ==
    ASSUME IInv, NEW d \in Device, NEW m \in sent, Receive(d, m)
    PROVE  IInv' /\ Forward
<1> DEFINE next == MergeRecord(rec[d], m.rec)
<1>1. rec[d] \in Agreeing /\ m.rec \in Agreeing
  BY DEF IInv, RecordsSettle
<1>2. next \in Agreeing
  BY <1>1, MergesAsPicks
<1>3. PICK top \in StampsIn(m.rec) \cup {floor[d]} :
        /\ \A at \in StampsIn(m.rec) \cup {floor[d]} : at <= top
        /\ floor' = [floor EXCEPT ![d] = top]
  BY DEF Receive
<1>4. /\ m.rec.position.at \in StampsIn(m.rec) /\ m.rec.status.at \in StampsIn(m.rec)
      /\ m.rec.clocked => \A t \in Tag : m.rec.tags[t].at \in StampsIn(m.rec)
  BY DEF StampsIn
<1>5. floor[d] \in Nat /\ floor[d] <= top /\ top \in Nat
  <2>1. StampsIn(m.rec) \subseteq Int
    BY <1>1, StampsAreInts DEF StampsIn
  <2> QED BY <1>3, <2>1 DEF IInv, UnderFloor
<1>6. /\ next.position = Pick(rec[d].position, m.rec.position)
      /\ next.status = Pick(rec[d].status, m.rec.status)
      /\ \A t \in Tag : next.tags[t] = Pick(rec[d].tags[t], m.rec.tags[t])
      /\ next.added = Earliest(rec[d].added, m.rec.added)
  BY <1>1, MergesAsPicks
<1>7. /\ rec[d].position \in Register /\ m.rec.position \in Register
      /\ rec[d].status \in Register /\ m.rec.status \in Register
      /\ \A t \in Tag : rec[d].tags[t] \in Register /\ m.rec.tags[t] \in Register
      /\ rec[d].added \in {-1} \cup Nat /\ m.rec.added \in {-1} \cup Nat
  BY <1>1, SettledFields
<1>8. ASSUME NEW a \in Register, NEW b \in Register,
             Issued(a.at) => a.at <= floor[d], Issued(b.at) => b.at <= top
      PROVE  a.at <= Pick(a, b).at /\ (Issued(Pick(a, b).at) => Pick(a, b).at <= top)
  <2>1. Issued(a.at) => a.at <= top
    <3>1. a.at \in Int
      BY DEF Register, Unset
    <3> QED BY <1>5, <1>8, <3>1
  <2> QED BY <1>8, <2>1, PickJoins
<1>9. /\ rec[d].position.at <= next.position.at
      /\ Issued(next.position.at) => next.position.at <= top
      /\ rec[d].status.at <= next.status.at
      /\ Issued(next.status.at) => next.status.at <= top
      /\ \A t \in Tag : /\ rec[d].tags[t].at <= next.tags[t].at
                        /\ Issued(next.tags[t].at) => next.tags[t].at <= top
  <2>1. /\ Issued(rec[d].position.at) => rec[d].position.at <= floor[d]
        /\ Issued(rec[d].status.at) => rec[d].status.at <= floor[d]
        /\ \A t \in Tag : Issued(rec[d].tags[t].at) => rec[d].tags[t].at <= floor[d]
    BY DEF IInv, UnderFloor
  <2>2. /\ m.rec.position.at <= top /\ m.rec.status.at <= top
        /\ \A t \in Tag : Issued(m.rec.tags[t].at) => m.rec.tags[t].at <= top
    <3>1. ~m.rec.clocked => \A t \in Tag : ~Issued(m.rec.tags[t].at)
      BY DEF IInv, ListsAreOld, Listed
    <3> QED BY <1>3, <1>4, <3>1
  <2> HIDE DEF next
  <2> QED BY <1>6, <1>7, <1>8, <2>1, <2>2
<1>10. rec[d].added # -1 => next.added \in 0 .. rec[d].added
  BY <1>6, <1>7, DaysJoin
<1>11. rec' = [rec EXCEPT ![d] = next] /\ sent' = sent /\ taken' = taken /\ found' = found
  BY DEF Receive
<1>12. Listed(next)
  <2>1. CASE rec[d] = m.rec
    BY <2>1 DEF MergeRecord, IInv, ListsAreOld
  <2>2. CASE rec[d] # m.rec
    <3>1. next = Join(rec[d], m.rec)
      BY <2>2 DEF MergeRecord
    <3>2. /\ HasRegisters(Join(rec[d], m.rec)) <=> HasRegisters(rec[d]) \/ HasRegisters(m.rec)
          /\ Join(rec[d], m.rec).clocked = (HasRegisters(rec[d]) \/ HasRegisters(m.rec))
      BY <1>1, ClocksJoin
    <3>3. ~next.clocked => ~HasRegisters(next)
      BY <3>1, <3>2
    <3>4. ~HasRegisters(next) => \A t \in Tag : next.tags[t] = Unset
      BY <1>2, SettledFields DEF HasRegisters
    <3>5. ~Issued(Unset.at)
      BY DEF Issued, Unset
    <3> HIDE DEF next
    <3> QED BY <3>3, <3>4, <3>5 DEF Listed
  <2> QED BY <2>1, <2>2
<1> HIDE DEF next
<1>13. ASSUME NEW e \in Device
       PROVE  /\ rec[e] \in Agreeing
              /\ rec'[e] = IF e = d THEN next ELSE rec[e]
              /\ floor'[e] = IF e = d THEN top ELSE floor[e]
  BY <1>3, <1>11 DEF IInv, RecordsSettle, UnderFloor
<1>14. RecordsSettle'
  BY <1>2, <1>11 DEF IInv, RecordsSettle
<1>15. ListsAreOld'
  BY <1>11, <1>12, <1>13 DEF IInv, ListsAreOld
<1>16. UnderFloor'
  <2>1. floor' \in [Device -> Nat]
    BY <1>3, <1>5 DEF IInv, UnderFloor
  <2> QED BY <1>9, <1>13, <2>1 DEF IInv, UnderFloor
<1>17. TakenUnderFloor'
  <2>1. \A e \in Device : taken[e] <= floor'[e]
    BY <1>3, <1>5, <1>13 DEF IInv, TakenUnderFloor, UnderFloor
  <2> QED BY <1>11, <2>1 DEF IInv, TakenUnderFloor
<1>18. Forward
  <2>1. ASSUME NEW e \in Device
        PROVE  /\ rec[e].position.at <= rec[e].position.at /\ rec[e].status.at <= rec[e].status.at
               /\ \A t \in Tag : rec[e].tags[t].at <= rec[e].tags[t].at
               /\ rec[e].added # -1 => rec[e].added \in 0 .. rec[e].added
    BY <1>13, StampsAreInts
  <2> QED BY <1>9, <1>10, <1>13, <2>1 DEF Forward
<1> QED BY <1>14, <1>15, <1>16, <1>17, <1>18 DEF IInv

\* A step that leaves the stamped registers of every device as they are.
LEMMA UnstampedSettles ==
    ASSUME IInv, RecordsSettle', ListsAreOld', UNCHANGED floor, UNCHANGED <<taken, found>>,
           \A d \in Device : /\ rec'[d].position = rec[d].position
                             /\ rec'[d].status = rec[d].status
                             /\ rec'[d].tags = rec[d].tags
                             /\ rec'[d].added = rec[d].added
    PROVE  IInv' /\ Forward
<1>1. UnderFloor' /\ TakenUnderFloor'
  BY DEF IInv, UnderFloor, TakenUnderFloor
<1>2. ASSUME NEW d \in Device
      PROVE  /\ rec[d].position.at <= rec[d].position.at /\ rec[d].status.at <= rec[d].status.at
             /\ \A t \in Tag : rec[d].tags[t].at <= rec[d].tags[t].at
             /\ rec[d].added # -1 => rec[d].added \in 0 .. rec[d].added
  BY StampsAreInts DEF IInv, RecordsSettle
<1>3. Forward
  BY <1>2 DEF Forward
<1> QED BY <1>1, <1>3 DEF IInv

\* A rename takes its stamp, above that of every tag it finds: only the floor
\* moves, and it goes up.
LEMMA StartRenameSettles ==
    ASSUME IInv, NEW d \in Device, StartRename(d)
    PROVE  IInv' /\ Forward
<1>1. PICK at \in Stamp(d) : /\ taken' = [taken EXCEPT ![d] = at]
                              /\ floor' = [floor EXCEPT ![d] = at]
  BY DEF StartRename
<1>2. at \in Nat /\ at > floor[d] /\ floor[d] \in Nat
  BY StampsAreIssued
<1>3. rec' = rec /\ sent' = sent /\ found' = [found EXCEPT ![d] = rec[d].tags]
  BY DEF StartRename
<1>4. ASSUME NEW e \in Device
      PROVE  /\ rec[e] \in Agreeing /\ rec[e].tags \in [Tag -> Register]
             /\ floor[e] \in Nat /\ taken[e] \in Nat /\ taken[e] <= floor[e]
             /\ floor'[e] = IF e = d THEN at ELSE floor[e]
             /\ taken'[e] = IF e = d THEN at ELSE taken[e]
             /\ found'[e] = IF e = d THEN rec[d].tags ELSE found[e]
  BY <1>1, <1>3, SettledFields DEF IInv, RecordsSettle, UnderFloor, TakenUnderFloor
<1>5. RecordsSettle' /\ ListsAreOld'
  BY <1>3 DEF IInv, RecordsSettle, ListsAreOld
<1>6. UnderFloor'
  <2>1. floor' \in [Device -> Nat]
    BY <1>1, <1>2 DEF IInv, UnderFloor
  <2>2. ASSUME NEW s \in Int, NEW e \in Device, Issued(s) => s <= floor[e]
        PROVE  Issued(s) => s <= floor'[e]
    BY <1>2, <1>4, <2>2
  <2>3. ASSUME NEW e \in Device
        PROVE  /\ Issued(rec[e].position.at) => rec[e].position.at <= floor'[e]
               /\ Issued(rec[e].status.at) => rec[e].status.at <= floor'[e]
               /\ \A t \in Tag : Issued(rec[e].tags[t].at) => rec[e].tags[t].at <= floor'[e]
    BY <1>4, <2>2, StampsAreInts DEF IInv, UnderFloor
  <2> QED BY <1>3, <2>1, <2>3 DEF UnderFloor
<1>7. TakenUnderFloor'
  <2>1. taken' \in [Device -> Nat] /\ found' \in [Device -> [Tag -> Register]]
    BY <1>1, <1>2, <1>3, <1>4 DEF IInv, TakenUnderFloor
  <2>2. ASSUME NEW t \in Tag, Issued(rec[d].tags[t].at) PROVE rec[d].tags[t].at < at
    <3>1. rec[d].tags[t].at <= floor[d]
      BY <2>2 DEF IInv, UnderFloor
    <3>2. rec[d].tags[t].at \in Int
      BY <1>4, StampsAreInts
    <3> QED BY <1>2, <3>1, <3>2
  <2>3. \A e \in Device : taken'[e] <= floor'[e]
    BY <1>2, <1>4
  <2> QED BY <1>4, <2>1, <2>2, <2>3 DEF IInv, TakenUnderFloor
<1>8. Forward
  <2>1. ASSUME NEW e \in Device
        PROVE  /\ rec[e].position.at <= rec[e].position.at /\ rec[e].status.at <= rec[e].status.at
               /\ \A t \in Tag : rec[e].tags[t].at <= rec[e].tags[t].at
               /\ rec[e].added # -1 => rec[e].added \in 0 .. rec[e].added
    BY <1>4, StampsAreInts
  <2> QED BY <1>3, <2>1 DEF Forward
<1> QED BY <1>5, <1>6, <1>7, <1>8 DEF IInv

\* A rename reaches the book: one tag is written with the stamp it took, which
\* the floor is at or above, and which is above the tag if it is the one found.
LEMMA RenameReachesSettles ==
    ASSUME IInv, NEW d \in Device, NEW t \in Tag, RenameReaches(d, t)
    PROVE  IInv' /\ Forward
<1> DEFINE tags == [rec[d].tags EXCEPT ![t] = [at |-> taken[d], v |-> 0]]
           next == [rec[d] EXCEPT !.tags = tags, !.clocked = TRUE]
<1>1. /\ rec[d] \in Agreeing /\ taken[d] \in Nat /\ taken[d] <= floor[d]
      /\ floor[d] \in Nat
  BY DEF IInv, RecordsSettle, TakenUnderFloor, UnderFloor
<1>2. /\ rec' = [rec EXCEPT ![d] = next] /\ sent' = sent /\ floor' = floor
      /\ taken' = [taken EXCEPT ![d] = 0] /\ taken[d] # 0
      /\ found' = [found EXCEPT ![d] = [u \in Tag |-> Unset]]
  BY <1>1 DEF RenameReaches, Change, WithTag
<1>3. /\ tags \in [Tag -> Register] /\ tags[t].at = taken[d]
      /\ \A u \in Tag : u # t => tags[u] = rec[d].tags[u]
  BY <1>1, SettledFields DEF Register
<1> HIDE DEF tags
<1>4. next \in Agreeing /\ next.clocked
  BY <1>1, <1>3 DEF Agreeing, Record, Agrees
<1>5. /\ next.position = rec[d].position /\ next.status = rec[d].status
      /\ next.tags = tags /\ next.added = rec[d].added
  BY <1>1 DEF Agreeing, Record
<1> HIDE DEF next
<1>6. ASSUME NEW e \in Device
      PROVE  /\ rec[e] \in Agreeing
             /\ rec'[e] = IF e = d THEN next ELSE rec[e]
             /\ taken'[e] = IF e = d THEN 0 ELSE taken[e]
             /\ floor[e] \in Nat /\ taken[e] <= floor[e] /\ taken[e] \in Nat
             /\ Issued(rec[e].position.at) => rec[e].position.at <= floor[e]
             /\ Issued(rec[e].status.at) => rec[e].status.at <= floor[e]
             /\ \A u \in Tag : Issued(rec[e].tags[u].at) => rec[e].tags[u].at <= floor[e]
  BY <1>2 DEF IInv, RecordsSettle, UnderFloor, TakenUnderFloor
<1>7. RecordsSettle' /\ ListsAreOld'
  BY <1>2, <1>4, <1>6 DEF IInv, RecordsSettle, ListsAreOld, Listed
<1>8. UnderFloor'
  <2>1. \A u \in Tag : Issued(tags[u].at) => tags[u].at <= floor[d]
    BY <1>1, <1>3, <1>6
  <2> QED BY <1>2, <1>5, <1>6, <2>1 DEF IInv, UnderFloor
<1>9. TakenUnderFloor'
  <2>1. [u \in Tag |-> Unset] \in [Tag -> Register]
    BY DEF Register
  <2>2. taken' \in [Device -> Nat] /\ found' \in [Device -> [Tag -> Register]]
    BY <1>2, <2>1 DEF IInv, TakenUnderFloor
  <2>3. \A e \in Device : taken'[e] <= floor[e]
    BY <1>6
  <2>4. \A e \in Device : e # d => found'[e] = found[e]
    BY <1>2 DEF IInv, TakenUnderFloor
  <2> QED BY <1>2, <1>6, <2>2, <2>3, <2>4 DEF IInv, TakenUnderFloor
<1>10. Forward
  <2>1. ASSUME NEW e \in Device
        PROVE  /\ rec[e].position.at <= rec[e].position.at /\ rec[e].status.at <= rec[e].status.at
               /\ \A u \in Tag : rec[e].tags[u].at <= rec[e].tags[u].at
               /\ rec[e].added # -1 => rec[e].added \in 0 .. rec[e].added
    BY <1>6, StampsAreInts
  <2>2. Renaming(d)
    BY <1>2, <1>6 DEF Renaming
  <2>3. ASSUME Issued(rec[d].tags[t].at), rec[d].tags[t] = found[d][t]
        PROVE  rec[d].tags[t].at <= tags[t].at
    <3>1. rec[d].tags[t].at < taken[d]
      BY <1>2, <2>3 DEF IInv, TakenUnderFloor
    <3>2. rec[d].tags[t].at \in Int
      BY <1>1, StampsAreInts
    <3> QED BY <1>1, <1>3, <3>1, <3>2
  <2>4. \A u \in Tag : Issued(rec[d].tags[u].at) =>
            \/ rec[d].tags[u].at <= tags[u].at
            \/ Renaming(d) /\ rec[d].tags[u] # found[d][u]
    BY <1>3, <2>1, <2>2, <2>3
  <2> QED BY <1>5, <1>6, <2>1, <2>4 DEF Forward
<1> QED BY <1>7, <1>8, <1>9, <1>10 DEF IInv

\* One step for each action of Next.
LEMMA StepSettles ==
    ASSUME IInv, [Next]_vars
    PROVE  IInv' /\ Forward
<1>1. ASSUME NEW d \in Device, NEW state \in {Want, Reading, Finished}, SetStatus(d, state)
      PROVE  IInv' /\ Forward
  <2>1. PICK at \in Stamp(d) :
          LET status == [at |-> at, v |-> state]
              next == [rec[d] EXCEPT !.status = status,
                                     !.finished = FinishedBy(status, rec[d].finished)]
          IN  StampedChange(d, at, rec[d].status, next)
    BY <1>1 DEF SetStatus
  <2> DEFINE status == [at |-> at, v |-> state]
             next == [rec[d] EXCEPT !.status = status,
                                    !.finished = FinishedBy(status, rec[d].finished)]
  <2>2. rec[d] \in Agreeing /\ at \in Nat
    BY DEF IInv, RecordsSettle, Stamp, StampsOf
  <2>3. next \in Agreeing
    <3>1. status \in Register /\ FinishedBy(status, rec[d].finished) \in Register
      BY <2>2, SettledFields, FinishedKeeps DEF Register, Want, Reading, Finished
    <3>2. FinishedBy(status, FinishedBy(status, rec[d].finished))
          = FinishedBy(status, rec[d].finished)
      BY <2>2, <3>1, SettledFields, FinishedKeeps
    <3> HIDE DEF status
    <3> QED BY <2>2, <3>1, <3>2 DEF Agreeing, Record, Agrees
  <2>4. /\ next.position = rec[d].position /\ next.status.at = at
        /\ next.tags = rec[d].tags /\ next.added = rec[d].added
        /\ next.clocked = rec[d].clocked /\ rec[d].clocked \in BOOLEAN
    BY <2>2 DEF Agreeing, Record
  <2> QED BY <2>1, <2>3, <2>4, EditSettles
<1>2. ASSUME NEW d \in Device, NEW v \in 1 .. 2, Remember(d, v)
      PROVE  IInv' /\ Forward
  <2>1. PICK at \in Stamp(d) :
          StampedChange(d, at, rec[d].position, [rec[d] EXCEPT !.position = [at |-> at, v |-> v]])
    BY <1>2 DEF Remember
  <2> DEFINE next == [rec[d] EXCEPT !.position = [at |-> at, v |-> v]]
  <2>2. rec[d] \in Agreeing /\ at \in Nat
    BY DEF IInv, RecordsSettle, Stamp, StampsOf
  <2>3. next \in Agreeing
    BY <2>2 DEF Agreeing, Record, Register, Agrees
  <2>4. /\ next.position.at = at /\ next.status = rec[d].status
        /\ next.tags = rec[d].tags /\ next.added = rec[d].added
        /\ next.clocked = rec[d].clocked /\ rec[d].clocked \in BOOLEAN
    BY <2>2 DEF Agreeing, Record
  <2> QED BY <2>1, <2>3, <2>4, EditSettles
<1>3. ASSUME NEW d \in Device, NEW t \in Tag, NEW on \in 0 .. 1, SetTag(d, t, on)
      PROVE  IInv' /\ Forward
  <2>1. PICK at \in Stamp(d) :
          StampedChange(d, at, rec[d].tags[t], WithTag(rec[d], t, [at |-> at, v |-> on]))
    BY <1>3 DEF SetTag
  <2> DEFINE tags == [rec[d].tags EXCEPT ![t] = [at |-> at, v |-> on]]
             next == [rec[d] EXCEPT !.tags = tags, !.clocked = TRUE]
  <2>2. rec[d] \in Agreeing /\ at \in Nat
    BY DEF IInv, RecordsSettle, Stamp, StampsOf
  <2>3. /\ tags \in [Tag -> Register]
        /\ \A u \in Tag : tags[u].at \in {rec[d].tags[u].at, at}
    BY <2>2, SettledFields DEF Register
  <2>4. WithTag(rec[d], t, [at |-> at, v |-> on]) = next
    BY DEF WithTag
  <2> HIDE DEF tags
  <2>5. next \in Agreeing
    BY <2>2, <2>3 DEF Agreeing, Record, Agrees
  <2>6. /\ next.position = rec[d].position /\ next.status = rec[d].status
        /\ next.tags = tags /\ next.added = rec[d].added /\ next.clocked
    BY <2>2 DEF Agreeing, Record
  <2>7. StampedChange(d, at, rec[d].tags[t], next)
    BY <2>1, <2>4
  <2>8. /\ next.position.at \in {rec[d].position.at, at}
        /\ next.status.at \in {rec[d].status.at, at}
        /\ \A u \in Tag : next.tags[u].at \in {rec[d].tags[u].at, at}
    BY <2>3, <2>6
  <2> HIDE DEF next
  <2> QED BY <2>5, <2>6, <2>7, <2>8, EditSettles
<1>4. ASSUME NEW d \in Device, StartRename(d)
      PROVE  IInv' /\ Forward
  BY <1>4, StartRenameSettles
<1>9. ASSUME NEW d \in Device, NEW t \in Tag, RenameReaches(d, t)
      PROVE  IInv' /\ Forward
  BY <1>9, RenameReachesSettles
<1>5. ASSUME NEW d \in Device, NEW parsed \in 1 .. MaxParse, NEW schema \in 0 .. 1,
             NEW open \in BOOLEAN, Reparse(d, parsed, schema, open)
      PROVE  IInv' /\ Forward
  <2> DEFINE next == [rec[d] EXCEPT !.meta = [parsed |-> parsed, schema |-> schema, v |-> d],
                                    !.opened = IF open THEN parsed ELSE @]
  <2>1. rec' = [rec EXCEPT ![d] = next] /\ sent' = sent
    BY <1>5 DEF Reparse, Change
  <2>2. rec[d] \in Agreeing /\ d \in Int /\ parsed \in Int /\ schema \in Int
    BY ReplicasAssumption DEF IInv, RecordsSettle, Device
  <2>3. next \in Agreeing
    <3> DEFINE meta == [parsed |-> parsed, schema |-> schema, v |-> d]
               opened == IF open THEN parsed ELSE rec[d].opened
    <3>1. meta \in [parsed : Int, schema : Int, v : Int]
      BY <2>2
    <3>2. opened \in Int
      BY <2>2, SettledFields
    <3>3. next = [rec[d] EXCEPT !.meta = meta, !.opened = opened]
      OBVIOUS
    <3> HIDE DEF next, meta, opened
    <3> QED BY <2>2, <3>1, <3>2, <3>3 DEF Agreeing, Record, Agrees
  <2>4. /\ next.position = rec[d].position /\ next.status = rec[d].status
        /\ next.tags = rec[d].tags /\ next.added = rec[d].added
        /\ next.clocked = rec[d].clocked
    BY <2>2 DEF Agreeing, Record
  <2> HIDE DEF next
  <2>5. RecordsSettle' /\ ListsAreOld'
    BY <2>1, <2>3, <2>4 DEF IInv, RecordsSettle, ListsAreOld, Listed
  <2>6. \A e \in Device : /\ rec'[e].position = rec[e].position
                          /\ rec'[e].status = rec[e].status
                          /\ rec'[e].tags = rec[e].tags
                          /\ rec'[e].added = rec[e].added
    BY <2>1, <2>4 DEF IInv, RecordsSettle
  <2> QED BY <1>5, <2>5, <2>6, UnstampedSettles DEF Reparse
<1>6. ASSUME NEW d \in Device, Send(d)
      PROVE  IInv' /\ Forward
  <2>1. RecordsSettle' /\ ListsAreOld'
    BY <1>6 DEF Send, IInv, RecordsSettle, ListsAreOld
  <2> QED BY <1>6, <2>1, UnstampedSettles DEF Send
<1>7. ASSUME NEW d \in Device, NEW m \in sent, Receive(d, m)
      PROVE  IInv' /\ Forward
  BY <1>7, ReceiveSettles
<1>8. CASE UNCHANGED vars
  <2>1. RecordsSettle' /\ ListsAreOld'
    BY <1>8 DEF vars, IInv, RecordsSettle, ListsAreOld
  <2> QED BY <1>8, <2>1, UnstampedSettles DEF vars
<1> QED BY <1>1, <1>2, <1>3, <1>4, <1>5, <1>6, <1>7, <1>8, <1>9 DEF Next

THEOREM SpecSettles == Spec => []IInv
<1>1. IInv /\ [Next]_vars => IInv'
  BY StepSettles
<1> QED BY <1>1, InitSettles, PTL DEF Spec

\* Types, and no stamp on a device that somebody gave above the floor its next is
\* taken over (ledger.ts:508-517); whatever height the legacy ones have.
THEOREM TypeCorrect == Spec => []TypeOK
<1>1. IInv => TypeOK
  BY DEF IInv, RecordsSettle, UnderFloor, TakenUnderFloor, Agreeing, TypeOK
<1> QED BY <1>1, SpecSettles, PTL

\* But for a tag that was decided after a rename over the shelf took its stamp, a
\* local edit beats every decision somebody stamped that it was made over, and no
\* merge takes one back (ledger.ts:508-517).
THEOREM RegistersGoForward == Spec => NothingGoesBack
<1>1. IInv /\ [Next]_vars => [Forward]_vars
  BY StepSettles
<1> QED BY <1>1, SpecSettles, PTL DEF Spec, NothingGoesBack, Forward

\* status and finished stay one fact on every device (merge.ts:254-260).
THEOREM StatusIsOneFact == Spec => []OneFact
<1>1. IInv => OneFact
  <2> SUFFICES ASSUME IInv, NEW d \in Device, rec[d].status.at # -1
               PROVE  /\ rec[d].finished.at = rec[d].status.at
                      /\ (rec[d].finished.v = 1) <=> (rec[d].status.v = Finished)
    BY DEF OneFact
  <2>1. rec[d].finished = FinishedBy(rec[d].status, rec[d].finished)
    BY DEF IInv, RecordsSettle, Agreeing, Agrees
  <2>2. rec[d].finished = [at |-> rec[d].status.at,
                           v |-> IF rec[d].status.v = Finished THEN 1 ELSE 0]
    BY <2>1 DEF FinishedBy
  <2> QED BY <2>2
<1> QED BY <1>1, SpecSettles, PTL

\* Copies merge the same whoever goes first, in whatever order, and an echo
\* changes nothing, for any copies that are ever about (merge.ts:176-178).
THEOREM ExchangesSettle == Spec => []ExchangeSettles
<1>1. IInv => ExchangeSettles
  <2> SUFFICES ASSUME IInv, NEW d \in Device, NEW m \in sent, NEW n \in sent
               PROVE  LET both == MergeRecord(rec[d], m.rec) IN
                      /\ both = MergeRecord(m.rec, rec[d])
                      /\ MergeRecord(both, m.rec) = both
                      /\ MergeRecord(both, n.rec)
                         = MergeRecord(rec[d], MergeRecord(m.rec, n.rec))
    BY DEF ExchangeSettles
  <2>1. rec[d] \in Agreeing /\ m.rec \in Agreeing /\ n.rec \in Agreeing
    BY DEF IInv, RecordsSettle
  <2> QED BY <2>1, MergeIsSemilattice
<1> QED BY <1>1, SpecSettles, PTL

-----------------------------------------------------------------------------
(* Convergence.  A copy is the least record above what was said in the edits  *)
(* that went into it, whoever carried them; and there is one least.           *)

\* Merging b into a changes no register of a.
Above(a, b) == Registers(Join(a, b)) = Registers(a)

LEMMA RegistersJoin ==
    ASSUME NEW a \in Agreeing, NEW b \in Agreeing, NEW c \in Agreeing, NEW d \in Agreeing,
           Registers(a) = Registers(c), Registers(b) = Registers(d)
    PROVE  Registers(Join(a, b)) = Registers(Join(c, d))
BY DEF Registers, Join

\* Above is an order of the registers, and the merge its least upper bound.
LEMMA AboveIsOrder ==
    ASSUME NEW a \in Agreeing, NEW b \in Agreeing
    PROVE  /\ Above(a, a)
           /\ Above(a, b) /\ Above(b, a) => Registers(a) = Registers(b)
           /\ Above(Join(a, b), a) /\ Above(Join(a, b), b)
<1>1. Join(a, b) \in Agreeing /\ Join(a, b) = Join(b, a)
  BY JoinAgrees, JoinSettles
<1>2. Join(Join(a, b), b) = Join(a, b) /\ Join(Join(b, a), a) = Join(b, a)
  BY JoinSettles
<1>3. Registers(Join(a, a)) = Registers(a)
  BY JoinSettles
<1> QED BY <1>1, <1>2, <1>3 DEF Above

LEMMA AboveJoins ==
    ASSUME NEW a \in Agreeing, NEW b \in Agreeing, NEW c \in Agreeing, Above(a, b)
    PROVE  /\ Above(b, c) => Above(a, c)
           /\ Above(a, c) => Above(a, Join(b, c))
<1>1. Join(a, b) \in Agreeing /\ Join(b, c) \in Agreeing /\ Join(Join(a, b), c) = Join(a, Join(b, c))
  BY JoinAgrees, JoinSettles
<1>2. Registers(Join(Join(a, b), c)) = Registers(Join(a, c))
  BY <1>1, RegistersJoin DEF Above
<1>3. ASSUME Above(b, c) PROVE Above(a, c)
  <2>1. Registers(Join(a, Join(b, c))) = Registers(Join(a, b))
    BY <1>1, <1>3, RegistersJoin DEF Above
  <2> QED BY <1>1, <1>2, <2>1 DEF Above
<1>4. ASSUME Above(a, c) PROVE Above(a, Join(b, c))
  BY <1>1, <1>2, <1>4 DEF Above
<1> QED BY <1>3, <1>4

\* A record is the least that is above what these edits said.
Sums(told, r, S) ==
    /\ \A i \in S : told[i] \in Agreeing /\ Above(r, told[i])
    /\ \A x \in Agreeing : (\A i \in S : Above(x, told[i])) => Above(x, r)

LEMMA SumsAreOne ==
    ASSUME NEW told, NEW S, NEW a \in Agreeing, NEW b \in Agreeing, Sums(told, a, S), Sums(told, b, S)
    PROVE  Registers(a) = Registers(b)
<1>1. Above(a, b) /\ Above(b, a)
  BY DEF Sums
<1> QED BY <1>1, AboveIsOrder

LEMMA SumsJoin ==
    ASSUME NEW told, NEW S, NEW T, NEW a \in Agreeing, NEW b \in Agreeing,
           Sums(told, a, S), Sums(told, b, T)
    PROVE  Sums(told, MergeRecord(a, b), S \cup T)
<1>1. Join(a, b) \in Agreeing /\ Above(Join(a, b), a) /\ Above(Join(a, b), b)
  BY JoinAgrees, AboveIsOrder
<1>2. ASSUME NEW i \in S \cup T PROVE told[i] \in Agreeing /\ Above(Join(a, b), told[i])
  <2>1. CASE i \in S
    <3>1. told[i] \in Agreeing /\ Above(a, told[i])
      BY <2>1 DEF Sums
    <3> QED BY <1>1, <3>1, AboveJoins
  <2>2. CASE i \in T
    <3>1. told[i] \in Agreeing /\ Above(b, told[i])
      BY <2>2 DEF Sums
    <3> QED BY <1>1, <3>1, AboveJoins
  <2> QED BY <2>1, <2>2
<1>3. ASSUME NEW x \in Agreeing, \A i \in S \cup T : Above(x, told[i]) PROVE Above(x, Join(a, b))
  <2>1. Above(x, a) /\ Above(x, b)
    BY <1>3 DEF Sums
  <2> QED BY <2>1, AboveJoins
<1>4. Sums(told, Join(a, b), S \cup T)
  BY <1>2, <1>3 DEF Sums
<1>5. CASE a = b
  <2>1. Sums(told, a, S \cup T)
    BY <1>5 DEF Sums
  <2> QED BY <1>5, <2>1 DEF MergeRecord
<1> QED BY <1>4, <1>5 DEF MergeRecord

\* An edit says the whole record it leaves.
Saying(told, i, r) == [j \in Int |-> IF j = i THEN r ELSE told[j]]

LEMMA SumsKept ==
    ASSUME NEW told, NEW S \in SUBSET Int, NEW i \in Int \ S, NEW a, NEW r, Sums(told, a, S)
    PROVE  Sums(Saying(told, i, r), a, S)
<1>1. \A j \in S : Saying(told, i, r)[j] = told[j]
  BY DEF Saying
<1> QED BY <1>1 DEF Sums

LEMMA SumsEdit ==
    ASSUME NEW told, NEW S \in SUBSET Int, NEW i \in Int \ S, NEW a \in Agreeing, NEW r \in Agreeing,
           Sums(told, a, S), Above(r, a)
    PROVE  Sums(Saying(told, i, r), r, S \cup {i})
<1>1. \A j \in S : Saying(told, i, r)[j] = told[j]
  BY DEF Saying
<1>2. Saying(told, i, r)[i] = r
  BY DEF Saying
<1>3. Above(r, r)
  BY AboveIsOrder
<1>4. ASSUME NEW j \in S PROVE told[j] \in Agreeing /\ Above(r, told[j])
  <2>1. told[j] \in Agreeing /\ Above(a, told[j])
    BY DEF Sums
  <2> QED BY <2>1, AboveJoins
<1> QED BY <1>1, <1>2, <1>3, <1>4 DEF Sums

-----------------------------------------------------------------------------
(* Whose a stamp is *)

About == {rec[d] : d \in Device} \cup {m.rec : m \in sent}

\* A stamp in a device's name is one it gave, and not the one a rename of it still holds.
OwnStamps ==
    /\ \A d \in Device : taken[d] # 0 => taken[d] > 0 /\ Giver(taken[d]) = d
    /\ \A r \in About, t \in Tag, d \in Device :
          r.tags[t].at > 0 /\ Giver(r.tags[t].at) = d =>
              r.tags[t].at <= floor[d] /\ r.tags[t].at # taken[d]

\* No edit was counted before it was made.
Numbered ==
    /\ edits \in Nat
    /\ heard \in [Device -> SUBSET Int] /\ \A d \in Device : \A i \in heard[d] : i <= edits
    /\ \A m \in sent : m.heard \in SUBSET Int /\ \A i \in m.heard : i <= edits

\* Every copy, here or under way, comes of the same edits' words.
Explained ==
    \E told : /\ \A d \in Device : Sums(told, rec[d], heard[d])
              /\ \A m \in sent : Sums(told, m.rec, m.heard)

CInv == IInv /\ OwnStamps /\ Numbered /\ (~overtaken => Explained)

LEMMA TagStampsAreNumbers ==
    ASSUME IInv, NEW r \in About, NEW t \in Tag
    PROVE  r \in Agreeing /\ r.tags[t] \in Register /\ r.tags[t].at \in Int
<1>1. r \in Agreeing
  BY DEF IInv, RecordsSettle, About
<1> QED BY <1>1, SettledFields DEF Register, Unset

LEMMA InitExplained == Init => CInv
<1> SUFFICES ASSUME Init PROVE CInv
  OBVIOUS
<1>0. /\ rec \in [Device -> Legacy] /\ taken = [d \in Device |-> 0] /\ floor = [d \in Device |-> 0]
      /\ heard = [d \in Device |-> {-d}] /\ sent = {} /\ edits = 0
  BY DEF Init
<1>1. IInv
  BY InitSettles
<1>2. OwnStamps
  <2>1. ASSUME NEW r \in About, NEW t \in Tag, NEW d \in Device, r.tags[t].at > 0
        PROVE  Giver(r.tags[t].at) # d
    <3>1. r \in Legacy
      BY <1>0 DEF About
    <3>2. ~Issued(r.tags[t].at)
      BY <3>1, LegacyAssumption
    <3> QED BY <2>1, <3>2 DEF Issued, Device
  <2> QED BY <1>0, <2>1 DEF OwnStamps
<1>3. Numbered
  <2>1. \A d \in Device : -d \in Int /\ -d <= 0
    BY DEF Device
  <2> QED BY <1>0, <2>1 DEF Numbered
<1>4. Explained
  <2> DEFINE told == [i \in Int |-> rec[-i]]
  <2>1. ASSUME NEW d \in Device PROVE Sums(told, rec[d], {-d})
    <3>1. told[-d] = rec[d]
      <4>1. -d \in Int /\ -(-d) = d
        BY DEF Device
      <4> QED BY <4>1
    <3>2. rec[d] \in Agreeing
      BY <1>1 DEF IInv, RecordsSettle
    <3> HIDE DEF told
    <3> QED BY <3>1, <3>2, AboveIsOrder DEF Sums
  <2> HIDE DEF told
  <2>2. \A d \in Device : Sums(told, rec[d], heard[d])
    BY <1>0, <2>1
  <2> QED BY <1>0, <2>2 DEF Explained
<1> QED BY <1>1, <1>2, <1>3, <1>4 DEF CInv

LEMMA ChangeNumbered ==
    ASSUME Numbered, NEW d \in Device, NEW next, Change(d, next)
    PROVE  Numbered'
<1>1. /\ edits' = edits + 1 /\ heard' = [heard EXCEPT ![d] = @ \cup {edits'}] /\ sent' = sent
  BY DEF Change
<1>2. edits \in Nat /\ heard \in [Device -> SUBSET Int]
  BY DEF Numbered
<1>3. heard' \in [Device -> SUBSET Int]
  BY <1>1, <1>2
<1>4. ASSUME NEW e \in Device, NEW i \in heard'[e] PROVE i <= edits + 1
  <2>1. i \in heard[e] \/ i = edits + 1
    BY <1>1, <1>2
  <2>2. i \in heard[e] => i \in Int /\ i <= edits
    BY <1>2 DEF Numbered
  <2> QED BY <1>2, <2>1, <2>2
<1>5. ASSUME NEW m \in sent, NEW i \in m.heard PROVE i <= edits + 1
  <2>1. i \in Int /\ i <= edits
    BY DEF Numbered
  <2> QED BY <1>2, <2>1
<1> QED BY <1>1, <1>2, <1>3, <1>4, <1>5 DEF Numbered

LEMMA ChangeExplained ==
    ASSUME IInv, Numbered, Explained, NEW d \in Device, NEW next \in Agreeing, Change(d, next),
           Above(next, rec[d])
    PROVE  Explained'
<1>1. /\ edits' = edits + 1 /\ heard' = [heard EXCEPT ![d] = @ \cup {edits'}] /\ sent' = sent
      /\ rec' = [rec EXCEPT ![d] = next]
  BY DEF Change
<1>2. /\ edits \in Nat /\ heard \in [Device -> SUBSET Int] /\ rec \in [Device -> Agreeing]
  BY DEF Numbered, IInv, RecordsSettle
<1>3. PICK n \in Int : n = edits + 1
  BY <1>2
<1>4. PICK told : /\ \A e \in Device : Sums(told, rec[e], heard[e])
                  /\ \A m \in sent : Sums(told, m.rec, m.heard)
  BY DEF Explained
<1>5. ASSUME NEW e \in Device PROVE heard[e] \in SUBSET Int /\ n \notin heard[e]
  <2>1. \A i \in heard[e] : i \in Int /\ i <= edits
    BY <1>2 DEF Numbered
  <2> QED BY <1>2, <1>3, <2>1
<1>6. ASSUME NEW m \in sent PROVE m.heard \in SUBSET Int /\ n \notin m.heard
  <2>1. m.heard \in SUBSET Int /\ \A i \in m.heard : i \in Int /\ i <= edits
    BY DEF Numbered
  <2> QED BY <1>2, <1>3, <2>1
<1>7. ASSUME NEW e \in Device PROVE Sums(Saying(told, n, next), rec'[e], heard'[e])
  <2>1. CASE e = d
    <3>1. rec'[e] = next /\ heard'[e] = heard[d] \cup {n}
      BY <1>1, <1>2, <1>3, <2>1
    <3>2. Sums(Saying(told, n, next), next, heard[d] \cup {n})
      BY <1>2, <1>4, <1>5, SumsEdit
    <3> QED BY <3>1, <3>2
  <2>2. CASE e # d
    <3>1. rec'[e] = rec[e] /\ heard'[e] = heard[e]
      BY <1>1, <1>2, <2>2
    <3> QED BY <1>4, <1>5, <3>1, SumsKept
  <2> QED BY <2>1, <2>2
<1>8. ASSUME NEW m \in sent PROVE Sums(Saying(told, n, next), m.rec, m.heard)
  BY <1>4, <1>6, SumsKept
<1> QED BY <1>1, <1>7, <1>8 DEF Explained

\* A register set under a stamp that is later is above what it was.
LEMMA LaterWins ==
    ASSUME NEW a \in Register, NEW b \in Register, a.at > b.at
    PROVE  Pick(a, b) = a
BY DEF Pick, Register, Unset

LEMMA NextIsAbove ==
    ASSUME NEW r \in Agreeing, NEW next \in Agreeing,
           Pick(next.position, r.position) = next.position,
           Pick(next.status, r.status) = next.status,
           next.status = r.status => next.finished = r.finished,
           next.status # r.status => next.status.at # -1,
           \A t \in Tag : Pick(next.tags[t], r.tags[t]) = next.tags[t],
           next.added = r.added
    PROVE  Above(next, r)
<1> DEFINE tags == MergeTags(next.tags, r.tags)
<1>1. tags = next.tags
  <2>1. next.tags \in [Tag -> Register]
    BY SettledFields
  <2> QED BY <2>1 DEF MergeTags
<1>2. Earliest(next.added, r.added) = next.added
  BY DEF Earliest
<1>3. FinishedBy(next.status, Pick(next.finished, r.finished)) = next.finished
  <2>1. next.finished = FinishedBy(next.status, next.finished)
    BY SettledFields
  <2>2. CASE next.status = r.status
    <3>1. Pick(next.finished, r.finished) = next.finished
      BY <2>2, SettledFields, PickJoins
    <3> QED BY <2>1, <3>1
  <2>3. CASE next.status # r.status
    BY <2>1, <2>3 DEF FinishedBy
  <2> QED BY <2>2, <2>3
<1> HIDE DEF tags
<1>4. Join(next, r).tags = tags
  BY DEF Join, tags
<1> QED BY <1>1, <1>2, <1>3, <1>4 DEF Above, Registers, Join

-----------------------------------------------------------------------------
(* The steps keep what a copy comes of *)

\* A stamp is new when it is given: above the floor, and in its device's name.
LEMMA EditOwnStamps ==
    ASSUME IInv, OwnStamps, NEW d \in Device, NEW at \in Stamp(d), NEW old, NEW next \in Agreeing,
           StampedChange(d, at, old, next),
           \A t \in Tag : next.tags[t].at \in {rec[d].tags[t].at, at}
    PROVE  OwnStamps'
<1>1. /\ at \in Nat /\ at > floor[d] /\ Giver(at) = d /\ floor \in [Device -> Nat]
      /\ taken \in [Device -> Nat] /\ \A e \in Device : taken[e] <= floor[e]
  BY StampsAreIssued DEF IInv, UnderFloor, TakenUnderFloor
<1>2. /\ rec' = [rec EXCEPT ![d] = next] /\ sent' = sent /\ taken' = taken
      /\ floor' = [floor EXCEPT ![d] = at] /\ rec \in [Device -> Agreeing]
  BY <1>1 DEF StampedChange, Change, Latest, IInv, RecordsSettle
<1>3. \A e \in Device : floor[e] \in Nat /\ floor'[e] \in Nat /\ floor[e] <= floor'[e]
  BY <1>1, <1>2
<1>4. About' \subseteq About \cup {next} /\ rec[d] \in About
  BY <1>2 DEF About
<1>5. ASSUME NEW r \in About, NEW t \in Tag, NEW e \in Device,
             r.tags[t].at > 0, Giver(r.tags[t].at) = e
      PROVE  r.tags[t].at <= floor'[e] /\ r.tags[t].at # taken[e]
  <2>1. r.tags[t].at <= floor[e] /\ r.tags[t].at # taken[e]
    BY <1>5 DEF OwnStamps
  <2>2. r.tags[t].at \in Int
    BY TagStampsAreNumbers
  <2> QED BY <1>3, <2>1, <2>2
<1>6. ASSUME NEW t \in Tag, NEW e \in Device, next.tags[t].at > 0, Giver(next.tags[t].at) = e
      PROVE  next.tags[t].at <= floor'[e] /\ next.tags[t].at # taken[e]
  <2>1. CASE next.tags[t].at = at
    <3>2. e = d
      BY <1>1, <1>6, <2>1
    <3>3. floor'[d] = at /\ taken[d] \in Nat /\ taken[d] <= floor[d] /\ floor[d] \in Nat
      BY <1>1, <1>2
    <3> QED BY <1>1, <2>1, <3>2, <3>3
  <2>2. CASE next.tags[t].at = rec[d].tags[t].at
    BY <1>4, <1>5, <1>6, <2>2
  <2> QED BY <2>1, <2>2
<1>7. \A e \in Device : taken'[e] # 0 => taken'[e] > 0 /\ Giver(taken'[e]) = e
  BY <1>2 DEF OwnStamps
<1> QED BY <1>2, <1>4, <1>5, <1>6, <1>7 DEF OwnStamps

LEMMA EditExplained ==
    ASSUME CInv, NEW d \in Device, NEW at \in Stamp(d), NEW old, NEW next \in Agreeing,
           StampedChange(d, at, old, next),
           \A t \in Tag : next.tags[t].at \in {rec[d].tags[t].at, at},
           ~(at < old.at) => Above(next, rec[d])
    PROVE  OwnStamps' /\ Numbered' /\ (~overtaken' => Explained')
<1>1. OwnStamps'
  BY EditOwnStamps DEF CInv
<1>2. Change(d, next) /\ overtaken' = (overtaken \/ at < old.at)
  BY DEF StampedChange
<1>3. Numbered'
  BY <1>2, ChangeNumbered DEF CInv
<1>4. ~overtaken' => Explained'
  BY <1>2, ChangeExplained DEF CInv
<1> QED BY <1>1, <1>3, <1>4

\* A new stamp is above a register somebody stamped, and is no other's; so it wins,
\* unless what it is written over was stamped by nobody and later.
LEMMA NewWins ==
    ASSUME IInv, NEW d \in Device, NEW at \in Stamp(d), NEW v \in Int, NEW old \in Register,
           Issued(old.at) => old.at <= floor[d]
    PROVE  /\ at # old.at /\ at # -1
           /\ ~(at < old.at) => Pick([at |-> at, v |-> v], old) = [at |-> at, v |-> v]
<1> DEFINE new == [at |-> at, v |-> v]
<1>1. at \in Nat /\ at > floor[d] /\ floor[d] \in Nat /\ Issued(at)
  BY StampsAreIssued
<1>2. new \in Register /\ new.at = at /\ old.at \in Int
  BY <1>1 DEF Register, Unset
<1>3. at # old.at
  BY <1>1, <1>2
<1> HIDE DEF new
<1>4. ~(at < old.at) => Pick(new, old) = new
  BY <1>1, <1>2, <1>3, LaterWins
<1> QED BY <1>1, <1>3, <1>4 DEF new

LEMMA ReceiveExplained ==
    ASSUME CInv, NEW d \in Device, NEW m \in sent, Receive(d, m)
    PROVE  OwnStamps' /\ Numbered' /\ (~overtaken' => Explained')
<1>0. IInv /\ OwnStamps /\ Numbered
  BY DEF CInv
<1> DEFINE next == MergeRecord(rec[d], m.rec)
<1>1. rec[d] \in Agreeing /\ m.rec \in Agreeing /\ rec \in [Device -> Agreeing]
  BY <1>0 DEF IInv, RecordsSettle
<1>2. /\ rec' = [rec EXCEPT ![d] = next] /\ heard' = [heard EXCEPT ![d] = @ \cup m.heard]
      /\ sent' = sent /\ taken' = taken /\ edits' = edits /\ overtaken' = overtaken
  BY DEF Receive
<1>3. next \in Agreeing /\ \A t \in Tag : next.tags[t] \in {rec[d].tags[t], m.rec.tags[t]}
  <2>1. next \in Agreeing /\ \A t \in Tag : next.tags[t] = Pick(rec[d].tags[t], m.rec.tags[t])
    BY <1>1, MergesAsPicks
  <2> QED BY <2>1 DEF Pick
<1> HIDE DEF next
<1>4. \A e \in Device : floor[e] \in Nat /\ floor'[e] \in Int /\ floor[e] <= floor'[e]
  <2>1. PICK top \in StampsIn(m.rec) \cup {floor[d]} :
           /\ \A at \in StampsIn(m.rec) \cup {floor[d]} : at <= top
           /\ floor' = [floor EXCEPT ![d] = top]
    BY DEF Receive
  <2>2. floor \in [Device -> Nat]
    BY <1>0 DEF IInv, UnderFloor
  <2>3. IInv'
    BY <1>0, ReceiveSettles
  <2>4. floor' \in [Device -> Nat]
    BY <2>3 DEF IInv, UnderFloor
  <2> QED BY <2>1, <2>2, <2>4
<1>5. About' \subseteq About \cup {next} /\ rec[d] \in About /\ m.rec \in About
  BY <1>1, <1>2 DEF About
<1>6. ASSUME NEW r \in About, NEW t \in Tag, NEW e \in Device,
             r.tags[t].at > 0, Giver(r.tags[t].at) = e
      PROVE  r.tags[t].at <= floor'[e] /\ r.tags[t].at # taken[e]
  <2>1. r.tags[t].at <= floor[e] /\ r.tags[t].at # taken[e]
    BY <1>0, <1>6 DEF OwnStamps
  <2>2. r.tags[t].at \in Int
    BY <1>0, TagStampsAreNumbers
  <2> QED BY <1>4, <2>1, <2>2
<1>7. OwnStamps'
  <2>1. \A r \in About', t \in Tag : \E q \in About : r.tags[t] = q.tags[t]
    BY <1>3, <1>5
  <2> QED BY <1>0, <1>2, <1>6, <2>1 DEF OwnStamps
<1>8. Numbered'
  <2>1. /\ edits \in Nat /\ heard \in [Device -> SUBSET Int] /\ m.heard \in SUBSET Int
        /\ \A i \in m.heard : i <= edits /\ \A e \in Device : \A j \in heard[e] : j <= edits
    BY <1>0 DEF Numbered
  <2>2. heard' \in [Device -> SUBSET Int]
    BY <1>2, <2>1
  <2>3. ASSUME NEW e \in Device, NEW i \in heard'[e] PROVE i <= edits
    <3>1. i \in heard[e] \/ i \in m.heard
      BY <1>2, <2>1
    <3> QED BY <1>0, <2>1, <3>1 DEF Numbered
  <2> QED BY <1>0, <1>2, <2>2, <2>3 DEF Numbered
<1>9. ASSUME ~overtaken' PROVE Explained'
  <2>1. PICK told : /\ \A e \in Device : Sums(told, rec[e], heard[e])
                    /\ \A n \in sent : Sums(told, n.rec, n.heard)
    BY <1>2, <1>9 DEF CInv, Explained
  <2>2. Sums(told, next, heard[d] \cup m.heard)
    BY <1>1, <2>1, SumsJoin DEF next
  <2>3. heard \in [Device -> SUBSET Int]
    BY <1>0 DEF Numbered
  <2>4. \A e \in Device : Sums(told, rec'[e], heard'[e])
    BY <1>1, <1>2, <2>1, <2>2, <2>3
  <2> QED BY <1>2, <2>1, <2>4 DEF Explained
<1> QED BY <1>7, <1>8, <1>9

LEMMA SendExplained ==
    ASSUME CInv, NEW d \in Device, Send(d)
    PROVE  OwnStamps' /\ Numbered' /\ (~overtaken' => Explained')
<1>1. /\ sent' = sent \cup {[rec |-> rec[d], heard |-> heard[d]]} /\ rec' = rec /\ floor' = floor
      /\ taken' = taken /\ heard' = heard /\ edits' = edits /\ overtaken' = overtaken
  BY DEF Send
<1>2. About' \subseteq About
  BY <1>1 DEF About
<1>3. OwnStamps'
  BY <1>1, <1>2 DEF CInv, OwnStamps
<1>4. Numbered'
  BY <1>1 DEF CInv, Numbered
<1>5. ~overtaken' => Explained'
  BY <1>1 DEF CInv, Explained
<1> QED BY <1>3, <1>4, <1>5

LEMMA StartRenameExplained ==
    ASSUME CInv, NEW d \in Device, StartRename(d)
    PROVE  OwnStamps' /\ Numbered' /\ (~overtaken' => Explained')
<1>1. PICK at \in Stamp(d) : /\ taken' = [taken EXCEPT ![d] = at]
                              /\ floor' = [floor EXCEPT ![d] = at]
  BY DEF StartRename
<1>2. /\ rec' = rec /\ sent' = sent /\ heard' = heard /\ edits' = edits /\ overtaken' = overtaken
  BY DEF StartRename
<1>3. at \in Nat /\ at > floor[d] /\ floor[d] \in Nat /\ Giver(at) = d
  BY StampsAreIssued DEF CInv
<1>4. floor \in [Device -> Nat] /\ taken \in [Device -> Nat] /\ IInv /\ OwnStamps
  BY DEF CInv, IInv, UnderFloor, TakenUnderFloor
<1>5. \A e \in Device : taken'[e] # 0 => taken'[e] > 0 /\ Giver(taken'[e]) = e
  BY <1>1, <1>3, <1>4 DEF OwnStamps
<1>6. ASSUME NEW r \in About, NEW t \in Tag, NEW e \in Device,
             r.tags[t].at > 0, Giver(r.tags[t].at) = e
      PROVE  r.tags[t].at <= floor'[e] /\ r.tags[t].at # taken'[e]
  <2>1. r.tags[t].at <= floor[e] /\ r.tags[t].at # taken[e]
    BY <1>4, <1>6 DEF OwnStamps
  <2>2. r.tags[t].at \in Int
    BY <1>4, TagStampsAreNumbers
  <2>3. CASE e = d
    BY <1>1, <1>3, <1>4, <2>1, <2>2, <2>3
  <2>4. CASE e # d
    BY <1>1, <1>4, <2>1, <2>4
  <2> QED BY <2>3, <2>4
<1>7. OwnStamps'
  <2>1. About' = About
    BY <1>2 DEF About
  <2> QED BY <1>2, <1>5, <1>6, <2>1 DEF OwnStamps
<1>8. Numbered'
  BY <1>2 DEF CInv, Numbered
<1>9. ~overtaken' => Explained'
  BY <1>2 DEF CInv, Explained
<1> QED BY <1>7, <1>8, <1>9

\* A rename that was not overtaken writes a stamp above the one it finds: they are not the
\* same, for the stamp it holds is nowhere yet.
LEMMA RenameReachesExplained ==
    ASSUME CInv, NEW d \in Device, NEW t \in Tag, RenameReaches(d, t)
    PROVE  OwnStamps' /\ Numbered' /\ (~overtaken' => Explained')
<1> DEFINE old == rec[d].tags[t]
           new == [at |-> taken[d], v |-> 0]
           tags == [rec[d].tags EXCEPT ![t] = new]
           next == [rec[d] EXCEPT !.tags = tags, !.clocked = TRUE]
<1>0. IInv /\ OwnStamps /\ Numbered
  BY DEF CInv
<1>1. /\ rec \in [Device -> Agreeing] /\ rec[d] \in Agreeing /\ taken \in [Device -> Nat]
      /\ taken[d] \in Nat /\ taken[d] <= floor[d] /\ floor \in [Device -> Nat]
  BY <1>0 DEF IInv, RecordsSettle, TakenUnderFloor, UnderFloor
<1>2. /\ taken[d] > 0 /\ Change(d, next) /\ taken' = [taken EXCEPT ![d] = 0]
      /\ overtaken' = (overtaken \/ taken[d] < old.at) /\ floor' = floor
  BY DEF RenameReaches, WithTag
<1>3. rec' = [rec EXCEPT ![d] = next] /\ sent' = sent
  BY <1>2 DEF Change
<1>4. old \in Register /\ old.at \in Int /\ rec[d] \in About
  BY <1>0, <1>1, TagStampsAreNumbers DEF About
<1>5. new \in Register /\ new.at = taken[d] /\ rec[d].tags \in [Tag -> Register]
  BY <1>1, SettledFields DEF Register
<1>6. Giver(taken[d]) = d
  BY <1>0, <1>2 DEF OwnStamps
<1>7. old.at # taken[d]
  BY <1>0, <1>2, <1>4, <1>6 DEF OwnStamps
<1> HIDE DEF new
<1>8. /\ tags \in [Tag -> Register] /\ tags[t] = new /\ \A u \in Tag : u # t => tags[u] = rec[d].tags[u]
  BY <1>5
<1> HIDE DEF tags, old
<1>9. /\ next \in Agreeing /\ next.tags = tags /\ next.position = rec[d].position
      /\ next.status = rec[d].status /\ next.finished = rec[d].finished /\ next.added = rec[d].added
  BY <1>1, <1>8 DEF Agreeing, Record, Agrees
<1> HIDE DEF next
<1>10. Numbered'
  BY <1>0, <1>2, ChangeNumbered
<1>11. OwnStamps'
  <2>1. About' \subseteq About \cup {next}
    BY <1>1, <1>3 DEF About
  <2>2. \A e \in Device : taken'[e] # 0 => taken'[e] > 0 /\ Giver(taken'[e]) = e
    BY <1>0, <1>1, <1>2 DEF OwnStamps
  <2>3. ASSUME NEW r \in About, NEW u \in Tag, NEW e \in Device,
               r.tags[u].at > 0, Giver(r.tags[u].at) = e
        PROVE  r.tags[u].at <= floor[e] /\ r.tags[u].at # taken'[e]
    <3>1. r.tags[u].at <= floor[e] /\ r.tags[u].at # taken[e]
      BY <1>0, <2>3 DEF OwnStamps
    <3>2. r.tags[u].at # 0
      BY <2>3
    <3> QED BY <1>1, <1>2, <3>1, <3>2
  <2>4. ASSUME NEW u \in Tag, NEW e \in Device, next.tags[u].at > 0, Giver(next.tags[u].at) = e
        PROVE  next.tags[u].at <= floor[e] /\ next.tags[u].at # taken'[e]
    <3>1. CASE u = t
      <4>1. next.tags[u].at = taken[d]
        BY <1>5, <1>8, <1>9, <3>1
      <4>2. e = d
        BY <1>6, <2>4, <4>1
      <4>3. taken'[d] = 0
        BY <1>1, <1>2
      <4> QED BY <1>1, <2>4, <4>1, <4>2, <4>3
    <3>2. CASE u # t
      <4>1. next.tags[u] = rec[d].tags[u]
        BY <1>8, <1>9, <3>2
      <4> QED BY <1>4, <2>3, <2>4, <4>1
    <3> QED BY <3>1, <3>2
  <2> QED BY <1>2, <2>1, <2>2, <2>3, <2>4 DEF OwnStamps
<1>12. ASSUME ~overtaken' PROVE Explained'
  <2>1. ~overtaken /\ ~(taken[d] < old.at)
    BY <1>2, <1>12
  <2>2. new.at > old.at
    BY <1>1, <1>4, <1>5, <1>7, <2>1
  <2>3. Pick(new, old) = new
    BY <1>4, <1>5, <2>2, LaterWins
  <2>4. \A u \in Tag : Pick(next.tags[u], rec[d].tags[u]) = next.tags[u]
    <3> SUFFICES ASSUME NEW u \in Tag PROVE Pick(next.tags[u], rec[d].tags[u]) = next.tags[u]
      OBVIOUS
    <3>1. CASE u = t
      BY <1>8, <1>9, <2>3, <3>1 DEF old
    <3>2. CASE u # t
      <4>1. next.tags[u] = rec[d].tags[u] /\ rec[d].tags[u] \in Register
        BY <1>5, <1>8, <1>9, <3>2
      <4> QED BY <4>1, PickJoins
    <3> QED BY <3>1, <3>2
  <2>5. /\ Pick(next.position, rec[d].position) = next.position
        /\ Pick(next.status, rec[d].status) = next.status
    BY <1>1, <1>9, SettledFields, PickJoins
  <2>6. Above(next, rec[d])
    BY <1>1, <1>9, <2>4, <2>5, NextIsAbove
  <2>7. Explained
    BY <2>1 DEF CInv
  <2> QED BY <1>0, <1>2, <1>9, <2>6, <2>7, ChangeExplained
<1> QED BY <1>10, <1>11, <1>12

LEMMA StatusExplained ==
    ASSUME CInv, NEW d \in Device, NEW state \in {Want, Reading, Finished}, SetStatus(d, state)
    PROVE  OwnStamps' /\ Numbered' /\ (~overtaken' => Explained')
<1>1. PICK at \in Stamp(d) :
        StampedChange(d, at, rec[d].status,
                      [rec[d] EXCEPT !.status = [at |-> at, v |-> state],
                                     !.finished = FinishedBy([at |-> at, v |-> state], rec[d].finished)])
  BY DEF SetStatus
<1> DEFINE status == [at |-> at, v |-> state]
           finished == FinishedBy(status, rec[d].finished)
           next == [rec[d] EXCEPT !.status = status, !.finished = finished]
<1>2. IInv /\ rec[d] \in Agreeing /\ at \in Nat /\ state \in Int
  BY StampsAreIssued DEF CInv, IInv, RecordsSettle, Want, Reading, Finished
<1>3. status \in Register /\ status.at = at
  BY <1>2 DEF Register
<1>4. /\ ~(at < rec[d].status.at) => Pick(status, rec[d].status) = status
      /\ at # -1 /\ at # rec[d].status.at
  <2>1. rec[d].status \in Register /\ (Issued(rec[d].status.at) => rec[d].status.at <= floor[d])
    BY <1>2, SettledFields DEF IInv, UnderFloor
  <2> QED BY <1>2, <2>1, NewWins
<1>5. StampedChange(d, at, rec[d].status, next)
  BY <1>1
<1> HIDE DEF status
<1>6. finished \in Register /\ FinishedBy(status, finished) = finished
  BY <1>2, <1>3, SettledFields, FinishedKeeps
<1> HIDE DEF finished
<1>7. /\ next \in Agreeing /\ next.status = status /\ next.position = rec[d].position
      /\ next.tags = rec[d].tags /\ next.added = rec[d].added
  BY <1>2, <1>3, <1>6 DEF Agreeing, Record, Agrees
<1> HIDE DEF next
<1>8. next.status # rec[d].status /\ next.status.at # -1
  BY <1>3, <1>4, <1>7
<1>9. /\ Pick(next.position, rec[d].position) = next.position
      /\ \A t \in Tag : Pick(next.tags[t], rec[d].tags[t]) = next.tags[t]
  <2>1. rec[d].position \in Register /\ \A t \in Tag : rec[d].tags[t] \in Register
    BY <1>2, SettledFields
  <2> QED BY <1>7, <2>1, PickJoins
<1>10. ~(at < rec[d].status.at) => Above(next, rec[d])
  BY <1>2, <1>4, <1>7, <1>8, <1>9, NextIsAbove
<1> QED BY <1>5, <1>7, <1>10, EditExplained

LEMMA RememberExplained ==
    ASSUME CInv, NEW d \in Device, NEW v \in 1 .. 2, Remember(d, v)
    PROVE  OwnStamps' /\ Numbered' /\ (~overtaken' => Explained')
<1>1. PICK at \in Stamp(d) :
        StampedChange(d, at, rec[d].position, [rec[d] EXCEPT !.position = [at |-> at, v |-> v]])
  BY DEF Remember
<1> DEFINE position == [at |-> at, v |-> v]
           next == [rec[d] EXCEPT !.position = position]
<1>2. IInv /\ rec[d] \in Agreeing /\ at \in Nat
  BY StampsAreIssued DEF CInv, IInv, RecordsSettle
<1>3. position \in Register
  BY <1>2 DEF Register
<1>4. ~(at < rec[d].position.at) => Pick(position, rec[d].position) = position
  <2>1. rec[d].position \in Register /\ (Issued(rec[d].position.at) => rec[d].position.at <= floor[d])
    BY <1>2, SettledFields DEF IInv, UnderFloor
  <2> QED BY <1>2, <2>1, NewWins
<1>5. StampedChange(d, at, rec[d].position, next)
  BY <1>1
<1> HIDE DEF position
<1>6. /\ next \in Agreeing /\ next.status = rec[d].status /\ next.position = position
      /\ next.finished = rec[d].finished /\ next.tags = rec[d].tags /\ next.added = rec[d].added
  BY <1>2, <1>3 DEF Agreeing, Record, Agrees
<1> HIDE DEF next
<1>7. /\ Pick(next.status, rec[d].status) = next.status
      /\ \A t \in Tag : Pick(next.tags[t], rec[d].tags[t]) = next.tags[t]
  <2>1. rec[d].status \in Register /\ \A t \in Tag : rec[d].tags[t] \in Register
    BY <1>2, SettledFields
  <2> QED BY <1>6, <2>1, PickJoins
<1>8. ~(at < rec[d].position.at) => Above(next, rec[d])
  BY <1>2, <1>4, <1>6, <1>7, NextIsAbove
<1> QED BY <1>5, <1>6, <1>8, EditExplained

LEMMA SetTagExplained ==
    ASSUME CInv, NEW d \in Device, NEW t \in Tag, NEW on \in 0 .. 1, SetTag(d, t, on)
    PROVE  OwnStamps' /\ Numbered' /\ (~overtaken' => Explained')
<1>1. PICK at \in Stamp(d) :
        StampedChange(d, at, rec[d].tags[t], WithTag(rec[d], t, [at |-> at, v |-> on]))
  BY DEF SetTag
<1> DEFINE new == [at |-> at, v |-> on]
           tags == [rec[d].tags EXCEPT ![t] = new]
           next == [rec[d] EXCEPT !.tags = tags, !.clocked = TRUE]
<1>2. IInv /\ rec[d] \in Agreeing /\ at \in Nat /\ rec[d].tags \in [Tag -> Register]
  BY SettledFields, StampsAreIssued DEF CInv, IInv, RecordsSettle
<1>3. new \in Register /\ new.at = at
  BY <1>2 DEF Register
<1>4. ~(at < rec[d].tags[t].at) => Pick(new, rec[d].tags[t]) = new
  <2>1. rec[d].tags[t] \in Register /\ (Issued(rec[d].tags[t].at) => rec[d].tags[t].at <= floor[d])
    BY <1>2 DEF IInv, UnderFloor
  <2> QED BY <1>2, <2>1, NewWins
<1>5. StampedChange(d, at, rec[d].tags[t], next)
  BY <1>1 DEF WithTag
<1> HIDE DEF new
<1>6. /\ tags \in [Tag -> Register] /\ tags[t] = new /\ \A u \in Tag : u # t => tags[u] = rec[d].tags[u]
  BY <1>2, <1>3
<1> HIDE DEF tags
<1>7. /\ next \in Agreeing /\ next.tags = tags /\ next.position = rec[d].position
      /\ next.status = rec[d].status /\ next.finished = rec[d].finished /\ next.added = rec[d].added
  BY <1>2, <1>6 DEF Agreeing, Record, Agrees
<1> HIDE DEF next
<1>8. \A u \in Tag :
         /\ ~(at < rec[d].tags[t].at) => Pick(next.tags[u], rec[d].tags[u]) = next.tags[u]
         /\ next.tags[u].at \in {rec[d].tags[u].at, at}
  <2> SUFFICES ASSUME NEW u \in Tag
               PROVE  /\ ~(at < rec[d].tags[t].at) =>
                             Pick(next.tags[u], rec[d].tags[u]) = next.tags[u]
                      /\ next.tags[u].at \in {rec[d].tags[u].at, at}
    OBVIOUS
  <2>1. CASE u = t
    BY <1>3, <1>4, <1>6, <1>7, <2>1
  <2>2. CASE u # t
    <3>1. next.tags[u] = rec[d].tags[u] /\ rec[d].tags[u] \in Register
      BY <1>2, <1>6, <1>7, <2>2
    <3> QED BY <3>1, PickJoins
  <2> QED BY <2>1, <2>2
<1>9. /\ Pick(next.position, rec[d].position) = next.position
      /\ Pick(next.status, rec[d].status) = next.status
  BY <1>2, <1>7, SettledFields, PickJoins
<1>10. ~(at < rec[d].tags[t].at) => Above(next, rec[d])
  BY <1>2, <1>7, <1>8, <1>9, NextIsAbove
<1> QED BY <1>5, <1>7, <1>8, <1>10, EditExplained

\* A parse touches no register of the reader's, and moves no stamp.
LEMMA ReparseExplained ==
    ASSUME CInv, NEW d \in Device, NEW parsed \in 1 .. MaxParse, NEW schema \in 0 .. 1,
           NEW open \in BOOLEAN, Reparse(d, parsed, schema, open)
    PROVE  OwnStamps' /\ Numbered' /\ (~overtaken' => Explained')
<1> DEFINE meta == [parsed |-> parsed, schema |-> schema, v |-> d]
           opened == IF open THEN parsed ELSE rec[d].opened
           next == [rec[d] EXCEPT !.meta = meta, !.opened = opened]
<1>1. Change(d, next) /\ floor' = floor /\ taken' = taken /\ overtaken' = overtaken
  BY DEF Reparse
<1>2. IInv /\ rec[d] \in Agreeing /\ rec \in [Device -> Agreeing]
  BY DEF CInv, IInv, RecordsSettle
<1>3. meta \in [parsed : Int, schema : Int, v : Int] /\ opened \in Int
  BY <1>2, ReplicasAssumption, SettledFields DEF Device
<1> HIDE DEF meta, opened
<1>4. /\ next \in Agreeing /\ next.status = rec[d].status /\ next.position = rec[d].position
      /\ next.finished = rec[d].finished /\ next.tags = rec[d].tags /\ next.added = rec[d].added
  BY <1>2, <1>3 DEF Agreeing, Record, Agrees
<1> HIDE DEF next
<1>5. /\ Pick(next.position, rec[d].position) = next.position
      /\ Pick(next.status, rec[d].status) = next.status
      /\ \A t \in Tag : Pick(next.tags[t], rec[d].tags[t]) = next.tags[t]
  <2>1. /\ rec[d].position \in Register /\ rec[d].status \in Register
        /\ \A t \in Tag : rec[d].tags[t] \in Register
    BY <1>2, SettledFields
  <2> QED BY <1>4, <2>1, PickJoins
<1>6. Above(next, rec[d])
  BY <1>2, <1>4, <1>5, NextIsAbove
<1>7. OwnStamps'
  <2>1. rec' = [rec EXCEPT ![d] = next] /\ sent' = sent
    BY <1>1 DEF Change
  <2>2. About' \subseteq About \cup {next} /\ rec[d] \in About
    BY <1>2, <2>1 DEF About
  <2>3. \A r \in About', t \in Tag : \E q \in About : r.tags[t] = q.tags[t]
    BY <1>4, <2>2
  <2> QED BY <1>1, <2>3 DEF CInv, OwnStamps
<1>8. Numbered'
  BY <1>1, ChangeNumbered DEF CInv
<1>9. ~overtaken' => Explained'
  BY <1>1, <1>4, <1>6, ChangeExplained DEF CInv
<1> QED BY <1>7, <1>8, <1>9

LEMMA StepExplained ==
    ASSUME CInv, [Next]_vars
    PROVE  CInv'
<1>1. IInv'
  BY StepSettles DEF CInv
<1>2. CASE Next
  BY <1>1, <1>2, StatusExplained, RememberExplained, SetTagExplained, StartRenameExplained,
     RenameReachesExplained, ReparseExplained, SendExplained, ReceiveExplained DEF Next, CInv
<1>3. CASE UNCHANGED vars
  <2>1. OwnStamps' /\ Numbered' /\ (~overtaken' => Explained')
    BY <1>3 DEF CInv, vars, OwnStamps, About, Numbered, Explained
  <2> QED BY <1>1, <2>1 DEF CInv
<1> QED BY <1>2, <1>3

LEMMA SpecExplained == Spec => []CInv
BY InitExplained, StepExplained, PTL DEF Spec

\* Strong convergence (merge.ts:1-38): two devices that took in the same edits, in whatever order
\* and however often, have the same registers of the reader's, whatever a legacy record held; so long
\* as no edit was written under a stamp older than the one it found.
THEOREM CopiesConverge == Spec => []Converged
<1>1. CInv => Converged
  <2> SUFFICES ASSUME CInv, ~overtaken, NEW d \in Device, NEW e \in Device, heard[d] = heard[e]
               PROVE  Registers(rec[d]) = Registers(rec[e])
    BY DEF Converged
  <2>1. PICK told : \A f \in Device : Sums(told, rec[f], heard[f])
    BY DEF CInv, Explained
  <2>2. rec[d] \in Agreeing /\ rec[e] \in Agreeing
    BY DEF CInv, IInv, RecordsSettle
  <2> QED BY <2>1, <2>2, SumsAreOne
<1> QED BY <1>1, SpecExplained, PTL

=============================================================================
