-------------------------- MODULE FlatStoreProofs --------------------------
(***************************************************************************)
(* Proofs about FileStore, for every set of keys and callers, every seed    *)
(* and every bound, and about its two users.                                *)
(*                                                                         *)
(* The argument: values only grow, from what is down, over the snapshot of  *)
(* the write under way, to what is held (InLine); a call of flush wants no  *)
(* more than is held, and what it wants is in the snapshot of the write it  *)
(* waits for once that runs, and down once it is over and went well         *)
(* (CallsCovered).  The last needs that a store that is not dirty has       *)
(* nothing its last write does not have (Clean).                            *)
(*                                                                         *)
(* The cards and the settings use the flat store as FileStore lets anybody  *)
(* use it, so that holds under them: a store that is up has in memory at    *)
(* least what the flat store holds of its key (Ahead), since it read it     *)
(* before it answered anybody and nobody else writes the key; so what it    *)
(* writes never goes back, which is all FileStore asks of its users.        *)
(*                                                                         *)
(* What the stores then say is true (Told): a list that is told to be saved *)
(* is in the file and in whatever is being written over it (Safe), from the *)
(* answer of its flush on, since what is held never goes back.              *)
(***************************************************************************)
EXTENDS FlatStore, TLAPS

-----------------------------------------------------------------------------
(* The flat store *)

AtMost(v, w) == \A k \in Key : v[k] <= w[k]

\* What is down, what is being written and what is held only grow.
InLine ==
    /\ phase # "closed" /\ file # "damaged" => AtMost(Down, held)
    /\ busy => AtMost(writing, held) /\ AtMost(Down, writing)

\* While the damaged file is in its place, nothing is promised or chained.
Standing ==
    /\ file = "damaged" => promised = Nothing
    /\ file = "damaged" /\ phase # "closed" => unmovable
    /\ unmovable => failed
    /\ phase = "closed" => ~busy /\ calls = {} /\ chained = 0 /\ ~dirty

\* A store that is not dirty has nothing that its last write does not have.
Clean ==
    phase # "closed" /\ ~dirty =>
        /\ busy /\ done + 1 = chained => writing = held
        /\ done = chained /\ ~failed => held = Down

\* What a call wants is held; it is in the write it waits for, and down after.
CallsCovered ==
    \A call \in calls :
        /\ call.until <= chained
        /\ AtMost(call.want, held)
        /\ busy /\ call.until = done + 1 => AtMost(call.want, writing)
        /\ Due(call) /\ ~failed => AtMost(call.want, Down)

IInv == TypeOK /\ InLine /\ Standing /\ Clean /\ CallsCovered /\ FlushMeansDown

-----------------------------------------------------------------------------
\* The store that holds nothing is a store.
LEMMA NothingIsValues == Nothing \in Values
BY DEF Nothing, Values

\* A store never opened is in order.
LEMMA InitIInv == Init => IInv
<1> SUFFICES ASSUME Init PROVE IInv
  OBVIOUS
<1>1. TypeOK
  <2>1. spent \in [fails : Nat, crashes : Nat, damage : Nat]
    BY DEF Init
  <2>2. chained \in Nat /\ done \in 0 .. chained /\ calls \subseteq Call /\ asides \in Nat
    BY DEF Init
  <2>3. /\ disk \in Values /\ held \in Values /\ writing \in Values /\ promised \in Values
    BY NothingIsValues DEF Init
  <2>4. dirty = FALSE /\ queued = FALSE /\ busy = FALSE /\ failed = FALSE /\ unmovable = FALSE
    BY DEF Init
  <2>5. file = "absent" /\ phase = "closed"
    BY DEF Init
  <2> QED
    BY <2>1, <2>2, <2>3, <2>4, <2>5 DEF TypeOK
<1>2. AtMost(Nothing, Nothing)
  BY DEF AtMost, Nothing
<1>3. InLine /\ Standing /\ Clean /\ CallsCovered
  BY DEF Init, InLine, Standing, Clean, CallsCovered
<1>4. FlushMeansDown
  BY DEF Init, FlushMeansDown, Down, Nothing
<1> QED
  BY <1>1, <1>3, <1>4 DEF IInv

\* Every step keeps the order of what is down, being written and held.
LEMMA NextIInv == IInv /\ [Next]_vars => IInv'
<1> SUFFICES ASSUME IInv, [Next]_vars PROVE IInv'
  OBVIOUS
<1> USE FileStoreAssumption DEF IInv, TypeOK, InLine, Standing, Clean, CallsCovered, FlushMeansDown,
        Values, Nothing, AtMost, Down, Due, Call
<1>1. CASE OpenGood
  <2>1. TypeOK'
    BY <1>1 DEF OpenGood, Fresh
  <2>2. InLine'
    BY <1>1 DEF OpenGood, Fresh
  <2>3. Standing'
    BY <1>1 DEF OpenGood, Fresh
  <2>4. Clean'
    BY <1>1 DEF OpenGood, Fresh
  <2>5. CallsCovered'
    BY <1>1 DEF OpenGood, Fresh
  <2>6. FlushMeansDown'
    BY <1>1 DEF OpenGood, Fresh
  <2> QED
    BY <2>1, <2>2, <2>3, <2>4, <2>5, <2>6
<1>2. ASSUME NEW readable \in SUBSET Key, OpenFirst(readable) PROVE IInv'
  <2>1. TypeOK'
    <3>1. held' \in Values
      BY <1>2 DEF OpenFirst
    <3>2. chained' \in {0, 1} /\ done' = done /\ done = 0 /\ phase' \in {"opening", "open"}
      BY <1>2 DEF OpenFirst, Fresh
    <3>3. chained' \in Nat /\ done' \in 0 .. chained'
      BY <3>2
    <3>4. failed' = FALSE /\ unmovable' = FALSE /\ busy' = FALSE
      BY <1>2 DEF OpenFirst, Fresh
    <3>5. dirty' = FALSE /\ queued' \in BOOLEAN
      BY <1>2 DEF OpenFirst, Fresh
    <3>6. /\ file' \in {"absent", "good", "damaged"} /\ disk' \in Values /\ writing' \in Values
          /\ promised' \in Values /\ calls' \subseteq Call /\ asides' \in Nat
          /\ spent' \in [fails : Nat, crashes : Nat, damage : Nat]
      BY <1>2 DEF OpenFirst, Fresh
    <3> HIDE FileStoreAssumption DEF IInv, TypeOK, InLine, Standing, Clean, CallsCovered, FlushMeansDown,
        Values, Nothing, AtMost, Down, Due, Call
    <3> QED
      BY <3>1, <3>2, <3>3, <3>4, <3>5, <3>6 DEF TypeOK
  <2>2. InLine'
    BY <1>2 DEF OpenFirst, Fresh
  <2>3. Standing'
    BY <1>2 DEF OpenFirst, Fresh
  <2>4. Clean'
    BY <1>2 DEF OpenFirst, Fresh
  <2>5. CallsCovered'
    BY <1>2 DEF OpenFirst, Fresh
  <2>6. FlushMeansDown'
    BY <1>2 DEF OpenFirst, Fresh
  <2> QED
    BY <2>1, <2>2, <2>3, <2>4, <2>5, <2>6
<1>3. ASSUME NEW moved \in BOOLEAN, OpenDamaged(moved) PROVE IInv'
  <2>1. TypeOK'
    BY <1>3 DEF OpenDamaged, Fresh, Stuck
  <2>2. InLine'
    BY <1>3 DEF OpenDamaged, Fresh, Stuck
  <2>3. Standing'
    BY <1>3 DEF OpenDamaged, Fresh, Stuck
  <2>4. Clean'
    BY <1>3 DEF OpenDamaged, Fresh, Stuck
  <2>5. CallsCovered'
    BY <1>3 DEF OpenDamaged, Fresh, Stuck
  <2>6. FlushMeansDown'
    BY <1>3 DEF OpenDamaged, Fresh, Stuck
  <2> QED
    BY <2>1, <2>2, <2>3, <2>4, <2>5, <2>6
<1>4. CASE Callback
  <2>1. TypeOK'
    <3>1. chained' \in Nat /\ done' \in 0 .. chained' /\ (busy => done' < chained')
      BY <1>4 DEF Callback
    <3>2. dirty' = FALSE /\ queued' = FALSE /\ busy' = busy /\ failed' = failed /\ unmovable' = unmovable
      BY <1>4 DEF Callback
    <3>3. unmovable => chained' = 0
      BY <1>4 DEF Callback
    <3>4. /\ file' \in {"absent", "good", "damaged"} /\ disk' \in Values /\ writing' \in Values
          /\ held' \in Values /\ phase' \in {"closed", "opening", "open"}
          /\ promised' \in Values /\ calls' \subseteq Call /\ asides' \in Nat
          /\ spent' \in [fails : Nat, crashes : Nat, damage : Nat]
      BY <1>4 DEF Callback
    <3>5. busy \in BOOLEAN /\ failed \in BOOLEAN /\ unmovable \in BOOLEAN
      OBVIOUS
    <3> HIDE FileStoreAssumption DEF IInv, TypeOK, InLine, Standing, Clean, CallsCovered, FlushMeansDown,
        Values, Nothing, AtMost, Down, Due, Call
    <3> QED
      BY <3>1, <3>2, <3>3, <3>4, <3>5 DEF TypeOK
  <2>2. InLine'
    BY <1>4 DEF Callback
  <2>3. Standing'
    BY <1>4 DEF Callback
  <2>4. Clean'
    BY <1>4 DEF Callback
  <2>5. CallsCovered'
    BY <1>4 DEF Callback
  <2>6. FlushMeansDown'
    BY <1>4 DEF Callback
  <2> QED
    BY <2>1, <2>2, <2>3, <2>4, <2>5, <2>6
<1>5. ASSUME NEW call \in calls, Answer(call) PROVE IInv'
  BY <1>5 DEF Answer, More, Raises
<1>6. CASE WriteStarts
  BY <1>6 DEF WriteStarts, Runs
<1>7. ASSUME NEW ok \in BOOLEAN, NEW landed \in BOOLEAN, WriteEnds(ok, landed) PROVE IInv'
  <2>1. TypeOK'
    <3>1. done' \in 0 .. chained' /\ ~busy' /\ ~unmovable'
      BY <1>7 DEF WriteEnds
    <3>2. file' \in {"absent", "good", "damaged"} /\ disk' \in Values
      BY <1>7 DEF WriteEnds, Lands
    <3>3. spent' \in [fails : Nat, crashes : Nat, damage : Nat]
      BY <1>7 DEF WriteEnds
    <3> QED
      BY <1>7, <3>1, <3>2, <3>3 DEF WriteEnds, Fails
  <2>2. InLine'
    BY <1>7 DEF WriteEnds, Lands, Fails
  <2>3. Standing'
    BY <1>7 DEF WriteEnds, Lands, Fails
  <2>4. Clean'
    BY <1>7 DEF WriteEnds, Lands, Fails
  <2>5. CallsCovered'
    <3> SUFFICES ASSUME NEW call \in calls
                 PROVE  /\ call.until <= chained' /\ AtMost(call.want, held') /\ ~busy'
                        /\ call.until <= done' /\ ~failed' => AtMost(call.want, Down')
      BY <1>7 DEF WriteEnds
    <3>1. done < call.until
      BY <1>7 DEF WriteEnds
    <3>2. call.until <= done' => call.until = done + 1 /\ AtMost(call.want, writing)
      BY <1>7, <3>1 DEF WriteEnds
    <3>3. ~failed' => Down' = writing
      BY <1>7 DEF WriteEnds, Lands, Fails
    <3> QED
      BY <1>7, <3>2, <3>3 DEF WriteEnds
  <2>6. FlushMeansDown'
    BY <1>7 DEF WriteEnds, Lands, Fails
  <2> QED
    BY <2>1, <2>2, <2>3, <2>4, <2>5, <2>6
<1>8. ASSUME NEW landed \in BOOLEAN, Crash(landed) PROVE IInv'
  <2>1. TypeOK'
    <3>1. file' \in {"absent", "good", "damaged"} /\ disk' \in Values
      BY <1>8 DEF Crash, Lands
    <3>2. spent' \in [fails : Nat, crashes : Nat, damage : Nat]
      BY <1>8 DEF Crash
    <3>3. held' \in Values /\ writing' \in Values /\ promised' \in Values
      BY <1>8 DEF Crash
    <3>4. /\ phase' = "closed" /\ dirty' = FALSE /\ queued' = FALSE /\ busy' = FALSE
          /\ failed' = FALSE /\ unmovable' = FALSE
      BY <1>8 DEF Crash
    <3>5. chained' = 0 /\ done' = 0 /\ calls' \subseteq Call /\ asides' \in Nat
      BY <1>8 DEF Crash
    <3>6. chained' \in Nat /\ done' \in 0 .. chained'
      BY <3>5
    <3> HIDE FileStoreAssumption DEF IInv, TypeOK, InLine, Standing, Clean, CallsCovered, FlushMeansDown,
        Values, Nothing, AtMost, Down, Due, Call
    <3> QED
      BY <3>1, <3>2, <3>3, <3>4, <3>5, <3>6 DEF TypeOK
  <2>2. InLine'
    BY <1>8 DEF Crash, Lands
  <2>3. Standing'
    BY <1>8 DEF Crash, Lands
  <2>4. Clean'
    BY <1>8 DEF Crash, Lands
  <2>5. CallsCovered'
    BY <1>8 DEF Crash, Lands
  <2>6. FlushMeansDown'
    BY <1>8 DEF Crash, Lands
  <2> QED
    BY <2>1, <2>2, <2>3, <2>4, <2>5, <2>6
<1>9. CASE Damage
  BY <1>9 DEF Damage, process
<1>10. ASSUME NEW k \in Key, NEW value \in held[k] .. MaxSets, SetItem(k, value) PROVE IInv'
  <2>1. TypeOK'
    BY <1>10 DEF SetItem, Hold, Queues
  <2>2. InLine'
    BY <1>10 DEF SetItem, Hold, Queues
  <2>3. Standing'
    BY <1>10 DEF SetItem, Hold, Queues
  <2>4. Clean'
    <3>1. CASE unmovable
      BY <1>10, <3>1 DEF SetItem, Hold, Queues
    <3>2. CASE ~unmovable
      <4>1. dirty'
        BY <1>10, <3>2 DEF SetItem, Queues
      <4> QED
        BY <4>1
    <3> QED
      BY <3>1, <3>2
  <2>5. CallsCovered'
    BY <1>10 DEF SetItem, Hold, Queues
  <2>6. FlushMeansDown'
    BY <1>10 DEF SetItem, Hold, Queues
  <2> QED
    BY <2>1, <2>2, <2>3, <2>4, <2>5, <2>6
<1>11. ASSUME NEW c \in Caller, Flush(c) PROVE IInv'
  <2>1. TypeOK'
    <3>1. calls' \subseteq Call
      BY <1>11 DEF Flush, FlushOf, Until
    <3>2. chained' \in Nat /\ done \in 0 .. chained' /\ (busy => done < chained')
      BY <1>11 DEF Flush, FlushOf
    <3>3. unmovable => chained' = 0
      BY <1>11 DEF Flush, FlushOf
    <3> QED
      BY <1>11, <3>1, <3>2, <3>3 DEF Flush, FlushOf
  <2>2. InLine'
    BY <1>11 DEF Flush, FlushOf, Until
  <2>3. Standing'
    BY <1>11 DEF Flush, FlushOf, Until
  <2>4. Clean'
    BY <1>11 DEF Flush, FlushOf, Until
  <2>5. CallsCovered'
    BY <1>11 DEF Flush, FlushOf, Until
  <2>6. FlushMeansDown'
    BY <1>11 DEF Flush, FlushOf, Until
  <2> QED
    BY <2>1, <2>2, <2>3, <2>4, <2>5, <2>6
<1>12. ASSUME NEW k \in Key, NEW c \in Caller, NEW value \in held[k] .. MaxSets, SetAndFlush(k, value, c) PROVE IInv'
  <2>1. TypeOK'
    <3>1. calls' \subseteq Call
      BY <1>12 DEF SetAndFlush, Hold, Refuses, FlushOf, Until
    <3>2. chained' \in Nat /\ done \in 0 .. chained' /\ (busy => done < chained')
      BY <1>12 DEF SetAndFlush, Hold, Refuses, FlushOf
    <3>3. unmovable => chained' = 0
      BY <1>12 DEF SetAndFlush, Hold, Refuses, FlushOf
    <3> QED
      BY <1>12, <3>1, <3>2, <3>3 DEF SetAndFlush, Hold, Refuses, FlushOf
  <2>2. InLine'
    BY <1>12 DEF SetAndFlush, Hold, Refuses, FlushOf, Until
  <2>3. Standing'
    BY <1>12 DEF SetAndFlush, Hold, Refuses, FlushOf, Until
  <2>4. Clean'
    BY <1>12 DEF SetAndFlush, Hold, Refuses, FlushOf, Until
  <2>5. CallsCovered'
    BY <1>12 DEF SetAndFlush, Hold, Refuses, FlushOf, Until
  <2>6. FlushMeansDown'
    BY <1>12 DEF SetAndFlush, Hold, Refuses, FlushOf, Until
  <2> QED
    BY <2>1, <2>2, <2>3, <2>4, <2>5, <2>6
<1>13. CASE UNCHANGED vars
  BY <1>13 DEF vars, process
<1> QED
  BY <1>1, <1>2, <1>3, <1>4, <1>5, <1>6, <1>7, <1>8, <1>9, <1>10, <1>11, <1>12, <1>13 DEF Next, Behind

\* The order holds in every state of every behaviour.
LEMMA SpecIInv == Spec => []IInv
BY InitIInv, NextIInv, PTL DEF Spec

\* Types, and that nothing is chained while a damaged file is in its place
\* (fileStore.ts:188, :246).
THEOREM TypeCorrect == Spec => []TypeOK
<1>1. IInv => TypeOK
  BY DEF IInv
<1> QED
  BY <1>1, SpecIInv, PTL

\* A flush that resolved told the truth (fileStore.ts:262): the bytes are down
\* and stay down, whatever fails or dies afterwards.
THEOREM FlushesAreDown == Spec => []FlushMeansDown
<1>1. IInv => FlushMeansDown
  BY DEF IInv
<1> QED
  BY <1>1, SpecIInv, PTL

\* What memory holds and the file does not is going to be written, or the
\* store says it is not healthy (fileStore.ts:223, :247).
THEOREM NothingIsForgotten == Spec => []NothingForgotten
<1>1. IInv => NothingForgotten
  BY DEF IInv, Clean, NothingForgotten
<1> QED
  BY <1>1, SpecIInv, PTL

\* A file that cannot be read leaves its place only by being moved aside
\* (fileStore.ts:188).
THEOREM DamagedFilesAreKept == Spec => DamagedIsKept
<1>1. ASSUME IInv, [Next]_vars
      PROVE  [file = "damaged" /\ file' # "damaged" => asides' = asides + 1]_vars
  <2> SUFFICES ASSUME Next, file = "damaged", file' # "damaged" PROVE asides' = asides + 1
    BY <1>1
  <2>1. phase # "closed" => unmovable /\ chained = 0
    BY <1>1 DEF IInv, Standing, TypeOK
  <2>2. ~busy
    BY <1>1, <2>1 DEF IInv, Standing, TypeOK
  <2>3. ASSUME NEW moved \in BOOLEAN, OpenDamaged(moved) PROVE asides' = asides + 1
    BY <2>3 DEF OpenDamaged
  <2>4. ASSUME NEW landed \in BOOLEAN, Crash(landed) PROVE FALSE
    BY <2>2, <2>4 DEF Crash, Lands
  <2>5. ASSUME NEW readable \in SUBSET Key, OpenFirst(readable) PROVE FALSE
    BY <2>5 DEF OpenFirst
  <2> QED
    BY <2>2, <2>3, <2>4, <2>5
    DEF Next, Behind, OpenGood, Callback, Answer, WriteStarts, WriteEnds, Damage, SetItem, Flush, SetAndFlush, FlushOf
<1> QED
  BY <1>1, SpecIInv, PTL DEF Spec, DamagedIsKept

-----------------------------------------------------------------------------
(* The cards and the settings *)

Bounded == [Key -> 0 .. MaxSets]

\* What a store has in memory is at least what it gave the flat store.
Ahead ==
    /\ held \in Bounded /\ disk \in Bounded /\ writing \in Bounded
    /\ step # "idle" => up
    /\ up => /\ phase = "open"
             /\ list \in Nat /\ held[cards] <= list /\ list <= MaxSets
             /\ prefs \in Nat /\ held[settings] <= prefs /\ prefs <= MaxSets

LEMMA InitAhead == FlatInit => Ahead
BY FileStoreAssumption DEF FlatInit, Init, Ahead, Bounded, Nothing

\* Every step is one of the file store or leaves it alone, and keeps the stores
\* ahead of it.
LEMMA StepsBeneath == Ahead /\ [FlatNext]_allVars => [Next]_vars /\ Ahead'
<1> SUFFICES ASSUME Ahead, [FlatNext]_allVars PROVE [Next]_vars /\ Ahead'
  OBVIOUS
<1> USE FileStoreAssumption, FlatStoreAssumption
<1>1. CASE Beneath
  <2>1. Next
    BY <1>1 DEF Beneath, Next
  <2>2. held' \in Bounded /\ disk' \in Bounded /\ writing' \in Bounded
    <3> USE DEF Ahead, Bounded
    <3>1. CASE OpenGood \/ WriteStarts \/ Callback \/ Damage
      BY <3>1 DEF OpenGood, Fresh, WriteStarts, Callback, Damage, process
    <3>2. ASSUME NEW readable \in SUBSET Key, OpenFirst(readable)
          PROVE  held' \in Bounded /\ disk' \in Bounded /\ writing' \in Bounded
      BY <3>2 DEF OpenFirst, Fresh
    <3>3. ASSUME NEW moved \in BOOLEAN, OpenDamaged(moved)
          PROVE  held' \in Bounded /\ disk' \in Bounded /\ writing' \in Bounded
      BY <3>3 DEF OpenDamaged, Fresh, Nothing
    <3>4. ASSUME NEW call \in calls, Answer(call)
          PROVE  held' \in Bounded /\ disk' \in Bounded /\ writing' \in Bounded
      BY <3>4 DEF Answer
    <3>5. ASSUME NEW ok \in BOOLEAN, NEW landed \in BOOLEAN, WriteEnds(ok, landed)
          PROVE  held' \in Bounded /\ disk' \in Bounded /\ writing' \in Bounded
      BY <3>5 DEF WriteEnds, Lands, Nothing
    <3>6. ASSUME NEW landed \in BOOLEAN, Crash(landed)
          PROVE  held' \in Bounded /\ disk' \in Bounded /\ writing' \in Bounded
      BY <3>6 DEF Crash, Lands, Nothing
    <3> QED
      BY <1>1, <3>1, <3>2, <3>3, <3>4, <3>5, <3>6 DEF Beneath, Behind
  <2>3. phase = "open" /\ phase' # "closed" => phase' = "open" /\ held' = held
    BY <1>1 DEF Beneath, Behind, OpenGood, OpenFirst, OpenDamaged, Callback, Answer, WriteStarts,
                WriteEnds, Crash, Damage
  <2>4. up' => up /\ phase' # "closed"
    BY <1>1 DEF Beneath
  <2>5. phase' # "closed" => list' = list /\ prefs' = prefs
    BY <1>1 DEF Beneath
  <2>6. step' # "idle" => up'
    BY <1>1 DEF Beneath, Ahead
  <2> QED
    BY <2>1, <2>2, <2>3, <2>4, <2>5, <2>6 DEF Ahead
<1>2. CASE Boot
  BY <1>2 DEF Boot, Ahead, Kept, vars, process, Bounded
<1>3. ASSUME NEW change \in BOOLEAN, Apply(change) PROVE [Next]_vars /\ Ahead'
  <2>1. /\ up /\ UNCHANGED <<vars, up, prefs>>
        /\ list' = (IF change THEN list + 1 ELSE list) /\ (change => list < MaxSets)
    BY <1>3 DEF Apply
  <2>2. UNCHANGED <<held, disk, writing, phase>>
    BY <2>1 DEF vars, process
  <2>3. held[cards] \in Nat /\ MaxSets \in Nat
    BY DEF Ahead, Bounded
  <2>4. list' \in Nat /\ held[cards] <= list' /\ list' <= MaxSets
    BY <2>1, <2>3 DEF Ahead
  <2> QED
    BY <2>1, <2>2, <2>4 DEF Ahead
<1>4. ASSUME NEW begun \in BOOLEAN, Write(begun) PROVE [Next]_vars /\ Ahead'
  <2>1. list \in held[cards] .. MaxSets /\ up
    BY <1>4 DEF Write, Ahead, Bounded
  <2>2. [Next]_vars
    BY <1>4, <2>1 DEF Write, Next
  <2>3. UNCHANGED <<up, list, prefs, prefsOk>>
    BY <1>4 DEF Write
  <2>4. UNCHANGED <<phase, disk, writing>> /\ held' \in {held, [held EXCEPT ![cards] = list]}
    BY <1>4 DEF Write, SetItem, SetAndFlush, FlushOf, Hold, vars, process
  <2> QED
    BY <2>1, <2>2, <2>3, <2>4 DEF Ahead, Bounded
<1>5. ASSUME NEW ok \in BOOLEAN, Commit(ok) PROVE [Next]_vars /\ Ahead'
  BY <1>5 DEF Commit, Rejected, Ahead, vars, process
<1>6. CASE Change
  <2>1. prefs' \in held[settings] .. MaxSets /\ up
    BY <1>6 DEF Change, Ahead, Bounded
  <2>2. [Next]_vars
    BY <1>6, <2>1 DEF Change, Next
  <2>3. UNCHANGED <<up, list, step>>
    BY <1>6 DEF Change
  <2>4. UNCHANGED <<phase, disk, writing>> /\ held' \in {held, [held EXCEPT ![settings] = prefs']}
    BY <1>6 DEF Change, SetItem, Hold, vars, process
  <2> QED
    BY <2>1, <2>2, <2>3, <2>4 DEF Ahead, Bounded
<1>7. ASSUME NEW c \in Caller, Flush(c) /\ UNCHANGED clients PROVE [Next]_vars /\ Ahead'
  BY <1>7 DEF Flush, FlushOf, clients, Next, Ahead
<1>8. CASE UNCHANGED allVars
  BY <1>8 DEF allVars, vars, process, clients, Ahead
<1> QED
  BY <1>1, <1>2, <1>3, <1>4, <1>5, <1>6, <1>7, <1>8 DEF FlatNext

\* The two stores over the flat file are a use of it that FileStore allows
\* (cardStore.ts:190, settings.ts:444): Spec holds of them.
THEOREM UsesTheFileStore == FlatSpec => Spec
<1>1. FlatInit => Init
  BY DEF FlatInit
<1> QED
  BY <1>1, InitAhead, StepsBeneath, PTL DEF FlatSpec, Spec

\* So what a flush promised is down under the cards and the settings too
\* (fileStore.ts:262), whatever the two do to each other's file.
THEOREM PromisesHoldUnderBoth == FlatSpec => []FlushMeansDown
BY UsesTheFileStore, FlushesAreDown

-----------------------------------------------------------------------------
(* Types *)

LEMMA InitTypes == FlatInit => AllTypeOK
<1> SUFFICES ASSUME FlatInit PROVE AllTypeOK
  OBVIOUS
<1>1. up = FALSE /\ stale = FALSE /\ cardsOk = FALSE /\ prefsOk = FALSE
  BY DEF FlatInit
<1>2. list = 0 /\ saved = 0 /\ prefs = 0 /\ step = "idle" /\ calls = {}
  BY DEF FlatInit, Init
<1> QED
  BY <1>1, <1>2 DEF AllTypeOK

\* The file store on its own takes calls away, and the cards hear of theirs.
LEMMA BeneathTypes ==
    ASSUME Ahead, AllTypeOK, Beneath
    PROVE  AllTypeOK'
<1>1. calls' \subseteq calls
  BY DEF Beneath, Behind, OpenGood, OpenFirst, OpenDamaged, Fresh, Callback, Answer, WriteStarts,
         WriteEnds, Crash, Damage, process
<1>2. phase = "open" /\ phase' # "closed" => phase' = "open"
  BY DEF Beneath, Behind, OpenGood, OpenFirst, OpenDamaged, Callback, Answer, WriteStarts, WriteEnds,
         Crash, Damage, process
<1>3. phase = "open" /\ phase' = "closed" => calls' = {}
  BY DEF Beneath, Behind, OpenGood, OpenFirst, OpenDamaged, Fresh, Callback, Answer, WriteStarts,
         WriteEnds, Crash, Damage, process
<1>4. /\ up' = (up /\ phase' # "closed")
      /\ saved' \in {0, saved} /\ list' \in {0, list} /\ prefs' \in {0, prefs}
      /\ stale' \in {stale, TRUE, FALSE} /\ cardsOk' \in {cardsOk, FALSE} /\ prefsOk' \in {prefsOk, FALSE}
  BY DEF Beneath
<1>5. /\ up' \in BOOLEAN /\ stale' \in BOOLEAN /\ cardsOk' \in BOOLEAN /\ prefsOk' \in BOOLEAN
      /\ saved' \in Nat /\ list' \in Nat /\ prefs' \in Nat
  <2>1. up' \in BOOLEAN /\ stale' \in BOOLEAN /\ cardsOk' \in BOOLEAN /\ prefsOk' \in BOOLEAN
    BY <1>4 DEF AllTypeOK
  <2>2. saved \in Nat /\ list \in Nat /\ prefs \in Nat
    BY DEF AllTypeOK
  <2>3. saved' \in Nat /\ list' \in Nat /\ prefs' \in Nat
    BY <1>4, <2>2
  <2> QED
    BY <2>1, <2>3
<1>6. CASE phase' = "closed"
  <2>1. step' = "idle" /\ ~up'
    BY <1>4, <1>6 DEF Beneath
  <2>2. ~\E call \in calls' : call.by = cards
    <3>1. CASE phase = "open"
      BY <1>3, <1>6, <3>1
    <3>2. CASE phase # "open"
      BY <1>1, <3>2 DEF AllTypeOK
    <3> QED BY <3>1, <3>2
  <2> QED
    BY <1>5, <2>1, <2>2 DEF AllTypeOK
<1>7. CASE phase' # "closed"
  <2>1. up' = up
    BY <1>4, <1>7 DEF AllTypeOK
  <2>2. CASE step = "flush" /\ ~\E call \in calls' : call.by = cards
    <3>1. step' \in {"idle", "commit"}
      BY <1>7, <2>2 DEF Beneath
    <3> QED
      BY <1>2, <1>5, <1>7, <2>1, <2>2, <3>1 DEF AllTypeOK
  <2>3. CASE ~(step = "flush" /\ ~\E call \in calls' : call.by = cards)
    <3>1. step' = step
      BY <1>7, <2>3 DEF Beneath
    <3>2. step' = "flush" <=> \E call \in calls' : call.by = cards
      BY <1>1, <2>3, <3>1 DEF AllTypeOK
    <3> QED
      BY <1>2, <1>5, <1>7, <2>1, <3>1, <3>2 DEF AllTypeOK
  <2> QED
    BY <2>2, <2>3
<1> QED
  BY <1>6, <1>7

LEMMA StepTypes == Ahead /\ AllTypeOK /\ [FlatNext]_allVars => AllTypeOK'
<1> SUFFICES ASSUME Ahead, AllTypeOK, [FlatNext]_allVars PROVE AllTypeOK'
  OBVIOUS
<1> USE FlatStoreAssumption, FileStoreAssumption
<1>1. CASE Beneath
  BY <1>1, BeneathTypes
<1>2. CASE Boot
  <2>1. up' = TRUE /\ stale' = FALSE /\ cardsOk' = TRUE /\ prefsOk' = TRUE
    BY <1>2 DEF Boot
  <2>2. list' \in Nat /\ prefs' \in Nat
    BY <1>2 DEF Boot, Kept, Ahead, Bounded
  <2>3. UNCHANGED <<phase, calls, step, saved>> /\ phase = "open"
    BY <1>2 DEF Boot, vars, process
  <2> QED
    BY <2>1, <2>2, <2>3 DEF AllTypeOK
<1>3. ASSUME NEW change \in BOOLEAN, Apply(change) PROVE AllTypeOK'
  BY <1>3 DEF Apply, AllTypeOK, vars, process
<1>4. ASSUME NEW begun \in BOOLEAN, Write(begun) PROVE AllTypeOK'
  <2>1. CASE step' = "idle"
    BY <1>4, <2>1 DEF Write, Rejected, SetItem, Hold, AllTypeOK, vars, process, AwaitsFlush
  <2>2. CASE step' # "idle"
    <3>1. /\ SetAndFlush(cards, list, cards) /\ step' = "flush" /\ UNCHANGED <<stale, cardsOk, saved>>
          /\ UNCHANGED <<up, list, prefs, prefsOk>> /\ step = "begin"
      BY <1>4, <2>2 DEF Write, Rejected, AwaitsFlush
    <3>2. UNCHANGED phase
      BY <3>1 DEF SetAndFlush, FlushOf
    <3>3. \E call \in calls' : call.by = cards
      <4> DEFINE new == [by |-> cards, until |-> Until(TRUE), want |-> held']
      <4>1. new \in calls'
        BY <3>1 DEF SetAndFlush, FlushOf
      <4>2. new.by = cards
        OBVIOUS
      <4> QED
        BY <4>1, <4>2
    <3> QED
      BY <3>1, <3>2, <3>3 DEF AllTypeOK
  <2> QED
    BY <2>1, <2>2
<1>5. ASSUME NEW ok \in BOOLEAN, Commit(ok) PROVE AllTypeOK'
  BY <1>5 DEF Commit, Rejected, AllTypeOK, vars, process
<1>6. CASE Change
  <2>1. UNCHANGED <<phase, calls, up, list, stale, cardsOk, step, saved>>
    BY <1>6 DEF Change, SetItem, Hold, vars, process
  <2>2. prefs' \in Nat
    BY <1>6 DEF Change, AllTypeOK
  <2>3. prefsOk' \in BOOLEAN
    BY <1>6 DEF Change, AllTypeOK, Refuses
  <2> QED
    BY <2>1, <2>2, <2>3 DEF AllTypeOK
<1>7. ASSUME NEW c \in Caller \ {cards}, Flush(c) /\ UNCHANGED clients PROVE AllTypeOK'
  BY <1>7 DEF Flush, FlushOf, clients, AllTypeOK
<1>8. CASE UNCHANGED allVars
  BY <1>8 DEF allVars, vars, process, clients, AllTypeOK
<1> QED
  BY <1>1, <1>2, <1>3, <1>4, <1>5, <1>6, <1>7, <1>8 DEF FlatNext

\* Types, and the cards wait for a flush exactly while a call of theirs does
\* (cardStore.ts:190).
THEOREM FlatTypesCorrect == FlatSpec => []AllTypeOK
BY InitAhead, InitTypes, StepsBeneath, StepTypes, PTL DEF FlatSpec

-----------------------------------------------------------------------------
(* What the two stores say *)

\* v of k is found by the next launch, and by the one after the write under way.
Safe(k, v) == v <= Loadable(k) /\ (busy => v <= writing[k])

\* Before the stores are built, the file store holds nothing the file does not.
Opened ==
    ~up /\ phase # "closed" => /\ \A k \in Key : held[k] <= Loadable(k)
                               /\ busy => writing = held

SavedCovered == Safe(cards, saved) /\ (phase # "closed" => saved <= held[cards])

\* The list in memory is held, and safe, unless the disk is behind.
Level == step = "commit" \/ (step = "idle" /\ ~stale)

CardsCovered ==
    /\ cardsOk => ~stale
    /\ \A call \in calls : call.by = cards => call.want[cards] = list
    /\ up /\ (step = "flush" \/ Level) => held[cards] = list
    /\ up /\ Level => Safe(cards, list)

SettingsCovered == up /\ prefsOk => held[settings] = prefs

Told == Opened /\ SavedCovered /\ CardsCovered /\ SettingsCovered

\* The four things the file store does on its own: it goes on, ends, opens and is
\* damaged.
Landing ==
    \/ file' = file /\ disk' = disk
    \/ busy /\ file' = "good" /\ disk' = writing

GoesOn ==
    /\ phase # "closed" /\ phase' # "closed" /\ held' = held /\ Landing
    /\ busy' => (writing' = held \/ (busy /\ writing' = writing))

Closes == phase # "closed" /\ phase' = "closed" /\ Landing /\ ~busy'

Opens ==
    /\ phase = "closed" /\ phase' # "closed" /\ ~busy' /\ disk' = disk /\ held' \in Values
    /\ \/ file = "good" /\ file' = "good" /\ held' = disk
       \/ file = "absent" /\ file' = "absent" /\ \A k \in Key : held'[k] <= Legacy[k]
       \/ file = "damaged" /\ file' \in {"damaged", "absent"} /\ held' = Nothing

Damages == phase = "closed" /\ phase' = "closed" /\ file = "good" /\ file' = "damaged" /\ ~busy'

LEMMA FourThings ==
    ASSUME IInv, Behind
    PROVE  GoesOn \/ Closes \/ Opens \/ Damages
<1> USE FileStoreAssumption
<1>1. TypeOK /\ (phase = "closed" => ~busy)
  BY DEF IInv, Standing
<1>2. CASE OpenGood
  BY <1>1, <1>2 DEF OpenGood, Fresh, Opens, TypeOK
<1>3. ASSUME NEW readable \in SUBSET Key, OpenFirst(readable) PROVE Opens
  <2>1. held' \in Values /\ \A k \in Key : held'[k] <= Legacy[k]
    BY <1>3 DEF OpenFirst, Values
  <2> QED
    BY <1>1, <1>3, <2>1 DEF OpenFirst, Fresh, Opens
<1>4. ASSUME NEW moved \in BOOLEAN, OpenDamaged(moved) PROVE Opens
  BY <1>1, <1>4, NothingIsValues DEF OpenDamaged, Fresh, Opens
<1>5. CASE Callback
  BY <1>5 DEF Callback, GoesOn, Landing
<1>6. ASSUME NEW call \in calls, Answer(call) PROVE GoesOn \/ (phase = "closed" /\ calls # {})
  BY <1>6 DEF Answer, GoesOn, Landing
<1>7. CASE WriteStarts
  BY <1>7 DEF WriteStarts, GoesOn, Landing
<1>8. ASSUME NEW ok \in BOOLEAN, NEW landed \in BOOLEAN, WriteEnds(ok, landed) PROVE GoesOn
  BY <1>1, <1>8 DEF WriteEnds, Lands, GoesOn, Landing
<1>9. ASSUME NEW landed \in BOOLEAN, Crash(landed) PROVE Closes
  BY <1>9 DEF Crash, Lands, Closes, Landing
<1>10. CASE Damage
  BY <1>1, <1>10 DEF Damage, process, Damages
<1>11. phase = "closed" => calls = {}
  BY DEF IInv, Standing
<1> QED
  BY <1>2, <1>3, <1>4, <1>5, <1>6, <1>7, <1>8, <1>9, <1>10, <1>11 DEF Behind

\* What is safe stays so as long as the file is not damaged, for it is held.
LEMMA StaysSafe ==
    ASSUME IInv, GoesOn \/ Closes, NEW k \in Key
    PROVE  \A v \in Nat : Safe(k, v) /\ (GoesOn => v <= held[k]) => Safe(k, v)'
<1>1. file \in {"absent", "good", "damaged"} /\ disk \in Values /\ held \in Values /\ writing \in Values
  BY DEF IInv, TypeOK
<1>2. busy /\ file = "good" => disk[k] <= writing[k]
  BY DEF IInv, InLine, AtMost, Down
<1>3. CASE file' = file /\ disk' = disk
  BY <1>1, <1>2, <1>3, FileStoreAssumption DEF GoesOn, Closes, Safe, Loadable, Values
<1>4. CASE busy /\ file' = "good" /\ disk' = writing
  BY <1>1, <1>2, <1>4, FileStoreAssumption DEF GoesOn, Closes, Safe, Loadable, Values
<1> QED
  BY <1>3, <1>4 DEF GoesOn, Closes, Landing

LEMMA OpenedBeneath ==
    ASSUME IInv, Ahead, AllTypeOK, Opened, Beneath
    PROVE  Opened'
<1> SUFFICES ASSUME ~up', phase' # "closed"
             PROVE  (\A k \in Key : held'[k] <= Loadable(k)') /\ (busy' => writing' = held')
  BY DEF Opened
<1> USE FileStoreAssumption
<1>1. ~up
  BY DEF Beneath, AllTypeOK
<1>2. /\ file \in {"absent", "good", "damaged"} /\ disk \in Values /\ held \in Values /\ writing \in Values
  BY DEF IInv, TypeOK
<1>3. CASE GoesOn
  <2>1. busy' => writing' = held'
    BY <1>1, <1>3 DEF GoesOn, Opened
  <2>2. \A k \in Key : held'[k] <= Loadable(k)'
    BY <1>1, <1>2, <1>3 DEF GoesOn, Landing, Opened, Loadable, Values
  <2> QED
    BY <2>1, <2>2
<1>4. CASE Opens
  BY <1>2, <1>4 DEF Opens, Loadable, Values, Nothing
<1> QED
  BY <1>3, <1>4, FourThings DEF Beneath, Closes, Damages

LEMMA SavedBeneath ==
    ASSUME IInv, Ahead, AllTypeOK, SavedCovered, Beneath
    PROVE  SavedCovered'
<1> USE FileStoreAssumption, FlatStoreAssumption
<1>1. /\ file \in {"absent", "good", "damaged"} /\ disk \in Values /\ held \in Values /\ writing \in Values
      /\ saved \in Nat
  BY DEF IInv, TypeOK, AllTypeOK
<1>2. saved' \in {0, saved}
  BY DEF Beneath
<1>3. CASE saved' = 0
  <2>1. TypeOK'
    BY NextIInv DEF Beneath, Next, IInv
  <2>2. disk' \in Values /\ held' \in Values /\ writing' \in Values
    BY <2>1 DEF TypeOK
  <2> QED
    BY <1>3, <2>2 DEF SavedCovered, Safe, Loadable, Values
<1>4. CASE saved' = saved /\ (GoesOn \/ Closes)
  <2>1. Safe(cards, saved)'
    BY <1>1, <1>4, StaysSafe DEF SavedCovered, GoesOn, Safe, Loadable
  <2> QED
    BY <1>4, <2>1 DEF SavedCovered, GoesOn, Closes
<1>5. CASE saved' = saved /\ Opens
  <2>1. file = "absent" => ~(held'[cards] < saved) \/ saved' = 0
    BY <1>5 DEF Opens, Beneath
  <2> QED
    BY <1>1, <1>5, <2>1 DEF Opens, SavedCovered, Safe, Loadable, Values, Nothing
<1>6. Damages => saved' = 0
  BY DEF Damages, Beneath
<1> QED
  BY <1>2, <1>3, <1>4, <1>5, <1>6, FourThings DEF Beneath

\* A call that is answered well is down: what it wanted is in the file, and in
\* whatever is being written over it.
LEMMA AnsweredIsSafe ==
    ASSUME IInv, NEW call \in calls, Due(call), ~failed, NEW k \in Key
    PROVE  Safe(k, call.want[k])
<1>1. call.want[k] <= Down[k] /\ call.want[k] \in Nat
  BY DEF IInv, CallsCovered, AtMost, TypeOK, Call, Values
<1>2. file \in {"absent", "good", "damaged"} /\ disk[k] \in Nat /\ writing[k] \in Nat /\ Legacy[k] \in Nat
  BY FileStoreAssumption DEF IInv, TypeOK, Values
<1>3. busy => Down[k] <= writing[k]
  BY DEF IInv, InLine, AtMost
<1>4. Down[k] <= Loadable(k) /\ Down[k] \in Nat
  BY <1>2 DEF Down, Loadable, Nothing
<1>5. Loadable(k) \in Nat
  BY <1>2 DEF Loadable
<1> QED
  BY <1>1, <1>2, <1>3, <1>4, <1>5 DEF Safe

LEMMA CardsBeneath ==
    ASSUME IInv, Ahead, AllTypeOK, CardsCovered, Beneath
    PROVE  CardsCovered'
<1> USE FileStoreAssumption, FlatStoreAssumption
<1>1. calls' \subseteq calls
  BY DEF Beneath, Behind, OpenGood, OpenFirst, OpenDamaged, Fresh, Callback, Answer, WriteStarts,
         WriteEnds, Crash, Damage, process
<1>2. CASE phase' = "closed"
  <2>1. calls' = {}
    BY <1>2, NextIInv DEF Beneath, Next, IInv, Standing
  <2>2. ~up' /\ cardsOk' = FALSE
    BY <1>2 DEF Beneath
  <2> QED
    BY <2>1, <2>2 DEF CardsCovered
<1>3. CASE phase' # "closed"
  <2>1. list' = list /\ up' = up
    BY <1>3 DEF Beneath, AllTypeOK
  <2>2. \A call \in calls' : call.by = cards => call.want[cards] = list'
    BY <1>1, <2>1 DEF CardsCovered
  <2>3. cardsOk' => ~stale'
    BY <1>3 DEF Beneath, CardsCovered
  <2>4. up => GoesOn
    BY <1>3, FourThings DEF Beneath, Ahead, Opens, Damages, Closes
  <2>5. CASE step = "flush" /\ ~\E call \in calls' : call.by = cards
    <3>1. CASE Raises
      <4>1. step' = "idle" /\ stale' = TRUE
        BY <1>3, <2>5, <3>1 DEF Beneath
      <4> QED
        BY <2>2, <2>3, <4>1 DEF CardsCovered, Level
    <3>2. CASE ~Raises
      <4>1. step' = "commit" /\ up /\ held' = held /\ held[cards] = list
        BY <1>3, <2>4, <2>5, <3>2 DEF Beneath, AllTypeOK, CardsCovered, GoesOn
      <4>2. PICK call \in calls : call.by = cards /\ call \notin calls'
        BY <2>5 DEF AllTypeOK
      <4>3. PICK c \in calls : Answer(c)
        BY <1>3, <4>2 DEF Beneath, Behind, OpenGood, OpenFirst, OpenDamaged, Fresh, Callback, WriteStarts,
                          WriteEnds, Crash, Damage, process
      <4>4. c = call /\ Due(call) /\ UNCHANGED <<file, disk, busy, writing>>
        BY <4>2, <4>3 DEF Answer
      <4>5. Safe(cards, list)
        BY <3>2, <4>2, <4>4, AnsweredIsSafe DEF CardsCovered, Raises
      <4>6. Safe(cards, list)'
        BY <2>1, <4>4, <4>5 DEF Safe, Loadable
      <4> QED
        BY <2>1, <2>2, <2>3, <4>1, <4>6 DEF CardsCovered, Level
    <3> QED
      BY <3>1, <3>2
  <2>6. CASE ~(step = "flush" /\ ~\E call \in calls' : call.by = cards)
    <3>1. UNCHANGED <<step, stale>>
      BY <1>3, <2>6 DEF Beneath
    <3>2. up /\ Level => Safe(cards, list)'
      <4> SUFFICES ASSUME up, Level PROVE Safe(cards, list)'
        OBVIOUS
      <4>1. Safe(cards, list) /\ list \in Nat /\ list <= held[cards]
        BY DEF CardsCovered, Ahead
      <4> QED
        BY <2>1, <2>4, <4>1, StaysSafe DEF Safe, Loadable
    <3>3. up => held' = held
      BY <2>4 DEF GoesOn
    <3> QED
      BY <2>1, <2>2, <2>3, <3>1, <3>2, <3>3 DEF CardsCovered, Level
  <2> QED
    BY <2>5, <2>6
<1> QED
  BY <1>2, <1>3

LEMMA SettingsBeneath ==
    ASSUME IInv, Ahead, AllTypeOK, SettingsCovered, Beneath
    PROVE  SettingsCovered'
<1> SUFFICES ASSUME up', prefsOk' PROVE held'[settings] = prefs'
  BY DEF SettingsCovered
<1>1. phase' # "closed" /\ up
  BY DEF Beneath, AllTypeOK
<1>2. UNCHANGED <<prefs, prefsOk>>
  BY <1>1 DEF Beneath
<1>3. held' = held
  BY <1>1, FourThings DEF Beneath, Ahead, GoesOn, Opens, Damages, Closes
<1> QED
  BY <1>1, <1>2, <1>3 DEF SettingsCovered

LEMMA InitTold == FlatInit => Told
BY FileStoreAssumption, FlatStoreAssumption
   DEF FlatInit, Init, Told, Opened, SavedCovered, Safe, Loadable, CardsCovered, Level, SettingsCovered, Nothing

LEMMA StepTold == IInv /\ Ahead /\ AllTypeOK /\ Told /\ [FlatNext]_allVars => Told'
<1> SUFFICES ASSUME IInv, Ahead, AllTypeOK, Told, [FlatNext]_allVars PROVE Told'
  OBVIOUS
<1> USE FlatStoreAssumption, FileStoreAssumption DEF Told
<1>1. CASE Beneath
  BY <1>1, OpenedBeneath, SavedBeneath, CardsBeneath, SettingsBeneath
<1>2. CASE Boot
  <2>1. UNCHANGED <<file, disk, phase, held, busy, writing, calls, step, saved>>
    BY <1>2 DEF Boot, vars, process
  <2>2. up' /\ ~up /\ phase = "open" /\ list' = held[cards] /\ prefs' = held[settings] /\ ~stale'
    BY <1>2 DEF Boot, Kept
  <2>3. Safe(cards, held[cards])
    BY <2>2 DEF Opened, Safe, IInv, TypeOK, Values
  <2>4. \A call \in calls : call.by # cards
    BY <2>2 DEF AllTypeOK
  <2>5. Opened' /\ SavedCovered' /\ SettingsCovered'
    BY <2>1, <2>2 DEF Opened, SavedCovered, SettingsCovered, Safe, Loadable
  <2>6. CardsCovered'
    BY <2>1, <2>2, <2>3, <2>4 DEF CardsCovered, Level, Safe, Loadable
  <2> QED
    BY <2>5, <2>6
<1>3. ASSUME NEW change \in BOOLEAN, Apply(change) PROVE Told'
  <2>1. /\ UNCHANGED <<file, disk, phase, held, busy, writing, calls, up, stale, cardsOk, prefs, prefsOk>>
        /\ up /\ step = "idle"
    BY <1>3 DEF Apply, vars, process
  <2>2. \A call \in calls : call.by # cards
    BY <2>1 DEF AllTypeOK
  <2>3. Opened' /\ SettingsCovered'
    BY <2>1 DEF Opened, SettingsCovered
  <2>4. CASE NothingToWrite(change)
    <3>1. list' = list /\ saved' = list /\ step' = step /\ Level
      BY <1>3, <2>1, <2>4 DEF Apply, NothingToWrite, Level
    <3>2. Safe(cards, list) /\ held[cards] = list /\ list \in Nat
      BY <2>1, <3>1 DEF CardsCovered, Ahead
    <3> QED
      BY <2>1, <2>3, <3>1, <3>2 DEF SavedCovered, CardsCovered, Level, Safe, Loadable
  <2>5. CASE ~NothingToWrite(change)
    <3>1. step' = "begin" /\ saved' = saved
      BY <1>3, <2>5 DEF Apply
    <3> QED
      BY <2>1, <2>2, <2>3, <3>1 DEF SavedCovered, CardsCovered, Level, Safe, Loadable
  <2> QED
    BY <2>4, <2>5
<1>4. ASSUME NEW begun \in BOOLEAN, Write(begun) PROVE Told'
  <2>1. /\ UNCHANGED <<file, disk, phase, busy, writing, up, list, prefs, prefsOk>> /\ saved' = saved
        /\ up /\ step = "begin" /\ step' \in {"idle", "flush"}
    BY <1>4 DEF Write, Rejected, SetItem, SetAndFlush, FlushOf, Hold, AllTypeOK, AwaitsFlush, vars, process
  <2>2. \A call \in calls : call.by # cards
    BY <2>1 DEF AllTypeOK
  <2>3. held' \in {held, [held EXCEPT ![cards] = list]} /\ held[cards] <= list /\ held \in [Key -> Nat]
    BY <1>4 DEF Write, SetItem, SetAndFlush, FlushOf, Hold, vars, process, Ahead, AllTypeOK, IInv, TypeOK, Values
  <2>4. held'[settings] = held[settings] /\ held[cards] <= held'[cards]
    BY <2>3 DEF AllTypeOK
  <2>5. Opened' /\ SettingsCovered'
    BY <2>1, <2>4 DEF Opened, SettingsCovered
  <2>6. SavedCovered'
    BY <2>1, <2>3, <2>4 DEF SavedCovered, Safe, Loadable, AllTypeOK
  <2>7. CASE step' = "idle"
    <3>1. stale' = TRUE /\ cardsOk' = FALSE /\ calls' = calls
      BY <1>4, <2>1, <2>7 DEF Write, Rejected, SetItem, Hold, AwaitsFlush, vars, process
    <3> QED
      BY <2>1, <2>2, <2>5, <2>6, <2>7, <3>1 DEF CardsCovered, Level
  <2>8. CASE step' = "flush"
    <3>1. SetAndFlush(cards, list, cards) /\ UNCHANGED <<stale, cardsOk>>
      BY <1>4, <2>8 DEF Write, Rejected
    <3>2. held' = [held EXCEPT ![cards] = list]
      BY <3>1 DEF SetAndFlush, Hold
    <3>3. held'[cards] = list
      BY <2>3, <3>2
    <3>4. \A call \in calls' : call \in calls \/ call.want = held'
      <4> DEFINE new == [by |-> cards, until |-> Until(TRUE), want |-> held']
      <4>1. calls' = calls \cup {new}
        BY <3>1 DEF SetAndFlush, FlushOf
      <4>2. new.want = held'
        OBVIOUS
      <4> QED
        BY <4>1, <4>2
    <3> QED
      BY <2>1, <2>2, <2>5, <2>6, <2>8, <3>1, <3>3, <3>4 DEF CardsCovered, Level
  <2> QED
    BY <2>1, <2>7, <2>8
<1>5. ASSUME NEW ok \in BOOLEAN, Commit(ok) PROVE Told'
  <2>1. /\ UNCHANGED <<file, disk, phase, held, busy, writing, calls, up, list, prefs, prefsOk>>
        /\ up /\ step = "commit" /\ step' = "idle"
    BY <1>5 DEF Commit, Rejected, vars, process, AllTypeOK
  <2>2. Opened' /\ SettingsCovered'
    BY <2>1 DEF Opened, SettingsCovered
  <2>3. Safe(cards, list) /\ held[cards] = list /\ list \in Nat
    BY <2>1 DEF CardsCovered, Level, Ahead
  <2>4. saved' \in {saved, list} /\ (cardsOk' => ~stale')
    BY <1>5 DEF Commit, Rejected
  <2>5. SavedCovered'
    BY <2>1, <2>3, <2>4 DEF SavedCovered, Safe, Loadable
  <2>6. CardsCovered'
    BY <2>1, <2>3, <2>4 DEF CardsCovered, Level, Safe, Loadable
  <2> QED
    BY <2>2, <2>5, <2>6
<1>6. CASE Change
  <2>1. /\ UNCHANGED <<file, disk, phase, busy, writing, calls, up, list, stale, cardsOk, step, saved>> /\ up
    BY <1>6 DEF Change, SetItem, Hold, vars, process
  <2>2. held' \in {held, [held EXCEPT ![settings] = prefs']} /\ held \in [Key -> Nat]
    BY <1>6 DEF Change, SetItem, Hold, vars, process, IInv, TypeOK, Values
  <2>3. held'[cards] = held[cards]
    BY <2>2
  <2>4. Opened' /\ SavedCovered' /\ CardsCovered'
    BY <2>1, <2>3 DEF Opened, SavedCovered, CardsCovered, Level, Safe, Loadable
  <2>5. prefsOk' => held'[settings] = prefs'
    BY <1>6, <2>2 DEF Change, SetItem, Hold
  <2> QED
    BY <2>4, <2>5 DEF SettingsCovered
<1>7. ASSUME NEW c \in Caller \ {cards}, Flush(c) /\ UNCHANGED clients PROVE Told'
  <2>1. UNCHANGED <<file, disk, phase, held, busy, writing, clients>>
    BY <1>7 DEF Flush, FlushOf
  <2>2. \A call \in calls' : call.by = cards => call \in calls
    BY <1>7 DEF Flush, FlushOf
  <2> QED
    BY <2>1, <2>2 DEF Opened, SavedCovered, CardsCovered, SettingsCovered, Level, Safe, Loadable, clients
<1>8. CASE UNCHANGED allVars
  BY <1>8 DEF allVars, vars, process, clients, Opened, SavedCovered, CardsCovered, SettingsCovered, Level,
              Safe, Loadable
<1> QED
  BY <1>1, <1>2, <1>3, <1>4, <1>5, <1>6, <1>7, <1>8 DEF FlatNext

\* What the invariants say of what a caller is told.
LEMMA ToldIsTrue == IInv /\ Ahead /\ AllTypeOK /\ Told => ToldTrue
<1> SUFFICES ASSUME IInv, Ahead, AllTypeOK, Told PROVE ToldTrue
  OBVIOUS
<1> USE FlatStoreAssumption, FileStoreAssumption DEF Told
<1>1. SavedIsDown
  BY DEF SavedCovered, Safe, SavedIsDown
<1>2. CardsAreHonest
  BY DEF CardsCovered, Level, Safe, CardsAreHonest
<1>3. SettingsAreHonest
  <2> SUFFICES ASSUME up, prefsOk, Quiet, ~failed PROVE prefs <= Loadable(settings)
    BY DEF SettingsAreHonest
  <2>1. held = Down /\ held[settings] = prefs
    BY DEF Quiet, IInv, Clean, Ahead, SettingsCovered
  <2>2. disk[settings] \in Nat /\ Legacy[settings] \in Nat /\ file \in {"absent", "good", "damaged"}
    BY DEF IInv, TypeOK, Values
  <2>3. Down[settings] <= Loadable(settings)
    BY <2>2 DEF Down, Loadable, Nothing
  <2> QED
    BY <2>1, <2>3
<1> QED
  BY <1>1, <1>2, <1>3 DEF ToldTrue, FlagsAreHonest

\* What a caller is told of its cards is so after any crash, and neither store says
\* it is persistent of what the file does not have (cardStore.ts:40, :220).
THEOREM WhatIsToldIsTrue == FlatSpec => []ToldTrue
<1>1. FlatSpec => [](IInv /\ Ahead /\ AllTypeOK)
  BY UsesTheFileStore, SpecIInv, FlatTypesCorrect, InitAhead, StepsBeneath, PTL DEF FlatSpec
<1>2. FlatSpec => []Told
  BY <1>1, InitTold, StepTold, PTL DEF FlatSpec
<1> QED
  BY <1>1, <1>2, ToldIsTrue, PTL

=============================================================================
