------------------------------ MODULE Replicas ------------------------------
(***************************************************************************)
(* Devices that each hold a copy of one book's record, edit it, and merge   *)
(* whatever copies reach them: late, repeated, out of order or never.       *)
(* The edits are libraryStore.ts's writers and the merge is Merge; a copy   *)
(* travels with what went into it, which no record says and only the        *)
(* properties look at.                                                      *)
(***************************************************************************)
EXTENDS Integers, FiniteSets, Merge

CONSTANTS
    N,           \* how many devices
    Tag,         \* the tags in play
    Legacy,      \* the records a device may start with, from before its clock
    MaxStamp,    \* bound: stamps
    MaxEdits,    \* bound: edits
    MaxSent,     \* bound: copies in flight
    MaxParse     \* bound: the wall clock of parses

\* A stamp names the device that gave it, by its remainder; 0 is nobody.
Device == 1 .. N
Giver(s) == s % (N + 1)
Issued(s) == s > 0 /\ Giver(s) # 0

\* hlcOf: nobody's stamp of a day; a day that is not there is the epoch.
HlcOf(day) == IF day = -1 THEN 0 ELSE day * (N + 1)

ASSUME ReplicasAssumption ==
    {N, MaxStamp, MaxEdits, MaxSent, MaxParse} \subseteq Nat

Register == {Unset} \cup [at : Nat, v : Int]
Record ==
    [meta : [parsed : Int, schema : Int, v : Int], position : Register, status : Register,
     finished : Register, tags : [Tag -> Register], clocked : BOOLEAN,
     added : {-1} \cup Nat, opened : Int]

\* What a build from before the clock left was stamped by nobody: by the day of
\* adding where the tags are a list, by the wall where there was a stamp, and so
\* at any height.  finished follows a status that is set.
ASSUME LegacyAssumption ==
    \A r \in Legacy :
        /\ r \in Record
        /\ ~Issued(r.position.at) /\ ~Issued(r.status.at) /\ ~Issued(r.finished.at)
        /\ \A t \in Tag :
            /\ ~Issued(r.tags[t].at)
            /\ ~r.clocked => r.tags[t] \in {Unset, [at |-> HlcOf(r.added), v |-> 1]}
        /\ r.finished = FinishedBy(r.status, r.finished)

VARIABLES
    rec,     \* rec[d]: the copy on d
    floor,   \* floor[d]: no stamp of d's is at or below it
    taken,   \* taken[d]: the stamp a rename over the shelf took, 0 for none
    found,   \* found[d]: the tags there were when it took it (history)
    heard,   \* heard[d]: the edits that went into rec[d], by number
    sent,    \* copies in flight, with what went into them
    edits,   \* how many edits there were
    overtaken \* an edit was written under a stamp older than the one it found (history)

vars == <<rec, floor, taken, found, heard, sent, edits, overtaken>>

StampsOf(d) == {s \in 1 .. MaxStamp : Giver(s) = d}

\* Types; and no stamp a device holds or took that somebody gave is above the
\* floor its next stamp is taken over.  One that nobody gave may be.
TypeOK ==
    /\ rec \in [Device -> Record]
    /\ floor \in [Device -> Nat] /\ taken \in [Device -> Nat]
    /\ found \in [Device -> [Tag -> Register]]
    /\ \A d \in Device :
        /\ Issued(rec[d].position.at) => rec[d].position.at <= floor[d]
        /\ Issued(rec[d].status.at) => rec[d].status.at <= floor[d]
        /\ \A t \in Tag : Issued(rec[d].tags[t].at) => rec[d].tags[t].at <= floor[d]
        /\ taken[d] <= floor[d]

\* Every device found the book by itself.
Init ==
    /\ rec \in [Device -> Legacy]
    /\ floor = [d \in Device |-> 0]
    /\ taken = [d \in Device |-> 0]
    /\ found = [d \in Device |-> [t \in Tag |-> Unset]]
    /\ heard = [d \in Device |-> {-d}]
    /\ sent = {}
    /\ edits = 0
    /\ overtaken = FALSE

-----------------------------------------------------------------------------
(* The reader edits *)

\* A wrong form: the stamp does not know what this device has witnessed.
StampUnwitnessed(d) == StampsOf(d)

\* clock.now, above all it issued or witnessed: HybridClock.  The tags of a list
\* were given no stamp, and no clock has heard of theirs.
Stamp(d) == {s \in StampsOf(d) : s > floor[d]}

\* update: what is on disk changes.
Change(d, next) ==
    /\ edits < MaxEdits
    /\ edits' = edits + 1
    /\ rec' = [rec EXCEPT ![d] = next]
    /\ heard' = [heard EXCEPT ![d] = @ \cup {edits'}]
    /\ UNCHANGED sent

\* An edit of the register old, at a stamp that may be below the one it finds.
StampedChange(d, at, old, next) ==
    /\ Change(d, next)
    /\ floor' = [floor EXCEPT ![d] = Latest(@, at)]
    /\ overtaken' = (overtaken \/ at < old.at)
    /\ UNCHANGED <<taken, found>>

\* patchWith: a status is set with the finished it implies, under one stamp.
SetStatus(d, state) ==
    /\ state # rec[d].status.v \/ rec[d].status.at = -1
    /\ \E at \in Stamp(d) :
        LET status == [at |-> at, v |-> state] IN
        StampedChange(d, at, rec[d].status,
                      [rec[d] EXCEPT !.status = status,
                                     !.finished = FinishedBy(status, rec[d].finished)])

\* patchWith: the reader turned a page.
Remember(d, v) ==
    /\ v # rec[d].position.v
    /\ \E at \in Stamp(d) :
        StampedChange(d, at, rec[d].position, [rec[d] EXCEPT !.position = [at |-> at, v |-> v]])

\* The list becomes a clock, whichever tag is written.
WithTag(r, t, register) == [r EXCEPT !.tags[t] = register, !.clocked = TRUE]

\* tag and untag, where the tag is not so already.
SetTag(d, t, on) ==
    /\ on # rec[d].tags[t].v
    /\ \E at \in Stamp(d) :
        StampedChange(d, at, rec[d].tags[t], WithTag(rec[d], t, [at |-> at, v |-> on]))

\* renameTag, tagBooks: one stamp for every book of the shelf ...
StartRename(d) ==
    /\ taken[d] = 0
    /\ \E at \in Stamp(d) :
        /\ taken' = [taken EXCEPT ![d] = at]
        /\ floor' = [floor EXCEPT ![d] = at]
    /\ found' = [found EXCEPT ![d] = rec[d].tags]
    /\ UNCHANGED <<rec, heard, sent, edits, overtaken>>

\* ... which reaches this one when the pool of writers does.
RenameReaches(d, t) ==
    /\ taken[d] > 0 /\ rec[d].tags[t].v = 1
    /\ Change(d, WithTag(rec[d], t, [at |-> taken[d], v |-> 0]))
    /\ taken' = [taken EXCEPT ![d] = 0]
    /\ found' = [found EXCEPT ![d] = [u \in Tag |-> Unset]]
    /\ overtaken' = (overtaken \/ taken[d] < rec[d].tags[t].at)
    /\ UNCHANGED floor

\* add, with mergeParsed: this build parses its file at this wall clock, and
\* what the file says of itself is replaced whatever was held; an open moves
\* opened too.  No stamp.
Reparse(d, parsed, schema, open) ==
    /\ Change(d, [rec[d] EXCEPT !.meta = [parsed |-> parsed, schema |-> schema, v |-> d],
                                !.opened = IF open THEN parsed ELSE @])
    /\ UNCHANGED <<floor, taken, found, overtaken>>

-----------------------------------------------------------------------------
(* Copies travel *)

Send(d) ==
    /\ Cardinality(sent) < MaxSent
    /\ sent' = sent \cup {[rec |-> rec[d], heard |-> heard[d]]}
    /\ UNCHANGED <<rec, floor, taken, found, heard, edits, overtaken>>

\* The stamps that are in a message: a list of tags has none.
StampsIn(r) ==
    {r.position.at, r.status.at, r.finished.at} \cup {r.tags[t].at : t \in IF r.clocked THEN Tag ELSE {}}

\* witnessStamps, then foldRecord under whatever the copy has become here.
Receive(d, m) ==
    /\ rec' = [rec EXCEPT ![d] = MergeRecord(@, m.rec)]
    /\ heard' = [heard EXCEPT ![d] = @ \cup m.heard]
    /\ \E top \in StampsIn(m.rec) \cup {floor[d]} :
        /\ \A at \in StampsIn(m.rec) \cup {floor[d]} : at <= top
        /\ floor' = [floor EXCEPT ![d] = top]
    /\ UNCHANGED <<taken, found, sent, edits, overtaken>>

-----------------------------------------------------------------------------
Next ==
    \E d \in Device :
        \/ \E state \in {Want, Reading, Finished} : SetStatus(d, state)
        \/ \E v \in 1 .. 2 : Remember(d, v)
        \/ \E t \in Tag, on \in 0 .. 1 : SetTag(d, t, on)
        \/ StartRename(d)
        \/ \E t \in Tag : RenameReaches(d, t)
        \/ \E parsed \in 1 .. MaxParse, schema \in 0 .. 1, open \in BOOLEAN :
               Reparse(d, parsed, schema, open)
        \/ Send(d)
        \/ \E m \in sent : Receive(d, m)

Spec == Init /\ [][Next]_vars

-----------------------------------------------------------------------------
\* Strong convergence: two devices that have the same edits have the same
\* reader's registers, in whatever order and how often these came, legacy
\* records included, whatever their days (merge.ts:1-38).  What the FILE says of
\* itself is not among them: a parse replaces it by no order at all.  An edit
\* that was written under an older stamp than the one it found, by a rename that
\* was overtaken or over a stamp nobody gave, undoes what it found on one device
\* alone: before that.
Registers(r) == <<r.position, r.status, r.finished, r.tags, r.added>>

Converged ==
    ~overtaken => \A d, e \in Device :
        heard[d] = heard[e] => Registers(rec[d]) = Registers(rec[e])

\* Whatever copies are about, two devices that exchange theirs end with the same
\* record, metadata included, whoever goes first; and an echo of what a device
\* already took changes nothing (ledger.ts:532-546, merge.ts:176-178).
ExchangeSettles ==
    \A d \in Device, m \in sent :
        LET both == MergeRecord(rec[d], m.rec) IN
        /\ both = MergeRecord(m.rec, rec[d])
        /\ MergeRecord(both, m.rec) = both
        /\ \A n \in sent :
            MergeRecord(both, n.rec) = MergeRecord(rec[d], MergeRecord(m.rec, n.rec))

\* The step is the write of a rename over the shelf.
Renaming(d) == taken[d] # 0 /\ taken'[d] = 0

\* No merge and no edit takes a register back behind a decision that a device
\* stamped: a local edit beats what it was made over (ledger.ts:508-517).  Nor does
\* a rename over the shelf, but for a tag that was decided here, or came here, after
\* the rename had taken its stamp.  A stamp that nobody gave is beaten by no
\* more than the wall.
NothingGoesBack ==
    [][\A d \in Device :
        /\ Issued(rec[d].position.at) => rec[d].position.at <= rec'[d].position.at
        /\ Issued(rec[d].status.at) => rec[d].status.at <= rec'[d].status.at
        /\ \A t \in Tag : Issued(rec[d].tags[t].at) =>
              \/ rec[d].tags[t].at <= rec'[d].tags[t].at
              \/ Renaming(d) /\ rec[d].tags[t] # found[d][t]
        /\ rec[d].added # -1 => rec'[d].added \in 0 .. rec[d].added]_vars

\* "a local edit made after applying such state must still beat it" (ledger.ts
\* :513-515).  The code does not hold to it in a rename over the shelf, nor over a tag
\* of a list, whose stamp is a day that no clock was told of (hlc.ts:79-91).
EditsGoForward ==
    [][\A d \in Device, t \in Tag : rec[d].tags[t].at <= rec'[d].tags[t].at]_vars

\* status and finished are one fact: whichever devices decided, and whatever a
\* build from before status wrote, a record that says both says the same
\* (libraryStore.ts:1858-1864, merge.ts:243-250).
OneFact ==
    \A d \in Device : rec[d].status.at # -1 =>
        /\ rec[d].finished.at = rec[d].status.at
        /\ (rec[d].finished.v = 1) <=> (rec[d].status.v = Finished)

=============================================================================
