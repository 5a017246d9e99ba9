------------------------------ MODULE Journal ------------------------------
(***************************************************************************)
(* The sync journal of one device (src/src/capabilities/sync/lib/journal.ts*)
(* with journalIndex.ts, journalScan.ts and journalDigests.ts): an append- *)
(* only file that brackets every write of the library with a begin and a   *)
(* commit line, remembers which revisions a peer has acknowledged, and is  *)
(* read back after any crash.                                              *)
(*                                                                         *)
(* A KEY is a book and one of its surfaces (its record, its marks, ...).   *)
(* What a surface holds is abstracted to the newest local and the newest   *)
(* remote edit it includes, edits being numbered as they are made; a digest*)
(* is that pair.  A line is a record                                       *)
(* and a file a set of lines: their order is the order of their seq, and a *)
(* file whose seqs collide is one the loader refuses.                      *)
(*                                                                         *)
(* Every task of the journal's lane is one step, and so is every write of  *)
(* a surface between its begin and its commit.  Where an append can fail or*)
(* the process can die inside it, the file is left without the line, with  *)
(* a torn line, or with the line whole.                                    *)
(***************************************************************************)
EXTENDS Integers, FiniteSets, FiniteSetsExt

CONSTANTS
    Key,           \* books' surfaces
    Reload,        \* TRUE: the capability may be restarted inside one process
    CompactEvery,  \* the option compactEvery, in lines
    MaxFaults,     \* bound: crashes, failed appends and failed reads
    Casts          \* bound: who plays, and how much of it, one for each behaviour

\* keys: the surfaces there are; recover: who opens the journal, TRUE with the
\* unclean-shutdown pass (the app), FALSE without (the paper command); link: the
\* halves of a session that are played; the edits of either origin, the appends
\* of an open that fail besides MaxFaults, and the files damaged from outside.
ASSUME JournalAssumption ==
    /\ Reload \in BOOLEAN /\ {CompactEvery, MaxFaults} \subseteq Nat
    /\ Casts \subseteq [keys : SUBSET Key, recover : SUBSET BOOLEAN,
                        link : SUBSET {"push", "pull"}, local : Nat, remote : Nat,
                        moreAtOpen : Nat, rots : Nat]

VARIABLES
    (* on disk *)
    log,       \* the lines of journal.jsonl
    torn,      \* an incomplete last line follows them
    rotten,    \* the file holds something no crash leaves
    meta,      \* journal.meta: epoch, nextSeq, state
    stranded,  \* history: that meta outlived the journal whose epoch it names
    dirty,     \* the flag file of an open journal
    folder,    \* folder[k]: what surface k holds
    before,    \* before[k]: what it held before this run's last write of it
    made,      \* made[k]: the newest edits ever made, kept or lost
    (* in memory *)
    phase,     \* "down", "aside", "build", "recover", "open", "closed"
    mem,       \* the lines the index has absorbed
    next,      \* nextSeq
    epoch,     \* meta.epoch, as memory has it
    poisoned,  \* an append failed: nothing is read or extended until reopened
    unsure,    \* verifyIncomplete
    todo,      \* surfaces the unclean-shutdown pass has yet to look at
    bracket,   \* bracket[k]: the write of surface k in flight
    (* the other side *)
    push,      \* the group being pushed
    peerHas,   \* peerHas[k]: the local edits of k the peer is known to hold
    follower,  \* a device that pulls this journal's feed
    (* bounds *)
    faults, rots,
    cast       \* the one of Casts that this behaviour has

journalFiles == <<log, torn, rotten, meta, stranded, dirty>>
memory == <<phase, mem, next, epoch, poisoned, unsure, todo>>
others == <<push, peerHas, follower>>
journalVars   == <<journalFiles, folder, before, made, memory, bracket, others, faults, rots, cast>>

-----------------------------------------------------------------------------
(* Lines *)

Nothing == [l |-> 0, r |-> 0]
NoDigest == [l |-> -1, r |-> -1]
NoMeta == [epoch |-> 0, nextSeq |-> 1, state |-> "none"]
NoPush == [stage |-> "none"]
Idle == [stage |-> "idle"]

BeginLine(k, o) ==
    [seq |-> next, kind |-> "begin", key |-> k, epoch |-> epoch, rev |-> 0,
     begin |-> 0, origin |-> o, digest |-> NoDigest]

CommitLine(k, r, b, o, d) ==
    [seq |-> next, kind |-> "commit", key |-> k, epoch |-> epoch, rev |-> r,
     begin |-> b, origin |-> o, digest |-> d]

AckedLine(k, r) ==
    [seq |-> next, kind |-> "acked", key |-> k, epoch |-> epoch, rev |-> r,
     begin |-> 0, origin |-> "local", digest |-> NoDigest]

-----------------------------------------------------------------------------
(* The index: what a set of lines says about one key *)

Commits(L, k) == {e \in L : e.kind = "commit" /\ e.key = k}
Locals(L, k) == {e \in Commits(L, k) : e.origin = "local"}
Digested(L, k) == {e \in Commits(L, k) : e.digest # NoDigest}
Acks(L, k) == {e \in L : e.kind = "acked" /\ e.key = k}

Latest(L) == CHOOSE e \in L : \A f \in L : f.seq <= e.seq

Largest(S) == CHOOSE n \in S : \A m \in S : m <= n

LastRev(L, k) == Largest({0} \cup {e.rev : e \in Commits(L, k)})
AckedRev(L, k) == Largest({0} \cup {e.rev : e \in Acks(L, k)})
LastSeq(L) == Largest({0} \cup {e.seq : e \in L})

\* Past the last commit and past the last acknowledgement.
NextRev(L, k) == Largest({LastRev(L, k), AckedRev(L, k)}) + 1

\* Begins no commit has answered.  A commit closes its own begin; one that
\* answers none (a baseline, a verify commit) closes all before it.
Dangling(L, k) ==
    LET commits == Commits(L, k) IN
    {b \in L :
        /\ b.kind = "begin" /\ b.key = k
        /\ \A e \in commits :
              /\ e.begin # b.seq
              /\ e.begin = 0 => e.seq < b.seq}

Unsettled(L) == UNION {Dangling(L, k) : k \in Key}

InOutbox(L, k) ==
    /\ Locals(L, k) # {}
    /\ Latest(Locals(L, k)).rev > AckedRev(L, k)

\* One line for each key that changed in the window: its last commit there.
Feed(L, since) ==
    {e \in L : /\ e.kind = "commit" /\ e.seq > since
               /\ \A f \in Commits(L, e.key) : f.seq <= e.seq}

\* What compaction keeps: the last commit, the last local one, the last
\* acknowledgement, and every begin still unanswered.
Keep(L) ==
    LET Last(S) == IF S = {} THEN {} ELSE {Latest(S)} IN
    UNION {Last(Commits(L, k)) \cup Last(Locals(L, k)) \cup Last(Acks(L, k)) \cup Dangling(L, k)
           : k \in Key}

KeysOf(L) == {e.key : e \in L}

Overgrown(L) == Cardinality(L) >= Largest({CompactEvery, 4 * Cardinality(KeysOf(L))})

\* What scanJournal accepts: one line per seq, one epoch, revisions that rise
\* with the seqs of their key, and a commit that agrees with its begin and is
\* the only one to close it.
LoaderAccepts(L) ==
    \A e, f \in L :
        /\ e.epoch = f.epoch
        /\ e.seq = f.seq => e = f
        /\ (e.key = f.key /\ e.kind = f.kind /\ e.kind # "begin" /\ e.seq < f.seq) => e.rev < f.rev
        /\ (e.kind = "commit" /\ f.kind = "begin" /\ e.begin = f.seq) =>
              f.key = e.key /\ f.origin = e.origin
        /\ (e.kind = "commit" /\ f.kind = "commit" /\ e # f /\ e.begin # 0) => e.begin # f.begin

-----------------------------------------------------------------------------
JournalTypes ==
    /\ \A e \in log : e.key \in Key
    /\ \A e \in mem : e.seq \in 1 .. next - 1
    /\ {torn, rotten, stranded, dirty, poisoned, unsure} \subseteq BOOLEAN
    /\ meta.state \in {"none", "building", "ready", "rotten"}
    /\ phase \in {"down", "aside", "build", "recover", "open", "closed"}
    /\ \A k \in Key : /\ folder[k].l \in 0 .. made[k].l /\ folder[k].r \in 0 .. made[k].r
                      /\ peerHas[k] \in 0 .. made[k].l
                      /\ bracket[k].stage \in {"idle", "begun", "written"}
    /\ todo \subseteq Key
    /\ push.stage \in {"none", "offered", "answered"}

\* A device with a shelf and no journal yet.
JournalInit ==
    /\ log = {} /\ mem = {}
    /\ torn = FALSE /\ rotten = FALSE /\ stranded = FALSE /\ dirty = FALSE
    /\ meta = NoMeta
    /\ folder = [k \in Key |-> Nothing]
    /\ before = [k \in Key |-> Nothing]
    /\ made = [k \in Key |-> Nothing]
    /\ phase = "down" /\ next = 1 /\ epoch = 0
    /\ poisoned = FALSE /\ unsure = FALSE /\ todo = {}
    /\ bracket = [k \in Key |-> Idle]
    /\ push = NoPush
    /\ peerHas = [k \in Key |-> 0]
    /\ follower = [epoch |-> 0, since |-> 0, got |-> [k \in Key |-> Nothing]]
    /\ faults = 0 /\ rots = 0 /\ cast \in Casts

FaultWithin(bound) == faults < bound /\ faults' = faults + 1
Fault == FaultWithin(MaxFaults)

-----------------------------------------------------------------------------
(* Appending *)

\* The line is down and absorbed.  After a torn line it would not be a line.
Append(e) ==
    /\ log' = log \cup {e}
    /\ rotten' = (rotten \/ torn)
    /\ next' = next + 1
    /\ torn' = torn

\* What an append that throws, or that the process dies in, may leave behind.
AppendBreaks(e) ==
    \/ log' = log /\ torn' = torn /\ rotten' = rotten
    \/ log' = log /\ torn' = TRUE /\ rotten' = (rotten \/ torn)
    \/ log' = log \cup {e} /\ torn' = torn /\ rotten' = (rotten \/ torn)

\* A wrong form: the journal goes on after an append it cannot account for.
CarryOnAfterFailedAppend(e) ==
    /\ Fault
    /\ AppendBreaks(e)
    /\ next' = next + 1
    /\ UNCHANGED <<poisoned, mem>>

\* appendOrPoison, failing: memory may now disagree with the file.
FailedAppend(e) ==
    /\ Fault
    /\ AppendBreaks(e)
    /\ next' = next + 1
    /\ poisoned' = TRUE
    /\ UNCHANGED mem

\* What a commit makes of file and index: the line is added, and a journal that
\* has outgrown what it would keep is rewritten, index and meta after the file.
AddAndCompact(e) ==
    LET M == mem \cup {e} IN
    /\ next' = next + 1
    /\ rotten' = (rotten \/ torn) /\ torn' = torn
    /\ IF Overgrown(M)
       THEN /\ log' = Keep(M) /\ mem' = Keep(M)
            /\ meta' = [epoch |-> epoch, nextSeq |-> next', state |-> "ready"]
       ELSE log' = log \cup {e} /\ mem' = M /\ UNCHANGED meta

\* A failure of the rewriting is swallowed, the file being short by then or not.
AddAndFailToCompact(e) ==
    LET M == mem \cup {e} IN
    /\ Overgrown(M) /\ Fault
    /\ next' = next + 1
    /\ rotten' = (rotten \/ torn) /\ torn' = torn
    /\ log' \in {log \cup {e}, Keep(M)} /\ mem' = M
    /\ UNCHANGED meta

-----------------------------------------------------------------------------
(* Opening *)

\* Past what meta remembers and past every line: meta is older after a crash.
NextSeq(kept, lines) == Largest({kept.nextSeq, LastSeq(lines) + 1})

\* A wrong form: the epoch of a journal that had to be moved aside lives on.
EpochLivesOn(kept, lines) == IF meta.state # "none" THEN meta.epoch ELSE rots + 1

\* meta's epoch, else the one its lines carry, else a new one.
EpochOf(kept, lines) ==
    IF kept.state # "none" THEN kept.epoch
    ELSE IF lines # {} THEN Latest(lines).epoch
    ELSE rots + 1

Named == meta.state \in {"building", "ready"}

\* A file the loader gives up on: damaged, at odds with itself or with meta.
Refused ==
    \/ rotten
    \/ ~LoaderAccepts(log)
    \/ Named /\ \E e \in log : e.epoch # meta.epoch

\* An open begins: in a process that is new, or in one that has closed a journal.
Opening == phase = "down" \/ (Reload /\ phase = "closed")

\* The flag tells what is to be looked at, by whoever looks.
ReadFlag ==
    \E recover \in cast.recover :
        /\ todo' = IF dirty /\ recover THEN cast.keys ELSE {}
        /\ unsure' = (dirty /\ ~recover)

\* open, as far as the files: meta that will not read is moved aside, and a torn
\* tail is cut.
Load ==
    /\ Opening /\ ~Refused
    /\ LET kept == IF Named THEN meta ELSE NoMeta IN
        /\ mem' = log
        /\ meta' = kept
        /\ epoch' = EpochOf(kept, log)
        /\ next' = NextSeq(kept, log)
        /\ phase' = IF kept.state = "ready" THEN "recover" ELSE "build"
    /\ torn' = FALSE /\ poisoned' = FALSE
    /\ ReadFlag
    /\ before' = folder
    /\ UNCHANGED <<log, rotten, stranded, dirty, folder, made, bracket, others, faults, rots, cast>>

\* A file that is refused is moved aside first.  Meta is there still: a process
\* that ends here leaves the epoch of a journal that is gone.
MoveAside ==
    /\ Opening /\ Refused
    /\ log' = {} /\ torn' = FALSE /\ rotten' = FALSE
    /\ meta' = IF Named THEN meta ELSE NoMeta
    /\ stranded' = Named
    /\ phase' = "aside"
    /\ UNCHANGED <<dirty, folder, before, made, mem, next, epoch, poisoned, unsure, todo,
                   bracket, others, faults, rots, cast>>

\* Then meta is removed, and a new epoch begins.  A removal that fails is
\* swallowed, and bootstrap writes its own meta over what was left.
DropMeta ==
    /\ phase = "aside"
    /\ \/ meta' = NoMeta /\ UNCHANGED faults
       \/ /\ Named /\ Fault
          /\ meta' = [epoch |-> EpochOf(NoMeta, {}), nextSeq |-> 1, state |-> "building"]
    /\ stranded' = FALSE
    /\ epoch' = EpochOf(NoMeta, {})
    /\ next' = NextSeq(NoMeta, {})
    /\ phase' = "build"
    /\ ReadFlag
    /\ before' = folder
    /\ UNCHANGED <<log, torn, rotten, dirty, folder, made, mem, poisoned, bracket, others, rots, cast>>

\* Nothing of the memory is left, and no write of this run can be lost any more.
Forgotten ==
    /\ mem' = {} /\ next' = 1 /\ epoch' = 0
    /\ poisoned' = FALSE /\ unsure' = FALSE /\ todo' = {}
    /\ before' = [k \in Key |-> Nothing]

\* An append of the opening steps that throws fails the open.
OpenBreaks(e) ==
    /\ FaultWithin(MaxFaults + cast.moreAtOpen)
    /\ AppendBreaks(e)
    /\ phase' = "down"
    /\ Forgotten
    /\ UNCHANGED <<meta, stranded, dirty, folder, made, bracket, others, rots, cast>>

\* bootstrap: no epoch is told to anybody before every surface has a baseline.
\* One that no line names is new.
BuildStart ==
    /\ phase = "build" /\ meta.state = "none"
    /\ meta' = [epoch |-> epoch, nextSeq |-> next, state |-> "building"]
    /\ stranded' = (stranded /\ log # {})
    /\ UNCHANGED <<log, torn, rotten, dirty, folder, before, made, memory, bracket, others, faults, rots, cast>>

Baseline(k) == CommitLine(k, NextRev(mem, k), 0, "local", folder[k])

BuildKey(k) ==
    /\ phase = "build" /\ meta.state = "building"
    /\ Commits(mem, k) = {}
    /\ \/ /\ Append(Baseline(k))
          /\ mem' = mem \cup {Baseline(k)}
          /\ UNCHANGED <<meta, stranded, dirty, folder, before, made, phase, epoch, poisoned, unsure, todo,
                         bracket, others, faults, rots, cast>>
       \/ OpenBreaks(Baseline(k))

BuildDone ==
    /\ phase = "build" /\ meta.state = "building"
    /\ \A k \in cast.keys : Commits(mem, k) # {}
    /\ meta' = [epoch |-> epoch, nextSeq |-> next, state |-> "ready"]
    /\ phase' = "recover"
    /\ UNCHANGED <<log, torn, rotten, stranded, dirty, folder, before, made, mem, next, epoch, poisoned,
                   unsure, todo, bracket, others, faults, rots, cast>>

Recovery(b, d) == CommitLine(b.key, NextRev(mem, b.key), b.seq, b.origin, d)

\* recoverDangling: an unanswered begin is answered from the folder as it is,
\* or without a digest when that will not read.
RecoverDangling(b) ==
    /\ phase = "recover" /\ b \in Unsettled(mem)
    /\ \/ /\ Append(Recovery(b, folder[b.key]))
          /\ mem' = mem \cup {Recovery(b, folder[b.key])}
          /\ UNCHANGED <<unsure, faults>>
          /\ UNCHANGED <<meta, stranded, dirty, folder, before, made, phase, epoch, poisoned, todo,
                         bracket, others, rots, cast>>
       \/ /\ Fault
          /\ Append(Recovery(b, NoDigest))
          /\ mem' = mem \cup {Recovery(b, NoDigest)}
          /\ unsure' = TRUE
          /\ UNCHANGED <<meta, stranded, dirty, folder, before, made, phase, epoch, poisoned, todo,
                         bracket, others, rots, cast>>
       \/ OpenBreaks(Recovery(b, folder[b.key]))

Correction(k) == CommitLine(k, NextRev(mem, k), 0, "local", folder[k])

Looked(k) == todo' = todo \ {k}

\* A wrong form: only a head that carries a digest is compared.
LastDigestOfHead(L, k) ==
    IF Commits(L, k) = {} THEN NoDigest ELSE Latest(Commits(L, k)).digest

\* What the journal last said of a surface, the last commit having said it or not.
LastDigest(L, k) ==
    IF Digested(L, k) = {} THEN NoDigest ELSE Latest(Digested(L, k)).digest

\* verifyAfterUncleanShutdown, one surface: a folder that is not what the last
\* digest says is committed anew; one that will not read is left for next time.
Verify(k) ==
    /\ phase = "recover" /\ Unsettled(mem) = {} /\ k \in todo
    /\ \/ /\ LastDigest(mem, k) \in {NoDigest, folder[k]}
          /\ Looked(k)
          /\ UNCHANGED <<log, torn, rotten, mem, next, unsure, faults>>
       \/ /\ LastDigest(mem, k) # NoDigest
          /\ Fault
          /\ Looked(k) /\ unsure' = TRUE
          /\ UNCHANGED <<log, torn, rotten, mem, next>>
       \/ /\ LastDigest(mem, k) \notin {NoDigest, folder[k]}
          /\ Append(Correction(k))
          /\ mem' = mem \cup {Correction(k)}
          /\ Looked(k)
          /\ UNCHANGED <<unsure, faults>>
    /\ UNCHANGED <<meta, stranded, dirty, folder, before, made, phase, epoch, poisoned,
                   bracket, others, rots, cast>>

\* The commit that would correct the journal cannot be appended.
VerifyFails(k) ==
    /\ phase = "recover" /\ Unsettled(mem) = {} /\ k \in todo
    /\ LastDigest(mem, k) \notin {NoDigest, folder[k]}
    /\ OpenBreaks(Correction(k))

\* The end of open.  compactIfOvergrown is called here with opened still false,
\* so its compactInPlace throws and the throw is swallowed: nothing is shorter.
OpenDone ==
    /\ phase = "recover" /\ Unsettled(mem) = {} /\ todo = {}
    /\ dirty' = TRUE
    /\ phase' = "open"
    /\ UNCHANGED <<log, torn, rotten, meta, stranded, folder, before, made, mem, next, epoch, poisoned,
                   unsure, todo, bracket, others, faults, rots, cast>>

-----------------------------------------------------------------------------
(* A write inside its bracket *)

Ready == phase = "open" /\ ~poisoned

\* Within the bounds on edits.
Room(o) ==
    IF o = "local" THEN MapThenSumSet(LAMBDA k : made[k].l, Key) < cast.local
                   ELSE MapThenSumSet(LAMBDA k : made[k].r, Key) < cast.remote

\* The surface's lane is free, and the line is down before the write starts.
Begin(k, o) ==
    /\ Ready /\ bracket[k] = Idle /\ Room(o)
    /\ \/ /\ Append(BeginLine(k, o))
          /\ mem' = mem \cup {BeginLine(k, o)}
          /\ made' = IF o = "local" THEN [made EXCEPT ![k].l = @ + 1]
                     ELSE [made EXCEPT ![k].r = @ + 1]
          /\ bracket' = [bracket EXCEPT ![k] =
                [stage |-> "begun", seq |-> next, origin |-> o, bound |-> TRUE]]
          /\ UNCHANGED <<poisoned, faults>>
       \/ /\ FailedAppend(BeginLine(k, o))
          /\ UNCHANGED <<bracket, made>>
    /\ UNCHANGED <<meta, stranded, dirty, folder, before, phase, epoch, unsure, todo, others, rots, cast>>

Edited(k) ==
    IF bracket[k].origin = "local" THEN [folder[k] EXCEPT !.l = made[k].l]
    ELSE [folder[k] EXCEPT !.r = made[k].r]

\* The write itself, which may throw before or after it is down; then the
\* bracket is never committed.
WriteSurface(k) ==
    /\ bracket[k].stage = "begun"
    /\ \/ /\ folder' = [folder EXCEPT ![k] = Edited(k)]
          /\ before' = [before EXCEPT ![k] = folder[k]]
          /\ bracket' = [bracket EXCEPT ![k].stage = "written"]
          /\ UNCHANGED faults
       \/ /\ Fault
          /\ folder' \in {folder, [folder EXCEPT ![k] = Edited(k)]}
          /\ before' = [before EXCEPT ![k] = folder[k]]
          /\ bracket' = [bracket EXCEPT ![k] = Idle]
    /\ UNCHANGED <<journalFiles, made, memory, others, rots, cast>>

Answer(k, d) == CommitLine(k, NextRev(mem, k), bracket[k].seq, bracket[k].origin, d)

\* commit, by the journal that issued the begin: with the digest of the folder,
\* or without one when it will not read.
Commit(k) ==
    /\ phase = "open" /\ bracket[k].stage = "written" /\ bracket[k].bound
    /\ bracket' = [bracket EXCEPT ![k] = Idle]
    /\ \/ /\ ~poisoned
          /\ \/ AddAndCompact(Answer(k, folder[k])) /\ UNCHANGED faults
             \/ AddAndFailToCompact(Answer(k, folder[k]))
             \/ Fault /\ AddAndCompact(Answer(k, NoDigest))
          /\ UNCHANGED poisoned
       \/ /\ ~poisoned
          /\ FailedAppend(Answer(k, folder[k]))
          /\ UNCHANGED meta
       \/ /\ poisoned
          /\ UNCHANGED <<log, torn, rotten, meta, mem, next, poisoned, faults>>
    /\ UNCHANGED <<stranded, dirty, folder, before, made, phase, epoch, unsure, todo, others, rots, cast>>

\* The journal that issued the begin has been closed: committed to nobody.
CommitToNobody(k) ==
    /\ bracket[k].stage = "written" /\ ~bracket[k].bound
    /\ bracket' = [bracket EXCEPT ![k] = Idle]
    /\ UNCHANGED <<journalFiles, folder, before, made, memory, others, faults, rots, cast>>

-----------------------------------------------------------------------------
(* Closing, and being cut off *)

StaysDirty == Unsettled(mem) # {} \/ unsure

\* close: the flag goes unless something is still unanswered or unverified.
Close ==
    /\ phase = "open"
    /\ meta' = [epoch |-> epoch, nextSeq |-> next, state |-> "ready"]
    /\ dirty' = StaysDirty
    /\ phase' = "closed"
    /\ bracket' = [k \in Key |-> IF bracket[k] = Idle THEN Idle
                                 ELSE [bracket[k] EXCEPT !.bound = FALSE]]
    /\ push' = NoPush
    /\ Forgotten
    /\ UNCHANGED <<log, torn, rotten, stranded, folder, made, peerHas, follower, faults, rots, cast>>

\* The process is gone: after a close, between the two steps of a rebuild (as often
\* as files are damaged), or elsewhere, and then perhaps with the last write of a
\* surface, which the disk had not been made to keep.
Die ==
    /\ phase # "down"
    /\ phase' = "down"
    /\ \/ phase \in {"closed", "aside"} /\ UNCHANGED <<folder, faults>>
       \/ /\ phase \notin {"closed", "aside"} /\ Fault
          /\ \/ folder' = folder
             \/ \E k \in Key : folder' = [folder EXCEPT ![k] = before[k]]
    /\ bracket' = [k \in Key |-> Idle]
    /\ push' = NoPush
    /\ Forgotten
    /\ UNCHANGED <<journalFiles, made, peerHas, follower, rots, cast>>

\* Something else damages a file while nobody runs.
Rot ==
    /\ phase = "down" /\ rots < cast.rots
    /\ \/ log # {} /\ rotten' = TRUE /\ UNCHANGED meta
       \/ meta.state # "none" /\ meta' = [meta EXCEPT !.state = "rotten"] /\ UNCHANGED rotten
    /\ rots' = rots + 1
    /\ UNCHANGED <<log, torn, stranded, dirty, folder, before, made, memory, bracket, others, faults, cast>>

-----------------------------------------------------------------------------
(* The other side *)

\* outbox: a revision is offered; what goes with it is read from the folder
\* later.
Offer(k) ==
    /\ "push" \in cast.link
    /\ Ready /\ push = NoPush /\ InOutbox(mem, k)
    /\ push' = [stage |-> "offered", key |-> k, rev |-> Latest(Locals(mem, k)).rev]
    /\ UNCHANGED <<journalFiles, folder, before, made, memory, bracket, peerHas, follower, faults, rots, cast>>

\* The group is read and taken by the peer.
Deliver ==
    /\ push.stage = "offered"
    /\ peerHas' = [peerHas EXCEPT ![push.key] = Largest({@, folder[push.key].l})]
    /\ push' = [push EXCEPT !.stage = "answered"]
    /\ UNCHANGED <<journalFiles, folder, before, made, memory, bracket, follower, faults, rots, cast>>

\* The link or the session ends, with the reply or before it.
PushLost ==
    /\ push # NoPush
    /\ push' = NoPush
    /\ UNCHANGED <<journalFiles, folder, before, made, memory, bracket, peerHas, follower, faults, rots, cast>>

\* A wrong form: whatever is newest counts as acknowledged.
AckNewest ==
    /\ Ready /\ push.stage = "answered"
    /\ LET k == push.key
           r == Latest(Locals(mem, k)).rev IN
       IF AckedRev(mem, k) >= r
       THEN UNCHANGED <<log, torn, rotten, mem, next, poisoned, faults>>
       ELSE \/ /\ Append(AckedLine(k, r))
               /\ mem' = mem \cup {AckedLine(k, r)}
               /\ UNCHANGED <<poisoned, faults>>
            \/ FailedAppend(AckedLine(k, r))
    /\ push' = NoPush
    /\ UNCHANGED <<meta, stranded, dirty, folder, before, made, phase, epoch, unsure, todo, bracket,
                   peerHas, follower, rots, cast>>

\* ack: only the exact revision of the last local commit, and only once.
Ack ==
    /\ Ready /\ push.stage = "answered"
    /\ LET k == push.key
           r == push.rev IN
       IF \/ Locals(mem, k) = {}
          \/ Latest(Locals(mem, k)).rev # r
          \/ AckedRev(mem, k) >= r
       THEN UNCHANGED <<log, torn, rotten, mem, next, poisoned, faults>>
       ELSE \/ /\ Append(AckedLine(k, r))
               /\ mem' = mem \cup {AckedLine(k, r)}
               /\ UNCHANGED <<poisoned, faults>>
            \/ FailedAppend(AckedLine(k, r))
    /\ push' = NoPush
    /\ UNCHANGED <<meta, stranded, dirty, folder, before, made, phase, epoch, unsure, todo, bracket,
                   peerHas, follower, rots, cast>>

\* A device pulls: from its cursor, or from the start under another epoch.
Pull ==
    /\ "pull" \in cast.link
    /\ Ready
    /\ LET since == IF follower.epoch = epoch THEN follower.since ELSE 0
           news  == Feed(mem, since) IN
       follower' = [epoch |-> epoch, since |-> LastSeq(mem),
                    got |-> [k \in Key |-> IF \E e \in news : e.key = k THEN folder[k]
                                           ELSE follower.got[k]]]
    /\ follower' # follower
    /\ UNCHANGED <<journalFiles, folder, before, made, memory, bracket, push, peerHas, faults, rots, cast>>

-----------------------------------------------------------------------------
JournalNext ==
    \/ Load \/ MoveAside \/ DropMeta \/ BuildStart \/ BuildDone \/ OpenDone \/ Close \/ Die \/ Rot
    \/ \E b \in mem : RecoverDangling(b)
    \/ \E k \in cast.keys :
          \/ BuildKey(k) \/ Verify(k) \/ VerifyFails(k)
          \/ \E o \in {"local", "remote"} : Begin(k, o)
          \/ WriteSurface(k) \/ Commit(k) \/ CommitToNobody(k)
          \/ Offer(k)
    \/ Deliver \/ PushLost \/ Ack \/ Pull

JournalSpec == JournalInit /\ [][JournalNext]_journalVars

-----------------------------------------------------------------------------
(* What the journal is for *)

Settled(k) == bracket[k] = Idle /\ Dangling(mem, k) = {}

\* The file a crash, a failed append or a compaction leaves, at any point, is
\* one the next open accepts: no file is moved aside and no epoch is given up
\* but for damage from outside (journalScan.ts:43-51, journal.ts:361-383).
LoadsItsOwnFile == rots = 0 => ~Refused

\* Types, and the file: what is numbered from it is numbered above it, and what
\* is in it can be loaded.
WellFormed == JournalTypes /\ LoadsItsOwnFile

\* A local edit that is in the folder is owed to the peer until the peer holds
\* it: whatever was in flight, acknowledged late, compacted, recovered or rebuilt,
\* its key is in the outbox (journal.ts:1159-1203).  Not so for a surface that is
\* unwritten since a rebuild was cut off between its two steps: see
\* BaselineIsComplete.
EditsAreOwed ==
    Ready => \A k \in cast.keys :
        Settled(k) => \/ folder[k].l <= peerHas[k]
                      \/ InOutbox(mem, k)
                      \/ stranded /\ Locals(mem, k) = {}

\* An open journal certifies the folder: the last commit of a settled surface
\* describes what the surface holds, or says nothing (journal.ts:1046-1086).
FolderCertified ==
    Ready /\ ~unsure => \A k \in cast.keys :
        Settled(k) => \/ stranded /\ Commits(mem, k) = {}
                      \/ Latest(Commits(mem, k)).digest \in {folder[k], NoDigest}

\* A journal without its flag needs no verify pass: it was closed over surfaces
\* that are what it says they are (journal.ts:993-1010).
CleanMeansCertified ==
    phase = "down" /\ ~dirty /\ rots = 0 /\ meta.state = "ready" =>
        \A k \in cast.keys : Latest(Commits(log, k)).digest \in {folder[k], NoDigest}

\* An open after an unclean shutdown ends with whatever the journal last said of
\* a surface true again, or owes the pass: also where a power cut took a write
\* the journal had committed, or the head says nothing (journal.ts:650-728).
OpensVerified ==
    [][phase = "recover" /\ phase' = "open" /\ dirty /\ ~unsure =>
          \A k \in Key : Digested(mem', k) # {} =>
              Latest(Digested(mem', k)).digest = folder[k]]_journalVars

\* What the journal says of the folders is true: while it is open, when it is shut
\* without its flag, and at the end of an open.
Certified == [](FolderCertified /\ CleanMeansCertified) /\ OpensVerified

\* "A digestless head ... used to make the whole key invisible here" -- the
\* pass still has something to compare each surface with (journal.ts:654-659).  The code does
\* not hold to it after a compaction that follows an unreadable folder.
NothingInvisible == Ready => \A k \in cast.keys : Digested(mem, k) # {}

\* "READY, and only now: the epoch a peer may learn is the epoch of a complete
\* baseline" (journal.ts:896-898).  The code does not hold to it where a process
\* ends between the renaming of a refused journal and the removal of meta
\* (journal.ts:951-952): the next open finds a meta that is ready and no journal,
\* builds nothing, and numbers under the epoch that peers follow.
BaselineIsComplete == Ready => \A k \in cast.keys : Commits(mem, k) # {}

Covers(a, b) == a.l >= b.l /\ a.r >= b.r

\* A device that pulls misses nothing: what was last committed at or below its
\* cursor it has, under the epoch it knows, whatever was compacted, cut off or
\* rebuilt since (journal.ts:1144-1157, :930-957), a rebuild cut off between its
\* two steps excepted: see BaselineIsComplete.
FollowersMissNothing ==
    Ready /\ ~unsure /\ ~stranded /\ follower.epoch = epoch => \A k \in cast.keys :
        LET c == Latest(Commits(mem, k)) IN
        c.seq <= follower.since => Covers(follower.got[k], c.digest)

\* "A journal that grew across sessions ... is shortened once, here" -- open
\* leaves no journal that has outgrown what it would keep (journal.ts:978-981).  The code
\* does not hold to it: the call comes before the journal counts as open.
OpensShort == [][phase # "open" /\ phase' = "open" => ~Overgrown(mem')]_journalVars

=============================================================================
