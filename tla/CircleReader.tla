---------------------------- MODULE CircleReader ----------------------------
(***************************************************************************)
(* What a reader holds of one person in their circle, and the relationship  *)
(* it is held under (src/src/capabilities/circle/lib/receive.ts, store.ts,  *)
(* relationships.ts, relationshipState.ts, circlePort.ts; index.ts): the    *)
(* pages that are taken, the fold, the file and its lane, forgetting the    *)
(* person and meeting them again.  The log is a book's or the person's      *)
(* shelf; the file of the first is in the book's folder, and goes into the  *)
(* trash and comes back with it.                                            *)
(***************************************************************************)
EXTENDS CirclePublisher

CONSTANT MaxEpoch    \* bound: how often the person is met

VARIABLES
    file,      \* what the disk holds of the person
    place,     \* where the book is: "shelf" or "trash"
    rel,       \* the relationship record
    paired,    \* is the person in the roster of the peer?
    known,     \* the roster as the circle last saw it: is the person in it?
    met,       \* is a pairing being looked at?
    forget,    \* the forgetting under way, and the folders that it listed
    writing,   \* is a file being written on the lane?
    lapsed,    \* lapsed[d]: the frames of d up to this one have a delegation that is over
    cut        \* history: all that was held under the epochs up to this one was purged

readerVars == <<file, place, rel, paired, known, met, forget, writing, lapsed, cut>>

NoWord == [device |-> NoPub, seq |-> 0, at |-> 0, epoch |-> 0]
NothingShared ==
    [rows |-> {}, gone |-> {}, word |-> NoWord, heads |-> [d \in Device |-> <<>>],
     cursor |-> [d \in Device |-> 0], v |-> 1]

-----------------------------------------------------------------------------
Unshared(entries) == {e.pub : e \in {x \in entries : x.op = "unshare"}}

\* Wrong form: a withdrawal takes away what is there, and is forgotten.
WithdrawnNow(held, incoming) == Unshared(incoming)

Withdrawn(held, incoming) == held.gone \cup Unshared(incoming)

\* The entries of a batch, in whatever order they came, go into what is held: a
\* publication that was ever taken back stays away, of the words the newest stands.
ApplyEntries(held, incoming, epoch) ==
    LET gone == Withdrawn(held, incoming)
        old == {r \in held.rows : r.pub \notin gone}
        new == {e \in incoming : e.op = "share" /\ e.pub \notin gone \cup {r.pub : r \in old}}
        later == {e \in incoming : e.op = "status" /\ e.at > held.word.at}
        newest == CHOOSE e \in later : \A o \in later : e.at >= o.at
    IN  [held EXCEPT !.gone = gone,
                     !.rows = old \cup {[pub |-> e.pub, device |-> e.device, seq |-> e.seq,
                                         at |-> e.at, epoch |-> epoch] : e \in new},
                     !.word = IF later = {} THEN @
                              ELSE [device |-> newest.device, seq |-> newest.seq,
                                    at |-> newest.at, epoch |-> epoch]]

MaySpeak(page) == page.frame > lapsed[page.device]

\* One page, by the chain that leads to it.
TakePage(taken, chain) ==
    LET page == Last(chain)
        d == page.device
    IN  IF /\ Front(chain) = taken.held.heads[d]
           /\ page.from > taken.held.cursor[d]
           /\ MaySpeak(page)
        THEN [held |-> [taken.held EXCEPT !.heads[d] = chain, !.cursor[d] = page.to],
              entries |-> taken.entries \cup page.entries, accepted |-> taken.accepted + 1]
        ELSE taken

\* Wrong form: the position on one version's chain is taken for one on the other's.
OnOneChain(held, v) == [held EXCEPT !.v = v]

\* A file kept from another chain version starts that version's chains from their beginning.
OnChain(held, v) ==
    IF held.v = v THEN held
    ELSE [held EXCEPT !.heads = NothingShared.heads, !.cursor = NothingShared.cursor, !.v = v]

TakePages(held, pages, v, epoch) ==
    LET taken[i \in 0 .. Len(pages)] ==
            IF i = 0 THEN [held |-> OnChain(held, v), entries |-> {}, accepted |-> 0]
            ELSE TakePage(taken[i - 1], pages[i])
        all == taken[Len(pages)]
    IN  [accepted |-> all.accepted, held |-> ApplyEntries(all.held, all.entries, epoch)]

\* A stream that is served no more takes what came by it along.
WithoutStream(held, d) ==
    IF \A o \in Device \ {d} : held.cursor[o] = 0 THEN NothingShared
    ELSE [held EXCEPT !.heads[d] = <<>>, !.cursor[d] = 0, !.rows = {r \in @ : r.device # d}]

-----------------------------------------------------------------------------
AcceptsTransport(state) == state = "admitted"

\* Wrong form: the person need only be admitted, in whatever epoch.
StillAdmitsAny(epoch) == AcceptsTransport(rel.state)

StillAdmits(epoch) == AcceptsTransport(rel.state) /\ rel.epoch = epoch

\* The reader forgets the person: the relationship ends first.  The record is written on
\* the person's lane, which is the lane of their shelf's file.
ForgetEnds(log) ==
    /\ paired /\ forget.pc = "idle" /\ (log = "shelf" => ~writing)
    /\ rel' = [rel EXCEPT !.state = "exited"]
    /\ forget' = [pc |-> "listing", books |-> place = "shelf", trashed |-> FALSE]
    /\ UNCHANGED <<file, place, paired, known, met, writing, lapsed, cut>>

ForgetLists ==
    /\ forget.pc = "listing"
    /\ forget' = [forget EXCEPT !.pc = "purging", !.trashed = place = "trash"]
    /\ UNCHANGED <<file, place, rel, paired, known, met, writing, lapsed, cut>>

\* Then the files, on their lanes, where they were listed.
Listed(log) ==
    \/ log = "shelf"
    \/ place = "shelf" /\ forget.books
    \/ place = "trash" /\ forget.trashed

PurgePerson(log) ==
    /\ forget.pc = "purging" /\ ~writing
    /\ file' = IF Listed(log) THEN NothingShared ELSE file
    /\ cut' = rel.epoch
    /\ forget' = [forget EXCEPT !.pc = "purged"]
    /\ UNCHANGED <<place, rel, paired, known, met, writing, lapsed>>

\* Then the peer, which may fail to.
ForgetPeer ==
    /\ forget.pc = "purged"
    /\ paired' \in {FALSE, paired}
    /\ forget' = [forget EXCEPT !.pc = "idle"]
    /\ UNCHANGED <<file, place, rel, known, met, writing, lapsed, cut>>

\* The two meet (again), or the reader meets another; the peer tells the circle.
Pairs ==
    /\ ~met
    /\ paired' \in {paired, TRUE} /\ met' = TRUE
    /\ UNCHANGED <<file, place, rel, known, forget, writing, lapsed, cut>>

\* Who is new to the roster and had been let go is admitted in a new epoch.
Readmit == [state |-> "admitted", epoch |-> rel.epoch + 1]

ReadmitOnPairing(log) ==
    /\ met /\ (log = "shelf" => ~writing)
    /\ rel' = IF paired /\ ~known /\ ~AcceptsTransport(rel.state) THEN Readmit ELSE rel
    /\ known' = paired /\ met' = FALSE
    /\ UNCHANGED <<file, place, paired, forget, writing, lapsed, cut>>

\* The reader removes the book, or restores it: the file goes along on the book's lane.
Moves ==
    /\ ~writing
    /\ place' = IF place = "shelf" THEN "trash" ELSE "shelf"
    /\ UNCHANGED <<file, rel, paired, known, met, forget, writing, lapsed, cut>>

\* Ninety days pass: the delegation of an older frame is over.
Lapse(d) ==
    /\ lapsed[d] + 1 < frame[d]
    /\ lapsed' = [lapsed EXCEPT ![d] = @ + 1]
    /\ UNCHANGED <<file, place, rel, paired, known, met, forget, writing, cut>>

ReaderRestarts ==
    /\ known' = paired /\ met' = FALSE /\ writing' = FALSE
    /\ forget' = [forget EXCEPT !.pc = "idle"]
    /\ UNCHANGED <<file, place, rel, paired, lapsed, cut>>

ReaderInit ==
    /\ file = NothingShared /\ place = "shelf"
    /\ rel = [state |-> "admitted", epoch |-> 1]
    /\ paired = TRUE /\ known = TRUE /\ met = FALSE
    /\ forget = [pc |-> "idle", books |-> FALSE, trashed |-> FALSE]
    /\ writing = FALSE /\ lapsed = [d \in Device |-> 0] /\ cut = 0

-----------------------------------------------------------------------------
HeldRow == [pub : Pub, device : Device, seq : Nat, at : Nat, epoch : Nat]
ForeignFile(f) ==
    /\ f.rows \subseteq HeldRow /\ f.gone \subseteq Pub /\ f.v \in Version
    /\ DOMAIN f.heads = Device /\ f.cursor \in [Device -> Nat]

ReaderTypes ==
    /\ ForeignFile(file) /\ place \in {"shelf", "trash"}
    /\ rel \in [state : {"admitted", "exited"}, epoch : 1 .. MaxEpoch]
    /\ {paired, known, met, writing} \subseteq BOOLEAN
    /\ forget \in [pc : {"idle", "listing", "purging", "purged"}, books : BOOLEAN, trashed : BOOLEAN]
    /\ lapsed \in [Device -> Nat] /\ cut \in 0 .. MaxEpoch
=============================================================================
