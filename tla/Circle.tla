------------------------------- MODULE Circle -------------------------------
(***************************************************************************)
(* A round of fetching (src/src/capabilities/circle/lib/fetch.ts, cadence.ts)*)
(* between a publisher and a reader: each of the person's devices is dialled *)
(* and asked for what is past the reader's cursor; what it answers is taken, *)
(* and kept if the person is admitted still.  Meanwhile the person publishes *)
(* and is served to others, the reader forgets them and meets them again, a  *)
(* call fails and the process dies.  A shelf that may be hidden is probed.   *)
(***************************************************************************)
EXTENDS CircleReader

CONSTANTS
    MaxAnswers,  \* bound: how often one log is asked for in a round
    Casts        \* bound: which log, the person's devices, the version they speak, whether
                 \*   one began with a copy of another's store, whether the reader is hasty (a
                 \*   book is moved while its person is forgotten, or a person is forgotten
                 \*   before their pairing is looked at), and how often each thing happens

Event == {"publish", "serve", "upgrade", "reframe", "lapse", "hide", "move", "forget",
          "meet", "lose", "restart"}
Cast == [log : {"book", "shelf"}, devices : (SUBSET Device) \ {{}}, speaks : Version,
         copied : BOOLEAN, hasty : BOOLEAN, times : [Event -> Nat]]

ASSUME CircleAssumption == MaxAnswers \in Nat \ {0} /\ Casts \subseteq Cast

VARIABLES
    serves,    \* serves[d]: does d show this reader the log?
    round,     \* the round under way
    cast       \* who does what; its times are those that are left

circleVars == <<publisherVars, readerVars, serves, round, cast>>

log == cast.log
Left(e) == cast.times[e] > 0
Spends(e) == Left(e) /\ cast' = [cast EXCEPT !.times[e] = @ - 1]

Resting == [pc |-> "idle", todo |-> {}, at |-> NoPub, v |-> 1, epoch |-> 0, held |-> NothingShared,
            asked |-> 0, probing |-> FALSE, shown |-> FALSE, frame |-> 0,
            answer |-> [pages |-> <<>>, more |-> FALSE]]

\* What is between two devices of a round, and between two rounds.
AtRest(todo) ==
    IF todo = {} THEN Resting ELSE [Resting EXCEPT !.pc = "dial", !.todo = todo, !.epoch = round.epoch]
NextDevice == round' = AtRest(round.todo)

\* fetchPerson's `admitted`: asked before a page is taken and before it is kept.
Admitted == StillAdmits(round.epoch) /\ paired
Asking(held) == [round EXCEPT !.pc = "asked", !.held = held, !.asked = @ + 1]

-----------------------------------------------------------------------------
BeginRound ==
    /\ round.pc = "idle" /\ paired /\ AcceptsTransport(rel.state) /\ place = "shelf"
    /\ round' = [Resting EXCEPT !.pc = "dial", !.todo = cast.devices, !.epoch = rel.epoch]
    /\ UNCHANGED <<publisherVars, readerVars, serves, cast>>

\* The roster's order.
Candidate == CHOOSE d \in round.todo : TRUE

\* A device answers the hello, the file is read and the first question is asked.
Dial ==
    /\ round.pc = "dial"
    /\ round' = [round EXCEPT !.pc = "asked", !.todo = @ \ {Candidate}, !.at = Candidate,
                              !.v = speaks[Candidate],
                              !.held = IF place = "shelf" THEN file ELSE NothingShared, !.asked = 1]
    /\ UNCHANGED <<publisherVars, readerVars, serves, cast>>

Asleep ==
    /\ round.pc = "dial" /\ Spends("lose")
    /\ round' = AtRest(round.todo \ {Candidate})
    /\ UNCHANGED <<publisherVars, readerVars, serves>>

\* The device looks up what it may show, and under what it signs ...
Judges ==
    /\ round.pc = "asked"
    /\ round' = [round EXCEPT !.pc = "judged", !.shown = serves[round.at], !.frame = frame[round.at]]
    /\ UNCHANGED <<publisherVars, readerVars, serves, cast>>

\* ... and answers on the lane of its store, where what is fresh is sealed first.
Since ==
    LET cursor == IF round.held.v = round.v THEN round.held.cursor[round.at] ELSE 0
    IN  IF round.probing THEN Max({0, round.held.cursor[round.at] - 1}) ELSE cursor

Answers ==
    /\ round.pc = "judged"
    /\ IF round.shown
       THEN \E held \in {Sealed(shared[round.at], round.at, round.v, round.frame)} :
               \E chain \in {Chain(held, round.at, round.v)} :
                  /\ shared' = [shared EXCEPT ![round.at] = held]
                  /\ round' = [round EXCEPT !.pc = "answered", !.answer = PagesOver(chain, Since)]
       ELSE round' = [round EXCEPT !.pc = "answered", !.answer = Resting.answer] /\ UNCHANGED shared
    /\ UNCHANGED <<frame, speaks, readerVars, serves, cast>>

\* A call that fails ends what is asked of its device, and so does a write; a person who
\* sent more than their budget is asked no more.
Loses ==
    /\ round.pc \in {"asked", "judged", "answered", "writing"} /\ Spends("lose")
    /\ writing' = FALSE
    /\ NextDevice \/ (round.pc = "answered" /\ round' = Resting)
    /\ UNCHANGED <<publisherVars, file, place, rel, paired, known, met, forget, lapsed, cut, serves>>

-----------------------------------------------------------------------------
\* Pages: they are taken, if the person is admitted, or the round with them is over.
Pages ==
    /\ round.pc = "answered" /\ ~round.probing /\ round.answer.pages # <<>>
    /\ LET taken == TakePages(round.held, round.answer.pages, round.v, round.epoch)
       IN  IF ~Admitted THEN round' = Resting
           ELSE IF taken.accepted = 0 THEN NextDevice
           ELSE round' = [round EXCEPT !.pc = "keep", !.held = taken.held]
    /\ UNCHANGED <<publisherVars, readerVars, serves, cast>>

\* No pages to the first question: of a shelf that is held, is it shown still?
Nothing ==
    /\ round.pc = "answered" /\ ~round.probing /\ round.answer.pages = <<>>
    /\ IF log = "shelf" /\ round.asked = 1 /\ round.held.rows # {} /\ round.held.cursor[round.at] # 0
       THEN round' = [Asking(round.held) EXCEPT !.probing = TRUE]
       ELSE NextDevice
    /\ UNCHANGED <<publisherVars, readerVars, serves, cast>>

StillServed ==
    \E i \in DOMAIN round.answer.pages : round.answer.pages[i] = round.held.heads[round.at]

Probed ==
    /\ round.pc = "answered" /\ round.probing
    /\ IF StillServed THEN NextDevice
       ELSE IF ~Admitted THEN round' = Resting
       ELSE round' = [round EXCEPT !.pc = "lane", !.held = WithoutStream(@, round.at)]
    /\ UNCHANGED <<publisherVars, readerVars, serves, cast>>

Keep ==
    /\ round.pc = "keep"
    /\ IF ~Admitted THEN round' = Resting
       ELSE IF place # "shelf" THEN NextDevice
       ELSE round' = [round EXCEPT !.pc = "lane"]
    /\ UNCHANGED <<publisherVars, readerVars, serves, cast>>

\* writeOnLane: on the lane the record is read once more, and then the file is written.
LaneAdmits ==
    /\ round.pc = "lane" /\ ~writing
    /\ IF StillAdmits(round.epoch)
       THEN writing' = TRUE /\ round' = [round EXCEPT !.pc = "writing"]
       ELSE NextDevice /\ UNCHANGED writing
    /\ UNCHANGED <<publisherVars, file, place, rel, paired, known, met, forget, lapsed, cut, serves, cast>>

Kept ==
    IF round.answer.more /\ round.asked < MaxAnswers /\ ~round.probing
    THEN round' = Asking(round.held) ELSE NextDevice

LaneWrites ==
    /\ round.pc = "writing"
    /\ file' = round.held /\ writing' = FALSE
    /\ Kept
    /\ UNCHANGED <<publisherVars, place, rel, paired, known, met, forget, lapsed, cut, serves, cast>>

-----------------------------------------------------------------------------
Publishes ==
    /\ Spends("publish")
    /\ \E d \in cast.devices :
          \/ Share(d) \/ \E pub \in Pub : Unshare(d, pub)
          \/ log = "book" /\ Republish(d)
    /\ UNCHANGED <<readerVars, serves, round>>

ServesAnother ==
    /\ Spends("serve")
    /\ \E d \in cast.devices, v \in Version : OtherIsServed(d, v)
    /\ UNCHANGED <<readerVars, serves, round>>

Changes ==
    /\ \E d \in cast.devices : (Spends("reframe") /\ Reframe(d)) \/ (Spends("upgrade") /\ Upgrade(d))
    /\ UNCHANGED <<readerVars, serves, round>>

TimePasses == Spends("lapse") /\ (\E d \in cast.devices : Lapse(d)) /\ UNCHANGED <<publisherVars, serves, round>>

\* The publisher shows its shelf, or no more: of each device its own decision.
Shows ==
    /\ log = "shelf" /\ Spends("hide")
    /\ \E d \in cast.devices : serves' = [serves EXCEPT ![d] = ~@]
    /\ UNCHANGED <<publisherVars, readerVars, round>>

\* A book that is moved while its person is forgotten is in neither list, or in both.
MovesTheBook ==
    /\ log = "book" /\ (forget.pc # "idle" => cast.hasty)
    /\ Spends("move") /\ Moves
    /\ UNCHANGED <<publisherVars, serves, round>>

Meets == rel.epoch < MaxEpoch /\ Spends("meet") /\ Pairs /\ UNCHANGED <<publisherVars, serves, round>>

\* A person whose pairing has not been looked at yet is let go in haste too.
Forgets == (~known => cast.hasty) /\ Spends("forget") /\ ForgetEnds(log) /\ UNCHANGED <<publisherVars, serves, round>>

Forgetting ==
    /\ ForgetLists \/ PurgePerson(log) \/ ForgetPeer
    /\ UNCHANGED <<publisherVars, serves, round, cast>>

Readmits == ReadmitOnPairing(log) /\ UNCHANGED <<publisherVars, serves, round, cast>>

Restarts == Spends("restart") /\ ReaderRestarts /\ round' = Resting /\ UNCHANGED <<publisherVars, serves>>

-----------------------------------------------------------------------------
\* One device's store may be a copy of another's, with what that one had published.
Stores ==
    {[d \in Device |-> NothingPublished]} \cup
    {[d \in Device |-> [NothingPublished EXCEPT !.publications =
        {[pub |-> Mint({}), device |-> o, seq |-> 1, at |-> 1, gone |-> NotGone]}]] : o \in Device}

CircleInit ==
    /\ cast \in Casts
    /\ \E stores \in Stores :
          /\ cast.copied <=> \E d \in Device : stores[d] # NothingPublished
          /\ shared = stores
    /\ frame = [d \in Device |-> 1] /\ speaks = [d \in Device |-> cast.speaks]
    /\ ReaderInit
    /\ serves = [d \in Device |-> TRUE] /\ round = Resting

Fetching ==
    \/ BeginRound \/ Dial \/ Judges \/ Answers
    \/ Pages \/ Nothing \/ Probed \/ Keep \/ LaneAdmits \/ LaneWrites

CircleNext ==
    \/ Fetching \/ Asleep \/ Loses
    \/ Publishes \/ ServesAnother \/ Changes \/ TimePasses \/ Shows \/ MovesTheBook
    \/ Meets \/ Forgets \/ Forgetting \/ Readmits \/ Restarts

\* The cadence and the processes go on.  Nothing is asked of the readers, and calls fail
\* as often as the cast says.
CircleSpec ==
    /\ CircleInit /\ [][CircleNext]_circleVars
    /\ WF_circleVars(Fetching) /\ WF_circleVars(Forgetting) /\ WF_circleVars(Readmits)

-----------------------------------------------------------------------------
CircleTypes ==
    /\ PublisherTypes /\ ReaderTypes /\ ForeignFile(round.held)
    /\ serves \in [Device -> BOOLEAN] /\ cast \in Cast
    /\ round.todo \subseteq Device /\ round.asked \in 0 .. MaxAnswers + 1

\* What a device would serve next is always what follows the page the reader took last:
\* were it not, the reader would refuse that device for ever.
ChainsHold ==
    /\ StoresRead
    /\ \A held \in {file, round.held}, d \in Device : IsPrefix(held.heads[d], Chain(shared[d], d, held.v))

\* What the reader's cursors have passed is in what it holds, whichever device said it and
\* in whatever order, batches, chains and epochs it came: what was published and not taken
\* back is there, what was taken back is not, and no passed word is newer than the one held.
Streams(v) == UNION {StreamOf(shared[d], d, v) : d \in Device}
Passed == {e \in Streams(file.v) : e.seq <= file.cursor[e.device]}
Shared(entries) == {e.pub : e \in {x \in entries : x.op = "share"}}
Drawn == {row.pub : row \in file.rows}

FoldsAsOne ==
    /\ Shared(Passed) \subseteq Drawn \cup Unshared(Streams(2))
    /\ Drawn \cap Unshared(Passed) = {}
    /\ \A e \in Passed : e.op = "status" => e.at <= file.word.at

\* Once a person is forgotten nothing of theirs is on the disk, and nothing that came before
\* comes back when they are met again, though a round was out.
Forgotten ==
    /\ rel.epoch <= cut => file = NothingShared
    /\ \A row \in file.rows \cup ({file.word} \ {NoWord}) : row.epoch > cut

\* Whom the reader follows and who serves it, it comes to hold; a shelf that is hidden empties.
HoldsTheLog(v) ==
    /\ Drawn = Shared(Streams(v)) \ Unshared(Streams(v))
    /\ \A e \in Streams(v) : e.op = "status" => e.at <= file.word.at

Following == AcceptsTransport(rel.state) /\ paired /\ place = "shelf"
Readable == \A d \in Device : \A v \in Version : \A b \in Range(shared[d].sealed[v]) : b.frame > lapsed[d]
CaughtUp ==
    /\ <>[](Following /\ Readable /\ \A d \in cast.devices : serves[d])
          => <>[](\A v \in Version : (\A d \in cast.devices : speaks[d] = v) => HoldsTheLog(v))
    /\ \A d \in Device : <>[](Following /\ ~serves[d]) => <>[](\A row \in file.rows : row.device # d)

-----------------------------------------------------------------------------
\* What the source says and the code does not do; see the README.
\* A page refused now is fetched again, once the delegation was renewed.
LateReadersCatchUp ==
    <>[](Following /\ \A d \in cast.devices : serves[d])
        => <>[](\A v \in Version : (\A d \in cast.devices : speaks[d] = v) => HoldsTheLog(v))

\* A log longer than a round's answers is fetched over several rounds.
MixedCatchUp ==
    <>[](Following /\ \A d \in cast.devices : serves[d])
        => <>[](Shared(Streams(1)) \ Unshared(Streams(1)) \subseteq Drawn)

\* Meeting them again is a pairing, and that is what re-admits them.
MetIsAdmitted ==
    [](~paired => [](paired => <>(AcceptsTransport(rel.state) \/ ~paired \/ forget.pc # "idle")))
=============================================================================
