---------------------------- MODULE SyncSession ----------------------------
(***************************************************************************)
(* The sync session between one shelf and its satchels, about one book      *)
(* (src/src/capabilities/sync/lib/ledger.ts), down to what each handler     *)
(* reads before an await and uses after it.  The record is its position     *)
(* register, whose value is named by the stamp it was written under; the    *)
(* journal is what it promises (Journal, Provenance): the outbox of a       *)
(* satchel, the feed of the shelf.  The connection may be lost between any  *)
(* two steps, and a handler of the shelf then carries on by itself.         *)
(***************************************************************************)
EXTENDS Integers, FiniteSets, Sequences, Merge

CONSTANTS
    N,           \* how many satchels
    Casts        \* bound: who does what, and how much of it; each a record of
                 \*   satchels   those that are paired
                 \*   adders     the satchels whose reader may add the book, new to them
                 \*   removers   the devices whose reader may remove the book
                 \*   returners  the devices whose reader may add it again
                 \*   swept      is a removed copy gone from the trash before it is asked for?
                 \*   skew       how far ahead a clock may be, in its own stamps
                 \*   acts       what the readers do in all
                 \*   lost       connections lost in all

Shelf == 0
Satchel == 1 .. N
Device == {Shelf} \cup Satchel

Cast == [satchels : SUBSET Satchel, adders : SUBSET Satchel, removers : SUBSET Device,
         returners : SUBSET Device, swept : BOOLEAN, skew : Nat, acts : Nat, lost : Nat]

ASSUME SyncSessionAssumption == N \in Nat /\ Casts \subseteq Cast

What == {"record", "removed"}
Absent == [at |-> -2, v |-> 0]

VARIABLES
    live,      \* live[d]: is the book's folder on the shelf of d?
    rec,       \* rec[d]: its record there, or the one in the trash
    presence,  \* presence[d]: the register of presence.ts
    floor,     \* floor[d]: no stamp of d's is at or below it
    owed,      \* owed[s]: the revs in the outbox of s
    fresh,     \* fresh[s]: those committed since its session took the outbox
    log,       \* the commits in the feed of the shelf: what of the book each is of
    cursor,    \* cursor[s]: how far into the feed s has pulled
    session,   \* session[s]: the session of s
    served,    \* the pushes the shelf is serving
    acts,      \* how much the readers did
    lost,      \* how many connections were lost
    cast       \* who does what, once and for all

vars == <<live, rec, presence, floor, owed, fresh, log, cursor, session, served, acts, lost, cast>>

NoMsg == [revs |-> {}, rec |-> Absent, removed |-> 0, live |-> 0, known |-> FALSE]
Idle == [pc |-> "idle", until |-> 0, msg |-> NoMsg]

HubSeq == Len(log)

Reg == [at : {-1} \cup Nat, v : Nat]
Msg == [revs : SUBSET What, rec : Reg \cup {Absent}, removed : Nat, live : Nat, known : BOOLEAN]

\* Types; and no stamp a device holds is above what it has witnessed.
TypeOK ==
    /\ live \in [Device -> BOOLEAN]
    /\ rec \in [Device -> Reg \cup {Absent}]
    /\ \A d \in Device : live[d] => rec[d] # Absent
    /\ presence \in [Device -> [state : {"none", "live", "removed"}, at : Nat]]
    /\ \A d \in Device : presence[d].at <= floor[d] /\ rec[d].at <= floor[d]
    /\ owed \in [Satchel -> SUBSET What] /\ fresh \in [Satchel -> SUBSET What]
    /\ log \in Seq(What)
    /\ \A s \in Satchel : cursor[s] \in 0 .. HubSeq /\ session[s].until \in 0 .. HubSeq
    /\ \A s \in Satchel : session[s].msg \in Msg
    /\ \A h \in served : h.msg \in Msg
    /\ Cardinality(served) <= cast.lost + N
    /\ cast \in Casts

\* The shelf has the book; no satchel has heard of it.
Init ==
    /\ live = [d \in Device |-> d = Shelf]
    /\ rec = [d \in Device |-> IF d = Shelf THEN Unset ELSE Absent]
    /\ presence = [d \in Device |-> [state |-> "none", at |-> 0]]
    /\ floor = [d \in Device |-> 0]
    /\ owed = [s \in Satchel |-> {}]
    /\ fresh = [s \in Satchel |-> {}]
    /\ log = <<"record">>
    /\ cursor = [s \in Satchel |-> 0]
    /\ session = [s \in Satchel |-> Idle]
    /\ served = {}
    /\ acts = 0
    /\ lost = 0
    /\ cast \in Casts

-----------------------------------------------------------------------------
(* The kernel's verbs: what each does to the book on one device *)

\* clock.now: above all that was issued or witnessed, and of this device.
Stamp(d, above) == {at \in (above + 1) .. (above + cast.skew * (N + 1)) : at % (N + 1) = d}

\* A commit reaches the feed of the shelf; on a satchel, the outbox if local.
Entries(what) ==
    (IF "removed" \in what THEN <<"removed">> ELSE <<>>) \o
    (IF "record" \in what THEN <<"record">> ELSE <<>>)

FeedTakes(d, what) == log' = IF d # Shelf THEN log ELSE log \o Entries(what)

OutboxTakes(d, what) ==
    /\ owed' = [s \in Satchel |-> IF s = d THEN owed[s] \cup what ELSE owed[s]]
    /\ fresh' = [s \in Satchel |-> IF s = d THEN fresh[s] \cup what ELSE fresh[s]]

\* mergeParsed: the position is the held one's, its stamp the incoming one's.
ParsedOver(held, incoming) ==
    IF held = Absent THEN incoming
    ELSE [at |-> IF incoming.at # -1 THEN incoming.at ELSE held.at,
          v  |-> IF held.v # 0 THEN held.v ELSE incoming.v]

\* notePresence: only a strictly newer stamp writes.
Newer(d, at) == presence[d].state = "none" \/ at > presence[d].at

\* update with foldRecord, which keeps the held record by identity.
Merged(d, incoming, floors) ==
    LET next == Pick(rec[d], incoming) IN
    /\ rec' = [rec EXCEPT ![d] = next]
    /\ FeedTakes(d, IF next = rec[d] THEN {} ELSE {"record"})
    /\ floor' = floors
    /\ UNCHANGED <<live, presence, owed, fresh>>

\* add: a book the register removed is restored first, under a bracket of its
\* own and the stamp asOf, or the clock's where the caller gave none (0).
Added(d, incoming, asOf, mine, floors) ==
    LET flips == presence[d].state = "removed"
        news  == {"record"} \cup (IF flips THEN {"removed"} ELSE {})
    IN
    /\ live' = [live EXCEPT ![d] = TRUE]
    /\ rec' = [rec EXCEPT ![d] = ParsedOver(@, incoming)]
    /\ FeedTakes(d, news)
    /\ OutboxTakes(d, IF mine THEN news ELSE news \ {"record"})
    /\ IF ~flips
       THEN UNCHANGED presence /\ floor' = floors
       ELSE \E at \in IF asOf > 0 THEN {asOf} ELSE Stamp(d, floors[d]) :
                /\ presence' = [presence EXCEPT ![d] = [state |-> "live", at |-> at]]
                /\ floor' = [floors EXCEPT ![d] = Latest(@, at)]

Evicted(d) ==
    /\ live' = [live EXCEPT ![d] = FALSE]
    /\ rec' = [rec EXCEPT ![d] = IF cast.swept THEN Absent ELSE @]

\* noteRemoteRemoval, in the book's lane: the register judges; the folder goes
\* with a commit of its own where there is one.
RemovalNoted(d, at, floors) ==
    /\ floor' = floors
    /\ IF Newer(d, at)
       THEN /\ presence' = [presence EXCEPT ![d] = [state |-> "removed", at |-> at]]
            /\ IF live[d] THEN Evicted(d) ELSE UNCHANGED <<live, rec>>
            /\ FeedTakes(d, IF live[d] THEN {"removed"} ELSE {})
       ELSE UNCHANGED <<live, rec, presence, log>>
    /\ UNCHANGED <<owed, fresh>>

Kept(floors) == floor' = floors /\ UNCHANGED <<live, rec, presence, log, owed, fresh>>

-----------------------------------------------------------------------------
(* The readers *)

Act == acts < cast.acts /\ acts' = acts + 1 /\ UNCHANGED <<cursor, session, served, lost, cast>>

\* A page turned.
Turn(d) ==
    /\ Act /\ live[d]
    /\ \E at \in Stamp(d, floor[d]) :
        /\ rec' = [rec EXCEPT ![d] = [at |-> at, v |-> at]]
        /\ floor' = [floor EXCEPT ![d] = at]
    /\ FeedTakes(d, {"record"}) /\ OutboxTakes(d, {"record"})
    /\ UNCHANGED <<live, presence>>

\* remove: the register first, the rename second.
Remove(d) ==
    /\ Act /\ live[d] /\ d \in cast.removers
    /\ \E at \in Stamp(d, floor[d]) :
        /\ presence' = [presence EXCEPT ![d] = [state |-> "removed", at |-> at]]
        /\ floor' = [floor EXCEPT ![d] = at]
    /\ Evicted(d)
    /\ FeedTakes(d, {"removed"}) /\ OutboxTakes(d, {"removed"})

\* The file is opened: a new book, or one that was removed.
Open(d) ==
    /\ Act /\ ~live[d]
    /\ IF presence[d].state = "removed" THEN d \in cast.returners ELSE d \in cast.adders
    /\ Added(d, Unset, 0, TRUE, floor)

-----------------------------------------------------------------------------
(* The session: hello *)

Witness(d, at) == [floor EXCEPT ![d] = Latest(@, at)]
StampsIn(msg) == Latest(Latest(msg.rec.at, msg.removed), msg.live)

At(s, pc) == session[s].pc = pc
Goes(s, pc, msg) == session' = [session EXCEPT ![s].pc = pc, ![s].msg = msg]

\* runSession: both clocks are witnessed, the head of the feed and the outbox
\* are taken as they are now.
Hello(s) ==
    LET top == Latest(floor[s], floor[Shelf]) IN
    /\ At(s, "idle")
    /\ floor' = [floor EXCEPT ![s] = top, ![Shelf] = top]
    /\ session' = [session EXCEPT ![s] =
                      [pc |-> IF owed[s] = {} THEN "pull" ELSE "build", until |-> HubSeq,
                       msg |-> [NoMsg EXCEPT !.revs = owed[s]]]]
    /\ fresh' = [fresh EXCEPT ![s] = {}]
    /\ UNCHANGED <<live, rec, presence, owed, log, cursor, served, acts, lost, cast>>

\* The transport, or the satchel, goes away.
Lost(s) ==
    /\ lost < cast.lost /\ ~At(s, "idle")
    /\ lost' = lost + 1
    /\ session' = [session EXCEPT ![s] = Idle]
    /\ served' = {IF h.of = s THEN [h EXCEPT !.of = Shelf] ELSE h : h \in served}
    /\ UNCHANGED <<live, rec, presence, floor, owed, fresh, log, cursor, acts, cast>>

-----------------------------------------------------------------------------
(* The push *)

\* buildGroup reads the record ...
Build(s) ==
    /\ At(s, "build")
    /\ Goes(s, "push", [session[s].msg EXCEPT !.rec = IF live[s] THEN rec[s] ELSE Absent])
    /\ UNCHANGED <<live, rec, presence, floor, owed, fresh, log, cursor, served, acts, lost, cast>>

\* What the register said, where the outbox asks.
Intent(s, msg) == IF "removed" \in msg.revs THEN presence[s] ELSE [state |-> "none", at |-> 0]

Offer(msg, held) ==
    [msg EXCEPT
        !.rec     = IF "record" \in msg.revs \/ held.state = "live" THEN @ ELSE Absent,
        !.removed = IF held.state = "removed" THEN held.at ELSE 0,
        !.live    = IF held.state = "live" THEN held.at ELSE 0]

\* A wrong form: a restore is nothing to offer.
GroupOfRemovals(s, msg) ==
    LET sent == Offer(msg, Intent(s, msg)) IN
    [sent EXCEPT !.revs = {w \in @ : sent.removed > 0 \/ (w = "record" /\ sent.rec # Absent)}]

\* ... and then the register, and offers the revs there is something behind.
Group(s, msg) ==
    LET held == Intent(s, msg)
        sent == Offer(msg, held)
    IN [sent EXCEPT !.revs =
            {w \in @ : held.state # "none" \/ (w = "record" /\ sent.rec # Absent)}]

\* handlePush begins: the stamps are witnessed and a removal applied.
Push(s) ==
    LET group == Group(s, session[s].msg)
        floors == Witness(Shelf, StampsIn(group))
    IN
    /\ At(s, "push")
    /\ IF group.revs = {}
       THEN Goes(s, "pull", NoMsg) /\ UNCHANGED served /\ Kept(floor)
       ELSE /\ Goes(s, "pushed", [NoMsg EXCEPT !.revs = group.revs])
            /\ served' = served \cup {[of |-> s, step |-> "check", msg |-> group]}
            /\ IF group.removed > 0
               THEN RemovalNoted(Shelf, group.removed, floors)
               ELSE Kept(floors)
    /\ UNCHANGED <<cursor, acts, lost, cast>>

\* The register is read before the fence; `known` is: removed here.
Check(h) ==
    /\ h.step = "check"
    /\ served' = (served \ {h}) \cup
          {[h EXCEPT !.step = "apply",
                     !.msg.known = /\ h.msg.live = 0 /\ h.msg.rec # Absent
                                   /\ presence[Shelf].state = "removed"]}
    /\ UNCHANGED <<live, rec, presence, floor, owed, fresh, log, cursor, session, acts, lost, cast>>

\* The guard of add: a removal the sender had not heard.
RestoreRefused(msg) ==
    presence[Shelf].state = "removed" /\ presence[Shelf].at > msg.live

\* applyIncomingRecord.
Apply(h) ==
    /\ h.step = "apply"
    /\ served' = (served \ {h}) \cup {[h EXCEPT !.step = "answer", !.msg.known = FALSE]}
    /\ IF h.msg.rec = Absent THEN Kept(floor)
       ELSE IF live[Shelf] THEN Merged(Shelf, h.msg.rec, floor)
       ELSE IF h.msg.live > 0
            THEN IF RestoreRefused(h.msg) THEN Kept(floor)
                 ELSE Added(Shelf, h.msg.rec, h.msg.live, FALSE, floor)
       ELSE IF h.msg.known THEN Kept(floor)
       ELSE Added(Shelf, h.msg.rec, 0, FALSE, floor)
    /\ UNCHANGED <<cursor, session, acts, lost, cast>>

\* The ack names the revs and carries the record as it is here now; a session
\* that is gone hears nothing.
Answer(h) ==
    /\ h.step = "answer"
    /\ served' = served \ {h}
    /\ IF h.of = Shelf THEN UNCHANGED session
       ELSE Goes(h.of, "ack", [NoMsg EXCEPT !.revs = h.msg.revs,
                    !.rec = IF h.msg.rec # Absent /\ live[Shelf] THEN rec[Shelf] ELSE Absent])
    /\ UNCHANGED <<live, rec, presence, floor, owed, fresh, log, cursor, acts, lost, cast>>

\* applyAck: a merge, never an assignment ...
Ack(s) ==
    LET msg == session[s].msg
        floors == Witness(s, msg.rec.at)
    IN
    /\ At(s, "ack")
    /\ Goes(s, "clear", msg)
    /\ IF msg.rec # Absent /\ live[s] THEN Merged(s, msg.rec, floors) ELSE Kept(floors)
    /\ UNCHANGED <<cursor, served, acts, lost, cast>>

\* journal.ack, per rev: one outrun by a later local commit stays.
Cleared(s) == session[s].msg.revs \ fresh[s]

\* ... and then the revs are cleared.
Clear(s) ==
    /\ At(s, "clear")
    /\ owed' = [owed EXCEPT ![s] = @ \ Cleared(s)]
    /\ Goes(s, "pull", NoMsg)
    /\ UNCHANGED <<live, rec, presence, floor, fresh, log, cursor, served, acts, lost, cast>>

-----------------------------------------------------------------------------
(* The pull *)

\* journal.feed over the window.
Feed(s) == {log[i] : i \in (cursor[s] + 1) .. session[s].until}

\* handlePull reads the register and the feed ...
Pull(s) ==
    /\ At(s, "pull")
    /\ LET msg == [NoMsg EXCEPT
                      !.revs = Feed(s),
                      !.removed = IF presence[Shelf].state = "removed" THEN presence[Shelf].at ELSE 0]
       IN IF Feed(s) = {} THEN Goes(s, "cursor", NoMsg) ELSE Goes(s, "rows", msg)
    /\ UNCHANGED <<live, rec, presence, floor, owed, fresh, log, cursor, served, acts, lost, cast>>

\* An entry is a removal where the register says so, a row otherwise.
RowAsked(msg) == "record" \in msg.revs \/ ("removed" \in msg.revs /\ msg.removed = 0)

\* applyPage: a record for a book this device removed does not re-add it.
RowTaken(s) == live[s] \/ presence[s].state # "removed"

\* ... and then the record; the satchel looks at its shelf and its register.
Rows(s) ==
    LET msg == session[s].msg IN
    /\ At(s, "rows")
    /\ Goes(s, "page",
            [NoMsg EXCEPT
                !.rec = IF RowAsked(msg) /\ live[Shelf] /\ RowTaken(s) THEN rec[Shelf] ELSE Absent,
                !.removed = IF "removed" \in msg.revs THEN msg.removed ELSE 0,
                !.known = live[s]])
    /\ UNCHANGED <<live, rec, presence, floor, owed, fresh, log, cursor, served, acts, lost, cast>>

\* The row is applied as what it was judged to be: a change to a book on the
\* shelf, which is nothing if it left since, or a book to add.
Page(s) ==
    LET msg == session[s].msg
        floors == Witness(s, StampsIn(msg))
    IN
    /\ At(s, "page")
    /\ Goes(s, IF msg.removed > 0 THEN "removals" ELSE "cursor",
            [NoMsg EXCEPT !.removed = msg.removed])
    /\ IF msg.rec = Absent THEN Kept(floors)
       ELSE IF ~msg.known THEN Added(s, msg.rec, 0, FALSE, floors)
       ELSE IF live[s] THEN Merged(s, msg.rec, floors)
       ELSE Kept(floors)
    /\ UNCHANGED <<cursor, served, acts, lost, cast>>

Removals(s) ==
    /\ At(s, "removals")
    /\ RemovalNoted(s, session[s].msg.removed, floor)
    /\ Goes(s, "cursor", NoMsg)
    /\ UNCHANGED <<cursor, served, acts, lost, cast>>

\* A wrong form: the cursor goes to the head of the feed as it is now.
CursorAt(s) == HubSeq

\* The window's end, as the hello promised it.
NextSince(s) == session[s].until

\* The cursor moves after the page is applied.
Cursor(s) ==
    /\ At(s, "cursor")
    /\ cursor' = [cursor EXCEPT ![s] = NextSince(s)]
    /\ session' = [session EXCEPT ![s] = Idle]
    /\ UNCHANGED <<live, rec, presence, floor, owed, fresh, log, served, acts, lost, cast>>

-----------------------------------------------------------------------------
Step(s) ==
    \/ Hello(s) \/ Build(s) \/ Push(s) \/ Ack(s) \/ Clear(s)
    \/ Pull(s) \/ Rows(s) \/ Page(s) \/ Removals(s) \/ Cursor(s)

Serve == \E h \in served : Check(h) \/ Apply(h) \/ Answer(h)

Playing == {Shelf} \cup cast.satchels

Next ==
    \/ \E d \in Playing : Turn(d) \/ Remove(d) \/ Open(d)
    \/ \E s \in cast.satchels : Step(s) \/ Lost(s)
    \/ Serve

Spec == Init /\ [][Next]_vars

\* The scheduler comes back to every satchel (Scheduler), a session's steps and
\* the shelf's handlers end; no reader has to act and no connection to be lost.
FairSpec == Spec /\ (\A s \in Satchel : WF_vars(s \in cast.satchels /\ Step(s))) /\ WF_vars(Serve)

-----------------------------------------------------------------------------
\* What s still has to push: a rev with no folder behind it waits for a session
\* that can carry it (ledger.ts:1091-1097).
Owed(s) == IF live[s] THEN owed[s] ELSE owed[s] \ {"record"}

Settled(s) ==
    /\ At(s, "idle") /\ Owed(s) = {} /\ cursor[s] = HubSeq
    /\ served = {}

\* What is claimed of every step is claimed where books are not added while they
\* are pulled, and are removed and brought back by the reader of the only satchel, if
\* at all, over a connection that holds: past that, devices part (README, Divergences).
Tame ==
    /\ cast.adders = {}
    /\ cast.removers = {} \/ (/\ cast.removers = cast.satchels /\ Cardinality(cast.satchels) = 1
                             /\ cast.returners \subseteq cast.satchels
                             /\ cast.swept /\ cast.lost = 0)

Agrees(s) ==
    Settled(s) => /\ live[s] = live[Shelf]
                  /\ live[s] => rec[s] = rec[Shelf]

\* A satchel with nothing to push and nothing to pull has what the shelf has:
\* the book or not, and if so the same record.
Agreed == Tame => \A s \in cast.satchels : Agrees(s)

\* An edit the outbox no longer holds did arrive: the shelf has it or later
\* news, or no longer has the book (ledger.ts:1121-1123).
Delivered ==
    Tame => \A s \in cast.satchels :
        live[s] /\ live[Shelf] /\ "record" \notin owed[s]
            => rec[Shelf] = Pick(rec[Shelf], rec[s])

\* A satchel with nothing to push and nothing to pull agrees with the shelf, and what
\* it no longer has to push the shelf has.
Together == Agreed /\ Delivered

\* Agreed with no restriction, which the code does not hold to: "Re-added since:
\* fall through to a row, the record says it lives." (ledger.ts:918).
AllAgree == \A s \in cast.satchels : Agrees(s)

\* A stamp names what was written under it, wherever it ends up: a page goes
\* with the moment it was turned (merge.ts:1-38).  The code does not hold to it
\* where a restore is folded with the record in the trash.
OneStampOneValue ==
    \A d \in Device : rec[d].at > 0 => rec[d].v = rec[d].at

\* "a removed book is not resurrected by a stale record" (ledger.test.ts:854).
\* The code does not hold to it while the shelf serves a push.
RemovalStands ==
    [][\A d \in Device : presence[d].state = "removed" /\ cast.returners = {}
            => presence'[d].state = "removed"]_vars

\* Once the readers stop, every satchel catches up: nothing left to push that
\* can be pushed, nothing left to pull, whatever was lost before.
Settles ==
    <>[](\A s \in cast.satchels : Owed(s) = {} /\ cursor[s] = HubSeq)

=============================================================================
