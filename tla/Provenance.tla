----------------------------- MODULE Provenance -----------------------------
(***************************************************************************)
(* Whose write is it?  The journal marks a commit "remote" when it came    *)
(* from the peer, so that it is not pushed back, and "local" when it is the *)
(* reader's own, so that it is.  Nothing in a write says which it is: a     *)
(* remote application arms a one-shot TICKET for its key by a fence task on *)
(* the key's own lane, queues the write right behind the fence, and the    *)
(* next begin on that key takes the oldest ticket (journal.ts: markRemote, *)
(* begin; ledger.ts: applyRemote).                                         *)
(*                                                                         *)
(* A KEY is a book and one of its surfaces; a book's surfaces share the     *)
(* book's lane, which runs its tasks one at a time in the order queued      *)
(* (writeQueue.ts).  A BATCH is one call of markRemote and is used once.    *)
(***************************************************************************)
EXTENDS Integers, FiniteSets, Sequences, SequencesExt

CONSTANTS
    Book,        \* a lane each; the card store is one of them
    Surface,     \* record, marks, content, ...
    Key,         \* the surfaces in play, each with its book
    Batch,       \* calls of markRemote
    Outcome,     \* what an application may turn out to do, of the three below
    Cap,         \* MAX_APPENDED: how many tasks a lane lets wait
    MaxEdits     \* bound: the reader's edits

\* "writes"; "same": the merge answers by identity and nothing is written;
\* "absent": its run threw and nothing was queued.
ASSUME ProvenanceAssumption ==
    /\ Key \subseteq Book \X Surface /\ IsFiniteSet(Key)
    /\ Outcome \subseteq {"writes", "same", "absent"}
    /\ Cap \in Nat /\ MaxEdits \in Nat

Lane(k) == k[1]

VARIABLES
    line,      \* line[l]: the tasks waiting on lane l
    running,   \* running[l]: the task between its begin and its commit, or Free
    armed,     \* armed[k]: the tickets a begin on k would take, oldest first
    batch,     \* batch[b]: "new", "open", "closed"
    edits,     \* how many edits the reader has made
    journalled,\* who was journalled as what on which key, so far (history)
    vain       \* the keys some application came to nothing on (history)

vars == <<line, running, armed, batch, edits, journalled, vain>>

Free == [kind |-> "free"]
Fence(b, k) == [kind |-> "fence", batch |-> b, key |-> k]
Apply(b, k, o) == [kind |-> "apply", batch |-> b, key |-> k, outcome |-> o]
Edit(k) == [kind |-> "edit", key |-> k]

Origin == {"local", "remote"}

Tasks == [kind : {"fence"}, batch : Batch, key : Key]
         \cup [kind : {"apply"}, batch : Batch, key : Key, outcome : Outcome]
         \cup [kind : {"edit"}, key : Key]

TypeOK ==
    /\ line \in [Book -> Seq(Tasks)]
    /\ \A l \in Book : Len(line[l]) <= Cap
    /\ running \in [Book -> Tasks \cup {Free}]
    /\ armed \in [Key -> Seq(Batch)]
    /\ batch \in [Batch -> {"new", "open", "closed"}]
    /\ edits \in 0 .. MaxEdits
    /\ journalled \subseteq {"apply", "edit"} \X Origin \X Key
    /\ vain \subseteq Key

Init ==
    /\ line = [l \in Book |-> <<>>]
    /\ running = [l \in Book |-> Free]
    /\ armed = [k \in Key |-> <<>>]
    /\ batch = [b \in Batch |-> "new"]
    /\ edits = 0
    /\ journalled = {}
    /\ vain = {}

-----------------------------------------------------------------------------
(* Queueing *)

\* What is queued past the bound is refused, and its caller told.
Accepted(l, tasks) ==
    LET all == line[l] \o tasks IN IF Len(all) <= Cap THEN all ELSE SubSeq(all, 1, Cap)

Of(l, K) == SetToSeq({k \in K : Lane(k) = l})

Fences(b, l, K) == [i \in DOMAIN Of(l, K) |-> Fence(b, Of(l, K)[i])]

Applies(b, l, K, out) ==
    LET here == Of(l, {k \in K : out[k] # "absent"}) IN
    [i \in DOMAIN here |-> Apply(b, here[i], out[here[i]])]

\* markRemote over the keys K: every fence and every application is queued in
\* one synchronous block.
Open(b, K, out) ==
    /\ batch[b] = "new"
    /\ batch' = [batch EXCEPT ![b] = "open"]
    /\ line' = [l \in Book |-> Accepted(l, Fences(b, l, K) \o Applies(b, l, K, out))]
    /\ vain' = vain \cup {k \in K : Apply(b, k, out[k]) \notin Range(line'[Lane(k)])}
    /\ UNCHANGED <<running, armed, edits, journalled>>

\* The reader edits: a task at the end of the lane, or a refusal.
Queue(k) ==
    /\ edits < MaxEdits
    /\ edits' = edits + 1
    /\ line' = [line EXCEPT ![Lane(k)] = Accepted(Lane(k), <<Edit(k)>>)]
    /\ UNCHANGED <<running, armed, batch, journalled, vain>>

-----------------------------------------------------------------------------
(* Running *)

Due(l) == running[l] = Free /\ line[l] # <<>>

Shift(l) == line' = [line EXCEPT ![l] = Tail(@)]

\* A fence arms its ticket.
RunFence(l) ==
    /\ Due(l) /\ Head(line[l]).kind = "fence"
    /\ LET t == Head(line[l]) IN armed' = [armed EXCEPT ![t.key] = Append(@, t.batch)]
    /\ Shift(l)
    /\ UNCHANGED <<running, batch, edits, journalled, vain>>

\* An application that finds nothing to change begins nothing.
RunSame(l) ==
    /\ Due(l) /\ Head(line[l]).kind = "apply" /\ Head(line[l]).outcome = "same"
    /\ vain' = vain \cup {Head(line[l]).key}
    /\ Shift(l)
    /\ UNCHANGED <<running, armed, batch, edits, journalled>>

\* begin: the oldest ticket of the key, if there is one, makes it remote.
Begin(l) ==
    /\ Due(l)
    /\ LET t == Head(line[l]) IN
        /\ t.kind = "edit" \/ (t.kind = "apply" /\ t.outcome = "writes")
        /\ running' = [running EXCEPT ![l] = t]
        /\ IF armed[t.key] = <<>>
           THEN journalled' = journalled \cup {<<t.kind, "local", t.key>>} /\ UNCHANGED armed
           ELSE /\ journalled' = journalled \cup {<<t.kind, "remote", t.key>>}
                /\ armed' = [armed EXCEPT ![t.key] = Tail(@)]
    /\ Shift(l)
    /\ UNCHANGED <<batch, edits, vain>>

\* A wrong form: a task that throws keeps its lane.
FinishOrWedge(l) ==
    /\ running[l].kind \notin {"free", "wedged"}
    /\ \E t \in {Free, [kind |-> "wedged"]} : running' = [running EXCEPT ![l] = t]
    /\ UNCHANGED <<line, armed, batch, edits, journalled, vain>>

\* The task settles, having failed or not, and the lane goes on.
Finish(l) ==
    /\ running[l] # Free
    /\ running' = [running EXCEPT ![l] = Free]
    /\ UNCHANGED <<line, armed, batch, edits, journalled, vain>>

-----------------------------------------------------------------------------
(* Settling *)

TasksOf(b, l) ==
    {t \in Range(line[l]) \cup {running[l]} : t.kind \in {"fence", "apply"} /\ t.batch = b}

\* Every application has settled, and every fence.
Settled(b) == \A l \in Book : TasksOf(b, l) = {}

\* A wrong form: one ticket is taken back, whosever it is.
ClearedAny(b, tickets) == IF tickets = <<>> THEN <<>> ELSE Tail(tickets)

\* The batch's own ticket goes, where nobody took it.
Cleared(b, tickets) == RemoveFirst(tickets, b)

\* The end of markRemote: what was not taken is taken back.
Close(b) ==
    /\ batch[b] = "open" /\ Settled(b)
    /\ armed' = [k \in Key |-> Cleared(b, armed[k])]
    /\ batch' = [batch EXCEPT ![b] = "closed"]
    /\ UNCHANGED <<line, running, edits, journalled, vain>>

-----------------------------------------------------------------------------
Next ==
    \/ \E b \in Batch, K \in (SUBSET Key) \ {{}} : \E out \in [K -> Outcome] : Open(b, K, out)
    \/ \E k \in Key : Queue(k)
    \/ \E l \in Book : RunFence(l) \/ RunSame(l) \/ Begin(l) \/ Finish(l)
    \/ \E b \in Batch : Close(b)

\* A lane runs its tasks until it has none, and a promise that is settled is
\* acted on: no write of a file hangs for ever.
Fairness ==
    /\ \A l \in Book : WF_vars(RunFence(l) \/ RunSame(l) \/ Begin(l) \/ Finish(l))
    /\ \A b \in Batch : WF_vars(Close(b))

Spec == Init /\ [][Next]_vars /\ Fairness

-----------------------------------------------------------------------------
\* What came from the peer is never pushed back to it: an application that
\* writes is journalled remote, whatever edits and other batches run between
\* (ledger.ts:549-560).
AppliesAreRemote == \A k \in Key : <<"apply", "local", k>> \notin journalled

\* No ticket lies in wait for a later edit: one that is armed belongs to a
\* batch still open (journal.ts:1100-1105).
TicketsDie ==
    \A k \in Key : \A i \in DOMAIN armed[k] : batch[armed[k][i]] = "open"

\* The reader's own edits are pushed: on a surface where every application so
\* far was queued and wrote, an edit before, between or after them is local
\* (ledger.ts:549-560).
EditsAreLocal ==
    \A k \in Key : <<"edit", "remote", k>> \in journalled => k \in vain

\* A ticket makes remote what it was armed for and nothing else, and dies with its
\* batch: also where the line is full between the two, where batches of one surface
\* overlap, and where an application fails before it begins.
TicketsServeTheirOwn == AppliesAreRemote /\ EditsAreLocal /\ TicketsDie

\* "a local edit enqueued EARLIER has already begun (and stayed local, unarmed),
\* and one enqueued LATER begins after the apply consumed the expectation"
\* (ledger.ts:553-556).  The code does not hold to it where an application
\* changes nothing: its ticket stays armed until the batch ends.
AllEditsAreLocal == \A k \in Key : <<"edit", "remote", k>> \notin journalled

\* Every call of markRemote comes to its end.
BatchesClose == \A b \in Batch : batch[b] = "open" ~> batch[b] = "closed"

=============================================================================
