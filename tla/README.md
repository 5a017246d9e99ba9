# Paper: a TLA+ model of its sync core, its circle and what keeps a library safe

Paper is a reading application: a TypeScript shelf of books with marks, cards and
reading positions (`src/src/kernel`, `src/src/app`), capabilities that extend it
(`src/src/capabilities`), and a Tauri shell with Rust plugins (`src/src-tauri`) that give it
a file system, peer to peer transport and a web host. A reader's devices keep their own
complete copy of everything and reconcile: there is no server. What makes that hard, and
what this project models, is the part where edits made on several devices, over processes
that die and links that fail, have to end up the same everywhere without losing one.

Paths below are relative to the repository root, `src/` here.

## 1. Inventory

### Sync (`src/capabilities/sync`)

| part | state | operations | hard because |
|---|---|---|---|
| hybrid logical clock (`lib/clock.ts`, `kernel/core/hlc.ts`) | floor (ms, counter), saved floor | `now`, `witness`, load, save | walls jump and rewind, stamps of others arrive in any order, the process dies between issuing and saving |
| journal (`lib/journal.ts`, `journalIndex.ts`, `journalScan.ts`, `journalDigests.ts`, `journalEntry.ts`) | `journal.jsonl`, meta, dirty flag, poison, tickets | begin, commit, ack, feed, outbox, open, close, compact | a crash between any two of: bracket, edit, commit, acknowledgement, compaction; a torn tail |
| merge (`lib/merge.ts`) | none | `mergeRecord` | must not depend on the order, grouping or number of merges |
| ledger (`lib/ledger.ts`, `protocol.ts`, `quarantine.ts`) | cursor, quarantine | hello, push, pull, download | an edit made while its older version is in flight; lost replies; an epoch that changes |
| scheduler (`lib/scheduler.ts`) | running, again, timers, backoff | kick, debounce, backstop, stop | triggers that arrive while a session runs or while a timer is due |
| status, arrivals, cover cache, backfill (`lib/status.ts`, ...) | derived | listeners | display, and caches of what the ledger already decided |

### Kernel stores (`src/kernel/core`)

| part | state | operations | hard because |
|---|---|---|---|
| write queue (`writeQueue.ts`) | per key lane of waiting tasks, running keys | run, replace, append, shared, idle | coalescing must lose no append; a failing task must not stop its lane |
| file store (`fileStore.ts`) and settings (`settings.ts`) | memory, disk, dirty, queued, health | getItem, setItem, flush | writes land later; one fails; one damaged file cannot be moved |
| library, book folders, presence, trash, marks, cards | folders on disk, stamps | add, remove, restore, edit | a removal and an edit made on two devices |

### Around them

| part | state | operations | hard because |
|---|---|---|---|
| presence register and launch recovery (`kernel/core/presence.ts`) | a register per book | note, finish pending removals | the process dies between the register and the rename it announces |
| trash (`kernel/core/bookTrash.ts`) | `trash/<book>/` | trash, restore, expire | moves file by file into an entry that exists, and undoes itself |
| data lock (`hosts/node/lock.ts`, `src-tauri/src/lock.rs`) | a lock file | acquire, reclaim, release | two processes judge one lock stale; no compare and swap |
| shutdown (`app/shutdown.ts`, `app/bootApp.ts`, `kernel/ui/shared/closeWindow.ts`, `src-tauri/src/lib.rs`) | a teardown under a bound, the shell's handshake | settle, flush, drain, abort, quiesce, ask, answer, exit | two askers, three timers and a queue that runs on |
| envelope (`kernel/core/envelope.ts`) | requests in flight | dispatch, stream, cancel, expire | a timer beside an answer beside a disconnection |
| peer capability and its Rust crate | endpoints, pairings, blobs | pair, connect, transfer | sockets and cryptography; input and output |
| circle (`capabilities/circle`) | publications and sealed boundaries; per person a file of what was received and a relationship | share, withdraw, answer, fetch, take, hide, forget, re-admit | the hash of every page served is in the next; a round spans calls, lanes and a forgetting |
| archives, public sharing, passages, voices, web host, UI, CLI | caches and pipelines | | little state that others rely on |

How they interact: every write of the library goes through the write queue, one lane per
book, and is bracketed by the journal's begin and commit on that lane. The record of a book
is in its folder; the shelf's rows are predictions of it, and `index.json` a cache of them.
Commits kick the scheduler, which runs sessions; a session reads the outbox and the feed of
the journals, merges what it is handed, and has its writes marked remote by tickets the
journal takes at begin. Stamps come from the clock, whose floor lives in the settings, which
with the cards live in the flat store. The window's close drains the queue and flushes the
index, under a bound, while the shell waits for an answer of its own; the data lock is held from before
the webview starts until the event loop ends. A session is a call of the envelope's client to the
shelf's router, over a connection that may drop, stall or come back. The circle fetches from the
devices of other people over the same envelope; what it receives is in the book's folder,
written on the book's lane, and goes into the trash and comes back with it.

### What makes each part correct

- clock: no stamp at or below one issued or witnessed; a wild peer cannot push it out of reach.
- journal: an edit the peer has not got is in the outbox, whatever died when; the digests it
  holds are those of the folders, or it says that it does not know; nobody who follows the
  feed is left behind.
- tickets: what came from the peer is not pushed back, what the reader wrote is pushed.
- merge: a join, so that order, grouping and repetition do not matter.
- session: with nothing left to push or pull both sides agree; what left the outbox arrived;
  it comes to an end.
- scheduler: there is always a next session; after stop there is none.
- write queue: one at a time, in order, nothing dropped in silence, everybody answered.
- flat store: what a flush promised is down; nothing held is forgotten; a damaged file is kept.
- shelf index: a book behind the index is noted on disk, so that the next launch is true.
- data lock: one writer; no crash leaves a lock that only a person can remove.
- shutdown: an edit made before the quit is on disk, or covered by the flag, or its possible loss
  is said; the process always ends, and what lands before it ends lands under the lock.
- presence, trash and recovery: what the reader wrote is in some copy until its stay is over; no move puts
  an older copy over the newest; a launch keeps what the reader decided, wherever the last
  process died.
- envelope: a call ends whole, or after silence, or with its connection; a slot is held by a
  request in flight and by nothing else, and given back.
- circle: a page is served as it was served first; what a reader holds is the fold of what its
  cursors passed; who is forgotten is gone, and stays gone while a round is out; who is followed is
  caught up with.

## 2. Modules

| module | models | composed of |
|---|---|---|
| `HybridClock` | clock.ts over hlc.ts and the settings store | |
| `Journal` | journal.ts with its index, scan and digests, and a peer that is pushed to and pulls | |
| `Provenance` | markRemote's tickets on the write queue's lanes | |
| `Merge` | merge.ts, as operators | |
| `Replicas` | writers of libraryStore.ts on several devices, copies in flight | `Merge` |
| `SyncSession` | runSession and the shelf's handlers about one book | `Merge` |
| `Scheduler` | scheduler.ts, timed | |
| `Envelope` | envelope.ts: a client and a router over one connection, and the slots of others, timed | |
| `Rounds` | the scheduler's sessions as calls of the envelope | `Scheduler`, `Envelope` |
| `Lines` | what a line of the queue keeps | |
| `Lanes` | what a queue of writes promises: a serial lane for each key | |
| `WriteQueue` | writeQueue.ts, which implements `Lanes` | `Lanes`, `Lines` |
| `FileStore` | fileStore.ts over an atomic but fallible disk | |
| `FlatStore` | cardStore.ts and settings.ts, two users of one flat store | `FileStore` |
| `ShelfIndex` | libraryStore.ts and bookIndex.ts: records, rows, index, marker | `Lines` |
| `Removal` | bookTrash.ts, presence.ts and the removal, restore and import of libraryStore.ts: one book, file by file | |
| `DataLock` | lock.ts and lock.rs: link, judge, move aside, put back | |
| `Shutdown` | shutdown.ts, bootApp.ts, closeWindow.ts and the exit handlers of lib.rs | |
| `CirclePublisher` | publish.ts, shelf.ts and exchange.ts: what a person publishes and the pages that serve it | |
| `CircleReader` | receive.ts, store.ts, relationships.ts, circlePort.ts and the re-admission: what a reader holds of the person | `CirclePublisher` |
| `Circle` | fetch.ts: a round between the two, and what comes between its steps | `CircleReader` |
| `AppLife` | the application among the commands that share its library | `DataLock`, `Shutdown` |
| `DeviceProofs` | the theorems of HybridClock and Journal | |
| `LibraryProofs` | the theorems of WriteQueue and ShelfIndex | |
| `PeerProofs` | the theorems of Provenance and Circle | |
| `SessionProofs` | the theorem of SyncSession | |
| `WritersProofs` | the theorems of AppLife and Replicas | |
| `...Proofs` | the theorems of the module they are named for | |
| `MC...` | values for TLC | |

**State and code.** A process that dies loses the variables that stand for closures and
keeps those that stand for files: `floor` and `kept` against `disk` in HybridClock, `mem`,
`next` and the brackets against `log`, `meta` and the flag `dirty` in Journal, `held`, `queued` and the chain
against `disk` and `file` in FileStore, `row` and `dirty` against `record`, `index` and
`marker` in ShelfIndex, `round`, `known`, `met`, `forget.pc` and `writing` against `file`, `rel` and `shared`
in Circle. One action is one synchronous stretch of the source, from an await to
the next; where the code awaits in the middle of an operation there are two actions and
whatever else is enabled may come between. Where a file operation can fail or the process can
die inside it, the action has every outcome the operation can leave: an append may leave no
line, a torn one or a whole one; a rename may have happened although the directory's sync
failed.

**Abstractions.** A digest is the newest local and remote edit a surface includes. A value of
a store is its number. A stamp of HybridClock is a time in the set of the device that issued
it; in Replicas and SyncSession it is a number whose remainder names the device (in Replicas remainder 0
is nobody's: a stamp made of a day, or by a build without a clock, at any height), and a stamp
that is issued is any number above the floor, which is what HybridClock is proved to give. SyncSession has
one book, one register and a journal reduced to what it promises: the outbox of a satchel and
the feed of the shelf. It has no marks, cards, bytes, quarantine, pages of several books or
epochs (the epoch is in Journal). In Rounds a session is one call, which stands for the
calls it makes one after the other, ending at the first that fails; the scheduler counts minutes and the
envelope seconds, so each has its own clock. Removal has one book of two files (its record and
its marks), and writes are numbered as they are made. In Shutdown an edit goes from the hook that
holds it to the queue, through its bracket, to the disk; the journal is as far open as the flag tells. The shell's question fails only where no webview is
left to hear it (lib.rs:1011). FlatStore has one list of cards and one envelope of
settings. ShelfIndex has books that stay, and its lanes take what WriteQueue shows of them
(in order, one at a time, only a push replaces a push); its drain does not wait for
`invalidateIndex`, which is not on a queue.

In Circle one reader has one log of one person: a book's, or their shelf's, which is
one log with the same pages and hashes but no registers. A page's hash is the chain of pages that leads
to it. Chain versions 1 and 2 stand for any two that carry different kinds of entries
(page.ts has three). A frame stands for the roster, the revocations and the delegation a page is
signed under; a page is refused when its frame's delegation has lapsed. Of the registers there is
one, `status`, and its value is its stamp. A review folds as a publication does. A publisher's
clock gives stamps nobody else gives. That the other side's connection goes while its handler
seals is `ServesAnother` followed by `Loses`, and `Loses` also stands for a spent budget and a roster
that moved in the reader's own peer: the round with the person ends. The writing of a file is two steps, for the record
is read once more on the lane, before it; a shelf's file shares its lane with the
relationship record, which is why `ForgetEnds` and `ReadmitOnPairing` wait for it there.

**Wrong forms.** Beside some definitions stands a wrong form: the same definition with a guard
dropped, an order swapped or a bound off by one. Nothing uses them; a property that still held
with the wrong form in place would say nothing about the definition.

## 3. Runs

`tlc -config <cfg> <module>`; every bound is a constant whose comment begins with "bound:".

| run | module, cfg | shows |
|---|---|---|
| clock | MCHybridClock, Clock.cfg | A stamp is above all that was issued or accepted on the device whose store is durable; over both stores the floor on disk never falls and no stamp is at or below it; a peer moves a clock at most `MaxAhead` past its wall. |
| journal | MCJournal, Journal.cfg | Over crashes, failed appends, torn lines and a damaged file that is rebuilt an edit the peer lacks is owed, but for a surface not written since a rebuild that was cut off halfway; the journal leaves only what it can load again, and who follows the feed passes nothing it lacks, with the same exception. Two surfaces whose brackets overlap a compaction, a close and a power cut: the digests are the folders', the flag goes down only over a folder that was certified, and an unclean open has compared every surface it can read. |
| provenance | MCProvenance, Provenance.cfg | A ticket serves the write it was armed for: no echo, no ticket outlives its batch, the reader's edits are local where every application wrote; every batch ends. |
| replicas | MCReplicas, Replicas.cfg | Devices with the same edits have the same registers; any two copies merge the same either way round; status and finished are one fact; nothing somebody stamped goes back, but a tag that was decided after a rename took its stamp. |
| session | MCSyncSession, Session.cfg | Three casts of who may do what: with nothing left to push or pull, agreement; what left the outbox arrived; every session comes to an end with nothing left. |
| rounds | Rounds, Rounds.cfg | There is always a next session, no more than a backstop away; failures climb the ladder one rung at a time; after stop nothing begins; what is owed is carried. Every session ends though no frame comes through and no handler returns, a call that ends well is whole and one given up was silent, and slots are those of requests in flight. |
| write_queue | WriteQueue, WriteQueue.cfg | The queue implements `Lanes` (one at a time, in order, nothing accepted dropped, the reader's half kept, idle is idle) and answers every write, and idle. |
| flat_store | MCFlatStore, FlatStore.cfg | What a flush promised is down for ever; memory that is not down is marked; a card that was answered as saved is in the file and a store that says persistent is; a damaged file is never written over. |
| shelf_index | MCShelfIndex, ShelfIndex.cfg | A shelf at rest is true; a drain without failures leaves nothing behind; the next launch shows what the folders hold, whenever the process before it died and whatever failed, but of the books it left half done; at rest there are none, unless a failure was repaired by nobody. |
| removal | Removal, Removal.cfg | Removals, restores, imports, edits, two failing calls, a crash anywhere, the recovery and the sweep: what the reader wrote is in some copy, the newest always; a launch keeps the reader's decision; nothing leaves the trash early. |
| life | MCAppLife, AppLife.cfg | Three commands, or the application and one: one writer; no library locked for good. The application quitting by the window, the menu or the shell: no loss without a word, an answer and a flag that mean what they say, every write of an owed edit under the lock, and an end. |
| circle | MCCircle, Circle.cfg | What a device would serve next follows what the reader took, over new builds, new rosters and other readers; the file is the fold of what the cursors passed; the forgotten are gone and what was theirs does not come back with them; who is followed is caught up with, and a hidden shelf empties. |

Some properties are conjunctions of what the module states one by one (`Certified`,
`TicketsServeTheirOwn`, `Together`, `ToldTrue`, `ShelfIsTrue`, `SignsAreTrue`, `EndsAreTrue`,
`WhenNext`, `NothingLost`, `OnTime`, `StampsAdvance`); `KeepsItsLanes`
is the specification of `Lanes` under a mapping that hides the lines, the claims and the tasks in mid-call.

**Casts.** Where a system has several actors that can each do several things, the run starts
from one of a set of *casts*: who takes part, and how often each thing happens. A cast is chosen
for each way the hazards combine, and within it every order is explored. A cast is as small as its hazard allows,
so that several fit in one run.

**Why the bounds are enough.** The hazards need few actors.

- clock: a store that is durable and one that is late, both orders of witnessing, and a counter
  that overflows (`MaxCounter` 1) inside a time that ends (`MaxMs` 3).
- journal: one fault anywhere in a bracket, a compaction or an open. One surface with two edits
  of its reader's, damaged and pushed: an acknowledgement between the two. One surface with an edit of
  each side, damaged and pulled. Two surfaces and three edits where brackets overlap a
  compaction (`CompactEvery` 4), and one more after the open, where a fault of the first process
  can still matter.
- provenance: two batches that meet on one key, and one reader's edit before, between or after; a
  lane of three places is full with two of them.
- replicas: conflict needs two devices and two edits; every pair of copies the merge can be given
  is compared besides. Of the stamps up to 4 the first and the last are one device's, the second the other's and the third nobody's:
  a legacy tag of that day is above what a clock that is at 0 gives, and below what it may.
- session: the shelf and two satchels, the fewest where a pull interleaves with another satchel's
  push; one satchel where the book comes and goes.
- rounds: debounce, retry and backstop of 1, 1 and 2 give a ladder with a rung below its ceiling; a
  stream of two frames through a buffer of one is slow without being silent (`Silence` 1); a router with
  one place is full with one.
- write queue: four writes over two keys fill a line of two and replace across it.
- flat store: two failures and one crash, so that a catch up can fail and then the process die.
- shelf index: a book whose tick waits and a book whose commit writes the index meanwhile; three failures take a
  commit past its repair to the invalidation, or a flush in the place of a commit past everybody; two
  deaths, so that what one process left half done meets what the next one does.
- removal: four writes are a removal, an import over it and a write between; two kinds of
  failing call are a move and its rollback; one crash, and a day past the stay.
- life: three commands are the fewest of which two move a third's live lock; the application
  alone over whatever was left behind, and beside one command over an empty library; one
  edit, one crash.
- circle: a page of two entries and an answer of one page, so that three entries take two pages, two
  answers and a boundary short of its room. Two devices where streams cross. One forgetting and two
  pairings, the fewest with which a person is back in the same process: the roster that
  pairings are compared with is read again at the first.

**What the runs narrow.** SyncSession's safety is claimed of *tame* casts: books are not added
while they are pulled, and a book is removed, and brought back, only by the reader of the only satchel, with the
trash emptied and no connection lost; with no removal there may be any number of satchels and losses. Outside that the devices do part (Divergences, Session), and
liveness is claimed of all casts. ShelfIndex's processes end at any moment and any operation fails, heard or not; its
properties name what they except: the books a process left *half done* (`cut`: a change on its lane, or
a record that landed and that neither the index nor the marker had), until their folder is read again,
and of `RestIsWhole` the time between a failure nobody repairs and the next write of the index (`deaf`). Each exception is one the
code makes (divergences 18 to 20), and without it TLC refutes the property. Journal's run does not restart the capability inside one process
(`Reload`), and `EditsAreOwed`, `FollowersMissNothing` and `FolderCertified` name as their exception what a rebuild
leaves that was cut off between its two steps (`stranded`, divergence 6). Removal's `AllKept` is claimed where no process dies and no call fails that leaves a part of
the book behind; `NewestKept` of everything. `OneWriter` excepts three processes of which one moved a
record that it had not judged, as lock.ts does. Circle's reader is not `hasty`: a book is not moved while its person is forgotten, and nobody is
forgotten before their pairing was looked at; `ForgottenForGood` assumes it of every cast, and the other
two theorems of Circle do not. Its `CaughtUp` is of
a person whose sealed pages' delegations live and whose devices speak one version. Each exception is
a divergence below.

**Deadlock** is looked for where the system never stops: clock, session, rounds and write queue.
Elsewhere the configurations turn it off: a run ends when its bounds are spent.

**Symmetry** is used over surfaces in Journal and books in ShelfIndex, which nothing
distinguishes and where no liveness is checked.

### Fairness

- Provenance: the lane at the head of which a task stands runs it, and a batch whose promises
  have settled closes. writeQueue.ts starts the next task in a `finally`, and `Answered` is
  checked of it.
- SyncSession: a satchel that can take a step does, and the shelf's handler ends. The first is
  the scheduler's `Carried`; the second is that an await ends, by answer or by the envelope's
  timeout (`SessionsComeAndGo`). No reader has to act, and no connection has to fail or hold.
- Rounds: armed timers fire, and the process goes on. Nothing is asked of the reader, the handler or the
  wire: where `Carried` needs that sessions go well, it says so itself.
- WriteQueue: a task that awaits gets its answer, a drain goes on, a waiting idle wakes.
- AppLife: the processes go on with the lock, and the shell with its timers. Nothing is asked of the
  webview, the disk or the journal, and processes that may be killed need not be.
- Circle: the cadence and a round go on, and so do a forgetting and a re-admission once begun. A
  call fails as often as the cast says. Nobody has to publish, to forget or to meet.
- Removal, Journal, Replicas, ShelfIndex, the clock and the flat store claim safety alone.

## 4. Proofs

`tlapm <module>` proves every obligation. The theorems hold for every value of the constants
the assumptions allow, the bounds included.

- **DeviceProofs, the clock.** Assumed: `ClockAssumption` (numbers are numbers, the late devices are
  devices). `IInv` strengthens the type invariant by *InStep* (a running clock's floor is
  what its store holds, but for one that ran past the last millisecond) and *DiskBehind* (the disk is never ahead
  of it); from that, that the floor on disk never falls. For the devices whose save is durable
  *Covered* adds that every stamp issued or witnessed is at or below the disk: neither a crash
  nor a rewound wall then gets below it, and both order properties follow. Without *Covered*
  the step after a crash could not be shown to issue above the history, which is where the late
  store fails.
- **DeviceProofs, the journal.** Assumed: `JournalAssumption`, and `~Reload`, that the journal is opened
  once in a process; otherwise `EditsAreOwed` is false (divergence 5). A rebuild that is cut off
  between the renaming of the file and the removal of meta (`stranded`) is inside the theorems, and what they
  say then is less: a surface without a line is owed by nobody, and the cursors of the old epoch
  are not vouched for (divergence 6). `JInv` begins with
  *Same*: file and index answer alike to everything that is asked of them (heads, open begins, acknowledgements,
  outbox), so what is proved of the lines on disk is known of those in memory. Then a
  step is one of three: it adds a line past all others, compacted after or not (*Fresh*), it may have
  added one and the journal is poisoned or gone (*Goes*), or it leaves the lines alone. *Debts*: a surface
  with an edit its peer lacks is in the outbox or has an open local begin, and *Pushing*:
  a push acknowledges no more than the peer was handed. So `EditsAreOwed`. *Certain*: a surface without an
  open begin that no verify pass has still to look at is what its head says; so `Certified`. *Reverts*
  (a power cut can only take a surface back from what its head says) and *Covering* (an open journal's head says no more than
  the folder holds) are for those who pull. *Followed*: a follower lacks something at or below the cursor only where the
  folder went back behind the journal (*Doubtful*), which an open has still to look at; *Epochs*: an epoch that was told is not given to a
  second file. So `FollowersMissNothing`. `WellFormed` needs all of them, since a number that is used twice would break each.
- **WritersProofs, the copies.** `MergeIsSemilattice` is about `MergeRecord` alone: commutative, associative,
  idempotent, for records that agree with themselves (*agreeing*: status and finished say
  the same). The body of the merge is not idempotent, since it makes a clock of a list of tags: where the
  three are not one record both groupings are the body of all three, and it absorbs. Then `IInv`: every record of a device and in flight agrees, a list of tags
  has no stamp that somebody gave (so that none is missed when a message is witnessed), and every stamp that somebody gave
  on a device, and every stamp a rename of its reader has taken, is at or below its floor, the latter above those of the tags it found.
  It gives agreement of status and finished, that exchanges settle, and that
  registers go forward. Assumed: `LegacyAssumption`, that a record from before the clock has stamps that
  nobody gave, of any height. `CopiesConverge` (`Converged`) needs what a copy is: *Explained*, the least record above what was said in
  the edits that went into it, in the order the merge makes of records; two such are equal.
  That an edit keeps it so needs the edit to be later than what it is written over. It is, if that was stamped by
  somebody; a legacy stamp it may be under, and then `overtaken` is set and nothing is claimed (divergence 10). A stamp in a device's name is one it gave, and
  not the one its pending rename still holds (*OwnStamps*, *Numbered*): a rename that was not overtaken writes a
  later stamp too.
- **FlatStoreProofs.** `IInv`, of the file store: values grow from the disk to what is being written to what is held,
  a store that is not dirty has nothing its last write does not have, and what a waiting flush
  wants is held, then in the snapshot of the write it waits for, then down; while a damaged file
  is in its place nothing is promised or chained. So `FlushMeansDown`, `NothingForgotten` and
  `DamagedIsKept`, for all keys and callers. The two stores over it use it as its specification
  allows: `FlatSpec => Spec`, every step of theirs mapping to one of FileStore's or to a stutter, by
  *Ahead* (the list and the envelope are never behind what the file store holds), so what holds of
  FileStore holds under both. *Told* adds where an answer comes from: a card that was answered
  as saved is in a file that was flushed; so `ToldTrue`.
- **LibraryProofs, the queue.** `Spec => KeepsItsLanes`: the queue implements `Lanes` under the mapping of
  section 3. *Filed* is what a caller sees: the writes of a key without an answer are its line,
  which rises, and its one write in flight. *OneInFlight* is why a task's first breath does no harm: a
  key is taken exactly while a write of it is in flight, and only then has it a line. Then a
  refusal counts what Lanes counts, what a drain takes next is the oldest waiting, and idle finds nothing
  unanswered. The lemma `OnlyRises` is about the filter alone: of a rising sequence it keeps
  the order and exactly what is in the set. Assumed: that `Cap` and `MaxTasks` are numbers.
- **LibraryProofs, the shelf.** Assumed: numbers, and that `NoIndex` is no index. Processes end at any
  moment, any number of operations fail, and nobody need hear of it. Of a book that no process left half done
  (`cut`): *Known*, where the index is wrong about it something waits in its lane, or it landed since the index last
  had it (`behind`); *Taken*, where the write under way is wrong about it, it waits, or landed since the write began. So what a
  process leaves when it dies is right of every book but the marker's and the half done (*Shut*), and a launch reads the
  marker's: `LoadIsTrue`. *Shown* gives `SettledIsTrue`. *Coming* is who will tell the index of a book
  that landed: a rewrite that has not taken its rows yet, or a repair or the invalidation on its way
  (`Cure`), or its place on the dirty list, or the write under way, or the marker that names it; *Missed* is why the list may be cleared when a write
  lands: what landed since is in a later push, or the generation has moved. *Noted*: the last marker on the lane names
  the whole list, and with none on the lane the one on disk does. At rest there is no cure and no lane, so what
  landed is on the list or in the marker, and so in the marker: `RestIsWhole`. *Drained* gives
  `DrainIsComplete`: while nothing has failed (*Unhurt*) the second flush of a drain finds the list empty or pushes
  last. The lemma `OnlyKeepsLast` says that a push leaves the last marker the last.
- **WritersProofs, the processes.** Of any number of processes. *LockInv* ties what each process holds to the one file they
  contend for, its moved copies and who made them; so `OneWriter`. *ExitInv* ties the webview's
  stages, the shell's flags and the lock; so `SignsAreTrue`. The two are proved of their own modules,
  then of `AppLife`, whose steps are theirs (`LifeKeepsTheProtocol`), and joined by
  `OwedLandsUnderLock`.
- **RemovalProofs.** *NewestIsAhead*: the newest thing written into a file is in the live copy if there is
  one and else in the trashed one, whatever dies or fails. *Whole*: without a crash and without a fault
  that leaves a part behind, nothing is in both folders while a removal runs, so nothing is
  put aside. *Decided*: the register's stamp says on which side of the reader's last
  decision a record is. *Stamped*: what the sweep listed was a whole stay old. So `NothingLost`,
  `LaunchKeepsTheDecision` and `KeptItsStay`. Assumed, besides that the bounds are numbers: that the
  two marks `None` and `Due` are not data.
- **RoundsProofs.** Three parts. *The calls*: `FramesInv` follows a connection that keeps order: which
  frames can be on the wire and in which buffer, for each place a call can be in (*OnTheWire*,
  *Connected*, *Cleared*, *Asked*). The frames of a stream that were taken, that wait and that travel
  are together those that were sent (*Counted*, *WholeStream*), which takes the lemmas about
  counting in a sequence. *Within* and *OnePeriod* keep the quiet of a call below its bound until
  it is given up. So `EndsAreTrue`, for streams of any length. *The timers*: `TimersInv` has armed
  timers run within their periods, one always armed between sessions, and what waits plus
  what the backstop has left within one period; so `OnTime`. *Climbs*: the delay after a
  failure is that of its rung, by induction over the rungs, for which the recursion of the ladder
  is proved to have a solution; so `WhenNext`. *Together*: a step of Rounds is a step of each of its two
  modules or a stutter, so the theorem about calls holds of the scheduler's sessions.
- **PeerProofs, the tickets.** About what stands on one key's lane. A fence and its application are queued in
  one block, so nothing of their key comes between them: an application stands behind its
  own fence, or its ticket is armed and it is the first of its key (*BehindItsFence*); then what
  begins in between can take no ticket of the key. A ticket is armed once, for a batch that is
  open (*ArmedOnce*, *OnItsLane*). Where every application was queued and wrote, each fence
  has its own application next, and an armed ticket is the only one (*EachIsUsed*): that is why the
  reader's edits stay local, and where it fails, on a key of `vain`, they need not (divergence 2).
  So `TicketsServeTheirOwn`, for any books and batches, with lanes that are full or not.
  The lemmas are about a finite set in some order, a line cut at its bound, and the one ticket taken
  out of a sequence. Assumed: numbers, that a key is of a book and a surface, and that the surfaces
  in play are finitely many.
- **PeerProofs, the circle.** Assumed: `PublisherAssumption` and `CircleAssumption` (bounds that are numbers, a
  publication there is, a person with a device). The publisher first. `NextSeqIs` and `SealFreshIs` say
  what a number minted anew and a page sealed anew are past; so a store only *Grows*: its
  log keeps every entry's number, what is sealed stays sealed, and what is new has a number past every
  boundary, and so is on no page that was served. *WellKept* is what that takes: entries numbered
  once from 1 on, boundaries that follow each other, and *Covered*, that an entry at or below a boundary is
  on a page. Then the reader: *Follows*, the head it holds is the beginning of the chain, and its
  cursor the end of that head's last page; hence `ChainsHold`. *WellHeld* ties the fold to the cursors: taken back
  is at least what was passed and at most what was ever taken back by anyone, what is drawn has its row's
  device for a source (so a stream that is dropped takes along just what came by it), and of the words
  the newest stands. It is kept by every batch (`TakePagesHolds`, over the pages one by one), by a switch of version, by a
  stream that is dropped and by the lane; hence `FoldsAsOne`. The lemmas beneath are about pages: the entries
  of a set have ranks, one of each (`RankOnto`), so `Paginate` puts each on one page, and the pages in order.
  `Forgotten` has an invariant of its own. *Epochs*: what is held, in the file or by the round that
  is out, was taken in an epoch past the last purge, unless the round's own epoch is not past
  it, and then the lane refuses it; a write under way is of an epoch that is. *LetGo*: while a person is
  being forgotten the record says exited and no pairing re-admits them, and every place of the
  book is on the list. The run's invariants and these were checked by TLC over the casts of the run before.

- **SessionProofs.** Assumed: `SyncSessionAssumption` (a number of satchels, and casts that are casts), and `Tame`,
  as `Together` says itself. `Per(s)` is of one satchel, in one part for each place its session can be in.
  *Word* and *AtAck*: what a push has handed over, the shelf has, or later news, by the time that it
  answers, and the shelf's word on the book's place is that of the satchel's register, unless the reader
  has spoken since (*Told*, *Gone*); so what is cleared from the outbox had arrived. *AtPage*: a page holds the shelf's record
  as long as the feed has not grown past the window (*Whole*), because nothing changes the shelf's record without
  an entry in its feed (*Shelved*): a satchel whose cursor is at the head is *Level* with the shelf. The shelf's register is never
  past the satchel's (*Base*), so a restore is never refused and a pulled removal is no news. *Pending* is
  of the pushes whose session is gone: with no removals they do no more than merge. Where books are removed
  on the shelf as well, `Base` fails at the first removal there, and so do the claims (divergences 7 and 8). That `Tame` has to
  name the readers who bring a book back is what the attempt with less showed: TLC refutes `Together` in a cast
  whose shelf's reader opens the book that the satchel removed.

Only model-checked: SyncSession's `TypeOK` past what `Together` needs, Circle's `Forgotten` with a hasty
reader (where it is false: divergences 35 and 39), Journal with `Reload = TRUE`, and all that is
said of liveness (`BatchesClose`, `Settles`, `Carried`, `SessionsComeAndGo`, `Answered`,
`NeverLockedForGood`, `QuitEnds`, `CaughtUp`), which is out of the prover's reach together with
ENABLED. Every module that keeps state has its type invariant beside its
variables, but for Lanes, an abstract specification, and AppLife, whose one variable never
changes. They hold in the configurations of the runs, which list none of them: the theorems
that need them prove them, and the others wait for theirs.

## 5. Divergences

Where a comment, a doc or a test says what the code does not do. Each is reproduced by its
definition in the named module, put into the module's own configuration with the change
given; the ones without a definition are read from the source.

**Clock.**

1. `NeverIssuedTwice` (property; `Device = {d1}`, `Late = {d1}`, `MaxCalls <- ThreeCalls`). The
   floor is saved to a store that writes later (sync/index.ts:771), so a crash reissues a stamp
   (clock.ts:24-26).

**Journal and tickets.**

2. `AllEditsAreLocal` (Provenance). A ticket that nothing consumes waits for the whole batch
   (journal.ts:1138-1140; ledger.ts:553-556 says otherwise): an application that answers by identity
   writes nothing, and an edit of the same surface before the batch ends takes its ticket, is
   journalled remote and is not offered.
3. `OpensShort` (Journal). `open` calls `compactIfOvergrown` eight lines before `opened`, which makes
   it throw and be swallowed (journal.ts:982; :978-981).
4. `NothingInvisible` (Journal). Compaction keeps no key's last commit with a digest
   (journal.ts:1225), and the verify pass skips a key without one (journal.ts:654-663).
5. `EditsAreOwed` with `Reload = TRUE` (Journal). A restart of the capability inside a bracket: the
   next open answers the begin before the write lands, which is then owed to nobody
   (services.ts:435; :413-416).
6. `BaselineIsComplete`, and without their exceptions `EditsAreOwed`, `FolderCertified` and `FollowersMissNothing`
   (Journal). A file that is refused is renamed, then meta is removed and the failure
   swallowed (journal.ts:951-952). A process that ends in between leaves a meta that says ready: the next open
   bootstraps nothing, so what was in the folders is owed by nobody, and it numbers from
   that meta on under the epoch the peers follow (journal.ts:896-898: "the epoch a peer may learn is the epoch
   of a complete baseline"; :944: "the rebuild mints a NEW EPOCH").

**Session, merge and scheduler.**

7. `AllAgree` (SyncSession). A book re-added on the shelf does not come back (ledger.ts:1277; :918
   says "the record says it lives"): a satchel whose register calls the book removed drops the
   row, though that removal was the shelf's own.
8. `RemovalStands` (SyncSession; `Casts <- ShelfRemoves`). handlePush reads the register before the
   fence: a removal in between is undone under a fresh stamp (ledger.ts:808; ledger.test.ts:854).
9. `OneStampOneValue` (SyncSession; `Casts <- Restored`). A pushed restore is folded into the
   trashed record by the fold for a file's own account of itself: the older position under the
   newer stamp (ledger.ts:625; bookFolder.ts:1472-1474).
10. `EditsGoForward`, and `Converged` without its condition (Replicas). "A local edit made after applying such state must
    still beat it" (ledger.ts:513-515). A rename takes one stamp for the whole shelf
    before the first book and writes it over later ones (libraryStore.ts:1967). And the tags of a record from before
    the clock are read as stamped at the day it was added (bookFolder.ts:122-143; hlc.ts:79-91), which no clock is told of: a
    tag taken off by a device whose wall is behind that day is written under an older stamp. The device that took
    it off shows it gone, the others keep it, and after the next exchange so does that one.
11. A follow-up session leaves the debounce armed, which starts a third for a write that was
    carried (scheduler.ts:223; :197-199). It costs an empty session.

**Stores.**

12. `SupersededIsSaved` (WriteQueue). A replaced write is answered as saved, and the one that
    replaced it may fail (writeQueue.ts:205).
13. `SeedsOnce` (FileStore, by MCFlatStore; `MaxCrashes = 2`). After a damaged file was moved aside the
    next launch finds no file, takes it for a first run and seeds the browser's old values
    (fileStore.ts:150; :30, :87).
14. `SettingsRecover` (FlatStore). The settings stay session-only after one throw although the store
    under them has recovered (settings.ts:444; fileStore.ts:247-250).
15. `TimerIsTheCeiling` (ShelfIndex). A flush that is shared disarms the timer armed since it began
    (libraryStore.ts:954; :614-618).
16. `IndexIsSecond` (ShelfIndex). The index takes the predicted rows of other books
    (libraryStore.ts:912; bookIndex.ts:16-18).
17. `RowsOnlyGrow` (ShelfIndex). A landed record goes over the row a later change predicted
    (libraryStore.ts:1098; :862-864).
18. `NeverALostPosition`, and `LoadIsTrue` of the books in `cut` (ShelfIndex). The second tick of a
    dirty book is answered while the first one's marker waits (libraryStore.ts:937;
    bookIndex.ts:43-44); and a process that dies between any record and the marker or index write behind it
    leaves an index that launches trust until the book is written again (libraryStore.ts:1099).
19. `RestIsWhole` without `OnlyMarked` in `MarkerWritten` (ShelfIndex). A launch that could not rewrite the index
    hands over an empty dirty list, and its first tick writes over the marker that was kept
    (libraryStore.ts:938; bookIndex.ts:588).
20. `RestIsWhole` without `~deaf` (ShelfIndex). A flush replaces a commit's index write,
    which is answered; when the flush fails nobody repairs (libraryStore.ts:946;
    bookIndex.ts:691-701). Or the last resort fails, and the handler that is to say so
    (libraryStore.ts:1162-1169) never runs, for invalidateIndex catches its own failure (bookIndex.ts:708).

**Trash and presence.**

21. `HighlightsWait` (Removal; `MaxStamp = 5`, `MaxFaults = 0`). trashBook deletes what it displaced once its moves are
    done, as redundant (bookTrash.ts:175-182), but the recovery at launch calls it over a folder
    that an interrupted import made, and the displaced marks are the only ones. bookTrash.ts:14-17:
    "A reader who removes a book and adds it again finds their highlights waiting".
22. The stamp written over an existing trash entry is written with best effort: when it fails the old stamp
    stands, and the sweep takes the entry early (`unstamped` in `KeptItsStay`).
23. One failed rescue, bring-back or put-back leaves a part of the book in the trash; the next removal
    writes over it (the exception in `AllKept`).
24. restoreBook's removeDir takes the `.displaced` copies along, which a comment says age out.
25. presence.ts speaks of "a record NEWER than the removal" as a re-add racing a crash; such a record comes
    only from a removal that failed and whose register could not be written either.

**Lock and shutdown.**

26. `EvidenceIsLeft` (AppLife). A release that read its own record removes the next one's, and what was
    moved aside is put back: two writers and no file left that says so (lock.ts:520-527).
27. `LaunchQuitIsClean` (AppLife). A quit while sync opens its journal is answered at once and
    the flag stays (bootApp.ts:340-350, 597-606).
28. An edit made after the drain's idle lands without a bracket and under no flag, and nothing
    says so; `SignsAreTrue` is of the edits made before the teardown.
29. The warning that a teardown failed is written after the diagnostics were flushed; a close that is held
    says so to the console only; a callback that throws before the close is swallowed.
30. A window whose destruction failed keeps a button that does nothing, though the menu's quit works.
31. The webview may write after the shell has let the lock go (`RunEvent::Exit`); `LandsUnderLock`
    excepts it where something was said.

**Circle.**

32. `LateReadersCatchUp` (property; one device, `publish` 1, `serve` 1, `reframe` 1, `lapse` 1). A sealed page keeps the delegation it was first
    served with. Ninety days later a new follower is refused page one, and every page after it, on
    every round: renewing the delegation (identity.ts, `RENEW_AT`) does not reach a page that is sealed.
33. `MixedCatchUp` (property; two devices that speak 1, `publish` 3, `upgrade` 1, `MaxAnswers = 1`, `PageRoom = 1`, three
    publications). Where a person's devices speak different versions the reader's heads and cursors start over
    at each of them, every round (receive.ts:269-271): a log longer than `MAX_ANSWERS_PER_LOG`
    answers is never fetched whole (fetch.ts:119).
34. `MetIsAdmitted` (property; one device, `publish` 1, `forget` 1, `meet` 1). "Meeting them again is a pairing, and that is what
    re-admits them" (circlePort.ts:444-445); the roster that a pairing is compared with still has who
    was forgotten, until another pairing or a restart (index.ts:788-791).
35. `Forgotten` with `hasty` and a `move` beside a `forget` and a `meet`. The books on the shelf and
    those in the trash are listed one after the other (index.ts:1058-1064): one that is moved between is in
    neither, and the person's file stays, which relationships.ts:104-110 says is purged.
36. `CaughtUp` with two devices that hide a shelf (`hide` 1, `publish` 2, `upgrade` 2 from version 1). The switch of version drops the cursor of the
    device that hides, so it is never probed and its rows stay (fetch.ts:634-636).
37. The purge takes the cursor along, so a person met again sends their old log once more and it is drawn
    under the new epoch, which the comment on `drawsEntry` (relationshipState.ts) denies; while a
    crash between the exit and the purge leaves rows of the old epoch that are never drawn nor fetched
    again.
38. A boundary from before its roster was recorded is pinned when it is served (publish.ts:816-825)
    but written down only with a new boundary (exchange.ts:422).
39. `Forgotten` with `hasty` (one device, `publish` 1, `forget` 2, `meet` 1, `restart` 1). The re-admission
    reads the relationship when it comes to look at a pairing (index.ts:788-797). A person who is met and forgotten
    again before that is re-admitted after the exit was written, while the purge goes on and the peer
    forgets them: the record stays admitted, and a round that begins before the peer has forgotten
    writes behind the purge. "NOTHING IS PURGED UNTIL THE EXIT IS THE RECORD THAT
    STANDS" (circlePort.ts:447) is said of the moment of the exit only.

## 6. Not modelled

Each component of `PROJECT.json` without a module says why. In short: sockets, cryptography,
parsing, rendering, full text and speech are input and output over the stores modelled here.
Of what is modelled: uploads, grants and refused frames of the envelope; the merge of marks,
quarantine and several books in a session; books that come and go in the shelf's index; the circle's
lists, covers, other registers and switches, its budgets' ledger, the matching of works, and the merge of
relationships between a reader's own devices.

## 7. Plan

The order the modules were written in: clock, journal, provenance, merge and replicas, session,
scheduler, write queue, file store and its two users, shelf index; then the lock, the shutdown and
their composition, removal, the envelope under the scheduler, lanes, the circle.

To model next: the circle's lists and its covers; the merge of relationships; marks and a second book in SyncSession, with
quarantine; books added and removed in ShelfIndex; the switch of the peer's transport (p2pSwitch.ts).

The abstract specifications still worth stating: a durable cell
that FileStore implements, and an exactly-once outbox that Journal implements.
