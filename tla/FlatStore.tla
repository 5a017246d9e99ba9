----------------------------- MODULE FlatStore -----------------------------
(***************************************************************************)
(* The two stores that live in the flat file, over FileStore: the cards     *)
(* (src/src/kernel/core/cardStore.ts), which wait for the bytes and catch   *)
(* up after a failure, and the settings (src/src/kernel/core/settings.ts),  *)
(* which do not wait and give up at the first throw.                        *)
(* The n-th list of cards is n, and so is the n-th envelope of settings.    *)
(***************************************************************************)
EXTENDS FileStore

CONSTANTS cards, settings

ASSUME FlatStoreAssumption ==
    {cards, settings} \subseteq Key /\ cards # settings /\ cards \in Caller

VARIABLES
    up,       \* the stores are built
    list,     \* all, of the card store
    stale,    \* its dirty: memory is ahead of the disk
    cardsOk,  \* its persistent
    step,     \* its task: "idle", "begin", "flush", "commit"
    saved,    \* the newest list a caller was told is saved (history)
    prefs,    \* values, of the settings
    prefsOk   \* their persistent

clients == <<up, list, stale, cardsOk, step, saved, prefs, prefsOk>>
allVars == <<vars, clients>>

AllTypeOK ==
    /\ up \in BOOLEAN /\ stale \in BOOLEAN /\ cardsOk \in BOOLEAN /\ prefsOk \in BOOLEAN
    /\ list \in Nat /\ saved \in Nat /\ prefs \in Nat
    /\ step \in {"idle", "begin", "flush", "commit"}
    /\ up => phase = "open"
    /\ step # "idle" => up
    /\ step = "flush" <=> \E call \in calls : call.by = cards

FlatInit ==
    /\ Init
    /\ up = FALSE /\ list = 0 /\ stale = FALSE /\ cardsOk = FALSE /\ step = "idle" /\ saved = 0
    /\ prefs = 0 /\ prefsOk = FALSE

\* What getItem answers the stores that are built.
Kept(k) == held[k]

\* createCards and createSettingsStore, once the file store is there.
Boot ==
    /\ ~up /\ phase = "open"
    /\ up' = TRUE
    /\ list' = Kept(cards) /\ stale' = FALSE /\ cardsOk' = TRUE
    /\ prefs' = Kept(settings) /\ prefsOk' = TRUE
    /\ UNCHANGED <<vars, step, saved>>

-----------------------------------------------------------------------------
(* Cards *)

\* A wrong form: a change that decides nothing never writes.
NothingToWriteOnIdentity(change) == ~change

\* A mutation that returns its input has nothing to write while the disk is
\* not behind.
NothingToWrite(change) == ~change /\ ~stale

\* applyCards: the task's turn has come.
Apply(change) ==
    /\ up /\ step = "idle" /\ (change => list < MaxSets)
    /\ list' = IF change THEN list + 1 ELSE list
    /\ IF NothingToWrite(change)
       THEN saved' = list /\ UNCHANGED step
       ELSE step' = "begin" /\ UNCHANGED saved
    /\ UNCHANGED <<vars, up, stale, cardsOk, prefs, prefsOk>>

\* persist's catch: the caller is told.
Rejected == step' = "idle" /\ stale' = TRUE /\ cardsOk' = FALSE /\ UNCHANGED saved

\* persist: after setItem it waits for the flush.
AwaitsFlush == "flush"

\* recorded: the journal takes the begin, or refuses it; then setItem and the
\* call of flush, in one breath.
Write(begun) ==
    /\ step = "begin"
    /\ IF ~begun THEN Rejected /\ UNCHANGED vars
       ELSE IF Refuses THEN Rejected /\ SetItem(cards, list)
       ELSE /\ SetAndFlush(cards, list, cards)
            /\ step' = AwaitsFlush
            /\ UNCHANGED <<stale, cardsOk, saved>>
    /\ UNCHANGED <<up, list, prefs, prefsOk>>

\* The journal takes the commit, or refuses it.
Commit(ok) ==
    /\ step = "commit"
    /\ IF ~ok THEN Rejected
       ELSE step' = "idle" /\ stale' = FALSE /\ cardsOk' = TRUE /\ saved' = list
    /\ UNCHANGED <<vars, up, list, prefs, prefsOk>>

-----------------------------------------------------------------------------
(* Settings *)

\* set with a new value: persist writes what memory holds after the change, and
\* a throw makes this a store for the session.
Change ==
    /\ up /\ prefs < MaxSets
    /\ prefs' = prefs + 1
    /\ IF prefsOk
       THEN SetItem(settings, prefs') /\ prefsOk' = ~Refuses
       ELSE UNCHANGED <<vars, prefsOk>>
    /\ UNCHANGED <<up, list, stale, cardsOk, step, saved>>

-----------------------------------------------------------------------------
\* The file store on its own: the answer to the cards' flush is theirs, and
\* what the environment loses was not for the cards to save.
Beneath ==
    /\ Behind
    /\ up' = (up /\ phase' # "closed")
    /\ IF phase' = "closed" THEN step' = "idle" /\ stale' = FALSE /\ cardsOk' = FALSE
       ELSE IF step = "flush" /\ ~\E call \in calls' : call.by = cards
       THEN IF Raises THEN step' = "idle" /\ stale' = TRUE /\ cardsOk' = FALSE
                      ELSE step' = "commit" /\ UNCHANGED <<stale, cardsOk>>
       ELSE UNCHANGED <<step, stale, cardsOk>>
    /\ saved' = IF \/ file = "good" /\ file' = "damaged"
                   \/ phase = "closed" /\ phase' # "closed" /\ file = "absent" /\ held'[cards] < saved
                THEN 0 ELSE saved
    /\ IF phase' = "closed" THEN list' = 0 /\ prefs' = 0 /\ prefsOk' = FALSE
       ELSE UNCHANGED <<list, prefs, prefsOk>>

FlatNext ==
    \/ Beneath
    \/ Boot
    \/ \E change \in BOOLEAN : Apply(change)
    \/ \E begun \in BOOLEAN : Write(begun)
    \/ \E ok \in BOOLEAN : Commit(ok)
    \/ Change
    \/ \E c \in Caller \ {cards} : Flush(c) /\ UNCHANGED clients

FlatSpec == FlatInit /\ [][FlatNext]_allVars

-----------------------------------------------------------------------------
(* Properties *)

\* What the next launch would find of k.
Loadable(k) == IF file = "good" THEN disk[k] ELSE IF file = "absent" THEN Legacy[k] ELSE 0

\* A caller who was told its cards are saved finds them after any crash, a
\* retry that changed nothing included (cardStore.ts:220).
SavedIsDown == saved <= Loadable(cards)

\* The cards' flag is honest: between two writes, a store that says it is
\* persistent has its list in the file (cardStore.ts:40).
CardsAreHonest == up /\ step = "idle" /\ cardsOk => list <= Loadable(cards)

Quiet == ~dirty /\ done = chained

\* A settings store that says it is persistent over a healthy store has its
\* values in the file once nothing is under way.
SettingsAreHonest == up /\ prefsOk /\ Quiet /\ ~failed => prefs <= Loadable(settings)

\* Neither store says it is persistent of what the file does not have.
FlagsAreHonest == CardsAreHonest /\ SettingsAreHonest

\* What a caller is told of its cards or settings is so.
ToldTrue == SavedIsDown /\ FlagsAreHonest

\* A store that fails once can recover (fileStore.ts:247): over a healthy store,
\* with nothing under way, the file has the reader's settings.  The code does not
\* hold to it: the settings give up at the first throw.
SettingsRecover == up /\ Quiet /\ ~failed => prefs <= Loadable(settings)

=============================================================================
