------------------------------ MODULE Shutdown ------------------------------
(***************************************************************************)
(* How the application ends: the teardown of src/src/app/shutdown.ts, asked *)
(* for by the window's button (kernel/ui/closeWindow.ts) and by the shell   *)
(* (mod shutdown of src/src-tauri/src/lib.rs), each with a timer of its own, *)
(* against the edits that are still on their way to the disk and to the     *)
(* sync journal.                                                           *)
(*                                                                         *)
(* A timer may run out as soon as it is armed: nothing here rests on which  *)
(* of the three bounds is the shorter.  An edit has a lane to itself; what  *)
(* a lane does is in WriteQueue, what a journal does in Journal.  Flushes   *)
(* registered by the editors do not throw, and the shell's question fails   *)
(* only where there is no webview to hear it.                              *)
(***************************************************************************)
EXTENDS Integers, FiniteSets

CONSTANTS Edit

VARIABLES
    stage,     \* stage[e]: how far it came
    owed,      \* the edits made before a teardown began
    phase,     \* runTeardown: the step it is in
    failed,    \* failures.length > 0
    said,      \* is there a line about what did not finish, anywhere?
    journal,   \* the sync journal and the recorder that is bound to it
    flag,      \* journal.dirty
    window,
    shell,
    doneSeen   \* DONE_SEEN: the webview has answered

exitVars == <<stage, owed, phase, failed, said, journal, flag, window, shell, doneSeen>>

\* An edit waits in an editor, in a copy, on a lane; it has a bracket or none while
\* it is written; it is down, and then the journal has it, or never will.
Stage == {"none", "held", "copying", "queued", "begun", "bare", "down",
          "journalled", "orphan", "unjournalled"}

Phase == {"idle", "flush", "settle", "drain", "abort", "quiesce", "answer", "done"}

\* "sweep" and "swept": a journal whose opening outlived the abort.
JournalState == {"opening", "open", "closing", "closed", "sweep", "swept"}

ExitTypes ==
    /\ stage \in [Edit -> Stage] /\ owed \subseteq Edit
    /\ phase \in Phase
    /\ journal \in JournalState
    /\ window \in {"open", "closing", "stuck", "gone"}
    /\ shell \in {"up", "asked", "listens", "heard", "finished", "exit", "gone", "killed"}
    /\ {failed, said, flag, doneSeen} \subseteq BOOLEAN

ExitInit ==
    /\ stage = [e \in Edit |-> "none"] /\ owed = {}
    /\ phase = "idle" /\ failed = FALSE /\ said = FALSE
    /\ journal = "opening" /\ flag = FALSE
    /\ window = "open" /\ shell = "up" /\ doneSeen = FALSE

\* The webview runs.
Alive == window # "gone" /\ shell \notin {"gone", "killed"}

Bound == journal = "open"

Moves(e, s) == stage' = [stage EXCEPT ![e] = s]

ExitRest == <<phase, failed, said, window, shell, doneSeen>>

-----------------------------------------------------------------------------
(***************************************************************************)
(* Edits.                                                                  *)
(***************************************************************************)
\* The shelf is drawn once the capabilities are composed.
Make(e) ==
    /\ Alive /\ stage[e] = "none" /\ journal # "opening"
    /\ \E s \in {"held", "copying", "queued"} : Moves(e, s)
    /\ owed' = IF phase = "idle" THEN owed \cup {e} ELSE owed
    /\ UNCHANGED <<journal, flag>> /\ UNCHANGED ExitRest

\* The editor hands it over, or the copy has let go of it.
HandOver(e) ==
    /\ Alive /\ stage[e] \in {"held", "copying"}
    /\ Moves(e, "queued")
    /\ UNCHANGED <<owed, journal, flag>> /\ UNCHANGED ExitRest

\* routedRecorder.begin: the journal's, or the one that records nothing.
Bracket(e) ==
    /\ Alive /\ stage[e] = "queued"
    /\ Moves(e, IF Bound THEN "begun" ELSE "bare")
    /\ UNCHANGED <<owed, journal, flag>> /\ UNCHANGED ExitRest

Land(e) ==
    /\ Alive /\ stage[e] \in {"begun", "bare"}
    /\ Moves(e, IF stage[e] = "begun" THEN "down" ELSE "unjournalled")
    /\ UNCHANGED <<owed, journal, flag>> /\ UNCHANGED ExitRest

\* routedRecorder.commit: to the recorder that issued the begin, or to nobody.
Commit(e) ==
    /\ Alive /\ stage[e] = "down"
    /\ Moves(e, IF Bound THEN "journalled" ELSE "orphan")
    /\ UNCHANGED <<owed, journal, flag>> /\ UNCHANGED ExitRest

-----------------------------------------------------------------------------
(***************************************************************************)
(* The teardown: one, however many ask.                                    *)
(***************************************************************************)
\* Everything that is held is handed over before the first wait.
BeginTeardown ==
    IF phase = "idle"
    THEN /\ phase' = "flush"
         /\ stage' = [e \in Edit |-> IF stage[e] = "held" THEN "queued" ELSE stage[e]]
    ELSE UNCHANGED <<phase, stage>>

TeardownRest == <<owed, window, shell>>

\* The diagnostics' file is written, or that fails.
Flushed ==
    /\ Alive /\ phase = "flush"
    /\ phase' = "settle"
    /\ failed' \in {failed, TRUE}
    /\ UNCHANGED <<stage, said, journal, flag, doneSeen>> /\ UNCHANGED TeardownRest

\* settleBeforeDrain: every copy has stopped.
Settled ==
    /\ Alive /\ phase = "settle"
    /\ \A e \in Edit : stage[e] # "copying"
    /\ phase' = "drain"
    /\ UNCHANGED <<stage, failed, said, journal, flag, doneSeen>> /\ UNCHANGED TeardownRest

\* A wrong form: what is begun is left to itself.
IdleOnceBegun == \A e \in Edit : stage[e] # "queued"

Idle == \A e \in Edit : stage[e] \notin {"queued", "begun", "bare", "down"}

\* services.drain; the shelf's index and the flat file are attempted as well, and
\* may fail.
Drained ==
    /\ Alive /\ phase = "drain"
    /\ Idle
    /\ phase' = "abort"
    /\ failed' \in {failed, TRUE}
    /\ UNCHANGED <<stage, said, journal, flag, doneSeen>> /\ UNCHANGED TeardownRest

BoundFailure == TRUE

\* The one bound over both; what it was waiting for goes on.
BoundRunsOut ==
    /\ Alive /\ phase \in {"settle", "drain"}
    /\ phase' = "abort"
    /\ failed' = BoundFailure
    /\ UNCHANGED <<stage, said, journal, flag, doneSeen>> /\ UNCHANGED TeardownRest

\* sync's stop: the recorder is unbound, and the close is queued, in one go.  A
\* journal that is still opening has no close to call.
Abort ==
    /\ Alive /\ phase = "abort"
    /\ phase' = "quiesce"
    /\ journal' = IF Bound THEN "closing" ELSE journal
    /\ UNCHANGED <<stage, failed, said, flag, doneSeen>> /\ UNCHANGED TeardownRest

\* journalClosed: of the close that was asked for, if one was.
Quiet == journal # "closing"

Quiesced ==
    /\ Alive /\ phase = "quiesce"
    /\ Quiet
    /\ phase' = "answer"
    /\ said' = (said \/ failed)
    /\ UNCHANGED <<stage, failed, journal, flag, doneSeen>> /\ UNCHANGED TeardownRest

\* Always; an answer that cannot be sent is said.
Answer ==
    /\ Alive /\ phase = "answer"
    /\ phase' = "done"
    /\ \/ doneSeen' = TRUE
          /\ shell' = (IF shell = "listens" THEN "heard" ELSE shell)
          /\ UNCHANGED said
       \/ said' = TRUE /\ UNCHANGED <<doneSeen, shell>>
    /\ UNCHANGED <<stage, owed, failed, journal, flag, window>>

-----------------------------------------------------------------------------
(***************************************************************************)
(* The journal.                                                            *)
(***************************************************************************)
Aborted == phase \in {"quiesce", "answer", "done"}

\* It puts its flag up; one that opened after the abort is swept at once.
JournalOpens ==
    /\ Alive /\ journal = "opening"
    /\ journal' = IF Aborted THEN "sweep" ELSE "open"
    /\ flag' = TRUE
    /\ UNCHANGED <<stage, owed>> /\ UNCHANGED ExitRest

\* The brackets that have a begin and no end.
LeftOpen == {e \in Edit : stage[e] \in {"begun", "down", "orphan"}}

Dangling == LeftOpen # {}

\* Behind every append; the flag stays while a bracket has no end.
JournalCloses ==
    /\ Alive /\ journal \in {"closing", "sweep"}
    /\ journal' = IF journal = "closing" THEN "closed" ELSE "swept"
    /\ \/ flag' = Dangling /\ UNCHANGED said
       \/ UNCHANGED flag /\ said' = TRUE
    /\ UNCHANGED <<stage, owed, phase, failed, window, shell, doneSeen>>

-----------------------------------------------------------------------------
(***************************************************************************)
(* The window and the shell.                                               *)
(***************************************************************************)
\* createCloseSequence runs once.
PressClose ==
    /\ Alive /\ window = "open"
    /\ window' = "closing"
    /\ BeginTeardown
    /\ UNCHANGED <<owed, failed, said, journal, flag, shell, doneSeen>>

\* The teardown is over, or has held the window for long enough; the window is
\* destroyed, or cannot be.
WindowCloses ==
    /\ Alive /\ window = "closing"
    /\ said' = (said \/ phase # "done")
    /\ window' \in {"gone", "stuck"}
    /\ UNCHANGED <<stage, owed, phase, failed, journal, flag, shell, doneSeen>>

ShellRest == <<owed, failed, journal, flag, window, doneSeen>>

\* Wrong forms: a second request passes out during the handshake; the handshake's
\* own is absorbed with the others.
SecondPasses == shell # "up"

NonePasses == FALSE

\* exit_action: which request is let through.
Passes == shell = "finished"

Defers == shell = "up"

\* The reader quits, or the last window is gone: the request is deferred, absorbed,
\* or passes, as the handshake's own does.
ExitRequested ==
    /\ shell \in {"up", "asked", "listens", "heard", "finished"}
    /\ shell' = CASE Defers -> "asked" [] Passes -> "exit" [] OTHER -> shell
    /\ UNCHANGED <<stage, phase, said>> /\ UNCHANGED ShellRest

\* must_ask: nothing, of a webview that has answered; else it listens, and asks,
\* which may fail when no webview is there to ask.
Ask ==
    /\ shell = "asked"
    /\ \/ /\ doneSeen \/ ~Alive
          /\ shell' = "finished" /\ UNCHANGED <<phase, stage>>
       \/ /\ ~doneSeen
          /\ shell' = "listens"
          /\ IF Alive THEN BeginTeardown ELSE UNCHANGED <<phase, stage>>
    /\ UNCHANGED said /\ UNCHANGED ShellRest

Heard ==
    /\ shell = "heard"
    /\ shell' = "finished"
    /\ UNCHANGED <<stage, phase, said>> /\ UNCHANGED ShellRest

GraceRunsOut ==
    /\ shell = "listens"
    /\ shell' = "finished"
    /\ said' = TRUE
    /\ UNCHANGED <<stage, phase>> /\ UNCHANGED ShellRest

\* The process is gone, and its memory with it.
Forgets ==
    /\ phase' = "idle" /\ failed' = FALSE /\ doneSeen' = FALSE
    /\ window' = "gone" /\ journal' = "closed"

\* RunEvent::Exit has been handled.
Ends ==
    /\ shell = "exit"
    /\ shell' = "gone"
    /\ Forgets
    /\ UNCHANGED <<stage, owed, said, flag>>

Killed ==
    /\ shell \notin {"gone", "killed"}
    /\ shell' = "killed"
    /\ Forgets /\ said' = FALSE /\ owed' = {}
    /\ stage' = [e \in Edit |-> IF stage[e] \in {"held", "copying", "queued", "bare"} THEN "none" ELSE stage[e]]
    /\ UNCHANGED flag

-----------------------------------------------------------------------------
EditSteps == \E e \in Edit :
    \/ Make(e) \/ HandOver(e) \/ Bracket(e) \/ Land(e) \/ Commit(e)

TeardownSteps == \/ Flushed \/ Settled \/ Drained \/ BoundRunsOut \/ Abort \/ Quiesced
                 \/ Answer \/ JournalOpens \/ JournalCloses

ShellSteps == Ask \/ Heard \/ GraceRunsOut \/ Ends

ExitNext == EditSteps \/ TeardownSteps \/ PressClose \/ WindowCloses
            \/ ExitRequested \/ ShellSteps \/ Killed

\* The shell's own thread, the request that a gone window makes, and the handshake's.
\* Nothing is asked of the disk, nor of the teardown.
Requested == shell # "up" \/ window = "gone"

ExitFair ==
    /\ WF_exitVars(ShellSteps)
    /\ WF_exitVars(Requested /\ ExitRequested)

ExitSpec == ExitInit /\ [][ExitNext]_exitVars /\ ExitFair

-----------------------------------------------------------------------------
\* What an owed edit may have come to when the next launch cannot know of it: it
\* is in no file, or in one that no bracket and no flag covers.
Lost(e) ==
    \/ stage[e] \in {"held", "copying", "queued", "bare"}
    \/ stage[e] = "unjournalled" /\ ~flag

\* A quit never loses an edit without a word: whatever order the two askers, the
\* three timers and the disk come in, an edit made before the teardown began is
\* journalled, or covered by the flag, or something said that it may be gone.
LossIsSaid == shell = "gone" /\ ~said => \A e \in owed : ~Lost(e)

\* An answer to the shell is worth something: once it is given and no step failed,
\* the journal is shut and every edit made before the teardown is in it.  A journal
\* that was still opening is another matter (LaunchQuitIsClean).
CleanQuit ==
    doneSeen /\ ~failed =>
        /\ journal # "closing"
        /\ journal = "closed" => \A e \in owed : stage[e] = "journalled"
        /\ journal = "closed" /\ ~said /\ LeftOpen = {} => ~flag

\* The flag stands over every bracket that has no end, also over the ones whose
\* write lands after the close: the next launch looks at those folders.
FlagCovers == LeftOpen # {} => flag

\* What an answer, a flag and a silence say is so.
SignsAreTrue == CleanQuit /\ FlagCovers /\ LossIsSaid

\* The application can be left: once an exit is requested, or the window is gone, the
\* process ends, though no disk and no step of the teardown ever answers.
QuitEnds == Requested ~> shell \in {"gone", "killed"}

\* What bootApp.ts:597-606 says of a quit while sync opens its journal; the code
\* answers at once, and the flag stays (README, divergences).
LaunchQuitIsClean == doneSeen /\ ~failed /\ ~said => ~flag

=============================================================================
