------------------------------ MODULE AppLife ------------------------------
(***************************************************************************)
(* The application among the commands that share its library: it takes the  *)
(* lock before the webview starts, and lets go of it when the event loop    *)
(* ends (src/src-tauri/src/lib.rs:782-792), with the webview still there.   *)
(* DataLock gives the processes, Shutdown what this one does while it holds. *)
(***************************************************************************)
EXTENDS DataLock, Shutdown

CONSTANTS
    App,       \* the application, one of Proc
    Parties,   \* bound: the processes that are started, on what they may find
    Mortal     \* bound: the commands that may be killed

ASSUME AppLifeAssumption ==
    /\ App \in Proc /\ Mortal \subseteq Proc
    /\ Parties \subseteq [started : SUBSET Proc, found : SUBSET (Left \cup {None})]

VARIABLE party   \* the one of Parties that this behaviour has

lifeVars == <<lockVars, exitVars, party>>

LifeInit == LockInit /\ ExitInit /\ party \in Parties /\ path \in party.found

Up == step[App] = "hold"

\* A command takes the lock, works and lets go.
CliStep(p) ==
    /\ p # App /\ UNCHANGED <<exitVars, party>>
    /\ (p \in party.started /\ Begin(p)) \/ Acquires(p) \/ Refused(p) \/ Finish(p) \/ Releases(p)
       \/ (p \in Mortal /\ Crash(p))

\* The application does not wait for a lock: it says who has it, and ends.
AppStarts ==
    /\ UNCHANGED <<exitVars, party>> /\ shell = "up"
    /\ \/ App \in party.started /\ Begin(App)
       \/ Publish(App) \/ ReadOwner(App) \/ Look(App) \/ Judge(App)
       \/ MoveAside(App) \/ PutBack(App) \/ Refused(App) \/ Exit(App)
       \/ ~Up /\ Crash(App)

\* What the webview does, until the process is gone.
AppRuns ==
    /\ Up \/ shell = "exit"
    /\ EditSteps \/ TeardownSteps \/ PressClose \/ WindowCloses
    /\ UNCHANGED <<lockVars, party>>

ShellRuns ==
    /\ Up /\ (Ask \/ Heard \/ GraceRunsOut)
    /\ UNCHANGED <<lockVars, party>>

\* The request that passes ends the loop, and the lock goes with it.
AppExits ==
    /\ Up /\ ExitRequested
    /\ IF shell' = "exit" THEN Finish(App) ELSE UNCHANGED lockVars
    /\ UNCHANGED party

AppReleases ==
    /\ shell = "exit" /\ (LetGo(App) \/ Unlink(App))
    /\ UNCHANGED <<exitVars, party>>

AppEnds == Ends /\ Exit(App) /\ UNCHANGED party

AppKilled ==
    /\ (Up \/ shell = "exit") /\ Killed /\ Crash(App)
    /\ UNCHANGED party

LifeNext == \/ \E p \in Proc : CliStep(p)
            \/ AppStarts \/ AppRuns \/ ShellRuns \/ AppExits \/ AppReleases
            \/ AppEnds \/ AppKilled

\* The processes on the lock and the shell go on; nothing is asked of the webview.
CliGoesOn(p) == UNCHANGED <<exitVars, party>> /\ (Acquires(p) \/ Releases(p))

AppGoesOn ==
    \/ AppStarts /\ step[App] # "idle" /\ crashes' = crashes
    \/ ShellRuns \/ AppReleases \/ AppEnds
    \/ Requested /\ AppExits

LifeFair ==
    /\ \A p \in Proc \ {App} : WF_lifeVars(CliGoesOn(p))
    /\ WF_lifeVars(AppGoesOn)

LifeSpec == LifeInit /\ [][LifeNext]_lifeVars /\ LifeFair

-----------------------------------------------------------------------------
\* What was owed when the teardown began comes to the disk while the library is
\* this process's own, unless something said that it had stopped waiting for it: no
\* second request, answer or timer lets the lock go before it
\* (lib.rs:782-785, closeWindow.ts).
LandsUnderLock ==
    [][\A e \in owed : stage[e] \in {"begun", "bare"} /\ stage'[e] # stage[e] => Up \/ said]_lifeVars

=============================================================================
