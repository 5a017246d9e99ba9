----------------------------- MODULE Scheduler -----------------------------
(***************************************************************************)
(* When a satchel syncs (src/src/capabilities/sync/lib/scheduler.ts): one   *)
(* session at a time, triggers that land during it coalesced into one       *)
(* follow-up, a debounce after a local commit and a backstop under the      *)
(* events, which backs off while sessions fail.  A timer is the time it has *)
(* left, None when it is not armed; it fires at 0, and time does not pass   *)
(* it.                                                                     *)
(***************************************************************************)
EXTENDS Integers

CONSTANTS
    Debounce,   \* debounceMs, in ticks
    Retry,      \* retryMs
    Every       \* everyMs

ASSUME SchedulerAssumption ==
    /\ {Debounce, Retry, Every} \subseteq Nat \ {0}
    /\ Retry <= Every

VARIABLES
    started,    \* was start called?
    stopped,    \* was stop called?
    running,    \* is a session under way?
    again,      \* did a trigger land during it?
    debounce,   \* what is left of the debounce
    backstop,   \* what is left of the backstop
    backoff,    \* the delay the next failure earns
    owing,      \* local commits no session has taken
    taken,      \* those the session under way has
    waited,     \* how long owing has waited with no session under way
    rung        \* the failures since the last success, as far as the ladder goes

vars == <<started, stopped, running, again, debounce, backstop, backoff, owing, taken, waited, rung>>

None == -1
Timer(most) == {None} \cup 0 .. most

TypeOK ==
    /\ {started, stopped, running, again, owing, taken} \subseteq BOOLEAN
    /\ debounce \in Timer(Debounce)
    /\ backstop \in Timer(Every)
    /\ backoff \in Retry .. Every
    /\ waited \in Nat /\ rung \in Nat
    /\ taken => running

Init ==
    /\ started = FALSE /\ stopped = FALSE /\ running = FALSE /\ again = FALSE
    /\ debounce = None /\ backstop = None
    /\ backoff = Retry
    /\ owing = FALSE /\ taken = FALSE
    /\ waited = 0 /\ rung = 0

Lesser(m, n) == IF m < n THEN m ELSE n

-----------------------------------------------------------------------------
\* A session takes what is owed when it begins.
Begins ==
    /\ running' = TRUE /\ again' = FALSE
    /\ taken' = owing /\ owing' = FALSE
    /\ waited' = 0

\* kick, of a scheduler that is not stopped.
Kick ==
    IF running
    THEN again' = TRUE /\ UNCHANGED <<running, debounce, backstop, owing, taken, waited>>
    ELSE Begins /\ debounce' = None /\ backstop' = None

Start ==
    /\ ~started
    /\ started' = TRUE
    /\ IF stopped
       THEN UNCHANGED <<running, again, debounce, backstop, owing, taken, waited>>
       ELSE Kick
    /\ UNCHANGED <<stopped, backoff, rung>>

\* A local commit: armDebounce, which starts it over.
Commit ==
    /\ started /\ ~stopped
    /\ owing' = TRUE
    /\ debounce' = Debounce
    /\ UNCHANGED <<started, stopped, running, again, backstop, backoff, taken, waited, rung>>

Visible ==
    /\ started /\ ~stopped
    /\ Kick
    /\ UNCHANGED <<started, stopped, backoff, rung>>

\* syncNow: the debounce is cancelled during a session too.
SyncNow ==
    /\ started /\ ~stopped
    /\ IF running
       THEN /\ again' = TRUE /\ debounce' = None
            /\ UNCHANGED <<running, backstop, owing, taken, waited>>
       ELSE Kick
    /\ UNCHANGED <<started, stopped, backoff, rung>>

Stop ==
    /\ ~stopped
    /\ stopped' = TRUE
    /\ debounce' = None /\ backstop' = None
    /\ UNCHANGED <<started, running, again, backoff, owing, taken, waited, rung>>

DebounceFires ==
    /\ debounce = 0
    /\ IF running
       THEN again' = TRUE /\ debounce' = None /\ UNCHANGED <<running, backstop, owing, taken, waited>>
       ELSE Kick
    /\ UNCHANGED <<started, stopped, backoff, rung>>

\* No session is under way while the backstop is armed.
BackstopFires ==
    /\ backstop = 0
    /\ Kick
    /\ UNCHANGED <<started, stopped, backoff, rung>>

-----------------------------------------------------------------------------
\* noteOutcome, of one session.
Noted(ok) ==
    /\ backoff' = IF ok THEN Retry ELSE Lesser(backoff * 2, Every)
    /\ rung' = IF ok THEN 0 ELSE Lesser(rung + 1, Every + 1)

\* A wrong form: the delay is read after the failure doubled it.
DelayDoubled(ok) == IF ok THEN Every ELSE Lesser(backoff * 2, Every)

\* What the last session earned: the delay before it was doubled.
Delay(ok) == IF ok THEN Every ELSE backoff

\* Wrong forms: the next tick is armed only after a failure, or only after none.
RestsIfFailed(ok, delay) ==
    /\ running' = FALSE
    /\ taken' = FALSE
    /\ owing' = (owing \/ (taken /\ ~ok))
    /\ backstop' = IF stopped \/ ok THEN None ELSE delay
    /\ UNCHANGED <<again, debounce, waited>>

RestsIfWell(ok, delay) ==
    /\ running' = FALSE
    /\ taken' = FALSE
    /\ owing' = (owing \/ (taken /\ ~ok))
    /\ backstop' = IF stopped \/ ~ok THEN None ELSE delay
    /\ UNCHANGED <<again, debounce, waited>>

\* A commit a failed session had taken is owed again.
Rests(ok, delay) ==
    /\ running' = FALSE
    /\ taken' = FALSE
    /\ owing' = (owing \/ (taken /\ ~ok))
    /\ backstop' = IF stopped THEN None ELSE delay
    /\ UNCHANGED <<again, debounce, waited>>

FollowsUp == again /\ ~stopped

\* run answers: a follow-up at once if a trigger landed, or the backstop.
Ends(ok) ==
    /\ running
    /\ Noted(ok)
    /\ IF FollowsUp
       THEN /\ again' = FALSE
            /\ taken' = (owing \/ (taken /\ ~ok)) /\ owing' = FALSE
            /\ UNCHANGED <<running, debounce, backstop, waited>>
       ELSE Rests(ok, Delay(ok))
    /\ UNCHANGED <<started, stopped>>

\* run throws, which it promises not to: a failed session, and no follow-up.
Throws ==
    /\ running
    /\ Noted(FALSE)
    /\ Rests(FALSE, Delay(FALSE))
    /\ UNCHANGED <<started, stopped>>

Left(t) == IF t = None THEN None ELSE t - 1

Tick ==
    /\ debounce # 0 /\ backstop # 0
    /\ debounce' = Left(debounce) /\ backstop' = Left(backstop)
    /\ waited' = IF owing /\ started /\ ~stopped /\ ~running THEN Lesser(waited + 1, Every + 1) ELSE 0
    /\ UNCHANGED <<started, stopped, running, again, backoff, owing, taken, rung>>

Next ==
    \/ Start \/ Commit \/ Visible \/ SyncNow \/ Stop
    \/ DebounceFires \/ BackstopFires
    \/ (\E ok \in BOOLEAN : Ends(ok)) \/ Throws \/ Tick

Spec == Init /\ [][Next]_vars

-----------------------------------------------------------------------------
\* A scheduler that was started and not stopped always has a next session: one
\* is under way or a timer is armed, whatever run did (scheduler.ts:228-234).
AlwaysANext ==
    started /\ ~stopped => running \/ backstop # None

\* However often the reader writes and starts the debounce over, what is owed
\* waits no longer than the backstop's whole period (scheduler.ts:1-60).
WaitsAtMostEvery == waited <= Every

\* Types; always a next session, and none later than the backstop.
OnTime == TypeOK /\ AlwaysANext /\ WaitsAtMostEvery

Doubled[n \in Nat] == IF n = 0 THEN 1 ELSE 2 * Doubled[n - 1]

\* The delay after a failure is the one that failure earned on the ladder of
\* failures since the last success, follow-ups within a run counted and a
\* success among them starting it over (scheduler.ts:208-212).
OnItsRung ==
    [][running /\ ~running' /\ ~stopped /\ rung' > 0
           => backstop' = Lesser(Retry * Doubled[rung' - 1], Every)]_vars

\* After stop no session begins, nor a follow-up of the one under way.
StopsForGood ==
    [][stopped => (running' => running /\ (again => again'))]_vars

\* The next session comes when it should, and after stop none does.
WhenNext == OnItsRung /\ StopsForGood

=============================================================================
