------------------------------ MODULE DataLock ------------------------------
(***************************************************************************)
(* One library, one writer (src/src/hosts/node/lock.ts, and the same        *)
(* protocol in src/src-tauri/src/lock.rs): a record is linked into place,   *)
(* a stale one is renamed aside, read back, and put back by link if it is   *)
(* not the one that was judged.  An action is one call on the file system,  *)
(* or one question to the operating system.                                 *)
(*                                                                         *)
(* A record is named by the process that wrote it; a process acquires once. *)
(* The judgement of a process is right: what pid, start and boot time make  *)
(* of it is not modelled.                                                   *)
(***************************************************************************)
EXTENDS Integers, FiniteSets

CONSTANTS
    Proc,
    Ghost,       \* the record of a process that died before any of Proc began
    Stranger,    \* a record of another host
    Empty,       \* the file the protocol before this one could leave
    None,        \* no file, or nothing read
    MaxCrashes   \* bound: how many processes are killed

ASSUME DataLockAssumption ==
    /\ Cardinality({Ghost, Stranger, Empty, None}) = 4
    /\ {Ghost, Stranger, Empty, None} \cap Proc = {}
    /\ MaxCrashes \in Nat

VARIABLES
    path,     \* the lock file
    aside,    \* aside[p]: the file p moved, under its .stale-<token> name
    step,     \* step[p]: where p is
    seen,     \* seen[p]: the owner it read in this round
    moved,    \* has a record been moved by somebody who judged another?
    crashes

lockVars == <<path, aside, step, seen, moved, crashes>>

Left == {Ghost, Stranger, Empty}
Step == {"idle", "publish", "read", "look", "judge", "poll", "move", "back",
         "hold", "release", "unlink", "done", "dead"}

LockTypes ==
    /\ path \in Proc \cup Left \cup {None}
    /\ aside \in [Proc -> Proc \cup Left \cup {None}]
    /\ step \in [Proc -> Step]
    /\ seen \in [Proc -> Proc \cup Left \cup {None}]
    /\ moved \in BOOLEAN
    /\ crashes \in 0 .. MaxCrashes

LockInit ==
    /\ path \in Left \cup {None}
    /\ aside = [p \in Proc |-> None]
    /\ step = [p \in Proc |-> "idle"]
    /\ seen = [p \in Proc |-> None]
    /\ moved = FALSE /\ crashes = 0

Runs(p) == step[p] \notin {"idle", "dead"}

\* A wrong form: what cannot be told is taken for alive, as on Windows.
FailsClosed(r) == FALSE

\* holds, of a record of this host: its process is gone.
Gone(r) == r = Ghost \/ r \in {p \in Proc : ~Runs(p)}

Goes(p, s) == step' = [step EXCEPT ![p] = s]

-----------------------------------------------------------------------------
Begin(p) ==
    /\ step[p] = "idle"
    /\ Goes(p, "publish")
    /\ UNCHANGED <<path, aside, seen, moved, crashes>>

\* link: exclusive.
Free == path = None

Publish(p) ==
    /\ step[p] = "publish"
    /\ seen' = [seen EXCEPT ![p] = None]
    /\ IF Free THEN path' = p /\ Goes(p, "hold")
       ELSE Goes(p, "read") /\ UNCHANGED path
    /\ UNCHANGED <<aside, moved, crashes>>

\* readOwner: no record in an empty file, nor in none.
ReadOwner(p) ==
    /\ step[p] = "read"
    /\ seen' = [seen EXCEPT ![p] = path]
    /\ Goes(p, IF path \in {None, Empty} THEN "look" ELSE "judge")
    /\ UNCHANGED <<path, aside, moved, crashes>>

\* isEmpty, of the file that is there now.
Look(p) ==
    /\ step[p] = "look"
    /\ seen' = [seen EXCEPT ![p] = path]
    /\ Goes(p, IF path = Empty THEN "move" ELSE "poll")
    /\ UNCHANGED <<path, aside, moved, crashes>>

\* holds asks about the process as it is by now.
Judge(p) ==
    /\ step[p] = "judge"
    /\ Goes(p, IF Gone(seen[p]) THEN "move" ELSE "poll")
    /\ UNCHANGED <<path, aside, seen, moved, crashes>>

\* pause: once more, or the wait is over; the application does not wait.
Pause(p) ==
    /\ step[p] = "poll"
    /\ Goes(p, "publish")
    /\ UNCHANGED <<path, aside, seen, moved, crashes>>

Refused(p) ==
    /\ step[p] = "poll"
    /\ Goes(p, "done")
    /\ seen' = [seen EXCEPT ![p] = None]
    /\ UNCHANGED <<path, aside, moved, crashes>>

\* rename to a private name: one winner; the file that is gone is the race the
\* protocol expects.
MoveAside(p) ==
    /\ step[p] = "move"
    /\ IF path = None
       THEN Goes(p, "publish") /\ UNCHANGED <<path, aside, moved>>
       ELSE /\ aside' = [aside EXCEPT ![p] = path]
            /\ path' = None
            /\ moved' = (moved \/ path # seen[p])
            /\ Goes(p, "back")
    /\ UNCHANGED <<seen, crashes>>

\* A wrong form: what was moved is never read back.
IsTheOne(p) == TRUE

\* Is what was moved what was judged?
IsJudged(p) == aside[p] = seen[p]

\* link back: it declines if the name is taken.
Restored(p) == IF path = None THEN aside[p] ELSE path

\* Read back: the stale one is removed, a live one put back, or left as
\* evidence when the name is taken.
PutBack(p) ==
    /\ step[p] = "back"
    /\ IF IsJudged(p)
       THEN aside' = [aside EXCEPT ![p] = None] /\ UNCHANGED path
       ELSE /\ path' = Restored(p)
            /\ aside' = [aside EXCEPT ![p] = IF path = None THEN None ELSE @]
    /\ Goes(p, "publish")
    /\ UNCHANGED <<seen, moved, crashes>>

-----------------------------------------------------------------------------
\* The last byte is written.
Finish(p) ==
    /\ step[p] = "hold"
    /\ Goes(p, "release")
    /\ UNCHANGED <<path, aside, seen, moved, crashes>>

Mine(p) == path = p

\* letGo: it reads, and then it removes by name.
LetGo(p) ==
    /\ step[p] = "release"
    /\ Goes(p, IF Mine(p) THEN "unlink" ELSE "done")
    /\ UNCHANGED <<path, aside, seen, moved, crashes>>

Unlink(p) ==
    /\ step[p] = "unlink"
    /\ path' = None
    /\ Goes(p, "done")
    /\ UNCHANGED <<aside, seen, moved, crashes>>

Exit(p) ==
    /\ step[p] = "done"
    /\ Goes(p, "dead")
    /\ UNCHANGED <<path, aside, seen, moved, crashes>>

Crash(p) ==
    /\ Runs(p) /\ crashes < MaxCrashes
    /\ crashes' = crashes + 1
    /\ Goes(p, "dead")
    /\ seen' = [seen EXCEPT ![p] = None]
    /\ UNCHANGED <<path, aside, moved>>

-----------------------------------------------------------------------------
\* What a process goes on to do by itself.
Acquires(p) == \/ Publish(p) \/ ReadOwner(p) \/ Look(p) \/ Judge(p) \/ Pause(p)
               \/ MoveAside(p) \/ PutBack(p)

Releases(p) == LetGo(p) \/ Unlink(p) \/ Exit(p)

LockNext == \E p \in Proc :
    Begin(p) \/ Acquires(p) \/ Refused(p) \/ Finish(p) \/ Releases(p) \/ Crash(p)

LockSpec == LockInit /\ [][LockNext]_lockVars

LockFairSpec == LockSpec /\ \A p \in Proc : WF_lockVars(Acquires(p)) /\ WF_lockVars(Releases(p))

-----------------------------------------------------------------------------
Holders == {p \in Proc : step[p] = "hold"}
Began == {p \in Proc : step[p] # "idle"}

\* Two processes never both hold the library, whatever was left there, whoever
\* dies and whenever both judge one record stale; and more of them only after one
\* moved a record that it had not judged, which is the residual lock.ts:520-527
\* names.
OneWriter ==
    Cardinality(Began) <= 2 \/ ~moved => Cardinality(Holders) <= 1

\* A process asks for the lock, and no living one has it or could be asked for it.
Wanted == \E p \in Proc : step[p] \notin {"idle", "hold", "release", "unlink", "done", "dead"}

\* A library that nobody holds comes to somebody who keeps asking: no crash, at
\* any call, leaves a file that only a person can remove (lock.ts:20-29).
NeverLockedForGood ==
    (Wanted /\ Holders = {} /\ path # Stranger) ~> (Holders # {} \/ ~Wanted)

\* The residual is what lock.ts:520-527 says it is: of two that hold, the record
\* of one is the file left aside.  The code does not hold to it: a release that
\* read its own record removes the next one's, and what was aside is put back.
EvidenceIsLeft ==
    Cardinality(Holders) > 1 => \E p \in Proc : aside[p] \in Holders

=============================================================================
