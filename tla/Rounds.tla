------------------------------- MODULE Rounds -------------------------------
(***************************************************************************)
(* The satchel's sessions, when the scheduler starts them, and the call to  *)
(* the shelf that each of them waits for (src/src/capabilities/sync/lib/    *)
(* scheduler.ts over src/src/kernel/core/envelope.ts).  That a session ends *)
(* is not assumed here: it follows from the timers of the call.  The two    *)
(* modules' clocks are apart, for one counts seconds and the other minutes. *)
(***************************************************************************)
EXTENDS Scheduler, Envelope

CONSTANT Session    \* the id of a session's call

ASSUME RoundsAssumption == Session \in Id

roundVars == <<vars, envelopeVars>>

RoundsInit == Init /\ EnvelopeInit

\* What the scheduler does by itself.
Schedules ==
    /\ Start \/ Commit \/ Visible \/ SyncNow \/ Stop \/ DebounceFires \/ BackstopFires \/ Tick
    /\ UNCHANGED envelopeVars

Asks == running /\ Call(Session) /\ UNCHANGED vars

\* A call of a client that knows it is disconnected is refused at once.
NotAsked == running /\ call[Session] = "free" /\ ~here /\ Ends(FALSE) /\ UNCHANGED envelopeVars

\* run answers as its call did, or throws.
Concludes(ok) ==
    /\ ok = (call[Session] = "ok")
    /\ Done(Session) /\ (Ends(ok) \/ Throws)

Carrying ==
    \/ \E c \in Id : TimesOut(c) \/ Cancels(c) \/ Takes(c) \/ Expires(c) \/ Yields(c) \/ Returns(c)
    \/ Receives \/ GoesDead \/ Disconnected \/ RouterReceives \/ RouterDisconnected \/ Elsewhere \/ Connects \/ FramesTick

RoundsNext ==
    \/ Schedules \/ Asks \/ NotAsked
    \/ (\E ok \in BOOLEAN : Concludes(ok))
    \/ (Carrying /\ UNCHANGED vars)

\* Timers fire and the process goes on.  Nothing is asked of the handlers or of the
\* reader, nor of the wire: it brings what is put on it, or it does not.
RoundsSpec ==
    /\ RoundsInit /\ [][RoundsNext]_roundVars
    /\ WF_roundVars((Tick \/ DebounceFires \/ BackstopFires) /\ UNCHANGED envelopeVars)
    /\ WF_roundVars((FramesTick \/ \E c \in Id : TimesOut(c) \/ Expires(c)) /\ UNCHANGED vars)
    /\ WF_roundVars((Receives \/ RouterReceives \/ GoesDead) /\ UNCHANGED vars)
    /\ WF_roundVars(\/ (\E c \in Id : Takes(c)) /\ UNCHANGED vars
                    \/ Asks \/ NotAsked \/ \E ok \in BOOLEAN : Concludes(ok))

-----------------------------------------------------------------------------
\* There is always another session, every session ends, and every slot of the router
\* is given back, though no frame comes through, no handler returns and no connection
\* closes by itself.
SessionsComeAndGo ==
    /\ []<>(running \/ stopped \/ ~started)
    /\ running ~> (~running \/ call[Session] \in Outcome \/ ~here)
    /\ Session \in flight ~> Session \notin flight

\* What is owed reaches the shelf, unless the reader never stops writing, the scheduler
\* is stopped, or sessions are tried for ever and go well no more.
Carried ==
    \/ owing ~> (~owing /\ ~taken) \/ stopped
    \/ []<><<Commit>>_vars
    \/ []<>(call[Session] = "pending" \/ ~here) /\ <>[][~Ends(TRUE)]_vars

=============================================================================
