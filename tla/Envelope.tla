------------------------------ MODULE Envelope ------------------------------
(***************************************************************************)
(* A client and a router that talk in frames over one connection, which     *)
(* keeps their order and may break (src/src/kernel/core/envelope.ts).  A    *)
(* call is one request and the stream of items that answers it; either side *)
(* gives it up after a whole period of silence.  The client counts its ids  *)
(* and never uses one twice: here an id is used again once nothing of it is *)
(* left.  Uploads (frames that stream towards the router) are left out: no  *)
(* client of the repository sends any.                                     *)
(***************************************************************************)
EXTENDS Integers, FiniteSets, Sequences, SequencesExt

CONSTANTS
    Id,            \* the calls at one time
    Silence,       \* timeoutMs, in ticks, of both sides
    Length,        \* the items of a stream
    Room,          \* maxStreamBytes, in items
    MaxInFlight    \* maxInFlight and maxInFlightGlobal

ASSUME EnvelopeAssumption == {Silence, Length, Room, MaxInFlight} \subseteq Nat \ {0}

VARIABLES
    call,          \* what the caller knows of its call
    got, read,     \* the items that came, those that the caller has taken
    left,          \* what is left of the client's timer
    flight,        \* the requests the router has in flight
    slots,         \* globalInFlight
    elsewhere,     \* the requests in flight on the router's other connections
    yielded,       \* the items a handler has produced
    leftThere,     \* what is left of the router's timer
    up, down,      \* the frames under way
    carries,       \* the connection still brings what is put on it
    here, there,   \* the connection is open, as the client and as the router know
    \* What only the properties read: the ticks since a frame of the call came in, or
    \* crossed the router.
    quiet, quietThere

client == <<call, got, read, left, here, quiet>>
router == <<flight, slots, elsewhere, yielded, leftThere, there, quietThere>>
wire == <<up, down, carries>>
envelopeVars == <<client, router, wire>>

EnvelopeInit ==
    /\ call = [c \in Id |-> "free"]
    /\ got = [c \in Id |-> 0] /\ read = [c \in Id |-> 0]
    /\ left = [c \in Id |-> Silence] /\ leftThere = [c \in Id |-> Silence]
    /\ flight = {} /\ slots = 0 /\ elsewhere = 0
    /\ yielded = [c \in Id |-> 0]
    /\ up = <<>> /\ down = <<>> /\ carries = TRUE /\ here = TRUE /\ there = TRUE
    /\ quiet = [c \in Id |-> 0] /\ quietThere = [c \in Id |-> 0]

Frame(kind, c) == [kind |-> kind, id |-> c]
About(s, c) == \E i \in DOMAIN s : s[i].id = c
Outcome == {"ok", "refused", "timeout", "cancelled", "disconnected", "overloaded"}

-----------------------------------------------------------------------------
(***************************************************************************)
(* The client.                                                             *)
(***************************************************************************)
Sends(f) == up' = IF here /\ carries THEN Append(up, f) ELSE up

\* finish: out of pending, and its timer is cleared.
Finishes(cs, why) ==
    /\ call' = [c \in Id |-> IF c \in cs THEN why ELSE call[c]]
    /\ left' = [c \in Id |-> IF c \in cs THEN Silence ELSE left[c]]
    /\ quiet' = [c \in Id |-> IF c \in cs THEN 0 ELSE quiet[c]]

\* An id nothing is left of.
Unused(c) == call[c] = "free" /\ c \notin flight /\ ~About(up \o down, c)

Call(c) ==
    /\ here /\ Unused(c)
    /\ call' = [call EXCEPT ![c] = "pending"]
    /\ Sends(Frame("req", c))
    /\ UNCHANGED <<router, got, read, left, quiet, down, carries, here>>

\* fail: out of pending, a cancel to the router, and the caller is told.
Fails(c, why) ==
    /\ call[c] = "pending"
    /\ Finishes({c}, why)
    /\ Sends(Frame("cancel", c))
    /\ UNCHANGED <<router, got, read, here, down, carries>>

\* A wrong form: a call has no timer, and waits for the wire.
WaitsOn(c) == FALSE

Expired(c) == left[c] = 0

TimesOut(c) == Expired(c) /\ Fails(c, "timeout")

\* The caller's signal, or a reader that leaves the stream.
Cancels(c) == Fails(c, "cancelled")

Takes(c) ==
    /\ call[c] \in {"pending", "ok"} /\ read[c] < got[c]
    /\ read' = [read EXCEPT ![c] = @ + 1]
    /\ UNCHANGED <<router, wire, call, got, left, here, quiet>>

\* The caller is done with what it was told, and a clean end comes after the items.
Done(c) ==
    /\ call[c] \in Outcome /\ (call[c] = "ok" => read[c] = got[c])
    /\ call' = [call EXCEPT ![c] = "free"]
    /\ got' = [got EXCEPT ![c] = 0] /\ read' = [read EXCEPT ![c] = 0]
    /\ UNCHANGED <<router, wire, left, here, quiet>>

\* A wrong form: the clock is that of the whole call.
Once(t, c) == t

Refreshed(t, c) == [t EXCEPT ![c] = Silence]

Overflows(c) == got[c] - read[c] >= Room

Receives ==
    /\ here /\ down # <<>>
    /\ down' = Tail(down)
    /\ LET f == Head(down)
           c == f.id
       IN IF call[c] # "pending"
          THEN UNCHANGED <<call, got, left, quiet, up>>
          ELSE \/ /\ f.kind = "stream" /\ Overflows(c)
                  /\ Finishes({c}, "overloaded")
                  /\ Sends(Frame("cancel", c)) /\ UNCHANGED got
               \/ /\ f.kind = "stream" /\ ~Overflows(c)
                  /\ got' = IF got[c] - read[c] < Room THEN [got EXCEPT ![c] = @ + 1] ELSE got
                  /\ left' = Refreshed(left, c) /\ quiet' = [quiet EXCEPT ![c] = 0]
                  /\ UNCHANGED <<call, up>>
               \/ f.kind = "end" /\ Finishes({c}, "ok") /\ UNCHANGED <<got, up>>
               \/ f.kind = "err" /\ Finishes({c}, "refused") /\ UNCHANGED <<got, up>>
    /\ UNCHANGED <<router, read, here, carries>>

\* What is under way is lost, and what is put on it from now on.  Neither side hears.
Breaks == carries' = FALSE /\ up' = <<>> /\ down' = <<>>

GoesDead == carries /\ Breaks /\ UNCHANGED <<client, router>>

Disconnected ==
    /\ here /\ here' = FALSE
    /\ Finishes({c \in Id : call[c] = "pending"}, "disconnected")
    /\ Breaks
    /\ UNCHANGED <<router, got, read>>

-----------------------------------------------------------------------------
(***************************************************************************)
(* The router.                                                             *)
(***************************************************************************)
Answers(f) == down' = IF there /\ carries THEN Append(down, f) ELSE down

Freed(n) == slots - n

\* settle, of those in flight.
Settles(gone) ==
    /\ flight' = flight \ gone
    /\ slots' = Freed(Cardinality(flight \cap gone))
    /\ leftThere' = [c \in Id |-> IF c \in gone THEN Silence ELSE leftThere[c]]
    /\ quietThere' = [c \in Id |-> IF c \in gone THEN 0 ELSE quietThere[c]]
    /\ yielded' = [c \in Id |-> IF c \in gone THEN 0 ELSE yielded[c]]

TheirRest == <<client, there, elsewhere, carries>>

\* dispatch: what is refused costs a frame.
Dispatch(c) ==
    IF Cardinality(flight) >= MaxInFlight \/ slots >= MaxInFlight
    THEN Answers(Frame("err", c)) /\ UNCHANGED <<flight, slots, yielded, leftThere, quietThere>>
    ELSE /\ flight' = flight \cup {c} /\ slots' = slots + 1
         /\ UNCHANGED <<down, yielded, leftThere, quietThere>>

RouterReceives ==
    /\ there /\ up # <<>>
    /\ up' = Tail(up)
    /\ LET f == Head(up)
       IN IF f.kind = "req" THEN Dispatch(f.id)
          ELSE Settles({f.id}) /\ UNCHANGED down
    /\ UNCHANGED TheirRest

\* expire: the router's own timer.
Expires(c) ==
    /\ c \in flight /\ leftThere[c] = 0
    /\ Settles({c}) /\ Answers(Frame("err", c))
    /\ UNCHANGED <<TheirRest, up>>

\* A handler whose request is no longer in flight finds that out at its next step
\* (live), which does nothing; so it is gone with its request here.
Yields(c) ==
    /\ c \in flight /\ yielded[c] < Length
    /\ yielded' = [yielded EXCEPT ![c] = @ + 1]
    /\ leftThere' = Refreshed(leftThere, c) /\ quietThere' = [quietThere EXCEPT ![c] = 0]
    /\ Answers(Frame("stream", c))
    /\ UNCHANGED <<TheirRest, flight, slots, up>>

\* The handler returns, after its items, or throws before.
Returns(c) ==
    /\ c \in flight /\ Settles({c})
    /\ \/ yielded[c] = Length /\ Answers(Frame("end", c))
       \/ Answers(Frame("err", c))
    /\ UNCHANGED <<TheirRest, up>>

RouterDisconnected ==
    /\ there /\ there' = FALSE
    /\ Settles(flight)
    /\ Breaks
    /\ UNCHANGED <<client, elsewhere>>

\* A request on another connection is taken on, or is over.
Elsewhere ==
    /\ \/ slots < MaxInFlight /\ slots' = slots + 1 /\ elsewhere' = elsewhere + 1
       \/ elsewhere > 0 /\ slots' = slots - 1 /\ elsewhere' = elsewhere - 1
    /\ UNCHANGED <<client, wire, flight, yielded, leftThere, there, quietThere>>

-----------------------------------------------------------------------------
\* Another connection, once both know that the last one is over.
Connects ==
    /\ ~here /\ ~there /\ here' = TRUE /\ there' = TRUE /\ carries' = TRUE
    /\ UNCHANGED <<call, got, read, left, quiet, flight, slots, elsewhere, yielded, leftThere, quietThere, up, down>>

Waiting == {c \in Id : call[c] = "pending"}
Longer(t, cs) == [c \in Id |-> IF c \in cs THEN t[c] + 1 ELSE t[c]]
Shorter(t, cs) == [c \in Id |-> IF c \in cs THEN t[c] - 1 ELSE t[c]]

\* Time passes, and no timer by.
FramesTick ==
    /\ Waiting \cup flight # {}
    /\ \A c \in Waiting : left[c] > 0
    /\ \A c \in flight : leftThere[c] > 0
    /\ left' = Shorter(left, Waiting) /\ quiet' = Longer(quiet, Waiting)
    /\ leftThere' = Shorter(leftThere, flight) /\ quietThere' = Longer(quietThere, flight)
    /\ UNCHANGED <<call, got, read, here, flight, slots, elsewhere, yielded, there, wire>>

EnvelopeNext ==
    \/ \E c \in Id :
        \/ Call(c) \/ TimesOut(c) \/ Cancels(c) \/ Takes(c) \/ Done(c)
        \/ Expires(c) \/ Yields(c) \/ Returns(c)
    \/ Receives \/ GoesDead \/ Disconnected \/ RouterReceives \/ RouterDisconnected \/ Elsewhere \/ Connects \/ FramesTick

-----------------------------------------------------------------------------
EnvelopeTypes ==
    /\ call \in [Id -> {"free", "pending"} \cup Outcome]
    /\ {got, read, yielded} \subseteq [Id -> 0 .. Length]
    /\ {left, leftThere, quiet, quietThere} \subseteq [Id -> 0 .. Silence]
    /\ flight \subseteq Id /\ elsewhere \in 0 .. MaxInFlight
    /\ \A f \in Range(up \o down) : f.id \in Id
    /\ {carries, here, there} \subseteq BOOLEAN

\* The count that bounds the router is that of the requests in flight, whatever ends
\* them: an answer, a refusal, a timer, a cancel or the connection.
SlotsAreCounted == slots = Cardinality(flight) + elsewhere /\ slots <= MaxInFlight

\* A call is given up for silence only after a whole period in which no frame of it
\* came, and a request only after one in which none crossed the router: a slow stream
\* is not a silent one (envelope.ts:890-905, 1265-1270).
SilenceOnly ==
    [][\A c \in Id : /\ call[c] = "pending" /\ call'[c] = "timeout" => quiet[c] >= Silence
                     /\ Expires(c) => quietThere[c] >= Silence]_envelopeVars

\* A stream that ends cleanly is whole.
WholeStream == \A c \in Id : call[c] = "ok" => got[c] = Length

\* Types; and what the end of a call says is so: a stream that ended well is whole, one
\* that was given up was silent, and its slot is free.
EndsAreTrue == []EnvelopeTypes /\ []WholeStream /\ SilenceOnly /\ []SlotsAreCounted

=============================================================================
