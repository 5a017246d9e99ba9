---------------------------- MODULE RoundsProofs ----------------------------
(***************************************************************************)
(* Proofs about Rounds and the two modules it puts together, for every      *)
(* period, every length of a stream and any number of calls.                *)
(*                                                                         *)
(* THE CALLS.  That a stream which ends cleanly is whole needs what is      *)
(* under way: of a call that still waits, what came and what is on the wire *)
(* are what the handler yielded (Counted), an end comes after a whole       *)
(* stream (Ended), and a request has the wire to itself until the router    *)
(* takes it (Asked).  A request that has the wire to itself is also in      *)
(* flight once at most, and so the slots are those of the requests.         *)
(*                                                                         *)
(* THE TIMERS.  A scheduler that rests has a timer, and the backstop comes  *)
(* no later than what is owed may wait.                                     *)
(*                                                                         *)
(* TOGETHER.  Each of the two modules takes only steps of its own           *)
(* (KeepsToTheScheduler, KeepsToTheFrames), so what holds of each holds of  *)
(* the whole.                                                               *)
(***************************************************************************)
EXTENDS Rounds, TLAPS, FiniteSetTheorems, WellFoundedInduction

-----------------------------------------------------------------------------
(* The calls *)

LEMMA Bounds ==
    /\ Silence \in Nat /\ Silence > 0 /\ Length \in Nat /\ Length > 0
    /\ Room \in Nat /\ Room > 0 /\ MaxInFlight \in Nat /\ MaxInFlight > 0
BY EnvelopeAssumption

Frames(kinds) == [kind : kinds, id : Id]

\* The frames of one kind and id among the first of a sequence.
Among(s, n, f) == {i \in 1 .. n : s[i] = f}
Count(s, n, f) == Cardinality(Among(s, n, f))

LEMMA CountIsNat ==
    ASSUME NEW s, NEW n \in Nat, NEW f
    PROVE  IsFiniteSet(Among(s, n, f)) /\ Count(s, n, f) \in Nat
<1>1. IsFiniteSet(1 .. n) /\ Among(s, n, f) \subseteq 1 .. n
  BY FS_Interval DEF Among
<1> QED
  BY <1>1, FS_Subset, FS_CardinalityType DEF Count

LEMMA CountNone ==
    ASSUME NEW s, NEW n \in Nat, NEW f, \A i \in 1 .. n : s[i] # f
    PROVE  Count(s, n, f) = 0
<1>1. Among(s, n, f) = {}
  BY DEF Among
<1> QED
  BY <1>1, FS_EmptySet DEF Count

\* What is put at the end counts at the end.
LEMMA CountAppend ==
    ASSUME NEW S, NEW s \in Seq(S), NEW e \in S, NEW f
    PROVE  /\ \A n \in 0 .. Len(s) : Count(Append(s, e), n, f) = Count(s, n, f)
           /\ e # f => Count(Append(s, e), Len(s) + 1, f) = Count(s, Len(s), f)
           /\ e = f => Count(Append(s, e), Len(s) + 1, f) = Count(s, Len(s), f) + 1
<1>1. ASSUME NEW n \in 0 .. Len(s) PROVE Count(Append(s, e), n, f) = Count(s, n, f)
  <2>1. Among(Append(s, e), n, f) = Among(s, n, f)
    BY DEF Among
  <2> QED
    BY <2>1 DEF Count
<1>2. CASE e # f
  <2>1. Among(Append(s, e), Len(s) + 1, f) = Among(s, Len(s), f)
    BY <1>2 DEF Among
  <2> QED
    BY <1>1, <1>2, <2>1 DEF Count
<1>3. CASE e = f
  <2>1. Among(Append(s, e), Len(s) + 1, f) = Among(s, Len(s), f) \cup {Len(s) + 1}
    BY <1>3 DEF Among
  <2>2. Len(s) \in Nat /\ Len(s) + 1 \notin Among(s, Len(s), f)
    BY DEF Among
  <2> QED
    BY <1>1, <1>3, <2>1, <2>2, CountIsNat, FS_AddElement DEF Count
<1> QED
  BY <1>1, <1>2, <1>3

\* What is taken from the front counts no more.
LEMMA CountTail ==
    ASSUME NEW S, NEW s \in Seq(S), s # <<>>, NEW f, NEW n \in 1 .. Len(s)
    PROVE  /\ Head(s) # f => Count(Tail(s), n - 1, f) = Count(s, n, f)
           /\ Head(s) = f => Count(Tail(s), n - 1, f) + 1 = Count(s, n, f)
<1> DEFINE rest == Among(s, n, f) \ {1}
           back == [i \in Among(Tail(s), n - 1, f) |-> i + 1]
<1>1. IsFiniteSet(Among(s, n, f)) /\ IsFiniteSet(rest) /\ Count(s, n, f) \in Nat
  BY CountIsNat, FS_RemoveElement
<1>2. n - 1 \in Nat /\ IsFiniteSet(Among(Tail(s), n - 1, f))
  BY CountIsNat
<1>3. \A i \in 1 .. n - 1 : Tail(s)[i] = s[i + 1]
  OBVIOUS
<1>4. back \in Bijection(Among(Tail(s), n - 1, f), rest)
  <2>1. \A i \in Among(Tail(s), n - 1, f) : i \in Int /\ i + 1 \in rest
    BY <1>3 DEF Among
  <2>2. back \in [Among(Tail(s), n - 1, f) -> rest]
    BY <2>1
  <2>3. \A i, j \in Among(Tail(s), n - 1, f) : back[i] = back[j] => i = j
    BY <2>1
  <2>4. \A j \in rest : j - 1 \in Among(Tail(s), n - 1, f) /\ back[j - 1] = j
    BY <1>3 DEF Among
  <2>5. \A j \in rest : \E i \in Among(Tail(s), n - 1, f) : back[i] = j
    BY <2>4
  <2> HIDE DEF back, rest
  <2>6. DOMAIN back = Among(Tail(s), n - 1, f)
    BY <2>2
  <2> QED
    BY <2>2, <2>3, <2>5, <2>6 DEF Bijection, Injection, Surjection, IsInjective
<1>5. Cardinality(rest) = Count(Tail(s), n - 1, f)
  <2> HIDE DEF back, rest
  <2>1. ExistsBijection(Among(Tail(s), n - 1, f), rest)
    BY <1>4 DEF ExistsBijection
  <2> QED
    BY <1>2, <2>1, FS_Bijection DEF Count
<1>6. CASE Head(s) # f
  <2>1. rest = Among(s, n, f)
    BY <1>6 DEF Among
  <2> QED
    BY <1>5, <1>6, <2>1 DEF Count
<1>7. CASE Head(s) = f
  <2>1. 1 \in Among(s, n, f)
    BY <1>7 DEF Among
  <2>2. Cardinality(rest) = Cardinality(Among(s, n, f)) - 1
    BY <1>1, <2>1, FS_RemoveElement
  <2> QED
    BY <1>1, <1>5, <1>7, <2>2 DEF Count
<1> QED
  BY <1>6, <1>7

-----------------------------------------------------------------------------
(* The invariant *)

Kept ==
    /\ call \in [Id -> {"free", "pending"} \cup Outcome]
    /\ got \in [Id -> Nat] /\ read \in [Id -> Nat]
    /\ left \in [Id -> Nat] /\ quiet \in [Id -> Nat] /\ here \in BOOLEAN

KeptThere ==
    /\ flight \in SUBSET Id /\ IsFiniteSet(flight)
    /\ slots \in Int /\ elsewhere \in Nat /\ yielded \in [Id -> 0 .. Length]
    /\ leftThere \in [Id -> Nat] /\ quietThere \in [Id -> Nat] /\ there \in BOOLEAN

OnTheWire ==
    /\ up \in Seq(Frames({"req", "cancel"})) /\ down \in Seq(Frames({"stream", "end", "err"}))
    /\ carries \in BOOLEAN

\* A connection one side has lost brings nothing, and nothing of it is left at that side.
Connected ==
    /\ carries => here /\ there
    /\ ~carries => up = <<>> /\ down = <<>>
    /\ ~here => \A c \in Id : call[c] # "pending"
    /\ ~there => flight = {}

\* Nothing is kept of what is not called, or not in flight.
Cleared ==
    /\ \A c \in Id : call[c] = "free" => got[c] = 0 /\ read[c] = 0
    /\ \A c \in Id : c \notin flight => yielded[c] = 0

\* A request on its way has the wire to itself.
Asked ==
    \A i \in DOMAIN up : up[i].kind = "req" =>
        /\ up[i].id \notin flight
        /\ \A j \in DOMAIN up : j # i /\ up[j].kind = "req" => up[j].id # up[i].id
        /\ \A j \in DOMAIN down : down[j].id # up[i].id
        /\ call[up[i].id] = "pending" => got[up[i].id] = 0

\* What came of a stream and what is under way are what the handler yielded.
Counted ==
    \A c \in Id : call[c] = "pending" /\ carries /\ c \in flight =>
        /\ \A i \in DOMAIN down : down[i] # Frame("end", c)
        /\ got[c] + Count(down, Len(down), Frame("stream", c)) = yielded[c]

\* An end comes after a whole stream.
Ended ==
    \A c \in Id : call[c] = "pending" =>
        \A i \in DOMAIN down : down[i] = Frame("end", c) =>
            got[c] + Count(down, i, Frame("stream", c)) = Length

\* What is left of a timer and the silence before it are one period.
OnePeriod == \A c \in Id : left[c] + quiet[c] = Silence /\ leftThere[c] + quietThere[c] = Silence

\* No more comes, or is under way to one that waits, than the stream has.
Within ==
    \A c \in Id :
        /\ got[c] <= Length /\ read[c] <= got[c]
        /\ call[c] = "pending" => got[c] + Count(down, Len(down), Frame("stream", c)) <= Length

FramesInv ==
    /\ Kept /\ KeptThere /\ OnTheWire /\ Connected /\ Cleared
    /\ Asked /\ Counted /\ Ended /\ Within /\ WholeStream /\ SlotsAreCounted /\ OnePeriod

LEMMA InitFrames == EnvelopeInit => FramesInv
<1> SUFFICES ASSUME EnvelopeInit PROVE FramesInv
  OBVIOUS
<1> USE Bounds DEF EnvelopeInit
<1>1. Kept /\ KeptThere /\ OnTheWire
  BY FS_EmptySet DEF Kept, KeptThere, OnTheWire
<1>2. Connected /\ Cleared /\ Asked /\ WholeStream /\ OnePeriod
  BY DEF Connected, Cleared, Asked, WholeStream, OnePeriod
<1>3. Counted /\ Ended
  BY DEF Counted, Ended
<1>4. SlotsAreCounted
  BY FS_EmptySet DEF SlotsAreCounted
<1>5. Within
  BY DEF Within
<1> QED
  BY <1>1, <1>2, <1>3, <1>4, <1>5 DEF FramesInv

LEMMA HeadIs ==
    ASSUME NEW kinds, NEW s \in Seq(Frames(kinds)), s # <<>>
    PROVE  /\ Head(s) = s[1] /\ Head(s) \in Frames(kinds) /\ Head(s).id \in Id /\ Head(s).kind \in kinds
           /\ Tail(s) \in Seq(Frames(kinds)) /\ Len(s) \in Nat /\ 1 \in DOMAIN s
           /\ Len(Tail(s)) = Len(s) - 1 /\ DOMAIN s = 1 .. Len(s)
           /\ \A i \in DOMAIN Tail(s) : i + 1 \in DOMAIN s /\ Tail(s)[i] = s[i + 1]
<1>1. Len(s) \in Nat /\ Len(s) > 0 /\ DOMAIN s = 1 .. Len(s) /\ s \in [1 .. Len(s) -> Frames(kinds)]
  OBVIOUS
<1>2. Head(s) = s[1] /\ Head(s) \in Frames(kinds)
  BY <1>1
<1>3. Head(s).id \in Id /\ Head(s).kind \in kinds
  BY <1>2 DEF Frames
<1>4. Tail(s) \in Seq(Frames(kinds)) /\ Len(Tail(s)) = Len(s) - 1 /\ DOMAIN Tail(s) = 1 .. Len(s) - 1
  BY <1>1
<1>5. \A i \in 1 .. Len(s) - 1 : i + 1 \in DOMAIN s /\ Tail(s)[i] = s[i + 1]
  BY <1>1
<1> QED
  BY <1>1, <1>2, <1>3, <1>4, <1>5

LEMMA KeptStep == FramesInv /\ [EnvelopeNext]_envelopeVars => Kept'
<1> SUFFICES ASSUME Kept, OnTheWire, [EnvelopeNext]_envelopeVars PROVE Kept'
  BY DEF FramesInv
<1> USE Bounds DEF Kept, Outcome
<1>1. ASSUME NEW c \in Id, Call(c) \/ Takes(c) \/ Done(c) PROVE Kept'
  BY <1>1 DEF Call, Takes, Done
<1>2. ASSUME NEW c \in Id, TimesOut(c) \/ Cancels(c) PROVE Kept'
  BY <1>2 DEF TimesOut, Cancels, Fails, Finishes
<1>3. CASE Receives
  <2>1. Head(down).id \in Id
    BY <1>3, HeadIs DEF Receives, OnTheWire
  <2>2. left' \in [Id -> Nat] /\ quiet' \in [Id -> Nat] /\ here' \in BOOLEAN /\ read' \in [Id -> Nat]
    <3>1. /\ \/ UNCHANGED <<left, quiet>>
             \/ \E cs, why : Finishes(cs, why)
             \/ left' = Refreshed(left, Head(down).id) /\ quiet' = [quiet EXCEPT ![Head(down).id] = 0]
          /\ UNCHANGED <<here, read>>
      BY <1>3 DEF Receives
    <3>2. (\E cs, why : Finishes(cs, why)) => left' \in [Id -> Nat] /\ quiet' \in [Id -> Nat]
      BY DEF Finishes
    <3>3. Refreshed(left, Head(down).id) \in [Id -> Nat]
      BY DEF Refreshed
    <3> QED
      BY <3>1, <3>2, <3>3
  <2>3. got' \in [Id -> Nat]
    BY <1>3, <2>1 DEF Receives
  <2>4. call' \in [Id -> {"free", "pending"} \cup Outcome]
    BY <1>3, <2>1 DEF Receives, Finishes
  <2> QED
    BY <2>2, <2>3, <2>4
<1>4. CASE Disconnected
  BY <1>4 DEF Disconnected, Finishes
<1>5. CASE FramesTick
  BY <1>5 DEF FramesTick, Shorter, Longer, Waiting
<1>6. CASE Connects
  BY <1>6 DEF Connects
<1>7. CASE \/ \E c \in Id : Expires(c) \/ Yields(c) \/ Returns(c)
           \/ RouterReceives \/ RouterDisconnected \/ Elsewhere \/ GoesDead \/ UNCHANGED envelopeVars
  <2>1. UNCHANGED client
    BY <1>7 DEF Expires, Yields, Returns, RouterReceives, RouterDisconnected, Elsewhere, GoesDead, TheirRest,
                envelopeVars
  <2> QED
    BY <2>1 DEF client
<1> QED
  BY <1>1, <1>2, <1>3, <1>4, <1>5, <1>6, <1>7 DEF EnvelopeNext

LEMMA SettlesStep ==
    ASSUME KeptThere, SlotsAreCounted, NEW gone, Settles(gone)
    PROVE  /\ flight' \in SUBSET Id /\ IsFiniteSet(flight')
           /\ slots' \in Int /\ yielded' \in [Id -> 0 .. Length]
           /\ leftThere' \in [Id -> Nat] /\ quietThere' \in [Id -> Nat]
           /\ elsewhere' = elsewhere => SlotsAreCounted'
<1> USE Bounds DEF KeptThere, Settles
<1>1. IsFiniteSet(flight') /\ IsFiniteSet(flight \cap gone)
  BY FS_Subset
<1>2. Cardinality(flight') = Cardinality(flight) - Cardinality(flight \cap gone)
  BY FS_Difference
<1>3. {Cardinality(flight), Cardinality(flight'), Cardinality(flight \cap gone)} \subseteq Nat
  BY <1>1, FS_CardinalityType
<1>4. slots' = slots - Cardinality(flight \cap gone)
  BY DEF Freed
<1>5. elsewhere' = elsewhere => SlotsAreCounted'
  BY <1>2, <1>3, <1>4 DEF SlotsAreCounted
<1>6. /\ yielded' \in [Id -> 0 .. Length] /\ leftThere' \in [Id -> Nat] /\ quietThere' \in [Id -> Nat]
  OBVIOUS
<1> QED
  BY <1>1, <1>3, <1>4, <1>5, <1>6

\* A request is taken when its id is not in flight, and while there is a slot.
LEMMA DispatchStep ==
    ASSUME KeptThere, SlotsAreCounted, NEW c \in Id, c \notin flight, Dispatch(c), UNCHANGED elsewhere
    PROVE  /\ flight' \in SUBSET Id /\ IsFiniteSet(flight') /\ slots' \in Int
           /\ UNCHANGED <<yielded, leftThere, quietThere>>
           /\ SlotsAreCounted'
<1> USE Bounds DEF KeptThere
<1>1. Cardinality(flight) \in Nat /\ IsFiniteSet(flight \cup {c})
      /\ Cardinality(flight \cup {c}) = Cardinality(flight) + 1
  BY FS_CardinalityType, FS_AddElement
<1>2. CASE UNCHANGED <<flight, slots, yielded, leftThere, quietThere>>
  BY <1>2 DEF SlotsAreCounted
<1>3. CASE ~UNCHANGED <<flight, slots, yielded, leftThere, quietThere>>
  <2>1. /\ flight' = flight \cup {c} /\ slots' = slots + 1 /\ slots < MaxInFlight
        /\ UNCHANGED <<yielded, leftThere, quietThere>>
    BY <1>3 DEF Dispatch
  <2>2. SlotsAreCounted'
    BY <1>1, <2>1 DEF SlotsAreCounted
  <2> QED
    BY <1>1, <2>1, <2>2
<1> QED
  BY <1>2, <1>3

LEMMA KeptThereStep == FramesInv /\ [EnvelopeNext]_envelopeVars => KeptThere' /\ SlotsAreCounted'
<1> SUFFICES ASSUME KeptThere, SlotsAreCounted, Asked, OnTheWire, [EnvelopeNext]_envelopeVars
             PROVE  KeptThere' /\ SlotsAreCounted'
  BY DEF FramesInv
<1> USE Bounds
<1>1. ASSUME NEW c \in Id, Expires(c) \/ Returns(c) PROVE KeptThere' /\ SlotsAreCounted'
  <2>1. Settles({c}) /\ elsewhere' = elsewhere /\ there' = there
    BY <1>1 DEF Expires, Returns, TheirRest
  <2> QED
    BY <2>1, SettlesStep DEF KeptThere
<1>2. ASSUME NEW c \in Id, Yields(c) PROVE KeptThere' /\ SlotsAreCounted'
  BY <1>2 DEF Yields, TheirRest, Refreshed, KeptThere, SlotsAreCounted
<1>3. CASE RouterReceives
  <2>1. elsewhere' = elsewhere /\ there' = there
    BY <1>3 DEF RouterReceives, TheirRest
  <2>2. Head(up).id \in Id /\ Head(up) = up[1] /\ 1 \in DOMAIN up
    BY <1>3, HeadIs DEF RouterReceives, OnTheWire
  <2>3. CASE Head(up).kind = "req"
    <3>1. Head(up).id \notin flight /\ Dispatch(Head(up).id)
      BY <1>3, <2>2, <2>3 DEF RouterReceives, Asked
    <3> QED
      BY <2>1, <2>2, <3>1, DispatchStep DEF KeptThere
  <2>4. CASE Head(up).kind # "req"
    <3>1. Settles({Head(up).id})
      BY <1>3, <2>4 DEF RouterReceives
    <3> QED
      BY <2>1, <3>1, SettlesStep DEF KeptThere
  <2> QED
    BY <2>3, <2>4
<1>4. CASE RouterDisconnected
  <2>1. Settles(flight) /\ elsewhere' = elsewhere /\ there' = FALSE
    BY <1>4 DEF RouterDisconnected
  <2> QED
    BY <2>1, SettlesStep DEF KeptThere
<1>5. CASE Elsewhere
  <2>1. Cardinality(flight) \in Nat
    BY FS_CardinalityType DEF KeptThere
  <2>2. UNCHANGED <<flight, yielded, leftThere, there, quietThere>>
    BY <1>5 DEF Elsewhere
  <2>3. /\ slots' \in Int /\ elsewhere' \in Nat /\ slots' <= MaxInFlight
        /\ slots' - elsewhere' = slots - elsewhere
    BY <1>5 DEF Elsewhere, KeptThere, SlotsAreCounted
  <2> QED
    BY <2>1, <2>2, <2>3 DEF KeptThere, SlotsAreCounted
<1>6. CASE FramesTick
  BY <1>6 DEF FramesTick, Shorter, Longer, KeptThere, SlotsAreCounted
<1>7. CASE Connects
  BY <1>7 DEF Connects, KeptThere, SlotsAreCounted
<1>8. CASE \/ \E c \in Id : Call(c) \/ TimesOut(c) \/ Cancels(c) \/ Takes(c) \/ Done(c)
           \/ Receives \/ GoesDead \/ Disconnected \/ UNCHANGED envelopeVars
  <2>1. UNCHANGED router
    BY <1>8 DEF Call, TimesOut, Cancels, Fails, Takes, Done, Receives, GoesDead, Disconnected, envelopeVars
  <2> QED
    BY <2>1 DEF router, KeptThere, SlotsAreCounted
<1> QED
  BY <1>1, <1>2, <1>3, <1>4, <1>5, <1>6, <1>7, <1>8 DEF EnvelopeNext

LEMMA PeriodStep == FramesInv /\ [EnvelopeNext]_envelopeVars => OnePeriod'
<1> SUFFICES ASSUME Kept, KeptThere, OnTheWire, OnePeriod, [EnvelopeNext]_envelopeVars PROVE OnePeriod'
  BY DEF FramesInv
<1> USE Bounds DEF Kept, KeptThere, OnePeriod
<1>1. \A c \in Id : left'[c] + quiet'[c] = Silence
  <2>1. \/ UNCHANGED <<left, quiet>>
        \/ \E cs, why : Finishes(cs, why)
        \/ \E c \in Id : left' = Refreshed(left, c) /\ quiet' = [quiet EXCEPT ![c] = 0]
        \/ FramesTick
    <3>1. ASSUME Receives
          PROVE  \/ UNCHANGED <<left, quiet>>
                 \/ \E cs, why : Finishes(cs, why)
                 \/ \E c \in Id : left' = Refreshed(left, c) /\ quiet' = [quiet EXCEPT ![c] = 0]
      <4>1. Head(down).id \in Id
        BY <3>1, HeadIs DEF Receives, OnTheWire
      <4> QED
        BY <3>1, <4>1 DEF Receives
    <3> QED
      BY <3>1 DEF EnvelopeNext, envelopeVars, client, TimesOut, Cancels, Fails, Call, Takes, Done, Disconnected,
             GoesDead, Connects, Expires, Yields, Returns, RouterReceives, RouterDisconnected, Elsewhere, TheirRest
  <2>2. CASE UNCHANGED <<left, quiet>>
    BY <2>2
  <2>3. ASSUME NEW cs, NEW why, Finishes(cs, why) PROVE \A c \in Id : left'[c] + quiet'[c] = Silence
    BY <2>3 DEF Finishes
  <2>4. ASSUME NEW c \in Id, left' = Refreshed(left, c), quiet' = [quiet EXCEPT ![c] = 0]
        PROVE  \A d \in Id : left'[d] + quiet'[d] = Silence
    BY <2>4 DEF Refreshed
  <2>5. CASE FramesTick
    BY <2>5 DEF FramesTick, Shorter, Longer
  <2> QED
    BY <2>1, <2>2, <2>3, <2>4, <2>5
<1>2. \A c \in Id : leftThere'[c] + quietThere'[c] = Silence
  <2>1. \/ UNCHANGED <<leftThere, quietThere>>
        \/ \E gone : Settles(gone)
        \/ \E c \in Id : Yields(c)
        \/ FramesTick
    BY DEF EnvelopeNext, envelopeVars, router, TimesOut, Cancels, Fails, Call, Takes, Done, Disconnected,
           GoesDead, Connects, Expires, Returns, Receives, RouterReceives, Dispatch, RouterDisconnected, Elsewhere
  <2>2. CASE UNCHANGED <<leftThere, quietThere>>
    BY <2>2
  <2>3. ASSUME NEW gone, Settles(gone) PROVE \A c \in Id : leftThere'[c] + quietThere'[c] = Silence
    BY <2>3 DEF Settles
  <2>4. ASSUME NEW c \in Id, Yields(c) PROVE \A d \in Id : leftThere'[d] + quietThere'[d] = Silence
    BY <2>4 DEF Yields, Refreshed
  <2>5. CASE FramesTick
    BY <2>5 DEF FramesTick, Shorter, Longer
  <2> QED
    BY <2>1, <2>2, <2>3, <2>4, <2>5
<1> QED
  BY <1>1, <1>2

-----------------------------------------------------------------------------
(* What is under way *)

LEMMA SendsStep ==
    ASSUME OnTheWire, NEW kind \in {"req", "cancel"}, NEW c \in Id, Sends(Frame(kind, c))
    PROVE  up' \in Seq(Frames({"req", "cancel"})) /\ (~carries => up' = up)
<1>1. Frame(kind, c) \in Frames({"req", "cancel"})
  BY DEF Frame, Frames
<1> QED
  BY <1>1 DEF Sends, OnTheWire

LEMMA AnswersStep ==
    ASSUME OnTheWire, NEW kind \in {"stream", "end", "err"}, NEW c \in Id, Answers(Frame(kind, c))
    PROVE  down' \in Seq(Frames({"stream", "end", "err"})) /\ (~carries => down' = down)
<1>1. Frame(kind, c) \in Frames({"stream", "end", "err"})
  BY DEF Frame, Frames
<1> QED
  BY <1>1 DEF Answers, OnTheWire

\* What is broken carries nothing, and what carries nothing is empty.
LEMMA WireStep ==
    FramesInv /\ [EnvelopeNext]_envelopeVars
    => /\ OnTheWire'
       /\ carries' => here' /\ there'
       /\ ~carries' => up' = <<>> /\ down' = <<>>
<1> SUFFICES ASSUME Kept, KeptThere, OnTheWire, Connected, [EnvelopeNext]_envelopeVars
             PROVE  /\ OnTheWire'
                    /\ carries' => here' /\ there'
                    /\ ~carries' => up' = <<>> /\ down' = <<>>
  BY DEF FramesInv
<1> DEFINE Good == /\ OnTheWire'
                   /\ carries' => here' /\ there'
                   /\ ~carries' => up' = <<>> /\ down' = <<>>
<1>0. \/ up' = up /\ down' = down /\ UNCHANGED <<carries, here, there>>
      \/ Breaks
      \/ Connects
      \/ \E c \in Id : Call(c) \/ TimesOut(c) \/ Cancels(c) \/ Expires(c) \/ Yields(c) \/ Returns(c)
      \/ Receives \/ RouterReceives
  BY DEF EnvelopeNext, Takes, Done, GoesDead, Disconnected, RouterDisconnected, Elsewhere, FramesTick, wire,
         envelopeVars, client, router
<1>1. CASE up' = up /\ down' = down /\ UNCHANGED <<carries, here, there>>
  BY <1>1 DEF OnTheWire, Connected
<1>2. CASE Breaks
  <2>1. carries' = FALSE /\ up' = <<>> /\ down' = <<>>
    BY <1>2 DEF Breaks
  <2>2. <<>> \in Seq(Frames({"req", "cancel"})) /\ <<>> \in Seq(Frames({"stream", "end", "err"}))
    OBVIOUS
  <2> QED
    BY <2>1, <2>2 DEF OnTheWire
<1>3. CASE Connects
  BY <1>3 DEF Connects, OnTheWire
<1>4. ASSUME NEW c \in Id, Call(c) \/ TimesOut(c) \/ Cancels(c) PROVE Good
  <2>1. \E kind \in {"req", "cancel"} : Sends(Frame(kind, c))
    BY <1>4 DEF Call, TimesOut, Cancels, Fails
  <2>2. up' \in Seq(Frames({"req", "cancel"})) /\ (~carries => up' = up)
    BY <2>1, SendsStep
  <2>3. UNCHANGED <<down, carries, here, there>>
    BY <1>4 DEF Call, TimesOut, Cancels, Fails, router
  <2> QED
    BY <2>2, <2>3 DEF OnTheWire, Connected
<1>5. ASSUME NEW c \in Id, Expires(c) \/ Yields(c) \/ Returns(c) PROVE Good
  <2>1. \E kind \in {"stream", "end", "err"} : Answers(Frame(kind, c))
    BY <1>5 DEF Expires, Yields, Returns
  <2>2. down' \in Seq(Frames({"stream", "end", "err"})) /\ (~carries => down' = down)
    BY <2>1, AnswersStep
  <2>3. UNCHANGED <<up, carries, here, there>>
    BY <1>5 DEF Expires, Yields, Returns, TheirRest, client
  <2> QED
    BY <2>2, <2>3 DEF OnTheWire, Connected
<1>6. CASE Receives
  <2>1. carries /\ UNCHANGED <<carries, here, there>> /\ down # <<>>
    BY <1>6 DEF Receives, router, Connected, OnTheWire
  <2>2. Head(down).id \in Id /\ Tail(down) \in Seq(Frames({"stream", "end", "err"}))
    BY <2>1, HeadIs DEF OnTheWire
  <2>3. down' = Tail(down) /\ (up' = up \/ Sends(Frame("cancel", Head(down).id)))
    BY <1>6 DEF Receives
  <2>4. up' \in Seq(Frames({"req", "cancel"}))
    BY <2>2, <2>3, SendsStep DEF OnTheWire
  <2> QED
    BY <2>1, <2>2, <2>3, <2>4 DEF OnTheWire, Connected
<1>7. CASE RouterReceives
  <2>1. carries /\ UNCHANGED <<carries, here, there>> /\ up # <<>>
    BY <1>7 DEF RouterReceives, TheirRest, client, Connected, OnTheWire
  <2>2. Head(up).id \in Id /\ Tail(up) \in Seq(Frames({"req", "cancel"}))
    BY <2>1, HeadIs DEF OnTheWire
  <2>3. up' = Tail(up) /\ (down' = down \/ Answers(Frame("err", Head(up).id)))
    BY <1>7 DEF RouterReceives, Dispatch
  <2>4. down' \in Seq(Frames({"stream", "end", "err"}))
    BY <2>2, <2>3, AnswersStep DEF OnTheWire
  <2> QED
    BY <2>1, <2>2, <2>3, <2>4 DEF OnTheWire, Connected
<1> QED
  BY <1>0, <1>1, <1>2, <1>3, <1>4, <1>5, <1>6, <1>7

\* A side that lost the connection has nothing of it left.
LEMMA SidesStep ==
    FramesInv /\ [EnvelopeNext]_envelopeVars
    => /\ ~here' => \A c \in Id : call'[c] # "pending"
       /\ ~there' => flight' = {}
<1> SUFFICES ASSUME Kept, KeptThere, OnTheWire, Connected, [EnvelopeNext]_envelopeVars
             PROVE  /\ ~here' => \A c \in Id : call'[c] # "pending"
                    /\ ~there' => flight' = {}
  BY DEF FramesInv
<1>1. ASSUME ~here' PROVE \A c \in Id : call'[c] # "pending"
  <2>1. Disconnected \/ here' = here
    BY <1>1 DEF EnvelopeNext, envelopeVars, client, Call, TimesOut, Cancels, Fails, Takes, Done, Receives, GoesDead,
           Expires, Yields, Returns, TheirRest, RouterReceives, RouterDisconnected, Elsewhere, Connects, FramesTick
  <2>2. CASE Disconnected
    BY <2>2 DEF Disconnected, Finishes
  <2>3. CASE ~here
    <3>1. \A c \in Id : call[c] # "pending"
      BY <2>3 DEF Connected
    <3>2. \/ UNCHANGED call
          \/ \E c \in Id : Done(c)
      BY <1>1, <2>3, <3>1 DEF EnvelopeNext, envelopeVars, client, Call, TimesOut, Cancels, Fails, Takes, Receives,
             GoesDead, Expires, Yields, Returns, TheirRest, RouterReceives, RouterDisconnected, Elsewhere, Connects,
             FramesTick, Disconnected
    <3> QED
      BY <3>1, <3>2 DEF Done, Kept
  <2> QED
    BY <2>1, <2>2, <2>3, <1>1
<1>2. ASSUME ~there' PROVE flight' = {}
  <2>1. RouterDisconnected \/ there' = there
    BY <1>2 DEF EnvelopeNext, envelopeVars, router, Call, TimesOut, Cancels, Fails, Takes, Done, Receives, GoesDead,
           Expires, Yields, Returns, TheirRest, RouterReceives, Disconnected, Elsewhere, Connects, FramesTick
  <2>2. CASE RouterDisconnected
    BY <2>2 DEF RouterDisconnected, Settles
  <2>3. CASE ~there
    <3>1. flight = {}
      BY <2>3 DEF Connected
    <3>2. flight' = flight
      BY <1>2, <2>3, <3>1 DEF EnvelopeNext, envelopeVars, router, Call, TimesOut, Cancels, Fails, Takes, Done,
             Receives, GoesDead, Expires, Yields, Returns, RouterReceives, Disconnected, Elsewhere, Connects,
             FramesTick, RouterDisconnected
    <3> QED
      BY <3>1, <3>2
  <2> QED
    BY <1>2, <2>1, <2>2, <2>3
<1> QED
  BY <1>1, <1>2

LEMMA ClearedStep == FramesInv /\ [EnvelopeNext]_envelopeVars => Cleared'
<1> SUFFICES ASSUME Kept, KeptThere, OnTheWire, Cleared, [EnvelopeNext]_envelopeVars PROVE Cleared'
  BY DEF FramesInv
<1>1. ASSUME NEW c \in Id, call'[c] = "free" PROVE got'[c] = 0 /\ read'[c] = 0
  <2>1. CASE call[c] = "free"
    <3>1. got[c] = 0 /\ read[c] = 0
      BY <2>1 DEF Cleared
    <3>2. ASSUME NEW d \in Id, Takes(d) \/ Done(d) PROVE got'[c] = 0 /\ read'[c] = 0
      BY <2>1, <3>1, <3>2 DEF Takes, Done, Kept
    <3>3. CASE Receives
      <4>1. read' = read
        BY <3>3 DEF Receives
      <4>2. got'[c] = got[c]
        BY <2>1, <3>3 DEF Receives, Kept
      <4> QED
        BY <3>1, <4>1, <4>2
    <3>4. CASE ~Receives /\ ~(\E d \in Id : Takes(d) \/ Done(d))
      <4>1. UNCHANGED <<got, read>>
        BY <3>4 DEF EnvelopeNext, envelopeVars, client, Call, TimesOut, Cancels, Fails, Disconnected,
               GoesDead, Expires, Yields, Returns, TheirRest, RouterReceives, RouterDisconnected, Elsewhere,
               Connects, FramesTick
      <4> QED
        BY <3>1, <4>1
    <3> QED
      BY <3>2, <3>3, <3>4
  <2>2. CASE call[c] # "free"
    <3>1. Done(c)
      <4>1. ASSUME NEW cs, NEW why \in Outcome, Finishes(cs, why) PROVE FALSE
        BY <1>1, <2>2, <4>1 DEF Finishes, Outcome
      <4>2. ~Receives /\ ~Disconnected /\ \A d \in Id : ~TimesOut(d) /\ ~Cancels(d)
        BY <1>1, <2>2, <4>1 DEF Receives, Disconnected, TimesOut, Cancels, Fails, Outcome
      <4>3. ASSUME NEW d \in Id, Call(d) PROVE FALSE
        BY <1>1, <2>2, <4>3 DEF Call, Kept
      <4>4. ~UNCHANGED call
        BY <1>1, <2>2
      <4>5. \E d \in Id : Done(d)
        BY <4>2, <4>3, <4>4 DEF EnvelopeNext, envelopeVars, client, Takes, GoesDead, Expires, Yields, Returns,
               TheirRest, RouterReceives, RouterDisconnected, Elsewhere, Connects, FramesTick
      <4>6. PICK d \in Id : Done(d)
        BY <4>5
      <4>7. c = d
        BY <1>1, <2>2, <4>6 DEF Done, Kept
      <4> QED
        BY <4>6, <4>7
    <3> QED
      BY <3>1 DEF Done, Kept
  <2> QED
    BY <2>1, <2>2
<1>2. ASSUME NEW c \in Id, c \notin flight' PROVE yielded'[c] = 0
  <2>1. \/ \E gone : Settles(gone)
        \/ \E d \in Id : Yields(d)
        \/ flight \subseteq flight' /\ yielded' = yielded
    BY DEF EnvelopeNext, envelopeVars, router, TimesOut, Cancels, Fails, Call, Takes, Done, Disconnected,
           GoesDead, Connects, Expires, Returns, Receives, RouterReceives, Dispatch, RouterDisconnected, Elsewhere,
           FramesTick
  <2>2. ASSUME NEW gone, Settles(gone) PROVE yielded'[c] = 0
    BY <1>2, <2>2 DEF Settles, Cleared
  <2>3. ASSUME NEW d \in Id, Yields(d) PROVE yielded'[c] = 0
    BY <1>2, <2>3 DEF Yields, Cleared, KeptThere
  <2>4. CASE flight \subseteq flight' /\ yielded' = yielded
    BY <1>2, <2>4 DEF Cleared
  <2> QED
    BY <2>1, <2>2, <2>3, <2>4
<1> QED
  BY <1>1, <1>2 DEF Cleared

-----------------------------------------------------------------------------
(* Requests *)

LEMMA OfTheWire ==
    ASSUME OnTheWire
    PROVE  /\ Len(up) \in Nat /\ DOMAIN up = 1 .. Len(up) /\ Len(down) \in Nat /\ DOMAIN down = 1 .. Len(down)
           /\ \A i \in DOMAIN up : up[i] \in Frames({"req", "cancel"}) /\ up[i].id \in Id
           /\ \A i \in DOMAIN down : down[i] \in Frames({"stream", "end", "err"}) /\ down[i].id \in Id
<1>1. /\ Len(up) \in Nat /\ DOMAIN up = 1 .. Len(up) /\ Len(down) \in Nat /\ DOMAIN down = 1 .. Len(down)
      /\ \A i \in DOMAIN up : up[i] \in Frames({"req", "cancel"})
      /\ \A i \in DOMAIN down : down[i] \in Frames({"stream", "end", "err"})
  BY DEF OnTheWire
<1>2. \A kinds : \A f \in Frames(kinds) : f.id \in Id
  BY DEF Frames
<1> QED
  BY <1>1, <1>2

LEMMA UnusedIs ==
    ASSUME OnTheWire, NEW c \in Id, Unused(c)
    PROVE  /\ call[c] = "free" /\ c \notin flight
           /\ \A i \in DOMAIN up : up[i].id # c
           /\ \A i \in DOMAIN down : down[i].id # c
<1> DEFINE both == up \o down
<1>1. /\ Len(up) \in Nat /\ Len(down) \in Nat /\ DOMAIN up = 1 .. Len(up) /\ DOMAIN down = 1 .. Len(down)
  BY DEF OnTheWire
<1>2. /\ DOMAIN both = 1 .. Len(up) + Len(down)
      /\ \A i \in 1 .. Len(up) : both[i] = up[i]
      /\ \A i \in 1 .. Len(down) : both[Len(up) + i] = down[i]
  BY <1>1 DEF OnTheWire
<1>3. \A i \in DOMAIN both : both[i].id # c
  BY DEF Unused, About
<1>4. \A i \in DOMAIN up : up[i].id # c
  BY <1>1, <1>2, <1>3
<1>5. \A i \in DOMAIN down : Len(up) + i \in DOMAIN both
  BY <1>1, <1>2
<1>6. \A i \in DOMAIN down : down[i].id # c
  BY <1>1, <1>2, <1>3, <1>5
<1> QED
  BY <1>4, <1>6 DEF Unused

\* What a side sends is the last of what is under way, if it goes out at all.
LEMMA SentLast ==
    ASSUME OnTheWire, NEW kind \in {"req", "cancel"}, NEW c \in Id, Sends(Frame(kind, c))
    PROVE  /\ \A i \in DOMAIN up : i \in DOMAIN up' /\ up'[i] = up[i]
           /\ \A i \in DOMAIN up' : i \in DOMAIN up \/ up'[i] = Frame(kind, c)
<1>1. CASE up' = up
  BY <1>1
<1>2. CASE up' = Append(up, Frame(kind, c))
  BY <1>2 DEF OnTheWire
<1> QED
  BY <1>1, <1>2 DEF Sends

LEMMA AnsweredLast ==
    ASSUME OnTheWire, Connected, NEW kind \in {"stream", "end", "err"}, NEW c \in Id, Answers(Frame(kind, c))
    PROVE  /\ \A i \in DOMAIN down : i \in DOMAIN down' /\ down'[i] = down[i]
           /\ \A i \in DOMAIN down' : i \in DOMAIN down \/ (i = Len(down') /\ carries /\ down'[i] = Frame(kind, c))
           /\ \A f : /\ \A i \in DOMAIN down : Count(down', i, f) = Count(down, i, f)
                     /\ f # Frame(kind, c) => Count(down', Len(down'), f) = Count(down, Len(down), f)
                     /\ f = Frame(kind, c) /\ carries =>
                            Count(down', Len(down'), f) = Count(down, Len(down), f) + 1
<1>1. CASE ~carries
  <2>1. down' = down
    BY <1>1 DEF Answers
  <2> QED
    BY <1>1, <2>1
<1>2. CASE carries
  <2>1. down' = Append(down, Frame(kind, c))
    BY <1>2 DEF Answers, Connected
  <2> DEFINE S == Frames({"stream", "end", "err"})
  <2>2. down \in Seq(S) /\ Frame(kind, c) \in S
    BY DEF OnTheWire, Frame, Frames
  <2> HIDE DEF S
  <2>3. /\ Len(down) \in Nat /\ DOMAIN down = 1 .. Len(down)
        /\ Len(down') = Len(down) + 1 /\ DOMAIN down' = 1 .. Len(down) + 1
        /\ \A i \in 1 .. Len(down) : down'[i] = down[i]
        /\ down'[Len(down) + 1] = Frame(kind, c)
    BY <2>1, <2>2
  <2>4. \A f : /\ \A n \in 0 .. Len(down) : Count(down', n, f) = Count(down, n, f)
               /\ Frame(kind, c) # f => Count(down', Len(down) + 1, f) = Count(down, Len(down), f)
               /\ Frame(kind, c) = f => Count(down', Len(down) + 1, f) = Count(down, Len(down), f) + 1
    BY <2>1, <2>2, CountAppend
  <2> QED
    BY <1>2, <2>3, <2>4
<1> QED
  BY <1>1, <1>2 DEF OnTheWire

LEMMA FramesDiffer ==
    \A k1, k2, c, d : Frame(k1, c) = Frame(k2, d) <=> k1 = k2 /\ c = d
<1> TAKE k1, k2, c, d
<1>1. Frame(k1, c).kind = k1 /\ Frame(k1, c).id = c /\ Frame(k2, d).kind = k2 /\ Frame(k2, d).id = d
  BY DEF Frame
<1> QED
  BY <1>1

\* What waits waits since its call, and only what comes in is counted.
LEMMA WaitsSince ==
    ASSUME Kept, OnTheWire, [EnvelopeNext]_envelopeVars, NEW c \in Id, call'[c] = "pending"
    PROVE  \/ Call(c)
           \/ /\ call[c] = "pending"
              /\ ~(Receives /\ Head(down).id = c) => got'[c] = got[c]
<1>0. SUFFICES ASSUME ~Call(c)
               PROVE  /\ call[c] = "pending"
                      /\ ~(Receives /\ Head(down).id = c) => got'[c] = got[c]
  OBVIOUS
<1>1. ASSUME NEW d \in Id, Call(d) \/ Takes(d) \/ Done(d) PROVE call[c] = "pending" /\ got'[c] = got[c]
  <2>1. CASE Call(d)
    <3>1. d # c
      BY <1>0, <2>1
    <3> QED
      BY <2>1, <3>1 DEF Call, Kept
  <2>2. CASE Takes(d)
    BY <2>2 DEF Takes
  <2>3. CASE Done(d)
    BY <2>3 DEF Done, Kept
  <2> QED
    BY <1>1, <2>1, <2>2, <2>3
<1>2. ASSUME NEW cs, NEW why \in Outcome, Finishes(cs, why) PROVE call[c] = "pending"
  BY <1>2 DEF Finishes, Outcome
<1>3. ASSUME NEW d \in Id, TimesOut(d) \/ Cancels(d) PROVE call[c] = "pending" /\ got'[c] = got[c]
  BY <1>2, <1>3 DEF TimesOut, Cancels, Fails, Outcome
<1>4. CASE Disconnected
  BY <1>2, <1>4 DEF Disconnected, Outcome
<1>5. CASE Receives
  <2>1. call[c] = "pending"
    BY <1>2, <1>5 DEF Receives, Outcome
  <2>2. Head(down).id # c => got'[c] = got[c]
    BY <1>5 DEF Receives, Kept
  <2> QED
    BY <1>5, <2>1, <2>2
<1>6. CASE \/ \E d \in Id : Expires(d) \/ Yields(d) \/ Returns(d)
           \/ RouterReceives \/ RouterDisconnected \/ Elsewhere \/ GoesDead \/ Connects \/ FramesTick
           \/ UNCHANGED envelopeVars
  <2>1. UNCHANGED <<call, got>>
    BY <1>6 DEF Expires, Yields, Returns, RouterReceives, RouterDisconnected, Elsewhere, GoesDead, TheirRest,
                Connects, FramesTick, envelopeVars, client
  <2> QED
    BY <2>1
<1> QED
  BY <1>1, <1>3, <1>4, <1>5, <1>6 DEF EnvelopeNext

LEMMA AskedStep == FramesInv /\ [EnvelopeNext]_envelopeVars => Asked'
<1> SUFFICES ASSUME FramesInv, [EnvelopeNext]_envelopeVars,
                    NEW i \in DOMAIN up', up'[i].kind = "req"
             PROVE  /\ up'[i].id \notin flight'
                    /\ \A j \in DOMAIN up' : j # i /\ up'[j].kind = "req" => up'[j].id # up'[i].id
                    /\ \A j \in DOMAIN down' : down'[j].id # up'[i].id
                    /\ call'[up'[i].id] = "pending" => got'[up'[i].id] = 0
  BY DEF Asked
<1> DEFINE Good == /\ up'[i].id \notin flight'
                   /\ \A j \in DOMAIN up' : j # i /\ up'[j].kind = "req" => up'[j].id # up'[i].id
                   /\ \A j \in DOMAIN down' : down'[j].id # up'[i].id
                   /\ call'[up'[i].id] = "pending" => got'[up'[i].id] = 0
<1>0. Kept /\ KeptThere /\ OnTheWire /\ Connected /\ Cleared /\ Asked
  BY DEF FramesInv
<1>1. ASSUME NEW c \in Id, Call(c) PROVE Good
  <2>1. Unused(c) /\ Sends(Frame("req", c)) /\ UNCHANGED <<flight, down, got>>
    BY <1>1 DEF Call, router
  <2>2. /\ call[c] = "free" /\ c \notin flight
        /\ \A j \in DOMAIN up : up[j].id # c
        /\ \A j \in DOMAIN down : down[j].id # c
    BY <1>0, <2>1, UnusedIs
  <2>3. CASE up' = up
    <3>1. up[i].id # c
      BY <2>2, <2>3
    <3>2. up[i].id \in Id
      BY <1>0, <2>3, OfTheWire
    <3> QED
      BY <1>0, <1>1, <2>1, <2>3, <3>1, <3>2 DEF Asked, Call, Kept
  <2>4. CASE up' = Append(up, Frame("req", c))
    <3>1. /\ Len(up) \in Nat /\ DOMAIN up = 1 .. Len(up) /\ DOMAIN up' = 1 .. Len(up) + 1
          /\ \A j \in DOMAIN up : up'[j] = up[j] /\ up[j].id \in Id
          /\ up'[Len(up) + 1].kind = "req" /\ up'[Len(up) + 1].id = c
      <4>1. Frame("req", c) \in Frames({"req", "cancel"}) /\ Frame("req", c).kind = "req" /\ Frame("req", c).id = c
        BY DEF Frames, Frame
      <4>2. /\ DOMAIN up' = 1 .. Len(up) + 1 /\ up'[Len(up) + 1] = Frame("req", c)
            /\ \A j \in DOMAIN up : up'[j] = up[j]
        BY <1>0, <2>4, <4>1 DEF OnTheWire
      <4> QED
        BY <1>0, <4>1, <4>2, OfTheWire
    <3>2. CASE i = Len(up) + 1
      BY <1>0, <2>1, <2>2, <3>1, <3>2 DEF Cleared
    <3>3. CASE i \in DOMAIN up
      <4>1. up'[i] = up[i] /\ up[i].id # c /\ up[i].kind = "req" /\ up[i].id \in Id
        BY <2>2, <3>1, <3>3
      <4>2. call'[up[i].id] = call[up[i].id]
        BY <1>0, <1>1, <4>1 DEF Call, Kept
      <4>3. \A j \in DOMAIN up' : j # i /\ up'[j].kind = "req" => up'[j].id # up'[i].id
        BY <1>0, <3>1, <3>3, <4>1 DEF Asked
      <4> QED
        BY <1>0, <2>1, <3>3, <4>1, <4>2, <4>3 DEF Asked
    <3> QED
      BY <3>1, <3>2, <3>3
  <2> QED
    BY <2>1, <2>3, <2>4 DEF Sends
<1>2. ASSUME NEW c \in Id, Sends(Frame("cancel", c)) \/ up' = up,
             flight' \subseteq flight,
             down' = down \/ (down # <<>> /\ down' = Tail(down))
                          \/ \E d \in flight, kind \in {"stream", "end", "err"} : Answers(Frame(kind, d))
      PROVE  Good
  <2>1. i \in DOMAIN up /\ up'[i] = up[i] /\ up[i].kind = "req"
        /\ \A j \in DOMAIN up' : up'[j].kind = "req" => j \in DOMAIN up /\ up'[j] = up[j]
    <3>1. CASE up' = up
      BY <3>1
    <3>2. CASE Sends(Frame("cancel", c))
      <4>1. Frame("cancel", c).kind # "req"
        BY DEF Frame
      <4> QED
        BY <1>0, <3>2, <4>1, SentLast
    <3> QED
      BY <1>2, <3>1, <3>2
  <2>2. up[i].id \in Id /\ up[i].id \notin flight /\ \A j \in DOMAIN down : down[j].id # up[i].id
    BY <1>0, <2>1, OfTheWire DEF Asked
  <2>3. \A j \in DOMAIN down' : down'[j].id # up[i].id
    <3>1. CASE down' = down
      BY <2>2, <3>1
    <3>2. CASE down # <<>> /\ down' = Tail(down)
      BY <1>0, <2>2, <3>2, HeadIs DEF OnTheWire
    <3>3. ASSUME NEW d \in flight, NEW kind \in {"stream", "end", "err"}, Answers(Frame(kind, d))
          PROVE  \A j \in DOMAIN down' : down'[j].id # up[i].id
      <4>1. d \in Id /\ d # up[i].id /\ Frame(kind, d).id = d
        BY <1>0, <2>2 DEF KeptThere, Frame
      <4> QED
        BY <1>0, <2>2, <3>3, <4>1, AnsweredLast
    <3> QED
      BY <1>2, <3>1, <3>2, <3>3
  <2>4. call'[up[i].id] = "pending" => got'[up[i].id] = 0
    <3>1. SUFFICES ASSUME call'[up[i].id] = "pending" PROVE got'[up[i].id] = 0
      OBVIOUS
    <3>2. Receives => Head(down).id # up[i].id
      BY <1>0, <2>2, HeadIs DEF Receives, OnTheWire
    <3>3. ~Call(up[i].id)
      BY <1>0, <2>1, <2>2, UnusedIs DEF Call
    <3>4. call[up[i].id] = "pending" /\ got'[up[i].id] = got[up[i].id]
      BY <1>0, <1>2, <2>2, <3>1, <3>2, <3>3, WaitsSince
    <3> QED
      BY <1>0, <2>1, <3>4 DEF Asked
  <2> QED
    BY <1>0, <1>2, <2>1, <2>2, <2>3, <2>4 DEF Asked
<1>3. CASE RouterReceives
  <2>1. /\ up # <<>> /\ up' = Tail(up) /\ UNCHANGED <<call, got>>
        /\ Head(up) = up[1] /\ 1 \in DOMAIN up /\ Head(up).id \in Id
        /\ \A j \in DOMAIN Tail(up) : j \in Nat /\ j + 1 \in DOMAIN up /\ j + 1 # 1 /\ Tail(up)[j] = up[j + 1]
    BY <1>0, <1>3, HeadIs DEF RouterReceives, TheirRest, client, OnTheWire
  <2>2. i \in Nat /\ i + 1 \in DOMAIN up /\ i + 1 # 1 /\ up'[i] = up[i + 1] /\ up[i + 1].kind = "req"
    BY <2>1
  <2>3. /\ up[i + 1].id \notin flight
        /\ \A j \in DOMAIN up : j # i + 1 /\ up[j].kind = "req" => up[j].id # up[i + 1].id
        /\ \A j \in DOMAIN down : down[j].id # up[i + 1].id
        /\ call[up[i + 1].id] = "pending" => got[up[i + 1].id] = 0
    BY <1>0, <2>2 DEF Asked
  <2>4. \A j \in DOMAIN up' : j # i /\ up'[j].kind = "req" => up'[j].id # up'[i].id
    <3> TAKE j \in DOMAIN up'
    <3>1. j \in Nat /\ j + 1 \in DOMAIN up /\ up'[j] = up[j + 1] /\ (j # i => j + 1 # i + 1)
      BY <2>1, <2>2
    <3> QED
      BY <2>2, <2>3, <3>1
  <2>5. CASE Head(up).kind = "req"
    <3>1. Head(up).id # up[i + 1].id /\ Dispatch(Head(up).id)
      BY <1>3, <2>1, <2>2, <2>3, <2>5 DEF RouterReceives
    <3>2. \/ flight' = flight /\ Answers(Frame("err", Head(up).id))
          \/ flight' = flight \cup {Head(up).id} /\ down' = down
      BY <3>1 DEF Dispatch
    <3>3. Frame("err", Head(up).id).id = Head(up).id
      BY DEF Frame
    <3>4. Answers(Frame("err", Head(up).id)) => \A j \in DOMAIN down' : down'[j].id # up[i + 1].id
      BY <1>0, <2>1, <2>3, <3>1, <3>3, AnsweredLast
    <3> QED
      BY <2>1, <2>2, <2>3, <2>4, <3>1, <3>2, <3>4
  <2>6. CASE Head(up).kind # "req"
    <3>1. flight' \subseteq flight /\ down' = down
      BY <1>3, <2>6 DEF RouterReceives, Settles
    <3> QED
      BY <2>1, <2>2, <2>3, <2>4, <3>1
  <2> QED
    BY <2>5, <2>6
<1>4. ASSUME NEW c \in Id, TimesOut(c) \/ Cancels(c) \/ Takes(c) \/ Done(c) PROVE Good
  <2>1. Sends(Frame("cancel", c)) \/ up' = up
    BY <1>4 DEF TimesOut, Cancels, Takes, Done, Fails, wire
  <2>2. flight' = flight /\ down' = down
    BY <1>4 DEF TimesOut, Cancels, Takes, Done, Fails, wire, router
  <2> QED
    BY <1>2, <2>1, <2>2
<1>5. ASSUME NEW c \in Id, Expires(c) \/ Yields(c) \/ Returns(c) PROVE Good
  <2>1. up' = up /\ flight' \subseteq flight /\ c \in flight
    BY <1>5 DEF Expires, Yields, Returns, Settles
  <2>2. \E kind \in {"stream", "end", "err"} : Answers(Frame(kind, c))
    BY <1>5 DEF Expires, Yields, Returns
  <2> QED
    BY <1>2, <2>1, <2>2
<1>6. CASE Receives
  <2>1. /\ flight' = flight /\ down # <<>> /\ down' = Tail(down)
        /\ up' = up \/ Sends(Frame("cancel", Head(down).id))
    BY <1>6 DEF Receives, router
  <2>2. Head(down).id \in Id
    BY <1>0, <2>1, HeadIs DEF OnTheWire
  <2> QED
    BY <1>2, <2>1, <2>2
<1>7. CASE GoesDead \/ Disconnected \/ RouterDisconnected
  BY <1>7 DEF GoesDead, Disconnected, RouterDisconnected, Breaks
<1>8. CASE Elsewhere \/ Connects \/ FramesTick \/ UNCHANGED envelopeVars
  <2>1. up' = up /\ down' = down /\ flight' = flight
    BY <1>8 DEF Elsewhere, Connects, FramesTick, wire, router, envelopeVars
  <2>2. up[i].id \in Id
    BY <1>0, <2>1, OfTheWire
  <2> QED
    BY <1>2, <2>1, <2>2
<1> QED
  BY <1>1, <1>3, <1>4, <1>5, <1>6, <1>7, <1>8 DEF EnvelopeNext

-----------------------------------------------------------------------------
(* Streams *)

StreamOf(c) == Frame("stream", c)

\* What the invariant says of one call.
CountedOf(c) ==
    call[c] = "pending" /\ carries /\ c \in flight =>
        /\ \A i \in DOMAIN down : down[i] # Frame("end", c)
        /\ got[c] + Count(down, Len(down), StreamOf(c)) = yielded[c]

EndedOf(c) ==
    call[c] = "pending" =>
        \A i \in DOMAIN down : down[i] = Frame("end", c) => got[c] + Count(down, i, StreamOf(c)) = Length

\* A call that is made has nothing under way, and nothing in flight.
LEMMA CallStream ==
    ASSUME FramesInv, NEW c \in Id, NEW d \in Id, Call(d)
    PROVE  CountedOf(c)' /\ EndedOf(c)'
<1>1. Kept /\ OnTheWire /\ CountedOf(c) /\ EndedOf(c)
  BY DEF FramesInv, Counted, Ended, CountedOf, EndedOf, StreamOf
<1>2. Unused(d) /\ UNCHANGED <<flight, yielded, down, carries, got>> /\ call' = [call EXCEPT ![d] = "pending"]
  BY DEF Call, router
<1>3. CASE c = d
  <2>1. c \notin flight' /\ \A i \in DOMAIN down' : down'[i].id # c
    BY <1>1, <1>2, <1>3, UnusedIs
  <2>2. Frame("end", c).id = c
    BY DEF Frame
  <2> QED
    BY <2>1, <2>2 DEF CountedOf, EndedOf
<1>4. CASE c # d
  <2>1. call'[c] = call[c]
    BY <1>1, <1>2, <1>4 DEF Kept
  <2> QED
    BY <1>1, <1>2, <2>1 DEF CountedOf, EndedOf
<1> QED
  BY <1>3, <1>4

\* What comes in was under way.
LEMMA ReceivesStream ==
    ASSUME FramesInv, NEW c \in Id, Receives
    PROVE  CountedOf(c)' /\ EndedOf(c)' /\ (call'[c] = "ok" => call[c] = "ok" \/ got'[c] = Length)
           /\ (call[c] = "ok" => got'[c] = got[c])
           /\ (call'[c] = "pending" => got'[c] + Count(down', Len(down'), StreamOf(c))
                                          = got[c] + Count(down, Len(down), StreamOf(c)))
           /\ (call'[c] # "pending" => got'[c] = got[c])
<1>1. Kept /\ KeptThere /\ OnTheWire /\ CountedOf(c) /\ EndedOf(c)
  BY DEF FramesInv, Counted, Ended, CountedOf, EndedOf, StreamOf
<1> DEFINE f == Head(down)
<1>2. /\ down # <<>> /\ down' = Tail(down) /\ f = down[1] /\ f.id \in Id /\ f.kind \in {"stream", "end", "err"}
      /\ f \in Frames({"stream", "end", "err"})
      /\ Len(down) \in Nat /\ Len(down) > 0 /\ DOMAIN down = 1 .. Len(down)
      /\ Len(down') = Len(down) - 1 /\ DOMAIN down' = 1 .. Len(down) - 1
      /\ \A i \in DOMAIN down' : i + 1 \in DOMAIN down /\ down'[i] = down[i + 1]
  <2>1. down # <<>> /\ down' = Tail(down)
    BY DEF Receives
  <2>2. /\ f = down[1] /\ f.id \in Id /\ f.kind \in {"stream", "end", "err"}
        /\ f \in Frames({"stream", "end", "err"})
        /\ Len(down) \in Nat /\ 1 \in DOMAIN down /\ DOMAIN down = 1 .. Len(down)
        /\ Len(down') = Len(down) - 1
        /\ \A i \in DOMAIN down' : i + 1 \in DOMAIN down /\ down'[i] = down[i + 1]
    BY <1>1, <2>1, HeadIs DEF OnTheWire
  <2>3. DOMAIN down' = 1 .. Len(down) - 1
    BY <1>1, <2>1, <2>2 DEF OnTheWire
  <2> QED
    BY <2>1, <2>2, <2>3
<1>3. UNCHANGED <<flight, yielded, carries>>
  BY DEF Receives, router
<1>4. \A kind : f = Frame(kind, c) <=> f.kind = kind /\ f.id = c
  BY <1>2 DEF Frame, Frames
<1>5. \A n \in 1 .. Len(down) :
          /\ f # StreamOf(c) => Count(down', n - 1, StreamOf(c)) = Count(down, n, StreamOf(c))
          /\ f = StreamOf(c) => Count(down', n - 1, StreamOf(c)) + 1 = Count(down, n, StreamOf(c))
  BY <1>1, <1>2, CountTail DEF OnTheWire
<1>6. \A n \in Nat : Count(down, n, StreamOf(c)) \in Nat /\ Count(down', n, StreamOf(c)) \in Nat
  BY CountIsNat
<1>7. ASSUME call[c] = "pending", call'[c] = "pending"
      PROVE  \/ f # StreamOf(c) /\ got'[c] = got[c]
             \/ f = StreamOf(c) /\ got'[c] = got[c] + 1
  <2>1. CASE f.id # c
    BY <1>1, <1>4, <2>1 DEF Receives, Kept, StreamOf
  <2>2. CASE f.id = c
    <3>1. \A cs, why : Finishes({c}, why) => call'[c] = why
      BY DEF Finishes
    <3>2. f.kind = "stream" /\ ~Overflows(c) /\ got' = IF got[c] - read[c] < Room THEN [got EXCEPT ![c] = @ + 1] ELSE got
      BY <1>7, <2>2, <3>1 DEF Receives
    <3>3. got[c] - read[c] < Room
      BY <1>1, <3>2, Bounds DEF Overflows, Kept
    <3> QED
      BY <1>1, <1>4, <2>2, <3>2, <3>3 DEF Kept, StreamOf
  <2> QED
    BY <2>1, <2>2
<1>8. call'[c] = "pending" => call[c] = "pending"
  BY <1>1, WaitsSince DEF Receives, Call, EnvelopeNext
<1>9. ASSUME call'[c] = "pending"
      PROVE  /\ CountedOf(c)' /\ EndedOf(c)'
             /\ got'[c] + Count(down', Len(down'), StreamOf(c)) = got[c] + Count(down, Len(down), StreamOf(c))
  <2>1. got'[c] \in Int /\ got[c] \in Nat
    BY <1>1, <1>7, <1>8, <1>9 DEF Kept
  <2>2. \A n \in 1 .. Len(down) : got'[c] + Count(down', n - 1, StreamOf(c)) = got[c] + Count(down, n, StreamOf(c))
    <3> TAKE n \in 1 .. Len(down)
    <3> DEFINE before == Count(down', n - 1, StreamOf(c))
               upTo == Count(down, n, StreamOf(c))
    <3>1. before \in Nat /\ upTo \in Nat
      <4>1. n - 1 \in Nat /\ n \in Nat
        BY <1>2
      <4> QED
        BY <1>6, <4>1
    <3>2. \/ before = upTo /\ got'[c] = got[c]
          \/ before + 1 = upTo /\ got'[c] = got[c] + 1
      BY <1>5, <1>7, <1>8, <1>9
    <3> HIDE DEF before, upTo
    <3>3. got'[c] + before = got[c] + upTo
      BY <2>1, <3>1, <3>2
    <3> QED
      BY <3>3 DEF before, upTo
  <2>3. CountedOf(c)'
    <3>1. SUFFICES ASSUME carries', c \in flight' PROVE CountedOf(c)'
      BY DEF CountedOf
    <3>2. /\ \A i \in DOMAIN down : down[i] # Frame("end", c)
          /\ got[c] + Count(down, Len(down), StreamOf(c)) = yielded[c]
      BY <1>1, <1>3, <1>8, <1>9, <3>1 DEF CountedOf
    <3>3. \A i \in DOMAIN down' : down'[i] # Frame("end", c)
      BY <1>2, <3>2
    <3>4. got'[c] + Count(down', Len(down'), StreamOf(c)) = yielded'[c]
      BY <1>2, <1>3, <2>2, <3>2
    <3> QED
      BY <3>3, <3>4 DEF CountedOf
  <2>4. EndedOf(c)'
    <3>1. SUFFICES ASSUME NEW i \in DOMAIN down', down'[i] = Frame("end", c)
                   PROVE  got'[c] + Count(down', i, StreamOf(c)) = Length
      BY DEF EndedOf, StreamOf
    <3>2. i \in Nat /\ i + 1 \in 1 .. Len(down) /\ (i + 1) - 1 = i /\ down[i + 1] = Frame("end", c)
      BY <1>2, <3>1
    <3>3. got[c] + Count(down, i + 1, StreamOf(c)) = Length
      BY <1>1, <1>2, <1>8, <1>9, <3>2 DEF EndedOf
    <3> QED
      BY <2>2, <3>2, <3>3
  <2>5. got'[c] + Count(down', Len(down'), StreamOf(c)) = got[c] + Count(down, Len(down), StreamOf(c))
    BY <1>2, <2>2
  <2> QED
    BY <2>3, <2>4, <2>5
<1>10. ASSUME call'[c] = "ok", call[c] # "ok" PROVE got'[c] = Length
  <2>1. \A cs, why : Finishes(cs, why) => call'[c] = call[c] \/ (c \in cs /\ call'[c] = why)
    BY DEF Finishes
  <2>2. f.kind = "end" /\ f.id = c /\ call[c] = "pending" /\ UNCHANGED got
    BY <1>10, <2>1 DEF Receives
  <2>3. down[1] = Frame("end", c) /\ f # StreamOf(c)
    BY <1>2, <1>4, <2>2 DEF StreamOf
  <2>4. got[c] + Count(down, 1, StreamOf(c)) = Length
    BY <1>1, <1>2, <2>2, <2>3 DEF EndedOf
  <2>5. Count(down, 1, StreamOf(c)) = 0
    BY <1>2, <2>3, CountNone
  <2> QED
    BY <1>1, <2>2, <2>4, <2>5 DEF Kept
<1>11. call[c] = "ok" => got'[c] = got[c]
  <2>1. SUFFICES ASSUME call[c] = "ok" PROVE got'[c] = got[c]
    OBVIOUS
  <2> QED
    BY <1>1, <2>1 DEF Receives, Kept
<1>12. ASSUME call'[c] # "pending" PROVE CountedOf(c)' /\ EndedOf(c)' /\ got'[c] = got[c]
  <2>1. CASE f.id = c /\ call[c] = "pending"
    <3>1. ~(call' = call)
      BY <1>12, <2>1
    <3>2. UNCHANGED got
      BY <2>1, <3>1 DEF Receives
    <3> QED
      BY <1>12, <3>2 DEF CountedOf, EndedOf
  <2>2. CASE f.id # c
    BY <1>1, <1>12, <2>2 DEF Receives, Kept, CountedOf, EndedOf
  <2>3. CASE f.id = c /\ call[c] # "pending"
    BY <1>12, <2>3 DEF Receives, CountedOf, EndedOf
  <2> QED
    BY <2>1, <2>2, <2>3
<1> QED
  BY <1>9, <1>10, <1>11, <1>12

\* An end follows the items of its stream, and an item one more of them.
LEMMA AnswersStream ==
    ASSUME FramesInv, NEW c \in Id, NEW d \in Id, Expires(d) \/ Yields(d) \/ Returns(d)
    PROVE  CountedOf(c)' /\ EndedOf(c)'
<1>1. Kept /\ KeptThere /\ OnTheWire /\ Connected /\ CountedOf(c) /\ EndedOf(c)
  BY DEF FramesInv, Counted, Ended, CountedOf, EndedOf, StreamOf
<1>2. UNCHANGED <<call, got, carries>> /\ d \in flight
  BY DEF Expires, Yields, Returns, TheirRest, client
<1>3. PICK kind \in {"stream", "end", "err"} :
          /\ Answers(Frame(kind, d))
          /\ kind = "stream" => Yields(d)
          /\ kind = "end" => Settles({d}) /\ yielded[d] = Length
          /\ kind = "err" => Settles({d})
  BY DEF Expires, Yields, Returns
<1>4. /\ \A i \in DOMAIN down : i \in DOMAIN down' /\ down'[i] = down[i]
      /\ \A i \in DOMAIN down' : i \in DOMAIN down \/ (i = Len(down') /\ carries /\ down'[i] = Frame(kind, d))
      /\ \A i \in DOMAIN down : Count(down', i, StreamOf(c)) = Count(down, i, StreamOf(c))
      /\ StreamOf(c) # Frame(kind, d) => Count(down', Len(down'), StreamOf(c)) = Count(down, Len(down), StreamOf(c))
      /\ StreamOf(c) = Frame(kind, d) /\ carries =>
             Count(down', Len(down'), StreamOf(c)) = Count(down, Len(down), StreamOf(c)) + 1
  BY <1>1, <1>3, AnsweredLast
<1>5. /\ StreamOf(c) = Frame(kind, d) <=> kind = "stream" /\ c = d
      /\ Frame(kind, d) = Frame("end", c) <=> kind = "end" /\ c = d
  BY FramesDiffer DEF StreamOf
<1>6. Len(down) \in Nat /\ Count(down, Len(down), StreamOf(c)) \in Nat
  BY <1>1, OfTheWire, CountIsNat
<1>7. CountedOf(c)'
  <2>1. SUFFICES ASSUME call[c] = "pending", carries, c \in flight'
                 PROVE  /\ \A i \in DOMAIN down' : down'[i] # Frame("end", c)
                        /\ got[c] + Count(down', Len(down'), StreamOf(c)) = yielded'[c]
    BY <1>2 DEF CountedOf
  <2>2. c \in flight /\ (c = d => kind = "stream")
    BY <1>3, <2>1 DEF Settles, Yields
  <2>3. /\ \A i \in DOMAIN down : down[i] # Frame("end", c)
        /\ got[c] + Count(down, Len(down), StreamOf(c)) = yielded[c]
    BY <1>1, <2>1, <2>2 DEF CountedOf
  <2>4. \A i \in DOMAIN down' : down'[i] # Frame("end", c)
    BY <1>4, <1>5, <2>2, <2>3
  <2>5. CASE c = d
    <3>1. yielded'[c] = yielded[c] + 1
      BY <1>1, <1>3, <2>2, <2>5 DEF Yields, KeptThere
    <3>2. Count(down', Len(down'), StreamOf(c)) = Count(down, Len(down), StreamOf(c)) + 1
      BY <1>4, <1>5, <2>1, <2>2, <2>5
    <3>3. got[c] \in Nat
      BY <1>1 DEF Kept
    <3> QED
      BY <1>6, <2>3, <2>4, <3>1, <3>2, <3>3
  <2>6. CASE c # d
    <3>1. yielded'[c] = yielded[c]
      BY <1>1, <1>3, <2>6 DEF Yields, Settles, KeptThere
    <3>2. Count(down', Len(down'), StreamOf(c)) = Count(down, Len(down), StreamOf(c))
      BY <1>4, <1>5, <2>6
    <3> QED
      BY <2>3, <2>4, <3>1, <3>2
  <2> QED
    BY <2>5, <2>6
<1>8. EndedOf(c)'
  <2>1. SUFFICES ASSUME call[c] = "pending", NEW i \in DOMAIN down', down'[i] = Frame("end", c)
                 PROVE  got[c] + Count(down', i, StreamOf(c)) = Length
    BY <1>2 DEF EndedOf, StreamOf
  <2>2. CASE i \in DOMAIN down
    <3>1. down[i] = Frame("end", c) /\ Count(down', i, StreamOf(c)) = Count(down, i, StreamOf(c))
      BY <1>4, <2>1, <2>2
    <3> QED
      BY <1>1, <2>1, <2>2, <3>1 DEF EndedOf
  <2>3. CASE i \notin DOMAIN down
    <3>1. i = Len(down') /\ carries /\ kind = "end" /\ c = d
      BY <1>4, <1>5, <2>1, <2>3
    <3>2. yielded[c] = Length /\ c \in flight
      BY <1>2, <1>3, <3>1
    <3>3. got[c] + Count(down, Len(down), StreamOf(c)) = Length
      BY <1>1, <2>1, <3>1, <3>2 DEF CountedOf
    <3>4. Count(down', Len(down'), StreamOf(c)) = Count(down, Len(down), StreamOf(c))
      BY <1>4, <1>5, <3>1
    <3> QED
      BY <3>1, <3>3, <3>4
  <2> QED
    BY <2>2, <2>3
<1> QED
  BY <1>7, <1>8

\* A request that is taken on has nothing behind it, and one that is refused no end.
LEMMA RouterStream ==
    ASSUME FramesInv, NEW c \in Id, RouterReceives
    PROVE  CountedOf(c)' /\ EndedOf(c)'
<1>1. Kept /\ KeptThere /\ OnTheWire /\ Connected /\ Cleared /\ Asked /\ CountedOf(c) /\ EndedOf(c)
  BY DEF FramesInv, Counted, Ended, CountedOf, EndedOf, StreamOf
<1>2. up # <<>> /\ UNCHANGED <<call, got, carries>>
  BY DEF RouterReceives, TheirRest, client
<1>3. Head(up) = up[1] /\ 1 \in DOMAIN up /\ Head(up).id \in Id
  BY <1>1, <1>2, HeadIs DEF OnTheWire
<1> DEFINE d == Head(up).id
<1>4. CASE Head(up).kind # "req"
  <2>1. down' = down /\ flight' \subseteq flight /\ (c \in flight' => yielded'[c] = yielded[c])
    BY <1>1, <1>4 DEF RouterReceives, Settles, KeptThere
  <2> QED
    BY <1>1, <1>2, <2>1 DEF CountedOf, EndedOf
<1>5. CASE Head(up).kind = "req"
  <2>1. Dispatch(d) /\ d \notin flight /\ \A i \in DOMAIN down : down[i].id # d
    BY <1>1, <1>3, <1>5 DEF RouterReceives, Asked
  <2>2. CASE flight' = flight /\ yielded' = yielded /\ Answers(Frame("err", d))
    <3>1. /\ \A i \in DOMAIN down : i \in DOMAIN down' /\ down'[i] = down[i]
          /\ \A i \in DOMAIN down' : i \in DOMAIN down \/ (i = Len(down') /\ carries /\ down'[i] = Frame("err", d))
          /\ \A i \in DOMAIN down : Count(down', i, StreamOf(c)) = Count(down, i, StreamOf(c))
          /\ StreamOf(c) # Frame("err", d) =>
                 Count(down', Len(down'), StreamOf(c)) = Count(down, Len(down), StreamOf(c))
      BY <1>1, <1>3, <2>2, AnsweredLast
    <3>2. StreamOf(c) # Frame("err", d) /\ Frame("err", d) # Frame("end", c)
      BY FramesDiffer DEF StreamOf
    <3>3. CountedOf(c)'
      BY <1>1, <1>2, <2>2, <3>1, <3>2 DEF CountedOf
    <3>4. EndedOf(c)'
      <4>1. SUFFICES ASSUME call[c] = "pending", NEW i \in DOMAIN down', down'[i] = Frame("end", c)
                     PROVE  got[c] + Count(down', i, StreamOf(c)) = Length
        BY <1>2 DEF EndedOf, StreamOf
      <4>2. i \in DOMAIN down /\ down[i] = Frame("end", c) /\ Count(down', i, StreamOf(c)) = Count(down, i, StreamOf(c))
        BY <3>1, <3>2, <4>1
      <4> QED
        BY <1>1, <4>1, <4>2 DEF EndedOf
    <3> QED
      BY <3>3, <3>4
  <2>3. CASE flight' = flight \cup {d} /\ yielded' = yielded /\ down' = down
    <3>1. EndedOf(c)'
      BY <1>1, <1>2, <2>3 DEF EndedOf
    <3>2. CASE c # d
      BY <1>1, <1>2, <2>3, <3>1, <3>2 DEF CountedOf
    <3>3. CASE c = d /\ call[c] = "pending"
      <4>1. got[c] = 0 /\ yielded[c] = 0
        BY <1>1, <1>3, <1>5, <2>1, <3>3 DEF Asked, Cleared
      <4>2. \A i \in DOMAIN down : down[i] # Frame("end", c) /\ down[i] # StreamOf(c)
        <5>1. Frame("end", c).id = c /\ StreamOf(c).id = c
          BY DEF Frame, StreamOf
        <5> QED
          BY <2>1, <3>3, <5>1
      <4>3. Count(down, Len(down), StreamOf(c)) = 0
        BY <1>1, <4>2, OfTheWire, CountNone
      <4> QED
        BY <1>2, <2>3, <3>1, <4>1, <4>2, <4>3 DEF CountedOf
    <3>4. CASE call[c] # "pending"
      BY <1>2, <3>1, <3>4 DEF CountedOf
    <3> QED
      BY <3>2, <3>3, <3>4
  <2> QED
    BY <2>1, <2>2, <2>3 DEF Dispatch
<1> QED
  BY <1>4, <1>5

LEMMA StreamsStep == FramesInv /\ [EnvelopeNext]_envelopeVars => Counted' /\ Ended'
<1> SUFFICES ASSUME FramesInv, [EnvelopeNext]_envelopeVars, NEW c \in Id PROVE CountedOf(c)' /\ EndedOf(c)'
  BY DEF Counted, Ended, CountedOf, EndedOf, StreamOf
<1>0. Kept /\ KeptThere /\ OnTheWire /\ Connected /\ CountedOf(c) /\ EndedOf(c)
  BY DEF FramesInv, Counted, Ended, CountedOf, EndedOf, StreamOf
<1>1. CASE call'[c] # "pending"
  BY <1>1 DEF CountedOf, EndedOf
<1>2. CASE Receives \/ RouterReceives \/ \E d \in Id : Call(d) \/ Expires(d) \/ Yields(d) \/ Returns(d)
  BY <1>2, CallStream, AnswersStream, ReceivesStream, RouterStream
<1>3. CASE /\ call'[c] = "pending" /\ ~Receives /\ \A d \in Id : ~Call(d)
           /\ UNCHANGED <<flight, yielded, down, carries>>
  <2>1. call[c] = "pending" /\ got'[c] = got[c]
    BY <1>0, <1>3, WaitsSince
  <2> QED
    BY <1>0, <1>3, <2>1 DEF CountedOf, EndedOf
<1>4. CASE Breaks
  BY <1>4 DEF Breaks, CountedOf, EndedOf
<1>5. CASE Connects
  BY <1>0, <1>5 DEF Connects, Connected, CountedOf, EndedOf
<1> QED
  BY <1>1, <1>2, <1>3, <1>4, <1>5 DEF EnvelopeNext, TimesOut, Cancels, Fails, Takes, Done, GoesDead, Disconnected,
     RouterDisconnected, Elsewhere, FramesTick, envelopeVars, router, wire

LEMMA WithinStep == FramesInv /\ [EnvelopeNext]_envelopeVars => Within'
<1> SUFFICES ASSUME FramesInv, [EnvelopeNext]_envelopeVars, NEW c \in Id
             PROVE  /\ got'[c] <= Length /\ read'[c] <= got'[c]
                    /\ call'[c] = "pending" => got'[c] + Count(down', Len(down'), StreamOf(c)) <= Length
  BY DEF Within, StreamOf
<1> DEFINE Inside == /\ got'[c] <= Length /\ read'[c] <= got'[c]
                     /\ call'[c] = "pending" => got'[c] + Count(down', Len(down'), StreamOf(c)) <= Length
<1>0. /\ Kept /\ KeptThere /\ OnTheWire /\ Connected /\ Cleared
      /\ got[c] <= Length /\ read[c] <= got[c] /\ got[c] \in Nat /\ read[c] \in Nat
      /\ call[c] = "pending" => got[c] + Count(down, Len(down), StreamOf(c)) <= Length
  BY DEF FramesInv, Within, StreamOf, Kept
<1>9. /\ Counted' /\ OnTheWire' /\ KeptThere' /\ Length \in Nat
      /\ got'[c] \in Nat /\ Len(down') \in Nat /\ Count(down', Len(down'), StreamOf(c)) \in Nat
  <2>1. Counted' /\ OnTheWire' /\ KeptThere' /\ Kept'
    BY StreamsStep, WireStep, KeptThereStep, KeptStep
  <2>2. got'[c] \in Nat /\ Len(down') \in Nat
    BY <2>1 DEF Kept, OnTheWire
  <2> QED
    BY <2>1, <2>2, CountIsNat, Bounds
<1>1. ASSUME NEW d \in Id, Call(d) PROVE Inside
  <2>1. Unused(d) /\ UNCHANGED <<down, got, read>> /\ call' = [call EXCEPT ![d] = "pending"]
    BY <1>1 DEF Call
  <2>2. CASE c = d
    <3>1. got[c] = 0 /\ \A i \in DOMAIN down : down[i].id # c
      BY <1>0, <2>1, <2>2, UnusedIs DEF Cleared
    <3>2. StreamOf(c).id = c
      BY DEF StreamOf, Frame
    <3>3. Count(down, Len(down), StreamOf(c)) = 0
      BY <1>0, <3>1, <3>2, OfTheWire, CountNone
    <3> QED
      BY <1>0, <1>9, <2>1, <3>1, <3>3
  <2>3. CASE c # d
    BY <1>0, <2>1, <2>3 DEF Kept
  <2> QED
    BY <2>2, <2>3
<1>2. ASSUME NEW d \in Id, Takes(d) \/ Done(d) PROVE Inside
  <2>1. down' = down
    BY <1>2 DEF Takes, Done, wire
  <2>2. CASE c = d /\ Takes(d)
    <3>1. read'[c] = read[c] + 1 /\ read[c] < got[c] /\ UNCHANGED <<got, call>>
      BY <1>0, <2>2 DEF Takes, Kept
    <3> QED
      BY <1>0, <2>1, <3>1
  <2>3. CASE c = d /\ Done(d)
    <3>1. read'[c] = 0 /\ got'[c] = 0 /\ call'[c] # "pending"
      BY <1>0, <2>3 DEF Done, Kept
    <3> QED
      BY <1>9, <3>1
  <2>4. CASE c # d
    <3>1. read'[c] = read[c] /\ got'[c] = got[c] /\ call'[c] = call[c]
      BY <1>0, <1>2, <2>4 DEF Takes, Done, Kept
    <3> QED
      BY <1>0, <2>1, <3>1
  <2> QED
    BY <1>2, <2>2, <2>3, <2>4
<1>3. CASE Receives
  <2>1. /\ call'[c] = "pending" => got'[c] + Count(down', Len(down'), StreamOf(c))
                                    = got[c] + Count(down, Len(down), StreamOf(c))
        /\ call'[c] # "pending" => got'[c] = got[c]
    BY <1>3, ReceivesStream
  <2>2. (call'[c] = "pending" => call[c] = "pending") /\ read' = read
    BY <1>0, <1>3, WaitsSince DEF Receives, Call
  <2>3. got[c] <= got'[c]
    <3>1. got' = got \/ got' = [got EXCEPT ![Head(down).id] = @ + 1]
      BY <1>3 DEF Receives
    <3>2. got'[c] = got[c] \/ got'[c] = got[c] + 1
      BY <1>0, <3>1 DEF Kept
    <3> QED
      BY <1>0, <3>2
  <2> QED
    BY <1>0, <1>9, <2>1, <2>2, <2>3
<1>4. ASSUME NEW d \in Id, Expires(d) \/ Yields(d) \/ Returns(d) PROVE Inside
  <2>1. UNCHANGED <<call, got, read, carries>> /\ d \in flight
    BY <1>4 DEF Expires, Yields, Returns, TheirRest, client
  <2>2. PICK kind \in {"stream", "end", "err"} : Answers(Frame(kind, d)) /\ (kind = "stream" => Yields(d))
    BY <1>4 DEF Expires, Yields, Returns
  <2>3. CASE c = d /\ kind = "stream" /\ carries /\ call[c] = "pending"
    <3>1. c \in flight'
      BY <2>1, <2>2, <2>3 DEF Yields
    <3>2. got'[c] + Count(down', Len(down'), StreamOf(c)) = yielded'[c] /\ yielded'[c] <= Length
      BY <1>9, <2>1, <2>3, <3>1 DEF Counted, StreamOf, KeptThere
    <3> QED
      BY <1>0, <2>1, <3>2
  <2>4. CASE carries /\ ~(c = d /\ kind = "stream")
    <3>1. StreamOf(c) # Frame(kind, d)
      BY <2>4, FramesDiffer DEF StreamOf
    <3>2. Count(down', Len(down'), StreamOf(c)) = Count(down, Len(down), StreamOf(c))
      BY <1>0, <2>2, <3>1, AnsweredLast
    <3> QED
      BY <1>0, <2>1, <3>2
  <2>5. CASE ~carries
    BY <1>0, <2>1, <2>2, <2>5 DEF Answers
  <2>6. CASE call[c] # "pending"
    BY <1>0, <2>1, <2>6
  <2> QED
    BY <2>3, <2>4, <2>5, <2>6
<1>5. CASE RouterReceives
  <2>1. UNCHANGED <<call, got, read>> /\ up # <<>>
    BY <1>5 DEF RouterReceives, TheirRest, client
  <2>2. Head(up).id \in Id
    BY <1>0, <2>1, HeadIs DEF OnTheWire
  <2>3. down' = down \/ Answers(Frame("err", Head(up).id))
    BY <1>5 DEF RouterReceives, Dispatch
  <2>4. StreamOf(c) # Frame("err", Head(up).id)
    BY FramesDiffer DEF StreamOf
  <2>5. Count(down', Len(down'), StreamOf(c)) = Count(down, Len(down), StreamOf(c))
    BY <1>0, <2>2, <2>3, <2>4, AnsweredLast
  <2> QED
    BY <1>0, <2>1, <2>5
<1>6. CASE GoesDead \/ Disconnected \/ RouterDisconnected
  <2>1. down' = <<>> /\ UNCHANGED <<got, read>>
    BY <1>6 DEF GoesDead, Disconnected, RouterDisconnected, Breaks, client
  <2>2. Count(down', Len(down'), StreamOf(c)) = 0
    BY <1>9, <2>1, CountNone
  <2> QED
    BY <1>0, <1>9, <2>1, <2>2
<1>7. CASE \/ \E d \in Id : TimesOut(d) \/ Cancels(d)
           \/ Elsewhere \/ Connects \/ FramesTick \/ UNCHANGED envelopeVars
  <2>1. UNCHANGED <<down, got, read>>
    BY <1>7 DEF TimesOut, Cancels, Fails, Elsewhere, Connects, FramesTick, envelopeVars, client, wire
  <2>2. call'[c] = "pending" => call[c] = "pending"
    <3>1. UNCHANGED call \/ \E d \in Id : Finishes({d}, "timeout") \/ Finishes({d}, "cancelled")
      BY <1>7 DEF TimesOut, Cancels, Fails, Elsewhere, Connects, FramesTick, envelopeVars, client
    <3> QED
      BY <3>1 DEF Finishes
  <2> QED
    BY <1>0, <2>1, <2>2
<1> QED
  BY <1>1, <1>2, <1>3, <1>4, <1>5, <1>6, <1>7 DEF EnvelopeNext

LEMMA WholeStep == FramesInv /\ [EnvelopeNext]_envelopeVars => WholeStream'
<1> SUFFICES ASSUME FramesInv, [EnvelopeNext]_envelopeVars, NEW c \in Id, call'[c] = "ok" PROVE got'[c] = Length
  BY DEF WholeStream
<1>0. Kept /\ (call[c] = "ok" => got[c] = Length)
  BY DEF FramesInv, WholeStream
<1>1. CASE Receives
  BY <1>0, <1>1, ReceivesStream
<1>2. ASSUME NEW d \in Id, Call(d) \/ Takes(d) \/ Done(d) PROVE got'[c] = Length
  BY <1>0, <1>2 DEF Call, Takes, Done, Kept
<1>3. ASSUME NEW cs, NEW why \in Outcome \ {"ok"}, Finishes(cs, why), got' = got PROVE got'[c] = Length
  BY <1>0, <1>3 DEF Finishes
<1>4. CASE Disconnected \/ \E d \in Id : TimesOut(d) \/ Cancels(d)
  BY <1>3, <1>4 DEF Disconnected, TimesOut, Cancels, Fails, Outcome
<1>5. CASE UNCHANGED <<call, got>>
  BY <1>0, <1>5
<1> QED
  BY <1>1, <1>2, <1>4, <1>5 DEF EnvelopeNext, Expires, Yields, Returns, RouterReceives, RouterDisconnected,
     Elsewhere, GoesDead, TheirRest, Connects, FramesTick, envelopeVars, client

-----------------------------------------------------------------------------
(* What the end of a call says *)

LEMMA FramesStep == FramesInv /\ [EnvelopeNext]_envelopeVars => FramesInv'
BY KeptStep, KeptThereStep, WireStep, SidesStep, ClearedStep, AskedStep, StreamsStep, WithinStep, WholeStep, PeriodStep
   DEF FramesInv, Connected

LEMMA AlwaysFrames == EnvelopeInit /\ [][EnvelopeNext]_envelopeVars => []FramesInv
BY InitFrames, FramesStep, PTL

LEMMA FramesTypes == FramesInv => EnvelopeTypes
<1> SUFFICES ASSUME FramesInv PROVE EnvelopeTypes
  OBVIOUS
<1>0. Kept /\ KeptThere /\ OnTheWire /\ Within /\ OnePeriod /\ SlotsAreCounted
  BY DEF FramesInv
<1>1. {got, read, yielded} \subseteq [Id -> 0 .. Length]
  BY <1>0, Bounds DEF Kept, KeptThere, Within
<1>2. {left, leftThere, quiet, quietThere} \subseteq [Id -> 0 .. Silence]
  BY <1>0, Bounds DEF Kept, KeptThere, OnePeriod
<1>3. elsewhere \in 0 .. MaxInFlight
  <2>1. Cardinality(flight) \in Nat
    BY <1>0, FS_CardinalityType DEF KeptThere
  <2> QED
    BY <1>0, <2>1, Bounds DEF KeptThere, SlotsAreCounted
<1>4. \A f \in Range(up \o down) : f.id \in Id
  <2>1. up \in Seq(Frames({"req", "cancel", "stream", "end", "err"}))
        /\ down \in Seq(Frames({"req", "cancel", "stream", "end", "err"}))
    <3>1. Frames({"req", "cancel"}) \subseteq Frames({"req", "cancel", "stream", "end", "err"})
          /\ Frames({"stream", "end", "err"}) \subseteq Frames({"req", "cancel", "stream", "end", "err"})
      BY DEF Frames
    <3> QED
      BY <1>0, <3>1 DEF OnTheWire
  <2>2. \A f \in Range(up \o down) : f \in Frames({"req", "cancel", "stream", "end", "err"})
    BY <2>1 DEF Range
  <2> QED
    BY <2>2 DEF Frames
<1> QED
  BY <1>0, <1>1, <1>2, <1>3, <1>4 DEF EnvelopeTypes, Kept, KeptThere, OnTheWire

\* A timer that is out is a whole period of silence.
LEMMA SilenceStep ==
    ASSUME FramesInv, [EnvelopeNext]_envelopeVars, NEW c \in Id
    PROVE  /\ call[c] = "pending" /\ call'[c] = "timeout" => quiet[c] >= Silence
           /\ Expires(c) => quietThere[c] >= Silence
<1>0. Kept /\ KeptThere /\ OnePeriod
  BY DEF FramesInv
<1>1. Expires(c) => quietThere[c] >= Silence
  BY <1>0, Bounds DEF Expires, OnePeriod, KeptThere
<1>2. ASSUME call[c] = "pending", call'[c] = "timeout" PROVE quiet[c] >= Silence
  <2>1. \A cs, why : Finishes(cs, why) /\ why # "timeout" => call'[c] # "timeout"
    BY <1>2 DEF Finishes
  <2>2. \A d \in Id : ~Cancels(d)
    BY <1>2, <2>1 DEF Cancels, Fails
  <2>3. ~Receives /\ ~Disconnected
    BY <1>2, <2>1 DEF Receives, Disconnected
  <2>4. \A d \in Id : ~Call(d) /\ ~Done(d)
    BY <1>0, <1>2 DEF Call, Done, Kept
  <2>5. call' # call
    BY <1>2
  <2>6. PICK d \in Id : TimesOut(d)
    BY <2>2, <2>3, <2>4, <2>5 DEF EnvelopeNext, Takes, Expires, Yields, Returns, RouterReceives, RouterDisconnected,
       Elsewhere, GoesDead, TheirRest, Connects, FramesTick, envelopeVars, client
  <2>7. d = c
    BY <1>2, <2>6 DEF TimesOut, Fails, Finishes
  <2>8. left[c] = 0
    BY <2>6, <2>7 DEF TimesOut, Expired
  <2> QED
    BY <1>0, <2>8, Bounds DEF OnePeriod, Kept
<1> QED
  BY <1>1, <1>2

\* Types; and what the end of a call says is so, whatever the connection does: a stream that ended
\* well is whole, a call that was given up for silence was silent for a period, and the
\* slots are those of the requests in flight (envelope.ts:832-840, 890-905, 1265-1270).
THEOREM EndsAreSo == EnvelopeInit /\ [][EnvelopeNext]_envelopeVars => EndsAreTrue
<1>1. FramesInv => EnvelopeTypes /\ WholeStream /\ SlotsAreCounted
  BY FramesTypes DEF FramesInv
<1>2. FramesInv /\ [EnvelopeNext]_envelopeVars
      => [\A c \in Id : /\ call[c] = "pending" /\ call'[c] = "timeout" => quiet[c] >= Silence
                        /\ Expires(c) => quietThere[c] >= Silence]_envelopeVars
  BY SilenceStep
<1> QED
  BY <1>1, <1>2, AlwaysFrames, PTL DEF EndsAreTrue, SilenceOnly

-----------------------------------------------------------------------------
(* The periods *)

LEMMA Periods ==
    /\ Debounce \in Nat /\ Debounce > 0 /\ Retry \in Nat /\ Retry > 0 /\ Every \in Nat /\ Every > 0
    /\ Retry <= Every
BY SchedulerAssumption

-----------------------------------------------------------------------------
(* The timers *)

Flags == {started, stopped, running, again, owing, taken} \subseteq BOOLEAN

Timers ==
    /\ debounce \in Timer(Debounce) /\ backstop \in Timer(Every)
    /\ backoff \in Retry .. Every /\ waited \in Nat /\ rung \in 0 .. Every + 1

\* No timer is armed that may not fire: before the start and after the stop there is
\* none, and the backstop is for when no session is under way.
Armed ==
    /\ ~started => ~running
    /\ taken => running
    /\ ~started \/ stopped => debounce = None /\ backstop = None
    /\ running => backstop = None

\* What was waited and what is left of the backstop are one period.
WithinAPeriod ==
    /\ waited <= Every
    /\ running => waited = 0
    /\ started /\ ~stopped /\ ~running => waited + backstop <= Every

TimersInv == Flags /\ Timers /\ Armed /\ AlwaysANext /\ WithinAPeriod

LEMMA InitTimers == Init => TimersInv
<1> SUFFICES ASSUME Init PROVE TimersInv
  OBVIOUS
<1> USE Periods DEF Init
<1>1. Flags
  BY Zenon DEF Flags
<1>2. Timers
  BY DEF Timers, Timer, None
<1>3. Armed /\ AlwaysANext /\ WithinAPeriod
  BY DEF Armed, AlwaysANext, WithinAPeriod, None
<1> QED
  BY <1>1, <1>2, <1>3 DEF TimersInv

LEMMA FlagsStep == TimersInv /\ [Next]_vars => Flags'
<1> SUFFICES ASSUME Flags, [Next]_vars PROVE Flags'
  BY DEF TimersInv
<1>1. /\ started' \in {started, TRUE} /\ stopped' \in {stopped, TRUE}
      /\ running' \in {running, TRUE, FALSE} /\ again' \in {again, TRUE, FALSE}
      /\ owing' \in {owing, TRUE, FALSE, owing \/ (taken /\ TRUE), owing \/ (taken /\ FALSE)}
      /\ taken' \in {taken, FALSE, owing, owing \/ (taken /\ TRUE), owing \/ (taken /\ FALSE)}
  BY DEF Next, vars, Start, Commit, Visible, SyncNow, Stop, DebounceFires, BackstopFires, Ends, Throws, Tick,
         Kick, Begins, Rests
<1> QED
  BY <1>1 DEF Flags

LEMMA TimersStep == TimersInv /\ [Next]_vars => Timers'
<1> SUFFICES ASSUME Timers, [Next]_vars PROVE Timers'
  BY DEF TimersInv
<1> USE Periods DEF Timers, Timer, None
<1>1. debounce' \in {debounce, None, Debounce} \/ Tick
  BY DEF Next, vars, Start, Commit, Visible, SyncNow, Stop, DebounceFires, BackstopFires, Ends, Throws,
         Kick, Begins, Rests
<1>2. backstop' \in {backstop, None, Every, backoff} \/ Tick
  BY DEF Next, vars, Start, Commit, Visible, SyncNow, Stop, DebounceFires, BackstopFires, Ends, Throws,
         Kick, Begins, Rests, Delay
<1>3. waited' \in {waited, 0} \/ Tick
  BY DEF Next, vars, Start, Commit, Visible, SyncNow, Stop, DebounceFires, BackstopFires, Ends, Throws,
         Kick, Begins, Rests
<1>4. \/ UNCHANGED <<backoff, rung>>
      \/ \E ok \in BOOLEAN : Noted(ok)
  BY DEF Next, vars, Start, Commit, Visible, SyncNow, Stop, DebounceFires, BackstopFires, Ends, Throws, Tick
<1>5. backoff' \in Retry .. Every /\ rung' \in 0 .. Every + 1
  BY <1>4 DEF Noted, Lesser
<1>6. Tick => /\ debounce' \in Timer(Debounce) /\ backstop' \in Timer(Every) /\ waited' \in Nat
  BY DEF Tick, Left, Lesser
<1> QED
  BY <1>1, <1>2, <1>3, <1>5, <1>6

\* A kick starts a session, or leaves word for the one under way.
LEMMA KickStep ==
    ASSUME TimersInv, Kick
    PROVE  /\ running'
           /\ running => UNCHANGED <<debounce, backstop, taken, waited>>
           /\ ~running => debounce' = None /\ backstop' = None /\ waited' = 0
BY DEF Kick, Begins, TimersInv, Flags

\* After a session the backstop is armed, for a period at most.
LEMMA RestsStep ==
    ASSUME TimersInv, running, NEW ok \in BOOLEAN, Rests(ok, Delay(ok)), UNCHANGED <<started, stopped>>
    PROVE  Armed' /\ AlwaysANext' /\ WithinAPeriod'
<1> USE Periods
<1>1. ~running' /\ ~taken' /\ UNCHANGED <<debounce, waited>> /\ waited = 0
  BY DEF Rests, TimersInv, WithinAPeriod
<1>2. backstop' = IF stopped THEN None ELSE Delay(ok)
  BY DEF Rests
<1>3. Delay(ok) \in 1 .. Every
  BY DEF Delay, TimersInv, Timers
<1>4. started
  BY DEF TimersInv, Armed
<1>5. CASE stopped
  BY <1>1, <1>2, <1>4, <1>5 DEF TimersInv, Armed, AlwaysANext, WithinAPeriod
<1>6. CASE ~stopped
  BY <1>1, <1>2, <1>3, <1>4, <1>6 DEF TimersInv, Armed, AlwaysANext, WithinAPeriod, None
<1> QED
  BY <1>5, <1>6

LEMMA OneMoreOneLess ==
    ASSUME NEW most \in Nat, NEW waits \in Nat, NEW rests \in Nat, NEW waits1 \in Nat, NEW rests1 \in Nat,
           waits1 <= waits + 1, rests1 = rests - 1, waits + rests <= most
    PROVE  waits1 + rests1 <= most
OBVIOUS

\* The same of the timers themselves.
LEMMA WaitAndRest ==
    ASSUME Every \in Nat, waited \in Nat, backstop \in Nat, waited' \in Nat, backstop' \in Nat,
           waited' <= waited + 1, backstop' = backstop - 1, waited + backstop <= Every
    PROVE  waited' + backstop' <= Every
<1> DEFINE waits == waited  rests == backstop  waits1 == waited'  rests1 == backstop'
<1>1. /\ waits \in Nat /\ rests \in Nat /\ waits1 \in Nat /\ rests1 \in Nat
      /\ waits1 <= waits + 1 /\ rests1 = rests - 1 /\ waits + rests <= Every
  OBVIOUS
<1> HIDE DEF waits, rests, waits1, rests1
<1>2. waits1 + rests1 <= Every
  BY <1>1
<1> QED
  BY <1>2 DEF waits1, rests1

LEMMA WaitStep == TimersInv /\ [Next]_vars => Armed' /\ AlwaysANext' /\ WithinAPeriod'
<1> SUFFICES ASSUME TimersInv, [Next]_vars PROVE Armed' /\ AlwaysANext' /\ WithinAPeriod'
  OBVIOUS
<1> USE Periods
<1>0. Flags' /\ Timers'
  BY FlagsStep, TimersStep
<1>1. CASE Start \/ Visible \/ SyncNow \/ DebounceFires \/ BackstopFires
  <2>1. CASE Start /\ stopped
    BY <2>1 DEF Start, TimersInv, Armed, AlwaysANext, WithinAPeriod
  <2>2. CASE ~(Start /\ stopped)
    <3>1. started' /\ ~stopped' /\ (running => started)
      BY <1>1, <2>2 DEF Start, Visible, SyncNow, DebounceFires, BackstopFires, TimersInv, Armed, None
    <3>2. /\ running'
          /\ running => debounce' \in {debounce, None} /\ UNCHANGED <<backstop, taken, waited>>
          /\ ~running => debounce' = None /\ backstop' = None /\ waited' = 0
      BY <1>1, <2>2, KickStep DEF Start, Visible, SyncNow, DebounceFires, BackstopFires
    <3> QED
      BY <3>1, <3>2 DEF TimersInv, Armed, AlwaysANext, WithinAPeriod
  <2> QED
    BY <2>1, <2>2
<1>2. CASE Commit
  BY <1>2 DEF Commit, TimersInv, Armed, AlwaysANext, WithinAPeriod
<1>3. CASE Stop
  BY <1>3 DEF Stop, TimersInv, Armed, AlwaysANext, WithinAPeriod
<1>4. ASSUME NEW ok \in BOOLEAN, Ends(ok) PROVE Armed' /\ AlwaysANext' /\ WithinAPeriod'
  <2>1. running /\ UNCHANGED <<started, stopped>>
    BY <1>4 DEF Ends
  <2>2. CASE FollowsUp
    <3>1. UNCHANGED <<running, debounce, backstop, waited>>
      BY <1>4, <2>2 DEF Ends
    <3> QED
      BY <2>1, <3>1 DEF TimersInv, Armed, AlwaysANext, WithinAPeriod
  <2>3. CASE ~FollowsUp
    BY <1>4, <2>1, <2>3, RestsStep DEF Ends
  <2> QED
    BY <2>2, <2>3
<1>5. CASE Throws
  BY <1>5, RestsStep DEF Throws
<1>6. CASE Tick
  <2>1. UNCHANGED <<started, stopped, running, taken>>
    BY <1>6 DEF Tick
  <2>2. (debounce = None => debounce' = None) /\ (backstop = None => backstop' = None)
    BY <1>6 DEF Tick, Left
  <2>3. backstop # None => backstop' = backstop - 1 /\ backstop' >= 0
    BY <1>6 DEF Tick, Left, TimersInv, Timers, Timer, None
  <2>4. waited' \in {waited + 1, Every + 1, 0} /\ (waited' # 0 => started /\ ~stopped /\ ~running)
        /\ (waited + 1 <= Every => waited' <= waited + 1)
    BY <1>6 DEF Tick, Lesser, TimersInv, Timers
  <2>5. Armed' /\ AlwaysANext'
    BY <2>1, <2>2, <2>3 DEF TimersInv, Armed, AlwaysANext, None
  <2>6. CASE started /\ ~stopped /\ ~running
    <3>1. backstop # None /\ backstop \in Nat /\ waited + backstop <= Every /\ waited \in Nat
      BY <2>6 DEF TimersInv, AlwaysANext, WithinAPeriod, Timers, Timer
    <3>2. waited' <= waited + 1 /\ waited' \in Nat
      BY <2>3, <2>4, <3>1 DEF None
    <3>3. backstop' = backstop - 1 /\ backstop' \in Nat
      BY <2>3, <3>1
    <3>4. waited' + backstop' <= Every
      BY <3>1, <3>2, <3>3, WaitAndRest, Periods
    <3>5. waited' <= Every
      BY <3>2, <3>3, <3>4
    <3>6. ~running'
      BY <2>1, <2>6
    <3> QED
      BY <2>5, <3>4, <3>5, <3>6 DEF WithinAPeriod
  <2>7. CASE ~(started /\ ~stopped /\ ~running)
    <3>1. waited' = 0
      BY <2>4, <2>7
    <3> QED
      BY <2>1, <2>5, <2>7, <3>1 DEF WithinAPeriod
  <2> QED
    BY <2>6, <2>7
<1>7. CASE UNCHANGED vars
  BY <1>7 DEF vars, TimersInv, Armed, AlwaysANext, WithinAPeriod
<1> QED
  BY <1>1, <1>2, <1>3, <1>4, <1>5, <1>6, <1>7 DEF Next

LEMMA AlwaysTimers == Spec => []TimersInv
<1>1. TimersInv /\ [Next]_vars => TimersInv'
  BY FlagsStep, TimersStep, WaitStep DEF TimersInv
<1> QED
  BY <1>1, InitTimers, PTL DEF Spec

-----------------------------------------------------------------------------
(* After stop *)

\* What is stopped begins nothing.
LEMMA StopsStep ==
    ASSUME TimersInv, [Next]_vars
    PROVE  [stopped => (running' => running /\ (again => again'))]_vars
<1> SUFFICES ASSUME Next, stopped, running' PROVE running /\ (again => again')
  OBVIOUS
<1>1. debounce = None /\ backstop = None
  BY DEF TimersInv, Armed
<1>2. CASE Start \/ Commit \/ Visible \/ SyncNow \/ Stop \/ DebounceFires \/ BackstopFires \/ Tick
  <2>1. ~DebounceFires /\ ~BackstopFires
    BY <1>1 DEF DebounceFires, BackstopFires, None
  <2>2. running' = running /\ again' = again
    BY <1>2, <2>1 DEF Start, Commit, Visible, SyncNow, Stop, Tick
  <2> QED
    BY <2>2
<1>3. ASSUME NEW ok \in BOOLEAN, Ends(ok) PROVE FALSE
  BY <1>3 DEF Ends, FollowsUp, Rests
<1>4. ~Throws
  BY DEF Throws, Rests
<1> QED
  BY <1>2, <1>3, <1>4 DEF Next

-----------------------------------------------------------------------------
(* The ladder *)

LEMMA LeastOf ==
    ASSUME NEW S \in SUBSET Nat, S # {}
    PROVE  \E n \in S : \A m \in S : n <= m
<1>1. PICK n \in S : \A m \in S : ~(<<m, n>> \in OpToRel(<, Nat))
  BY NatLessThanWellFounded, WFMin
<1>2. \A m \in S : ~(m < n)
  BY <1>1 DEF OpToRel
<1> QED
  BY <1>2

\* The ladder up to a rung.
Ladder(f, n) ==
    f \in [0 .. n -> Nat] /\ f[0] = 1 /\ \A i \in 0 .. n - 1 : f[i + 1] = 2 * f[i]

LEMMA LaddersExist == \A n \in Nat : \E f : Ladder(f, n)
<1> DEFINE Without == {n \in Nat : ~\E f : Ladder(f, n)}
<1>1. SUFFICES Without = {}
  OBVIOUS
<1>2. SUFFICES ASSUME Without # {} PROVE FALSE
  OBVIOUS
<1>3. PICK n \in Without : \A m \in Without : n <= m
  BY <1>2, LeastOf
<1>4. n # 0
  <2>1. Ladder([i \in 0 .. 0 |-> 1], 0)
    BY DEF Ladder
  <2> QED
    BY <2>1, <1>3
<1>5. n \in Nat /\ n - 1 \in Nat /\ n - 1 \notin Without
  BY <1>3, <1>4
<1>6. PICK f : Ladder(f, n - 1)
  BY <1>5
<1> DEFINE g == [i \in 0 .. n |-> IF i = n THEN 2 * f[n - 1] ELSE f[i]]
<1>7. Ladder(g, n)
  <2>1. \A i \in 0 .. n - 1 : f[i] \in Nat
    BY <1>6 DEF Ladder
  <2>2. g \in [0 .. n -> Nat]
    BY <1>5, <2>1
  <2>3. g[0] = 1
    BY <1>4, <1>5, <1>6 DEF Ladder
  <2>4. ASSUME NEW i \in 0 .. n - 1 PROVE g[i + 1] = 2 * g[i]
    <3>1. g[i] = f[i]
      BY <1>5
    <3>2. CASE i = n - 1
      BY <1>5, <3>1, <3>2
    <3>3. CASE i # n - 1
      BY <1>5, <1>6, <3>1, <3>3 DEF Ladder
    <3> QED
      BY <3>2, <3>3
  <2> QED
    BY <2>2, <2>3, <2>4 DEF Ladder
<1> QED
  BY <1>7, <1>3

\* Two ladders agree as far as both go.
LEMMA LaddersAgree ==
    ASSUME NEW n \in Nat, NEW f, Ladder(f, n + 1), NEW g, Ladder(g, n)
    PROVE  \A i \in 0 .. n : f[i] = g[i]
<1> DEFINE Apart == {i \in 0 .. n : f[i] # g[i]}
<1>1. SUFFICES ASSUME Apart # {} PROVE FALSE
  OBVIOUS
<1>2. PICK i \in Apart : \A j \in Apart : i <= j
  <2>1. Apart \in SUBSET Nat
    OBVIOUS
  <2> HIDE DEF Apart
  <2> QED
    BY <1>1, <2>1, LeastOf
<1>3. i # 0
  BY <1>2 DEF Ladder
<1>4. i - 1 \in 0 .. n - 1 /\ i - 1 \notin Apart
  BY <1>2, <1>3
<1>5. f[i] = 2 * f[i - 1] /\ g[i] = 2 * g[i - 1]
  <2>1. \A j \in 0 .. n : f[j + 1] = 2 * f[j]
    BY DEF Ladder
  <2>2. \A j \in 0 .. n - 1 : g[j + 1] = 2 * g[j]
    BY DEF Ladder
  <2>3. i = (i - 1) + 1 /\ i - 1 \in 0 .. n
    BY <1>2, <1>4
  <2> QED
    BY <1>4, <2>1, <2>2, <2>3
<1> QED
  BY <1>2, <1>4, <1>5

\* What the recursive definition says of each rung.
LEMMA DoubledIs == Doubled = [n \in Nat |-> IF n = 0 THEN 1 ELSE 2 * Doubled[n - 1]]
<1> DEFINE Of(n) == CHOOSE f : Ladder(f, n)
           F == [n \in Nat |-> Of(n)[n]]
<1>1. \A n \in Nat : Ladder(Of(n), n)
  BY LaddersExist
<1>2. F[0] = 1
  BY <1>1 DEF Ladder
<1>3. ASSUME NEW n \in Nat, n # 0 PROVE F[n] = 2 * F[n - 1]
  <2>1. n - 1 \in Nat /\ (n - 1) + 1 = n
    BY <1>3
  <2>2. Ladder(Of(n), n) /\ Ladder(Of(n - 1), n - 1)
    BY <1>1, <2>1
  <2> HIDE DEF Of
  <2>3. Of(n)[n - 1] = Of(n - 1)[n - 1]
    BY <2>1, <2>2, LaddersAgree
  <2>4. Of(n)[n] = 2 * Of(n)[n - 1]
    BY <2>1, <2>2 DEF Ladder
  <2> QED
    BY <2>1, <2>3, <2>4
<1> HIDE DEF Of
<1>4. F = [n \in Nat |-> IF n = 0 THEN 1 ELSE 2 * F[n - 1]]
  <2>1. \A n \in Nat : F[n] = IF n = 0 THEN 1 ELSE 2 * F[n - 1]
    <3> HIDE DEF F
    <3> QED
      BY <1>2, <1>3
  <2>2. F = [n \in Nat |-> F[n]]
    OBVIOUS
  <2> HIDE DEF F
  <2> QED
    BY <2>1, <2>2
<1> HIDE DEF F
<1> QED
  BY <1>4 DEF Doubled

LEMMA DoubledOutgrows == \A n \in Nat : Doubled[n] \in Nat /\ Doubled[n] > n
<1> DEFINE Short == {n \in Nat : ~(Doubled[n] \in Nat /\ Doubled[n] > n)}
<1>1. SUFFICES ASSUME Short # {} PROVE FALSE
  OBVIOUS
<1>2. PICK n \in Short : \A m \in Short : n <= m
  BY <1>1, LeastOf
<1>3. n # 0
  BY <1>2, DoubledIs
<1>4. n - 1 \in Nat /\ n - 1 \notin Short
  BY <1>2, <1>3
<1>5. Doubled[n] = 2 * Doubled[n - 1]
  BY <1>2, <1>3, DoubledIs
<1> QED
  BY <1>2, <1>4, <1>5

LEMMA DoubledNext == Doubled[0] = 1 /\ \A n \in Nat : Doubled[n + 1] = 2 * Doubled[n]
BY DoubledIs

\* What a rung's failure earns.
Earned(n) == Lesser(Retry * Doubled[n], Every)

LEMMA EarnedIs ==
    /\ Earned(0) = Retry
    /\ \A n \in Nat : Earned(n) \in Nat /\ Earned(n + 1) = Lesser(Earned(n) * 2, Every)
    /\ \A n \in Nat : n >= Every => Earned(n) = Every
<1> USE Periods
<1>1. \A n \in Nat : Retry * Doubled[n] \in Nat /\ Retry * Doubled[n] >= Doubled[n]
  <2>1. \A d \in Nat : Retry * d \in Nat /\ Retry * d >= d
    OBVIOUS
  <2> QED
    BY <2>1, DoubledOutgrows
<1>2. Earned(0) = Retry
  BY DoubledNext DEF Earned, Lesser
<1>3. ASSUME NEW n \in Nat PROVE Earned(n) \in Nat /\ Earned(n + 1) = Lesser(Earned(n) * 2, Every)
  <2>1. Doubled[n] \in Nat /\ Retry * Doubled[n] \in Nat
    BY <1>1, DoubledOutgrows
  <2>2. Retry * Doubled[n + 1] = (Retry * Doubled[n]) * 2
    <3>1. \A d \in Nat : Retry * (2 * d) = (Retry * d) * 2
      OBVIOUS
    <3> QED
      BY <2>1, <3>1, DoubledNext
  <2>3. \A m \in Nat : Lesser(m, Every) \in Nat /\ Lesser(m * 2, Every) = Lesser(Lesser(m, Every) * 2, Every)
    BY DEF Lesser
  <2> QED
    BY <2>1, <2>2, <2>3 DEF Earned
<1>4. ASSUME NEW n \in Nat, n >= Every PROVE Earned(n) = Every
  <2>1. Doubled[n] \in Nat /\ Doubled[n] > n /\ Retry * Doubled[n] \in Nat /\ Retry * Doubled[n] >= Doubled[n]
    BY <1>1, DoubledOutgrows
  <2> QED
    BY <1>4, <2>1 DEF Earned, Lesser
<1> QED
  BY <1>2, <1>3, <1>4

\* The delay the next failure earns is that of its rung.
Climbs == backoff = Earned(rung)

LEMMA InitClimbs == Init => Climbs
BY EarnedIs DEF Init, Climbs

LEMMA NotedClimbs ==
    ASSUME TimersInv, Climbs, NEW ok \in BOOLEAN, Noted(ok)
    PROVE  Climbs' /\ (rung' > 0 => ~ok /\ backoff = Earned(rung' - 1))
<1> USE Periods
<1>0. rung \in Nat /\ rung <= Every + 1 /\ backoff = Earned(rung)
  BY DEF TimersInv, Timers, Climbs
<1>1. CASE ok
  BY <1>1, EarnedIs DEF Noted, Climbs
<1>2. CASE ~ok
  <2>1. backoff' = Earned(rung + 1) /\ rung' = Lesser(rung + 1, Every + 1)
    BY <1>0, <1>2, EarnedIs DEF Noted
  <2>2. CASE rung <= Every
    <3>1. rung' = rung + 1 /\ rung' - 1 = rung
      BY <1>0, <2>1, <2>2 DEF Lesser
    <3> QED
      BY <1>0, <1>2, <2>1, <3>1 DEF Climbs
  <2>3. CASE rung = Every + 1
    <3>1. rung' = Every + 1 /\ rung' - 1 = Every
      BY <2>1, <2>3 DEF Lesser
    <3>2. Earned(rung + 1) = Every /\ Earned(Every + 1) = Every /\ Earned(Every) = Every
      <4>1. {rung + 1, Every + 1, Every} \subseteq Nat /\ rung + 1 >= Every /\ Every + 1 >= Every
        BY <1>0, <2>3
      <4> QED
        BY <4>1, EarnedIs
    <3> QED
      BY <1>0, <1>2, <2>1, <2>3, <3>1, <3>2 DEF Climbs
  <2> QED
    BY <1>0, <2>2, <2>3
<1> QED
  BY <1>1, <1>2

LEMMA ClimbsStep ==
    ASSUME TimersInv, Climbs, [Next]_vars
    PROVE  /\ Climbs'
           /\ running /\ ~running' /\ ~stopped /\ rung' > 0 => backstop' = Earned(rung' - 1)
<1>1. ASSUME NEW ok \in BOOLEAN, Ends(ok) PROVE Climbs' /\ (~running' /\ ~stopped /\ rung' > 0 => backstop' = Earned(rung' - 1))
  <2>1. Climbs' /\ (rung' > 0 => ~ok /\ backoff = Earned(rung' - 1))
    BY <1>1, NotedClimbs DEF Ends
  <2>2. ~running' /\ ~stopped => backstop' = Delay(ok)
    BY <1>1 DEF Ends, Rests
  <2> QED
    BY <2>1, <2>2 DEF Delay
<1>2. ASSUME Throws PROVE Climbs' /\ (~running' /\ ~stopped /\ rung' > 0 => backstop' = Earned(rung' - 1))
  <2>1. Climbs' /\ (rung' > 0 => backoff = Earned(rung' - 1))
    BY <1>2, NotedClimbs DEF Throws
  <2>2. ~running' /\ ~stopped => backstop' = Delay(FALSE)
    BY <1>2 DEF Throws, Rests
  <2> QED
    BY <2>1, <2>2 DEF Delay
<1>3. CASE Start \/ Commit \/ Visible \/ SyncNow \/ Stop \/ DebounceFires \/ BackstopFires \/ Tick \/ UNCHANGED vars
  <2>1. backoff' = backoff /\ rung' = rung
    BY <1>3 DEF Start, Commit, Visible, SyncNow, Stop, DebounceFires, BackstopFires, Tick, vars
  <2>2. running' = running \/ running'
    BY <1>3, KickStep DEF Start, Commit, Visible, SyncNow, Stop, DebounceFires, BackstopFires, Tick, vars
  <2> QED
    BY <2>1, <2>2 DEF Climbs
<1> QED
  BY <1>1, <1>2, <1>3 DEF Next

LEMMA AlwaysClimbs == Spec => []Climbs
<1>1. TimersInv /\ Climbs /\ [Next]_vars => Climbs'
  BY ClimbsStep
<1> QED
  BY <1>1, InitClimbs, AlwaysTimers, PTL DEF Spec

-----------------------------------------------------------------------------
(* The two together *)

\* A step of both is a step of the scheduler, or none of it.
LEMMA KeepsToTheScheduler == RoundsSpec => Spec
<1>1. RoundsInit => Init
  BY DEF RoundsInit
<1>2. [RoundsNext]_roundVars => [Next]_vars
  <2>1. CASE Schedules
    BY <2>1 DEF Schedules, Next
  <2>2. CASE NotAsked
    BY <2>2 DEF NotAsked, Next
  <2>3. ASSUME NEW ok \in BOOLEAN, Concludes(ok) PROVE Next
    BY <2>3 DEF Concludes, Next
  <2>4. CASE Asks \/ (Carrying /\ UNCHANGED vars) \/ UNCHANGED roundVars
    BY <2>4 DEF Asks, roundVars
  <2> QED
    BY <2>1, <2>2, <2>3, <2>4 DEF RoundsNext
<1> QED
  BY <1>1, <1>2, PTL DEF RoundsSpec, Spec

\* And one of the frames, or none of them.
LEMMA KeepsToTheFrames == RoundsSpec => EnvelopeInit /\ [][EnvelopeNext]_envelopeVars
<1>1. RoundsInit => EnvelopeInit
  BY DEF RoundsInit
<1>2. [RoundsNext]_roundVars => [EnvelopeNext]_envelopeVars
  <2>1. CASE Schedules \/ NotAsked \/ UNCHANGED roundVars
    BY <2>1 DEF Schedules, NotAsked, roundVars
  <2>2. CASE Asks
    BY <2>2, RoundsAssumption DEF Asks, EnvelopeNext
  <2>3. ASSUME NEW ok \in BOOLEAN, Concludes(ok) PROVE EnvelopeNext
    BY <2>3, RoundsAssumption DEF Concludes, EnvelopeNext
  <2>4. CASE Carrying
    BY <2>4 DEF Carrying, EnvelopeNext
  <2> QED
    BY <2>1, <2>2, <2>3, <2>4 DEF RoundsNext
<1> QED
  BY <1>1, <1>2, PTL DEF RoundsSpec

\* A scheduler that was started and not stopped always has a next session, and what is
\* owed waits a backstop's period for it at most, whatever the calls come to
\* (scheduler.ts:1-60, 228-234).
THEOREM AlwaysOnTime == RoundsSpec => []OnTime
<1>1. TimersInv => OnTime
  BY DEF TimersInv, Flags, Timers, Armed, WithinAPeriod, OnTime, TypeOK, WaitsAtMostEvery
<1> QED
  BY <1>1, AlwaysTimers, KeepsToTheScheduler, PTL

\* The delay after a failure is the one it earned on the ladder of failures since the
\* last success, and after stop no session begins, nor a follow-up of the one under way
\* (scheduler.ts:208-212, 278-289).
THEOREM WhenTheNextComes == RoundsSpec => WhenNext
<1>1. TimersInv /\ [Next]_vars => [stopped => (running' => running /\ (again => again'))]_vars
  BY StopsStep
<1>2. TimersInv /\ Climbs /\ [Next]_vars
      => [running /\ ~running' /\ ~stopped /\ rung' > 0
          => backstop' = Lesser(Retry * Doubled[rung' - 1], Every)]_vars
  BY ClimbsStep DEF Earned
<1> QED
  BY <1>1, <1>2, AlwaysTimers, AlwaysClimbs, KeepsToTheScheduler, PTL DEF Spec, StopsForGood, OnItsRung, WhenNext

\* What the end of a session's call says is so: EndsAreSo, of the calls the scheduler's
\* sessions make (envelope.ts:832-840, 890-905, 1265-1270).
THEOREM SessionsEndAsTold == RoundsSpec => EndsAreTrue
BY EndsAreSo, KeepsToTheFrames, PTL

=============================================================================
