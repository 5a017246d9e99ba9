--------------------------- MODULE SessionProofs ---------------------------
(***************************************************************************)
(* Proofs about SyncSession in the casts Tame names, for every number of    *)
(* satchels, every skew of the clocks and every bound.                      *)
(*                                                                         *)
(* Per(s) says of one satchel what its register, its outbox and each step   *)
(* of its session have to do with the shelf: what is on its way, by push or *)
(* by page, is no later than what its source has, and what the outbox will  *)
(* let go of is with the shelf by then (Told, Gone); a satchel whose window *)
(* was the whole feed is level with the shelf (Level).  What the others do  *)
(* makes the shelf's record grow together with its feed (OthersStay); so    *)
(* each step is looked at for its own satchel alone.                        *)
(***************************************************************************)
EXTENDS SyncSession, TLAPS, FiniteSetTheorems

-----------------------------------------------------------------------------
(* Types. *)

Held == Reg \cup {Absent}
Presence == [state : {"none", "live", "removed"}, at : Nat]
Pc == {"idle", "build", "push", "pushed", "ack", "clear", "pull", "rows", "page", "removals", "cursor"}
Session == [pc : Pc, until : Nat, msg : Msg]
Handler == [of : Device, step : {"check", "apply", "answer"}, msg : Msg]

Shape ==
    /\ live \in [Device -> BOOLEAN] /\ rec \in [Device -> Held] /\ presence \in [Device -> Presence]
    /\ floor \in [Device -> Nat] /\ owed \in [Satchel -> SUBSET What] /\ fresh \in [Satchel -> SUBSET What]
    /\ log \in Seq(What) /\ cursor \in [Satchel -> Nat] /\ session \in [Satchel -> Session]
    /\ served \subseteq Handler /\ lost \in Nat /\ cast \in Cast

LEMMA DevicesAre == N \in Nat /\ Shelf \in Device /\ Satchel \subseteq Device /\ (\A s \in Satchel : s # Shelf /\ s \in Nat) /\ Device \subseteq Nat
BY SyncSessionAssumption DEF Shelf, Satchel, Device

LEMMA NoMsgIs == NoMsg \in Msg /\ Absent \in Held /\ Unset \in Held /\ Unset # Absent
BY DEF NoMsg, Msg, Reg, Absent, Held, Unset

\* Where books are removed there is one satchel, and what it says is not lost.
LEMMA TameIs ==
    ASSUME Tame, cast \in Cast
    PROVE  /\ cast.adders = {} /\ cast.satchels \subseteq Satchel
           /\ cast.removers # {} => /\ \A a, b \in cast.satchels : a = b
                                    /\ cast.removers = cast.satchels /\ cast.returners \subseteq cast.satchels
                                    /\ cast.swept = TRUE /\ cast.lost = 0
<1>1. cast.satchels \subseteq Satchel
  BY DEF Cast
<1>2. ASSUME cast.removers # {}
      PROVE  /\ cast.removers = cast.satchels /\ Cardinality(cast.satchels) = 1
             /\ cast.returners \subseteq cast.satchels /\ cast.swept /\ cast.lost = 0
  BY <1>2 DEF Tame
<1>3. IsFiniteSet(cast.satchels)
  <2>1. IsFiniteSet(Satchel)
    BY SyncSessionAssumption, FS_Interval DEF Satchel
  <2> QED
    BY <1>1, <2>1, FS_Subset
<1>4. ASSUME cast.removers # {} PROVE \A a, b \in cast.satchels : a = b
  <2>1. PICK x : cast.satchels = {x}
    BY <1>2, <1>3, <1>4, FS_Singleton
  <2> QED
    BY <2>1
<1>5. cast.swept \in BOOLEAN
  BY DEF Cast
<1> QED
  BY <1>1, <1>2, <1>4, <1>5 DEF Tame

-----------------------------------------------------------------------------
(* A record, the feed and the stamps. *)

\* A stamp names what was written under it.
Named(r) == r = Absent \/ r = Unset \/ (r.at \in Nat /\ r.at > 0 /\ r.v = r.at)

LEMMA NamedIs ==
    ASSUME NEW a \in Held, Named(a), NEW b \in Held, Named(b)
    PROVE  /\ a.at = b.at => a = b
           /\ a.at \in Int /\ (a = Absent <=> a.at = -2) /\ (a # Absent => a.at >= -1)
<1>1. a = Absent \/ a = [at |-> a.at, v |-> a.v]
  BY DEF Held, Reg
<1>2. b = Absent \/ b = [at |-> b.at, v |-> b.v]
  BY DEF Held, Reg
<1>3. Absent.at = -2 /\ Unset.at = -1 /\ Unset = [at |-> Unset.at, v |-> Unset.v]
  BY DEF Absent, Unset
<1>4. a.at \in Int /\ (a = Absent <=> a.at = -2) /\ (a # Absent => a.at >= -1)
  BY <1>3 DEF Named, Held, Reg
<1>5. b.at \in Int /\ (b = Absent <=> b.at = -2) /\ (b # Absent => b.at >= -1)
  BY <1>3 DEF Named, Held, Reg
<1>6. ASSUME a.at = b.at PROVE a = b
  BY <1>1, <1>2, <1>3, <1>4, <1>5, <1>6 DEF Named
<1> QED
  BY <1>4, <1>6

LEMMA PickIs ==
    ASSUME NEW a \in Held, Named(a), NEW b \in Held, Named(b)
    PROVE  /\ Pick(a, b) = IF a.at < b.at THEN b ELSE a
           /\ Pick(a, b) \in Held /\ Named(Pick(a, b))
           /\ Pick(a, b).at >= a.at /\ Pick(a, b).at >= b.at
           /\ a # Absent => Pick(a, b) # Absent
<1>1. a.at \in Int /\ b.at \in Int /\ (a.at = b.at => a = b)
  BY NamedIs
<1>2. Pick(a, b) = IF a.at < b.at THEN b ELSE a
  BY <1>1 DEF Pick
<1>3. a # Absent => Pick(a, b) # Absent
  BY <1>2, NamedIs
<1> QED
  BY <1>1, <1>2, <1>3

LEMMA EntriesAre ==
    ASSUME NEW what \in SUBSET What
    PROVE  /\ Entries(what) \in Seq(What) /\ Len(Entries(what)) \in Nat
           /\ what # {} => Len(Entries(what)) > 0
           /\ what = {} => Entries(what) = <<>>
<1>1. <<"removed">> \in Seq(What) /\ <<"record">> \in Seq(What) /\ <<>> \in Seq(What)
  BY DEF What
<1>2. Len(<<"removed">>) = 1 /\ Len(<<"record">>) = 1
  OBVIOUS
<1>3. CASE "removed" \in what /\ "record" \in what
  <2>1. Entries(what) = <<"removed">> \o <<"record">>
    BY <1>3 DEF Entries
  <2>2. <<"removed">> \o <<"record">> \in Seq(What) /\ Len(<<"removed">> \o <<"record">>) = 2
    BY <1>1, <1>2
  <2> QED
    BY <1>3, <2>1, <2>2
<1>4. CASE "removed" \in what /\ "record" \notin what
  <2>1. Entries(what) = <<"removed">> \o <<>>
    BY <1>4 DEF Entries
  <2>2. <<"removed">> \o <<>> \in Seq(What) /\ Len(<<"removed">> \o <<>>) = 1
    BY <1>1, <1>2
  <2> QED
    BY <1>4, <2>1, <2>2
<1>5. CASE "removed" \notin what /\ "record" \in what
  <2>1. Entries(what) = <<>> \o <<"record">>
    BY <1>5 DEF Entries
  <2>2. <<>> \o <<"record">> \in Seq(What) /\ Len(<<>> \o <<"record">>) = 1
    BY <1>1, <1>2
  <2> QED
    BY <1>5, <2>1, <2>2
<1>6. CASE "removed" \notin what /\ "record" \notin what
  <2>1. what = {}
    BY <1>6 DEF What
  <2>2. Entries(what) = <<>> \o <<>>
    BY <1>6 DEF Entries
  <2>3. <<>> \o <<>> = <<>>
    OBVIOUS
  <2>4. Len(<<>>) = 0
    OBVIOUS
  <2>5. Entries(what) = <<>>
    BY <2>2, <2>3
  <2>6. Entries(what) \in Seq(What) /\ Len(Entries(what)) = 0
    BY <2>4, <2>5, <1>1
  <2> QED
    BY <2>1, <2>5, <2>6
<1> QED
  BY <1>3, <1>4, <1>5, <1>6

LEMMA FeedIs ==
    ASSUME log \in Seq(What), NEW d, NEW what \in SUBSET What, FeedTakes(d, what)
    PROVE  /\ log' \in Seq(What)
           /\ d # Shelf \/ what = {} => log' = log
           /\ d = Shelf /\ what # {} => Len(log') > Len(log)
<1>1. CASE d # Shelf
  BY <1>1 DEF FeedTakes
<1>2. CASE d = Shelf
  <2>1. log' = log \o Entries(what)
    BY <1>2 DEF FeedTakes
  <2>2. PICK q \in Seq(What) : q = Entries(what)
    BY EntriesAre
  <2>3. log \o q \in Seq(What) /\ Len(log \o q) = Len(log) + Len(q) /\ Len(log) \in Nat /\ Len(q) \in Nat
    BY <2>2
  <2>4. log \o <<>> = log
    OBVIOUS
  <2> QED
    BY <1>2, <2>1, <2>2, <2>3, <2>4, EntriesAre
<1> QED
  BY <1>1, <1>2

LEMMA StampIs ==
    ASSUME NEW d, NEW above \in Nat, cast \in Cast, NEW at \in Stamp(d, above)
    PROVE  at \in Nat /\ at > above
<1>1. cast.skew \in Nat /\ N \in Nat
  BY SyncSessionAssumption DEF Cast
<1>2. cast.skew * (N + 1) \in Nat
  BY <1>1
<1>3. at \in (above + 1) .. (above + cast.skew * (N + 1))
  BY DEF Stamp
<1> QED
  BY <1>2, <1>3

LEMMA GoesIs ==
    ASSUME session \in [Satchel -> Session], NEW s \in Satchel, NEW pc \in Pc, NEW msg \in Msg, Goes(s, pc, msg)
    PROVE  /\ session' \in [Satchel -> Session]
           /\ session'[s].pc = pc /\ session'[s].msg = msg /\ session'[s].until = session[s].until
           /\ \A t \in Satchel : t # s => session'[t] = session[t]
<1>1. session[s] \in Session
  OBVIOUS
<1>2. session' = [session EXCEPT ![s] = [@ EXCEPT !.pc = pc, !.msg = msg]]
  BY DEF Goes
<1>3. PICK new : new = [session[s] EXCEPT !.pc = pc, !.msg = msg]
  OBVIOUS
<1>4. new \in Session /\ new.pc = pc /\ new.msg = msg /\ new.until = session[s].until
  BY <1>1, <1>3 DEF Session
<1>5. session' = [session EXCEPT ![s] = new]
  BY <1>2, <1>3
<1> QED
  BY <1>4, <1>5

LEMMA WitnessIs ==
    ASSUME floor \in [Device -> Nat], NEW d \in Device, NEW at \in Int, NEW f, f = Witness(d, at)
    PROVE  /\ f \in [Device -> Nat] /\ f[d] >= at
           /\ \A e \in Device : f[e] >= floor[e]
<1>1. PICK top : top = Latest(floor[d], at)
  OBVIOUS
<1>2. top \in Nat /\ top >= at /\ top >= floor[d]
  BY <1>1 DEF Latest
<1>3. f = [floor EXCEPT ![d] = top]
  BY <1>1 DEF Witness
<1> QED
  BY <1>2, <1>3

-----------------------------------------------------------------------------
(* What holds between the steps. *)

MsgOf(s) == session[s].msg

\* The books: a device has the record of a book it has, and no stamp above what
\* it witnessed; the shelf has the book unless its register says removed.
Books ==
    /\ \A d \in Device : (live[d] <=> rec[d] # Absent) /\ Named(rec[d])
    /\ \A d \in Device : rec[d].at <= floor[d] /\ presence[d].at <= floor[d]
    /\ live[Shelf] <=> presence[Shelf].state # "removed"
    /\ cast.removers = {} => \A d \in Device : presence[d].state = "none" /\ presence[d].at = 0

\* The pushes being served: one whose session is gone is served where nothing is
\* removed; one that would bring a removed book back knows that it would.
Pending ==
    \A h \in served :
       /\ Named(h.msg.rec) /\ h.msg.rec.at <= floor[Shelf] /\ h.msg.live <= floor[Shelf]
       /\ h.of = Shelf => cast.removers = {}
       /\ h.of # Shelf => h.of \in cast.satchels
       /\ h.step = "apply" /\ h.msg.rec # Absent /\ h.msg.live = 0 /\ ~live[Shelf] => h.msg.known = TRUE

\* The register of s against the book, the shelf's and the outbox.
Base(s) ==
    /\ presence[s].state = "live" => live[s]
    /\ presence[s].state = "removed" => ~live[s]
    /\ presence[s].state = "none" <=> presence[s].at = 0
    /\ presence[Shelf].at <= presence[s].at
    /\ presence[Shelf].at = presence[s].at => presence[Shelf].state = presence[s].state
    /\ fresh[s] \subseteq owed[s]
    /\ "removed" \in owed[s] => presence[s].state # "none"
    /\ live[s] /\ "removed" \in owed[s] => "record" \in owed[s]
    /\ live[s] /\ "removed" \in fresh[s] => "record" \in fresh[s]

Pushing(s) == session[s].pc \in {"build", "push", "pushed", "ack", "clear"}

\* What is pushed is in the outbox; a removal or a restore waits for no later push.
Box(s) ==
    Pushing(s) => /\ MsgOf(s).revs \subseteq owed[s]
                  /\ "removed" \in owed[s] => "removed" \in MsgOf(s).revs \cup fresh[s]

Win(s) ==
    /\ cursor[s] <= HubSeq
    /\ ~At(s, "idle") => cursor[s] <= session[s].until /\ session[s].until <= HubSeq

\* The push will clear the record, the register's word; the window is the whole feed.
Told(s) == live[s] /\ "record" \in MsgOf(s).revs /\ "record" \notin fresh[s]
Gone(s) == "removed" \in MsgOf(s).revs /\ "removed" \notin fresh[s]
Whole(s) == session[s].until = HubSeq

\* A satchel that pulled all of the feed.
Level(s) ==
    live[Shelf] => /\ presence[s].state = "none" => live[s]
                   /\ live[s] /\ "record" \notin owed[s] => rec[Shelf].at <= rec[s].at

AtPush(s) ==
    At(s, "push") =>
       /\ Named(MsgOf(s).rec)
       /\ Told(s) => MsgOf(s).rec # Absent /\ rec[s].at <= MsgOf(s).rec.at
       /\ Gone(s) => (live[s] <=> MsgOf(s).rec # Absent)

Word(h, s) ==
    /\ At(s, "pushed") /\ h.msg.revs = MsgOf(s).revs
    /\ h.msg.live > 0 => /\ "removed" \in h.msg.revs
                         /\ presence[Shelf].at <= h.msg.live /\ h.msg.live <= presence[s].at
                         /\ h.msg.live = presence[s].at => presence[s].state = "live"
    /\ h.step # "answer" =>
          /\ Told(s) => h.msg.rec # Absent /\ rec[s].at <= h.msg.rec.at
          /\ Gone(s) /\ live[s] => h.msg.rec # Absent /\ h.msg.live > 0
          /\ Gone(s) /\ ~live[s] => h.msg.rec = Absent /\ ~live[Shelf]
    /\ h.step = "answer" =>
          /\ Told(s) => h.msg.rec # Absent /\ (live[Shelf] => rec[s].at <= rec[Shelf].at)
          /\ Gone(s) => (live[s] <=> live[Shelf])

Words(s) ==
    /\ \A h \in served : h.of = s => Word(h, s)
    /\ \A h, g \in served : h.of = s /\ g.of = s => h = g

AtAck(s) ==
    At(s, "ack") =>
       /\ Named(MsgOf(s).rec)
       /\ MsgOf(s).rec # Absent /\ live[Shelf] => MsgOf(s).rec.at <= rec[Shelf].at
       /\ Told(s) /\ live[Shelf] => rec[s].at <= rec[Shelf].at
       /\ Told(s) /\ live[Shelf] /\ Whole(s) => MsgOf(s).rec = rec[Shelf]
       /\ Gone(s) => (live[s] <=> live[Shelf])

AtClear(s) ==
    At(s, "clear") =>
       /\ Told(s) /\ live[Shelf] => rec[s].at <= rec[Shelf].at
       /\ Told(s) /\ live[Shelf] /\ Whole(s) => rec[Shelf].at <= rec[s].at
       /\ Gone(s) => (live[s] <=> live[Shelf])

AtRows(s) ==
    At(s, "rows") =>
       /\ MsgOf(s).revs # {} /\ MsgOf(s).removed <= presence[s].at
       /\ live[Shelf] => MsgOf(s).removed = 0

AtPage(s) ==
    At(s, "page") =>
       /\ Named(MsgOf(s).rec) /\ MsgOf(s).removed <= presence[s].at
       /\ MsgOf(s).rec # Absent /\ live[Shelf] => MsgOf(s).rec.at <= rec[Shelf].at
       /\ MsgOf(s).rec # Absent /\ ~MsgOf(s).known => presence[s].state = "none"
       /\ presence[s].state = "none" => (MsgOf(s).known <=> live[s])
       /\ Whole(s) /\ live[Shelf] /\ (presence[s].state = "none" \/ (live[s] /\ "record" \notin owed[s]))
             => MsgOf(s).rec = rec[Shelf]

AtEnd(s) ==
    /\ At(s, "removals") => MsgOf(s).removed > 0 /\ MsgOf(s).removed <= presence[s].at
    /\ (At(s, "removals") \/ At(s, "cursor")) /\ Whole(s) => Level(s)

Met(s) ==
    /\ presence[s].state # "none" /\ "removed" \notin owed[s] => (live[s] <=> live[Shelf])
    /\ live[s] /\ live[Shelf] /\ "record" \notin owed[s] => rec[s].at <= rec[Shelf].at
    /\ cursor[s] = HubSeq => Level(s)

Phases(s) == AtPush(s) /\ Words(s) /\ AtAck(s) /\ AtClear(s) /\ AtRows(s) /\ AtPage(s) /\ AtEnd(s)
Per(s) == Base(s) /\ Box(s) /\ Win(s) /\ Phases(s) /\ Met(s)

Calm == Shape /\ Books /\ Pending /\ \A s \in cast.satchels : Per(s)

LEMMA HeldIs ==
    ASSUME NEW r \in Held
    PROVE  r.at \in Int
BY DEF Held, Reg, Absent

LEMMA ShapeIs ==
    ASSUME Shape
    PROVE  /\ \A d \in Device : /\ rec[d] \in Held /\ rec[d].at \in Int
                                /\ presence[d] \in Presence /\ presence[d].at \in Nat /\ floor[d] \in Nat
           /\ Len(log) \in Nat
           /\ \A s \in Satchel : /\ session[s] \in Session /\ cursor[s] \in Nat /\ session[s].until \in Nat
                                 /\ MsgOf(s) \in Msg /\ MsgOf(s).rec \in Held /\ MsgOf(s).rec.at \in Int
                                 /\ MsgOf(s).removed \in Nat /\ MsgOf(s).live \in Nat /\ MsgOf(s).revs \subseteq What
           /\ \A h \in served : /\ h \in Handler /\ h.msg \in Msg /\ h.msg.rec \in Held /\ h.msg.rec.at \in Int
                                /\ h.msg.live \in Nat /\ h.msg.removed \in Nat /\ h.msg.revs \subseteq What
<1>1. \A d \in Device : rec[d] \in Held /\ presence[d] \in Presence /\ floor[d] \in Nat
  BY DEF Shape
<1>2. \A d \in Device : rec[d].at \in Int /\ presence[d].at \in Nat
  BY <1>1, HeldIs DEF Presence
<1>3. \A s \in Satchel : session[s] \in Session /\ cursor[s] \in Nat
  BY DEF Shape
<1>4. \A s \in Satchel : session[s].until \in Nat /\ MsgOf(s) \in Msg
  BY <1>3 DEF Session, MsgOf
<1>5. \A m \in Msg : m.rec \in Held /\ m.removed \in Nat /\ m.live \in Nat /\ m.revs \subseteq What
  BY DEF Msg, Held
<1>6. \A m \in Msg : m.rec.at \in Int
  BY <1>5, HeldIs
<1>7. \A h \in served : h \in Handler /\ h.msg \in Msg
  BY DEF Shape, Handler
<1>8. Len(log) \in Nat
  BY DEF Shape
<1> QED
  BY <1>1, <1>2, <1>3, <1>4, <1>5, <1>6, <1>7, <1>8

-----------------------------------------------------------------------------
(* What the others do. *)

Same(s) ==
    /\ live'[s] = live[s] /\ rec'[s] = rec[s] /\ presence'[s] = presence[s]
    /\ owed'[s] = owed[s] /\ fresh'[s] = fresh[s] /\ cursor'[s] = cursor[s] /\ session'[s] = session[s]
    /\ \A h \in Handler : h.of = s => (h \in served' <=> h \in served)

Shelved ==
    /\ live'[Shelf] = live[Shelf] /\ presence'[Shelf] = presence[Shelf]
    /\ rec'[Shelf].at >= rec[Shelf].at
    /\ Len(log') >= Len(log)
    /\ Len(log') = Len(log) => rec'[Shelf] = rec[Shelf]

\* A satchel that does nothing keeps what holds of it while the shelf's record
\* and feed grow.
LEMMA OthersStay ==
    ASSUME Shape, Shape', NEW s \in Satchel, Per(s), Same(s), Shelved
    PROVE  Per(s)'
<1>0. rec'[Shelf] \in Held /\ Len(log') \in Nat
  BY DevicesAre DEF Shape
<1>1. /\ rec[Shelf].at \in Int /\ rec'[Shelf].at \in Int /\ Len(log) \in Nat /\ Len(log') \in Nat
      /\ rec[s].at \in Int /\ cursor[s] \in Nat /\ session[s].until \in Nat
  BY <1>0, DevicesAre, ShapeIs, HeldIs
<1>2. Base(s)'
  BY DEF Per, Base, Same, Shelved
<1>3. Box(s)'
  BY DEF Per, Box, Same, Pushing, MsgOf
<1>4. Win(s)'
  BY <1>1 DEF Per, Win, Same, Shelved, HubSeq, At
<1>5. AtPush(s)'
  BY DEF Per, Phases, AtPush, Same, MsgOf, Told, Gone, At
<1>6. Words(s)'
  <2>1. ASSUME NEW h \in served', h.of = s PROVE h \in served /\ h \in Handler
    BY <2>1 DEF Same, Shape
  <2>2. ASSUME NEW h \in served', h.of = s PROVE Word(h, s)'
    <3>1. Word(h, s)
      BY <2>1, <2>2 DEF Per, Phases, Words
    <3>2. h.msg.rec.at \in Int
      BY <2>1, <2>2 DEF Handler, Msg, Reg, Absent
    <3> QED
      BY <1>1, <3>1, <3>2 DEF Word, Same, Shelved, MsgOf, Told, Gone, At
  <2>3. \A h, g \in served' : h.of = s /\ g.of = s => h = g
    BY <2>1 DEF Per, Phases, Words
  <2> QED
    BY <2>2, <2>3 DEF Words
<1>7. Whole(s)' /\ ~At(s, "idle") => Len(log') = Len(log) /\ Whole(s) /\ rec'[Shelf] = rec[Shelf]
  BY <1>1 DEF Per, Win, Whole, HubSeq, Same, Shelved, At
<1>8. AtAck(s)'
  <2>1. MsgOf(s).rec.at \in Int
    BY ShapeIs
  <2> QED
    BY <1>1, <1>7, <2>1 DEF Per, Phases, AtAck, Same, Shelved, MsgOf, Told, Gone, At
<1>9. AtClear(s)'
  BY <1>1, <1>7 DEF Per, Phases, AtClear, Same, Shelved, MsgOf, Told, Gone, At
<1>10. AtRows(s)'
  BY DEF Per, Phases, AtRows, Same, Shelved, MsgOf, At
<1>11. AtPage(s)'
  <2>1. MsgOf(s).rec.at \in Int
    BY ShapeIs
  <2> QED
    BY <1>1, <1>7, <2>1 DEF Per, Phases, AtPage, Same, Shelved, MsgOf, At
<1>12. rec'[Shelf] = rec[Shelf] /\ Level(s) => Level(s)'
  BY DEF Level, Same, Shelved
<1>13. AtEnd(s)'
  BY <1>7, <1>12 DEF Per, Phases, AtEnd, Same, MsgOf, At
<1>14. Met(s)'
  <2>1. cursor'[s] = Len(log') => Level(s)'
    BY <1>1, <1>12 DEF Per, Win, Met, Same, Shelved, HubSeq
  <2> QED
    BY <1>1, <2>1 DEF Per, Met, Same, Shelved, HubSeq
<1> QED
  BY <1>2, <1>3, <1>4, <1>5, <1>6, <1>8, <1>9, <1>10, <1>11, <1>13, <1>14 DEF Per, Phases

LEMMA BooksStay ==
    ASSUME Shape, Shape', Books, UNCHANGED <<live, rec, presence, cast>>,
           \A d \in Device : floor'[d] >= floor[d]
    PROVE  Books'
<1>1. \A d \in Device : floor'[d] \in Nat
  BY DEF Shape
<1>2. \A d \in Device : rec'[d].at <= floor'[d] /\ presence'[d].at <= floor'[d]
  BY <1>1, ShapeIs DEF Books
<1> QED
  BY <1>2 DEF Books

LEMMA PendingStay ==
    ASSUME Shape, Shape', Pending, served' \subseteq served, live'[Shelf] = live[Shelf], cast' = cast,
           floor'[Shelf] >= floor[Shelf]
    PROVE  Pending'
<1>1. floor[Shelf] \in Nat /\ floor'[Shelf] \in Nat
  BY DevicesAre DEF Shape
<1>2. \A h \in served' : h.msg.rec.at <= floor'[Shelf] /\ h.msg.live <= floor'[Shelf]
  BY <1>1, ShapeIs DEF Pending
<1> QED
  BY <1>2 DEF Pending

\* A step is one device's: what is left to show of it.
LEMMA StepIs ==
    ASSUME Tame, Calm, NEW s \in Device, Shape', Books', Pending', cast' = cast, Shelved,
           \A t \in cast.satchels : t # s => Same(t),
           s \in cast.satchels => Per(s)'
    PROVE  Calm'
<1>1. cast.satchels \subseteq Satchel
  BY TameIs DEF Calm, Shape
<1>2. ASSUME NEW t \in cast.satchels, t # s PROVE Per(t)'
  BY <1>1, <1>2, OthersStay DEF Calm
<1> QED
  BY <1>2 DEF Calm

\* A step that touches neither the books nor the feed nor what is served.
Aside(s) ==
    /\ UNCHANGED <<live, rec, presence, log, served, lost, cast>>
    /\ \A d \in Device : floor'[d] >= floor[d]
    /\ \A t \in Satchel : t # s => owed'[t] = owed[t] /\ fresh'[t] = fresh[t]
                                   /\ cursor'[t] = cursor[t] /\ session'[t] = session[t]

LEMMA AsideIs ==
    ASSUME Tame, Calm, NEW s \in cast.satchels, Shape', Aside(s), Per(s)'
    PROVE  Calm'
<1>1. s \in Device /\ cast.satchels \subseteq Satchel
  BY TameIs, DevicesAre DEF Calm, Shape
<1>2. Books'
  BY BooksStay DEF Calm, Aside
<1>3. Pending'
  BY PendingStay, DevicesAre DEF Calm, Aside
<1>4. Shelved
  BY ShapeIs, DevicesAre DEF Shelved, Aside, Calm
<1>5. \A t \in cast.satchels : t # s => Same(t)
  BY <1>1 DEF Same, Aside
<1> QED
  BY <1>1, <1>2, <1>3, <1>4, <1>5, StepIs DEF Aside

\* Outside a push nothing of the satchel is served.
LEMMA Unheard ==
    ASSUME Calm, NEW s \in cast.satchels, ~At(s, "pushed")
    PROVE  \A h \in served : h.of # s
BY DEF Calm, Per, Phases, Words, Word

\* Where the books stand still, so does what is said of them.
LEMMA Still ==
    ASSUME Tame, Calm, NEW s \in cast.satchels, Shape', Aside(s), ~At(s, "pushed"), ~At(s, "pushed")',
           owed' = owed, fresh' = fresh
    PROVE  Base(s)' /\ Words(s)' /\ (Level(s) => Level(s)') /\ (cursor' = cursor => Met(s)')
<1>1. Base(s)'
  BY DEF Calm, Per, Base, Aside
<1>2. Words(s)'
  BY Unheard DEF Words, Aside
<1>3. Level(s) => Level(s)'
  BY DEF Level, Aside
<1>4. cursor' = cursor => Met(s)'
  BY <1>3 DEF Calm, Per, Met, Aside, HubSeq
<1> QED
  BY <1>1, <1>2, <1>3, <1>4

-----------------------------------------------------------------------------
(* The session's steps that touch nothing but itself. *)

LEMMA BuildKeeps ==
    ASSUME Tame, Calm, NEW s \in cast.satchels, Build(s)
    PROVE  Calm'
<1>0. Shape /\ s \in Satchel /\ s \in Device
  BY TameIs, DevicesAre DEF Calm, Shape
<1>1. PICK r : r = IF live[s] THEN rec[s] ELSE Absent
  OBVIOUS
<1>2. r \in Held /\ Named(r) /\ (live[s] => r = rec[s]) /\ (~live[s] => r = Absent)
  BY <1>0, <1>1, ShapeIs, NoMsgIs DEF Calm, Books, Named
<1>3. PICK msg : msg = [session[s].msg EXCEPT !.rec = r]
  OBVIOUS
<1>4. msg \in Msg /\ msg.rec = r /\ msg.revs = MsgOf(s).revs
  <2>1. session[s].msg \in Msg
    BY <1>0, ShapeIs DEF MsgOf
  <2> QED
    BY <1>2, <1>3, <2>1 DEF Msg, Held, MsgOf
<1>5. Goes(s, "push", msg) /\ At(s, "build")
  BY <1>1, <1>3 DEF Build
<1>6. /\ session' \in [Satchel -> Session] /\ At(s, "push")' /\ MsgOf(s)' = msg /\ session'[s].until = session[s].until
      /\ \A t \in Satchel : t # s => session'[t] = session[t]
  BY <1>0, <1>4, <1>5, GoesIs DEF Shape, Pc, At, MsgOf
<1>7. Shape'
  BY <1>0, <1>6 DEF Build, Shape
<1>8. Aside(s)
  BY <1>0, <1>6, ShapeIs DEF Aside, Build
<1>9. Per(s)'
  <2>1. Base(s)' /\ Words(s)' /\ Met(s)'
    BY <1>5, <1>6, <1>7, <1>8, Still DEF At, Build
  <2>2. Box(s)'
    BY <1>4, <1>5, <1>6 DEF Calm, Per, Box, Pushing, At, Build
  <2>3. Win(s)'
    BY <1>5, <1>6 DEF Calm, Per, Win, At, Build, HubSeq
  <2>4. AtPush(s)'
    <3>1. live'[s] = live[s] /\ rec'[s] = rec[s] /\ rec[s].at \in Int /\ (live[s] => rec[s] # Absent)
      BY <1>0, ShapeIs DEF Build, Calm, Books
    <3> QED
      BY <1>2, <1>4, <1>6, <3>1 DEF AtPush, Told, Gone
  <2> QED
    BY <1>6, <2>1, <2>2, <2>3, <2>4 DEF Per, Phases, AtAck, AtClear, AtRows, AtPage, AtEnd, At
<1> QED
  BY <1>7, <1>8, <1>9, AsideIs

LEMMA RowsKeeps ==
    ASSUME Tame, Calm, NEW s \in cast.satchels, Rows(s)
    PROVE  Calm'
<1>0. Shape /\ s \in Satchel /\ s \in Device /\ Shelf \in Device
  BY TameIs, DevicesAre DEF Calm, Shape
<1>1. PICK r : r = IF RowAsked(MsgOf(s)) /\ live[Shelf] /\ RowTaken(s) THEN rec[Shelf] ELSE Absent
  OBVIOUS
<1>2. r \in Held /\ Named(r)
  BY <1>0, <1>1, ShapeIs, NoMsgIs DEF Calm, Books, Named
<1>3. PICK n : n = IF "removed" \in MsgOf(s).revs THEN MsgOf(s).removed ELSE 0
  OBVIOUS
<1>4. n \in Nat /\ n <= presence[s].at
  BY <1>0, <1>3, ShapeIs DEF Rows, Calm, Per, Phases, AtRows
<1>5. PICK k : k = live[s]
  OBVIOUS
<1>6. k \in BOOLEAN
  BY <1>0, <1>5 DEF Shape
<1>7. PICK msg : msg = [NoMsg EXCEPT !.rec = r, !.removed = n, !.known = k]
  OBVIOUS
<1>8. msg \in Msg /\ msg.rec = r /\ msg.removed = n /\ msg.known = k
  <2>1. msg = [revs |-> {}, rec |-> r, removed |-> n, live |-> 0, known |-> k]
    BY <1>7 DEF NoMsg
  <2> QED
    BY <1>2, <1>4, <1>6, <2>1 DEF Msg, Held
<1>9. Goes(s, "page", msg) /\ At(s, "rows")
  BY <1>1, <1>3, <1>5, <1>7 DEF Rows, MsgOf
<1>10. /\ session' \in [Satchel -> Session] /\ At(s, "page")' /\ MsgOf(s)' = msg /\ session'[s].until = session[s].until
      /\ \A t \in Satchel : t # s => session'[t] = session[t]
  BY <1>0, <1>8, <1>9, GoesIs DEF Shape, Pc, At, MsgOf
<1>11. Shape'
  BY <1>0, <1>10 DEF Rows, Shape
<1>12. Aside(s)
  BY <1>0, <1>10, ShapeIs DEF Aside, Rows
<1>13. Per(s)'
  <2>1. Base(s)' /\ Words(s)' /\ Met(s)'
    BY <1>9, <1>10, <1>11, <1>12, Still DEF At, Rows
  <2>2. Box(s)'
    BY <1>10 DEF Box, Pushing, At
  <2>3. Win(s)'
    BY <1>9, <1>10 DEF Calm, Per, Win, At, Rows, HubSeq
  <2>4. AtPage(s)'
    <3>1. live' = live /\ rec' = rec /\ presence' = presence /\ owed' = owed /\ rec[Shelf].at \in Int
      BY <1>0, ShapeIs DEF Rows
    <3>2. r # Absent => r = rec[Shelf]
      BY <1>1
    <3>3. r # Absent /\ ~live[s] => presence[s].state = "none"
      <4>1. r # Absent => RowTaken(s)
        BY <1>1
      <4>2. presence[s].state \in {"none", "live", "removed"}
        BY <1>0, ShapeIs DEF Presence
      <4> QED
        BY <4>1, <4>2 DEF RowTaken, Calm, Per, Base
    <3>4. live[Shelf] /\ (presence[s].state = "none" \/ live[s]) => r = rec[Shelf]
      <4>1. MsgOf(s).revs # {} /\ MsgOf(s).revs \subseteq What /\ (live[Shelf] => MsgOf(s).removed = 0)
        BY <1>0, <1>9, ShapeIs DEF Calm, Per, Phases, AtRows
      <4>2. live[Shelf] => RowAsked(MsgOf(s))
        BY <4>1 DEF RowAsked, What
      <4>3. presence[s].state = "none" \/ live[s] => RowTaken(s)
        BY DEF RowTaken
      <4> QED
        BY <1>1, <4>2, <4>3
    <3>5. Named(msg.rec) /\ (msg.known <=> live[s])
      BY <1>2, <1>5, <1>8
    <3>6. r # Absent /\ live[Shelf] => r.at <= rec[Shelf].at
      BY <3>1, <3>2
    <3> QED
      BY <1>4, <1>8, <1>10, <3>1, <3>3, <3>4, <3>5, <3>6 DEF AtPage
  <2> QED
    BY <1>10, <2>1, <2>2, <2>3, <2>4 DEF Per, Phases, AtAck, AtClear, AtRows, AtPush, AtEnd, At
<1> QED
  BY <1>11, <1>12, <1>13, AsideIs

LEMMA RemovalsKeeps ==
    ASSUME Tame, Calm, NEW s \in cast.satchels, Removals(s)
    PROVE  Calm'
<1>0. Shape /\ s \in Satchel /\ s \in Device
  BY TameIs, DevicesAre DEF Calm, Shape
<1>1. At(s, "removals") /\ Goes(s, "cursor", NoMsg)
  BY DEF Removals
<1>2. ~Newer(s, session[s].msg.removed)
  <2>1. MsgOf(s).removed > 0 /\ MsgOf(s).removed <= presence[s].at
    BY <1>1 DEF Calm, Per, Phases, AtEnd
  <2>2. presence[s].at \in Nat /\ MsgOf(s).removed \in Nat /\ (presence[s].state = "none" => presence[s].at = 0)
    BY <1>0, ShapeIs DEF Calm, Per, Base
  <2> QED
    BY <2>1, <2>2 DEF Newer, MsgOf
<1>3. UNCHANGED <<live, rec, presence, floor, log, owed, fresh, cursor, served, acts, lost, cast>>
  BY <1>2 DEF Removals, RemovalNoted
<1>4. /\ session' \in [Satchel -> Session] /\ At(s, "cursor")' /\ session'[s].until = session[s].until
      /\ \A t \in Satchel : t # s => session'[t] = session[t]
  BY <1>0, <1>1, GoesIs, NoMsgIs DEF Shape, Pc, At
<1>5. Shape'
  BY <1>0, <1>3, <1>4 DEF Shape
<1>6. Aside(s)
  BY <1>0, <1>3, <1>4, ShapeIs DEF Aside
<1>7. Per(s)'
  <2>1. Base(s)' /\ Words(s)' /\ Met(s)' /\ (Level(s) => Level(s)')
    BY <1>1, <1>3, <1>4, <1>5, <1>6, Still DEF At
  <2>2. Box(s)'
    BY <1>4 DEF Box, Pushing, At
  <2>3. Win(s)'
    BY <1>1, <1>3, <1>4 DEF Calm, Per, Win, At, HubSeq
  <2>4. AtEnd(s)'
    <3>1. Whole(s)' => Whole(s)
      BY <1>3, <1>4 DEF Whole, HubSeq
    <3> QED
      BY <1>1, <1>4, <2>1, <3>1 DEF AtEnd, Calm, Per, Phases, At
  <2> QED
    BY <1>4, <2>1, <2>2, <2>3, <2>4 DEF Per, Phases, AtAck, AtClear, AtRows, AtPush, AtPage, At
<1> QED
  BY <1>5, <1>6, <1>7, AsideIs

LEMMA PullKeeps ==
    ASSUME Tame, Calm, NEW s \in cast.satchels, Pull(s)
    PROVE  Calm'
<1>0. Shape /\ s \in Satchel /\ s \in Device /\ Shelf \in Device
  BY TameIs, DevicesAre DEF Calm, Shape
<1>1. At(s, "pull")
  BY DEF Pull
<1>2. Feed(s) \subseteq What
  <2>1. \A i \in (cursor[s] + 1) .. session[s].until : log[i] \in What
    <3>1. cursor[s] \in Nat /\ session[s].until \in Nat /\ session[s].until <= Len(log) /\ log \in Seq(What)
      BY <1>0, <1>1, ShapeIs DEF Calm, Per, Win, HubSeq, At, Shape
    <3> QED
      BY <3>1
  <2> QED
    BY <2>1 DEF Feed
<1>3. PICK n : n = IF presence[Shelf].state = "removed" THEN presence[Shelf].at ELSE 0
  OBVIOUS
<1>4. n \in Nat /\ n <= presence[s].at /\ (live[Shelf] => n = 0)
  BY <1>0, <1>3, ShapeIs DEF Calm, Per, Base, Books
<1>5. PICK revs : revs = Feed(s)
  OBVIOUS
<1>6. PICK msg : msg = [NoMsg EXCEPT !.revs = revs, !.removed = n]
  OBVIOUS
<1>7. msg \in Msg /\ msg.removed = n /\ msg.revs = revs
  <2>1. msg = [revs |-> revs, rec |-> Absent, removed |-> n, live |-> 0, known |-> FALSE]
    BY <1>6 DEF NoMsg
  <2> QED
    BY <1>2, <1>4, <1>5, <2>1 DEF Msg
<1>8. UNCHANGED <<live, rec, presence, floor, log, owed, fresh, cursor, served, acts, lost, cast>>
  BY DEF Pull
<1>9. IF revs = {} THEN Goes(s, "cursor", NoMsg) ELSE Goes(s, "rows", msg)
  BY <1>3, <1>5, <1>6 DEF Pull
<1>10. /\ session' \in [Satchel -> Session] /\ session'[s].until = session[s].until
       /\ revs = {} => At(s, "cursor")'
       /\ revs # {} => At(s, "rows")' /\ MsgOf(s)' = msg
       /\ \A t \in Satchel : t # s => session'[t] = session[t]
  <2>1. CASE revs = {}
    BY <1>0, <1>9, <2>1, GoesIs, NoMsgIs DEF Shape, Pc, At
  <2>2. CASE revs # {}
    BY <1>0, <1>7, <1>9, <2>2, GoesIs DEF Shape, Pc, At, MsgOf
  <2> QED
    BY <2>1, <2>2
<1>11. At(s, "cursor")' \/ At(s, "rows")'
  BY <1>10
<1>12. Shape'
  BY <1>0, <1>8, <1>10 DEF Shape
<1>13. Aside(s)
  BY <1>0, <1>8, <1>10, ShapeIs DEF Aside
<1>14. Per(s)'
  <2>1. Base(s)' /\ Words(s)' /\ Met(s)' /\ (Level(s) => Level(s)')
    BY <1>1, <1>8, <1>11, <1>12, <1>13, Still DEF At
  <2>2. Box(s)'
    BY <1>11 DEF Box, Pushing, At
  <2>3. Win(s)'
    BY <1>1, <1>8, <1>10 DEF Calm, Per, Win, At, HubSeq
  <2>4. AtRows(s)'
    BY <1>4, <1>7, <1>8, <1>10 DEF AtRows, At
  <2>5. AtEnd(s)'
    <3>1. ASSUME revs = {}, Whole(s)' PROVE Level(s)
      <4>1. session[s].until = Len(log) /\ cursor[s] <= session[s].until /\ cursor[s] \in Nat /\ session[s].until \in Nat
        BY <1>0, <1>1, <1>8, <1>10, <3>1, ShapeIs DEF Calm, Per, Win, HubSeq, At, Whole
      <4>2. cursor[s] < session[s].until => log[session[s].until] \in Feed(s)
        BY <4>1 DEF Feed
      <4>3. cursor[s] = Len(log)
        BY <1>5, <3>1, <4>1, <4>2
      <4> QED
        BY <4>3 DEF Calm, Per, Met, HubSeq
    <3> QED
      BY <1>10, <2>1, <3>1 DEF AtEnd, At
  <2> QED
    BY <1>11, <2>1, <2>2, <2>3, <2>4, <2>5 DEF Per, Phases, AtAck, AtClear, AtPush, AtPage, At
<1> QED
  BY <1>12, <1>13, <1>14, AsideIs

LEMMA CursorKeeps ==
    ASSUME Tame, Calm, NEW s \in cast.satchels, Cursor(s)
    PROVE  Calm'
<1>0. Shape /\ s \in Satchel /\ s \in Device
  BY TameIs, DevicesAre DEF Calm, Shape
<1>1. At(s, "cursor")
  BY DEF Cursor
<1>2. Idle \in Session /\ Idle.pc = "idle"
  BY NoMsgIs DEF Idle, Session, Pc
<1>3. /\ session' \in [Satchel -> Session] /\ At(s, "idle")'
      /\ \A t \in Satchel : t # s => session'[t] = session[t]
  BY <1>0, <1>2 DEF Cursor, Shape, At
<1>4. /\ cursor' \in [Satchel -> Nat] /\ cursor'[s] = session[s].until
      /\ \A t \in Satchel : t # s => cursor'[t] = cursor[t]
  <2>1. cursor \in [Satchel -> Nat] /\ session[s].until \in Nat
    BY <1>0, ShapeIs DEF Shape
  <2> QED
    BY <1>0, <2>1 DEF Cursor, NextSince
<1>5. UNCHANGED <<live, rec, presence, floor, log, owed, fresh, served, lost, cast>>
  BY DEF Cursor
<1>6. Shape'
  <2>1. session' \in [Satchel -> Session]
    BY <1>3
  <2>2. cursor' \in [Satchel -> Nat]
    BY <1>4
  <2> QED
    BY <1>0, <1>5, <2>1, <2>2 DEF Shape
<1>7. Aside(s)
  BY <1>0, <1>3, <1>4, <1>5, ShapeIs DEF Aside
<1>8. Per(s)'
  <2>1. Base(s)' /\ Words(s)' /\ (Level(s) => Level(s)')
    BY <1>1, <1>3, <1>5, <1>6, <1>7, Still DEF At
  <2>2. Box(s)'
    BY <1>3 DEF Box, Pushing, At
  <2>3. session[s].until <= HubSeq
    BY <1>1 DEF Calm, Per, Win, At
  <2>4. Win(s)'
    BY <1>3, <1>4, <1>5, <2>3 DEF Win, HubSeq
  <2>5. Met(s)'
    <3>1. cursor'[s] = HubSeq' => Level(s)'
      <4>1. cursor'[s] = HubSeq' => Whole(s)
        BY <1>4, <1>5 DEF Whole, HubSeq
      <4> QED
        BY <1>1, <2>1, <4>1 DEF Calm, Per, Phases, AtEnd
    <3> QED
      BY <1>5, <3>1 DEF Met, Calm, Per
  <2> QED
    BY <1>3, <2>1, <2>2, <2>4, <2>5 DEF Per, Phases, AtAck, AtClear, AtPush, AtPage, AtRows, AtEnd, At
<1> QED
  BY <1>6, <1>7, <1>8, AsideIs

LEMMA HelloKeeps ==
    ASSUME Tame, Calm, NEW s \in cast.satchels, Hello(s)
    PROVE  Calm'
<1>0. Shape /\ s \in Satchel /\ s \in Device /\ Shelf \in Device
  BY TameIs, DevicesAre DEF Calm, Shape
<1>1. At(s, "idle")
  BY DEF Hello
<1>2. /\ floor' \in [Device -> Nat]
      /\ \A d \in Device : floor'[d] >= floor[d]
  <2>1. PICK top : top = Latest(floor[s], floor[Shelf])
    OBVIOUS
  <2>2. floor[s] \in Nat /\ floor[Shelf] \in Nat
    BY <1>0, ShapeIs
  <2>3. top \in Nat /\ top >= floor[s] /\ top >= floor[Shelf]
    BY <2>1, <2>2 DEF Latest
  <2>4. floor' = [floor EXCEPT ![s] = top, ![Shelf] = top]
    BY <2>1 DEF Hello
  <2>5. floor \in [Device -> Nat]
    BY <1>0 DEF Shape
  <2>6. floor' \in [Device -> Nat]
    BY <2>3, <2>4, <2>5
  <2>7. \A d \in Device : floor'[d] = IF d = s \/ d = Shelf THEN top ELSE floor[d]
    BY <1>0, <2>4, <2>5
  <2> QED
    BY <2>3, <2>5, <2>6, <2>7
<1>3. PICK pc : pc = IF owed[s] = {} THEN "pull" ELSE "build"
  OBVIOUS
<1>4. pc \in {"pull", "build"}
  BY <1>3
<1>5. PICK msg : msg = [NoMsg EXCEPT !.revs = owed[s]]
  OBVIOUS
<1>6. msg \in Msg /\ msg.revs = owed[s]
  <2>1. msg = [revs |-> owed[s], rec |-> Absent, removed |-> 0, live |-> 0, known |-> FALSE]
    BY <1>5 DEF NoMsg
  <2>2. owed[s] \subseteq What
    BY <1>0 DEF Shape
  <2> QED
    BY <2>1, <2>2 DEF Msg
<1>7. PICK new : new = [pc |-> pc, until |-> HubSeq, msg |-> msg]
  OBVIOUS
<1>8. new \in Session /\ new.pc = pc /\ new.until = HubSeq /\ new.msg = msg
  BY <1>0, <1>4, <1>6, <1>7, ShapeIs DEF Session, Pc, HubSeq
<1>9. session' = [session EXCEPT ![s] = new]
  BY <1>3, <1>5, <1>7 DEF Hello
<1>10. session' \in [Satchel -> Session] /\ session'[s] = new /\ \A t \in Satchel : t # s => session'[t] = session[t]
  BY <1>0, <1>8, <1>9 DEF Shape
<1>11. At(s, pc)' /\ MsgOf(s)' = msg /\ session'[s].until = HubSeq
  BY <1>8, <1>10 DEF At, MsgOf
<1>12. /\ fresh' \in [Satchel -> SUBSET What] /\ fresh'[s] = {}
       /\ \A t \in Satchel : t # s => fresh'[t] = fresh[t]
  BY <1>0 DEF Hello, Shape
<1>13. UNCHANGED <<live, rec, presence, owed, log, cursor, served, lost, cast>>
  BY DEF Hello
<1>14. Shape'
  <2>1. session' \in [Satchel -> Session]
    BY <1>10
  <2>2. floor' \in [Device -> Nat]
    BY <1>2
  <2>3. fresh' \in [Satchel -> SUBSET What]
    BY <1>12
  <2> QED
    BY <1>0, <1>13, <2>1, <2>2, <2>3 DEF Shape
<1>15. Aside(s)
  BY <1>2, <1>10, <1>12, <1>13 DEF Aside
<1>16. Per(s)'
  <2>1. Base(s)'
    BY <1>12, <1>13 DEF Calm, Per, Base
  <2>2. Box(s)'
    BY <1>6, <1>11, <1>13 DEF Box
  <2>3. Win(s)'
    BY <1>0, <1>11, <1>13, ShapeIs DEF Calm, Per, Win, HubSeq
  <2>4. Words(s)'
    BY <1>1, <1>13, Unheard DEF Words, At
  <2>5. Met(s)'
    BY <1>13 DEF Calm, Per, Met, Level, HubSeq
  <2> QED
    BY <1>4, <1>11, <2>1, <2>2, <2>3, <2>4, <2>5 DEF Per, Phases, AtAck, AtClear, AtPush, AtPage, AtRows, AtEnd, At
<1> QED
  BY <1>14, <1>15, <1>16, AsideIs

LEMMA ClearKeeps ==
    ASSUME Tame, Calm, NEW s \in cast.satchels, Clear(s)
    PROVE  Calm'
<1>0. Shape /\ s \in Satchel /\ s \in Device /\ Shelf \in Device
  BY TameIs, DevicesAre DEF Calm, Shape
<1>1. At(s, "clear") /\ Goes(s, "pull", NoMsg)
  BY DEF Clear
<1>2. /\ session' \in [Satchel -> Session] /\ At(s, "pull")' /\ session'[s].until = session[s].until
      /\ \A t \in Satchel : t # s => session'[t] = session[t]
  BY <1>0, <1>1, GoesIs, NoMsgIs DEF Shape, Pc, At
<1>3. /\ owed' \in [Satchel -> SUBSET What] /\ owed'[s] = owed[s] \ (MsgOf(s).revs \ fresh[s])
      /\ \A t \in Satchel : t # s => owed'[t] = owed[t]
  BY <1>0 DEF Clear, Cleared, Shape, MsgOf
<1>4. UNCHANGED <<live, rec, presence, floor, fresh, log, cursor, served, lost, cast>>
  BY DEF Clear
<1>5. Shape'
  <2>1. session' \in [Satchel -> Session]
    BY <1>2
  <2>2. owed' \in [Satchel -> SUBSET What]
    BY <1>3
  <2> QED
    BY <1>0, <1>4, <2>1, <2>2 DEF Shape
<1>6. Aside(s)
  BY <1>0, <1>2, <1>3, <1>4, ShapeIs DEF Aside
<1>7. "removed" \in owed'[s] => "removed" \in fresh[s] /\ "removed" \in owed[s]
  BY <1>1, <1>3 DEF Calm, Per, Box, Pushing, At
<1>8. Base(s)'
  BY <1>3, <1>4, <1>7 DEF Calm, Per, Base
<1>9. presence[s].state # "none" /\ "removed" \notin owed'[s] => (live[s] <=> live[Shelf])
  BY <1>1, <1>3 DEF Calm, Per, Met, Phases, AtClear, Gone
<1>10. live[s] /\ live[Shelf] /\ "record" \notin owed'[s] => rec[s].at <= rec[Shelf].at
  BY <1>1, <1>3 DEF Calm, Per, Met, Phases, AtClear, Told
<1>11. ASSUME cursor[s] = HubSeq PROVE Level(s)'
  <2>1. Whole(s)
    BY <1>0, <1>1, <1>11, ShapeIs DEF Calm, Per, Win, At, HubSeq, Whole
  <2>2. live[Shelf] /\ live[s] /\ "record" \notin owed'[s] => rec[Shelf].at <= rec[s].at
    BY <1>1, <1>3, <1>11, <2>1 DEF Calm, Per, Met, Level, Phases, AtClear, Told
  <2>3. live[Shelf] /\ presence[s].state = "none" => live[s]
    BY <1>11 DEF Calm, Per, Met, Level
  <2> QED
    BY <1>4, <2>2, <2>3 DEF Level
<1>12. Met(s)'
  BY <1>4, <1>9, <1>10, <1>11 DEF Met, HubSeq
<1>13. Per(s)'
  <2>1. Words(s)'
    BY <1>1, <1>4, Unheard DEF Words, At
  <2>2. Box(s)'
    BY <1>2 DEF Box, Pushing, At
  <2>3. Win(s)'
    BY <1>1, <1>2, <1>4 DEF Calm, Per, Win, At, HubSeq
  <2> QED
    BY <1>2, <1>8, <1>12, <2>1, <2>2, <2>3 DEF Per, Phases, AtAck, AtClear, AtPush, AtPage, AtRows, AtEnd, At
<1> QED
  BY <1>5, <1>6, <1>13, AsideIs

LEMMA LostKeeps ==
    ASSUME Tame, Calm, NEW s \in cast.satchels, Lost(s)
    PROVE  Calm'
<1>0. Shape /\ s \in Satchel /\ s \in Device /\ Shelf \in Device /\ s # Shelf /\ cast \in Cast
  BY TameIs, DevicesAre DEF Calm, Shape
<1>1. cast.removers = {}
  <2>1. lost \in Nat /\ lost < cast.lost
    BY <1>0 DEF Lost, Shape
  <2>2. cast.removers # {} => cast.lost = 0
    BY <1>0, TameIs
  <2> QED
    BY <2>1, <2>2
<1>2. Idle \in Session /\ Idle.pc = "idle"
  BY NoMsgIs DEF Idle, Session, Pc
<1>3. /\ session' \in [Satchel -> Session] /\ At(s, "idle")'
      /\ \A t \in Satchel : t # s => session'[t] = session[t]
  BY <1>0, <1>2 DEF Lost, Shape, At
<1>4. UNCHANGED <<live, rec, presence, floor, owed, fresh, log, cursor, cast>>
  BY DEF Lost
<1>5. \A h \in Handler : /\ [h EXCEPT !.of = Shelf] \in Handler
                         /\ [h EXCEPT !.of = Shelf].of = Shelf /\ [h EXCEPT !.of = Shelf].step = h.step
                         /\ [h EXCEPT !.of = Shelf].msg = h.msg
  BY <1>0 DEF Handler
<1>6. \A g \in served' : \E h \in served : g = IF h.of = s THEN [h EXCEPT !.of = Shelf] ELSE h
  BY DEF Lost
<1>7. \A g \in served' : /\ g \in Handler /\ g.of # s
                         /\ \E h \in served : g.step = h.step /\ g.msg = h.msg /\ (g.of = Shelf \/ g = h)
  <2>1. ASSUME NEW g \in served'
        PROVE  g \in Handler /\ g.of # s /\ \E h \in served : g.step = h.step /\ g.msg = h.msg /\ (g.of = Shelf \/ g = h)
    <3>1. PICK h \in served : g = IF h.of = s THEN [h EXCEPT !.of = Shelf] ELSE h
      BY <1>6
    <3>2. h \in Handler
      BY <1>0 DEF Shape
    <3>3. CASE h.of = s
      <4>1. g = [h EXCEPT !.of = Shelf]
        BY <3>1, <3>3
      <4>2. g \in Handler /\ g.of = Shelf /\ g.step = h.step /\ g.msg = h.msg
        BY <1>5, <3>2, <4>1
      <4> QED
        BY <1>0, <4>2
    <3>4. CASE h.of # s
      <4>1. g = h
        BY <3>1, <3>4
      <4> QED
        BY <3>2, <3>4, <4>1
    <3> QED
      BY <3>3, <3>4
  <2> QED
    BY <2>1
<1>8. \A h \in served : h.of # s => h \in served'
  BY DEF Lost
<1>9. Shape'
  <2>1. session' \in [Satchel -> Session]
    BY <1>3
  <2>2. served' \subseteq Handler
    BY <1>7
  <2>3. lost' \in Nat
    BY <1>0 DEF Lost, Shape
  <2> QED
    BY <1>0, <1>4, <2>1, <2>2, <2>3 DEF Shape
<1>10. Books'
  BY <1>0, <1>4, <1>9, BooksStay, ShapeIs DEF Calm
<1>11. Pending'
  BY <1>1, <1>4, <1>7 DEF Calm, Pending
<1>12. Shelved
  BY <1>0, <1>4, ShapeIs DEF Shelved
<1>13. ASSUME NEW t \in cast.satchels, t # s PROVE Same(t)
  <2>1. t \in Satchel /\ t # Shelf
    BY <1>0, TameIs, DevicesAre
  <2>2. \A h \in Handler : h.of = t => (h \in served' <=> h \in served)
    BY <1>6, <1>7, <1>8, <1>13, <2>1
  <2> QED
    BY <1>3, <1>4, <1>13, <2>1, <2>2 DEF Same
<1>14. Per(s)'
  <2>1. Base(s)' /\ Met(s)'
    BY <1>4 DEF Calm, Per, Base, Met, Level, HubSeq
  <2>2. Words(s)'
    BY <1>7 DEF Words
  <2>3. Box(s)' /\ Win(s)'
    BY <1>3, <1>4 DEF Calm, Per, Box, Pushing, Win, At, HubSeq
  <2> QED
    BY <1>3, <2>1, <2>2, <2>3 DEF Per, Phases, AtAck, AtClear, AtPush, AtPage, AtRows, AtEnd, At
<1> QED
  BY <1>0, <1>4, <1>9, <1>10, <1>11, <1>12, <1>13, <1>14, StepIs

-----------------------------------------------------------------------------
(* The readers. *)

LEMMA OutboxIs ==
    ASSUME Shape, NEW d \in Device, NEW what \in SUBSET What, OutboxTakes(d, what)
    PROVE  /\ owed' \in [Satchel -> SUBSET What] /\ fresh' \in [Satchel -> SUBSET What]
           /\ \A t \in Satchel : t # d => owed'[t] = owed[t] /\ fresh'[t] = fresh[t]
           /\ d \in Satchel => owed'[d] = owed[d] \cup what /\ fresh'[d] = fresh[d] \cup what
BY DEF OutboxTakes, Shape

LEMMA TurnKeeps ==
    ASSUME Tame, Calm, NEW d \in Playing, Turn(d)
    PROVE  Calm'
<1>0. Shape /\ d \in Device /\ Shelf \in Device /\ cast.satchels \subseteq Satchel /\ cast \in Cast /\ Shelf \notin Satchel
  BY TameIs, DevicesAre DEF Calm, Shape, Playing
<1>1. PICK at \in Stamp(d, floor[d]) : rec' = [rec EXCEPT ![d] = [at |-> at, v |-> at]] /\ floor' = [floor EXCEPT ![d] = at]
  BY DEF Turn
<1>2. at \in Nat /\ at > floor[d] /\ floor[d] \in Nat
  BY <1>0, <1>1, StampIs, ShapeIs
<1>3. PICK n : n = [at |-> at, v |-> at]
  OBVIOUS
<1>4. n \in Held /\ n.at = at /\ Named(n) /\ n # Absent
  BY <1>2, <1>3 DEF Held, Reg, Named, Absent
<1>5. rec' = [rec EXCEPT ![d] = n]
  BY <1>1, <1>3
<1>6. rec' \in [Device -> Held] /\ rec'[d] = n /\ \A e \in Device : e # d => rec'[e] = rec[e]
  BY <1>0, <1>4, <1>5 DEF Shape
<1>7. floor' \in [Device -> Nat] /\ floor'[d] = at /\ \A e \in Device : e # d => floor'[e] = floor[e]
  BY <1>0, <1>1, <1>2 DEF Shape
<1>8. live[d] /\ UNCHANGED <<live, presence, cursor, session, served, lost, cast>>
  BY DEF Turn, Act
<1>9. /\ owed' \in [Satchel -> SUBSET What] /\ fresh' \in [Satchel -> SUBSET What]
      /\ \A t \in Satchel : t # d => owed'[t] = owed[t] /\ fresh'[t] = fresh[t]
      /\ d \in Satchel => owed'[d] = owed[d] \cup {"record"} /\ fresh'[d] = fresh[d] \cup {"record"}
  <2>1. {"record"} \in SUBSET What
    BY DEF What
  <2> QED
    BY <1>0, <2>1, OutboxIs DEF Turn
<1>10. /\ log' \in Seq(What)
       /\ d # Shelf => log' = log
       /\ d = Shelf => Len(log') > Len(log)
  <2>1. {"record"} \in SUBSET What /\ log \in Seq(What)
    BY <1>0 DEF What, Shape
  <2> QED
    BY <2>1, FeedIs DEF Turn
<1>11. Shape'
  <2>1. UNCHANGED <<live, presence, cursor, session, served, lost, cast>>
    BY <1>8
  <2>2. owed' \in [Satchel -> SUBSET What] /\ fresh' \in [Satchel -> SUBSET What]
    BY <1>9
  <2>3. rec' \in [Device -> Held] /\ floor' \in [Device -> Nat] /\ log' \in Seq(What)
    BY <1>6, <1>7, <1>10
  <2> QED
    BY <1>0, <2>1, <2>2, <2>3 DEF Shape
<1>12. \A e \in Device : floor'[e] >= floor[e] /\ floor'[e] \in Nat /\ floor[e] \in Nat
  BY <1>0, <1>2, <1>7, ShapeIs
<1>13. Books'
  <2>1. \A e \in Device : (live'[e] <=> rec'[e] # Absent) /\ Named(rec'[e])
    BY <1>4, <1>6, <1>8 DEF Calm, Books
  <2>2. \A e \in Device : rec'[e].at <= floor'[e] /\ presence'[e].at <= floor'[e]
    <3>1. \A e \in Device : rec[e].at \in Int /\ presence[e].at \in Nat
      BY <1>0, ShapeIs
    <3>2. \A e \in Device : rec[e].at <= floor[e] /\ presence[e].at <= floor[e]
      BY DEF Calm, Books
    <3>3. ASSUME NEW e \in Device PROVE rec'[e].at <= floor'[e]
      BY <1>4, <1>6, <1>7, <1>12, <3>1, <3>2
    <3>4. ASSUME NEW e \in Device PROVE presence'[e].at <= floor'[e]
      BY <1>8, <1>12, <3>1, <3>2
    <3> QED
      BY <3>3, <3>4
  <2> QED
    BY <1>8, <2>1, <2>2 DEF Calm, Books
<1>14. Pending'
  BY <1>0, <1>8, <1>11, <1>12, PendingStay DEF Calm
<1>15. rec[d].at \in Int /\ rec[d].at < at /\ rec[Shelf].at \in Int
  <2>1. rec[d].at <= floor[d]
    BY <1>0 DEF Calm, Books
  <2> QED
    BY <1>0, <1>2, <2>1, ShapeIs
<1>16. Shelved
  <2>1. Len(log) \in Nat /\ Len(log') \in Nat
    BY <1>0, <1>11, ShapeIs DEF Shape
  <2>2. CASE d = Shelf
    <3>1. rec'[Shelf].at = at /\ rec[Shelf].at < at
      BY <1>4, <1>6, <1>15, <2>2
    <3>2. Len(log') > Len(log)
      BY <1>10, <2>2
    <3>3. live'[Shelf] = live[Shelf] /\ presence'[Shelf] = presence[Shelf]
      BY <1>8
    <3>4. rec'[Shelf].at >= rec[Shelf].at
      BY <1>2, <1>15, <3>1
    <3>5. Len(log') >= Len(log) /\ Len(log') # Len(log)
      BY <2>1, <3>2
    <3> QED
      BY <3>3, <3>4, <3>5 DEF Shelved
  <2>3. CASE d # Shelf
    BY <1>0, <1>6, <1>8, <1>10, <1>15, <2>1, <2>3 DEF Shelved
  <2> QED
    BY <2>2, <2>3
<1>17. \A t \in cast.satchels : t # d => Same(t)
  BY <1>0, <1>6, <1>8, <1>9, DevicesAre DEF Same
<1>18. ASSUME d \in cast.satchels PROVE Per(d)'
  <2>1. /\ d \in Satchel /\ d # Shelf /\ rec'[Shelf] = rec[Shelf] /\ log' = log
        /\ "record" \in owed'[d] /\ "record" \in fresh'[d] /\ fresh[d] \subseteq fresh'[d]
    BY <1>0, <1>6, <1>9, <1>10, <1>18
  <2>2. Base(d)'
    BY <1>8, <1>9, <1>18, <2>1 DEF Calm, Per, Base
  <2>3. Box(d)'
    BY <1>8, <1>9, <1>18, <2>1 DEF Calm, Per, Box, Pushing, MsgOf
  <2>4. Win(d)'
    BY <1>8, <1>18, <2>1 DEF Calm, Per, Win, At, HubSeq
  <2>5. ~Told(d)' /\ (Gone(d)' => Gone(d))
    BY <1>8, <2>1 DEF Told, Gone, MsgOf
  <2>6. AtPush(d)' /\ AtAck(d)' /\ AtClear(d)'
    BY <1>8, <1>18, <2>1, <2>5 DEF Calm, Per, Phases, AtPush, AtAck, AtClear, At, MsgOf
  <2>7. Words(d)'
    BY <1>8, <1>18, <2>1, <2>5 DEF Calm, Per, Phases, Words, Word, At, MsgOf
  <2>8. AtRows(d)' /\ AtPage(d)'
    BY <1>8, <1>18, <2>1 DEF Calm, Per, Phases, AtRows, AtPage, Whole, HubSeq, At, MsgOf
  <2>9. Level(d) => Level(d)'
    BY <1>8, <2>1 DEF Level
  <2>10. AtEnd(d)'
    BY <1>8, <1>18, <2>1, <2>9 DEF Calm, Per, Phases, Met, AtEnd, Whole, HubSeq, At, MsgOf
  <2>11. Met(d)'
    BY <1>8, <1>9, <1>18, <2>1, <2>9 DEF Calm, Per, Met, HubSeq
  <2> QED
    BY <2>2, <2>3, <2>4, <2>6, <2>7, <2>8, <2>10, <2>11 DEF Per, Phases
<1> QED
  BY <1>0, <1>8, <1>11, <1>13, <1>14, <1>16, <1>17, <1>18, StepIs

LEMMA RemoveKeeps ==
    ASSUME Tame, Calm, NEW d \in Playing, Remove(d)
    PROVE  Calm'
<1>0. Shape /\ d \in Device /\ Shelf \in Device /\ cast.satchels \subseteq Satchel /\ cast \in Cast /\ Shelf \notin Satchel
  BY TameIs, DevicesAre DEF Calm, Shape, Playing
<1>1. d \in cast.satchels /\ cast.swept = TRUE
  BY <1>0, TameIs DEF Remove
<1>2. d \in Satchel /\ d # Shelf
  BY <1>0, <1>1
<1>3. PICK at \in Stamp(d, floor[d]) : presence' = [presence EXCEPT ![d] = [state |-> "removed", at |-> at]]
                                      /\ floor' = [floor EXCEPT ![d] = at]
  BY DEF Remove
<1>4. at \in Nat /\ at > floor[d] /\ floor[d] \in Nat
  BY <1>0, <1>3, StampIs, ShapeIs
<1>5. PICK p : p = [state |-> "removed", at |-> at]
  OBVIOUS
<1>6. p \in Presence /\ p.state = "removed" /\ p.at = at
  BY <1>4, <1>5 DEF Presence
<1>7. presence' = [presence EXCEPT ![d] = p]
  BY <1>3, <1>5
<1>8. presence' \in [Device -> Presence] /\ presence'[d] = p /\ \A e \in Device : e # d => presence'[e] = presence[e]
  BY <1>0, <1>6, <1>7 DEF Shape
<1>9. floor' \in [Device -> Nat] /\ floor'[d] = at /\ \A e \in Device : e # d => floor'[e] = floor[e]
  BY <1>0, <1>3, <1>4 DEF Shape
<1>10. /\ live' \in [Device -> BOOLEAN] /\ ~live'[d] /\ \A e \in Device : e # d => live'[e] = live[e]
       /\ rec' \in [Device -> Held] /\ rec'[d] = Absent /\ \A e \in Device : e # d => rec'[e] = rec[e]
  BY <1>0, <1>1, NoMsgIs DEF Remove, Evicted, Shape
<1>11. live[d] /\ UNCHANGED <<cursor, session, served, lost, cast>>
  BY DEF Remove, Act
<1>12. {"removed"} \in SUBSET What /\ log \in Seq(What)
  BY <1>0 DEF What, Shape
<1>13. /\ owed' \in [Satchel -> SUBSET What] /\ fresh' \in [Satchel -> SUBSET What]
       /\ \A t \in Satchel : t # d => owed'[t] = owed[t] /\ fresh'[t] = fresh[t]
       /\ owed'[d] = owed[d] \cup {"removed"} /\ fresh'[d] = fresh[d] \cup {"removed"}
  BY <1>0, <1>2, <1>12, OutboxIs DEF Remove
<1>14. log' = log
  BY <1>2, <1>12, FeedIs DEF Remove
<1>15. Shape'
  <2>1. UNCHANGED <<cursor, session, served, lost, cast, log>>
    BY <1>11, <1>14
  <2>2. owed' \in [Satchel -> SUBSET What] /\ fresh' \in [Satchel -> SUBSET What]
    BY <1>13
  <2>3. rec' \in [Device -> Held] /\ floor' \in [Device -> Nat] /\ presence' \in [Device -> Presence] /\ live' \in [Device -> BOOLEAN]
    BY <1>8, <1>9, <1>10
  <2> QED
    BY <1>0, <2>1, <2>2, <2>3 DEF Shape
<1>16. \A e \in Device : floor'[e] >= floor[e] /\ floor'[e] \in Nat /\ floor[e] \in Nat
  BY <1>0, <1>4, <1>9, ShapeIs
<1>17. Books'
  <2>1. \A e \in Device : (live'[e] <=> rec'[e] # Absent) /\ Named(rec'[e])
    BY <1>10 DEF Calm, Books, Named
  <2>2. \A e \in Device : rec'[e].at <= floor'[e] /\ presence'[e].at <= floor'[e]
    <3>1. \A e \in Device : rec[e].at \in Int /\ presence[e].at \in Nat
      BY <1>0, ShapeIs
    <3>2. \A e \in Device : rec[e].at <= floor[e] /\ presence[e].at <= floor[e]
      BY DEF Calm, Books
    <3>3. ASSUME NEW e \in Device PROVE rec'[e].at <= floor'[e]
      BY <1>10, <1>16, <3>1, <3>2 DEF Absent
    <3>4. ASSUME NEW e \in Device PROVE presence'[e].at <= floor'[e]
      BY <1>4, <1>6, <1>8, <1>9, <1>16, <3>1, <3>2
    <3> QED
      BY <3>3, <3>4
  <2>3. live'[Shelf] = live[Shelf] /\ presence'[Shelf] = presence[Shelf]
    BY <1>0, <1>2, <1>8, <1>10
  <2>4. cast'.removers # {}
    BY <1>11 DEF Remove
  <2> QED
    BY <2>1, <2>2, <2>3, <2>4 DEF Calm, Books
<1>18. live'[Shelf] = live[Shelf] /\ presence'[Shelf] = presence[Shelf] /\ rec'[Shelf] = rec[Shelf]
  BY <1>0, <1>2, <1>8, <1>10
<1>19. Pending'
  BY <1>0, <1>11, <1>15, <1>16, <1>18, PendingStay DEF Calm
<1>20. Shelved
  BY <1>0, <1>14, <1>18, ShapeIs DEF Shelved
<1>21. \A t \in cast.satchels : t # d => Same(t)
  BY <1>0, <1>8, <1>10, <1>11, <1>13, DevicesAre DEF Same
<1>22. /\ presence[d].at \in Nat /\ presence[d].at < at /\ presence[Shelf].at \in Nat /\ presence[Shelf].at < at
       /\ presence'[d].at = at /\ presence'[d].state = "removed"
  <2>1. presence[d].at <= floor[d] /\ presence[Shelf].at <= presence[d].at
    BY <1>0, <1>1 DEF Calm, Books, Per, Base
  <2> QED
    BY <1>0, <1>4, <1>6, <1>8, <2>1, ShapeIs
<1>23. Per(d)'
  <2>1. Base(d)'
    <3>1. fresh'[d] \subseteq owed'[d]
      BY <1>1, <1>13 DEF Calm, Per, Base
    <3> QED
      BY <1>4, <1>10, <1>18, <1>22, <3>1 DEF Base
  <2>2. Box(d)'
    BY <1>1, <1>11, <1>13 DEF Calm, Per, Box, Pushing, MsgOf
  <2>3. Win(d)'
    BY <1>1, <1>11, <1>14 DEF Calm, Per, Win, At, HubSeq
  <2>4. ~Told(d)' /\ ~Gone(d)'
    BY <1>10, <1>13 DEF Told, Gone
  <2>5. AtPush(d)' /\ AtAck(d)' /\ AtClear(d)'
    BY <1>1, <1>11, <1>18, <2>4 DEF Calm, Per, Phases, AtPush, AtAck, AtClear, At, MsgOf
  <2>6. Words(d)'
    <3>1. ASSUME NEW h \in served, h.of = d PROVE Word(h, d)'
      <4>1. Word(h, d)
        BY <1>1, <3>1 DEF Calm, Per, Phases, Words
      <4>2. h.msg.live \in Nat
        BY <1>0, ShapeIs
      <4>3. h.msg.live > 0 => h.msg.live <= presence'[d].at /\ h.msg.live # presence'[d].at
        <5>1. h.msg.live > 0 => h.msg.live <= presence[d].at
          BY <4>1 DEF Word
        <5> QED
          BY <1>4, <1>22, <4>2, <5>1
      <4> QED
        BY <1>11, <1>18, <2>4, <4>1, <4>3 DEF Word, At, MsgOf
    <3> QED
      BY <1>1, <1>11, <3>1 DEF Calm, Per, Phases, Words
  <2>7. AtRows(d)'
    <3>1. MsgOf(d).removed \in Nat
      BY <1>0, <1>2, ShapeIs
    <3> QED
      BY <1>1, <1>4, <1>11, <1>18, <1>22, <3>1 DEF Calm, Per, Phases, AtRows, At, MsgOf
  <2>8. AtPage(d)'
    <3>1. MsgOf(d).removed \in Nat /\ MsgOf(d).rec.at \in Int
      BY <1>0, <1>2, ShapeIs
    <3>2. At(d, "page") => MsgOf(d).rec = Absent \/ MsgOf(d).known
      BY <1>1, <1>11 DEF Calm, Per, Phases, AtPage
    <3> QED
      BY <1>1, <1>4, <1>10, <1>11, <1>18, <1>22, <3>1, <3>2 DEF Calm, Per, Phases, AtPage, At, MsgOf
  <2>9. Level(d)'
    BY <1>10, <1>22 DEF Level
  <2>10. AtEnd(d)'
    <3>1. MsgOf(d).removed \in Nat
      BY <1>0, <1>2, ShapeIs
    <3> QED
      BY <1>1, <1>4, <1>11, <1>22, <2>9, <3>1 DEF Calm, Per, Phases, AtEnd, At, MsgOf
  <2>11. Met(d)'
    BY <1>10, <1>13, <2>9 DEF Met
  <2> QED
    BY <2>1, <2>2, <2>3, <2>5, <2>6, <2>7, <2>8, <2>10, <2>11 DEF Per, Phases
<1> QED
  BY <1>0, <1>11, <1>15, <1>17, <1>19, <1>20, <1>21, <1>23, StepIs

LEMMA OpenKeeps ==
    ASSUME Tame, Calm, NEW d \in Playing, Open(d)
    PROVE  Calm'
<1>0. Shape /\ d \in Device /\ Shelf \in Device /\ cast.satchels \subseteq Satchel /\ cast \in Cast /\ Shelf \notin Satchel
  BY TameIs, DevicesAre DEF Calm, Shape, Playing
<1>1. presence[d].state = "removed" /\ d \in cast.satchels
  <2>1. presence[d].state = "removed" /\ d \in cast.returners
    BY <1>0, TameIs DEF Open
  <2>2. cast.removers # {}
    BY <1>0, <2>1 DEF Calm, Books
  <2> QED
    BY <1>0, <2>1, <2>2, TameIs
<1>2. d \in Satchel /\ d # Shelf /\ ~live[d] /\ rec[d] = Absent
  BY <1>0, <1>1 DEF Calm, Books, Open
<1>3. Added(d, Unset, 0, TRUE, floor) /\ UNCHANGED <<cursor, session, served, lost, cast>>
  BY DEF Open, Act
<1>4. PICK at \in Stamp(d, floor[d]) : presence' = [presence EXCEPT ![d] = [state |-> "live", at |-> at]]
                                      /\ floor' = [floor EXCEPT ![d] = Latest(@, at)]
  BY <1>1, <1>3 DEF Added
<1>5. at \in Nat /\ at > floor[d] /\ floor[d] \in Nat
  BY <1>0, <1>4, StampIs, ShapeIs
<1>6. PICK p : p = [state |-> "live", at |-> at]
  OBVIOUS
<1>7. p \in Presence /\ p.state = "live" /\ p.at = at
  BY <1>5, <1>6 DEF Presence
<1>8. presence' = [presence EXCEPT ![d] = p]
  BY <1>4, <1>6
<1>9. presence' \in [Device -> Presence] /\ presence'[d] = p /\ \A e \in Device : e # d => presence'[e] = presence[e]
  BY <1>0, <1>7, <1>8 DEF Shape
<1>10. floor' \in [Device -> Nat] /\ floor'[d] = at /\ \A e \in Device : e # d => floor'[e] = floor[e]
  <2>1. floor' = [floor EXCEPT ![d] = at]
    BY <1>0, <1>4, <1>5 DEF Latest, Shape
  <2> QED
    BY <1>0, <1>5, <2>1 DEF Shape
<1>11. /\ live' \in [Device -> BOOLEAN] /\ live'[d] = TRUE /\ \A e \in Device : e # d => live'[e] = live[e]
  BY <1>0, <1>3 DEF Added, Shape
<1>12. rec' \in [Device -> Held] /\ rec'[d] = Unset /\ \A e \in Device : e # d => rec'[e] = rec[e]
  <2>1. rec' = [rec EXCEPT ![d] = ParsedOver(rec[d], Unset)]
    BY <1>0, <1>3 DEF Added
  <2>2. ParsedOver(rec[d], Unset) = Unset
    BY <1>2 DEF ParsedOver
  <2>3. rec' = [rec EXCEPT ![d] = Unset]
    BY <2>1, <2>2
  <2> QED
    BY <1>0, <2>3, NoMsgIs DEF Shape
<1>13. {"record", "removed"} \in SUBSET What /\ log \in Seq(What)
  BY <1>0 DEF What, Shape
<1>14. FeedTakes(d, {"record", "removed"}) /\ OutboxTakes(d, {"record", "removed"})
  <2>1. {"record"} \cup {"removed"} = {"record", "removed"}
    OBVIOUS
  <2> QED
    BY <1>1, <1>3, <2>1 DEF Added
<1>15. /\ owed' \in [Satchel -> SUBSET What] /\ fresh' \in [Satchel -> SUBSET What]
       /\ \A t \in Satchel : t # d => owed'[t] = owed[t] /\ fresh'[t] = fresh[t]
       /\ owed'[d] = owed[d] \cup {"record", "removed"} /\ fresh'[d] = fresh[d] \cup {"record", "removed"}
  BY <1>0, <1>2, <1>13, <1>14, OutboxIs
<1>16. log' = log
  BY <1>2, <1>13, <1>14, FeedIs
<1>17. Shape'
  <2>1. UNCHANGED <<cursor, session, served, lost, cast, log>>
    BY <1>3, <1>16
  <2>2. owed' \in [Satchel -> SUBSET What] /\ fresh' \in [Satchel -> SUBSET What]
    BY <1>15
  <2>3. rec' \in [Device -> Held] /\ floor' \in [Device -> Nat] /\ presence' \in [Device -> Presence] /\ live' \in [Device -> BOOLEAN]
    BY <1>9, <1>10, <1>11, <1>12
  <2> QED
    BY <1>0, <2>1, <2>2, <2>3 DEF Shape
<1>18. \A e \in Device : floor'[e] >= floor[e] /\ floor'[e] \in Nat /\ floor[e] \in Nat
  BY <1>0, <1>5, <1>10, ShapeIs
<1>19. live'[Shelf] = live[Shelf] /\ presence'[Shelf] = presence[Shelf] /\ rec'[Shelf] = rec[Shelf]
  BY <1>0, <1>2, <1>9, <1>11, <1>12
<1>20. Books'
  <2>1. \A e \in Device : (live'[e] <=> rec'[e] # Absent) /\ Named(rec'[e])
    BY <1>11, <1>12, NoMsgIs DEF Calm, Books, Named
  <2>2. \A e \in Device : rec'[e].at <= floor'[e] /\ presence'[e].at <= floor'[e]
    <3>1. \A e \in Device : rec[e].at \in Int /\ presence[e].at \in Nat
      BY <1>0, ShapeIs
    <3>2. \A e \in Device : rec[e].at <= floor[e] /\ presence[e].at <= floor[e]
      BY DEF Calm, Books
    <3>3. ASSUME NEW e \in Device PROVE rec'[e].at <= floor'[e]
      BY <1>12, <1>18, <3>1, <3>2 DEF Unset
    <3>4. ASSUME NEW e \in Device PROVE presence'[e].at <= floor'[e]
      BY <1>5, <1>7, <1>9, <1>10, <1>18, <3>1, <3>2
    <3> QED
      BY <3>3, <3>4
  <2>3. cast'.removers # {}
    BY <1>0, <1>1, <1>3 DEF Calm, Books
  <2> QED
    BY <1>19, <2>1, <2>2, <2>3 DEF Calm, Books
<1>21. Pending'
  BY <1>0, <1>3, <1>17, <1>18, <1>19, PendingStay DEF Calm
<1>22. Shelved
  BY <1>0, <1>16, <1>19, ShapeIs DEF Shelved
<1>23. \A t \in cast.satchels : t # d => Same(t)
  BY <1>0, <1>3, <1>9, <1>11, <1>12, <1>15, DevicesAre DEF Same
<1>24. /\ presence[d].at \in Nat /\ presence[d].at < at /\ presence[Shelf].at \in Nat /\ presence[Shelf].at < at
       /\ presence'[d].at = at /\ presence'[d].state = "live"
  <2>1. presence[d].at <= floor[d] /\ presence[Shelf].at <= presence[d].at
    BY <1>0, <1>1 DEF Calm, Books, Per, Base
  <2> QED
    BY <1>0, <1>5, <1>7, <1>9, <2>1, ShapeIs
<1>25. Per(d)'
  <2>1. Base(d)'
    <3>1. fresh'[d] \subseteq owed'[d]
      BY <1>1, <1>15 DEF Calm, Per, Base
    <3> QED
      BY <1>5, <1>11, <1>15, <1>19, <1>24, <3>1 DEF Base
  <2>2. Box(d)'
    BY <1>1, <1>3, <1>15 DEF Calm, Per, Box, Pushing, MsgOf
  <2>3. Win(d)'
    BY <1>1, <1>3, <1>16 DEF Calm, Per, Win, At, HubSeq
  <2>4. ~Told(d)' /\ ~Gone(d)'
    BY <1>15 DEF Told, Gone
  <2>5. AtPush(d)' /\ AtAck(d)' /\ AtClear(d)'
    BY <1>1, <1>3, <1>19, <2>4 DEF Calm, Per, Phases, AtPush, AtAck, AtClear, At, MsgOf
  <2>6. Words(d)'
    <3>1. ASSUME NEW h \in served, h.of = d PROVE Word(h, d)'
      <4>1. Word(h, d)
        BY <1>1, <3>1 DEF Calm, Per, Phases, Words
      <4>2. h.msg.live \in Nat
        BY <1>0, ShapeIs
      <4>3. h.msg.live > 0 => h.msg.live <= presence'[d].at /\ h.msg.live # presence'[d].at
        <5>1. h.msg.live > 0 => h.msg.live <= presence[d].at
          BY <4>1 DEF Word
        <5> QED
          BY <1>5, <1>24, <4>2, <5>1
      <4> QED
        BY <1>3, <1>19, <2>4, <4>1, <4>3 DEF Word, At, MsgOf
    <3> QED
      BY <1>1, <1>3, <3>1 DEF Calm, Per, Phases, Words
  <2>7. AtRows(d)'
    <3>1. MsgOf(d).removed \in Nat
      BY <1>0, <1>2, ShapeIs
    <3> QED
      BY <1>1, <1>5, <1>3, <1>19, <1>24, <3>1 DEF Calm, Per, Phases, AtRows, At, MsgOf
  <2>8. AtPage(d)'
    <3>1. MsgOf(d).removed \in Nat /\ MsgOf(d).rec.at \in Int
      BY <1>0, <1>2, ShapeIs
    <3>2. At(d, "page") => MsgOf(d).rec = Absent \/ MsgOf(d).known
      BY <1>1 DEF Calm, Per, Phases, AtPage
    <3> QED
      BY <1>1, <1>5, <1>3, <1>15, <1>19, <1>24, <3>1, <3>2 DEF Calm, Per, Phases, AtPage, At, MsgOf
  <2>9. Level(d)'
    BY <1>15, <1>24 DEF Level
  <2>10. AtEnd(d)'
    <3>1. MsgOf(d).removed \in Nat
      BY <1>0, <1>2, ShapeIs
    <3> QED
      BY <1>1, <1>5, <1>3, <1>24, <2>9, <3>1 DEF Calm, Per, Phases, AtEnd, At, MsgOf
  <2>11. Met(d)'
    BY <1>15, <2>9 DEF Met
  <2> QED
    BY <2>1, <2>2, <2>3, <2>5, <2>6, <2>7, <2>8, <2>10, <2>11 DEF Per, Phases
<1> QED
  BY <1>0, <1>3, <1>17, <1>20, <1>21, <1>22, <1>23, <1>25, StepIs

-----------------------------------------------------------------------------
(* The session's steps that write the satchel's book. *)

\* A satchel's own record grows, nothing else of the books.
LEMMA OwnIs ==
    ASSUME Tame, Calm, NEW s \in cast.satchels, Shape', Books',
           \A d \in Device : floor'[d] >= floor[d],
           UNCHANGED <<presence, owed, fresh, log, cursor, served, lost, cast>>,
           \A d \in Device : d # s => live'[d] = live[d] /\ rec'[d] = rec[d],
           \A t \in Satchel : t # s => session'[t] = session[t],
           Per(s)'
    PROVE  Calm'
<1>1. Shape /\ s \in Device /\ Shelf \in Device /\ s # Shelf /\ cast.satchels \subseteq Satchel
  BY TameIs, DevicesAre DEF Calm, Shape
<1>2. live'[Shelf] = live[Shelf] /\ rec'[Shelf] = rec[Shelf]
  BY <1>1
<1>3. Pending'
  BY <1>1, <1>2, PendingStay DEF Calm
<1>4. Shelved
  BY <1>1, <1>2, ShapeIs DEF Shelved
<1>5. \A t \in cast.satchels : t # s => Same(t)
  BY <1>1, DevicesAre DEF Same
<1> QED
  BY <1>1, <1>3, <1>4, <1>5, StepIs

LEMMA BooksGrow ==
    ASSUME Shape, Shape', Books, NEW s \in Satchel, UNCHANGED <<presence, cast>>,
           \A d \in Device : floor'[d] >= floor[d],
           \A d \in Device : d # s => live'[d] = live[d] /\ rec'[d] = rec[d],
           live'[s] <=> rec'[s] # Absent, Named(rec'[s]), rec'[s].at <= floor'[s]
    PROVE  Books'
<1>1. s # Shelf /\ Shelf \in Device /\ s \in Device
  BY DevicesAre
<1>2. \A d \in Device : floor'[d] \in Nat
  BY DEF Shape
<1>3. \A d \in Device : rec[d].at <= floor[d] /\ presence[d].at <= floor[d]
  BY DEF Books
<1>4. ASSUME NEW d \in Device PROVE rec'[d].at <= floor'[d] /\ presence'[d].at <= floor'[d]
  <2>1. presence'[d].at <= floor'[d]
    BY <1>2, <1>3, ShapeIs
  <2>2. d # s => rec'[d].at <= floor'[d]
    BY <1>2, <1>3, ShapeIs
  <2> QED
    BY <2>1, <2>2
<1>5. \A d \in Device : (live'[d] <=> rec'[d] # Absent) /\ Named(rec'[d])
  BY DEF Books
<1> QED
  BY <1>1, <1>4, <1>5 DEF Books

LEMMA AckKeeps ==
    ASSUME Tame, Calm, NEW s \in cast.satchels, Ack(s)
    PROVE  Calm'
<1>0. Shape /\ s \in Satchel /\ s \in Device /\ Shelf \in Device /\ s # Shelf
  BY TameIs, DevicesAre DEF Calm, Shape
<1>1. At(s, "ack") /\ Goes(s, "clear", MsgOf(s))
  BY DEF Ack, MsgOf
<1>2. PICK m : m = MsgOf(s).rec
  OBVIOUS
<1>3. m \in Held /\ m.at \in Int /\ Named(m) /\ rec[s] \in Held /\ Named(rec[s]) /\ rec[s].at \in Int /\ rec[Shelf].at \in Int
  BY <1>0, <1>1, <1>2, ShapeIs DEF Calm, Per, Phases, AtAck, Books
<1>4. /\ session' \in [Satchel -> Session] /\ At(s, "clear")' /\ MsgOf(s)' = MsgOf(s) /\ session'[s].until = session[s].until
      /\ \A t \in Satchel : t # s => session'[t] = session[t]
  <2>1. MsgOf(s) \in Msg
    BY <1>0, ShapeIs
  <2> QED
    BY <1>0, <1>1, <2>1, GoesIs DEF Shape, Pc, At, MsgOf
<1>5. floor' = Witness(s, m.at) /\ UNCHANGED <<live, presence, owed, fresh, cursor, served, lost, cast>>
  BY <1>2 DEF Ack, Merged, Kept, MsgOf
<1>6. floor' \in [Device -> Nat] /\ floor'[s] >= m.at /\ \A d \in Device : floor'[d] >= floor[d]
  BY <1>0, <1>3, <1>5, WitnessIs DEF Shape
<1>7. PICK n : n = IF m # Absent /\ live[s] THEN Pick(rec[s], m) ELSE rec[s]
  OBVIOUS
<1>8. n \in Held /\ Named(n) /\ n.at \in Int /\ n.at >= rec[s].at /\ (n # Absent <=> live[s])
      /\ (m # Absent /\ live[s] => n.at >= m.at) /\ (n.at = rec[s].at \/ n.at = m.at)
  <2>1. live[s] <=> rec[s] # Absent
    BY <1>0 DEF Calm, Books
  <2>2. CASE m # Absent /\ live[s]
    <3>1. n = Pick(rec[s], m)
      BY <1>7, <2>2
    <3> QED
      BY <1>3, <2>1, <2>2, <3>1, PickIs, HeldIs
  <2>3. CASE ~(m # Absent /\ live[s])
    <3>1. n = rec[s]
      BY <1>7, <2>3
    <3> QED
      BY <1>3, <2>1, <2>3, <3>1
  <2> QED
    BY <2>2, <2>3
<1>9. rec' \in [Device -> Held] /\ rec'[s] = n /\ \A d \in Device : d # s => rec'[d] = rec[d]
  <2>1. CASE m # Absent /\ live[s]
    <3>1. rec' = [rec EXCEPT ![s] = n]
      BY <1>2, <1>7, <2>1 DEF Ack, Merged, MsgOf
    <3> QED
      BY <1>0, <1>8, <3>1 DEF Shape
  <2>2. CASE ~(m # Absent /\ live[s])
    <3>1. rec' = rec /\ n = rec[s]
      BY <1>2, <1>7, <2>2 DEF Ack, Kept, MsgOf
    <3> QED
      BY <1>0, <3>1 DEF Shape
  <2> QED
    BY <2>1, <2>2
<1>10. log' = log
  <2>1. CASE m # Absent /\ live[s]
    <3>1. FeedTakes(s, IF n = rec[s] THEN {} ELSE {"record"})
      BY <1>2, <1>7, <2>1 DEF Ack, Merged, MsgOf
    <3> QED
      BY <1>0, <3>1 DEF FeedTakes
  <2>2. CASE ~(m # Absent /\ live[s])
    BY <1>2, <2>2 DEF Ack, Kept, MsgOf
  <2> QED
    BY <2>1, <2>2
<1>11. Shape'
  <2>1. session' \in [Satchel -> Session] /\ floor' \in [Device -> Nat] /\ rec' \in [Device -> Held]
    BY <1>4, <1>6, <1>9
  <2> QED
    BY <1>0, <1>5, <1>10, <2>1 DEF Shape
<1>12. Books'
  <2>1. rec'[s].at <= floor'[s]
    <3>1. rec[s].at <= floor[s] /\ floor[s] \in Nat /\ floor'[s] \in Nat
      BY <1>0, <1>6, ShapeIs DEF Calm, Books
    <3> QED
      BY <1>0, <1>3, <1>6, <1>8, <1>9, <3>1
  <2> QED
    BY <1>0, <1>5, <1>6, <1>8, <1>9, <1>11, <2>1, BooksGrow DEF Calm
<1>13. Per(s)'
  <2>0. rec'[s] = n /\ rec'[Shelf] = rec[Shelf] /\ live' = live /\ presence' = presence /\ owed' = owed /\ fresh' = fresh
    BY <1>0, <1>5, <1>9
  <2>1. Base(s)'
    BY <2>0 DEF Calm, Per, Base
  <2>2. Box(s)'
    BY <1>1, <1>4, <2>0 DEF Calm, Per, Box, Pushing, At, MsgOf
  <2>3. Win(s)'
    BY <1>1, <1>4, <1>5, <1>10 DEF Calm, Per, Win, At, HubSeq
  <2>4. Words(s)'
    BY <1>1, <1>5, Unheard DEF Words, At
  <2>5. /\ Told(s)' <=> Told(s)
        /\ Gone(s)' <=> Gone(s)
        /\ Whole(s)' <=> Whole(s)
    BY <1>4, <1>10, <2>0 DEF Told, Gone, Whole, HubSeq
  <2>6. live[Shelf] /\ live[s] /\ rec[s].at <= rec[Shelf].at => n.at <= rec[Shelf].at
    <3>1. m # Absent /\ live[Shelf] => m.at <= rec[Shelf].at
      BY <1>1, <1>2 DEF Calm, Per, Phases, AtAck
    <3>2. n = rec[s] \/ (m # Absent /\ n.at \in {rec[s].at, m.at})
      BY <1>7, <1>8
    <3> QED
      BY <1>3, <1>8, <3>1, <3>2
  <2>7. AtClear(s)'
    <3>1. Told(s) /\ live[Shelf] => n.at <= rec[Shelf].at
      BY <1>1, <2>6 DEF Calm, Per, Phases, AtAck, Told
    <3>2. Told(s) /\ live[Shelf] /\ Whole(s) => rec[Shelf].at <= n.at
      <4>1. Told(s) /\ live[Shelf] /\ Whole(s) => m = rec[Shelf] /\ m # Absent /\ live[s]
        BY <1>0, <1>1, <1>2 DEF Calm, Per, Phases, AtAck, Told, Books
      <4> QED
        BY <1>3, <1>8, <4>1
    <3>3. Gone(s) => (live[s] <=> live[Shelf])
      BY <1>1 DEF Calm, Per, Phases, AtAck
    <3> QED
      BY <2>0, <2>5, <3>1, <3>2, <3>3 DEF AtClear
  <2>8. Met(s)'
    <3>1. cursor[s] = HubSeq => Level(s)'
      <4>1. cursor[s] = HubSeq /\ live[Shelf] => /\ presence[s].state = "none" => live[s]
                                                 /\ live[s] /\ "record" \notin owed[s] => rec[Shelf].at <= rec[s].at
        BY DEF Calm, Per, Met, Level
      <4> QED
        BY <1>3, <1>8, <2>0, <4>1 DEF Level
    <3>2. live[s] /\ live[Shelf] /\ "record" \notin owed[s] => n.at <= rec[Shelf].at
      BY <2>6 DEF Calm, Per, Met
    <3>3. presence[s].state # "none" /\ "removed" \notin owed[s] => (live[s] <=> live[Shelf])
      BY DEF Calm, Per, Met
    <3> QED
      BY <1>5, <1>10, <2>0, <3>1, <3>2, <3>3 DEF Met, HubSeq
  <2> QED
    BY <1>4, <2>1, <2>2, <2>3, <2>4, <2>7, <2>8 DEF Per, Phases, AtAck, AtPush, AtPage, AtRows, AtEnd, At
<1> QED
  BY <1>4, <1>5, <1>6, <1>9, <1>10, <1>11, <1>12, <1>13, OwnIs

LEMMA PageKeeps ==
    ASSUME Tame, Calm, NEW s \in cast.satchels, Page(s)
    PROVE  Calm'
<1>0. Shape /\ s \in Satchel /\ s \in Device /\ Shelf \in Device /\ s # Shelf
  BY TameIs, DevicesAre DEF Calm, Shape
<1>1. At(s, "page")
  BY DEF Page
<1>2. PICK m : m = MsgOf(s).rec
  OBVIOUS
<1>3. m \in Held /\ m.at \in Int /\ Named(m) /\ rec[s] \in Held /\ Named(rec[s]) /\ rec[s].at \in Int /\ rec[Shelf].at \in Int
  BY <1>0, <1>1, <1>2, ShapeIs DEF Calm, Per, Phases, AtPage, Books
<1>4. PICK q : q = MsgOf(s).removed
  OBVIOUS
<1>5. q \in Nat /\ q <= presence[s].at
  BY <1>0, <1>1, <1>4, ShapeIs DEF Calm, Per, Phases, AtPage
<1>6. PICK pc : pc = IF q > 0 THEN "removals" ELSE "cursor"
  OBVIOUS
<1>7. pc \in {"removals", "cursor"} /\ (pc = "removals" => q > 0)
  BY <1>6
<1>8. PICK msg : msg = [NoMsg EXCEPT !.removed = q]
  OBVIOUS
<1>9. msg \in Msg /\ msg.removed = q
  <2>1. msg = [revs |-> {}, rec |-> Absent, removed |-> q, live |-> 0, known |-> FALSE]
    BY <1>8 DEF NoMsg
  <2> QED
    BY <1>5, <2>1 DEF Msg
<1>10. Goes(s, pc, msg)
  BY <1>4, <1>6, <1>8 DEF Page, MsgOf
<1>11. /\ session' \in [Satchel -> Session] /\ At(s, pc)' /\ MsgOf(s)' = msg /\ session'[s].until = session[s].until
       /\ \A t \in Satchel : t # s => session'[t] = session[t]
  BY <1>0, <1>7, <1>9, <1>10, GoesIs DEF Shape, Pc, At, MsgOf
<1>12. PICK floors : floors = Witness(s, StampsIn(MsgOf(s)))
  OBVIOUS
<1>13. floors \in [Device -> Nat] /\ floors[s] >= m.at /\ \A d \in Device : floors[d] >= floor[d]
  <2>1. PICK top : top = StampsIn(MsgOf(s))
    OBVIOUS
  <2>2. top \in Int /\ top >= m.at
    <3>1. MsgOf(s).live \in Nat /\ MsgOf(s).removed \in Nat
      BY <1>0, ShapeIs
    <3> QED
      BY <1>2, <1>3, <2>1, <3>1 DEF StampsIn, Latest
  <2>3. floor \in [Device -> Nat] /\ floors = Witness(s, top)
    BY <1>0, <1>12, <2>1 DEF Shape
  <2>4. floors \in [Device -> Nat] /\ floors[s] >= top /\ \A d \in Device : floors[d] >= floor[d]
    BY <1>0, <2>2, <2>3, WitnessIs
  <2> QED
    BY <1>0, <1>3, <2>2, <2>4
<1>14. presence[s].state \in {"none", "live", "removed"} /\ (live[s] <=> rec[s] # Absent)
  BY <1>0, ShapeIs DEF Presence, Calm, Books
<1>15. IF m = Absent THEN Kept(floors)
       ELSE IF ~MsgOf(s).known THEN Added(s, m, 0, FALSE, floors)
       ELSE IF live[s] THEN Merged(s, m, floors)
       ELSE Kept(floors)
  BY <1>2, <1>12 DEF Page, MsgOf
<1>16. UNCHANGED <<cursor, served, lost, cast>>
  BY DEF Page
<1>17. m # Absent /\ ~MsgOf(s).known => presence[s].state = "none" /\ ~live[s] /\ rec[s] = Absent
  BY <1>1, <1>2, <1>14 DEF Calm, Per, Phases, AtPage
\* The record of s afterwards: as it was, the page's, or the later of the two.
<1>18. /\ UNCHANGED <<presence, owed, fresh, log>> /\ floor' = floors
       /\ live' \in [Device -> BOOLEAN] /\ rec' \in [Device -> Held]
       /\ \A d \in Device : d # s => live'[d] = live[d] /\ rec'[d] = rec[d]
       /\ (live'[s] <=> rec'[s] # Absent) /\ Named(rec'[s]) /\ rec'[s].at \in Int
       /\ rec'[s].at >= rec[s].at /\ rec'[s].at \in {rec[s].at, m.at}
       /\ m # Absent /\ live'[s] => rec'[s].at >= m.at
       /\ m = Absent => rec'[s] = rec[s]
       /\ rec'[s].at = rec[s].at \/ m # Absent
       /\ live'[s] <=> (live[s] \/ (m # Absent /\ ~MsgOf(s).known))
  <2>1. CASE m = Absent \/ (MsgOf(s).known /\ ~live[s])
    <3>1. Kept(floors)
      BY <1>15, <2>1
    <3>2. UNCHANGED <<live, rec, presence, owed, fresh, log>> /\ floor' = floors
      BY <3>1 DEF Kept
    <3>3. m # Absent => MsgOf(s).known /\ ~live[s]
      BY <2>1
    <3> QED
      BY <1>0, <1>3, <1>14, <3>2, <3>3 DEF Shape
  <2>2. CASE m # Absent /\ ~MsgOf(s).known
    <3>1. Added(s, m, 0, FALSE, floors)
      BY <1>15, <2>2
    <3>2. presence[s].state = "none" /\ ~live[s] /\ rec[s] = Absent
      BY <1>17, <2>2
    <3>3. FeedTakes(s, {"record"}) /\ OutboxTakes(s, {}) /\ floor' = floors /\ presence' = presence
      <4>1. ({"record"} \cup {}) = {"record"} /\ {"record"} \ {"record"} = {}
        OBVIOUS
      <4> QED
        BY <3>1, <3>2, <4>1 DEF Added
    <3>4. log' = log
      BY <1>0, <3>3 DEF FeedTakes
    <3>5. owed' = owed /\ fresh' = fresh
      BY <1>0, <3>3 DEF OutboxTakes, Shape
    <3>6. live' = [live EXCEPT ![s] = TRUE]
      BY <3>1 DEF Added
    <3>7. rec' = [rec EXCEPT ![s] = m]
      <4>1. rec' = [rec EXCEPT ![s] = ParsedOver(rec[s], m)]
        BY <1>0, <3>1 DEF Added
      <4>2. ParsedOver(rec[s], m) = m
        BY <3>2 DEF ParsedOver
      <4> QED
        BY <4>1, <4>2
    <3>8. live' \in [Device -> BOOLEAN] /\ live'[s] = TRUE /\ \A d \in Device : d # s => live'[d] = live[d]
      BY <1>0, <3>6 DEF Shape
    <3>9. rec' \in [Device -> Held] /\ rec'[s] = m /\ \A d \in Device : d # s => rec'[d] = rec[d]
      BY <1>0, <1>3, <3>7 DEF Shape
    <3>10. m.at >= rec[s].at
      BY <1>3, <3>2, NamedIs DEF Absent
    <3> QED
      BY <1>3, <2>2, <3>3, <3>4, <3>5, <3>8, <3>9, <3>10
  <2>3. CASE m # Absent /\ MsgOf(s).known /\ live[s]
    <3>1. Merged(s, m, floors)
      BY <1>15, <2>3
    <3>2. PICK n : n = Pick(rec[s], m)
      OBVIOUS
    <3>3. n \in Held /\ Named(n) /\ n.at \in Int /\ n.at >= rec[s].at /\ n.at >= m.at /\ n.at \in {rec[s].at, m.at} /\ n # Absent
      BY <1>3, <1>14, <2>3, <3>2, PickIs, HeldIs
    <3>4. FeedTakes(s, IF n = rec[s] THEN {} ELSE {"record"}) /\ floor' = floors /\ UNCHANGED <<live, presence, owed, fresh>>
      BY <3>1, <3>2 DEF Merged
    <3>5. log' = log
      BY <1>0, <3>4 DEF FeedTakes
    <3>6. rec' = [rec EXCEPT ![s] = n]
      BY <3>1, <3>2 DEF Merged
    <3>7. rec' \in [Device -> Held] /\ rec'[s] = n /\ \A d \in Device : d # s => rec'[d] = rec[d]
      BY <1>0, <3>3, <3>6 DEF Shape
    <3>8. live' \in [Device -> BOOLEAN] /\ live' = live
      BY <1>0, <3>4 DEF Shape
    <3> QED
      BY <2>3, <3>3, <3>4, <3>5, <3>7, <3>8
  <2> QED
    BY <2>1, <2>2, <2>3
<1>19. \A d \in Device : floor'[d] >= floor[d]
  BY <1>13, <1>18
<1>20. Shape'
  <2>1. session' \in [Satchel -> Session] /\ floor' \in [Device -> Nat]
    BY <1>11, <1>13, <1>18
  <2> QED
    BY <1>0, <1>16, <1>18, <2>1 DEF Shape
<1>21. Books'
  <2>1. rec'[s].at <= floor'[s]
    <3>1. rec[s].at <= floor[s] /\ floor[s] \in Nat /\ floor'[s] \in Nat
      BY <1>0, <1>20, ShapeIs DEF Calm, Books, Shape
    <3>2. floor'[s] >= m.at /\ floor'[s] >= floor[s]
      BY <1>0, <1>13, <1>18
    <3> QED
      BY <1>3, <1>18, <3>1, <3>2
  <2> QED
    BY <1>0, <1>16, <1>18, <1>19, <1>20, <2>1, BooksGrow DEF Calm
<1>22. Per(s)'
  <2>0. rec'[Shelf] = rec[Shelf] /\ live'[Shelf] = live[Shelf] /\ presence' = presence /\ owed' = owed /\ fresh' = fresh /\ log' = log
    BY <1>0, <1>18
  <2>1. Base(s)'
    <3>1. CASE live'[s] <=> live[s]
      BY <2>0, <3>1 DEF Calm, Per, Base
    <3>2. CASE presence[s].state = "none"
      BY <2>0, <3>2 DEF Calm, Per, Base
    <3> QED
      BY <1>17, <1>18, <3>1, <3>2
  <2>2. Box(s)'
    BY <1>7, <1>11 DEF Box, Pushing, At
  <2>3. Win(s)'
    BY <1>1, <1>11, <1>16, <2>0 DEF Calm, Per, Win, At, HubSeq
  <2>4. Words(s)'
    BY <1>1, <1>16, Unheard DEF Words, At
  <2>5. /\ m # Absent /\ live[Shelf] => m.at <= rec[Shelf].at
        /\ presence[s].state = "none" => (MsgOf(s).known <=> live[s])
        /\ Whole(s) /\ live[Shelf] /\ (presence[s].state = "none" \/ (live[s] /\ "record" \notin owed[s])) => m = rec[Shelf]
    BY <1>1, <1>2 DEF Calm, Per, Phases, AtPage
  <2>6. live[Shelf] => rec[Shelf] # Absent
    BY <1>0 DEF Calm, Books
  <2>7. Whole(s) => Level(s)'
    <3>1. ASSUME Whole(s), live[Shelf], presence[s].state = "none" PROVE live'[s]
      BY <1>18, <2>5, <2>6, <3>1
    <3>2. ASSUME Whole(s), live[Shelf], live'[s], "record" \notin owed[s] PROVE rec[Shelf].at <= rec'[s].at
      <4>1. live[s] \/ presence[s].state = "none"
        BY <1>17, <1>18, <3>2
      <4>2. m = rec[Shelf]
        BY <2>5, <3>2, <4>1
      <4> QED
        BY <1>3, <1>18, <2>6, <3>2, <4>2
    <3> QED
      BY <2>0, <3>1, <3>2 DEF Level
  <2>8. AtEnd(s)'
    <3>1. Whole(s)' <=> Whole(s)
      BY <1>11, <2>0 DEF Whole, HubSeq
    <3> QED
      BY <1>5, <1>7, <1>9, <1>11, <2>0, <2>7, <3>1 DEF AtEnd, At
  <2>9. Met(s)'
    <3>1. cursor[s] = HubSeq => Whole(s)
      BY <1>0, <1>1, ShapeIs DEF Calm, Per, Win, At, HubSeq, Whole
    <3>2. live'[s] /\ live[Shelf] /\ "record" \notin owed[s] => rec'[s].at <= rec[Shelf].at
      <4>1. ASSUME live'[s], live[Shelf], "record" \notin owed[s] PROVE rec'[s].at <= rec[Shelf].at
        <5>1. live[s] => rec[s].at <= rec[Shelf].at
          BY <4>1 DEF Calm, Per, Met
        <5>2. m # Absent => m.at <= rec[Shelf].at
          BY <2>5, <4>1
        <5>3. CASE live[s]
          BY <1>3, <1>18, <5>1, <5>2, <5>3
        <5>4. CASE ~live[s]
          <6>1. m # Absent /\ rec[s] = Absent
            BY <1>17, <1>18, <4>1, <5>4
          <6>2. m.at >= rec[s].at
            BY <1>3, <6>1, NamedIs DEF Absent
          <6> QED
            BY <1>3, <1>18, <5>2, <6>1, <6>2
        <5> QED
          BY <5>3, <5>4
      <4> QED
        BY <4>1
    <3>3. presence[s].state # "none" /\ "removed" \notin owed[s] => (live'[s] <=> live[Shelf])
      BY <1>17, <1>18 DEF Calm, Per, Met
    <3> QED
      BY <1>16, <2>0, <2>7, <3>1, <3>2, <3>3 DEF Met, HubSeq
  <2> QED
    BY <1>7, <1>11, <2>1, <2>2, <2>3, <2>4, <2>8, <2>9 DEF Per, Phases, AtAck, AtPush, AtPage, AtRows, AtClear, At
<1> QED
  BY <1>11, <1>16, <1>18, <1>19, <1>20, <1>21, <1>22, OwnIs

-----------------------------------------------------------------------------
(* The push, and the shelf that serves it. *)

\* What a push offers, from the record it read and the register of its satchel.
LEMMA GroupIs ==
    ASSUME NEW s, NEW msg \in Msg, presence[s] \in Presence, NEW g, g = Group(s, msg)
    PROVE  /\ g \in Msg /\ g.revs \subseteq msg.revs /\ (g.rec = msg.rec \/ g.rec = Absent)
           /\ g.removed > 0 => /\ "removed" \in msg.revs /\ presence[s].state = "removed"
                               /\ g.removed = presence[s].at /\ g.live = 0
           /\ g.live > 0 => "removed" \in msg.revs /\ presence[s].state = "live" /\ g.live = presence[s].at
           /\ "removed" \in msg.revs /\ presence[s].state # "none" => g.revs = msg.revs
           /\ "record" \in g.revs => g.rec = msg.rec
           /\ "removed" \in msg.revs /\ presence[s].state = "live" => g.rec = msg.rec /\ g.live = presence[s].at
           /\ "removed" \in msg.revs /\ presence[s].state = "removed" => g.removed = presence[s].at
           /\ "record" \in g.revs /\ "removed" \notin msg.revs => g.rec # Absent
           /\ "removed" \in g.revs => presence[s].state # "none"
<1>1. PICK held : held = Intent(s, msg)
  OBVIOUS
<1>2. /\ "removed" \in msg.revs => held = presence[s]
      /\ "removed" \notin msg.revs => held.state = "none"
      /\ held \in Presence
  <2>1. [state |-> "none", at |-> 0] \in Presence /\ [state |-> "none", at |-> 0].state = "none"
    BY DEF Presence
  <2> QED
    BY <1>1, <2>1 DEF Intent
<1>3. held.state \in {"none", "live", "removed"} /\ held.at \in Nat
  BY <1>2 DEF Presence
<1>4. PICK r : r = IF "record" \in msg.revs \/ held.state = "live" THEN msg.rec ELSE Absent
  OBVIOUS
<1>5. PICK x : x = IF held.state = "removed" THEN held.at ELSE 0
  OBVIOUS
<1>6. PICK l : l = IF held.state = "live" THEN held.at ELSE 0
  OBVIOUS
<1>7. r \in Held /\ x \in Nat /\ l \in Nat
  BY <1>3, <1>4, <1>5, <1>6, NoMsgIs DEF Msg, Held
<1>8. PICK sent : sent = [msg EXCEPT !.rec = r, !.removed = x, !.live = l]
  OBVIOUS
<1>9. sent = [revs |-> msg.revs, rec |-> r, removed |-> x, live |-> l, known |-> msg.known]
  BY <1>8 DEF Msg
<1>10. sent = Offer(msg, held)
  BY <1>4, <1>5, <1>6, <1>8 DEF Offer
<1>11. PICK revs : revs = {w \in msg.revs : held.state # "none" \/ (w = "record" /\ r # Absent)}
  OBVIOUS
<1>12. g = [sent EXCEPT !.revs = revs]
  BY <1>1, <1>9, <1>10, <1>11 DEF Group
<1>13. g = [revs |-> revs, rec |-> r, removed |-> x, live |-> l, known |-> msg.known]
  BY <1>9, <1>12
<1>14. revs \subseteq msg.revs /\ msg.revs \subseteq What /\ msg.known \in BOOLEAN
  BY <1>11 DEF Msg
<1>15. g.revs = revs /\ g.rec = r /\ g.removed = x /\ g.live = l /\ g \in Msg
  BY <1>7, <1>13, <1>14 DEF Msg, Held
<1>16. x > 0 => held.state = "removed" /\ x = held.at /\ l = 0
  BY <1>3, <1>5, <1>6
<1>17. l > 0 => held.state = "live" /\ l = held.at
  BY <1>3, <1>6
<1>18. held.state # "none" => revs = msg.revs /\ "removed" \in msg.revs /\ held = presence[s]
  BY <1>2, <1>11
<1>19. /\ "record" \in revs => r = msg.rec /\ (held.state # "none" \/ r # Absent)
       /\ "removed" \in revs => held.state # "none"
  BY <1>4, <1>11
<1> QED
  BY <1>2, <1>3, <1>4, <1>5, <1>6, <1>14, <1>15, <1>16, <1>17, <1>18, <1>19

LEMMA PushKeeps ==
    ASSUME Tame, Calm, NEW s \in cast.satchels, Push(s)
    PROVE  Calm'
<1>0. Shape /\ s \in Satchel /\ s \in Device /\ Shelf \in Device /\ s # Shelf /\ cast \in Cast /\ cast.satchels \subseteq Satchel
  BY TameIs, DevicesAre DEF Calm, Shape
<1>1. At(s, "push")
  BY DEF Push
<1>2. PICK msg : msg = MsgOf(s)
  OBVIOUS
<1>3. PICK g : g = Group(s, msg)
  OBVIOUS
<1>4. presence[s] \in Presence /\ msg \in Msg /\ presence[s].at \in Nat /\ presence[Shelf] \in Presence /\ presence[Shelf].at \in Nat
  BY <1>0, <1>2, ShapeIs
<1>5. g \in Msg /\ g.revs \subseteq msg.revs /\ (g.rec = msg.rec \/ g.rec = Absent)
  BY <1>3, <1>4, GroupIs
<1>6. g.removed \in Nat /\ g.live \in Nat /\ g.rec \in Held /\ g.rec.at \in Int /\ g.revs \subseteq What /\ Named(g.rec)
  BY <1>1, <1>2, <1>5, HeldIs DEF Msg, Held, Calm, Per, Phases, AtPush, Named
<1>7. PICK floors : floors = Witness(Shelf, StampsIn(g))
  OBVIOUS
<1>8. floors \in [Device -> Nat] /\ floors[Shelf] >= g.rec.at /\ floors[Shelf] >= g.live /\ floors[Shelf] >= g.removed
      /\ \A d \in Device : floors[d] >= floor[d]
  <2>1. PICK top : top = StampsIn(g)
    OBVIOUS
  <2>2. top \in Int /\ top >= g.rec.at /\ top >= g.live /\ top >= g.removed
    BY <1>6, <2>1 DEF StampsIn, Latest
  <2>3. floor \in [Device -> Nat] /\ floors = Witness(Shelf, top)
    BY <1>0, <1>7, <2>1 DEF Shape
  <2>4. floors \in [Device -> Nat] /\ floors[Shelf] >= top /\ \A d \in Device : floors[d] >= floor[d]
    BY <1>0, <2>2, <2>3, WitnessIs
  <2>5. floors[Shelf] \in Nat
    BY <1>0, <2>4
  <2> QED
    BY <1>6, <2>2, <2>4, <2>5
<1>9. IF g.revs = {}
      THEN Goes(s, "pull", NoMsg) /\ UNCHANGED served /\ Kept(floor)
      ELSE /\ Goes(s, "pushed", [NoMsg EXCEPT !.revs = g.revs])
           /\ served' = served \cup {[of |-> s, step |-> "check", msg |-> g]}
           /\ IF g.removed > 0 THEN RemovalNoted(Shelf, g.removed, floors) ELSE Kept(floors)
  BY <1>2, <1>3, <1>7 DEF Push, MsgOf
<1>10. UNCHANGED <<cursor, lost, cast>>
  BY DEF Push
<1>11. \A h \in served : h.of # s
  BY <1>1, Unheard DEF At
<1>12. CASE g.revs = {}
  <2>1. Goes(s, "pull", NoMsg) /\ UNCHANGED <<served, live, rec, presence, log, owed, fresh, floor>>
    BY <1>9, <1>12 DEF Kept
  <2>2. /\ session' \in [Satchel -> Session] /\ At(s, "pull")' /\ session'[s].until = session[s].until
        /\ \A t \in Satchel : t # s => session'[t] = session[t]
    BY <1>0, <2>1, GoesIs, NoMsgIs DEF Shape, Pc, At
  <2>3. Shape'
    BY <1>0, <1>10, <2>1, <2>2 DEF Shape
  <2>4. Aside(s)
    BY <1>0, <1>10, <2>1, <2>2, ShapeIs DEF Aside
  <2>5. Per(s)'
    <3>1. Base(s)' /\ Words(s)' /\ Met(s)'
      BY <1>1, <1>10, <2>1, <2>2, <2>3, <2>4, Still DEF At
    <3>2. Box(s)'
      BY <2>2 DEF Box, Pushing, At
    <3>3. Win(s)'
      BY <1>1, <1>10, <2>1, <2>2 DEF Calm, Per, Win, At, HubSeq
    <3> QED
      BY <2>2, <3>1, <3>2, <3>3 DEF Per, Phases, AtAck, AtClear, AtPush, AtPage, AtRows, AtEnd, At
  <2> QED
    BY <2>3, <2>4, <2>5, AsideIs
<1>13. CASE g.revs # {}
  <2>1. PICK new : new = [of |-> s, step |-> "check", msg |-> g]
    OBVIOUS
  <2>2. new \in Handler /\ new.of = s /\ new.step = "check" /\ new.msg = g
    BY <1>0, <1>5, <2>1 DEF Handler
  <2>3. served' = served \cup {new}
    BY <1>9, <1>13, <2>1
  <2>4. PICK sent : sent = [NoMsg EXCEPT !.revs = g.revs]
    OBVIOUS
  <2>5. sent \in Msg /\ sent.revs = g.revs
    <3>1. sent = [revs |-> g.revs, rec |-> Absent, removed |-> 0, live |-> 0, known |-> FALSE]
      BY <2>4 DEF NoMsg
    <3> QED
      BY <1>6, <3>1 DEF Msg
  <2>6. /\ session' \in [Satchel -> Session] /\ At(s, "pushed")' /\ MsgOf(s)' = sent /\ session'[s].until = session[s].until
        /\ \A t \in Satchel : t # s => session'[t] = session[t]
    <3>1. Goes(s, "pushed", sent)
      BY <1>9, <1>13, <2>4
    <3> QED
      BY <1>0, <2>5, <3>1, GoesIs DEF Shape, Pc, At, MsgOf
  <2>7. floor' = floors /\ UNCHANGED <<owed, fresh>>
    BY <1>9, <1>13 DEF RemovalNoted, Kept
  <2>8. Box(s)'
    <3>1. msg.revs \subseteq owed[s] /\ ("removed" \in owed[s] => "removed" \in msg.revs \cup fresh[s] /\ presence[s].state # "none")
      BY <1>1, <1>2 DEF Calm, Per, Box, Pushing, At, Base
    <3>2. "removed" \in msg.revs /\ presence[s].state # "none" => g.revs = msg.revs
      BY <1>3, <1>4, GroupIs
    <3> QED
      BY <1>5, <2>5, <2>6, <2>7, <3>1, <3>2 DEF Box
  <2>9. Win(s) /\ cursor[s] <= session[s].until /\ session[s].until <= HubSeq
    BY <1>1 DEF Calm, Per, Win, At
  <2>10. \A h, k \in served' : h.of = s /\ k.of = s => h = k
    BY <1>11, <2>3
  <2>11. AtPush(s)' /\ AtAck(s)' /\ AtClear(s)' /\ AtRows(s)' /\ AtPage(s)' /\ AtEnd(s)'
    BY <2>6 DEF AtAck, AtClear, AtPush, AtPage, AtRows, AtEnd, At
  <2>12. ASSUME live'[s] = live[s], rec'[s] = rec[s]
         PROVE  /\ Told(s)' => g.rec # Absent /\ rec[s].at <= g.rec.at
                /\ Gone(s)' /\ live[s] => g.rec # Absent /\ g.live > 0
                /\ Gone(s)' /\ ~live[s] => g.rec = Absent /\ g.removed > 0
    <3>1. (Told(s)' => Told(s)) /\ (Gone(s)' => Gone(s))
      BY <1>2, <1>5, <2>5, <2>6, <2>7, <2>12 DEF Told, Gone
    <3>2. "record" \in g.revs => g.rec = msg.rec
      BY <1>3, <1>4, GroupIs
    <3>3. Told(s)' => "record" \in g.revs
      BY <2>5, <2>6 DEF Told
    <3>4. Told(s)' => g.rec # Absent /\ rec[s].at <= g.rec.at
      BY <1>1, <1>2, <3>1, <3>2, <3>3 DEF Calm, Per, Phases, AtPush
    <3>5. Gone(s)' => "removed" \in g.revs /\ "removed" \in msg.revs /\ (live[s] <=> msg.rec # Absent)
      BY <1>1, <1>2, <1>5, <2>5, <2>6, <3>1 DEF Calm, Per, Phases, AtPush, Gone
    <3>6. presence[s].state # "none" => presence[s].at > 0
      BY <1>4 DEF Calm, Per, Base
    <3>7. "removed" \in g.revs => presence[s].state \in {"live", "removed"}
      BY <1>3, <1>4, GroupIs DEF Presence
    <3>8. "removed" \in msg.revs /\ presence[s].state = "live" => g.rec = msg.rec /\ g.live = presence[s].at
      BY <1>3, <1>4, GroupIs
    <3>9. "removed" \in msg.revs /\ presence[s].state = "removed" => g.removed = presence[s].at
      BY <1>3, <1>4, GroupIs
    <3>10. (presence[s].state = "live" => live[s]) /\ (presence[s].state = "removed" => ~live[s])
      BY DEF Calm, Per, Base
    <3>11. Gone(s)' /\ live[s] => g.rec # Absent /\ g.live > 0
      BY <3>5, <3>6, <3>7, <3>8, <3>10
    <3>12. Gone(s)' /\ ~live[s] => g.rec = Absent /\ g.removed > 0
      BY <1>5, <3>5, <3>6, <3>7, <3>9, <3>10
    <3> QED
      BY <3>4, <3>11, <3>12
  <2>13. CASE ~(g.removed > 0)
    <3>1. UNCHANGED <<live, rec, presence, log>>
      BY <1>9, <1>13, <2>13 DEF Kept
    <3>2. Shape'
      <4>1. session' \in [Satchel -> Session] /\ served' \subseteq Handler /\ floor' \in [Device -> Nat]
        BY <1>0, <1>8, <2>2, <2>3, <2>6, <2>7 DEF Shape
      <4> QED
        BY <1>0, <1>10, <2>7, <3>1, <4>1 DEF Shape
    <3>3. Books'
      BY <1>0, <1>8, <1>10, <2>7, <3>1, <3>2, BooksStay DEF Calm
    <3>4. Pending'
      <4>1. ASSUME NEW h \in served PROVE h.msg.rec.at <= floor'[Shelf] /\ h.msg.live <= floor'[Shelf]
        <5>1. h.msg.rec.at <= floor[Shelf] /\ h.msg.live <= floor[Shelf]
          BY DEF Calm, Pending
        <5>2. floor[Shelf] \in Nat /\ floor'[Shelf] \in Nat /\ floor'[Shelf] >= floor[Shelf]
          BY <1>0, <1>8, <2>7, ShapeIs
        <5>3. h.msg.rec.at \in Int /\ h.msg.live \in Nat
          BY <1>0, ShapeIs
        <5> QED
          BY <5>1, <5>2, <5>3
      <4>2. Named(new.msg.rec) /\ new.msg.rec.at <= floor'[Shelf] /\ new.msg.live <= floor'[Shelf]
        <5>1. floor'[Shelf] \in Nat
          BY <1>0, <1>8, <2>7
        <5> QED
          BY <1>6, <1>8, <2>2, <2>7, <5>1
      <4> QED
        BY <1>0, <1>10, <2>2, <2>3, <3>1, <4>1, <4>2 DEF Calm, Pending
    <3>5. Shelved
      BY <1>0, <3>1, ShapeIs DEF Shelved
    <3>6. \A t \in cast.satchels : t # s => Same(t)
      BY <1>0, <1>10, <2>2, <2>3, <2>6, <2>7, <3>1 DEF Same
    <3>7. Base(s)' /\ Met(s)'
      BY <1>10, <2>7, <3>1 DEF Calm, Per, Base, Met, Level, HubSeq
    <3>8. Win(s)'
      BY <1>10, <2>6, <2>9, <3>1 DEF Win, HubSeq
    <3>9. Word(new, s)'
      <4>1. /\ Told(s)' => g.rec # Absent /\ rec[s].at <= g.rec.at
            /\ Gone(s)' /\ live[s] => g.rec # Absent /\ g.live > 0
            /\ ~(Gone(s)' /\ ~live[s])
        BY <2>12, <2>13, <3>1
      <4>2. g.live > 0 => /\ "removed" \in msg.revs /\ g.live = presence[s].at /\ presence[s].state = "live"
        BY <1>3, <1>4, GroupIs
      <4>3. g.live > 0 => "removed" \in g.revs
        BY <1>3, <1>4, <4>2, GroupIs
      <4>4. presence[Shelf].at <= presence[s].at
        BY DEF Calm, Per, Base
      <4>5. g.live > 0 => "removed" \in g.revs /\ presence'[Shelf].at <= g.live /\ g.live <= presence'[s].at
                          /\ presence'[s].state = "live"
        BY <1>4, <3>1, <4>2, <4>3, <4>4
      <4>6. At(s, "pushed")' /\ new.msg.revs = MsgOf(s)'.revs
        BY <2>2, <2>5, <2>6
      <4> QED
        BY <2>2, <3>1, <4>1, <4>5, <4>6 DEF Word
    <3>10. Words(s)'
      BY <1>11, <2>3, <2>10, <3>9 DEF Words
    <3>11. Per(s)'
      BY <2>8, <2>11, <3>7, <3>8, <3>10 DEF Per, Phases
    <3> QED
      BY <1>0, <1>10, <3>2, <3>3, <3>4, <3>5, <3>6, <3>11, StepIs
  <2>14. CASE g.removed > 0
    <3>1. /\ "removed" \in msg.revs /\ presence[s].state = "removed" /\ g.removed = presence[s].at /\ g.live = 0
          /\ ~live[s] /\ presence[s].at > 0
      <4>1. "removed" \in msg.revs /\ presence[s].state = "removed" /\ g.removed = presence[s].at /\ g.live = 0
        BY <1>3, <1>4, <2>14, GroupIs
      <4> QED
        BY <2>14, <4>1 DEF Calm, Per, Base
    <3>2. cast.removers # {}
      BY <1>0, <3>1 DEF Calm, Books
    <3>3. (\A t \in cast.satchels : t = s) /\ cast.swept = TRUE
      BY <1>0, <3>2, TameIs
    <3>4. served = {}
      BY <1>11, <3>2, <3>3 DEF Calm, Pending
    <3>5. RemovalNoted(Shelf, g.removed, floors)
      BY <1>9, <1>13, <2>14
    <3>6. presence[Shelf].at <= presence[s].at /\ (presence[Shelf].at = presence[s].at => presence[Shelf].state = presence[s].state)
      BY DEF Calm, Per, Base
    <3>7. (live[Shelf] <=> presence[Shelf].state # "removed") /\ (live[Shelf] <=> rec[Shelf] # Absent)
      BY <1>0 DEF Calm, Books
    \* Heard before or not, the shelf is without the book now.
    <3>8. /\ presence' \in [Device -> Presence] /\ presence'[Shelf].state = "removed" /\ presence'[Shelf].at = presence[s].at
          /\ \A d \in Device : d # Shelf => presence'[d] = presence[d]
          /\ live' \in [Device -> BOOLEAN] /\ ~live'[Shelf] /\ \A d \in Device : d # Shelf => live'[d] = live[d]
          /\ rec' \in [Device -> Held] /\ rec'[Shelf] = Absent /\ \A d \in Device : d # Shelf => rec'[d] = rec[d]
          /\ log' \in Seq(What) /\ Len(log') >= Len(log)
      <4>1. CASE Newer(Shelf, g.removed)
        <5>1. PICK p : p = [state |-> "removed", at |-> g.removed]
          OBVIOUS
        <5>2. p \in Presence /\ p.state = "removed" /\ p.at = presence[s].at
          BY <1>6, <3>1, <5>1 DEF Presence
        <5>3. presence' = [presence EXCEPT ![Shelf] = p]
          BY <3>5, <4>1, <5>1 DEF RemovalNoted
        <5>4. presence' \in [Device -> Presence] /\ presence'[Shelf] = p /\ \A d \in Device : d # Shelf => presence'[d] = presence[d]
          BY <1>0, <5>2, <5>3 DEF Shape
        <5>5. IF live[Shelf] THEN Evicted(Shelf) ELSE UNCHANGED <<live, rec>>
          BY <3>5, <4>1 DEF RemovalNoted
        <5>6. /\ live' \in [Device -> BOOLEAN] /\ ~live'[Shelf] /\ \A d \in Device : d # Shelf => live'[d] = live[d]
              /\ rec' \in [Device -> Held] /\ rec'[Shelf] = Absent /\ \A d \in Device : d # Shelf => rec'[d] = rec[d]
          <6>1. CASE live[Shelf]
            BY <1>0, <3>3, <5>5, <6>1, NoMsgIs DEF Evicted, Shape
          <6>2. CASE ~live[Shelf]
            BY <1>0, <3>7, <5>5, <6>2 DEF Shape
          <6> QED
            BY <6>1, <6>2
        <5>7. log' \in Seq(What) /\ Len(log') >= Len(log)
          <6>1. PICK w : w = IF live[Shelf] THEN {"removed"} ELSE {}
            OBVIOUS
          <6>2. w \in SUBSET What /\ FeedTakes(Shelf, w) /\ log \in Seq(What)
            BY <1>0, <3>5, <4>1, <6>1 DEF RemovalNoted, What, Shape
          <6>3. log' \in Seq(What) /\ (w = {} => log' = log) /\ (w # {} => Len(log') > Len(log))
            BY <6>2, FeedIs
          <6>4. Len(log) \in Nat /\ Len(log') \in Nat
            BY <6>2, <6>3
          <6> QED
            BY <6>3, <6>4
        <5> QED
          BY <5>2, <5>4, <5>6, <5>7
      <4>2. CASE ~Newer(Shelf, g.removed)
        <5>1. UNCHANGED <<live, rec, presence, log>>
          BY <3>5, <4>2 DEF RemovalNoted
        <5>2. presence[Shelf].at = presence[s].at
          BY <1>4, <3>1, <3>6, <4>2 DEF Newer
        <5>3. presence[Shelf].state = "removed" /\ ~live[Shelf] /\ rec[Shelf] = Absent
          BY <3>1, <3>6, <3>7, <5>2
        <5>4. Len(log) \in Nat
          BY <1>0, ShapeIs
        <5> QED
          BY <1>0, <5>1, <5>2, <5>3, <5>4 DEF Shape
      <4> QED
        BY <4>1, <4>2
    <3>9. Shape'
      <4>1. session' \in [Satchel -> Session] /\ served' \subseteq Handler /\ floor' \in [Device -> Nat]
        BY <1>0, <1>8, <2>2, <2>3, <2>6, <2>7 DEF Shape
      <4> QED
        BY <1>0, <1>10, <2>7, <3>8, <4>1 DEF Shape
    <3>10. Books'
      <4>1. \A d \in Device : floor'[d] \in Nat /\ floor[d] \in Nat /\ floor'[d] >= floor[d]
        BY <1>0, <1>8, <2>7, ShapeIs
      <4>2. \A d \in Device : rec[d].at <= floor[d] /\ presence[d].at <= floor[d] /\ rec[d].at \in Int /\ presence[d].at \in Nat
        BY <1>0, ShapeIs DEF Calm, Books
      <4>3. ASSUME NEW d \in Device PROVE rec'[d].at <= floor'[d]
        BY <3>8, <4>1, <4>2 DEF Absent
      <4>4. ASSUME NEW d \in Device PROVE presence'[d].at <= floor'[d]
        <5>1. CASE d = Shelf
          <6>1. floor'[Shelf] >= g.removed
            BY <1>8, <2>7
          <6> QED
            BY <1>0, <1>4, <3>1, <3>8, <4>1, <5>1, <6>1
        <5>2. CASE d # Shelf
          BY <3>8, <4>1, <4>2, <5>2
        <5> QED
          BY <5>1, <5>2
      <4>5. \A d \in Device : (live'[d] <=> rec'[d] # Absent) /\ Named(rec'[d])
        BY <3>8 DEF Calm, Books, Named
      <4>6. cast'.removers # {}
        BY <1>10, <3>2
      <4> QED
        BY <3>8, <4>3, <4>4, <4>5, <4>6 DEF Books
    <3>11. Pending'
      <4>1. served' = {new}
        BY <2>3, <3>4
      <4>2. new.msg.rec.at <= floor'[Shelf] /\ new.msg.live <= floor'[Shelf]
        BY <1>8, <2>2, <2>7
      <4> QED
        BY <1>0, <1>6, <1>10, <2>2, <4>1, <4>2 DEF Pending
    <3>12. live'[s] = live[s] /\ rec'[s] = rec[s] /\ presence'[s] = presence[s]
      BY <1>0, <3>8
    <3>13. Base(s)'
      BY <1>4, <2>7, <3>1, <3>8, <3>12 DEF Calm, Per, Base
    <3>14. Win(s)'
      <4>1. Len(log) \in Nat /\ Len(log') \in Nat /\ cursor[s] \in Nat /\ session[s].until \in Nat
        BY <1>0, <3>9, ShapeIs DEF Shape
      <4>2. cursor'[s] = cursor[s] /\ session'[s].until = session[s].until /\ cursor[s] <= Len(log)
        BY <1>10, <2>6, <2>9 DEF Win, HubSeq
      <4> QED
        BY <2>9, <3>8, <4>1, <4>2 DEF Win, HubSeq
    <3>15. Met(s)'
      BY <3>1, <3>8, <3>12 DEF Met, Level
    <3>16. Word(new, s)'
      <4>1. ~Told(s)' /\ (Gone(s)' => g.rec = Absent)
        BY <2>12, <3>1, <3>12 DEF Told
      <4>2. At(s, "pushed")' /\ new.msg.revs = MsgOf(s)'.revs
        BY <2>2, <2>5, <2>6
      <4> QED
        BY <2>2, <3>1, <3>8, <3>12, <4>1, <4>2 DEF Word
    <3>17. Words(s)'
      BY <1>11, <2>3, <2>10, <3>16 DEF Words
    <3>18. Per(s)'
      BY <2>8, <2>11, <3>13, <3>14, <3>15, <3>17 DEF Per, Phases
    <3> QED
      BY <1>10, <3>3, <3>9, <3>10, <3>11, <3>18 DEF Calm
  <2> QED
    BY <2>13, <2>14
<1> QED
  BY <1>12, <1>13

\* The shelf comes back to the push h as k.
LEMMA ServesAnother ==
    ASSUME Shape, NEW h \in served, NEW k \in Handler, k.of = h.of, served' = (served \ {h}) \cup {k},
           NEW t, t # h.of
    PROVE  \A g \in Handler : g.of = t => (g \in served' <=> g \in served)
OBVIOUS

LEMMA CheckKeeps ==
    ASSUME Tame, Calm, NEW h \in served, Check(h)
    PROVE  Calm'
<1>0. Shape /\ Shelf \in Device /\ h \in Handler /\ h.msg \in Msg /\ h.of \in Device /\ cast.satchels \subseteq Satchel
  BY TameIs, DevicesAre, ShapeIs DEF Calm, Shape, Handler
<1>1. PICK w : w = (h.msg.live = 0 /\ h.msg.rec # Absent /\ presence[Shelf].state = "removed")
  OBVIOUS
<1>2. w \in BOOLEAN /\ (h.msg.live = 0 /\ h.msg.rec # Absent /\ presence[Shelf].state = "removed" => w = TRUE)
  BY <1>1
<1>3. PICK msg : msg = [h.msg EXCEPT !.known = w]
  OBVIOUS
<1>4. msg \in Msg /\ msg.revs = h.msg.revs /\ msg.rec = h.msg.rec /\ msg.live = h.msg.live /\ msg.known = w
  BY <1>0, <1>2, <1>3 DEF Msg
<1>5. PICK k : k = [h EXCEPT !.step = "apply", !.msg = msg]
  OBVIOUS
<1>6. k \in Handler /\ k.of = h.of /\ k.step = "apply" /\ k.msg = msg
  BY <1>0, <1>4, <1>5 DEF Handler
<1>7. served' = (served \ {h}) \cup {k}
  <2>1. served' = (served \ {h}) \cup {[h EXCEPT !.step = "apply", !.msg.known = w]}
    BY <1>1 DEF Check
  <2>2. [h EXCEPT !.step = "apply", !.msg.known = w] = [h EXCEPT !.step = "apply", !.msg = [h.msg EXCEPT !.known = w]]
    BY <1>0 DEF Handler
  <2> QED
    BY <1>3, <1>5, <2>1, <2>2
<1>8. UNCHANGED <<live, rec, presence, floor, owed, fresh, log, cursor, session, lost, cast>> /\ h.step = "check"
  BY DEF Check
<1>9. Shape'
  <2>1. served' \subseteq Handler
    BY <1>0, <1>6, <1>7 DEF Shape
  <2> QED
    BY <1>0, <1>8, <2>1 DEF Shape
<1>10. Books'
  BY <1>8 DEF Calm, Books
<1>11. Pending'
  <2>1. live[Shelf] <=> presence[Shelf].state # "removed"
    BY DEF Calm, Books
  <2> QED
    BY <1>2, <1>4, <1>6, <1>7, <1>8, <2>1 DEF Calm, Pending
<1>12. Shelved
  BY <1>0, <1>8, ShapeIs DEF Shelved
<1>13. \A t \in cast.satchels : t # h.of => Same(t)
  BY <1>0, <1>6, <1>7, <1>8, ServesAnother DEF Same
<1>14. ASSUME NEW s \in cast.satchels, s = h.of PROVE Per(s)'
  <2>1. Word(h, s) /\ \A a, b \in served : a.of = s /\ b.of = s => a = b
    BY <1>14 DEF Calm, Per, Phases, Words
  <2>2. Word(k, s)'
    BY <1>4, <1>6, <1>8, <2>1 DEF Word, At, MsgOf, Told, Gone
  <2>3. \A a \in served' : a.of = s => a = k
    BY <1>7, <1>14, <2>1
  <2>4. Words(s)'
    BY <2>2, <2>3 DEF Words
  <2>5. Base(s)' /\ Box(s)' /\ Win(s)' /\ Met(s)'
    BY <1>8 DEF Calm, Per, Base, Box, Pushing, Win, Met, Level, At, MsgOf, HubSeq
  <2>6. At(s, "pushed")'
    BY <1>8, <2>1 DEF Word, At
  <2> QED
    BY <2>4, <2>5, <2>6 DEF Per, Phases, AtAck, AtClear, AtPush, AtPage, AtRows, AtEnd, At
<1> QED
  BY <1>0, <1>8, <1>9, <1>10, <1>11, <1>12, <1>13, <1>14, StepIs

LEMMA AnswerKeeps ==
    ASSUME Tame, Calm, NEW h \in served, Answer(h)
    PROVE  Calm'
<1>0. /\ Shape /\ Shelf \in Device /\ h \in Handler /\ h.msg \in Msg /\ h.of \in Device /\ cast.satchels \subseteq Satchel
      /\ Shelf \notin Satchel
  BY TameIs, DevicesAre, ShapeIs DEF Calm, Shape, Handler
<1>1. UNCHANGED <<live, rec, presence, floor, owed, fresh, log, cursor, lost, cast>> /\ h.step = "answer" /\ served' = served \ {h}
  BY DEF Answer
<1>2. h.of # Shelf => h.of \in cast.satchels /\ h.of \in Satchel
  BY <1>0 DEF Calm, Pending
<1>3. PICK r : r = IF h.msg.rec # Absent /\ live[Shelf] THEN rec[Shelf] ELSE Absent
  OBVIOUS
<1>4. r \in Held /\ Named(r) /\ (r # Absent => r = rec[Shelf])
  BY <1>0, <1>3, ShapeIs, NoMsgIs DEF Calm, Books, Named
<1>5. PICK msg : msg = [NoMsg EXCEPT !.revs = h.msg.revs, !.rec = r]
  OBVIOUS
<1>6. msg \in Msg /\ msg.revs = h.msg.revs /\ msg.rec = r
  <2>1. msg = [revs |-> h.msg.revs, rec |-> r, removed |-> 0, live |-> 0, known |-> FALSE]
    BY <1>5 DEF NoMsg
  <2> QED
    BY <1>0, <1>4, <2>1 DEF Msg, Held
<1>7. /\ session' \in [Satchel -> Session]
      /\ h.of # Shelf => At(h.of, "ack")' /\ MsgOf(h.of)' = msg /\ session'[h.of].until = session[h.of].until
      /\ \A t \in Satchel : t # h.of => session'[t] = session[t]
  <2>1. CASE h.of = Shelf
    <3>1. session' = session
      BY <2>1 DEF Answer
    <3> QED
      BY <1>0, <2>1, <3>1 DEF Shape
  <2>2. CASE h.of # Shelf
    <3>1. Goes(h.of, "ack", msg)
      BY <1>3, <1>5, <2>2 DEF Answer
    <3> QED
      BY <1>0, <1>2, <1>6, <2>2, <3>1, GoesIs DEF Shape, Pc, At, MsgOf
  <2> QED
    BY <2>1, <2>2
<1>8. Shape'
  <2>1. served' \subseteq Handler /\ session' \in [Satchel -> Session]
    BY <1>0, <1>1, <1>7 DEF Shape
  <2> QED
    BY <1>0, <1>1, <2>1 DEF Shape
<1>9. Books'
  BY <1>1 DEF Calm, Books
<1>10. Pending'
  BY <1>1 DEF Calm, Pending
<1>11. Shelved
  BY <1>0, <1>1, ShapeIs DEF Shelved
<1>12. \A t \in cast.satchels : t # h.of => Same(t)
  BY <1>0, <1>1, <1>7 DEF Same
<1>13. ASSUME NEW s \in cast.satchels, s = h.of PROVE Per(s)'
  <2>0. s \in Satchel /\ s # Shelf /\ rec[Shelf].at \in Int /\ rec[s].at \in Int
    BY <1>0, <1>13, ShapeIs, DevicesAre
  <2>1. Word(h, s) /\ \A a, b \in served : a.of = s /\ b.of = s => a = b
    BY <1>13 DEF Calm, Per, Phases, Words
  <2>2. Words(s)'
    <3>1. \A a \in served' : a.of # s
      BY <1>1, <1>13, <2>1
    <3> QED
      BY <3>1 DEF Words
  <2>3. At(s, "ack")' /\ MsgOf(s)' = msg /\ session'[s].until = session[s].until /\ At(s, "pushed")
    BY <1>7, <1>13, <2>0, <2>1 DEF Word
  <2>4. Base(s)' /\ Met(s)'
    BY <1>1 DEF Calm, Per, Base, Met, Level, HubSeq
  <2>5. Box(s)'
    BY <1>1, <1>6, <2>1, <2>3 DEF Calm, Per, Box, Pushing, At, Word
  <2>6. Win(s)'
    BY <1>1, <2>3 DEF Calm, Per, Win, At, HubSeq
  <2>7. (Told(s)' => Told(s)) /\ (Gone(s)' => Gone(s))
    BY <1>1, <1>6, <2>1, <2>3 DEF Told, Gone, Word
  <2>8. AtAck(s)'
    <3>1. r # Absent /\ live[Shelf] => r.at <= rec[Shelf].at
      BY <1>4, <2>0
    <3>2. Told(s) => h.msg.rec # Absent /\ (live[Shelf] => rec[s].at <= rec[Shelf].at)
      BY <1>1, <2>1 DEF Word
    <3>3. Told(s) /\ live[Shelf] => r = rec[Shelf]
      BY <1>3, <3>2
    <3>4. Gone(s) => (live[s] <=> live[Shelf])
      BY <1>1, <2>1 DEF Word
    <3> QED
      BY <1>1, <1>4, <1>6, <2>3, <2>7, <3>1, <3>2, <3>3, <3>4 DEF AtAck
  <2> QED
    BY <2>2, <2>3, <2>4, <2>5, <2>6, <2>8 DEF Per, Phases, AtClear, AtPush, AtPage, AtRows, AtEnd, At
<1> QED
  BY <1>0, <1>1, <1>8, <1>9, <1>10, <1>11, <1>12, <1>13, StepIs

LEMMA ApplyKeeps ==
    ASSUME Tame, Calm, NEW h \in served, Apply(h)
    PROVE  Calm'
<1>0. /\ Shape /\ Shelf \in Device /\ h \in Handler /\ h.msg \in Msg /\ h.of \in Device /\ cast.satchels \subseteq Satchel
      /\ Shelf \notin Satchel /\ cast \in Cast
  BY TameIs, DevicesAre, ShapeIs DEF Calm, Shape, Handler
<1>1. UNCHANGED <<owed, fresh, cursor, session, lost, cast>> /\ h.step = "apply"
  <2>1. UNCHANGED <<cursor, session, lost, cast>> /\ h.step = "apply"
    BY DEF Apply
  <2>2. owed' = owed /\ fresh' = fresh
    <3>1. ASSUME NEW r, NEW a, NEW f, Added(Shelf, r, a, FALSE, f) PROVE owed' = owed /\ fresh' = fresh
      <4>1. \E w : OutboxTakes(Shelf, w)
        BY <3>1 DEF Added
      <4> QED
        BY <1>0, <4>1 DEF OutboxTakes, Shape
    <3> QED
      BY <3>1 DEF Apply, Kept, Merged
  <2> QED
    BY <2>1, <2>2
<1>2. PICK msg : msg = [h.msg EXCEPT !.known = FALSE]
  OBVIOUS
<1>3. msg \in Msg /\ msg.revs = h.msg.revs /\ msg.rec = h.msg.rec /\ msg.live = h.msg.live
  BY <1>0, <1>2 DEF Msg
<1>4. PICK k : k = [h EXCEPT !.step = "answer", !.msg = msg]
  OBVIOUS
<1>5. k \in Handler /\ k.of = h.of /\ k.step = "answer" /\ k.msg = msg
  BY <1>0, <1>3, <1>4 DEF Handler
<1>6. served' = (served \ {h}) \cup {k}
  <2>1. served' = (served \ {h}) \cup {[h EXCEPT !.step = "answer", !.msg.known = FALSE]}
    BY DEF Apply
  <2>2. [h EXCEPT !.step = "answer", !.msg.known = FALSE] = [h EXCEPT !.step = "answer", !.msg = [h.msg EXCEPT !.known = FALSE]]
    BY <1>0 DEF Handler
  <2> QED
    BY <1>2, <1>4, <2>1, <2>2
<1>7. served' \subseteq Handler
  BY <1>0, <1>5, <1>6 DEF Shape
<1>8. PICK m : m = h.msg.rec
  OBVIOUS
<1>9. /\ m \in Held /\ Named(m) /\ m.at \in Int /\ m.at <= floor[Shelf] /\ h.msg.live \in Nat /\ h.msg.live <= floor[Shelf]
      /\ rec[Shelf] \in Held /\ Named(rec[Shelf]) /\ rec[Shelf].at \in Int /\ rec[Shelf].at <= floor[Shelf] /\ floor[Shelf] \in Nat
      /\ presence[Shelf].at \in Nat /\ presence[Shelf].at <= floor[Shelf]
  BY <1>0, <1>8, ShapeIs DEF Calm, Pending, Books
<1>10. (live[Shelf] <=> rec[Shelf] # Absent) /\ (live[Shelf] <=> presence[Shelf].state # "removed")
  BY <1>0 DEF Calm, Books
<1>11. /\ h.of = Shelf => cast.removers = {}
       /\ h.of # Shelf => h.of \in cast.satchels
       /\ m # Absent /\ h.msg.live = 0 /\ ~live[Shelf] => h.msg.known
  BY <1>1, <1>8 DEF Calm, Pending
<1>12. \A s \in cast.satchels : s = h.of => Word(h, s) /\ \A a, b \in served : a.of = s /\ b.of = s => a = b
  BY DEF Calm, Per, Phases, Words
<1>13. ~live[Shelf] => /\ h.of \in cast.satchels /\ cast.removers # {}
                       /\ \A t \in cast.satchels : t = h.of
  <2>1. ~live[Shelf] => cast.removers # {}
    BY <1>0, <1>10 DEF Calm, Books
  <2> QED
    BY <1>0, <1>11, <2>1, TameIs
<1>14. ~live[Shelf] /\ h.msg.live > 0 => ~RestoreRefused(h.msg) /\ presence[Shelf].at <= h.msg.live
  BY <1>9, <1>12, <1>13 DEF Word, RestoreRefused
<1>15. IF m = Absent THEN Kept(floor)
       ELSE IF live[Shelf] THEN Merged(Shelf, m, floor)
       ELSE IF h.msg.live > 0 THEN Added(Shelf, m, h.msg.live, FALSE, floor)
       ELSE Kept(floor)
  <2>1. CASE m = Absent
    BY <1>8, <2>1 DEF Apply
  <2>2. CASE m # Absent /\ live[Shelf]
    BY <1>8, <2>2 DEF Apply
  <2>3. CASE m # Absent /\ ~live[Shelf] /\ h.msg.live > 0
    BY <1>8, <1>14, <2>3 DEF Apply
  <2>4. CASE m # Absent /\ ~live[Shelf] /\ ~(h.msg.live > 0)
    <3>1. h.msg.known
      BY <1>9, <1>11, <2>4
    <3> QED
      BY <1>8, <2>4, <3>1 DEF Apply
  <2> QED
    BY <2>1, <2>2, <2>3, <2>4
\* What the push clears is here now, wherever the shelf had or has the book.
<1>16. ASSUME NEW s \in cast.satchels, s = h.of, m # Absent /\ live'[Shelf] => rec'[Shelf].at >= m.at, rec'[Shelf].at \in Int,
              live'[Shelf] <=> (live[Shelf] \/ (m # Absent /\ h.msg.live > 0)), s # Shelf,
              live'[s] = live[s], rec'[s] = rec[s], presence'[s] = presence[s],
              h.msg.live > 0 => presence'[Shelf].at <= h.msg.live
       PROVE  Words(s)' /\ Box(s)' /\ (Phases(s))'
  <2>1. Word(h, s) /\ \A a, b \in served : a.of = s /\ b.of = s => a = b
    BY <1>12, <1>16
  <2>2. rec[s].at \in Int
    BY <1>0, <1>16, ShapeIs, DevicesAre
  <2>3. (Told(s)' => Told(s)) /\ (Gone(s)' => Gone(s)) /\ At(s, "pushed")'
    BY <1>1, <1>16, <2>1 DEF Told, Gone, MsgOf, Word, At
  <2>4. Told(s) => m # Absent /\ (live'[Shelf] => rec[s].at <= rec'[Shelf].at)
    <3>1. Told(s) => m # Absent /\ rec[s].at <= m.at
      BY <1>1, <1>8, <2>1 DEF Word
    <3> QED
      BY <1>9, <1>16, <2>2, <3>1
  <2>5. Gone(s) => (live[s] <=> live'[Shelf])
    <3>1. /\ Gone(s) /\ live[s] => m # Absent /\ h.msg.live > 0
          /\ Gone(s) /\ ~live[s] => m = Absent /\ ~live[Shelf]
      BY <1>1, <1>8, <2>1 DEF Word
    <3> QED
      BY <1>16, <3>1
  <2>6. h.msg.live > 0 => /\ "removed" \in h.msg.revs
                          /\ h.msg.live <= presence[s].at
                          /\ h.msg.live = presence[s].at => presence[s].state = "live"
    BY <2>1 DEF Word
  <2>7. MsgOf(s)' = MsgOf(s) /\ h.msg.revs = MsgOf(s).revs
    BY <1>1, <2>1 DEF MsgOf, Word
  <2>8. Word(k, s)'
    BY <1>3, <1>5, <1>8, <1>16, <2>3, <2>4, <2>5, <2>6, <2>7 DEF Word
  <2>9. \A a \in served' : a.of = s => a = k
    BY <1>6, <1>16, <2>1
  <2>10. Words(s)'
    BY <2>8, <2>9 DEF Words
  <2>11. Box(s)'
    BY <1>1 DEF Calm, Per, Box, Pushing, MsgOf
  <2> QED
    BY <2>3, <2>10, <2>11 DEF Phases, AtAck, AtClear, AtPush, AtPage, AtRows, AtEnd, At
<1>17. CASE live[Shelf] \/ m = Absent \/ h.msg.live = 0
  <2>1. /\ UNCHANGED <<live, presence, floor>> /\ rec' \in [Device -> Held] /\ log' \in Seq(What)
        /\ \A d \in Device : d # Shelf => rec'[d] = rec[d]
        /\ Named(rec'[Shelf]) /\ (live[Shelf] <=> rec'[Shelf] # Absent) /\ rec'[Shelf].at \in Int
        /\ rec'[Shelf].at >= rec[Shelf].at /\ (m # Absent /\ live[Shelf] => rec'[Shelf].at >= m.at)
        /\ rec'[Shelf].at <= floor[Shelf]
        /\ Len(log') >= Len(log) /\ (Len(log') = Len(log) => rec'[Shelf] = rec[Shelf])
    <3>1. CASE m # Absent /\ live[Shelf]
      <4>1. Merged(Shelf, m, floor)
        BY <1>15, <3>1
      <4>2. PICK n : n = Pick(rec[Shelf], m)
        OBVIOUS
      <4>3. n \in Held /\ Named(n) /\ n.at \in Int /\ n.at >= rec[Shelf].at /\ n.at >= m.at /\ n # Absent /\ (n = rec[Shelf] \/ n = m)
        BY <1>9, <1>10, <3>1, <4>2, PickIs, HeldIs
      <4>4. PICK w : w = IF n = rec[Shelf] THEN {} ELSE {"record"}
        OBVIOUS
      <4>5. FeedTakes(Shelf, w) /\ w \in SUBSET What /\ log \in Seq(What)
        BY <1>0, <4>1, <4>2, <4>4 DEF Merged, What, Shape
      <4>6. log' \in Seq(What) /\ (w = {} => log' = log) /\ (w # {} => Len(log') > Len(log))
        BY <4>5, FeedIs
      <4>7. rec' = [rec EXCEPT ![Shelf] = n]
        BY <4>1, <4>2 DEF Merged
      <4>8. rec' \in [Device -> Held] /\ rec'[Shelf] = n /\ \A d \in Device : d # Shelf => rec'[d] = rec[d]
        BY <1>0, <4>3, <4>7 DEF Shape
      <4>9. Len(log) \in Nat /\ Len(log') \in Nat
        BY <4>5, <4>6
      <4>10. Len(log') >= Len(log) /\ (Len(log') = Len(log) => n = rec[Shelf])
        BY <4>4, <4>6, <4>9
      <4>11. UNCHANGED <<live, presence, floor>>
        BY <4>1 DEF Merged
      <4>12. n.at <= floor[Shelf]
        BY <1>9, <4>3
      <4> QED
        BY <3>1, <4>3, <4>6, <4>8, <4>10, <4>11, <4>12
    <3>2. CASE ~(m # Absent /\ live[Shelf])
      <4>1. Kept(floor)
        <5>1. ~(h.msg.live > 0) \/ m = Absent
          BY <1>9, <1>17, <3>2
        <5> QED
          BY <1>15, <3>2, <5>1
      <4>2. UNCHANGED <<live, presence, floor, rec, log>>
        BY <4>1 DEF Kept
      <4>3. Len(log) \in Nat
        BY <1>0, ShapeIs
      <4> QED
        BY <1>0, <1>9, <1>10, <3>2, <4>2, <4>3 DEF Shape
    <3> QED
      BY <3>1, <3>2
  <2>2. Shape'
    BY <1>0, <1>1, <1>7, <2>1 DEF Shape
  <2>3. Books'
    <3>1. \A d \in Device : rec'[d].at <= floor'[d] /\ presence'[d].at <= floor'[d]
      BY <1>0, <2>1 DEF Calm, Books
    <3>2. \A d \in Device : (live'[d] <=> rec'[d] # Absent) /\ Named(rec'[d])
      BY <1>0, <2>1 DEF Calm, Books
    <3> QED
      BY <1>1, <2>1, <3>1, <3>2 DEF Calm, Books
  <2>4. Pending'
    BY <1>1, <1>3, <1>5, <1>6, <2>1 DEF Calm, Pending
  <2>5. Shelved
    BY <2>1 DEF Shelved
  <2>6. \A t \in cast.satchels : t # h.of => Same(t)
    BY <1>0, <1>1, <1>5, <1>6, <2>1, ServesAnother, DevicesAre DEF Same
  <2>7. ASSUME NEW s \in cast.satchels, s = h.of PROVE Per(s)'
    <3>0. s \in Satchel /\ s # Shelf /\ s \in Device /\ rec'[s] = rec[s]
      BY <1>0, <2>1, <2>7, DevicesAre
    <3>1. h.msg.live > 0 => presence'[Shelf].at <= h.msg.live
      BY <1>12, <2>1, <2>7 DEF Word
    <3>2. Words(s)' /\ Box(s)' /\ Phases(s)'
      BY <1>9, <1>10, <1>16, <1>17, <2>1, <2>7, <3>0, <3>1
    <3>3. Base(s)'
      BY <1>1, <2>1 DEF Calm, Per, Base
    <3>4. cursor[s] \in Nat /\ session[s].until \in Nat /\ Len(log) \in Nat /\ Len(log') \in Nat /\ rec[s].at \in Int
      BY <1>0, <2>1, <3>0, ShapeIs
    <3>5. Win(s)'
      BY <1>1, <2>1, <3>4 DEF Calm, Per, Win, At, HubSeq
    <3>6. cursor[s] = Len(log') => Level(s)'
      <4>1. cursor[s] = Len(log') => cursor[s] = Len(log) /\ rec'[Shelf] = rec[Shelf]
        BY <2>1, <3>4 DEF Calm, Per, Win, HubSeq
      <4>2. cursor[s] = Len(log) => Level(s)
        BY DEF Calm, Per, Met, HubSeq
      <4> QED
        BY <1>1, <2>1, <3>0, <4>1, <4>2 DEF Level
    <3>7. live[s] /\ live[Shelf] /\ "record" \notin owed[s] => rec[s].at <= rec'[Shelf].at
      <4>1. live[s] /\ live[Shelf] /\ "record" \notin owed[s] => rec[s].at <= rec[Shelf].at
        BY DEF Calm, Per, Met
      <4> QED
        BY <1>9, <2>1, <3>4, <4>1
    <3>8. Met(s)'
      BY <1>1, <2>1, <3>0, <3>6, <3>7 DEF Calm, Per, Met, HubSeq
    <3> QED
      BY <3>2, <3>3, <3>5, <3>8 DEF Per
  <2> QED
    BY <1>0, <1>1, <2>2, <2>3, <2>4, <2>5, <2>6, <2>7, StepIs
\* A restore: the shelf takes the book back, and the stamp it was restored under.
<1>18. CASE ~live[Shelf] /\ m # Absent /\ h.msg.live # 0
  <2>1. Added(Shelf, m, h.msg.live, FALSE, floor) /\ h.msg.live > 0 /\ presence[Shelf].state = "removed" /\ rec[Shelf] = Absent
    <3>1. h.msg.live > 0
      BY <1>9, <1>18
    <3>2. Added(Shelf, m, h.msg.live, FALSE, floor)
      BY <1>15, <1>18, <3>1
    <3> QED
      BY <1>10, <1>18, <3>1, <3>2
  <2>2. PICK s \in cast.satchels : s = h.of /\ cast.removers # {} /\ \A t \in cast.satchels : t = s
    BY <1>13, <1>18
  <2>3. s \in Satchel /\ s # Shelf /\ s \in Device
    BY <1>0, <2>2, DevicesAre
  <2>4. PICK p : p = [state |-> "live", at |-> h.msg.live]
    OBVIOUS
  <2>5. p \in Presence /\ p.state = "live" /\ p.at = h.msg.live
    BY <1>9, <2>4 DEF Presence
  <2>6. presence' = [presence EXCEPT ![Shelf] = p] /\ floor' = [floor EXCEPT ![Shelf] = Latest(@, h.msg.live)]
    BY <2>1, <2>4 DEF Added
  <2>7. presence' \in [Device -> Presence] /\ presence'[Shelf] = p /\ \A d \in Device : d # Shelf => presence'[d] = presence[d]
    BY <1>0, <2>5, <2>6 DEF Shape
  <2>8. floor' = floor
    <3>1. Latest(floor[Shelf], h.msg.live) = floor[Shelf]
      BY <1>9 DEF Latest
    <3> QED
      BY <1>0, <2>6, <3>1 DEF Shape
  <2>9. live' \in [Device -> BOOLEAN] /\ live'[Shelf] = TRUE /\ \A d \in Device : d # Shelf => live'[d] = live[d]
    BY <1>0, <2>1 DEF Added, Shape
  <2>10. rec' \in [Device -> Held] /\ rec'[Shelf] = m /\ \A d \in Device : d # Shelf => rec'[d] = rec[d]
    <3>1. rec' = [rec EXCEPT ![Shelf] = ParsedOver(rec[Shelf], m)]
      BY <1>0, <2>1 DEF Added
    <3>2. ParsedOver(rec[Shelf], m) = m
      BY <2>1 DEF ParsedOver
    <3>3. rec' = [rec EXCEPT ![Shelf] = m]
      BY <3>1, <3>2
    <3> QED
      BY <1>0, <1>9, <3>3 DEF Shape
  <2>11. log' \in Seq(What) /\ Len(log') > Len(log) /\ Len(log) \in Nat /\ Len(log') \in Nat
    <3>1. FeedTakes(Shelf, {"record"} \cup {"removed"})
      BY <2>1 DEF Added
    <3>2. PICK w : w = {"record"} \cup {"removed"}
      OBVIOUS
    <3>3. w \in SUBSET What /\ w # {} /\ log \in Seq(What)
      BY <1>0, <3>2 DEF What, Shape
    <3>4. log' \in Seq(What) /\ Len(log') > Len(log)
      BY <3>1, <3>2, <3>3, FeedIs
    <3> QED
      BY <3>3, <3>4
  <2>12. Shape'
    BY <1>0, <1>1, <1>7, <2>7, <2>8, <2>9, <2>10, <2>11 DEF Shape
  <2>13. Books'
    <3>1. \A d \in Device : rec'[d].at <= floor'[d] /\ presence'[d].at <= floor'[d]
      <4>1. rec'[Shelf].at <= floor[Shelf] /\ presence'[Shelf].at <= floor[Shelf]
        BY <1>9, <2>5, <2>7, <2>10
      <4> QED
        BY <2>7, <2>8, <2>10, <4>1 DEF Calm, Books
    <3>2. \A d \in Device : (live'[d] <=> rec'[d] # Absent) /\ Named(rec'[d])
      BY <1>9, <1>18, <2>9, <2>10 DEF Calm, Books
    <3> QED
      BY <1>1, <2>2, <2>5, <2>7, <2>9, <3>1, <3>2 DEF Books
  <2>14. Pending'
    BY <1>1, <1>3, <1>5, <1>6, <2>8, <2>9 DEF Calm, Pending
  <2>15. Word(h, s)
    BY <1>12, <2>2
  <2>16. /\ "removed" \in owed[s] /\ h.msg.live <= presence[s].at
         /\ h.msg.live = presence[s].at => presence[s].state = "live"
    <3>1. "removed" \in MsgOf(s).revs /\ At(s, "pushed")
      BY <2>1, <2>15 DEF Word
    <3> QED
      BY <2>1, <2>15, <3>1 DEF Word, Calm, Per, Box, Pushing, At
  <2>17. Base(s)'
    <3>1. presence'[Shelf].at = h.msg.live /\ presence'[Shelf].state = "live" /\ presence'[s] = presence[s] /\ live'[s] = live[s]
      BY <2>3, <2>5, <2>7, <2>9
    <3> QED
      BY <1>1, <2>16, <3>1 DEF Calm, Per, Base
  <2>18. Words(s)' /\ Box(s)' /\ Phases(s)'
    <3>1. rec'[Shelf].at >= m.at /\ rec'[Shelf].at \in Int
      BY <1>9, <2>10
    <3>2. live'[s] = live[s] /\ rec'[s] = rec[s] /\ presence'[s] = presence[s]
      BY <2>3, <2>7, <2>9, <2>10
    <3>3. presence'[Shelf].at <= h.msg.live
      BY <1>9, <2>5, <2>7
    <3>4. live'[Shelf] <=> (live[Shelf] \/ (m # Absent /\ h.msg.live > 0))
      BY <1>18, <2>1, <2>9
    <3> QED
      BY <1>16, <2>2, <2>3, <3>1, <3>2, <3>3, <3>4
  <2>19. Win(s) /\ cursor[s] <= Len(log)
    BY DEF Calm, Per, Win, HubSeq
  <2>20. cursor[s] \in Nat /\ session[s].until \in Nat
    BY <1>0, <2>3, ShapeIs
  <2>21. Win(s)'
    BY <1>1, <2>11, <2>19, <2>20 DEF Win, At, HubSeq
  <2>22. Met(s)'
    <3>1. live[s] => "record" \in owed[s]
      BY <2>16 DEF Calm, Per, Base
    <3>2. cursor[s] # Len(log')
      BY <2>11, <2>19, <2>20
    <3>3. live'[s] = live[s]
      BY <2>3, <2>9
    <3> QED
      BY <1>1, <2>16, <3>1, <3>2, <3>3 DEF Met, HubSeq
  <2>23. Per(s)'
    BY <2>17, <2>18, <2>21, <2>22 DEF Per
  <2> QED
    BY <1>1, <2>2, <2>12, <2>13, <2>14, <2>23 DEF Calm
<1> QED
  BY <1>17, <1>18

-----------------------------------------------------------------------------
(* The session of every satchel. *)

\* The inductive invariant.
SessionInv == cast \in Cast /\ (Tame => Calm)

LEMMA SessionStarts ==
    ASSUME Init
    PROVE  SessionInv
<1>1. cast \in Cast
  BY SyncSessionAssumption DEF Init
<1>2. ASSUME Tame PROVE Calm
  <2>1. N \in Nat /\ Shelf \in Device /\ Satchel \subseteq Device /\ (\A s \in Satchel : s # Shelf) /\ cast.satchels \subseteq Satchel
    BY <1>1, <1>2, DevicesAre, TameIs
  <2>2. Idle \in Session /\ Idle.pc = "idle" /\ Idle.until = 0
    BY NoMsgIs DEF Idle, Session, Pc
  <2>3. PICK none : none = [state |-> "none", at |-> 0]
    OBVIOUS
  <2>4. none \in Presence /\ none.state = "none" /\ none.at = 0
    BY <2>3 DEF Presence
  <2>5. presence = [d \in Device |-> none]
    BY <2>3 DEF Init
  <2>6. presence \in [Device -> Presence] /\ \A d \in Device : presence[d] = none
    BY <2>4, <2>5
  <2>7. rec \in [Device -> Held] /\ rec[Shelf] = Unset /\ \A d \in Device : d # Shelf => rec[d] = Absent
    BY <2>1, NoMsgIs DEF Init
  <2>8. live \in [Device -> BOOLEAN] /\ live[Shelf] = TRUE /\ \A d \in Device : d # Shelf => live[d] = FALSE
    BY <2>1 DEF Init
  <2>9. log \in Seq(What) /\ Len(log) = 1
    BY DEF Init, What
  <2>10. session \in [Satchel -> Session] /\ \A s \in Satchel : session[s] = Idle
    BY <2>2 DEF Init
  <2>11. floor \in [Device -> Nat] /\ owed \in [Satchel -> SUBSET What] /\ fresh \in [Satchel -> SUBSET What]
         /\ cursor \in [Satchel -> Nat] /\ served = {} /\ lost \in Nat
    BY DEF Init
  <2>12. Shape
    BY <1>1, <2>6, <2>7, <2>8, <2>9, <2>10, <2>11 DEF Shape
  <2>13. Books
    <3>1. \A d \in Device : (live[d] <=> rec[d] # Absent) /\ Named(rec[d])
      BY <2>7, <2>8, NoMsgIs DEF Named
    <3>2. \A d \in Device : floor[d] = 0
      BY DEF Init
    <3>3. \A d \in Device : rec[d].at <= floor[d] /\ presence[d].at <= floor[d]
      BY <2>4, <2>6, <2>7, <3>2 DEF Unset, Absent
    <3> QED
      BY <2>1, <2>4, <2>6, <2>8, <3>1, <3>3 DEF Books
  <2>14. Pending
    BY <2>11 DEF Pending
  <2>15. ASSUME NEW s \in cast.satchels PROVE Per(s)
    <3>1. /\ s \in Satchel /\ s \in Device /\ s # Shelf /\ presence[s] = none /\ presence[Shelf] = none /\ ~live[s]
          /\ owed[s] = {} /\ fresh[s] = {} /\ cursor[s] = 0 /\ session[s] = Idle
      BY <2>1, <2>6, <2>8, <2>10 DEF Init
    <3>2. Base(s)
      BY <2>4, <3>1 DEF Base
    <3>3. At(s, "idle")
      BY <2>2, <3>1 DEF At
    <3>4. Box(s)
      BY <3>3 DEF Box, Pushing, At
    <3>5. Win(s)
      BY <2>9, <3>1, <3>3 DEF Win, HubSeq
    <3>6. Phases(s)
      BY <2>11, <3>3 DEF Phases, Words, AtAck, AtClear, AtPush, AtPage, AtRows, AtEnd, At
    <3>7. Met(s)
      BY <2>4, <2>9, <3>1 DEF Met, HubSeq
    <3> QED
      BY <3>2, <3>4, <3>5, <3>6, <3>7 DEF Per
  <2> QED
    BY <2>12, <2>13, <2>14, <2>15 DEF Calm
<1> QED
  BY <1>1, <1>2 DEF SessionInv

LEMMA SessionKeeps ==
    ASSUME SessionInv, [Next]_vars
    PROVE  SessionInv'
<1>1. cast' = cast
  BY DEF Next, vars, Turn, Remove, Open, Act, Step, Lost, Serve, Hello, Build, Push, Ack, Clear, Pull, Rows, Page,
         Removals, Cursor, Check, Apply, Answer
<1>2. Tame' <=> Tame
  BY <1>1 DEF Tame
<1>3. ASSUME Tame PROVE Calm'
  <2>1. Calm
    BY <1>3 DEF SessionInv
  <2>2. ASSUME NEW d \in Playing, Turn(d) \/ Remove(d) \/ Open(d) PROVE Calm'
    BY <1>3, <2>1, <2>2, TurnKeeps, RemoveKeeps, OpenKeeps
  <2>3. ASSUME NEW s \in cast.satchels, Step(s) \/ Lost(s) PROVE Calm'
    <3>1. CASE Hello(s) \/ Build(s) \/ Push(s)
      BY <1>3, <2>1, <3>1, HelloKeeps, BuildKeeps, PushKeeps
    <3>2. CASE Ack(s) \/ Clear(s) \/ Pull(s)
      BY <1>3, <2>1, <3>2, AckKeeps, ClearKeeps, PullKeeps
    <3>3. CASE Rows(s) \/ Page(s) \/ Removals(s)
      BY <1>3, <2>1, <3>3, RowsKeeps, PageKeeps, RemovalsKeeps
    <3>4. CASE Cursor(s) \/ Lost(s)
      BY <1>3, <2>1, <3>4, CursorKeeps, LostKeeps
    <3> QED
      BY <2>3, <3>1, <3>2, <3>3, <3>4 DEF Step
  <2>4. ASSUME NEW h \in served, Check(h) \/ Apply(h) \/ Answer(h) PROVE Calm'
    BY <1>3, <2>1, <2>4, CheckKeeps, ApplyKeeps, AnswerKeeps
  <2>5. CASE UNCHANGED vars
    <3>1. UNCHANGED <<live, rec, presence, floor, owed, fresh, log, cursor, session, served, lost, cast>>
      BY <2>5 DEF vars
    <3>2. Shape' /\ Books' /\ Pending'
      BY <2>1, <3>1 DEF Calm, Shape, Books, Pending
    <3>3. ASSUME NEW s \in cast.satchels PROVE Per(s)'
      <4>1. s \in Satchel
        BY <1>3, <2>1, TameIs DEF Calm, Shape
      <4>2. Same(s) /\ Shelved
        BY <2>1, <3>1, ShapeIs, DevicesAre DEF Same, Shelved, Calm
      <4> QED
        BY <2>1, <3>2, <4>1, <4>2, OthersStay DEF Calm
    <3> QED
      BY <1>1, <3>2, <3>3 DEF Calm
  <2> QED
    BY <2>2, <2>3, <2>4, <2>5 DEF Next, Serve
<1> QED
  BY <1>1, <1>2, <1>3 DEF SessionInv

LEMMA CalmIsTogether ==
    ASSUME SessionInv
    PROVE  Together
<1>1. ASSUME Tame, NEW s \in cast.satchels
      PROVE  Agrees(s) /\ (live[s] /\ live[Shelf] /\ "record" \notin owed[s] => rec[Shelf] = Pick(rec[Shelf], rec[s]))
  <2>1. Calm
    BY <1>1 DEF SessionInv
  <2>2. s \in Satchel /\ s \in Device /\ Shelf \in Device
    BY <1>1, <2>1, TameIs, DevicesAre DEF Calm, Shape
  <2>3. /\ rec[s] \in Held /\ Named(rec[s]) /\ rec[s].at \in Int /\ rec[Shelf] \in Held /\ Named(rec[Shelf]) /\ rec[Shelf].at \in Int
        /\ live[s] \in BOOLEAN /\ live[Shelf] \in BOOLEAN /\ presence[s].at \in Nat /\ presence[Shelf].at \in Nat
    BY <2>1, <2>2, ShapeIs DEF Calm, Books, Shape
  <2>4. Met(s) /\ Base(s) /\ (live[Shelf] <=> presence[Shelf].state # "removed")
    BY <1>1, <2>1 DEF Calm, Per, Books
  <2>5. live[s] /\ live[Shelf] /\ "record" \notin owed[s] => rec[Shelf] = Pick(rec[Shelf], rec[s])
    <3>1. ASSUME live[s], live[Shelf], "record" \notin owed[s] PROVE rec[Shelf] = Pick(rec[Shelf], rec[s])
      <4>1. rec[s].at <= rec[Shelf].at
        BY <2>4, <3>1 DEF Met
      <4>2. Pick(rec[Shelf], rec[s]) = IF rec[Shelf].at < rec[s].at THEN rec[s] ELSE rec[Shelf]
        BY <2>3, PickIs
      <4> QED
        BY <2>3, <4>1, <4>2
    <3> QED
      BY <3>1
  <2>6. Agrees(s)
    <3>1. ASSUME Settled(s) PROVE live[s] = live[Shelf] /\ (live[s] => rec[s] = rec[Shelf])
      <4>1. Level(s) /\ "removed" \notin owed[s] /\ (live[s] => "record" \notin owed[s])
        BY <2>4, <3>1 DEF Settled, Owed, Met
      <4>2. CASE presence[s].state = "none"
        <5>1. live[s] => live[Shelf]
          BY <2>3, <2>4, <4>2 DEF Base
        <5>2. live[Shelf] => live[s]
          BY <4>1, <4>2 DEF Level
        <5>3. live[s] = live[Shelf]
          BY <2>3, <5>1, <5>2
        <5> QED
          <6>1. live[s] => rec[s].at <= rec[Shelf].at /\ rec[Shelf].at <= rec[s].at
            BY <2>4, <4>1, <5>3 DEF Met, Level
          <6> QED
            BY <2>3, <5>3, <6>1, NamedIs
      <4>3. CASE presence[s].state # "none"
        <5>1. live[s] <=> live[Shelf]
          BY <2>4, <4>1, <4>3 DEF Met
        <5>2. live[s] = live[Shelf]
          BY <2>3, <5>1
        <5>3. live[s] => rec[s].at <= rec[Shelf].at /\ rec[Shelf].at <= rec[s].at
          BY <2>4, <4>1, <5>2 DEF Met, Level
        <5> QED
          BY <2>3, <5>2, <5>3, NamedIs
      <4> QED
        BY <4>2, <4>3
    <3> QED
      BY <3>1 DEF Agrees
  <2> QED
    BY <2>5, <2>6
<1> QED
  BY <1>1 DEF Together, Agreed, Delivered

\* A satchel with nothing to push and nothing to pull has what the shelf has, and
\* what its outbox no longer holds the shelf has (ledger.ts:1091-1123), for any number
\* of satchels, any readers, any skew of the clocks, in the casts Tame names.
THEOREM SatchelsAgree == Spec => []Together
<1>1. Init => SessionInv
  BY SessionStarts
<1>2. SessionInv /\ [Next]_vars => SessionInv'
  BY SessionKeeps
<1>3. SessionInv => Together
  BY CalmIsTogether
<1> QED
  BY <1>1, <1>2, <1>3, PTL DEF Spec

=============================================================================
