--------------------------- MODULE LibraryProofs ----------------------------
(***************************************************************************)
(* Proofs about the write queue and the shelf that is written through it.   *)
(*                                                                         *)
(* WriteQueue implements Lanes, for every set of keys, every cap and any    *)
(* number of writes: what a caller sees of a lane is which of its writes    *)
(* have had no answer, and Filed says that those are the line and the one   *)
(* in flight, each once and in the order they were asked for.               *)
(*                                                                         *)
(* ShelfIndex keeps its shelf and its index true, for every set of books    *)
(* and any number of changes, failures and processes that ended, at any     *)
(* moment: ShelfInv says that where index.json is wrong about a book it has *)
(* work of its own or landed since the index had it (Known, Taken), and     *)
(* then somebody is going to tell the index, or the marker on disk does     *)
(* (Coming, Missed, Noted).  Both need what Only leaves of a line           *)
(* (OnlyRises, OnlyKeepsLast).                                              *)
(***************************************************************************)
EXTENDS WriteQueue, ShelfIndex, TLAPS, FiniteSetTheorems, WellFoundedInduction

-----------------------------------------------------------------------------
(* Sequences that rise, and what a filter leaves of them. *)

Of(s) == {s[i] : i \in 1 .. Len(s)}

Rising(s) == \A i, j \in 1 .. Len(s) : i < j => s[i] < s[j]

LEMMA LeastOf ==
    ASSUME NEW S \in SUBSET Nat, S # {}
    PROVE  \E n \in S : \A m \in S : n <= m
<1>1. PICK n \in S : \A m \in S : ~(<<m, n>> \in OpToRel(<, Nat))
  BY NatLessThanWellFounded, WFMin
<1>2. \A m \in S : ~(m < n)
  BY <1>1 DEF OpToRel
<1> QED
  BY <1>2

\* A rising sequence has as many elements as places.
LEMMA RisingCounts ==
    ASSUME NEW s \in Seq(Nat), Rising(s)
    PROVE  IsFiniteSet(Of(s)) /\ Cardinality(Of(s)) = Len(s)
<1> DEFINE place == [i \in 1 .. Len(s) |-> s[i]]
<1>1. Len(s) \in Nat
  OBVIOUS
<1>2. place \in [1 .. Len(s) -> Of(s)]
  BY DEF Of
<1>3. \A i, j \in 1 .. Len(s) : place[i] = place[j] => i = j
  <2> SUFFICES ASSUME NEW i \in 1 .. Len(s), NEW j \in 1 .. Len(s), s[i] = s[j], i # j PROVE FALSE
    OBVIOUS
  <2>1. i \in Int /\ j \in Int /\ s[i] \in Nat /\ s[j] \in Nat
    OBVIOUS
  <2>2. i < j \/ j < i
    BY <2>1
  <2> QED
    BY <2>1, <2>2 DEF Rising
<1>4. \A x \in Of(s) : \E i \in 1 .. Len(s) : place[i] = x
  BY DEF Of
<1>5. place \in Bijection(1 .. Len(s), Of(s))
  <2> HIDE DEF place
  <2>1. DOMAIN place = 1 .. Len(s)
    BY <1>2
  <2> QED
    BY <1>2, <1>3, <1>4, <2>1 DEF Bijection, Injection, Surjection, IsInjective
<1>6. IsFiniteSet(1 .. Len(s)) /\ Cardinality(1 .. Len(s)) = Len(s)
  <2>1. 1 \in Int /\ Len(s) \in Int /\ (1 > Len(s) <=> Len(s) = 0) /\ Len(s) - 1 + 1 = Len(s)
    BY <1>1
  <2> QED
    BY <2>1, FS_Interval
<1> HIDE DEF place
<1>7. ExistsBijection(1 .. Len(s), Of(s))
  BY <1>5 DEF ExistsBijection
<1> QED
  BY <1>6, <1>7, FS_Bijection

\* A longer one.
LEMMA RisingAppend ==
    ASSUME NEW s \in Seq(Nat), Rising(s), NEW n \in Nat, \A m \in Of(s) : m < n
    PROVE  Append(s, n) \in Seq(Nat) /\ Rising(Append(s, n)) /\ Of(Append(s, n)) = Of(s) \cup {n}
<1> DEFINE t == Append(s, n)
<1>1. t \in Seq(Nat) /\ Len(t) = Len(s) + 1 /\ Len(s) \in Nat /\ t[Len(s) + 1] = n
  OBVIOUS
<1>2. \A i \in 1 .. Len(s) : t[i] = s[i]
  OBVIOUS
<1>3. 1 .. Len(t) = 1 .. Len(s) \cup {Len(s) + 1}
  BY <1>1
<1> HIDE DEF t
<1>4. Of(t) = Of(s) \cup {n}
  <2>1. Of(t) = {t[i] : i \in 1 .. Len(s)} \cup {t[Len(s) + 1]}
    BY <1>3 DEF Of
  <2>2. {t[i] : i \in 1 .. Len(s)} = {s[i] : i \in 1 .. Len(s)}
    BY <1>2
  <2> QED
    BY <1>1, <2>1, <2>2 DEF Of
<1>5. Rising(t)
  <2> SUFFICES ASSUME NEW i \in 1 .. Len(t), NEW j \in 1 .. Len(t), i < j PROVE t[i] < t[j]
    BY DEF Rising
  <2>1. i \in 1 .. Len(s)
    BY <1>1
  <2>2. CASE j \in 1 .. Len(s)
    BY <1>2, <2>1, <2>2 DEF Rising
  <2>3. CASE j = Len(s) + 1
    BY <1>1, <1>2, <2>1, <2>3 DEF Of
  <2> QED
    BY <1>3, <2>2, <2>3
<1> QED
  BY <1>1, <1>4, <1>5 DEF t

\* Without its first.
LEMMA RisingTail ==
    ASSUME NEW s \in Seq(Nat), Rising(s), s # <<>>
    PROVE  /\ Head(s) \in Of(s) /\ \A m \in Of(s) : Head(s) <= m
           /\ Tail(s) \in Seq(Nat) /\ Rising(Tail(s)) /\ Of(Tail(s)) = Of(s) \ {Head(s)}
<1>1. Len(s) \in Nat /\ Len(s) >= 1 /\ Head(s) = s[1] /\ s[1] \in Nat
  OBVIOUS
<1>2. Tail(s) \in Seq(Nat) /\ Len(Tail(s)) = Len(s) - 1
  OBVIOUS
<1>3. \A i \in 1 .. Len(s) - 1 : Tail(s)[i] = s[i + 1]
  OBVIOUS
<1>4. \A i \in 1 .. Len(s) : i # 1 => s[1] < s[i]
  BY <1>1 DEF Rising
<1>5. Rising(Tail(s))
  <2> SUFFICES ASSUME NEW i \in 1 .. Len(s) - 1, NEW j \in 1 .. Len(s) - 1, i < j
               PROVE  s[i + 1] < s[j + 1]
    BY <1>2, <1>3 DEF Rising
  <2>1. i + 1 \in 1 .. Len(s) /\ j + 1 \in 1 .. Len(s) /\ i + 1 < j + 1
    BY <1>1
  <2> QED
    BY <2>1 DEF Rising
<1>6. Of(Tail(s)) = Of(s) \ {Head(s)}
  <2>1. ASSUME NEW i \in 1 .. Len(s) - 1 PROVE s[i + 1] \in Of(s) /\ s[i + 1] # s[1]
    <3>1. i + 1 \in 1 .. Len(s) /\ i + 1 # 1
      BY <1>1
    <3>2. s[i + 1] \in Nat
      BY <3>1
    <3> QED
      BY <1>1, <1>4, <3>1, <3>2 DEF Of
  <2>2. ASSUME NEW j \in 1 .. Len(s), s[j] # s[1] PROVE s[j] \in Of(Tail(s))
    <3>1. j - 1 \in 1 .. Len(s) - 1 /\ (j - 1) + 1 = j
      BY <1>1, <2>2
    <3>2. s[j] = Tail(s)[j - 1]
      BY <1>3, <3>1
    <3> QED
      BY <1>2, <3>1, <3>2 DEF Of
  <2>3. \A x \in Of(Tail(s)) : \E i \in 1 .. Len(s) - 1 : x = s[i + 1]
    BY <1>2, <1>3 DEF Of
  <2>4. \A x \in Of(s) : \E j \in 1 .. Len(s) : x = s[j]
    BY DEF Of
  <2> QED
    BY <1>1, <2>1, <2>2, <2>3, <2>4
<1>7. Head(s) \in Of(s)
  BY <1>1 DEF Of
<1>8. ASSUME NEW m \in Of(s) PROVE Head(s) <= m
  <2>1. PICK i \in 1 .. Len(s) : m = s[i]
    BY DEF Of
  <2>2. s[i] \in Nat
    OBVIOUS
  <2> QED
    BY <1>1, <1>4, <2>1, <2>2
<1> QED
  BY <1>2, <1>5, <1>6, <1>7, <1>8

\* The filter, as far as it has come.
Filter(f, s, S, n) ==
    /\ DOMAIN f = 0 .. n /\ f[0] = <<>>
    /\ \A i \in 0 .. n - 1 : f[i + 1] = IF s[i + 1] \in S THEN Append(f[i], s[i + 1]) ELSE f[i]

LEMMA FilterExists ==
    ASSUME NEW s, NEW S
    PROVE  \A n \in Nat : \E f : Filter(f, s, S, n)
<1> DEFINE Without == {n \in Nat : ~\E f : Filter(f, s, S, n)}
<1>1. SUFFICES ASSUME Without # {} PROVE FALSE
  OBVIOUS
<1>2. PICK n \in Without : \A m \in Without : n <= m
  BY <1>1, LeastOf
<1>3. n # 0
  <2>1. Filter([i \in 0 .. 0 |-> <<>>], s, S, 0)
    BY DEF Filter
  <2> QED
    BY <2>1, <1>2
<1>4. n \in Nat /\ n - 1 \in Nat /\ n - 1 \notin Without
  BY <1>2, <1>3
<1>5. PICK f : Filter(f, s, S, n - 1)
  BY <1>4
<1> DEFINE last == IF s[n] \in S THEN Append(f[n - 1], s[n]) ELSE f[n - 1]
           g == [i \in 0 .. n |-> IF i = n THEN last ELSE f[i]]
<1>6. Filter(g, s, S, n)
  <2> HIDE DEF last
  <2>1. DOMAIN g = 0 .. n /\ g[0] = <<>>
    BY <1>3, <1>4, <1>5 DEF Filter
  <2>2. ASSUME NEW i \in 0 .. n - 1
        PROVE g[i + 1] = IF s[i + 1] \in S THEN Append(g[i], s[i + 1]) ELSE g[i]
    <3>1. g[i] = f[i]
      BY <1>4
    <3>2. CASE i = n - 1
      <4>1. i + 1 = n /\ g[i + 1] = last
        BY <1>4, <3>2
      <4> QED
        BY <3>1, <3>2, <4>1 DEF last
    <3>3. CASE i # n - 1
      <4>1. i \in 0 .. (n - 1) - 1 /\ g[i + 1] = f[i + 1]
        BY <1>4, <3>3
      <4> HIDE DEF g
      <4> QED
        BY <1>5, <3>1, <4>1 DEF Filter
    <3> QED
      BY <3>2, <3>3
  <2> HIDE DEF g
  <2> QED
    BY <2>1, <2>2 DEF Filter
<1> QED
  BY <1>2, <1>6

\* A filter goes through its sequence from the front.
LEMMA OnlyGoesThrough ==
    ASSUME NEW s, Len(s) \in Nat, NEW S
    PROVE  \E upto :
             /\ upto[0] = <<>> /\ Only(s, S) = upto[Len(s)]
             /\ \A i \in 0 .. Len(s) : i # 0 =>
                   upto[i] = IF s[i] \in S THEN Append(upto[i - 1], s[i]) ELSE upto[i - 1]
<1> DEFINE Step(f) == [i \in 0 .. Len(s) |->
                         IF i = 0 THEN <<>>
                         ELSE IF s[i] \in S THEN Append(f[i - 1], s[i]) ELSE f[i - 1]]
           upto == CHOOSE f : f = Step(f)
<1>0. Len(s) \in Nat /\ 0 \in 0 .. Len(s)
  OBVIOUS
<1>1. \E f : f = Step(f)
  <2>1. PICK f : Filter(f, s, S, Len(s))
    BY <1>0, FilterExists
  <2> DEFINE g == [i \in 0 .. Len(s) |-> f[i]]
  <2>2. \A i \in 0 .. Len(s) : i # 0 => i - 1 \in 0 .. Len(s) - 1 /\ (i - 1) + 1 = i
    BY <1>0
  <2>3. g = Step(g)
    <3>1. ASSUME NEW i \in 0 .. Len(s)
          PROVE g[i] = IF i = 0 THEN <<>>
                       ELSE IF s[i] \in S THEN Append(g[i - 1], s[i]) ELSE g[i - 1]
      <4>1. CASE i = 0
        BY <2>1, <4>1 DEF Filter
      <4>2. CASE i # 0
        <5>1. g[i - 1] = f[i - 1] /\ g[i] = f[i]
          BY <1>0, <4>2
        <5>2. f[(i - 1) + 1] = IF s[(i - 1) + 1] \in S THEN Append(f[i - 1], s[(i - 1) + 1]) ELSE f[i - 1]
          BY <2>1, <2>2, <4>2 DEF Filter
        <5> HIDE DEF g
        <5> QED
          BY <2>2, <4>2, <5>1, <5>2
      <4> QED
        BY <4>1, <4>2
    <3>2. g = [i \in 0 .. Len(s) |-> g[i]]
      OBVIOUS
    <3> HIDE DEF g
    <3> QED
      BY <3>1, <3>2
  <2> HIDE DEF g, Step
  <2> QED
    BY <2>3
<1>2. upto = Step(upto)
  <2> HIDE DEF Step
  <2> QED
    BY <1>1
<1>3. Only(s, S) = upto[Len(s)]
  BY DEF Only
<1> HIDE DEF upto
<1>4. upto[0] = <<>>
  BY <1>0, <1>2
<1>5. \A i \in 0 .. Len(s) : i # 0 =>
        upto[i] = IF s[i] \in S THEN Append(upto[i - 1], s[i]) ELSE upto[i - 1]
  BY <1>2
<1> QED
  BY <1>3, <1>4, <1>5

\* What a filter leaves of a rising sequence rises, and is what is in the set.
LEMMA OnlyRises ==
    ASSUME NEW s \in Seq(Nat), Rising(s), NEW S
    PROVE  Only(s, S) \in Seq(Nat) /\ Rising(Only(s, S)) /\ Of(Only(s, S)) = Of(s) \cap S
<1>0. Len(s) \in Nat
  OBVIOUS
<1>2. PICK upto :
         /\ upto[0] = <<>> /\ Only(s, S) = upto[Len(s)]
         /\ \A i \in 0 .. Len(s) : i # 0 =>
               upto[i] = IF s[i] \in S THEN Append(upto[i - 1], s[i]) ELSE upto[i - 1]
  BY <1>0, OnlyGoesThrough
<1> DEFINE Good(i) == /\ upto[i] \in Seq(Nat) /\ Rising(upto[i])
                      /\ Of(upto[i]) = {s[j] : j \in 1 .. i} \cap S
           Bad == {i \in 0 .. Len(s) : ~Good(i)}
<1>4. upto[0] = <<>> /\ Good(0)
  <2>1. upto[0] = <<>>
    BY <1>0, <1>2
  <2>2. 1 .. 0 = {} /\ Len(<<>>) = 0
    OBVIOUS
  <2> QED
    BY <2>1, <2>2 DEF Rising, Of
<1>5. ASSUME NEW i \in 0 .. Len(s), i # 0, Good(i - 1) PROVE Good(i)
  <2>1. upto[i] = IF s[i] \in S THEN Append(upto[i - 1], s[i]) ELSE upto[i - 1]
    BY <1>2, <1>5
  <2>2. i \in 1 .. Len(s) /\ s[i] \in Nat /\ i \in Nat
    BY <1>0, <1>5
  <2>3. {s[j] : j \in 1 .. i} = {s[j] : j \in 1 .. i - 1} \cup {s[i]}
    <3>1. 1 .. i = 1 .. i - 1 \cup {i}
      BY <2>2
    <3> QED
      BY <3>1
  <2>4. \A j \in 1 .. i - 1 : s[j] < s[i]
    BY <1>0, <2>2 DEF Rising
  <2>5. CASE s[i] \in S
    <3>1. \A m \in Of(upto[i - 1]) : m < s[i]
      BY <1>5, <2>4
    <3>2. /\ upto[i] \in Seq(Nat) /\ Rising(upto[i])
          /\ Of(upto[i]) = Of(upto[i - 1]) \cup {s[i]}
      BY <1>5, <2>1, <2>2, <2>5, <3>1, RisingAppend
    <3> QED
      BY <1>5, <2>3, <2>5, <3>2
  <2>6. CASE s[i] \notin S
    BY <1>5, <2>1, <2>3, <2>6
  <2> QED
    BY <2>5, <2>6
<1>6. Bad = {}
  <2> SUFFICES ASSUME Bad # {} PROVE FALSE
    OBVIOUS
  <2> HIDE DEF Good
  <2>1. Bad \in SUBSET Nat
    OBVIOUS
  <2>2. PICK i \in Bad : \A j \in Bad : i <= j
    BY <2>1, LeastOf
  <2>3. i # 0
    BY <1>4, <2>2
  <2>4. i - 1 \in 0 .. Len(s) /\ ~(i <= i - 1)
    BY <1>0, <2>2, <2>3
  <2>5. Good(i - 1)
    BY <2>2, <2>4
  <2> QED
    BY <1>5, <2>2, <2>3, <2>5
<1>7. Good(Len(s))
  <2>1. Len(s) \in 0 .. Len(s)
    BY <1>0
  <2> HIDE DEF Good
  <2> QED
    BY <1>6, <2>1
<1> QED
  BY <1>2, <1>7 DEF Of

-----------------------------------------------------------------------------
(* The invariant. *)

Asks ==
    /\ asked \in Seq([key : Key, mode : Mode])
    /\ told \in Seq(Told) /\ Len(told) = Len(asked)

\* The writes of a key that had no answer.
Unanswered(k) == {n \in Task : asked[n].key = k /\ told[n] = "nothing"}

\* They are in its line, in the order they were asked for, or in flight.
Filed ==
    /\ line \in [Key -> Seq(Nat)] /\ flight \in [Key -> SUBSET Nat]
    /\ \A k \in Key : /\ Rising(line[k])
                      /\ Of(line[k]) = Unanswered(k) \ flight[k]
                      /\ flight[k] \subseteq Unanswered(k)

\* A key is taken for the one write of it that is in flight, and has a line only then.
OneInFlight ==
    /\ running \subseteq Key
    /\ \A k \in Key : /\ k \in running <=> flight[k] # {}
                      /\ Of(line[k]) # {} => flight[k] # {}
                      /\ \A m, n \in flight[k] : m = n

\* The tasks in mid-call and what is on disk were asked for; idle waits for taken keys.
Rest ==
    /\ breath \in Seq(Nat) /\ Of(breath) \cup saved \subseteq Task
    /\ idler \in {"none", "waiting", "done"} /\ awaited \subseteq running

IInv == Asks /\ Filed /\ OneInFlight

LEMMA AtItsPlace == ASSUME NEW S, NEW s \in Seq(S), NEW n \in 1 .. Len(s) PROVE s[n] \in S
OBVIOUS

LEMMA EmptyLine == ASSUME NEW s \in Seq(Nat) PROVE s = <<>> <=> Of(s) = {}
<1>1. Len(s) \in Nat /\ (s = <<>> <=> Len(s) = 0)
  OBVIOUS
<1>2. Len(s) # 0 => 1 \in 1 .. Len(s)
  BY <1>1
<1>3. Len(s) = 0 => 1 .. Len(s) = {}
  BY <1>1
<1> QED
  BY <1>1, <1>2, <1>3 DEF Of

LEMMA ToSetIsOf == ASSUME NEW s \in Seq(Nat) PROVE ToSet(s) = Of(s)
BY DEF ToSet, Of

\* Lanes counts as the queue does, and means by the least what it seems to.
LEMMA SameCount == ASSUME NEW S PROVE L!Cardinality(S) = Cardinality(S)
BY DEF L!Cardinality, Cardinality

LEMMA LeastIs ==
    ASSUME NEW S \in SUBSET Nat, NEW x \in S, \A y \in S : x <= y
    PROVE  L!Min(S) = x
<1> DEFINE m == CHOOSE z \in S : \A y \in S : z <= y
<1>1. m \in S /\ \A y \in S : m <= y
  OBVIOUS
<1>2. m \in Nat /\ x \in Nat /\ m <= x /\ x <= m
  BY <1>1
<1>3. L!Min(S) = m
  BY DEF L!Min
<1> HIDE DEF m
<1> QED
  BY <1>2, <1>3

\* What callers see of a lane.
LEMMA Seen ==
    ASSUME IInv, NEW k \in Key
    PROVE  /\ L!Waiting(k) = Of(line[k])
           /\ L!Wholes(k) = {w \in Of(line[k]) : asked[w].mode = "replace"}
           /\ L!Edits(k) = {w \in Of(line[k]) : asked[w].mode # "replace"}
           /\ L!Free(k) <=> k \notin running
<1> DEFINE R == UNION {flight[j] : j \in Key}
<1>1. \A n \in R : \E j \in Key : n \in flight[j] /\ n \in Unanswered(j)
  BY DEF IInv, Filed
<1>2. \A n \in R : asked[n].key = k => n \in flight[k]
  BY <1>1 DEF Unanswered
<1>3. \A n \in flight[k] : n \in R /\ asked[n].key = k
  BY DEF IInv, Filed, Unanswered
<1> HIDE DEF R
<1>4. Unanswered(k) \ R = Unanswered(k) \ flight[k]
  BY <1>2, <1>3 DEF Unanswered
<1>5. L!Waiting(k) = Unanswered(k) \ R
  BY DEF L!Waiting, Unanswered, L!Task, Task, R
<1>6. L!Waiting(k) = Of(line[k])
  BY <1>4, <1>5 DEF IInv, Filed
<1>7. L!Free(k) <=> \A n \in R : asked[n].key # k
  BY DEF L!Free, R
<1>8. L!Free(k) <=> flight[k] = {}
  BY <1>2, <1>3, <1>7
<1> QED
  BY <1>6, <1>8 DEF L!Wholes, L!Edits, IInv, OneInFlight

\* The edits of a line.
LEMMA EditsOfALine ==
    ASSUME IInv, NEW k \in Key
    PROVE  /\ Appended(k) \in Seq(Nat) /\ Rising(Appended(k))
           /\ Of(Appended(k)) = {w \in Of(line[k]) : asked[w].mode # "replace"}
           /\ L!Cardinality(L!Edits(k)) = Len(Appended(k))
<1> DEFINE S == {n \in Task : asked[n].mode # "replace"}
<1>1. line[k] \in Seq(Nat) /\ Rising(line[k])
  BY DEF IInv, Filed
<1>2. Only(line[k], S) \in Seq(Nat) /\ Rising(Only(line[k], S)) /\ Of(Only(line[k], S)) = Of(line[k]) \cap S
  <2> HIDE DEF S
  <2> QED
    BY <1>1, OnlyRises
<1>3. Of(line[k]) \subseteq Task
  BY DEF IInv, Filed, Unanswered
<1>4. Of(line[k]) \cap S = {w \in Of(line[k]) : asked[w].mode # "replace"}
  BY <1>3
<1>5. Appended(k) = Only(line[k], S)
  BY DEF Appended
<1> HIDE DEF S
<1>6. Cardinality(Of(Appended(k))) = Len(Appended(k))
  BY <1>2, <1>5, RisingCounts
<1> QED
  BY <1>2, <1>4, <1>5, <1>6, Seen, SameCount

-----------------------------------------------------------------------------
(* The steps. *)

\* One more is asked for.
LEMMA OneMore ==
    ASSUME Asks, NEW k \in Key, NEW mode \in Mode, asked' = Append(asked, [key |-> k, mode |-> mode])
    PROVE  /\ asked' \in Seq([key : Key, mode : Mode]) /\ Len(asked') = Len(asked) + 1 /\ Len(asked) \in Nat
           /\ Task' = Task \cup {Len(asked) + 1} /\ Len(asked) + 1 \notin Task /\ Task \subseteq Nat
           /\ \A m \in Task : asked'[m] = asked[m]
           /\ asked'[Len(asked) + 1].key = k /\ asked'[Len(asked) + 1].mode = mode
<1> DEFINE r == [key |-> k, mode |-> mode]
<1>1. asked \in Seq([key : Key, mode : Mode]) /\ r \in [key : Key, mode : Mode] /\ r.key = k /\ r.mode = mode
  BY DEF Asks
<1>2. asked' = Append(asked, r)
  OBVIOUS
<1> HIDE DEF r
<1>3. /\ asked' \in Seq([key : Key, mode : Mode]) /\ Len(asked') = Len(asked) + 1 /\ Len(asked) \in Nat
      /\ asked'[Len(asked) + 1] = r
      /\ \A m \in 1 .. Len(asked) : asked'[m] = asked[m]
  BY <1>1, <1>2
<1>4. 1 .. Len(asked') = 1 .. Len(asked) \cup {Len(asked) + 1}
  BY <1>3
<1> QED
  BY <1>1, <1>3, <1>4 DEF Task

LEMMA RefuseStep ==
    ASSUME IInv, NEW k \in Key, NEW mode \in Mode, Len(asked) < MaxTasks,
           asked' = Append(asked, [key |-> k, mode |-> mode]), ~HasRoom(k, mode), Refuse,
           UNCHANGED <<saved, idler, awaited>>
    PROVE  IInv' /\ L!Refuse(k, mode)
<1> USE WriteQueueAssumption
<1>1. Len(told) = Len(asked) /\ told \in Seq(Told)
  BY DEF IInv, Asks
<1>2. /\ told' \in Seq(Told) /\ Len(told') = Len(told) + 1 /\ told'[Len(told) + 1] = "refused"
      /\ \A m \in 1 .. Len(told) : told'[m] = told[m]
  BY <1>1 DEF Refuse, Told
<1>3. UNCHANGED <<line, flight, running>>
  BY DEF Refuse
<1>4. Asks'
  BY <1>1, <1>2, OneMore DEF IInv, Asks
<1>5. ASSUME NEW j \in Key PROVE Unanswered(j)' = Unanswered(j)
  <2>1. \A m \in Task : told'[m] = told[m] /\ asked'[m] = asked[m]
    BY <1>1, <1>2, OneMore DEF IInv, Task
  <2>2. Task' = Task \cup {Len(asked) + 1} /\ told'[Len(asked) + 1] = "refused"
    BY <1>1, <1>2, OneMore DEF IInv
  <2> QED
    BY <2>1, <2>2 DEF Unanswered
<1>6. Filed' /\ OneInFlight'
  <2>1. Filed'
    BY <1>3, <1>5 DEF IInv, Filed
  <2>2. OneInFlight'
    BY <1>3 DEF IInv, OneInFlight
  <2> QED
    BY <2>1, <2>2
<1>7. \/ mode = "append" /\ Len(Appended(k)) >= Cap
      \/ mode = "shared" /\ Len(Appended(k)) >= Cap \div 2
  <2>1. Len(Appended(k)) \in Nat
    BY EditsOfALine
  <2>2. Cap \in Nat /\ Cap \div 2 \in Int
    BY DEF WriteQueueAssumption
  <2> QED
    BY <2>1, <2>2 DEF HasRoom, Mode
<1>8. L!Refuse(k, mode)
  <2>1. L!Cardinality(L!Edits(k)) = Len(Appended(k))
    BY EditsOfALine
  <2>2. L!Asked(k, mode)
    BY DEF L!Asked
  <2>3. UNCHANGED UNION {flight[j] : j \in Key}
    BY <1>3
  <2> QED
    BY <1>7, <2>1, <2>2, <2>3 DEF L!Refuse, Refuse
<1> QED
  BY <1>4, <1>6, <1>8 DEF IInv

\* What a write that joins a lane does to what callers see of it.
LEMMA JoinSeen ==
    ASSUME IInv, NEW k \in Key, NEW mode \in Mode,
           asked' = Append(asked, [key |-> k, mode |-> mode]), Join(k, mode)
    PROVE  /\ Asks'
           /\ \A j \in Key : j # k => Unanswered(j)' = Unanswered(j)
           /\ Unanswered(k)' = (flight[k] \cup Of(Kept(k, mode))) \cup {Len(asked) + 1}
           /\ Kept(k, mode) \in Seq(Nat) /\ Rising(Kept(k, mode))
           /\ Of(Kept(k, mode)) \subseteq Of(line[k])
<1> DEFINE n == Len(asked) + 1
           out == IF mode = "replace"
                  THEN {w \in ToSet(line[k]) : asked[w].mode = "replace"} ELSE {}
<1>1. /\ Task' = Task \cup {n} /\ n \notin Task /\ \A m \in Task : asked'[m] = asked[m]
      /\ asked'[n].key = k /\ n \in Nat /\ 1 .. n = Task'
  BY OneMore DEF IInv, Task
<1>2. line[k] \in Seq(Nat) /\ Rising(line[k]) /\ Of(line[k]) = Unanswered(k) \ flight[k]
      /\ flight[k] \subseteq Unanswered(k)
  BY DEF IInv, Filed
<1>3. out = IF mode = "replace" THEN {w \in Of(line[k]) : asked[w].mode = "replace"} ELSE {}
  BY <1>2, ToSetIsOf
<1>4. told' = [w \in 1 .. n |-> IF w = n THEN "nothing" ELSE IF w \in out THEN "superseded" ELSE told[w]]
  BY DEF Join
<1> HIDE DEF out, n
<1>5. out \subseteq Of(line[k]) /\ Of(line[k]) \subseteq Task
  BY <1>2, <1>3 DEF Unanswered
<1>6. told'[n] = "nothing" /\ \A m \in Task : told'[m] = IF m \in out THEN "superseded" ELSE told[m]
  BY <1>1, <1>4
<1>7. Asks'
  <2>1. told \in [Task -> Told]
    BY DEF IInv, Asks, Task
  <2>2. told' \in [1 .. n -> Told]
    BY <1>1, <1>4, <2>1 DEF Told
  <2>3. told' \in Seq(Told) /\ Len(told') = n
    BY <1>1, <2>2
  <2>4. asked' \in Seq([key : Key, mode : Mode]) /\ Len(asked') = n
    BY OneMore DEF IInv, n
  <2> QED
    BY <2>3, <2>4 DEF Asks
<1>8. ASSUME NEW j \in Key, j # k PROVE Unanswered(j)' = Unanswered(j)
  <2>1. \A w \in out : asked[w].key = k
    BY <1>2, <1>5 DEF Unanswered
  <2> QED
    BY <1>1, <1>6, <1>8, <2>1 DEF Unanswered
<1>9. /\ Kept(k, mode) \in Seq(Nat) /\ Rising(Kept(k, mode))
      /\ Of(Kept(k, mode)) = Of(line[k]) \ out
  <2>1. CASE mode = "replace"
    <3>1. Kept(k, mode) = Appended(k)
      BY <2>1 DEF Kept
    <3>2. Of(Appended(k)) = Of(line[k]) \ out
      BY <1>3, <2>1, EditsOfALine
    <3> QED
      BY <3>1, <3>2, EditsOfALine
  <2>2. CASE mode # "replace"
    BY <1>2, <1>3, <2>2 DEF Kept
  <2> QED
    BY <2>1, <2>2
<1>10. Unanswered(k)' = (flight[k] \cup (Of(line[k]) \ out)) \cup {n}
  <2>1. \A w \in out : w \notin flight[k]
    BY <1>2, <1>5
  <2> QED
    <3>1. \A m \in Task : /\ asked'[m].key = k <=> asked[m].key = k
                         /\ told'[m] = "nothing" <=> told[m] = "nothing" /\ m \notin out
      BY <1>1, <1>6
    <3>2. Unanswered(k)' = (Unanswered(k) \ out) \cup {n}
      BY <1>1, <1>6, <3>1 DEF Unanswered
    <3> QED
      BY <1>2, <2>1, <3>2
<1> QED
  BY <1>7, <1>8, <1>9, <1>10 DEF n

LEMMA JoinStep ==
    ASSUME IInv, NEW k \in Key, NEW mode \in Mode, Len(asked) < MaxTasks,
           asked' = Append(asked, [key |-> k, mode |-> mode]), HasRoom(k, mode), Join(k, mode),
           UNCHANGED <<saved, idler, awaited>>
    PROVE  IInv' /\ L!Accept(k, mode)
<1> DEFINE n == Len(asked) + 1
<1>1. /\ Asks'
      /\ \A j \in Key : j # k => Unanswered(j)' = Unanswered(j)
      /\ Unanswered(k)' = (flight[k] \cup Of(Kept(k, mode))) \cup {n}
      /\ Kept(k, mode) \in Seq(Nat) /\ Rising(Kept(k, mode))
      /\ Of(Kept(k, mode)) \subseteq Of(line[k])
  BY JoinSeen
<1>2. n \in Nat /\ \A m \in Task : m < n
  BY OneMore DEF IInv, Task
<1>3. /\ line \in [Key -> Seq(Nat)] /\ flight \in [Key -> SUBSET Nat]
      /\ Of(line[k]) = Unanswered(k) \ flight[k] /\ flight[k] \subseteq Unanswered(k)
      /\ \A j \in Key : Unanswered(j) \subseteq Task
  BY DEF IInv, Filed, Unanswered
<1>4. \A m \in Of(line[k]) \cup flight[k] : m < n
  BY <1>2, <1>3
<1> HIDE DEF n
<1>5. CASE k \in running
  <2>1. line' = [line EXCEPT ![k] = Append(Kept(k, mode), n)] /\ UNCHANGED <<flight, running>>
    BY <1>5 DEF Join, n
  <2>2. /\ Append(Kept(k, mode), n) \in Seq(Nat) /\ Rising(Append(Kept(k, mode), n))
        /\ Of(Append(Kept(k, mode), n)) = Of(Kept(k, mode)) \cup {n}
    BY <1>1, <1>2, <1>4, RisingAppend
  <2>3. /\ line'[k] = Append(Kept(k, mode), n) /\ \A j \in Key : j # k => line'[j] = line[j]
        /\ line' \in [Key -> Seq(Nat)]
    BY <1>3, <2>1, <2>2
  <2>4. n \notin flight[k]
    BY <1>2, <1>3
  <2>5. Of(line'[k]) = Unanswered(k)' \ flight[k] /\ flight[k] \subseteq Unanswered(k)'
    BY <1>1, <1>3, <2>2, <2>3, <2>4
  <2>6. Filed'
    <3>1. ASSUME NEW j \in Key, j # k
          PROVE  /\ Rising(line'[j]) /\ Of(line'[j]) = Unanswered(j)' \ flight[j]
                 /\ flight[j] \subseteq Unanswered(j)'
      BY <1>1, <2>3, <3>1 DEF IInv, Filed
    <3>2. Rising(line'[k])
      BY <2>2, <2>3
    <3> QED
      BY <1>3, <2>1, <2>3, <2>5, <3>1, <3>2 DEF Filed
  <2>7. OneInFlight'
    <3>1. flight[k] # {}
      BY <1>5 DEF IInv, OneInFlight
    <3>2. \A j \in Key : Of(line'[j]) # {} => flight[j] # {}
      BY <2>3, <3>1 DEF IInv, OneInFlight
    <3> QED
      BY <2>1, <3>2 DEF IInv, OneInFlight
  <2>8. L!Accept(k, mode)
    <3>1. ~L!Free(k)
      BY <1>5, Seen
    <3>2. (IF mode = "replace" THEN L!Wholes(k) ELSE {})
            = (IF mode = "replace" THEN {w \in ToSet(line[k]) : asked[w].mode = "replace"} ELSE {})
      BY <1>3, Seen, ToSetIsOf
    <3>3. L!Asked(k, mode)
      BY DEF L!Asked
    <3>4. UNCHANGED UNION {flight[j] : j \in Key}
      BY <2>1
    <3> QED
      BY <3>1, <3>2, <3>3, <3>4 DEF L!Accept, Join
  <2> QED
    BY <1>1, <2>6, <2>7, <2>8 DEF IInv
<1>6. CASE k \notin running
  <2>1. /\ flight' = [flight EXCEPT ![k] = @ \cup {n}] /\ running' = running \cup {k}
        /\ UNCHANGED line
    BY <1>6 DEF Join, n, Claimed
  <2>2. flight[k] = {} /\ Of(line[k]) = {}
    BY <1>6 DEF IInv, OneInFlight
  <2>3. /\ flight'[k] = {n} /\ \A j \in Key : j # k => flight'[j] = flight[j]
        /\ flight' \in [Key -> SUBSET Nat]
    BY <1>2, <1>3, <2>1, <2>2
  <2>4. Unanswered(k)' = {n}
    BY <1>1, <2>2
  <2>5. Filed'
    <3>1. ASSUME NEW j \in Key, j # k
          PROVE  /\ Rising(line[j]) /\ Of(line[j]) = Unanswered(j)' \ flight'[j]
                 /\ flight'[j] \subseteq Unanswered(j)'
      BY <1>1, <2>3, <3>1 DEF IInv, Filed
    <3>2. /\ Rising(line[k]) /\ Of(line[k]) = Unanswered(k)' \ flight'[k]
          /\ flight'[k] \subseteq Unanswered(k)'
      BY <2>2, <2>3, <2>4 DEF IInv, Filed
    <3> QED
      BY <1>3, <2>1, <2>3, <3>1, <3>2 DEF Filed
  <2>6. OneInFlight'
    <3>1. running' \subseteq Key /\ \A j \in Key : j \in running' <=> flight'[j] # {}
      BY <2>1, <2>3 DEF IInv, OneInFlight
    <3>2. \A j \in Key : Of(line[j]) # {} => flight'[j] # {}
      BY <2>3 DEF IInv, OneInFlight
    <3>3. \A j \in Key : \A m, w \in flight'[j] : m = w
      BY <2>3 DEF IInv, OneInFlight
    <3> QED
      BY <2>1, <3>1, <3>2, <3>3 DEF OneInFlight
  <2>7. L!Accept(k, mode)
    <3>1. L!Free(k)
      BY <1>6, Seen
    <3>2. (IF mode = "replace" THEN L!Wholes(k) ELSE {})
            = (IF mode = "replace" THEN {w \in ToSet(line[k]) : asked[w].mode = "replace"} ELSE {})
      BY <1>3, Seen, ToSetIsOf
    <3>3. L!Asked(k, mode)
      BY DEF L!Asked
    <3>4. (UNION {flight[j] : j \in Key})' = (UNION {flight[j] : j \in Key}) \cup {n}
      <4>1. ASSUME NEW j \in Key, NEW x \in flight'[j]
            PROVE  x = n \/ \E i \in Key : x \in flight[i]
        BY <2>3
      <4>2. ASSUME NEW j \in Key, NEW x \in flight[j] PROVE \E i \in Key : x \in flight'[i]
        BY <2>2, <2>3
      <4>3. n \in flight'[k]
        BY <2>3
      <4> DEFINE U == UNION {flight[j] : j \in Key}
                 V == UNION {flight'[j] : j \in Key}
      <4>4. /\ \A x : x \in U <=> \E j \in Key : x \in flight[j]
            /\ \A x : x \in V <=> \E j \in Key : x \in flight'[j]
        OBVIOUS
      <4> HIDE DEF U, V
      <4>5. V = U \cup {n}
        BY <4>1, <4>2, <4>3, <4>4
      <4> QED
        BY <4>5 DEF U, V
    <3>5. told' = [w \in 1 .. n |-> IF w = n THEN "nothing"
                     ELSE IF w \in (IF mode = "replace" THEN L!Wholes(k) ELSE {})
                          THEN "superseded" ELSE told[w]]
      BY <3>2 DEF Join, n
    <3> QED
      BY <3>1, <3>3, <3>4, <3>5 DEF L!Accept, n
  <2> QED
    BY <1>1, <2>5, <2>6, <2>7 DEF IInv
<1> QED
  BY <1>5, <1>6

\* What the end of a write does to what callers see of it.
LEMMA EndSeen ==
    ASSUME IInv, NEW k \in Key, NEW n \in flight[k], NEW ok \in BOOLEAN, Ends(k, n, ok)
    PROVE  /\ Asks' /\ flight[k] = {n} /\ n \in Task /\ asked[n].key = k
           /\ \A j \in Key : j # k => Unanswered(j)' = Unanswered(j)
           /\ Unanswered(k)' = Of(line[k])
           /\ \E verdict \in {"saved", "failed"} : told' = [told EXCEPT ![n] = verdict]
<1>1. PICK verdict \in {"saved", "failed"} : told' = [told EXCEPT ![n] = verdict]
  BY DEF Ends
<1>2. UNCHANGED asked
  BY DEF Ends
<1>3. /\ Of(line[k]) = Unanswered(k) \ flight[k] /\ flight[k] \subseteq Unanswered(k)
      /\ \A m, w \in flight[k] : m = w
  BY DEF IInv, Filed, OneInFlight
<1>4. flight[k] = {n} /\ n \in Task /\ asked[n].key = k
  BY <1>3 DEF Unanswered
<1>5. told \in [Task -> Told] /\ Len(asked) \in Nat /\ Task = 1 .. Len(asked)
  BY DEF IInv, Asks, Task
<1>6. told' \in [Task -> Told] /\ \A m \in Task : told'[m] = IF m = n THEN verdict ELSE told[m]
  BY <1>1, <1>4, <1>5 DEF Told
<1>7. Asks'
  <2>1. told' \in Seq(Told) /\ Len(told') = Len(asked)
    BY <1>5, <1>6
  <2> QED
    BY <1>2, <2>1 DEF IInv, Asks
<1>8. Task' = Task
  BY <1>2 DEF Task
<1>9. \A j \in Key : Unanswered(j)' = Unanswered(j) \ {n}
  BY <1>2, <1>6, <1>8 DEF Unanswered
<1>10. \A j \in Key : j # k => n \notin Unanswered(j)
  BY <1>4 DEF Unanswered
<1>11. \A j \in Key : j # k => Unanswered(j)' = Unanswered(j)
  BY <1>9, <1>10
<1>12. Unanswered(k)' = Of(line[k])
  BY <1>3, <1>4, <1>9
<1> QED
  BY <1>1, <1>4, <1>7, <1>11, <1>12

\* Those in flight, when a write of a key gives way to those of a set.
LEMMA InFlightThen ==
    ASSUME IInv, NEW k \in Key, NEW n, flight[k] = {n}, NEW S,
           flight'[k] = S, \A j \in Key : j # k => flight'[j] = flight[j]
    PROVE  (UNION {flight[j] : j \in Key})' = ((UNION {flight[j] : j \in Key}) \ {n}) \cup S
<1> DEFINE U == UNION {flight[j] : j \in Key}
           V == UNION {flight'[j] : j \in Key}
<1>1. /\ \A x : x \in U <=> \E j \in Key : x \in flight[j]
      /\ \A x : x \in V <=> \E j \in Key : x \in flight'[j]
  OBVIOUS
<1>2. \A j \in Key : j # k => n \notin flight[j]
  BY DEF IInv, Filed, Unanswered
<1> HIDE DEF U, V
<1>3. ASSUME NEW x \in V PROVE x \in (U \ {n}) \cup S
  BY <1>1, <1>2, <1>3
<1>4. ASSUME NEW x \in (U \ {n}) \cup S PROVE x \in V
  BY <1>1, <1>2, <1>4
<1>5. V = (U \ {n}) \cup S
  BY <1>3, <1>4
<1> QED
  BY <1>5 DEF U, V

LEMMA EndStep ==
    ASSUME IInv, NEW k \in Key, NEW n \in flight[k], NEW ok \in BOOLEAN, Ends(k, n, ok)
    PROVE  IInv' /\ \E w \in UNION {flight[j] : j \in Key} : L!End(w)
<1>1. /\ Asks' /\ flight[k] = {n} /\ n \in Task /\ asked[n].key = k
      /\ \A j \in Key : j # k => Unanswered(j)' = Unanswered(j)
      /\ Unanswered(k)' = Of(line[k])
      /\ \E verdict \in {"saved", "failed"} : told' = [told EXCEPT ![n] = verdict]
  BY EndSeen
<1>2. /\ line \in [Key -> Seq(Nat)] /\ flight \in [Key -> SUBSET Nat]
      /\ Rising(line[k]) /\ Of(line[k]) \subseteq Nat
      /\ line[k] = <<>> <=> Of(line[k]) = {}
  <2>1. line \in [Key -> Seq(Nat)] /\ flight \in [Key -> SUBSET Nat] /\ Rising(line[k])
    BY DEF IInv, Filed
  <2>2. Of(line[k]) \subseteq Nat
    BY <2>1 DEF Of
  <2> QED
    BY <2>1, <2>2, EmptyLine
<1>3. UNCHANGED <<asked, idler>>
  BY DEF Ends
<1> DEFINE next == IF Of(line[k]) = {} THEN {} ELSE {L!Min(Of(line[k]))}
<1>4. ASSUME line[k] # <<>>
      PROVE  IInv' /\ flight'[k] = next /\ \A j \in Key : j # k => flight'[j] = flight[j]
  <2> DEFINE h == Head(line[k])
  <2>1. /\ line' = [line EXCEPT ![k] = Tail(@)]
        /\ flight' = [flight EXCEPT ![k] = (@ \ {n}) \cup {h}]
        /\ UNCHANGED <<running, awaited>>
    BY <1>4 DEF Ends, DrainsOn
  <2>2. /\ h \in Of(line[k]) /\ \A m \in Of(line[k]) : h <= m
        /\ Tail(line[k]) \in Seq(Nat) /\ Rising(Tail(line[k])) /\ Of(Tail(line[k])) = Of(line[k]) \ {h}
    BY <1>2, <1>4, RisingTail
  <2> HIDE DEF h
  <2>3. /\ line'[k] = Tail(line[k]) /\ flight'[k] = {h}
        /\ \A j \in Key : j # k => line'[j] = line[j] /\ flight'[j] = flight[j]
        /\ line' \in [Key -> Seq(Nat)] /\ flight' \in [Key -> SUBSET Nat]
    BY <1>1, <1>2, <2>1, <2>2
  <2>4. flight'[k] = next
    BY <1>2, <2>2, <2>3, LeastIs
  <2>5. Filed'
    <3>1. ASSUME NEW j \in Key, j # k
          PROVE  /\ Rising(line'[j]) /\ Of(line'[j]) = Unanswered(j)' \ flight'[j]
                 /\ flight'[j] \subseteq Unanswered(j)'
      BY <1>1, <2>3, <3>1 DEF IInv, Filed
    <3>2. /\ Rising(line'[k]) /\ Of(line'[k]) = Unanswered(k)' \ flight'[k]
          /\ flight'[k] \subseteq Unanswered(k)'
      BY <1>1, <2>2, <2>3
    <3> QED
      BY <2>3, <3>1, <3>2 DEF Filed
  <2>6. OneInFlight'
    <3>1. \A j \in Key : j \in running <=> flight'[j] # {}
      BY <1>1, <2>3 DEF IInv, OneInFlight
    <3>2. \A j \in Key : Of(line'[j]) # {} => flight'[j] # {}
      BY <2>3 DEF IInv, OneInFlight
    <3>3. ASSUME NEW j \in Key, NEW m \in flight'[j], NEW w \in flight'[j] PROVE m = w
      <4>1. CASE j = k
        BY <2>3, <4>1
      <4>2. CASE j # k
        <5>1. m \in flight[j] /\ w \in flight[j]
          BY <2>3, <4>2
        <5> QED
          BY <5>1 DEF IInv, OneInFlight
      <4> QED
        BY <4>1, <4>2
    <3> QED
      BY <2>1, <3>1, <3>2, <3>3 DEF IInv, OneInFlight
  <2> QED
    BY <1>1, <2>3, <2>4, <2>5, <2>6 DEF IInv
<1>5. ASSUME line[k] = <<>>
      PROVE  IInv' /\ flight'[k] = next /\ \A j \in Key : j # k => flight'[j] = flight[j]
  <2>1. /\ flight' = [flight EXCEPT ![k] = @ \ {n}] /\ running' = running \ {k}
        /\ UNCHANGED line
    BY <1>5 DEF Ends, DrainsOn
  <2>2. Of(line[k]) = {}
    BY <1>2, <1>5
  <2>3. /\ flight'[k] = {} /\ \A j \in Key : j # k => flight'[j] = flight[j]
        /\ flight' \in [Key -> SUBSET Nat]
    BY <1>1, <1>2, <2>1
  <2>4. Filed'
    <3>1. ASSUME NEW j \in Key, j # k
          PROVE  /\ Rising(line[j]) /\ Of(line[j]) = Unanswered(j)' \ flight'[j]
                 /\ flight'[j] \subseteq Unanswered(j)'
      BY <1>1, <2>3, <3>1 DEF IInv, Filed
    <3>2. /\ Rising(line[k]) /\ Of(line[k]) = Unanswered(k)' \ flight'[k]
          /\ flight'[k] \subseteq Unanswered(k)'
      BY <1>1, <1>2, <2>3
    <3> QED
      BY <1>2, <2>1, <2>3, <3>1, <3>2 DEF Filed
  <2>5. OneInFlight'
    <3>1. running' \subseteq Key /\ \A j \in Key : j \in running' <=> flight'[j] # {}
      BY <2>1, <2>3 DEF IInv, OneInFlight
    <3>2. \A j \in Key : Of(line[j]) # {} => flight'[j] # {}
      BY <2>2, <2>3 DEF IInv, OneInFlight
    <3>3. \A j \in Key : \A m, w \in flight'[j] : m = w
      BY <2>3 DEF IInv, OneInFlight
    <3> QED
      BY <2>1, <3>1, <3>2, <3>3 DEF OneInFlight
  <2> QED
    BY <1>1, <2>2, <2>3, <2>4, <2>5 DEF IInv
<1>6. IInv' /\ flight'[k] = next /\ \A j \in Key : j # k => flight'[j] = flight[j]
  BY <1>4, <1>5
<1> HIDE DEF next
<1>7. (UNION {flight[j] : j \in Key})' = ((UNION {flight[j] : j \in Key}) \ {n}) \cup next
  BY <1>1, <1>6, InFlightThen
<1>8. L!Waiting(asked[n].key) = Of(line[k])
  BY <1>1, Seen
<1>9. L!End(n)
  <2>1. n \in UNION {flight[j] : j \in Key}
    BY <1>1
  <2>2. next = IF L!Waiting(asked[n].key) = {} THEN {} ELSE {L!Min(L!Waiting(asked[n].key))}
    BY <1>8 DEF next
  <2> QED
    BY <1>1, <1>3, <1>7, <2>1, <2>2 DEF L!End
<1> QED
  BY <1>6, <1>9

LEMMA IdleStep ==
    ASSUME IInv, IdleWakes PROVE L!IdleDone \/ UNCHANGED L!vars
<1>1. UNCHANGED UNION {flight[j] : j \in Key}
  BY DEF IdleWakes
<1>2. CASE Quiet
  <2>1. ASSUME NEW n \in Task PROVE told[n] # "nothing"
    <3>1. asked[n].key \in Key
      <4>1. asked \in Seq([key : Key, mode : Mode]) /\ n \in 1 .. Len(asked)
        BY DEF IInv, Asks, Task
      <4>2. asked[n] \in [key : Key, mode : Mode]
        BY <4>1, AtItsPlace
      <4> QED
        BY <4>2
    <3>2. PICK k \in Key : k = asked[n].key
      BY <3>1
    <3>3. flight[k] = {} /\ Of(line[k]) = {}
      BY <1>2 DEF Quiet, IInv, OneInFlight
    <3>4. Unanswered(k) = {}
      BY <3>3 DEF IInv, Filed
    <3> QED
      BY <3>2, <3>4 DEF Unanswered
  <2> QED
    BY <1>1, <1>2, <2>1 DEF IdleWakes, L!IdleDone, L!Task, Task
<1>3. CASE ~Quiet
  BY <1>1, <1>3 DEF IdleWakes, L!vars
<1> QED
  BY <1>2, <1>3

\* A step that leaves alone what the invariant is about.
LEMMA StillFiled == IInv /\ UNCHANGED <<asked, told, line, flight, running>> => IInv'
<1> SUFFICES ASSUME IInv, UNCHANGED <<asked, told, line, flight, running>> PROVE IInv'
  OBVIOUS
<1>1. Asks'
  BY DEF IInv, Asks
<1>2. Filed'
  <2>1. \A k \in Key : Unanswered(k)' = Unanswered(k)
    BY DEF Unanswered, Task
  <2> QED
    BY <2>1 DEF IInv, Filed
<1>3. OneInFlight'
  BY DEF IInv, OneInFlight
<1> QED
  BY <1>1, <1>2, <1>3 DEF IInv

LEMMA QueueStep == IInv /\ [Next]_vars => IInv' /\ [L!Next]_(L!vars)
<1> SUFFICES ASSUME IInv, [Next]_vars PROVE IInv' /\ [L!Next]_(L!vars)
  OBVIOUS
<1>1. ASSUME NEW k \in Key, NEW mode \in Mode, Ask(k, mode) PROVE IInv' /\ L!Next
  <2>1. L!Mode = Mode
    BY DEF L!Mode, Mode
  <2>2. IInv' /\ (L!Accept(k, mode) \/ L!Refuse(k, mode))
    <3>1. CASE HasRoom(k, mode)
      BY <1>1, <3>1, JoinStep DEF Ask
    <3>2. CASE ~HasRoom(k, mode)
      BY <1>1, <3>2, RefuseStep DEF Ask
    <3> QED
      BY <3>1, <3>2
  <2> QED
    BY <2>1, <2>2 DEF L!Next
<1>2. CASE Awaits
  <2>1. UNCHANGED <<asked, told, line, flight, running, idler>>
    BY <1>2 DEF Awaits, Claimed
  <2> QED
    BY <2>1, StillFiled DEF L!vars
<1>3. ASSUME NEW k \in Key, NEW n \in flight[k], NEW ok \in BOOLEAN, Ends(k, n, ok) PROVE IInv' /\ L!Next
  BY <1>3, EndStep DEF L!Next
<1>4. CASE CallIdle
  <2>1. IInv'
    BY <1>4, StillFiled DEF CallIdle
  <2>2. L!CallIdle
    <3>1. UNCHANGED UNION {flight[j] : j \in Key}
      BY <1>4 DEF CallIdle
    <3> QED
      BY <1>4, <3>1 DEF CallIdle, L!CallIdle
  <2> QED
    BY <2>1, <2>2 DEF L!Next
<1>5. CASE IdleWakes
  <2>1. IInv'
    BY <1>5, StillFiled DEF IdleWakes
  <2> QED
    BY <1>5, <2>1, IdleStep DEF L!Next
<1>6. CASE UNCHANGED vars
  <2>1. UNCHANGED <<asked, told, line, flight, running, idler>>
    BY <1>6 DEF vars
  <2> QED
    BY <2>1, StillFiled DEF L!vars
<1> QED
  BY <1>1, <1>2, <1>3, <1>4, <1>5, <1>6 DEF Next, Drains, Done

LEMMA QueueInit == Init => IInv /\ L!Init
<1> SUFFICES ASSUME Init PROVE IInv /\ L!Init
  OBVIOUS
<1>1. Task = {}
  BY DEF Init, Task
<1>2. Asks /\ Filed /\ OneInFlight
  <2>1. Len(<<>>) = 0 /\ 1 .. 0 = {}
    OBVIOUS
  <2> QED
    BY <1>1, <2>1 DEF Init, Asks, Filed, OneInFlight, Unanswered, Of, Rising
<1>3. UNION {flight[j] : j \in Key} = {}
  BY DEF Init
<1> QED
  BY <1>2, <1>3 DEF Init, IInv, L!Init

LEMMA RestStep == IInv /\ Rest /\ [Next]_vars => Rest'
<1> SUFFICES ASSUME IInv, Rest, [Next]_vars PROVE Rest'
  OBVIOUS
<1>0. /\ breath \in Seq(Nat) /\ Of(breath) \subseteq Task /\ saved \subseteq Task
      /\ idler \in {"none", "waiting", "done"} /\ awaited \subseteq running
  BY DEF Rest
<1>1. ASSUME NEW k \in Key, NEW mode \in Mode, Ask(k, mode) PROVE Rest'
  <2> DEFINE n == Len(asked) + 1
  <2>1. Task' = Task \cup {n} /\ n \in Nat
    BY <1>1, OneMore DEF Ask, IInv
  <2>2. breath' = breath \/ breath' = Append(breath, n)
    BY <1>1 DEF Ask, Join, Refuse
  <2>3. running \subseteq running' /\ UNCHANGED <<saved, idler, awaited>>
    BY <1>1 DEF Ask, Join, Refuse
  <2> HIDE DEF n
  <2>4. Append(breath, n) \in Seq(Nat) /\ Of(Append(breath, n)) \subseteq Of(breath) \cup {n}
    <3> DEFINE b == Append(breath, n)
    <3>1. /\ b \in Seq(Nat) /\ b[Len(breath) + 1] = n /\ \A i \in 1 .. Len(breath) : b[i] = breath[i]
          /\ 1 .. Len(b) = 1 .. Len(breath) \cup {Len(breath) + 1}
      BY <1>0, <2>1
    <3> HIDE DEF b
    <3>2. b \in Seq(Nat) /\ Of(b) \subseteq Of(breath) \cup {n}
      BY <3>1 DEF Of
    <3> QED
      BY <3>2 DEF b
  <2>5. breath' \in Seq(Nat) /\ Of(breath') \subseteq Task'
    BY <1>0, <2>1, <2>2, <2>4
  <2> QED
    BY <1>0, <2>1, <2>3, <2>5 DEF Rest
<1>2. CASE Awaits
  <2>1. breath # <<>> /\ breath' = SubSeq(breath, 1, Len(breath) - 1)
    BY <1>2 DEF Awaits, Front
  <2>2. Len(breath) \in Nat /\ Len(breath) # 0
    BY <1>0, <2>1
  <2>3. /\ breath' \in Seq(Nat) /\ Len(breath') = Len(breath) - 1
        /\ \A i \in 1 .. Len(breath) - 1 : breath'[i] = breath[i]
    <3>1. Len(breath) - 1 \in Nat /\ Len(breath) - 1 <= Len(breath)
      BY <2>2
    <3>2. SubSeq(breath, 1, Len(breath) - 1) = [i \in 1 .. Len(breath) - 1 |-> breath[i]]
      BY <1>0, <3>1
    <3>3. \A i \in 1 .. Len(breath) - 1 : i \in 1 .. Len(breath) /\ breath[i] \in Nat
      BY <1>0, <3>1
    <3> DEFINE most == Len(breath) - 1
    <3>4. breath' = [i \in 1 .. most |-> breath[i]] /\ most \in Nat
      BY <2>1, <3>1, <3>2
    <3>5. \A i \in 1 .. most : breath[i] \in Nat
      BY <3>3
    <3> HIDE DEF most
    <3>6. breath' \in Seq(Nat) /\ Len(breath') = most /\ \A i \in 1 .. most : breath'[i] = breath[i]
      BY <3>4, <3>5
    <3> QED
      BY <3>6 DEF most
  <2>4. 1 .. Len(breath) - 1 \subseteq 1 .. Len(breath)
    BY <2>2
  <2>5. Of(breath') \subseteq Of(breath)
    BY <2>3, <2>4 DEF Of
  <2>6. UNCHANGED <<asked, running, saved, idler, awaited>>
    BY <1>2 DEF Awaits, Claimed
  <2> QED
    BY <1>0, <2>3, <2>5, <2>6 DEF Rest, Task
<1>3. ASSUME NEW k \in Key, NEW n \in flight[k], NEW ok \in BOOLEAN, Ends(k, n, ok) PROVE Rest'
  <2>1. n \in Task
    BY <1>3, EndSeen
  <2>2. saved' \subseteq saved \cup SavedBy(n) /\ UNCHANGED <<asked, idler>>
    BY <1>3 DEF Ends
  <2>3. Len(asked) \in Nat /\ SavedBy(n) \subseteq Task
    <3>1. Len(asked) \in Nat
      BY DEF IInv, Asks
    <3>2. 1 .. n \subseteq Task
      BY <2>1, <3>1 DEF Task
    <3> QED
      BY <2>1, <3>1, <3>2 DEF SavedBy
  <2>4. awaited' \subseteq running'
    BY <1>0, <1>3 DEF Ends
  <2>5. breath' \in Seq(Nat) /\ Of(breath') \subseteq Task
    <3>1. CASE line[k] # <<>>
      <4>1. line[k] \in Seq(Nat) /\ Rising(line[k]) /\ Of(line[k]) \subseteq Task
        BY DEF IInv, Filed, Unanswered
      <4>2. Head(line[k]) \in Nat /\ Head(line[k]) \in Task
        BY <3>1, <4>1, RisingTail DEF Of
      <4>3. breath' = <<Head(line[k])>>
        BY <1>3, <3>1 DEF Ends, DrainsOn
      <4>4. breath' \in Seq(Nat) /\ Len(breath') = 1 /\ breath'[1] = Head(line[k]) /\ 1 .. 1 = {1}
        BY <4>2, <4>3
      <4> QED
        BY <4>2, <4>4 DEF Of
    <3>2. CASE line[k] = <<>>
      BY <1>0, <1>3, <3>2 DEF Ends, DrainsOn
    <3> QED
      BY <3>1, <3>2
  <2> QED
    BY <1>0, <2>2, <2>3, <2>4, <2>5 DEF Rest, Task
<1>4. CASE CallIdle
  BY <1>0, <1>4 DEF CallIdle, Rest, Task
<1>5. CASE IdleWakes
  BY <1>0, <1>5 DEF IdleWakes, Rest, Task
<1>6. CASE UNCHANGED vars
  BY <1>0, <1>6 DEF vars, Rest, Task
<1> QED
  BY <1>1, <1>2, <1>3, <1>4, <1>5, <1>6 DEF Next, Drains, Done

LEMMA TypesFollow == IInv /\ Rest => TypeOK
<1> SUFFICES ASSUME IInv, Rest PROVE TypeOK
  OBVIOUS
<1>1. told \in [Task -> Told]
  BY DEF IInv, Asks, Task
<1>2. \A k \in Key : line[k] \in Seq(Nat) /\ ToSet(line[k]) = Of(line[k])
  BY ToSetIsOf DEF IInv, Filed
<1>3. \A k \in Key : ToSet(line[k]) \cup flight[k] \subseteq {n \in Task : asked[n].key = k}
  BY <1>2 DEF IInv, Filed, Unanswered
<1>4. \A k \in Key : line[k] # <<>> \/ flight[k] # {} => k \in running
  BY <1>2, EmptyLine DEF IInv, OneInFlight
<1>5. ToSet(breath) \cup saved \subseteq Task
  BY ToSetIsOf DEF Rest
<1> QED
  BY <1>1, <1>3, <1>4, <1>5 DEF TypeOK, IInv, Asks, OneInFlight, Rest

-----------------------------------------------------------------------------
(* The theorems. *)

LEMMA QueueInv == Spec => [](IInv /\ Rest)
<1>1. Init => Rest
  <2>1. Len(<<>>) = 0 /\ 1 .. 0 = {} /\ <<>> \in Seq(Nat)
    OBVIOUS
  <2> QED
    BY <2>1 DEF Init, Rest, Of
<1> QED
  BY <1>1, QueueInit, QueueStep, RestStep, PTL DEF Spec

\* Types, and that a key with work is a key that is taken.
THEOREM TypesCorrect == Spec => []TypeOK
BY QueueInv, TypesFollow, PTL

\* To its callers the queue is Lanes: one write of a key at a time, in the order they
\* were asked for, nothing accepted dropped but what a newer whole replaces, the reader's
\* half kept, and idle when all is answered (writeQueue.ts:1-114, :174-242).
THEOREM QueueImplementsLanes == Spec => KeepsItsLanes
BY QueueInv, QueueInit, QueueStep, PTL DEF Spec, KeepsItsLanes, L!Spec

-----------------------------------------------------------------------------
(* The shelf: what holds of its lanes and its marker *)

\* What waits in the lane of a book.
BookTask == {"tick", "now", "repair"}

\* The tasks of the index's lane; the one under way is a push.
LaneTyped == indexLane \in Seq(IndexTask) /\ (at # "waiting" => indexLane # <<>> /\ Head(indexLane).does = "push")

NoMarks(q) == \A i \in 1 .. Len(q) : q[i].does # "mark"

\* The last marker of a lane names all these books.
LastMarks(q, D) ==
    \E i \in 1 .. Len(q) :
        /\ q[i].does = "mark" /\ D \subseteq q[i].names
        /\ \A j \in i + 1 .. Len(q) : q[j].does # "mark"

\* A rewrite of the index that has not taken its rows yet.
PushWaits == \E i \in 1 .. Len(indexLane) : indexLane[i].does = "push" /\ (at # "waiting" => i > 1)

Repairs(b) == \E i \in 1 .. Len(lane[b]) : lane[b][i] = "repair"

\* Whoever will rewrite the whole index, or throw it away.
Cure == doomed \/ PushWaits \/ \E b \in Book : Repairs(b)

Typed ==
    /\ record \in Values /\ row \in Values /\ snapshot \in Values /\ kept \in Values
    /\ index \in Values \cup {NoIndex}
    /\ marker \subseteq Book /\ dirty \subseteq Book
    /\ moved \in BOOLEAN /\ timer \in BOOLEAN /\ doomed \in BOOLEAN
    /\ lane \in [Book -> Seq(BookTask)] /\ LaneTyped
    /\ at \in {"waiting", "writing", "clearing", "restating"}
    /\ stage \in {"closed", "open", "flushed", "again", "drained"}
    /\ behind \subseteq Book /\ carried \subseteq behind /\ cut \subseteq Book /\ deaf \in BOOLEAN
    /\ spent \in [changes : Nat, fails : Nat, crashes : Nat]

\* Only a commit appends a marker, and a commit is of some book that repairs.
Tasks ==
    \A i \in 1 .. Len(indexLane) :
        /\ indexLane[i].does = "mark" => indexLane[i].by = "commit"
        /\ indexLane[i].by = "commit" => indexLane[i].of # {}

\* While nothing has failed nobody repairs, and there is an index.
Unhurt ==
    spent.fails = 0 =>
        /\ ~doomed /\ (Running => index # NoIndex)
        /\ \A b \in Book : ~Repairs(b)
        /\ \A i \in 1 .. Len(indexLane) : indexLane[i].by # "repair"

\* What a process leaves, whenever it ended: an index that is right about every
\* book its marker does not name, but those it left half done.
Shut ==
    ~Running =>
        /\ Idle /\ ~doomed /\ dirty = {} /\ at = "waiting"
        /\ \A b \in Book \ cut : index = NoIndex \/ b \in marker \/ index[b] = record[b]

\* A row differs from its record only while something waits in the book's lane.
Shown == Running => \A b \in Book \ cut : lane[b] = <<>> => row[b] = record[b]

\* Where the index is wrong about a book the book has work of its own, or landed
\* since the index last had it.
Known ==
    Running => \A b \in Book \ cut :
        index = NoIndex \/ index[b] = record[b] \/ lane[b] # <<>> \/ b \in behind

\* Where the write under way is wrong about a book, it landed since the write began.
Taken ==
    at = "writing" => \A b \in Book \ cut :
        snapshot[b] = record[b] \/ lane[b] # <<>> \/ b \in behind \ carried

\* Somebody will tell the index of a book: work of its own, a cure, the flush that its
\* place on the list stands for, or the write under way.
WillBeTold(b) ==
    index = NoIndex \/ lane[b] # <<>> \/ Cure \/ b \in dirty \/ (at = "writing" /\ b \in carried)

\* So it is of each book that landed, or the marker names it, unless a write failed that
\* nobody repairs or such a marker was written over; while nothing has failed it is so
\* without the marker.
Coming ==
    Running => \A b \in behind :
        /\ ~deaf => WillBeTold(b) \/ b \in marker
        /\ spent.fails = 0 => WillBeTold(b)

\* What landed since the write under way began: a later push has it, or the
\* generation moved and the book is still on the list.
Missed ==
    /\ at # "waiting" => \A b \in behind \ carried : lane[b] # <<>> \/ PushWaits \/ (moved /\ b \in dirty)
    /\ at # "writing" => carried = {}

\* The last marker that waits names the dirty list; with none waiting, the one on
\* disk does, or something will put the index right, or a failure was not repaired.
Noted ==
    /\ NoMarks(indexLane) /\ at \notin {"writing", "restating"} /\ ~deaf =>
         dirty \subseteq marker \/ Cure \/ index = NoIndex
    /\ NoMarks(indexLane) /\ at = "clearing" => dirty = {}
    /\ NoMarks(indexLane) \/ LastMarks(indexLane, dirty)

\* After the drain's second flush the list is empty, or the push that empties it
\* has not taken its rows or took them last.
Drained ==
    stage \in {"again", "drained"} /\ spent.fails = 0 =>
        /\ \A b \in Book : lane[b] = <<>>
        /\ dirty = {} \/ PushWaits \/ (at = "writing" /\ ~moved)
        /\ stage = "drained" => dirty = {} /\ indexLane = <<>>

ShelfInv ==
    /\ Typed /\ Tasks /\ Unhurt /\ Shut /\ Shown /\ Known /\ Taken /\ Coming /\ Missed /\ Noted
    /\ Drained

-----------------------------------------------------------------------------
(* The lane of the index *)

\* What a filter keeps is of the sequence and in the set; the last it can keep is its last.
LEMMA OnlyKeepsLast ==
    ASSUME NEW T, NEW s \in Seq(T), NEW S
    PROVE  /\ Only(s, S) \in Seq(T)
           /\ \A i \in 1 .. Len(Only(s, S)) : Only(s, S)[i] \in S
           /\ \A m \in 1 .. Len(s) :
                s[m] \in S /\ (\A j \in m + 1 .. Len(s) : s[j] \notin S) =>
                    Only(s, S) # <<>> /\ Only(s, S)[Len(Only(s, S))] = s[m]
<1>0. Len(s) \in Nat
  OBVIOUS
<1>2. PICK upto :
         /\ upto[0] = <<>> /\ Only(s, S) = upto[Len(s)]
         /\ \A i \in 0 .. Len(s) : i # 0 =>
               upto[i] = IF s[i] \in S THEN Append(upto[i - 1], s[i]) ELSE upto[i - 1]
  BY <1>0, OnlyGoesThrough
<1> DEFINE Good(i) ==
             /\ upto[i] \in Seq(T)
             /\ \A j \in 1 .. Len(upto[i]) : upto[i][j] \in S
             /\ \A m \in 1 .. i : s[m] \in S /\ (\A j \in m + 1 .. i : s[j] \notin S) =>
                    upto[i] # <<>> /\ upto[i][Len(upto[i])] = s[m]
           Bad == {i \in 0 .. Len(s) : ~Good(i)}
<1>4. Good(0)
  <2>1. upto[0] = <<>> /\ Len(<<>>) = 0 /\ 1 .. 0 = {} /\ <<>> \in Seq(T)
    BY <1>2
  <2> QED
    BY <2>1
<1>5. ASSUME NEW i \in 0 .. Len(s), i # 0, Good(i - 1) PROVE Good(i)
  <2>1. upto[i] = IF s[i] \in S THEN Append(upto[i - 1], s[i]) ELSE upto[i - 1]
    BY <1>2, <1>5
  <2>2. i \in 1 .. Len(s) /\ s[i] \in T /\ i \in Nat
    BY <1>0, <1>5
  <2>3. PICK u : u = upto[i - 1]
    OBVIOUS
  <2>4. u \in Seq(T) /\ Len(u) \in Nat /\ \A j \in 1 .. Len(u) : u[j] \in S
    BY <1>5, <2>3
  <2>5. CASE s[i] \in S
    <3>1. upto[i] = Append(u, s[i])
      BY <2>1, <2>3, <2>5
    <3>2. /\ upto[i] \in Seq(T) /\ Len(upto[i]) = Len(u) + 1
          /\ upto[i][Len(u) + 1] = s[i] /\ \A j \in 1 .. Len(u) : upto[i][j] = u[j]
      BY <2>2, <2>4, <3>1
    <3>3. ASSUME NEW j \in 1 .. Len(upto[i]) PROVE upto[i][j] \in S
      <4>1. j \in 1 .. Len(u) \/ j = Len(u) + 1
        BY <2>4, <3>2
      <4> QED
        BY <2>4, <2>5, <3>2, <4>1
    <3>4. ASSUME NEW m \in 1 .. i, \A j \in m + 1 .. i : s[j] \notin S
          PROVE  upto[i] # <<>> /\ upto[i][Len(upto[i])] = s[m]
      <4>1. m = i
        <5>1. m # i => i \in m + 1 .. i
          BY <2>2
        <5> QED
          BY <2>5, <3>4, <5>1
      <4>2. upto[i] # <<>>
        BY <2>4, <3>2
      <4> QED
        BY <3>2, <4>1, <4>2
    <3> QED
      BY <3>2, <3>3, <3>4
  <2>6. CASE s[i] \notin S
    <3>1. upto[i] = u
      BY <2>1, <2>3, <2>6
    <3>2. ASSUME NEW m \in 1 .. i, s[m] \in S, \A j \in m + 1 .. i : s[j] \notin S
          PROVE  u # <<>> /\ u[Len(u)] = s[m]
      <4>1. m # i
        BY <2>6, <3>2
      <4>2. m \in 1 .. i - 1 /\ \A j \in m + 1 .. i - 1 : j \in m + 1 .. i
        BY <2>2, <4>1
      <4> QED
        BY <1>5, <2>3, <3>2, <4>2
    <3> QED
      BY <2>4, <3>1, <3>2
  <2> QED
    BY <2>5, <2>6
<1>6. Bad = {}
  <2> SUFFICES ASSUME Bad # {} PROVE FALSE
    OBVIOUS
  <2> HIDE DEF Good
  <2>1. Bad \in SUBSET Nat
    OBVIOUS
  <2>2. PICK i \in Bad : \A j \in Bad : i <= j
    BY <2>1, LeastOf
  <2>3. i # 0
    BY <1>4, <2>2
  <2>4. i - 1 \in 0 .. Len(s) /\ ~(i <= i - 1)
    BY <1>0, <2>2, <2>3
  <2>5. Good(i - 1)
    BY <2>2, <2>4
  <2> QED
    BY <1>5, <2>2, <2>3, <2>5
<1>7. Good(Len(s))
  <2>1. Len(s) \in 0 .. Len(s)
    BY <1>0
  <2> HIDE DEF Good
  <2> QED
    BY <1>6, <2>1
<1> QED
  BY <1>2, <1>7

\* What a push makes of the lane: its own markers and one push more, the last.
LEMMA PushIs ==
    ASSUME LaneTyped, NEW by \in {"commit", "repair", "flush"}, NEW of \in SUBSET Book,
           NEW q, q = Push(by, of)
    PROVE  \E p \in IndexTask :
             /\ p.does = "push" /\ p.by = by /\ p.of = of
             /\ q \in Seq(IndexTask) /\ q # <<>> /\ q[Len(q)] = p
             /\ \A i \in 1 .. Len(q) : q[i] = p \/ \E j \in 1 .. Len(indexLane) : q[i] = indexLane[j]
             /\ at # "waiting" => Len(q) > 1 /\ Head(q) = Head(indexLane)
             /\ NoMarks(indexLane) => NoMarks(q)
             /\ \A D : LastMarks(indexLane, D) => LastMarks(q, D)
<1> DEFINE p == [does |-> "push", by |-> by, of |-> of, names |-> {}, value |-> 0]
<1>1. p \in IndexTask /\ p.does = "push" /\ p.by = by /\ p.of = of
  BY DEF IndexTask
<1>2. PICK w, u : w = Waiting /\ u = UnderWay
  OBVIOUS
<1>3. /\ w \in Seq(IndexTask) /\ u \in Seq(IndexTask) /\ Len(indexLane) \in Nat
      /\ Len(u) = (IF at = "waiting" THEN 0 ELSE 1) /\ Len(indexLane) = Len(u) + Len(w)
      /\ \A j \in 1 .. Len(w) : w[j] = indexLane[j + Len(u)]
      /\ at # "waiting" => u[1] = indexLane[1] /\ Len(indexLane) >= 1
  <2>1. CASE at = "waiting"
    BY <1>2, <2>1 DEF LaneTyped, Waiting, UnderWay
  <2>2. CASE at # "waiting"
    <3>1. indexLane \in Seq(IndexTask) /\ indexLane # <<>> /\ w = Tail(indexLane) /\ u = <<Head(indexLane)>>
      BY <1>2, <2>2 DEF LaneTyped, Waiting, UnderWay
    <3>2. Head(indexLane) \in IndexTask /\ Head(indexLane) = indexLane[1] /\ Len(indexLane) \in Nat /\ Len(indexLane) >= 1
      BY <3>1
    <3>3. w \in Seq(IndexTask) /\ Len(w) = Len(indexLane) - 1 /\ \A j \in 1 .. Len(w) : w[j] = indexLane[j + 1]
      BY <3>1
    <3>4. u \in Seq(IndexTask) /\ Len(u) = 1 /\ u[1] = indexLane[1]
      BY <3>1, <3>2
    <3> QED
      BY <2>2, <3>2, <3>3, <3>4
  <2> QED
    BY <2>1, <2>2
<1>4. \A j \in 1 .. Len(indexLane) : j > Len(u) => j - Len(u) \in 1 .. Len(w) /\ indexLane[j] = w[j - Len(u)]
  <2>1. Len(u) \in Nat /\ Len(w) \in Nat /\ Len(indexLane) = Len(u) + Len(w)
    BY <1>3
  <2>2. ASSUME NEW j \in 1 .. Len(indexLane), j > Len(u)
        PROVE  j - Len(u) \in 1 .. Len(w) /\ (j - Len(u)) + Len(u) = j
    BY <2>1, <2>2
  <2> QED
    BY <1>3, <2>2
<1>5. PICK o : o = Only(w, Marks)
  OBVIOUS
<1>6. /\ o \in Seq(Of(w)) /\ \A i \in 1 .. Len(o) : o[i] \in Marks
      /\ \A m \in 1 .. Len(w) :
           w[m] \in Marks /\ (\A j \in m + 1 .. Len(w) : w[j] \notin Marks) => o # <<>> /\ o[Len(o)] = w[m]
  <2>1. w \in Seq(Of(w))
    BY <1>3 DEF Of
  <2> QED
    BY <1>5, <2>1, OnlyKeepsLast
<1>7. /\ Len(o) \in Nat /\ \A i \in 1 .. Len(o) : o[i] \in Of(w) /\ o[i] \in IndexTask /\ o[i].does = "mark"
  BY <1>6 DEF Marks
<1>8. o \in Seq(IndexTask)
  <2>1. Of(w) \subseteq IndexTask
    BY <1>3 DEF Of
  <2> QED
    BY <1>6, <2>1
<1> HIDE DEF p
<1>9. /\ q \in Seq(IndexTask) /\ Len(q) = Len(u) + Len(o) + 1 /\ q[Len(u) + Len(o) + 1] = p
      /\ \A i \in 1 .. Len(u) : q[i] = u[i]
      /\ \A i \in 1 .. Len(o) : q[Len(u) + i] = o[i]
  <2>1. q = (u \o o) \o <<p>>
    BY <1>2, <1>5 DEF Push, p
  <2>2. PICK a : a = u \o o
    OBVIOUS
  <2>3. /\ a \in Seq(IndexTask) /\ Len(a) = Len(u) + Len(o) /\ Len(u) \in Nat
        /\ \A i \in 1 .. Len(u) : a[i] = u[i]
        /\ \A i \in 1 .. Len(o) : a[Len(u) + i] = o[i]
    BY <1>3, <1>8, <2>2
  <2>4. /\ q \in Seq(IndexTask) /\ Len(q) = Len(a) + 1 /\ q[Len(a) + 1] = p
        /\ \A i \in 1 .. Len(a) : q[i] = a[i]
    BY <1>1, <2>1, <2>2, <2>3
  <2>5. ASSUME NEW i \in 1 .. Len(u) PROVE q[i] = u[i]
    <3>1. i \in 1 .. Len(a)
      BY <1>7, <2>3
    <3> QED
      BY <2>3, <2>4, <3>1
  <2>6. ASSUME NEW i \in 1 .. Len(o) PROVE q[Len(u) + i] = o[i]
    <3>1. Len(u) + i \in 1 .. Len(a)
      BY <1>7, <2>3
    <3> QED
      BY <2>3, <2>4, <3>1
  <2> QED
    BY <2>3, <2>4, <2>5, <2>6
<1>10. ASSUME NEW i \in 1 .. Len(q)
       PROVE  \/ i \in 1 .. Len(u) \/ i = Len(q) \/ \E m \in 1 .. Len(o) : i = Len(u) + m
  <2>0. Len(u) \in Nat /\ Len(o) \in Nat /\ Len(q) = Len(u) + Len(o) + 1
    BY <1>3, <1>7, <1>9
  <2>1. i > Len(u) /\ i # Len(q) => i - Len(u) \in 1 .. Len(o) /\ i = Len(u) + (i - Len(u))
    BY <2>0
  <2>2. i <= Len(u) => i \in 1 .. Len(u)
    BY <2>0
  <2>3. i <= Len(u) \/ i > Len(u)
    BY <2>0
  <2> QED
    BY <2>1, <2>2, <2>3
<1>11. q # <<>> /\ q[Len(q)] = p
  BY <1>3, <1>7, <1>9
<1>12. ASSUME NEW i \in 1 .. Len(q)
       PROVE  q[i] = p \/ \E j \in 1 .. Len(indexLane) : q[i] = indexLane[j]
  <2>1. CASE i \in 1 .. Len(u)
    <3>1. i = 1 /\ q[i] = indexLane[1] /\ 1 \in 1 .. Len(indexLane)
      BY <1>3, <1>9, <2>1
    <3> QED
      BY <3>1
  <2>2. CASE \E m \in 1 .. Len(o) : i = Len(u) + m
    <3>1. PICK m \in 1 .. Len(o) : i = Len(u) + m
      BY <2>2
    <3>2. q[i] \in Of(w)
      BY <1>7, <1>9, <3>1
    <3>3. PICK n \in 1 .. Len(w) : q[i] = w[n]
      BY <3>2 DEF Of
    <3>4. n + Len(u) \in 1 .. Len(indexLane) /\ q[i] = indexLane[n + Len(u)]
      BY <1>3, <3>3
    <3> QED
      BY <3>4
  <2> QED
    BY <1>10, <1>11, <2>1, <2>2
<1>13. at # "waiting" => Len(q) > 1 /\ Head(q) = Head(indexLane)
  <2>1. SUFFICES ASSUME at # "waiting" PROVE Len(q) > 1 /\ Head(q) = Head(indexLane)
    OBVIOUS
  <2>2. Len(u) = 1 /\ q[1] = indexLane[1] /\ Len(q) > 1
    BY <1>3, <1>7, <1>9, <2>1
  <2>3. Head(q) = q[1] /\ Head(indexLane) = indexLane[1]
    BY <1>9, <1>11, <2>1 DEF LaneTyped
  <2> QED
    BY <2>2, <2>3
<1>14. ASSUME NoMarks(indexLane) PROVE NoMarks(q)
  BY <1>1, <1>12, <1>14 DEF NoMarks
<1>15. ASSUME NEW D, LastMarks(indexLane, D) PROVE LastMarks(q, D)
  <2>1. PICK i \in 1 .. Len(indexLane) :
          /\ indexLane[i].does = "mark" /\ D \subseteq indexLane[i].names
          /\ \A j \in i + 1 .. Len(indexLane) : indexLane[j].does # "mark"
    BY <1>15 DEF LastMarks
  <2>2. i > Len(u)
    <3>1. at # "waiting" => indexLane[1].does = "push"
      BY DEF LaneTyped
    <3> QED
      BY <1>3, <2>1, <3>1
  <2>3. PICK m : m = i - Len(u)
    OBVIOUS
  <2>4. m \in 1 .. Len(w) /\ w[m] = indexLane[i] /\ m + Len(u) = i /\ m \in Nat
    BY <1>3, <1>4, <2>2, <2>3
  <2>5. w[m] \in Marks
    BY <1>3, <2>1, <2>4 DEF Marks
  <2>6. ASSUME NEW j \in m + 1 .. Len(w) PROVE w[j] \notin Marks
    <3>1. j \in 1 .. Len(w) /\ j + Len(u) \in i + 1 .. Len(indexLane) /\ w[j] = indexLane[j + Len(u)]
      BY <1>3, <2>4
    <3> QED
      BY <2>1, <3>1 DEF Marks
  <2>7. o # <<>> /\ o[Len(o)] = w[m]
    BY <1>6, <2>4, <2>5, <2>6
  <2>8. PICK n : n = Len(u) + Len(o)
    OBVIOUS
  <2>9. n \in 1 .. Len(q) /\ q[n] = w[m] /\ \A j \in n + 1 .. Len(q) : j = Len(q)
    <3>1. Len(o) \in 1 .. Len(o)
      BY <1>8, <2>7
    <3> QED
      BY <1>3, <1>7, <1>9, <2>7, <2>8, <3>1
  <2>10. q[n].does = "mark" /\ D \subseteq q[n].names /\ \A j \in n + 1 .. Len(q) : q[j].does # "mark"
    <3>1. \A j \in n + 1 .. Len(q) : q[j] = p
      BY <1>11, <2>9
    <3> QED
      BY <1>1, <2>1, <2>4, <2>9, <3>1
  <2> QED
    BY <2>9, <2>10 DEF LastMarks
<1> QED
  BY <1>1, <1>9, <1>11, <1>12, <1>13, <1>14, <1>15

\* A marker joins the lane.
LEMMA MarkJoins ==
    ASSUME LaneTyped, NEW m \in IndexTask, m.does = "mark", NEW q, q = Append(indexLane, m)
    PROVE  /\ q \in Seq(IndexTask) /\ q # <<>> /\ ~NoMarks(q) /\ LastMarks(q, m.names)
           /\ \A i \in 1 .. Len(indexLane) : i \in 1 .. Len(q) /\ q[i] = indexLane[i]
           /\ \A i \in 1 .. Len(q) : q[i] = m \/ i \in 1 .. Len(indexLane)
           /\ indexLane # <<>> => Head(q) = Head(indexLane)
<1>1. Len(indexLane) \in Nat /\ indexLane \in Seq(IndexTask)
  BY DEF LaneTyped
<1>2. /\ q \in Seq(IndexTask) /\ Len(q) = Len(indexLane) + 1 /\ q[Len(q)] = m
      /\ \A i \in 1 .. Len(indexLane) : q[i] = indexLane[i]
  BY <1>1
<1>3. Len(q) \in 1 .. Len(q) /\ Len(q) + 1 .. Len(q) = {}
  BY <1>1, <1>2
<1>4. ~NoMarks(q) /\ LastMarks(q, m.names)
  BY <1>2, <1>3 DEF NoMarks, LastMarks
<1>5. indexLane # <<>> => Head(q) = Head(indexLane)
  BY <1>1, <1>2
<1>6. /\ \A i \in 1 .. Len(indexLane) : i \in 1 .. Len(q)
      /\ \A i \in 1 .. Len(q) : i = Len(q) \/ i \in 1 .. Len(indexLane)
      /\ q # <<>>
  BY <1>1, <1>2
<1> QED
  BY <1>2, <1>4, <1>5, <1>6

\* The first task leaves it.
LEMMA FirstLeaves ==
    ASSUME LaneTyped, indexLane # <<>>, NEW q, q = Tail(indexLane)
    PROVE  /\ q \in Seq(IndexTask)
           /\ \A i \in 1 .. Len(q) : i + 1 \in 1 .. Len(indexLane) /\ i + 1 > 1 /\ q[i] = indexLane[i + 1]
           /\ \A i \in 1 .. Len(indexLane) : i > 1 => i - 1 \in 1 .. Len(q) /\ q[i - 1] = indexLane[i]
           /\ 1 \in 1 .. Len(indexLane) /\ Head(indexLane) = indexLane[1]
           /\ NoMarks(q) /\ Head(indexLane).does # "mark" => NoMarks(indexLane)
           /\ NoMarks(indexLane) => NoMarks(q)
           /\ \A D : LastMarks(indexLane, D) => LastMarks(q, D) \/ (NoMarks(q) /\ D \subseteq Head(indexLane).names)
<1>1. Len(indexLane) \in Nat /\ indexLane \in Seq(IndexTask) /\ Len(indexLane) >= 1
  BY DEF LaneTyped
<1>2. /\ q \in Seq(IndexTask) /\ Len(q) = Len(indexLane) - 1
      /\ \A i \in 1 .. Len(q) : q[i] = indexLane[i + 1]
  BY <1>1
<1>3. \A i \in 1 .. Len(q) : i + 1 \in 1 .. Len(indexLane) /\ i + 1 > 1 /\ q[i] = indexLane[i + 1]
  BY <1>1, <1>2
<1>4. \A i \in 1 .. Len(indexLane) : i > 1 => i - 1 \in 1 .. Len(q) /\ q[i - 1] = indexLane[i]
  BY <1>1, <1>2
<1>5. 1 \in 1 .. Len(indexLane) /\ Head(indexLane) = indexLane[1] /\ \A i \in 1 .. Len(indexLane) : i = 1 \/ i > 1
  BY <1>1
<1>6. NoMarks(q) /\ Head(indexLane).does # "mark" => NoMarks(indexLane)
  BY <1>4, <1>5 DEF NoMarks
<1>7. NoMarks(indexLane) => NoMarks(q)
  BY <1>3 DEF NoMarks
<1>8. ASSUME NEW D, LastMarks(indexLane, D)
      PROVE  LastMarks(q, D) \/ (NoMarks(q) /\ D \subseteq Head(indexLane).names)
  <2>1. PICK i \in 1 .. Len(indexLane) :
          /\ indexLane[i].does = "mark" /\ D \subseteq indexLane[i].names
          /\ \A j \in i + 1 .. Len(indexLane) : indexLane[j].does # "mark"
    BY <1>8 DEF LastMarks
  <2>2. CASE i = 1
    <3>1. \A j \in 1 .. Len(q) : j + 1 \in i + 1 .. Len(indexLane)
      BY <1>1, <1>2, <2>2
    <3>2. NoMarks(q)
      BY <1>3, <2>1, <3>1 DEF NoMarks
    <3> QED
      BY <1>5, <2>1, <2>2, <3>2
  <2>3. CASE i > 1
    <3>1. i - 1 \in 1 .. Len(q) /\ q[i - 1] = indexLane[i]
      BY <1>4, <2>3
    <3>2. \A j \in (i - 1) + 1 .. Len(q) : j \in 1 .. Len(q) /\ j + 1 \in i + 1 .. Len(indexLane)
      BY <1>1, <1>2, <2>3
    <3> QED
      BY <1>3, <2>1, <3>1, <3>2 DEF LastMarks
  <2> QED
    BY <1>5, <2>2, <2>3
<1> QED
  BY <1>2, <1>3, <1>4, <1>5, <1>6, <1>7, <1>8

\* A task that ends is told to whoever asked for it.
LEMMA HeardIs ==
    ASSUME Typed, Tasks, indexLane # <<>>, NEW ok \in BOOLEAN, Heard(ok)
    PROVE  /\ at' = "waiting" /\ indexLane' = Tail(indexLane) /\ LaneTyped' /\ Tasks'
           /\ lane' \in [Book -> Seq(BookTask)] /\ doomed' \in BOOLEAN
           /\ ok => lane' = lane /\ doomed' = doomed
           /\ doomed => doomed'
           /\ \A b \in Book : lane[b] # <<>> => lane'[b] # <<>>
           /\ \A b \in Book : Repairs(b) => Repairs(b)'
           /\ ~ok /\ Head(indexLane).by # "flush" => doomed' \/ \E b \in Book : Repairs(b)'
           /\ (at # "waiting" \/ Head(indexLane).does = "mark") /\ PushWaits => PushWaits'
<1> DEFINE task == Head(indexLane)
<1>1. /\ indexLane' = Tail(indexLane) /\ at' = "waiting"
      /\ lane' = [b \in Book |-> IF ~ok /\ task.by = "commit" /\ b \in task.of
                                 THEN Append(lane[b], "repair") ELSE lane[b]]
      /\ doomed' = (doomed \/ (~ok /\ task.by = "repair"))
  BY DEF Heard
<1>2. task \in IndexTask
  BY DEF Typed, LaneTyped
<1> HIDE DEF task
<1>3. PICK q : q = Tail(indexLane)
  OBVIOUS
<1>4. /\ q \in Seq(IndexTask)
      /\ \A i \in 1 .. Len(q) : i + 1 \in 1 .. Len(indexLane) /\ i + 1 > 1 /\ q[i] = indexLane[i + 1]
      /\ \A i \in 1 .. Len(indexLane) : i > 1 => i - 1 \in 1 .. Len(q) /\ q[i - 1] = indexLane[i]
      /\ 1 \in 1 .. Len(indexLane) /\ Head(indexLane) = indexLane[1]
  BY <1>3, FirstLeaves DEF Typed
<1>5. LaneTyped'
  BY <1>1, <1>3, <1>4 DEF LaneTyped
<1>6. Tasks'
  BY <1>1, <1>3, <1>4 DEF Tasks
<1>7. ASSUME NEW b \in Book
      PROVE  /\ lane[b] \in Seq(BookTask)
             /\ lane'[b] = lane[b] \/ lane'[b] = Append(lane[b], "repair")
             /\ ~ok /\ task.by = "commit" /\ b \in task.of => lane'[b] = Append(lane[b], "repair")
  BY <1>1 DEF Typed
<1>8. ASSUME NEW s \in Seq(BookTask)
      PROVE  /\ Append(s, "repair") \in Seq(BookTask) /\ Append(s, "repair") # <<>>
             /\ \A i \in 1 .. Len(s) : i \in 1 .. Len(Append(s, "repair")) /\ Append(s, "repair")[i] = s[i]
             /\ \E i \in 1 .. Len(Append(s, "repair")) : Append(s, "repair")[i] = "repair"
  <2>1. "repair" \in BookTask /\ Len(s) \in Nat
    BY DEF BookTask
  <2>2. PICK t : t = Append(s, "repair")
    OBVIOUS
  <2>3. /\ t \in Seq(BookTask) /\ Len(t) = Len(s) + 1 /\ t[Len(s) + 1] = "repair"
        /\ \A i \in 1 .. Len(s) : t[i] = s[i]
    BY <2>1, <2>2
  <2>4. Len(s) + 1 \in 1 .. Len(t) /\ t # <<>> /\ \A i \in 1 .. Len(s) : i \in 1 .. Len(t)
    BY <2>1, <2>3
  <2> QED
    BY <2>2, <2>3, <2>4
<1>9. lane' \in [Book -> Seq(BookTask)]
  <2>1. \A b \in Book : lane'[b] \in Seq(BookTask)
    BY <1>7, <1>8
  <2> QED
    BY <1>1, <2>1
<1>10. doomed' \in BOOLEAN /\ (doomed => doomed')
  BY <1>1
<1>11. ASSUME ok PROVE lane' = lane /\ (doomed' <=> doomed)
  <2>1. lane' = [b \in Book |-> lane[b]]
    BY <1>1, <1>11
  <2> QED
    BY <1>1, <1>11, <2>1 DEF Typed
<1>12. ASSUME NEW b \in Book
       PROVE  (lane[b] # <<>> => lane'[b] # <<>>) /\ (Repairs(b) => Repairs(b)')
  BY <1>7, <1>8 DEF Repairs
<1>13. ASSUME ~ok, task.by # "flush" PROVE doomed' \/ \E b \in Book : Repairs(b)'
  <2>1. CASE task.by = "commit"
    <3>1. task.of # {} /\ task.of \subseteq Book
      BY <1>2, <1>4, <2>1 DEF Tasks, task, IndexTask
    <3>2. PICK b \in Book : b \in task.of
      BY <3>1
    <3>3. lane'[b] = Append(lane[b], "repair") /\ lane[b] \in Seq(BookTask)
      BY <1>7, <1>13, <2>1, <3>2
    <3>4. Repairs(b)'
      BY <1>8, <3>3 DEF Repairs
    <3> QED
      BY <3>4
  <2>2. CASE task.by = "repair"
    BY <1>1, <1>13, <2>2
  <2> QED
    BY <1>2, <1>13, <2>1, <2>2 DEF IndexTask
<1>14. ASSUME at # "waiting" \/ task.does = "mark", PushWaits PROVE PushWaits'
  <2>1. PICK i \in 1 .. Len(indexLane) : indexLane[i].does = "push" /\ (at # "waiting" => i > 1)
    BY <1>14 DEF PushWaits
  <2>2. i > 1
    <3>1. i = 1 \/ i > 1
      BY <2>1
    <3>2. task = indexLane[1]
      BY <1>4 DEF task
    <3> QED
      BY <1>14, <2>1, <3>1, <3>2
  <2>3. i - 1 \in 1 .. Len(q) /\ q[i - 1] = indexLane[i]
    BY <1>4, <2>2
  <2> QED
    BY <1>1, <1>3, <2>1, <2>3 DEF PushWaits
<1>15. doomed' = doomed \/ ~ok
  BY <1>1 DEF Typed
<1> QED
  BY <1>1, <1>5, <1>6, <1>9, <1>10, <1>11, <1>12, <1>13, <1>14, <1>15 DEF task

\* A push joins the lane.
LEMMA PushedIs ==
    ASSUME Typed, Tasks, NEW by \in {"commit", "repair", "flush"}, NEW of \in SUBSET Book,
           by = "commit" => of # {}, indexLane' = Push(by, of), at' = at
    PROVE  /\ LaneTyped' /\ Tasks' /\ PushWaits' /\ indexLane' # <<>>
           /\ NoMarks(indexLane) => NoMarks(indexLane')
           /\ \A D : LastMarks(indexLane, D) => LastMarks(indexLane', D)
           /\ by # "repair" /\ (\A i \in 1 .. Len(indexLane) : indexLane[i].by # "repair") =>
                \A i \in 1 .. Len(indexLane') : indexLane'[i].by # "repair"
<1>0. LaneTyped
  BY DEF Typed
<1>1. PICK q : q = Push(by, of)
  OBVIOUS
<1>2. PICK p \in IndexTask :
             /\ p.does = "push" /\ p.by = by /\ p.of = of
             /\ q \in Seq(IndexTask) /\ q # <<>> /\ q[Len(q)] = p
             /\ \A i \in 1 .. Len(q) : q[i] = p \/ \E j \in 1 .. Len(indexLane) : q[i] = indexLane[j]
             /\ at # "waiting" => Len(q) > 1 /\ Head(q) = Head(indexLane)
             /\ NoMarks(indexLane) => NoMarks(q)
             /\ \A D : LastMarks(indexLane, D) => LastMarks(q, D)
  BY <1>0, <1>1, PushIs
<1>3. indexLane' = q
  BY <1>1
<1>4. LaneTyped'
  BY <1>2, <1>3 DEF Typed, LaneTyped
<1>5. Tasks'
  BY <1>2, <1>3 DEF Tasks
<1>6. PushWaits'
  <2>1. Len(q) \in 1 .. Len(q)
    BY <1>2
  <2> QED
    BY <1>2, <1>3, <2>1 DEF PushWaits
<1>7. ASSUME by # "repair", \A i \in 1 .. Len(indexLane) : indexLane[i].by # "repair"
      PROVE  \A i \in 1 .. Len(q) : q[i].by # "repair"
  BY <1>2, <1>7
<1> QED
  BY <1>2, <1>3, <1>4, <1>5, <1>6, <1>7

LEMMA CountedIs ==
    ASSUME Typed, NEW ok \in BOOLEAN
    PROVE  /\ Counted(ok) \in [changes : Nat, fails : Nat, crashes : Nat]
           /\ Counted(ok).fails = 0 => ok /\ spent.fails = 0
BY DEF Typed, Counted

\* The change that is first in its lane lands.
LEMMA LandIs ==
    ASSUME Typed, NEW b \in Book, Writes(b), Land(b)
    PROVE  /\ record' \in Values /\ row' \in Values /\ lane' \in [Book -> Seq(BookTask)]
           /\ row'[b] = record'[b]
           /\ \A c \in Book : c # b => row'[c] = row[c] /\ record'[c] = record[c] /\ lane'[c] = lane[c]
           /\ \A c \in Book : Repairs(c)' <=> Repairs(c)
           /\ lane[b] # <<>>
           /\ behind' = behind \cup {b} /\ carried' = carried \ {b} /\ cut' = cut \ {b}
<1>1. /\ record' = [record EXCEPT ![b] = @ + 1] /\ row' = [row EXCEPT ![b] = record[b] + 1]
      /\ lane' = [lane EXCEPT ![b] = Tail(@)] /\ lane[b] # <<>> /\ Head(lane[b]) # "repair"
      /\ behind' = behind \cup {b} /\ carried' = carried \ {b} /\ cut' = cut \ {b}
  BY DEF Land, Writes, Next1, IndexLags
<1>2. lane[b] \in Seq(BookTask) /\ record \in [Book -> Nat] /\ row \in [Book -> Nat] /\ lane \in [Book -> Seq(BookTask)]
  BY DEF Typed, Values
<1>3. record' \in Values /\ row' \in Values /\ row'[b] = record'[b]
  BY <1>1, <1>2 DEF Values
<1>4. \A c \in Book : c # b => row'[c] = row[c] /\ record'[c] = record[c] /\ lane'[c] = lane[c]
  BY <1>1, <1>2
<1>5. PICK s, t : s = lane[b] /\ t = Tail(lane[b])
  OBVIOUS
<1>6. /\ s \in Seq(BookTask) /\ t \in Seq(BookTask) /\ Len(s) \in Nat /\ Len(s) >= 1 /\ Len(t) = Len(s) - 1
      /\ s[1] # "repair" /\ \A i \in 1 .. Len(t) : t[i] = s[i + 1]
  BY <1>1, <1>2, <1>5
<1>7. lane'[b] = t /\ lane' \in [Book -> Seq(BookTask)]
  BY <1>1, <1>2, <1>5, <1>6
<1>8. Repairs(b)' <=> Repairs(b)
  <2>1. ASSUME NEW i \in 1 .. Len(s), s[i] = "repair" PROVE \E j \in 1 .. Len(t) : t[j] = "repair"
    <3>1. i # 1
      BY <1>6, <2>1
    <3>2. i - 1 \in 1 .. Len(t) /\ (i - 1) + 1 = i
      BY <1>6, <3>1
    <3> QED
      BY <1>6, <2>1, <3>2
  <2>2. ASSUME NEW j \in 1 .. Len(t), t[j] = "repair" PROVE \E i \in 1 .. Len(s) : s[i] = "repair"
    <3>1. j + 1 \in 1 .. Len(s)
      BY <1>6
    <3> QED
      BY <1>6, <2>2, <3>1
  <2> QED
    BY <1>5, <1>7, <2>1, <2>2 DEF Repairs
<1>9. \A c \in Book : c # b => (Repairs(c)' <=> Repairs(c))
  BY <1>4 DEF Repairs
<1> QED
  BY <1>1, <1>3, <1>4, <1>7, <1>8, <1>9

-----------------------------------------------------------------------------
(* Every step of the shelf *)

\* Whoever has work is a process that runs.
LEMMA WorkRuns ==
    ASSUME Shut
    PROVE  /\ indexLane # <<>> \/ doomed \/ at # "waiting" \/ dirty # {} => Running
           /\ \A b \in Book : lane[b] # <<>> => Running
BY DEF Shut, Idle

\* What a launch reads is what the folders hold, but of the books left half done
\* that it does not read again.
LEMMA LoadedIs ==
    ASSUME Typed, Shut, ~Running
    PROVE  /\ Loaded \in Values
           /\ \A b \in Book \ (IF index = NoIndex THEN {} ELSE cut \ marker) : Loaded[b] = record[b]
<1>1. \A b \in Book : record[b] \in Nat /\ (index # NoIndex => index[b] \in Nat)
  BY DEF Typed, Values
<1>2. Loaded \in Values
  BY <1>1 DEF Loaded, Values
<1>3. ASSUME NEW b \in Book, b \notin (IF index = NoIndex THEN {} ELSE cut \ marker) PROVE Loaded[b] = record[b]
  BY <1>3 DEF Loaded, Shut
<1> QED
  BY <1>2, <1>3

LEMMA ShelfStarts == ShelfInit => ShelfInv
<1> SUFFICES ASSUME ShelfInit PROVE ShelfInv
  OBVIOUS
<1> USE DEF ShelfInit
<1>1. Typed
  <2>1. Nothing \in Values /\ LaneTyped
    BY DEF Values, Nothing, LaneTyped
  <2>2. \A b \in Book : lane[b] = <<>> /\ lane[b] \in Seq(BookTask)
    OBVIOUS
  <2>3. lane \in [Book -> Seq(BookTask)]
    BY <2>2
  <2> QED
    BY <2>1, <2>3 DEF Typed
<1>2. Len(indexLane) = 0 /\ 1 .. 0 = {}
  OBVIOUS
<1>3. Tasks /\ Shut /\ ~Running /\ \A b \in Book : ~Repairs(b)
  BY <1>2 DEF Tasks, Shut, Running, Idle, Repairs
<1>4. NoMarks(indexLane)
  BY <1>2 DEF NoMarks
<1>5. Unhurt /\ Shown /\ Known /\ Taken /\ Coming /\ Missed /\ Drained
  BY <1>2, <1>3 DEF Unhurt, Shown, Known, Taken, Coming, Missed, Drained
<1>6. Noted
  BY <1>4 DEF Noted
<1> QED
  BY <1>1, <1>3, <1>5, <1>6 DEF ShelfInv

LEMMA OpenKeeps ==
    ASSUME ShelfInv, NEW wrote \in BOOLEAN, NEW removed \in BOOLEAN, Open(wrote, removed)
    PROVE  ShelfInv'
<1>1. Typed /\ Shut /\ ~Running
  BY DEF ShelfInv, Open, Running
<1>2. /\ Loaded \in Values /\ Loaded # NoIndex
      /\ \A b \in Book \ cut' : Loaded[b] = record[b]
  BY <1>1, LoadedIs, ShelfIndexAssumption DEF Open, Values
<1>3. /\ record' = record /\ row' = Loaded
      /\ index' = (IF Rewrites /\ wrote THEN Loaded ELSE index)
      /\ cut' = (IF index = NoIndex THEN {} ELSE cut \ marker)
      /\ behind' = (IF wrote THEN {} ELSE marker)
      /\ deaf' = FALSE /\ carried' = {}
      /\ ~wrote => Rewrites
  BY DEF Open
<1>4. /\ dirty' = {} /\ indexLane' = <<>> /\ at' = "waiting" /\ ~doomed' /\ doomed' \in BOOLEAN
      /\ lane' = lane /\ \A b \in Book : lane[b] = <<>>
      /\ stage' = "open" /\ marker' \subseteq Book
      /\ moved' = moved /\ timer' = timer /\ snapshot' = snapshot /\ kept' = kept
      /\ spent' = Counted(wrote)
  BY <1>1 DEF Open, Shut, Idle, Typed
<1>5. Typed'
  <2>1. spent' \in [changes : Nat, fails : Nat, crashes : Nat]
    BY <1>1, <1>4, CountedIs
  <2>2. LaneTyped'
    BY <1>4 DEF LaneTyped
  <2>3. behind' \subseteq Book /\ carried' \subseteq behind' /\ cut' \subseteq Book /\ deaf' \in BOOLEAN
    BY <1>1, <1>3 DEF Typed
  <2> QED
    BY <1>1, <1>2, <1>3, <1>4, <2>1, <2>2, <2>3 DEF Typed
<1>6. Len(indexLane') = 0 /\ 1 .. 0 = {}
  BY <1>4
<1>7. Tasks' /\ NoMarks(indexLane')
  BY <1>6 DEF Tasks, NoMarks
<1>8. Running' /\ \A b \in Book : ~Repairs(b)'
  BY <1>4 DEF Running, Repairs
<1>9. wrote => index' # NoIndex
  BY <1>2, <1>3 DEF Rewrites
<1>10. spent'.fails = 0 => wrote
  BY <1>1, <1>4, CountedIs
<1>11. Unhurt'
  BY <1>3, <1>4, <1>6, <1>8, <1>9, <1>10 DEF Unhurt
<1>12. Known'
  <2>1. ASSUME NEW b \in Book, b \notin cut', index' # NoIndex, b \notin behind' PROVE index'[b] = record[b]
    <3>1. CASE Rewrites /\ wrote
      BY <1>2, <1>3, <2>1, <3>1
    <3>2. CASE ~(Rewrites /\ wrote)
      <4>1. index' = index /\ index # NoIndex /\ b \notin marker /\ b \notin cut
        BY <1>3, <2>1, <3>2 DEF Rewrites
      <4> QED
        BY <1>1, <4>1 DEF Shut
    <3> QED
      BY <3>1, <3>2
  <2> QED
    BY <1>3, <2>1 DEF Known
<1>13. Shut' /\ Shown' /\ Taken' /\ Missed' /\ Drained'
  BY <1>2, <1>3, <1>4, <1>8 DEF Shut, Shown, Taken, Missed, Drained
<1>14. Coming'
  <2>1. CASE wrote
    BY <1>3, <2>1 DEF Coming
  <2>2. CASE ~wrote
    <3>1. behind' = marker /\ marker' = marker
      BY <1>3, <2>2 DEF Open, TakesMarker
    <3> QED
      BY <1>10, <2>2, <3>1 DEF Coming
  <2> QED
    BY <2>1, <2>2
<1>15. Noted'
  BY <1>4, <1>7 DEF Noted
<1> QED
  BY <1>5, <1>7, <1>12, <1>13, <1>15, <1>11, <1>14 DEF ShelfInv

LEMMA IndexStartsKeeps == ASSUME ShelfInv, IndexStarts PROVE ShelfInv'
<1>1. /\ Typed /\ Tasks /\ Unhurt /\ Shut /\ Shown /\ Known /\ Noted /\ Drained
      /\ indexLane # <<>> /\ Running
  BY WorkRuns DEF ShelfInv, IndexStarts
<1>2. /\ at' = "writing" /\ snapshot' = row /\ moved' = FALSE /\ Head(indexLane).does = "push"
      /\ UNCHANGED <<record, index, marker, row, dirty, timer, lane, indexLane, doomed, stage, kept, behind, cut, deaf, spent>>
      /\ carried' = behind
  BY DEF IndexStarts
<1>3. Typed' /\ Tasks'
  <2>1. LaneTyped'
    BY <1>1, <1>2 DEF Typed, LaneTyped
  <2> QED
    BY <1>1, <1>2, <2>1 DEF Typed, Tasks
<1>4. Running' /\ Unhurt' /\ Shut' /\ Shown'
  <2>1. Running' /\ \A b \in Book : Repairs(b)' <=> Repairs(b)
    BY <1>1, <1>2 DEF Running, Repairs
  <2> QED
    BY <1>1, <1>2, <2>1 DEF Unhurt, Shut, Shown
<1>5. Known' /\ Taken' /\ Coming' /\ Missed'
  BY <1>1, <1>2, <1>4 DEF Known, Taken, Coming, WillBeTold, Missed, Shown
<1>6. Noted'
  BY <1>1, <1>2 DEF Noted
<1>7. Drained'
  BY <1>1, <1>2 DEF Drained
<1> QED
  BY <1>3, <1>4, <1>5, <1>6, <1>7 DEF ShelfInv

LEMMA IndexLandsKeeps == ASSUME ShelfInv, IndexLands PROVE ShelfInv'
<1>1. /\ Typed /\ Tasks /\ Unhurt /\ Shut /\ Shown /\ Known /\ Taken /\ Missed /\ Noted
      /\ Drained
      /\ at = "writing" /\ indexLane # <<>> /\ Running /\ Head(indexLane).does = "push"
  BY WorkRuns DEF ShelfInv, IndexLands, Typed, LaneTyped
<1>2. /\ index' = snapshot /\ snapshot' = Nothing /\ snapshot \in Values /\ snapshot # NoIndex
      /\ UNCHANGED <<record, marker, row, moved, timer, stage, kept, cut, spent>>
      /\ behind' = behind \ carried /\ carried' = {} /\ deaf' = FALSE
  BY <1>1, ShelfIndexAssumption DEF IndexLands, Typed, Values
<1>3. Running'
  BY <1>1, <1>2 DEF Running
<1>4. CASE ~moved /\ dirty = {}
  <2>1. Heard(TRUE) /\ dirty' = {}
    BY <1>4 DEF IndexLands, SawAll
  <2>11. /\ at' = "waiting" /\ indexLane' = Tail(indexLane) /\ LaneTyped' /\ Tasks'
        /\ lane' = lane /\ doomed' = doomed /\ (PushWaits => PushWaits')
    BY <1>1, <2>1, HeardIs
  <2>12. indexLane' = Tail(indexLane)
    BY <2>11
  <2>2. at' = "waiting" /\ LaneTyped' /\ Tasks' /\ lane' = lane /\ (doomed' <=> doomed) /\ (PushWaits => PushWaits')
    BY <2>11
  <2>3. Typed'
    <3>1. doomed' \in BOOLEAN
      BY <1>1, <2>11 DEF Typed
    <3>2. Nothing \in Values
      BY DEF Nothing, Values
    <3> QED
      BY <1>1, <1>2, <2>1, <2>2, <3>1, <3>2 DEF Typed
  <2>4. \A b \in Book : Repairs(b)' <=> Repairs(b)
    BY <2>2 DEF Repairs
  <2>5. NoMarks(indexLane) \/ LastMarks(indexLane, {}) => NoMarks(indexLane') \/ LastMarks(indexLane', {})
    BY <1>1, <2>12, FirstLeaves DEF Typed
  <2>6. Unhurt'
    <3>1. \A i \in 1 .. Len(indexLane') : i + 1 \in 1 .. Len(indexLane) /\ indexLane'[i] = indexLane[i + 1]
      BY <1>1, <2>12, FirstLeaves DEF Typed
    <3> QED
      BY <1>1, <1>2, <2>2, <2>4, <3>1 DEF Unhurt
  <2>7. Shut' /\ Shown'
    BY <1>1, <1>2, <1>3, <2>2 DEF Shut, Shown
  <2>8. Known' /\ Taken' /\ Coming' /\ Missed'
    BY <1>1, <1>2, <1>4, <2>2 DEF Known, Taken, Coming, WillBeTold, Missed, Cure
  <2>9. Noted'
    BY <1>1, <1>4, <2>1, <2>2, <2>5 DEF Noted
  <2>10. Drained'
    <3>1. stage \in {"again", "drained"} => stage # "drained" \/ spent.fails # 0
      BY <1>1 DEF Drained
    <3> QED
      BY <1>1, <1>2, <2>1, <2>2, <3>1 DEF Drained
  <2> QED
    BY <2>2, <2>3, <2>6, <2>7, <2>8, <2>9, <2>10 DEF ShelfInv
<1>5. CASE moved \/ dirty # {}
  <2>1. /\ at' = (IF ~moved THEN "clearing" ELSE "restating")
        /\ dirty' = (IF ~moved THEN {} ELSE dirty)
        /\ UNCHANGED <<lane, indexLane, doomed>>
    BY <1>5 DEF IndexLands, SawAll
  <2>2. Typed' /\ Tasks'
    <3>1. LaneTyped'
      BY <1>1, <2>1 DEF Typed, LaneTyped
    <3> QED
      BY <1>1, <1>2, <2>1, <3>1 DEF Typed, Tasks, Values, Nothing
  <2>3. /\ \A b \in Book : Repairs(b)' <=> Repairs(b)
        /\ PushWaits => PushWaits'
    BY <1>1, <2>1 DEF Repairs, PushWaits
  <2>4. Unhurt' /\ Shut' /\ Shown'
    BY <1>1, <1>2, <1>3, <2>1, <2>3 DEF Unhurt, Shut, Shown
  <2>5. Known' /\ Taken' /\ Coming' /\ Missed'
    BY <1>1, <1>2, <2>1, <2>3 DEF Known, Taken, Coming, WillBeTold, Missed, Cure, Typed
  <2>6. Noted'
    <3>1. NoMarks(indexLane) \/ LastMarks(indexLane, dirty')
      <4>1. dirty' \subseteq dirty
        BY <2>1
      <4> QED
        BY <1>1, <4>1 DEF Noted, LastMarks
    <3> QED
      BY <1>1, <2>1, <3>1 DEF Noted, Typed
  <2>7. Drained'
    BY <1>1, <1>2, <2>1, <2>3 DEF Drained, Typed
  <2> QED
    BY <2>2, <2>4, <2>5, <2>6, <2>7 DEF ShelfInv
<1> QED
  BY <1>1, <1>4, <1>5 DEF Typed

\* A push that ends leaves the markers as they were.
LEMMA PushLeaves ==
    ASSUME Typed, indexLane # <<>>, indexLane' = Tail(indexLane), Head(indexLane).does = "push"
    PROVE  /\ NoMarks(indexLane') <=> NoMarks(indexLane)
           /\ \A D : LastMarks(indexLane, D) => LastMarks(indexLane', D)
<1>1. PICK q : q = Tail(indexLane)
  OBVIOUS
<1>2. LaneTyped /\ Head(indexLane).does # "mark"
  BY DEF Typed
<1>3. /\ NoMarks(q) => NoMarks(indexLane)
      /\ NoMarks(indexLane) => NoMarks(q)
      /\ \A D : LastMarks(indexLane, D) => LastMarks(q, D) \/ (NoMarks(q) /\ D \subseteq Head(indexLane).names)
  BY <1>1, <1>2, FirstLeaves
<1>4. \A D : LastMarks(indexLane, D) => ~NoMarks(indexLane)
  BY DEF LastMarks, NoMarks
<1>5. indexLane' = q
  BY <1>1
<1> QED
  BY <1>3, <1>4, <1>5

\* What a step that failed may do: somebody repairs.
LEMMA FailedStep ==
    ASSUME ShelfInv, indexLane # <<>>, Heard(FALSE), Head(indexLane).by = "flush" => deaf', Running,
           spent' = Counted(FALSE), stage' = stage, record' = record, row' = row, dirty' = dirty,
           index' = index \/ (at = "writing" /\ index' = snapshot),
           behind' = behind, carried' = {}, cut' = cut, deaf' \in BOOLEAN,
           marker' \subseteq Book, snapshot' \in Values, kept' \in Values, moved' = moved,
           timer' = timer
    PROVE  ShelfInv'
<1>1. Typed /\ Tasks /\ Shown /\ Known /\ Taken /\ Noted
  BY DEF ShelfInv
<1>2. /\ at' = "waiting" /\ indexLane' = Tail(indexLane) /\ LaneTyped' /\ Tasks'
      /\ lane' \in [Book -> Seq(BookTask)] /\ doomed' \in BOOLEAN
      /\ \A b \in Book : lane[b] # <<>> => lane'[b] # <<>>
      /\ ~deaf' => doomed' \/ \E b \in Book : Repairs(b)'
  BY <1>1, HeardIs
<1>3. spent' \in [changes : Nat, fails : Nat, crashes : Nat] /\ spent'.fails # 0
  BY <1>1, CountedIs
<1>4. Running'
  BY DEF Running
<1>5. Typed'
  BY <1>1, <1>2, <1>3 DEF Typed
<1>6. Unhurt' /\ Drained' /\ Shut'
  BY <1>3, <1>4 DEF Unhurt, Drained, Shut
<1>7. ~deaf' => Cure'
  BY <1>2 DEF Cure
<1>8. Known' /\ Taken' /\ Coming' /\ Missed'
  <2>1. at' # "writing" /\ carried' = {}
    BY <1>2
  <2>2. ASSUME NEW b \in Book \ cut
        PROVE  index' = NoIndex \/ index'[b] = record[b] \/ lane'[b] # <<>> \/ b \in behind
    BY <1>1, <1>2 DEF Known, Taken
  <2>3. Known'
    BY <2>2 DEF Known
  <2> QED
    BY <1>2, <1>3, <1>7, <2>1, <2>3 DEF Taken, Coming, WillBeTold, Missed
<1>9. Shown'
  BY <1>1, <1>2, <1>4 DEF Shown
<1>10. NoMarks(indexLane') \/ LastMarks(indexLane', dirty)
  <2>1. PICK q : q = Tail(indexLane)
    OBVIOUS
  <2>2. LaneTyped
    BY <1>1 DEF Typed
  <2>3. /\ NoMarks(indexLane) => NoMarks(q)
        /\ \A D : LastMarks(indexLane, D) => LastMarks(q, D) \/ (NoMarks(q) /\ D \subseteq Head(indexLane).names)
    BY <2>1, <2>2, FirstLeaves
  <2>4. indexLane' = q
    BY <1>2, <2>1
  <2>5. NoMarks(q) \/ LastMarks(q, dirty)
    BY <1>1, <2>3 DEF Noted
  <2> QED
    BY <2>4, <2>5
<1>11. Noted'
  <2>1. at' = "waiting"
    BY <1>2
  <2> QED
    BY <1>7, <1>10, <2>1 DEF Noted
<1> QED
  BY <1>2, <1>5, <1>6, <1>8, <1>9, <1>11 DEF ShelfInv

LEMMA IndexFailsKeeps ==
    ASSUME ShelfInv, NEW landed \in BOOLEAN, IndexFails(landed) PROVE ShelfInv'
<1>1. Typed /\ at = "writing" /\ indexLane # <<>> /\ Running
  BY WorkRuns DEF ShelfInv, IndexFails, Typed, LaneTyped
<1>2. /\ Heard(FALSE) /\ (Head(indexLane).by = "flush" => deaf') /\ deaf' \in BOOLEAN
      /\ spent' = Counted(FALSE)
  BY <1>1 DEF IndexFails, Unrepaired, Typed
<1>3. /\ index' = index \/ index' = snapshot
      /\ snapshot' = Nothing /\ carried' = {}
      /\ UNCHANGED <<record, marker, row, dirty, moved, timer, stage, kept, behind, cut>>
  BY DEF IndexFails
<1>4. Nothing \in Values
  BY DEF Nothing, Values
<1>5. carried' = {} /\ marker' \subseteq Book /\ snapshot' \in Values /\ kept' \in Values
  BY <1>1, <1>3, <1>4 DEF Typed
<1> QED
  BY <1>1, <1>2, <1>3, <1>5, FailedStep

LEMMA MarkerClearedKeeps ==
    ASSUME ShelfInv, NEW removed \in BOOLEAN, MarkerCleared(removed) PROVE ShelfInv'
<1>1. /\ Typed /\ Tasks /\ Unhurt /\ Shut /\ Shown /\ Known /\ Missed /\ Noted /\ Drained
      /\ at = "clearing" /\ indexLane # <<>> /\ Running /\ Head(indexLane).does = "push"
  BY WorkRuns DEF ShelfInv, MarkerCleared, Typed, LaneTyped
<1>2. /\ Heard(TRUE) /\ spent' = Counted(removed) /\ marker' \in {{}, marker}
      /\ UNCHANGED <<record, index, row, dirty, moved, timer, snapshot, stage, kept, behind, carried, cut, deaf>>
  BY DEF MarkerCleared, history
<1>3. /\ at' = "waiting" /\ indexLane' = Tail(indexLane) /\ LaneTyped' /\ Tasks'
      /\ lane' = lane /\ doomed' = doomed /\ (PushWaits => PushWaits')
  BY <1>1, <1>2, HeardIs
<1>4. at' = "waiting" /\ LaneTyped' /\ Tasks' /\ lane' = lane /\ (doomed' <=> doomed) /\ (PushWaits => PushWaits')
  BY <1>3
<1>5. indexLane' = Tail(indexLane)
  BY <1>3
<1>6. spent' \in [changes : Nat, fails : Nat, crashes : Nat] /\ (spent'.fails = 0 => spent.fails = 0)
  BY <1>1, <1>2, CountedIs
<1>7. Running' /\ \A b \in Book : Repairs(b)' <=> Repairs(b)
  BY <1>1, <1>2, <1>4 DEF Running, Repairs
<1>8. Typed'
  <2>1. doomed' \in BOOLEAN
    BY <1>1, <1>3 DEF Typed
  <2> QED
    BY <1>1, <1>2, <1>4, <1>6, <2>1 DEF Typed
<1>9. Unhurt'
  <2>1. \A i \in 1 .. Len(indexLane') : i + 1 \in 1 .. Len(indexLane) /\ indexLane'[i] = indexLane[i + 1]
    BY <1>1, <1>5, FirstLeaves DEF Typed
  <2> QED
    BY <1>1, <1>2, <1>4, <1>6, <1>7, <2>1 DEF Unhurt
<1>10. Shut' /\ Shown'
  BY <1>1, <1>2, <1>4, <1>7 DEF Shut, Shown
<1>11. Known' /\ Taken' /\ Coming' /\ Missed'
  <2>1. \A b \in behind : b \in Book /\ WillBeTold(b)'
    BY <1>1, <1>2, <1>4 DEF Typed, Missed, WillBeTold, Cure
  <2> QED
    BY <1>1, <1>2, <1>4, <2>1 DEF Known, Taken, Coming, Missed
<1>12. Noted'
  <2>1. /\ NoMarks(indexLane') <=> NoMarks(indexLane)
        /\ LastMarks(indexLane, dirty) => LastMarks(indexLane', dirty)
    BY <1>1, <1>5, PushLeaves
  <2> QED
    BY <1>1, <1>2, <1>4, <2>1 DEF Noted
<1>13. Drained'
  <2>1. stage = "drained" => spent.fails # 0
    BY <1>1 DEF Drained
  <2> QED
    BY <1>1, <1>2, <1>4, <1>6, <2>1 DEF Drained
<1> QED
  BY <1>4, <1>8, <1>9, <1>10, <1>11, <1>12, <1>13 DEF ShelfInv

LEMMA MarkerRestatedKeeps ==
    ASSUME ShelfInv, NEW ok \in BOOLEAN, MarkerRestated(ok) PROVE ShelfInv'
<1>1. /\ Typed /\ Tasks /\ Unhurt /\ Shut /\ Shown /\ Known /\ Missed /\ Noted /\ Drained
      /\ at = "restating" /\ indexLane # <<>> /\ Running /\ Head(indexLane).does = "push"
  BY WorkRuns DEF ShelfInv, MarkerRestated, Typed, LaneTyped
<1>2. /\ Heard(ok) /\ spent' = Counted(ok) /\ marker' = (IF ok THEN dirty ELSE marker)
      /\ deaf' = (deaf \/ Unrepaired(ok))
      /\ UNCHANGED <<record, index, row, dirty, moved, timer, snapshot, stage, kept, behind, carried, cut>>
  BY DEF MarkerRestated
<1>3. CASE ~ok
  <2>1. /\ Heard(FALSE) /\ (Head(indexLane).by = "flush" => deaf') /\ deaf' \in BOOLEAN
        /\ spent' = Counted(FALSE)
        /\ UNCHANGED <<record, index, marker, row, dirty, moved, timer, snapshot, stage, kept, behind,
                       carried, cut>>
    BY <1>1, <1>2, <1>3 DEF Unrepaired, Typed
  <2>2. carried' = {} /\ marker' \subseteq Book /\ snapshot' \in Values /\ kept' \in Values
    BY <1>1, <2>1 DEF Typed, Missed
  <2> QED
    BY <1>1, <2>1, <2>2, FailedStep
<1>4. CASE ok
  <2>0. deaf' = deaf
    BY <1>1, <1>2, <1>4 DEF Unrepaired, Typed
  <2>1. /\ at' = "waiting" /\ indexLane' = Tail(indexLane) /\ LaneTyped' /\ Tasks'
        /\ lane' = lane /\ doomed' = doomed /\ (PushWaits => PushWaits')
    BY <1>1, <1>2, <1>4, HeardIs
  <2>2. at' = "waiting" /\ LaneTyped' /\ Tasks' /\ lane' = lane /\ (doomed' <=> doomed) /\ (PushWaits => PushWaits')
    BY <2>1
  <2>3. indexLane' = Tail(indexLane)
    BY <2>1
  <2>4. spent' \in [changes : Nat, fails : Nat, crashes : Nat] /\ (spent'.fails = 0 => spent.fails = 0)
    BY <1>1, <1>2, CountedIs
  <2>5. Running' /\ \A b \in Book : Repairs(b)' <=> Repairs(b)
    BY <1>1, <1>2, <2>2 DEF Running, Repairs
  <2>6. Typed'
    <3>1. doomed' \in BOOLEAN /\ marker' \subseteq Book
      BY <1>1, <1>2, <2>1 DEF Typed
    <3> QED
      BY <1>1, <1>2, <2>0, <2>2, <2>4, <3>1 DEF Typed
  <2>7. Unhurt'
    <3>1. \A i \in 1 .. Len(indexLane') : i + 1 \in 1 .. Len(indexLane) /\ indexLane'[i] = indexLane[i + 1]
      BY <1>1, <2>3, FirstLeaves DEF Typed
    <3> QED
      BY <1>1, <1>2, <2>0, <2>2, <2>4, <2>5, <3>1 DEF Unhurt
  <2>8. Shut' /\ Shown'
    BY <1>1, <1>2, <2>2, <2>5 DEF Shut, Shown
  <2>9. Known' /\ Taken' /\ Coming' /\ Missed'
    <3>1. \A b \in behind : b \in Book /\ WillBeTold(b)'
      BY <1>1, <1>2, <2>2 DEF Typed, Missed, WillBeTold, Cure
    <3> QED
      BY <1>1, <1>2, <2>2, <3>1 DEF Known, Taken, Coming, Missed
  <2>10. Noted'
    <3>1. /\ NoMarks(indexLane') <=> NoMarks(indexLane)
          /\ LastMarks(indexLane, dirty) => LastMarks(indexLane', dirty)
      BY <1>1, <2>3, PushLeaves
    <3> QED
      BY <1>1, <1>2, <1>4, <2>2, <3>1 DEF Noted
  <2>11. Drained'
    <3>1. stage = "drained" => spent.fails # 0
      BY <1>1 DEF Drained
    <3> QED
      BY <1>1, <1>2, <2>2, <2>4, <3>1 DEF Drained
  <2> QED
    BY <2>2, <2>6, <2>7, <2>8, <2>9, <2>10, <2>11 DEF ShelfInv
<1> QED
  BY <1>3, <1>4

LEMMA MarkerWrittenKeeps ==
    ASSUME ShelfInv, NEW ok \in BOOLEAN, MarkerWritten(ok) PROVE ShelfInv'
<1>1. /\ Typed /\ Tasks /\ Unhurt /\ Shut /\ Shown /\ Known /\ Coming /\ Missed /\ Noted /\ Drained
      /\ at = "waiting" /\ indexLane # <<>> /\ Running /\ Head(indexLane).does = "mark"
      /\ indexLane \in Seq(IndexTask)
  BY WorkRuns DEF ShelfInv, MarkerWritten, Typed, LaneTyped
<1>2. /\ Heard(ok) /\ spent' = Counted(ok) /\ marker' = (IF ok THEN Head(indexLane).names ELSE marker)
      /\ UNCHANGED <<record, index, row, dirty, moved, timer, snapshot, stage, behind, carried, cut>>
      /\ deaf' = (deaf \/ (ok /\ ~(OnlyMarked \subseteq Head(indexLane).names)))
  BY DEF MarkerWritten
<1>3. Head(indexLane) \in IndexTask /\ Head(indexLane) = indexLane[1] /\ 1 \in 1 .. Len(indexLane)
  BY <1>1
<1>4. Head(indexLane).names \subseteq Book /\ Head(indexLane).value \in Nat
  BY <1>3 DEF IndexTask
<1>5. kept' \in Values
  <2>1. kept' = [b \in Book |-> IF ok /\ b \in Head(indexLane).of /\ kept[b] < Head(indexLane).value
                                THEN Head(indexLane).value ELSE kept[b]]
    BY DEF MarkerWritten
  <2>2. \A b \in Book : kept[b] \in Nat
    BY <1>1 DEF Typed, Values
  <2> QED
    BY <1>4, <2>1, <2>2 DEF Values
<1>6. CASE ~ok
  <2>1. Head(indexLane).by # "flush"
    BY <1>1, <1>3 DEF Tasks
  <2>2. /\ Heard(FALSE) /\ spent' = Counted(FALSE)
        /\ UNCHANGED <<record, index, marker, row, dirty, moved, timer, snapshot, stage, behind, carried, cut>>
        /\ deaf' \in BOOLEAN
    BY <1>1, <1>2, <1>6 DEF Typed
  <2>3. carried' = {} /\ marker' \subseteq Book /\ snapshot' \in Values
    BY <1>1, <2>2 DEF Typed, Missed
  <2> QED
    BY <1>1, <1>5, <2>1, <2>2, <2>3, FailedStep
<1>7. CASE ok
  <2>1. /\ at' = "waiting" /\ indexLane' = Tail(indexLane) /\ LaneTyped' /\ Tasks'
        /\ lane' = lane /\ doomed' = doomed /\ (PushWaits => PushWaits')
    BY <1>1, <1>2, <1>7, HeardIs
  <2>2. at' = "waiting" /\ LaneTyped' /\ Tasks' /\ lane' = lane /\ (doomed' <=> doomed) /\ (PushWaits => PushWaits')
    BY <2>1
  <2>3. indexLane' = Tail(indexLane)
    BY <2>1
  <2>4. spent' \in [changes : Nat, fails : Nat, crashes : Nat] /\ (spent'.fails = 0 => spent.fails = 0)
    BY <1>1, <1>2, CountedIs
  <2>5. Running' /\ \A b \in Book : Repairs(b)' <=> Repairs(b)
    BY <1>1, <1>2, <2>2 DEF Running, Repairs
  <2>6. Typed'
    <3>1. doomed' \in BOOLEAN /\ marker' \subseteq Book /\ deaf' \in BOOLEAN
      BY <1>1, <1>2, <1>4, <2>1 DEF Typed
    <3> QED
      BY <1>1, <1>2, <1>5, <2>2, <2>4, <3>1 DEF Typed
  <2>7. Unhurt'
    <3>1. \A i \in 1 .. Len(indexLane') : i + 1 \in 1 .. Len(indexLane) /\ indexLane'[i] = indexLane[i + 1]
      BY <1>1, <2>3, FirstLeaves DEF Typed
    <3> QED
      BY <1>1, <1>2, <2>2, <2>4, <2>5, <3>1 DEF Unhurt
  <2>8. Shut' /\ Shown'
    BY <1>1, <1>2, <2>2, <2>5 DEF Shut, Shown
  <2>9. Cure => Cure'
    BY <2>2, <2>5 DEF Cure
  <2>10. Known' /\ Taken' /\ Missed'
    BY <1>1, <1>2, <2>2 DEF Known, Taken, Missed
  <2>13. Coming'
    <3>1. \A b \in Book : WillBeTold(b) => WillBeTold(b)'
      BY <1>1, <1>2, <2>2, <2>9 DEF WillBeTold
    <3>2. ASSUME NEW b \in behind, ~deaf', b \in marker PROVE b \in dirty \/ b \in marker'
      BY <1>2, <1>7, <3>2 DEF OnlyMarked
    <3>3. \A b \in behind : b \in Book /\ (b \in dirty => WillBeTold(b)')
      BY <1>1, <1>2 DEF WillBeTold, Typed
    <3>4. ~deaf' => ~deaf
      BY <1>2
    <3> QED
      BY <1>1, <1>2, <2>4, <2>5, <3>1, <3>2, <3>3, <3>4 DEF Coming
  <2>11. Noted'
    <3>1. PICK q : q = Tail(indexLane)
      OBVIOUS
    <3>2. LaneTyped
      BY <1>1 DEF Typed
    <3>3. LastMarks(indexLane, dirty) => LastMarks(q, dirty) \/ (NoMarks(q) /\ dirty \subseteq Head(indexLane).names)
      BY <1>1, <3>1, <3>2, FirstLeaves
    <3>4. ~NoMarks(indexLane)
      BY <1>1, <1>3 DEF NoMarks
    <3>5. LastMarks(q, dirty) => ~NoMarks(q)
      BY DEF LastMarks, NoMarks
    <3>6. LastMarks(q, dirty) \/ (NoMarks(q) /\ dirty \subseteq marker')
      BY <1>1, <1>2, <1>7, <3>3, <3>4 DEF Noted
    <3>7. indexLane' = q
      BY <2>3, <3>1
    <3> QED
      BY <1>2, <2>2, <3>5, <3>6, <3>7 DEF Noted
  <2>12. Drained'
    <3>1. stage = "drained" => spent.fails # 0
      BY <1>1 DEF Drained
    <3> QED
      BY <1>1, <1>2, <2>2, <2>4, <3>1 DEF Drained
  <2> QED
    BY <2>2, <2>6, <2>7, <2>8, <2>10, <2>11, <2>12, <2>13 DEF ShelfInv
<1> QED
  BY <1>6, <1>7

LEMMA InvalidateKeeps ==
    ASSUME ShelfInv, NEW removed \in BOOLEAN, Invalidate(removed) PROVE ShelfInv'
<1>1. Typed /\ Tasks /\ Unhurt /\ Shut /\ Shown /\ Known /\ Taken /\ Coming /\ Missed /\ Noted
      /\ Drained /\ doomed /\ Running
  BY WorkRuns DEF ShelfInv, Invalidate
<1>2. /\ doomed' = FALSE /\ index' = (IF removed THEN NoIndex ELSE index) /\ deaf' = (deaf \/ ~removed)
      /\ spent' = Counted(removed)
      /\ UNCHANGED <<record, marker, row, dirty, moved, timer, lane, indexLane, at, snapshot, stage, kept,
                     behind, carried, cut>>
  BY DEF Invalidate
<1>3. /\ spent' \in [changes : Nat, fails : Nat, crashes : Nat] /\ (spent'.fails = 0 => spent.fails = 0)
      /\ spent.fails # 0
  BY <1>1, <1>2, CountedIs DEF Unhurt
<1>4. Running' /\ (PushWaits => PushWaits')
  BY <1>1, <1>2 DEF Running, PushWaits
<1>5. Typed' /\ Tasks'
  <2>1. LaneTyped'
    BY <1>1, <1>2 DEF Typed, LaneTyped
  <2> QED
    BY <1>1, <1>2, <1>3, <2>1 DEF Typed, Tasks
<1>6. Unhurt' /\ Shut' /\ Shown' /\ Drained'
  BY <1>1, <1>2, <1>3, <1>4 DEF Unhurt, Shut, Shown, Drained
<1>7. Known' /\ Taken' /\ Coming' /\ Missed' /\ Noted'
  <2>1. ~deaf' => index' = NoIndex
    BY <1>2
  <2> QED
    BY <1>1, <1>2, <1>3, <1>4, <2>1 DEF Known, Taken, Coming, WillBeTold, Missed, Noted
<1> QED
  BY <1>5, <1>6, <1>7 DEF ShelfInv

\* One more at the end of a lane.
LEMMA QueuedIs ==
    ASSUME NEW s \in Seq(BookTask), NEW c \in BookTask
    PROVE  /\ Append(s, c) \in Seq(BookTask) /\ Append(s, c) # <<>>
           /\ \A i \in 1 .. Len(s) : i \in 1 .. Len(Append(s, c)) /\ Append(s, c)[i] = s[i]
           /\ \A i \in 1 .. Len(Append(s, c)) : Append(s, c)[i] = c \/ i \in 1 .. Len(s)
<1>1. PICK t : t = Append(s, c)
  OBVIOUS
<1>2. /\ t \in Seq(BookTask) /\ Len(t) = Len(s) + 1 /\ t[Len(t)] = c /\ Len(s) \in Nat
      /\ \A i \in 1 .. Len(s) : t[i] = s[i]
  BY <1>1
<1>3. t # <<>> /\ (\A i \in 1 .. Len(s) : i \in 1 .. Len(t)) /\ \A i \in 1 .. Len(t) : i = Len(t) \/ i \in 1 .. Len(s)
  BY <1>2
<1> QED
  BY <1>1, <1>2, <1>3

LEMMA ChangeKeeps ==
    ASSUME ShelfInv, NEW b \in Book, NEW what \in {"tick", "now"}, Change(b, what) PROVE ShelfInv'
<1>1. Typed /\ Tasks /\ Unhurt /\ Shut /\ Shown /\ Known /\ Taken /\ Coming /\ Missed /\ Noted
      /\ Drained /\ Running
  BY DEF ShelfInv, Change, Running
<1>2. /\ stage = "open"
      /\ row' = [row EXCEPT ![b] = @ + 1] /\ lane' = [lane EXCEPT ![b] = Append(@, what)]
      /\ spent' = [spent EXCEPT !.changes = @ + 1]
      /\ UNCHANGED <<record, index, marker, dirty, moved, timer, indexLane, at, snapshot, doomed, stage, kept,
                     behind, carried, cut, deaf>>
  BY DEF Change, history
<1>3. what \in BookTask /\ lane[b] \in Seq(BookTask) /\ lane \in [Book -> Seq(BookTask)] /\ row \in [Book -> Nat]
  BY <1>1 DEF Typed, BookTask, Values
<1>4. PICK t : t = Append(lane[b], what)
  OBVIOUS
<1>5. /\ t \in Seq(BookTask) /\ t # <<>>
      /\ \A i \in 1 .. Len(lane[b]) : i \in 1 .. Len(t) /\ t[i] = lane[b][i]
      /\ \A i \in 1 .. Len(t) : t[i] = what \/ (i \in 1 .. Len(lane[b]))
  BY <1>3, <1>4, QueuedIs
<1>6. lane'[b] = t /\ lane' \in [Book -> Seq(BookTask)] /\ row' \in Values
      /\ \A c \in Book : c # b => lane'[c] = lane[c] /\ row'[c] = row[c]
  BY <1>2, <1>3, <1>4, <1>5 DEF Values
<1>7. \A c \in Book : Repairs(c)' <=> Repairs(c)
  <2>1. Repairs(b)' <=> Repairs(b)
    BY <1>5, <1>6 DEF Repairs
  <2> QED
    BY <1>6, <2>1 DEF Repairs
<1>8. /\ spent' \in [changes : Nat, fails : Nat, crashes : Nat] /\ spent'.fails = spent.fails
  <2>1. spent \in [changes : Nat, fails : Nat, crashes : Nat]
    BY <1>1 DEF Typed
  <2> QED
    BY <1>2, <2>1
<1>9. Running' /\ (PushWaits => PushWaits')
  BY <1>1, <1>2 DEF Running, PushWaits
<1>10. Typed' /\ Tasks'
  <2>1. LaneTyped'
    BY <1>1, <1>2 DEF Typed, LaneTyped
  <2> QED
    BY <1>1, <1>2, <1>6, <1>8, <2>1 DEF Typed, Tasks
<1>11. Unhurt' /\ Drained' /\ Shut'
  BY <1>1, <1>2, <1>7, <1>8, <1>9 DEF Unhurt, Drained, Shut
<1>12. \A c \in Book : lane[c] # <<>> => lane'[c] # <<>>
  BY <1>5, <1>6
<1>13. Shown'
  BY <1>1, <1>2, <1>5, <1>6 DEF Shown
<1>14. Cure => Cure'
  BY <1>2, <1>7, <1>9 DEF Cure
<1>15. Known' /\ Taken' /\ Coming' /\ Missed' /\ Noted'
  BY <1>1, <1>2, <1>9, <1>12, <1>14 DEF Known, Taken, Coming, WillBeTold, Missed, Noted, Typed
<1> QED
  BY <1>10, <1>11, <1>13, <1>15 DEF ShelfInv

LEMMA TickLandsKeeps == ASSUME ShelfInv, NEW b \in Book, TickLands(b) PROVE ShelfInv'
<1>1. Typed /\ Tasks /\ Unhurt /\ Shut /\ Shown /\ Known /\ Taken /\ Coming /\ Missed /\ Noted
      /\ Drained
  BY DEF ShelfInv
<1>2. /\ Writes(b) /\ Land(b)
      /\ dirty' = dirty \cup {b} /\ moved' = TRUE /\ timer' = TRUE /\ indexLane' = Mark(b)
      /\ UNCHANGED <<index, marker, at, snapshot, doomed, stage, deaf, spent>>
  BY DEF TickLands
<1>3. /\ record' \in Values /\ row' \in Values /\ lane' \in [Book -> Seq(BookTask)]
      /\ row'[b] = record'[b]
      /\ \A c \in Book : c # b => row'[c] = row[c] /\ record'[c] = record[c] /\ lane'[c] = lane[c]
      /\ \A c \in Book : Repairs(c)' <=> Repairs(c)
      /\ lane[b] # <<>>
      /\ behind' = behind \cup {b} /\ carried' = carried \ {b} /\ cut' = cut \ {b}
  BY <1>1, <1>2, LandIs
<1>4. Running /\ Running'
  BY <1>1, <1>2, <1>3, WorkRuns DEF Running
<1>5. kept' \in Values
  BY <1>1 DEF TickLands, Typed, Values
<1>6. /\ LaneTyped' /\ Tasks' /\ (PushWaits => PushWaits')
      /\ NoMarks(indexLane') => NoMarks(indexLane) /\ dirty' = dirty
      /\ NoMarks(indexLane') \/ LastMarks(indexLane', dirty')
      /\ (\A i \in 1 .. Len(indexLane) : indexLane[i].by # "repair") =>
            \A i \in 1 .. Len(indexLane') : indexLane'[i].by # "repair"
  <2>1. CASE b \in dirty
    <3>1. indexLane' = indexLane /\ dirty' = dirty /\ at' = at
      BY <1>2, <2>1 DEF Mark, Joined
    <3>2. LaneTyped'
      BY <1>1, <3>1 DEF Typed, LaneTyped
    <3>3. Tasks' /\ (PushWaits => PushWaits')
      BY <1>1, <3>1 DEF Tasks, PushWaits
    <3> QED
      BY <1>1, <3>1, <3>2, <3>3 DEF Noted
  <2>2. CASE b \notin dirty
    <3>1. PICK m : m = [does |-> "mark", by |-> "commit", of |-> {b}, names |-> dirty \cup {b}, value |-> record[b] + 1]
      OBVIOUS
    <3>2. m \in IndexTask /\ m.does = "mark" /\ m.by = "commit" /\ m.of = {b} /\ m.names = dirty'
      BY <1>1, <1>2, <3>1 DEF IndexTask, Typed, Values
    <3>3. PICK q : q = Append(indexLane, m)
      OBVIOUS
    <3>4. indexLane' = q
      BY <1>2, <2>2, <3>1, <3>3 DEF Mark, Joined
    <3>5. LaneTyped
      BY <1>1 DEF Typed
    <3>6. /\ q \in Seq(IndexTask) /\ q # <<>> /\ ~NoMarks(q) /\ LastMarks(q, m.names)
          /\ \A i \in 1 .. Len(indexLane) : i \in 1 .. Len(q) /\ q[i] = indexLane[i]
          /\ \A i \in 1 .. Len(q) : q[i] = m \/ i \in 1 .. Len(indexLane)
          /\ indexLane # <<>> => Head(q) = Head(indexLane)
      BY <3>2, <3>3, <3>5, MarkJoins
    <3>7. LaneTyped'
      BY <1>2, <3>4, <3>5, <3>6 DEF LaneTyped
    <3>8. Tasks'
      <4>1. \A i \in 1 .. Len(q) : (q[i].does = "mark" => q[i].by = "commit") /\ (q[i].by = "commit" => q[i].of # {})
        BY <1>1, <3>2, <3>6 DEF Tasks
      <4> QED
        BY <3>4, <4>1 DEF Tasks
    <3>9. PushWaits => PushWaits'
      BY <1>2, <3>4, <3>6 DEF PushWaits
    <3>10. ASSUME \A i \in 1 .. Len(indexLane) : indexLane[i].by # "repair"
           PROVE  \A i \in 1 .. Len(q) : q[i].by # "repair"
      BY <3>2, <3>6, <3>10
    <3> QED
      BY <3>2, <3>4, <3>6, <3>7, <3>8, <3>9, <3>10
  <2> QED
    BY <2>1, <2>2
<1>7. Typed'
  <2>1. dirty' \subseteq Book /\ behind' \subseteq Book /\ carried' \subseteq behind' /\ cut' \subseteq Book
    BY <1>1, <1>2, <1>3 DEF Typed
  <2> QED
    BY <1>1, <1>2, <1>3, <1>5, <1>6, <2>1 DEF Typed
<1>8. Unhurt' /\ Shut'
  BY <1>1, <1>2, <1>3, <1>4, <1>6 DEF Unhurt, Shut
<1>9. Shown'
  BY <1>1, <1>3, <1>4 DEF Shown
<1>10. Cure => Cure'
  BY <1>2, <1>3, <1>6 DEF Cure
<1>11. Known' /\ Taken' /\ Coming' /\ Missed'
  <2>1. ASSUME NEW c \in Book, c # b
        PROVE  /\ record'[c] = record[c] /\ lane'[c] = lane[c] /\ (c \in dirty => c \in dirty')
               /\ (c \in behind' <=> c \in behind) /\ (c \in carried' <=> c \in carried) /\ (c \in cut' <=> c \in cut)
    BY <1>2, <1>3, <2>1
  <2>2. b \in behind' /\ b \notin carried' /\ b \in dirty' /\ moved' = TRUE
    BY <1>2, <1>3
  <2>3. Known'
    BY <1>1, <1>2, <1>4, <2>1, <2>2 DEF Known
  <2>4. Taken'
    BY <1>1, <1>2, <2>1, <2>2 DEF Taken
  <2>5. behind' \subseteq Book
    BY <1>7 DEF Typed
  <2>6. Coming'
    BY <1>1, <1>2, <1>4, <1>10, <2>1, <2>2, <2>5 DEF Coming, WillBeTold
  <2>7. Missed'
    BY <1>1, <1>2, <1>3, <1>6, <2>1, <2>2, <2>5 DEF Missed
  <2> QED
    BY <2>3, <2>4, <2>6, <2>7
<1>12. Noted'
  BY <1>1, <1>2, <1>6, <1>10 DEF Noted
<1>13. Drained'
  BY <1>1, <1>2, <1>3 DEF Drained
<1> QED
  BY <1>6, <1>7, <1>8, <1>9, <1>11, <1>12, <1>13 DEF ShelfInv

\* What is on its way to the index when a push has joined the lane.
LEMMA PushedKeeps ==
    ASSUME ShelfInv, Running, Running', at' = at, index' = index, marker' = marker, dirty' = dirty, moved' = moved,
           doomed' = doomed, PushWaits', indexLane' # <<>>, Typed', Tasks', Shown', Known', Taken', deaf' = deaf,
           carried' \subseteq carried,
           NoMarks(indexLane) => NoMarks(indexLane'), LastMarks(indexLane, dirty) => LastMarks(indexLane', dirty),
           spent'.fails = 0 =>
              /\ spent.fails = 0
              /\ \A c \in Book : Repairs(c)' => Repairs(c)
              /\ \A i \in 1 .. Len(indexLane') : indexLane'[i].by # "repair",
           Drained'
    PROVE  ShelfInv'
<1>1. Unhurt /\ Missed /\ Noted /\ Drained
  BY DEF ShelfInv
<1>2. Cure'
  BY DEF Cure
<1>3. Unhurt'
  BY <1>1 DEF Unhurt
<1>4. Shut' /\ Coming' /\ Missed'
  BY <1>1, <1>2 DEF Shut, Coming, WillBeTold, Missed
<1>5. Noted'
  <2>1. NoMarks(indexLane') \/ LastMarks(indexLane', dirty')
    BY <1>1 DEF Noted
  <2>2. at = "clearing" /\ NoMarks(indexLane') => dirty = {}
    <3>1. LastMarks(indexLane, dirty) => ~NoMarks(indexLane')
      BY DEF LastMarks, NoMarks
    <3> QED
      BY <1>1, <3>1 DEF Noted
  <2> QED
    BY <1>2, <2>1, <2>2 DEF Noted
<1> QED
  BY <1>3, <1>4, <1>5 DEF ShelfInv

LEMMA ChangeLandsKeeps == ASSUME ShelfInv, NEW b \in Book, ChangeLands(b) PROVE ShelfInv'
<1>1. Typed /\ Tasks /\ Unhurt /\ Shut /\ Shown /\ Known /\ Taken /\ Drained
  BY DEF ShelfInv
<1>2. /\ Writes(b) /\ Land(b) /\ indexLane' = Push("commit", {b})
      /\ UNCHANGED <<index, marker, dirty, moved, timer, at, snapshot, doomed, stage, kept, deaf, spent>>
  BY DEF ChangeLands
<1>3. /\ record' \in Values /\ row' \in Values /\ lane' \in [Book -> Seq(BookTask)]
      /\ row'[b] = record'[b]
      /\ \A c \in Book : c # b => row'[c] = row[c] /\ record'[c] = record[c] /\ lane'[c] = lane[c]
      /\ \A c \in Book : Repairs(c)' <=> Repairs(c)
      /\ lane[b] # <<>>
      /\ behind' = behind \cup {b} /\ carried' = carried \ {b} /\ cut' = cut \ {b}
  BY <1>1, <1>2, LandIs
<1>4. Running /\ Running'
  BY <1>1, <1>2, <1>3, WorkRuns DEF Running
<1>5. /\ LaneTyped' /\ Tasks' /\ PushWaits' /\ indexLane' # <<>>
      /\ NoMarks(indexLane) => NoMarks(indexLane')
      /\ \A D : LastMarks(indexLane, D) => LastMarks(indexLane', D)
      /\ (\A i \in 1 .. Len(indexLane) : indexLane[i].by # "repair") =>
            \A i \in 1 .. Len(indexLane') : indexLane'[i].by # "repair"
  <2>1. {b} \in SUBSET Book /\ {b} # {} /\ at' = at
    BY <1>2
  <2> QED
    BY <1>1, <1>2, <2>1, PushedIs
<1>6. Typed'
  BY <1>1, <1>2, <1>3, <1>5 DEF Typed
<1>7. Shown' /\ Known' /\ Taken'
  BY <1>1, <1>2, <1>3, <1>4 DEF Shown, Known, Taken
<1>8. Drained'
  BY <1>1, <1>2, <1>3 DEF Drained
<1> QED
  BY <1>1, <1>2, <1>3, <1>4, <1>5, <1>6, <1>7, <1>8, PushedKeeps DEF Unhurt

LEMMA ChangeFailsKeeps ==
    ASSUME ShelfInv, NEW b \in Book, NEW landed \in BOOLEAN, ChangeFails(b, landed) PROVE ShelfInv'
<1>1. Typed /\ Tasks /\ Unhurt /\ Shut /\ Shown /\ Known /\ Taken /\ Coming /\ Missed /\ Noted
      /\ Drained
  BY DEF ShelfInv
<1>2. /\ Writes(b)
      /\ record' = [record EXCEPT ![b] = IF landed THEN @ + 1 ELSE @]
      /\ lane' = [lane EXCEPT ![b] = Append(Tail(@), "repair")]
      /\ spent' = Counted(FALSE)
      /\ UNCHANGED <<index, marker, row, dirty, moved, timer, indexLane, at, snapshot, doomed, stage, kept,
                     behind, carried, cut, deaf>>
  BY DEF ChangeFails, history
<1>3. lane[b] # <<>> /\ lane[b] \in Seq(BookTask) /\ lane \in [Book -> Seq(BookTask)] /\ record \in [Book -> Nat]
      /\ Head(lane[b]) # "repair"
  BY <1>1, <1>2 DEF Typed, Values, Writes, Next1
<1>4. PICK t : t = Tail(lane[b])
  OBVIOUS
<1>5. /\ t \in Seq(BookTask) /\ Len(lane[b]) \in Nat /\ Len(t) = Len(lane[b]) - 1
      /\ lane[b][1] # "repair" /\ \A i \in 1 .. Len(t) : t[i] = lane[b][i + 1]
  BY <1>3, <1>4
<1>6. "repair" \in BookTask
  BY DEF BookTask
<1>7. PICK u : u = Append(t, "repair")
  OBVIOUS
<1>8. /\ u \in Seq(BookTask) /\ u # <<>> /\ Len(u) \in 1 .. Len(u) /\ u[Len(u)] = "repair"
  BY <1>5, <1>6, <1>7
<1>9. lane'[b] = u /\ lane' \in [Book -> Seq(BookTask)] /\ \A c \in Book : c # b => lane'[c] = lane[c]
  BY <1>2, <1>3, <1>4, <1>7, <1>8
<1>10. record' \in Values /\ \A c \in Book : c # b => record'[c] = record[c]
  BY <1>2, <1>3 DEF Values
<1>11. Repairs(b)' /\ \A c \in Book : Repairs(c) => Repairs(c)'
  BY <1>8, <1>9 DEF Repairs
<1>12. Running /\ Running' /\ (PushWaits => PushWaits')
  BY <1>1, <1>2, <1>3, WorkRuns DEF Running, PushWaits
<1>13. spent' \in [changes : Nat, fails : Nat, crashes : Nat] /\ spent'.fails # 0
  BY <1>1, <1>2, CountedIs
<1>14. Typed' /\ Tasks'
  <2>1. LaneTyped'
    BY <1>1, <1>2 DEF Typed, LaneTyped
  <2> QED
    BY <1>1, <1>2, <1>9, <1>10, <1>13, <2>1 DEF Typed, Tasks
<1>15. Unhurt' /\ Drained' /\ Shut'
  BY <1>12, <1>13 DEF Unhurt, Drained, Shut
<1>16. Cure'
  BY <1>11 DEF Cure
<1>17. Shown'
  BY <1>1, <1>2, <1>8, <1>9, <1>10, <1>12 DEF Shown
<1>18. Known' /\ Taken' /\ Missed'
  BY <1>1, <1>2, <1>8, <1>9, <1>10, <1>12 DEF Known, Taken, Missed, Typed
<1>19. Coming' /\ Noted'
  BY <1>1, <1>2, <1>16 DEF Coming, WillBeTold, Noted
<1> QED
  BY <1>14, <1>15, <1>17, <1>18, <1>19 DEF ShelfInv

LEMMA RepairKeeps == ASSUME ShelfInv, NEW b \in Book, Repair(b) PROVE ShelfInv'
<1>1. Typed /\ Tasks /\ Unhurt /\ Shut /\ Shown /\ Known /\ Taken /\ Drained
  BY DEF ShelfInv
<1>2. /\ lane[b] # <<>> /\ Head(lane[b]) = "repair" /\ indexLane' = Push("repair", {b})
      /\ row' = [row EXCEPT ![b] = record[b]] /\ lane' = [lane EXCEPT ![b] = Tail(@)]
      /\ UNCHANGED <<record, index, marker, dirty, moved, timer, at, snapshot, doomed, stage, kept, deaf, spent>>
      /\ behind' = behind \cup {b} /\ carried' = carried \ {b} /\ cut' = cut \ {b}
  BY DEF Repair, Next1, Truth, IndexLags
<1>3. lane[b] \in Seq(BookTask) /\ lane \in [Book -> Seq(BookTask)] /\ record \in [Book -> Nat] /\ row \in [Book -> Nat]
  BY <1>1 DEF Typed, Values
<1>4. /\ row' \in Values /\ row'[b] = record[b] /\ lane' \in [Book -> Seq(BookTask)]
      /\ \A c \in Book : c # b => row'[c] = row[c] /\ lane'[c] = lane[c]
  BY <1>2, <1>3 DEF Values
<1>5. Repairs(b)
  <2>1. 1 \in 1 .. Len(lane[b]) /\ lane[b][1] = "repair"
    BY <1>2, <1>3
  <2> QED
    BY <2>1 DEF Repairs
<1>6. Running /\ Running'
  BY <1>1, <1>2, WorkRuns DEF Running
<1>7. spent'.fails # 0
  BY <1>1, <1>2, <1>5 DEF Unhurt
<1>8. /\ LaneTyped' /\ Tasks' /\ PushWaits' /\ indexLane' # <<>>
      /\ NoMarks(indexLane) => NoMarks(indexLane')
      /\ \A D : LastMarks(indexLane, D) => LastMarks(indexLane', D)
  <2>1. {b} \in SUBSET Book /\ at' = at
    BY <1>2
  <2> QED
    BY <1>1, <1>2, <2>1, PushedIs
<1>9. Typed'
  BY <1>1, <1>2, <1>4, <1>8 DEF Typed
<1>10. Shown' /\ Known' /\ Taken'
  BY <1>1, <1>2, <1>4, <1>6 DEF Shown, Known, Taken
<1>11. Drained'
  BY <1>7 DEF Drained
<1> QED
  BY <1>2, <1>6, <1>7, <1>8, <1>9, <1>10, <1>11, PushedKeeps

\* A flush, whoever calls it.
LEMMA FlushKeeps ==
    ASSUME ShelfInv, Running, FlushIndex,
           stage' = stage \/ stage' = "flushed" \/ (stage' = "again" /\ Idle),
           UNCHANGED <<record, index, marker, row, dirty, moved, lane, at, snapshot, doomed, kept, behind, carried, cut,
                     deaf, spent>>
    PROVE  ShelfInv'
<1>1. Typed /\ Tasks /\ Unhurt /\ Shut /\ Shown /\ Known /\ Taken /\ Coming /\ Missed /\ Noted
      /\ Drained
  BY DEF ShelfInv
<1>2. timer' = FALSE /\ indexLane' = (IF PushesOne THEN Push("flush", {}) ELSE indexLane)
  BY DEF FlushIndex
<1>3. Running' /\ \A c \in Book : Repairs(c)' <=> Repairs(c)
  BY DEF Running, Repairs
<1>4. Shown' /\ Known' /\ Taken' /\ stage' \in {"closed", "open", "flushed", "again", "drained"}
  BY <1>1, <1>3 DEF Shown, Known, Taken, Typed
<1>5. CASE PushesOne
  <2>1. indexLane' = Push("flush", {}) /\ {} \in SUBSET Book /\ dirty # {} /\ at' = at
    BY <1>2, <1>5 DEF PushesOne
  <2>2. /\ LaneTyped' /\ Tasks' /\ PushWaits' /\ indexLane' # <<>>
        /\ NoMarks(indexLane) => NoMarks(indexLane')
        /\ \A D : LastMarks(indexLane, D) => LastMarks(indexLane', D)
        /\ (\A i \in 1 .. Len(indexLane) : indexLane[i].by # "repair") =>
              \A i \in 1 .. Len(indexLane') : indexLane'[i].by # "repair"
    BY <1>1, <2>1, PushedIs
  <2>3. Typed'
    BY <1>1, <1>2, <1>4, <2>2 DEF Typed
  <2>4. Drained'
    BY <1>1, <2>1, <2>2 DEF Drained, Idle
  <2> QED
    BY <1>1, <1>3, <1>4, <2>2, <2>3, <2>4, PushedKeeps DEF Unhurt
<1>6. CASE ~PushesOne
  <2>1. indexLane' = indexLane
    BY <1>2, <1>6
  <2>2. LaneTyped' /\ (PushWaits => PushWaits')
    BY <1>1, <2>1 DEF Typed, LaneTyped, PushWaits
  <2>3. Typed' /\ Tasks'
    BY <1>1, <1>2, <1>4, <2>1, <2>2 DEF Typed, Tasks
  <2>4. Cure => Cure'
    BY <1>3, <2>2 DEF Cure
  <2>5. Unhurt' /\ Shut'
    BY <1>1, <1>3, <2>1 DEF Unhurt, Shut
  <2>6. Coming' /\ Missed'
    BY <1>1, <2>2, <2>4 DEF Coming, WillBeTold, Missed
  <2>7. Noted'
    BY <1>1, <2>1, <2>2, <2>4 DEF Noted
  <2>8. Drained'
    <3>1. ASSUME Idle PROVE dirty = {} /\ indexLane = <<>>
      <4>1. Len(indexLane) = 0 /\ 1 .. 0 = {}
        BY <3>1 DEF Idle
      <4> QED
        BY <1>6, <3>1, <4>1 DEF PushesOne, Flushing, Idle
    <3> QED
      BY <1>1, <2>1, <2>2, <3>1 DEF Drained, Idle
  <2> QED
    BY <1>4, <2>3, <2>5, <2>6, <2>7, <2>8 DEF ShelfInv
<1> QED
  BY <1>5, <1>6


LEMMA DrainKeeps ==
    ASSUME ShelfInv, Drain("open", "flushed") \/ Drain("flushed", "again") \/ Drain("again", "drained")
    PROVE  ShelfInv'
<1>1. Running
  BY DEF Drain, Running
<1>2. CASE Drain("open", "flushed") \/ Drain("flushed", "again")
  <2>1. /\ FlushIndex /\ (stage' = "flushed" \/ (stage' = "again" /\ Idle))
        /\ UNCHANGED <<record, index, marker, row, dirty, moved, lane, at, snapshot, doomed, kept, behind, carried,
                       cut, deaf, spent>>
    BY <1>2 DEF Drain, Flushes, history
  <2> QED
    BY <1>1, <2>1, FlushKeeps
<1>3. CASE Drain("again", "drained")
  <2>1. Typed /\ Tasks /\ Unhurt /\ Shut /\ Shown /\ Known /\ Taken /\ Coming /\ Missed /\ Noted
        /\ Drained
    BY DEF ShelfInv
  <2>2. /\ stage = "again" /\ stage' = "drained" /\ Idle
        /\ UNCHANGED <<record, index, marker, row, dirty, moved, timer, lane, indexLane, at, snapshot, doomed, kept,
                       behind, carried, cut, deaf, spent>>
    BY <1>3 DEF Drain, Flushes, history
  <2>3. Running' /\ (PushWaits <=> PushWaits') /\ \A b \in Book : Repairs(b)' <=> Repairs(b)
    BY <2>2 DEF Running, PushWaits, Repairs
  <2>4. indexLane = <<>> /\ at = "waiting" /\ ~PushWaits
    <3>1. indexLane = <<>> /\ Len(indexLane) = 0 /\ 1 .. 0 = {}
      BY <2>2 DEF Idle
    <3> QED
      BY <2>1, <3>1 DEF Typed, LaneTyped, PushWaits
  <2>5. Typed' /\ Tasks'
    <3>1. LaneTyped'
      BY <2>1, <2>2 DEF Typed, LaneTyped
    <3> QED
      BY <2>1, <2>2, <3>1 DEF Typed, Tasks
  <2>6. Unhurt' /\ Shut' /\ Shown'
    BY <1>1, <2>1, <2>2, <2>3 DEF Unhurt, Shut, Shown
  <2>7. Cure => Cure'
    BY <2>2, <2>3 DEF Cure
  <2>8. Known' /\ Taken' /\ Coming' /\ Missed' /\ Noted'
    BY <1>1, <2>1, <2>2, <2>3, <2>7 DEF Known, Taken, Coming, WillBeTold, Missed, Noted
  <2>9. Drained'
    BY <2>1, <2>2, <2>4 DEF Drained
  <2> QED
    BY <2>5, <2>6, <2>8, <2>9 DEF ShelfInv
<1> QED
  BY <1>2, <1>3

\* What a process leaves, whenever it ends.
LEMMA ProcessEndsKeeps ==
    ASSUME ShelfInv, ProcessEnds, Running,
           spent' \in [changes : Nat, fails : Nat, crashes : Nat], spent'.fails = spent.fails
    PROVE  ShelfInv'
<1>1. Typed /\ Known
  BY DEF ShelfInv
<1>2. /\ stage' = "closed" /\ row' = Nothing /\ dirty' = {} /\ moved' = FALSE /\ timer' = FALSE
      /\ lane' = [b \in Book |-> <<>>] /\ indexLane' = <<>> /\ at' = "waiting"
      /\ snapshot' = Nothing /\ doomed' = FALSE /\ UNCHANGED <<record, index, marker, kept>>
      /\ cut' = cut \cup HalfDone /\ behind' = {} /\ carried' = {} /\ deaf' = FALSE
  BY DEF ProcessEnds
<1>3. /\ Len(indexLane') = 0 /\ 1 .. 0 = {}
      /\ \A b \in Book : lane'[b] = <<>> /\ Len(lane'[b]) = 0
  <2>1. indexLane' = <<>> /\ \A b \in Book : lane'[b] = <<>>
    BY <1>2
  <2> QED
    BY <2>1
<1>4. NoMarks(indexLane') /\ \A b \in Book : ~Repairs(b)'
  BY <1>3 DEF Repairs, NoMarks
<1>5. ASSUME NEW b \in Book \ cut' PROVE index = NoIndex \/ b \in marker \/ index[b] = record[b]
  BY <1>1, <1>2 DEF Known, HalfDone
<1>6. Typed'
  <2>1. LaneTyped' /\ Nothing \in Values
    BY <1>2 DEF LaneTyped, Nothing, Values
  <2>2. lane' \in [Book -> Seq(BookTask)]
    BY <1>2
  <2>3. cut' \subseteq Book
    BY <1>1, <1>2 DEF HalfDone, Typed
  <2> QED
    BY <1>1, <1>2, <2>1, <2>2, <2>3 DEF Typed
<1>7. Tasks' /\ Noted'
  BY <1>2, <1>3, <1>4 DEF Tasks, Noted
<1>8. ~Running'
  BY <1>2 DEF Running
<1>9. Unhurt'
  BY <1>2, <1>3, <1>4, <1>8 DEF Unhurt
<1>10. Shut' /\ Shown' /\ Known' /\ Taken' /\ Coming' /\ Missed' /\ Drained'
  BY <1>2, <1>3, <1>5, <1>8 DEF Shut, Idle, Shown, Known, Taken, Coming, WillBeTold, Missed, Drained
<1> QED
  BY <1>6, <1>7, <1>9, <1>10 DEF ShelfInv

LEMMA ShelfStutters == ASSUME ShelfInv, UNCHANGED shelfVars PROVE ShelfInv'
<1>1. Typed /\ Tasks /\ Unhurt /\ Shut /\ Shown /\ Known /\ Taken /\ Coming /\ Missed /\ Noted
      /\ Drained
  BY DEF ShelfInv
<1>2. UNCHANGED <<record, index, marker, row, dirty, moved, timer, lane, indexLane, at, snapshot, doomed, stage, kept,
                  behind, carried, cut, deaf, spent>>
  BY DEF shelfVars, history
<1>3. (Running' <=> Running) /\ (PushWaits <=> PushWaits') /\ \A b \in Book : Repairs(b)' <=> Repairs(b)
  BY <1>2 DEF Running, PushWaits, Repairs
<1>4. Typed' /\ Tasks'
  <2>1. LaneTyped'
    BY <1>1, <1>2 DEF Typed, LaneTyped
  <2> QED
    BY <1>1, <1>2, <2>1 DEF Typed, Tasks
<1>5. Unhurt' /\ Shown'
  BY <1>1, <1>2, <1>3 DEF Unhurt, Shown
<1>6. Shut'
  BY <1>1, <1>2, <1>3 DEF Shut, Idle
<1>7. Cure => Cure'
  BY <1>2, <1>3 DEF Cure
<1>8. Known' /\ Taken' /\ Coming' /\ Missed' /\ Noted' /\ Drained'
  BY <1>1, <1>2, <1>3, <1>7 DEF Known, Taken, Coming, WillBeTold, Missed, Noted, Drained
<1> QED
  BY <1>4, <1>5, <1>6, <1>8 DEF ShelfInv

LEMMA ShelfStepKeeps == ASSUME ShelfInv, [ShelfNext]_shelfVars PROVE ShelfInv'
<1>1. CASE \E wrote, removed \in BOOLEAN : Open(wrote, removed)
  BY <1>1, OpenKeeps
<1>2. CASE IndexStarts
  BY <1>2, IndexStartsKeeps
<1>3. CASE IndexLands
  BY <1>3, IndexLandsKeeps
<1>4. CASE \E landed \in BOOLEAN : IndexFails(landed)
  BY <1>4, IndexFailsKeeps
<1>5. CASE \E removed \in BOOLEAN : MarkerCleared(removed)
  BY <1>5, MarkerClearedKeeps
<1>6. CASE \E ok \in BOOLEAN : MarkerRestated(ok)
  BY <1>6, MarkerRestatedKeeps
<1>7. CASE \E ok \in BOOLEAN : MarkerWritten(ok)
  BY <1>7, MarkerWrittenKeeps
<1>8. CASE \E removed \in BOOLEAN : Invalidate(removed)
  BY <1>8, InvalidateKeeps
<1>9. CASE \E b \in Book, what \in {"tick", "now"} : Change(b, what)
  BY <1>9, ChangeKeeps
<1>10. CASE \E b \in Book : TickLands(b)
  BY <1>10, TickLandsKeeps
<1>11. CASE \E b \in Book : ChangeLands(b)
  BY <1>11, ChangeLandsKeeps
<1>12. CASE \E b \in Book, landed \in BOOLEAN : ChangeFails(b, landed)
  BY <1>12, ChangeFailsKeeps
<1>13. CASE \E b \in Book : Repair(b)
  BY <1>13, RepairKeeps
<1>14. CASE \E fired \in BOOLEAN : Flush(fired)
  <2>1. /\ Running /\ FlushIndex /\ stage' = stage
        /\ UNCHANGED <<record, index, marker, row, dirty, moved, lane, at, snapshot, doomed, kept, behind, carried,
                       cut, deaf, spent>>
    BY <1>14 DEF Flush, history
  <2> QED
    BY <2>1, FlushKeeps
<1>15. CASE Drain("open", "flushed") \/ Drain("flushed", "again") \/ Drain("again", "drained")
  BY <1>15, DrainKeeps
<1>16. CASE Quit \/ Crash
  <2>1. Typed
    BY DEF ShelfInv
  <2>2. ProcessEnds /\ Running
    BY <1>16 DEF Quit, Crash, Running
  <2>3. spent' \in [changes : Nat, fails : Nat, crashes : Nat] /\ spent'.fails = spent.fails
    BY <1>16, <2>1 DEF Quit, Crash, Typed
  <2> QED
    BY <2>2, <2>3, ProcessEndsKeeps
<1>17. CASE UNCHANGED shelfVars
  BY <1>17, ShelfStutters
<1> QED
  BY <1>1, <1>2, <1>3, <1>4, <1>5, <1>6, <1>7, <1>8, <1>9, <1>10, <1>11, <1>12, <1>13, <1>14, <1>15, <1>16,
     <1>17 DEF ShelfNext

-----------------------------------------------------------------------------
(* What the shelf promises *)

LEMMA ShelfHolds == ShelfSpec => []ShelfInv
<1>1. ShelfInv /\ [ShelfNext]_shelfVars => ShelfInv'
  BY ShelfStepKeeps
<1> QED
  BY <1>1, ShelfStarts, PTL DEF ShelfSpec

\* For any number of books, changes, failed operations and processes that ended, at any
\* moment: what the reader sees of a shelf with nothing under way is what the folders
\* hold (libraryStore.ts:857), but of the books that an earlier process left half
\* done; at rest there is no book that would be, unless since the last write of the
\* index one failed that nobody repairs, or a marker left behind was written over
\* (libraryStore.ts:938, :946); and a drain in which nothing failed leaves an
\* index that has every change (services.ts:1017).
THEOREM ShelfStaysTrue == ShelfSpec => []ShelfIsTrue
<1>1. ASSUME ShelfInv PROVE SettledIsTrue
  BY <1>1 DEF ShelfInv, SettledIsTrue, Shown, Idle
<1>2. ASSUME ShelfInv, Running, indexLane = <<>>, ~doomed, \A b \in Book : lane[b] = <<>>
      PROVE  at = "waiting" /\ ~Cure /\ NoMarks(indexLane)
  <2>1. Len(indexLane) = 0 /\ 1 .. 0 = {} /\ \A b \in Book : Len(lane[b]) = 0
    BY <1>2
  <2> QED
    BY <1>2, <2>1 DEF ShelfInv, Typed, LaneTyped, Cure, PushWaits, Repairs, NoMarks
<1>3. ASSUME ShelfInv PROVE RestIsWhole
  <2>1. SUFFICES ASSUME Running, AtRest, ~deaf, index # NoIndex PROVE HalfDone = {}
    BY DEF RestIsWhole
  <2>2. /\ at = "waiting" /\ ~Cure /\ NoMarks(indexLane) /\ \A b \in Book : lane[b] = <<>>
        /\ behind \subseteq Book
    BY <1>2, <1>3, <2>1 DEF AtRest, Idle, ShelfInv, Typed
  <2>3. behind \subseteq dirty \cup marker
    BY <1>3, <2>1, <2>2 DEF ShelfInv, Coming, WillBeTold
  <2>4. dirty \subseteq marker
    BY <1>3, <2>1, <2>2 DEF ShelfInv, Noted
  <2> QED
    BY <2>2, <2>3, <2>4 DEF HalfDone
<1>4. ASSUME ShelfInv PROVE DrainIsComplete
  <2>1. SUFFICES ASSUME stage = "drained", spent.fails = 0
                 PROVE  index # NoIndex /\ \A b \in Book \ cut : index[b] = record[b]
    BY DEF DrainIsComplete
  <2>2. Typed /\ Unhurt /\ Known /\ Coming /\ Drained /\ Running
    BY <1>4, <2>1 DEF ShelfInv, Running
  <2>3. dirty = {} /\ indexLane = <<>> /\ \A b \in Book : lane[b] = <<>>
    BY <2>1, <2>2 DEF Drained
  <2>4. index # NoIndex /\ ~doomed
    BY <2>1, <2>2 DEF Unhurt
  <2>5. at = "waiting" /\ ~Cure
    BY <1>2, <1>4, <2>2, <2>3, <2>4
  <2>6. behind = {}
    BY <2>1, <2>2, <2>3, <2>4, <2>5 DEF Coming, WillBeTold, Typed
  <2> QED
    BY <2>2, <2>3, <2>4, <2>6 DEF Known
<1>5. ShelfInv => ShelfIsTrue
  BY <1>1, <1>3, <1>4 DEF ShelfIsTrue
<1> QED
  BY <1>5, ShelfHolds, PTL

\* For any number of books, changes, failed operations and processes that ended, at any
\* moment, every launch shows what the folders hold, but of the books a process left
\* half done: the marker names each book whose row the index has wrong, or there is no
\* index to trust (bookIndex.ts:41, libraryStore.ts:1153).
THEOREM LaunchesAreTrue == ShelfSpec => LoadIsTrue
<1>1. ASSUME ShelfInv, ShelfInv', [ShelfNext]_shelfVars, stage = "closed", stage' = "open"
      PROVE  \A b \in Book \ cut : row'[b] = record[b]
  <2>1. Typed /\ Shut /\ ~Running
    BY <1>1 DEF ShelfInv, Running
  <2>2. PICK wrote, removed \in BOOLEAN : Open(wrote, removed)
    <3>1. /\ indexLane = <<>> /\ ~doomed /\ \A b \in Book : lane[b] = <<>>
      BY <2>1 DEF Shut, Idle
    <3>2. stage' # stage
      BY <1>1
    <3> QED
      BY <1>1, <2>1, <3>1, <3>2
         DEF ShelfNext, shelfVars, IndexStarts, IndexLands, IndexFails, MarkerCleared, MarkerRestated, MarkerWritten,
             Invalidate, Change, TickLands, ChangeLands, ChangeFails, Repair, Flush, Drain, Quit, Crash, ProcessEnds,
             Writes
  <2>3. row' = Loaded
    BY <2>2 DEF Open
  <2> QED
    BY <2>1, <2>3, LoadedIs
<1>2. ShelfInv /\ ShelfInv' /\ [ShelfNext]_shelfVars =>
        [stage = "closed" /\ stage' = "open" => \A b \in Book \ cut : row'[b] = record[b]]_shelfVars
  BY <1>1
<1> QED
  BY <1>2, ShelfHolds, PTL DEF ShelfSpec, LoadIsTrue

=============================================================================
