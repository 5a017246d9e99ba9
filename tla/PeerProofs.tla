---------------------------- MODULE PeerProofs -----------------------------
(***************************************************************************)
(* Proofs about what a device takes from others: the tickets of what the    *)
(* session applies (Provenance), and a person in the circle (Circle).       *)
(*                                                                         *)
(* Provenance, for any books, surfaces and batches, any bound of a lane and *)
(* any number of edits.  The argument is about what stands on one key's     *)
(* lane.  A fence and its application are queued in one block, so nothing   *)
(* of the key comes between them: what runs between the two can take no     *)
(* ticket of the key.                                                       *)
(*                                                                         *)
(* Circle, for any devices, publications, page and answer bounds and any    *)
(* casts.  A store only grows: what is published anew has a number past all *)
(* that was sealed, so a page stays as it was first served, and a chain as  *)
(* it was is the beginning of the chain as it is.  A cursor is then where a *)
(* page of the chain ends, and what it has passed is what came on the pages *)
(* up to it.  What is held was taken in an epoch past every purge.          *)
(***************************************************************************)
EXTENDS Provenance, Circle, TLAPS, FiniteSetTheorems, SequenceTheorems,
        NaturalsInduction, WellFoundedInduction

-----------------------------------------------------------------------------
(* Sequences of different things. *)

Distinct(s) == \A i, j \in 1 .. Len(s) : s[i] = s[j] => i = j

\* A finite set has an order.
LEMMA InSomeOrder ==
    ASSUME NEW S, IsFiniteSet(S)
    PROVE  SetToSeq(S) \in Seq(S) /\ Distinct(SetToSeq(S)) /\ Range(SetToSeq(S)) = S
<1> DEFINE n == Cardinality(S)
           q == SetToSeq(S)
<1>1. n \in Nat /\ ExistsBijection(1 .. n, S)
  BY FS_CardinalityType
<1>2. \E f \in [1 .. n -> S] : IsInjective(f)
  BY <1>1 DEF ExistsBijection, Bijection, Injection
<1>3. q \in [1 .. n -> S] /\ IsInjective(q)
  BY <1>2 DEF SetToSeq
<1>4. Cardinality(1 .. n) = Cardinality(S)
  <2>1. n \in Int /\ (1 > n <=> n = 0) /\ n - 1 + 1 = n
    BY <1>1
  <2>2. Cardinality(1 .. n) = n
    BY <2>1, FS_Interval
  <2> QED
    BY <2>2
<1> HIDE DEF q
<1>5. q \in Surjection(1 .. n, S)
  <2>1. q \in Injection(1 .. n, S)
    BY <1>3 DEF Injection
  <2> QED
    BY <1>4, <2>1, FS_Injection
<1>6. q \in Seq(S) /\ Len(q) = n /\ DOMAIN q = 1 .. n
  BY <1>1, <1>3
<1>7. Range(q) = S
  BY <1>5, <1>6 DEF Surjection, Range
<1>8. Distinct(q)
  BY <1>3, <1>6 DEF IsInjective, Distinct
<1> QED
  BY <1>6, <1>7, <1>8 DEF q

\* One element goes, the others keep their order.
LEMMA RemoveAtIs ==
    ASSUME NEW S, NEW s \in Seq(S), NEW i \in 1 .. Len(s)
    PROVE  /\ RemoveAt(s, i) \in Seq(S) /\ Len(RemoveAt(s, i)) = Len(s) - 1
           /\ \A j \in 1 .. Len(s) - 1 : RemoveAt(s, i)[j] = IF j < i THEN s[j] ELSE s[j + 1]
<1> DEFINE a == SubSeq(s, 1, i - 1)
           b == SubSeq(s, i + 1, Len(s))
<1>0. Len(s) \in Nat /\ i \in Nat /\ \A j \in 1 .. Len(s) : s[j] \in S
  OBVIOUS
<1>1. a \in Seq(S) /\ Len(a) = i - 1 /\ \A j \in 1 .. i - 1 : a[j] = s[j]
  <2>1. 1 \in Int /\ i - 1 \in Int /\ \A j \in 1 .. i - 1 : s[j] \in S
    BY <1>0
  <2>2. /\ a \in Seq(S) /\ Len(a) = IF 1 <= i - 1 THEN (i - 1) - 1 + 1 ELSE 0
        /\ \A j \in 1 .. (i - 1) - 1 + 1 : a[j] = s[1 + j - 1]
    BY <2>1, SubSeqProperties
  <2>3. (i - 1) - 1 + 1 = i - 1 /\ \A j \in 1 .. i - 1 : 1 + j - 1 = j
    BY <1>0
  <2> HIDE DEF a
  <2> QED
    BY <1>0, <2>2, <2>3
<1>2. b \in Seq(S) /\ Len(b) = Len(s) - i /\ \A j \in 1 .. Len(s) - i : b[j] = s[i + j]
  <2>1. i + 1 \in Int /\ Len(s) \in Int /\ \A j \in i + 1 .. Len(s) : s[j] \in S
    BY <1>0
  <2>2. /\ b \in Seq(S) /\ Len(b) = IF i + 1 <= Len(s) THEN Len(s) - (i + 1) + 1 ELSE 0
        /\ \A j \in 1 .. Len(s) - (i + 1) + 1 : b[j] = s[(i + 1) + j - 1]
    BY <2>1, SubSeqProperties
  <2>3. Len(s) - (i + 1) + 1 = Len(s) - i /\ \A j \in 1 .. Len(s) - i : (i + 1) + j - 1 = i + j
    BY <1>0
  <2> HIDE DEF b
  <2>4. Len(b) = Len(s) - i
    BY <1>0, <2>2
  <2>5. \A j \in 1 .. Len(s) - i : b[j] = s[i + j]
    BY <2>2, <2>3
  <2> QED
    BY <2>2, <2>4, <2>5
<1>3. RemoveAt(s, i) = a \o b
  BY DEF RemoveAt
<1> HIDE DEF a, b
<1>4. /\ a \o b \in Seq(S) /\ Len(a \o b) = Len(a) + Len(b)
      /\ \A j \in 1 .. Len(a) + Len(b) : (a \o b)[j] = IF j <= Len(a) THEN a[j] ELSE b[j - Len(a)]
  BY <1>1, <1>2, ConcatProperties
<1>5. Len(a) + Len(b) = Len(s) - 1
  BY <1>0, <1>1, <1>2
<1>6. ASSUME NEW j \in 1 .. Len(s) - 1 PROVE (a \o b)[j] = IF j < i THEN s[j] ELSE s[j + 1]
  <2>1. (a \o b)[j] = IF j <= i - 1 THEN a[j] ELSE b[j - (i - 1)]
    BY <1>1, <1>4, <1>5
  <2>2. CASE j < i
    BY <1>0, <1>1, <2>1, <2>2
  <2>3. CASE ~(j < i)
    <3>1. j - (i - 1) \in 1 .. Len(s) - i /\ i + (j - (i - 1)) = j + 1 /\ ~(j <= i - 1)
      BY <1>0, <2>3
    <3> QED
      BY <1>2, <2>1, <2>3, <3>1
  <2> QED
    BY <2>2, <2>3
<1> QED
  BY <1>3, <1>4, <1>5, <1>6

\* clearRemote: the ticket goes, and no other.
LEMMA ClearedIs ==
    ASSUME NEW s \in Seq(Batch), Distinct(s), NEW b
    PROVE  /\ Cleared(b, s) \in Seq(Batch) /\ Distinct(Cleared(b, s))
           /\ Range(Cleared(b, s)) = Range(s) \ {b} /\ Len(Cleared(b, s)) <= Len(s)
<1>0. Len(s) \in Nat /\ DOMAIN s = 1 .. Len(s)
  OBVIOUS
<1>1. CASE ~\E i \in 1 .. Len(s) : s[i] = b
  <2>1. Cleared(b, s) = s
    BY <1>1 DEF Cleared, RemoveFirst
  <2>2. b \notin Range(s)
    BY <1>0, <1>1 DEF Range
  <2> QED
    BY <1>0, <2>1, <2>2
<1>2. ASSUME NEW i \in 1 .. Len(s), s[i] = b
      PROVE  /\ Cleared(b, s) \in Seq(Batch) /\ Distinct(Cleared(b, s))
             /\ Range(Cleared(b, s)) = Range(s) \ {b} /\ Len(Cleared(b, s)) <= Len(s)
  <2> DEFINE I == {j \in 1 .. Len(s) : s[j] = b}
             r == Cleared(b, s)
  <2>1. I = {i}
    BY <1>2 DEF Distinct
  <2>2. SelectInSeq(s, LAMBDA v : v = b) = i
    <3>1. SelectInSeq(s, LAMBDA v : v = b) = IF I # {} THEN Min(I) ELSE 0
      BY DEF SelectInSeq
    <3>2. Min({i}) = i
      BY <1>0 DEF Min
    <3> QED
      BY <2>1, <3>1, <3>2
  <2>3. r = RemoveAt(s, i)
    BY <1>2, <2>2 DEF Cleared, RemoveFirst
  <2> HIDE DEF r
  <2>4. /\ r \in Seq(Batch) /\ Len(r) = Len(s) - 1
        /\ \A j \in 1 .. Len(s) - 1 : r[j] = IF j < i THEN s[j] ELSE s[j + 1]
    BY <2>3, RemoveAtIs
  <2>5. DOMAIN r = 1 .. Len(s) - 1
    BY <2>4
  <2>6. Distinct(r)
    <3> SUFFICES ASSUME NEW j \in 1 .. Len(s) - 1, NEW h \in 1 .. Len(s) - 1, r[j] = r[h] PROVE j = h
      BY <2>4 DEF Distinct
    <3>1. j \in 1 .. Len(s) /\ j + 1 \in 1 .. Len(s) /\ h \in 1 .. Len(s) /\ h + 1 \in 1 .. Len(s)
      BY <1>0
    <3>2. (IF j < i THEN s[j] ELSE s[j + 1]) = (IF h < i THEN s[h] ELSE s[h + 1])
      BY <2>4
    <3>3. (IF j < i THEN j ELSE j + 1) = (IF h < i THEN h ELSE h + 1)
      BY <3>1, <3>2 DEF Distinct
    <3> QED
      BY <1>0, <3>3
  <2>7. Range(r) = Range(s) \ {b}
    <3>1. ASSUME NEW j \in 1 .. Len(s) - 1 PROVE r[j] \in Range(s) /\ r[j] # b
      <4>1. j \in 1 .. Len(s) /\ j + 1 \in 1 .. Len(s)
        BY <1>0
      <4>2. CASE j < i
        <5>1. r[j] = s[j] /\ j # i
          BY <1>0, <2>4, <4>2
        <5> QED
          BY <1>0, <1>2, <4>1, <5>1 DEF Range, Distinct
      <4>3. CASE ~(j < i)
        <5>1. r[j] = s[j + 1] /\ j + 1 # i
          BY <1>0, <2>4, <4>3
        <5> QED
          BY <1>0, <1>2, <4>1, <5>1 DEF Range, Distinct
      <4> QED
        BY <4>2, <4>3
    <3>2. ASSUME NEW j \in 1 .. Len(s), s[j] # b PROVE s[j] \in Range(r)
      <4>1. CASE j < i
        <5>1. j \in 1 .. Len(s) - 1 /\ r[j] = s[j]
          BY <1>0, <2>4, <4>1
        <5> QED
          BY <2>5, <5>1 DEF Range
      <4>2. CASE ~(j < i)
        <5>1. j - 1 \in 1 .. Len(s) - 1 /\ ~(j - 1 < i) /\ (j - 1) + 1 = j
          BY <1>0, <1>2, <3>2, <4>2
        <5>2. r[j - 1] = s[j]
          BY <2>4, <5>1
        <5> QED
          BY <2>5, <5>1, <5>2 DEF Range
      <4> QED
        BY <4>1, <4>2
    <3> QED
      BY <1>0, <2>5, <3>1, <3>2 DEF Range
  <2>8. Len(r) <= Len(s)
    BY <1>0, <2>4
  <2> QED
    BY <2>4, <2>6, <2>7, <2>8 DEF r
<1> QED
  BY <1>1, <1>2

-----------------------------------------------------------------------------
(* The invariant. *)

Place(l) == 1 .. Len(line[l])

Waits(l, i) == line[l][i]

\* A lane holds tasks of its own keys, and of batches that are open.
OnItsLane ==
    /\ line \in [Book -> Seq(Tasks)] /\ \A l \in Book : Len(line[l]) <= Cap
    /\ batch \in [Batch -> {"new", "open", "closed"}]
    /\ \A l \in Book : \A i \in Place(l) :
          /\ Lane(Waits(l, i).key) = l
          /\ Waits(l, i).kind # "edit" => batch[Waits(l, i).batch] = "open"

\* A ticket is of an open batch, and once armed it is not armed again.
ArmedOnce ==
    /\ armed \in [Key -> Seq(Batch)]
    /\ \A k \in Key : Distinct(armed[k]) /\ \A b \in Range(armed[k]) : batch[b] = "open"
    /\ \A l \in Book : \A i \in Place(l) : Waits(l, i).kind = "fence" =>
          /\ Waits(l, i).batch \notin Range(armed[Waits(l, i).key])
          /\ \A j \in Place(l) : Waits(l, j) = Waits(l, i) => j = i

\* Nothing of the key stands between two places of its lane.
Between(l, k, i, j) == \A h \in Place(l) : i < h /\ h < j => Waits(l, h).key # k

\* An application comes behind its own fence, or its ticket is armed and it is the
\* first of its key.
BehindItsFence ==
    \A l \in Book : \A i \in Place(l) : Waits(l, i).kind = "apply" =>
        LET t == Waits(l, i) IN
        \/ t.batch \in Range(armed[t.key]) /\ Between(l, t.key, 0, i)
        \/ \E j \in Place(l) : /\ j < i /\ Between(l, t.key, j, i)
                               /\ Waits(l, j).kind = "fence"
                               /\ Waits(l, j).key = t.key /\ Waits(l, j).batch = t.batch

\* An application of the key is the next of its key.
NextApplies(l, k, j) == \E i \in Place(l) : /\ j < i /\ Between(l, k, j, i)
                                            /\ Waits(l, i).kind = "apply" /\ Waits(l, i).key = k

\* Where every application was queued and wrote, each fence has its own, and a ticket that is
\* armed is the only one and its application comes next.
EachIsUsed ==
    \A k \in Key \ vain :
        /\ \A j \in Place(Lane(k)) :
              Waits(Lane(k), j).kind = "fence" /\ Waits(Lane(k), j).key = k => NextApplies(Lane(k), k, j)
        /\ Len(armed[k]) <= 1
        /\ armed[k] # <<>> => NextApplies(Lane(k), k, 0)

Rest ==
    /\ running \in [Book -> Tasks \cup {Free}] /\ edits \in 0 .. MaxEdits
    /\ journalled \subseteq {"apply", "edit"} \X Origin \X Key /\ vain \subseteq Key

IInv ==
    /\ OnItsLane /\ ArmedOnce /\ BehindItsFence /\ EachIsUsed /\ Rest
    /\ AppliesAreRemote /\ EditsAreLocal

-----------------------------------------------------------------------------
(* Tasks. *)

LEMMA KindsOfTasks ==
    ASSUME NEW t \in Tasks
    PROVE  /\ t.kind \in {"fence", "apply", "edit"} /\ t.key \in Key
           /\ t.kind # "edit" => t.batch \in Batch
           /\ t.kind = "apply" => t.outcome \in Outcome
           /\ t # Free
BY DEF Tasks, Free

LEMMA MadeTasks ==
    ASSUME NEW b \in Batch, NEW k \in Key
    PROVE  /\ Fence(b, k) \in Tasks /\ Fence(b, k).kind = "fence"
           /\ Fence(b, k).batch = b /\ Fence(b, k).key = k
           /\ Edit(k) \in Tasks /\ Edit(k).kind = "edit" /\ Edit(k).key = k
           /\ \A o \in Outcome : /\ Apply(b, k, o) \in Tasks /\ Apply(b, k, o).kind = "apply"
                                 /\ Apply(b, k, o).batch = b /\ Apply(b, k, o).key = k
                                 /\ Apply(b, k, o).outcome = o
BY DEF Tasks, Fence, Edit, Apply

LEMMA LanesAreBooks == ASSUME NEW k \in Key PROVE Lane(k) \in Book
BY ProvenanceAssumption DEF ProvenanceAssumption, Lane

\* Where the head of a lane goes.
LEMMA AfterShift ==
    ASSUME OnItsLane, NEW l \in Book, line[l] # <<>>, Shift(l)
    PROVE  /\ line' \in [Book -> Seq(Tasks)] /\ \A m \in Book : m # l => line'[m] = line[m]
           /\ 1 \in Place(l) /\ Waits(l, 1) = Head(line[l]) /\ Waits(l, 1) \in Tasks
           /\ Len(line'[l]) = Len(line[l]) - 1 /\ Len(line[l]) \in Nat
           /\ \A i \in Place(l)' : i + 1 \in Place(l) /\ Waits(l, i)' = Waits(l, i + 1)
           /\ \A i \in Place(l) : i # 1 => i - 1 \in Place(l)' /\ Waits(l, i - 1)' = Waits(l, i)
<1>1. line \in [Book -> Seq(Tasks)]
  BY DEF OnItsLane
<1>2. line' \in [Book -> Seq(Tasks)] /\ line'[l] = Tail(line[l]) /\ \A m \in Book : m # l => line'[m] = line[m]
  BY <1>1 DEF Shift
<1>3. line[l] \in Seq(Tasks) /\ line[l] # <<>>
  BY <1>1
<1> DEFINE s == line[l]
<1>4. /\ Len(s) \in Nat /\ Len(s) >= 1 /\ Head(s) = s[1] /\ s[1] \in Tasks
      /\ Len(Tail(s)) = Len(s) - 1 /\ \A i \in 1 .. Len(s) - 1 : Tail(s)[i] = s[i + 1]
  BY <1>3
<1> HIDE DEF s
<1>5. \A i \in 1 .. Len(s) - 1 : i + 1 \in 1 .. Len(s)
  BY <1>4
<1>6. \A i \in 1 .. Len(s) : i # 1 => i - 1 \in 1 .. Len(s) - 1 /\ (i - 1) + 1 = i
  BY <1>4
<1>7. 1 \in 1 .. Len(s)
  BY <1>4
<1>8. Place(l)' = 1 .. Len(s) - 1
  BY <1>2, <1>4 DEF Place, s
<1>9. Place(l) = 1 .. Len(s) /\ \A i : Waits(l, i) = s[i]
  BY DEF Place, Waits, s
<1>10. \A i : Waits(l, i)' = Tail(s)[i]
  BY <1>2 DEF Waits, s
<1>11. Len(line'[l]) = Len(line[l]) - 1 /\ Len(line[l]) \in Nat
  BY <1>2, <1>4 DEF s
<1>12. \A i \in Place(l)' : i + 1 \in Place(l) /\ Waits(l, i)' = Waits(l, i + 1)
  BY <1>4, <1>5, <1>8, <1>9, <1>10
<1>13. \A i \in Place(l) : i # 1 => i - 1 \in Place(l)' /\ Waits(l, i - 1)' = Waits(l, i)
  BY <1>4, <1>6, <1>8, <1>9, <1>10
<1>14. 1 \in Place(l) /\ Waits(l, 1) = Head(line[l]) /\ Waits(l, 1) \in Tasks
  BY <1>4, <1>7, <1>9 DEF s
<1> QED
  BY <1>2, <1>11, <1>12, <1>13, <1>14

-----------------------------------------------------------------------------
(* Queueing. *)

LEMMA OfIs ==
    ASSUME NEW K \in SUBSET Key, NEW l
    PROVE  /\ Of(l, K) \in Seq(Key) /\ Distinct(Of(l, K))
           /\ \A i \in 1 .. Len(Of(l, K)) : Of(l, K)[i] \in K /\ Lane(Of(l, K)[i]) = l
           /\ \A k \in K : Lane(k) = l => \E i \in 1 .. Len(Of(l, K)) : Of(l, K)[i] = k
<1> DEFINE S == {k \in K : Lane(k) = l}
           q == Of(l, K)
<1>1. S \subseteq Key /\ IsFiniteSet(S)
  <2>1. S \subseteq Key
    OBVIOUS
  <2> QED
    BY <2>1, FS_Subset, ProvenanceAssumption DEF ProvenanceAssumption
<1>2. q = SetToSeq(S)
  BY DEF Of
<1> HIDE DEF q
<1>3. q \in Seq(S) /\ Distinct(q) /\ Range(q) = S
  <2> HIDE DEF S
  <2> QED
    BY <1>1, <1>2, InSomeOrder
<1>4. DOMAIN q = 1 .. Len(q) /\ \A i \in 1 .. Len(q) : q[i] \in S
  <2> HIDE DEF S
  <2> QED
    BY <1>3
<1>5. q \in Seq(Key)
  <2> HIDE DEF S
  <2> QED
    BY <1>1, <1>3
<1>6. \A k \in S : \E i \in 1 .. Len(q) : q[i] = k
  <2> HIDE DEF S
  <2> QED
    BY <1>3, <1>4 DEF Range
<1> QED
  BY <1>3, <1>4, <1>5, <1>6 DEF q

\* What markRemote queues on one lane: the fences, then the applications, one of each for a
\* key, and no application without its fence.
Block(b, l, K, out) == Fences(b, l, K) \o Applies(b, l, K, out)

IsBlock(s, b, l, K) ==
    /\ s \in Seq(Tasks)
    /\ \A p \in 1 .. Len(s) : /\ s[p].kind \in {"fence", "apply"} /\ s[p].batch = b
                              /\ Lane(s[p].key) = l /\ s[p].key \in K
    /\ \A p, q \in 1 .. Len(s) : s[p].kind = s[q].kind /\ s[p].key = s[q].key => p = q
    /\ \A p, q \in 1 .. Len(s) : s[p].kind = "fence" /\ s[q].kind = "apply" => p < q
    /\ \A q \in 1 .. Len(s) : s[q].kind = "apply" =>
          \E p \in 1 .. Len(s) : p < q /\ s[p].kind = "fence" /\ s[p].key = s[q].key

LEMMA OneBlock ==
    ASSUME NEW b \in Batch, NEW K \in SUBSET Key, NEW out \in [K -> Outcome], NEW l
    PROVE  IsBlock(Block(b, l, K, out), b, l, K)
<1> SUFFICES ASSUME NEW s, s = Block(b, l, K, out) PROVE IsBlock(s, b, l, K)
  OBVIOUS
<1> DEFINE L == {k \in K : out[k] # "absent"}
           u == Of(l, K)
           v == Of(l, L)
           f == Fences(b, l, K)
           a == Applies(b, l, K, out)
<1>1. /\ u \in Seq(Key) /\ Distinct(u) /\ \A i \in 1 .. Len(u) : u[i] \in K /\ Lane(u[i]) = l
      /\ \A k \in K : Lane(k) = l => \E i \in 1 .. Len(u) : u[i] = k
  BY OfIs
<1>2. v \in Seq(Key) /\ Distinct(v) /\ \A i \in 1 .. Len(v) : v[i] \in K /\ Lane(v[i]) = l
  <2>1. L \in SUBSET Key /\ L \subseteq K
    OBVIOUS
  <2> HIDE DEF L
  <2> QED
    BY <2>1, OfIs
<1>3. Len(u) \in Nat /\ DOMAIN u = 1 .. Len(u) /\ Len(v) \in Nat /\ DOMAIN v = 1 .. Len(v)
  BY <1>1, <1>2
<1>4. f = [i \in 1 .. Len(u) |-> Fence(b, u[i])]
  BY <1>3 DEF Fences
<1>5. a = [i \in 1 .. Len(v) |-> Apply(b, v[i], out[v[i]])]
  BY <1>3 DEF Applies
<1> HIDE DEF u, v, f, a, L
<1>6. f \in Seq(Tasks) /\ Len(f) = Len(u) /\ \A i \in 1 .. Len(u) : f[i] = Fence(b, u[i])
  <2>1. \A i \in 1 .. Len(u) : Fence(b, u[i]) \in Tasks
    BY <1>1, MadeTasks
  <2> QED
    BY <1>3, <1>4, <2>1
<1>7. a \in Seq(Tasks) /\ Len(a) = Len(v) /\ \A i \in 1 .. Len(v) : a[i] = Apply(b, v[i], out[v[i]])
  <2>1. \A i \in 1 .. Len(v) : Apply(b, v[i], out[v[i]]) \in Tasks
    <3> SUFFICES ASSUME NEW i \in 1 .. Len(v) PROVE Apply(b, v[i], out[v[i]]) \in Tasks
      OBVIOUS
    <3>1. v[i] \in Key /\ out[v[i]] \in Outcome
      BY <1>2
    <3> QED
      BY <3>1, MadeTasks
  <2> QED
    BY <1>3, <1>5, <2>1
<1>8. s = f \o a
  BY DEF Block, f, a
<1>9. /\ s \in Seq(Tasks) /\ Len(s) = Len(f) + Len(a)
      /\ \A p \in 1 .. Len(f) + Len(a) : s[p] = IF p <= Len(f) THEN f[p] ELSE a[p - Len(f)]
  <2>1. /\ f \o a \in Seq(Tasks) /\ Len(f \o a) = Len(f) + Len(a)
        /\ \A p \in 1 .. Len(f) + Len(a) : (f \o a)[p] = IF p <= Len(f) THEN f[p] ELSE a[p - Len(f)]
    <3>1. f \in Seq(Tasks) /\ a \in Seq(Tasks)
      BY <1>6, <1>7
    <3> QED
      BY <3>1, ConcatProperties
  <2> QED
    BY <1>8, <2>1
<1>10. \A p \in 1 .. Len(s) : p <= Len(u) => p \in 1 .. Len(u) /\ s[p] = Fence(b, u[p])
  BY <1>3, <1>6, <1>7, <1>9
<1>11. \A p \in 1 .. Len(s) : ~(p <= Len(u)) =>
          p - Len(u) \in 1 .. Len(v) /\ s[p] = Apply(b, v[p - Len(u)], out[v[p - Len(u)]])
  <2> SUFFICES ASSUME NEW p \in 1 .. Len(s), ~(p <= Len(u))
               PROVE  p - Len(u) \in 1 .. Len(v) /\ s[p] = Apply(b, v[p - Len(u)], out[v[p - Len(u)]])
    OBVIOUS
  <2>1. p - Len(u) \in 1 .. Len(v)
    BY <1>3, <1>6, <1>7, <1>9
  <2>2. s[p] = a[p - Len(u)]
    BY <1>3, <1>6, <1>7, <1>9
  <2> QED
    BY <1>7, <2>1, <2>2
<1>12. \A p \in 1 .. Len(s) : p <= Len(u) =>
          s[p].kind = "fence" /\ s[p].batch = b /\ s[p].key = u[p] /\ u[p] \in K /\ Lane(u[p]) = l
  <2> SUFFICES ASSUME NEW p \in 1 .. Len(s), p <= Len(u)
               PROVE  /\ s[p].kind = "fence" /\ s[p].batch = b /\ s[p].key = u[p]
                      /\ u[p] \in K /\ Lane(u[p]) = l
    OBVIOUS
  <2>1. p \in 1 .. Len(u) /\ s[p] = Fence(b, u[p])
    BY <1>10
  <2>2. u[p] \in K /\ Lane(u[p]) = l /\ u[p] \in Key
    BY <1>1, <2>1
  <2> QED
    BY <2>1, <2>2, MadeTasks
<1>13. \A p \in 1 .. Len(s) : ~(p <= Len(u)) =>
          /\ s[p].kind = "apply" /\ s[p].batch = b /\ s[p].key = v[p - Len(u)]
          /\ v[p - Len(u)] \in K /\ Lane(v[p - Len(u)]) = l
  <2> SUFFICES ASSUME NEW p \in 1 .. Len(s), ~(p <= Len(u))
               PROVE  /\ s[p].kind = "apply" /\ s[p].batch = b /\ s[p].key = v[p - Len(u)]
                      /\ v[p - Len(u)] \in K /\ Lane(v[p - Len(u)]) = l
    OBVIOUS
  <2>1. p - Len(u) \in 1 .. Len(v) /\ s[p] = Apply(b, v[p - Len(u)], out[v[p - Len(u)]])
    BY <1>11
  <2>2. v[p - Len(u)] \in K /\ Lane(v[p - Len(u)]) = l /\ v[p - Len(u)] \in Key
    BY <1>2, <2>1
  <2>3. out[v[p - Len(u)]] \in Outcome
    BY <2>2
  <2> QED
    BY <2>1, <2>2, <2>3, MadeTasks
<1>14. \A p \in 1 .. Len(s) : /\ s[p].kind \in {"fence", "apply"} /\ s[p].batch = b
                              /\ Lane(s[p].key) = l /\ s[p].key \in K
                              /\ (s[p].kind = "fence" <=> p <= Len(u))
  <2> SUFFICES ASSUME NEW p \in 1 .. Len(s)
               PROVE  /\ s[p].kind \in {"fence", "apply"} /\ s[p].batch = b
                      /\ Lane(s[p].key) = l /\ s[p].key \in K
                      /\ (s[p].kind = "fence" <=> p <= Len(u))
    OBVIOUS
  <2>1. CASE p <= Len(u)
    BY <1>12, <2>1
  <2>2. CASE ~(p <= Len(u))
    BY <1>13, <2>2
  <2> QED
    BY <2>1, <2>2
<1>15. ASSUME NEW p \in 1 .. Len(s), NEW q \in 1 .. Len(s), s[p].kind = s[q].kind, s[p].key = s[q].key
       PROVE  p = q
  <2>1. CASE p <= Len(u)
    <3>1. q <= Len(u)
      BY <1>14, <1>15, <2>1
    <3>2. u[p] = u[q] /\ p \in 1 .. Len(u) /\ q \in 1 .. Len(u)
      BY <1>10, <1>12, <1>15, <2>1, <3>1
    <3> QED
      BY <1>1, <3>2 DEF Distinct
  <2>2. CASE ~(p <= Len(u))
    <3>1. ~(q <= Len(u))
      BY <1>14, <1>15, <2>2
    <3>2. v[p - Len(u)] = v[q - Len(u)] /\ p - Len(u) \in 1 .. Len(v) /\ q - Len(u) \in 1 .. Len(v)
      BY <1>11, <1>13, <1>15, <2>2, <3>1
    <3>3. p - Len(u) = q - Len(u)
      BY <1>2, <3>2 DEF Distinct
    <3> QED
      BY <1>3, <1>9, <3>3
  <2> QED
    BY <2>1, <2>2
<1>16. ASSUME NEW p \in 1 .. Len(s), NEW q \in 1 .. Len(s), s[p].kind = "fence", s[q].kind = "apply"
       PROVE  p < q
  <2>1. p <= Len(u) /\ ~(q <= Len(u))
    BY <1>14, <1>16
  <2> QED
    BY <1>3, <2>1
<1>17. ASSUME NEW q \in 1 .. Len(s), s[q].kind = "apply"
       PROVE  \E p \in 1 .. Len(s) : p < q /\ s[p].kind = "fence" /\ s[p].key = s[q].key
  <2>1. s[q].key \in K /\ Lane(s[q].key) = l
    BY <1>14
  <2>2. PICK p \in 1 .. Len(u) : u[p] = s[q].key
    BY <1>1, <2>1
  <2>3. p \in 1 .. Len(s) /\ p <= Len(u)
    BY <1>3, <1>6, <1>7, <1>9
  <2>4. s[p].kind = "fence" /\ s[p].key = s[q].key
    BY <1>12, <2>2, <2>3
  <2>5. p < q
    BY <1>16, <1>17, <2>3, <2>4
  <2> QED
    BY <2>3, <2>4, <2>5
<1> QED
  BY <1>9, <1>14, <1>15, <1>16, <1>17 DEF IsBlock

\* A lane keeps what it has and takes of the new what it has room for.
LEMMA AcceptedIs ==
    ASSUME OnItsLane, NEW l \in Book, NEW s \in Seq(Tasks), NEW a, a = Accepted(l, s),
           NEW n, n = Len(line[l])
    PROVE  /\ a \in Seq(Tasks) /\ n \in Nat /\ n <= Len(a) /\ Len(a) <= Cap
           /\ \A i \in 1 .. n : a[i] = line[l][i]
           /\ \A i \in 1 .. Len(a) : ~(i <= n) => i - n \in 1 .. Len(s) /\ a[i] = s[i - n]
<1> DEFINE w == line[l]
           all == w \o s
<1>1. w \in Seq(Tasks) /\ n \in Nat /\ Len(w) = n /\ Len(s) \in Nat /\ n <= Cap /\ Cap \in Nat
  BY ProvenanceAssumption DEF OnItsLane, ProvenanceAssumption
<1> HIDE DEF w
<1>2. /\ all \in Seq(Tasks) /\ Len(all) = n + Len(s)
      /\ \A i \in 1 .. n + Len(s) : all[i] = IF i <= n THEN w[i] ELSE s[i - n]
  <2>1. /\ w \o s \in Seq(Tasks) /\ Len(w \o s) = Len(w) + Len(s)
        /\ \A i \in 1 .. Len(w) + Len(s) : (w \o s)[i] = IF i <= Len(w) THEN w[i] ELSE s[i - Len(w)]
    BY <1>1, ConcatProperties
  <2> QED
    BY <1>1, <2>1
<1>3. a = IF Len(all) <= Cap THEN all ELSE SubSeq(all, 1, Cap)
  BY DEF Accepted, w
<1> HIDE DEF all
<1>4. /\ a \in Seq(Tasks) /\ n <= Len(a) /\ Len(a) <= Cap /\ Len(a) <= n + Len(s) /\ Len(a) \in Nat
      /\ \A i \in 1 .. Len(a) : a[i] = all[i]
  <2>1. CASE Len(all) <= Cap
    BY <1>1, <1>2, <1>3, <2>1
  <2>2. CASE ~(Len(all) <= Cap)
    <3>1. 1 \in Int /\ Cap \in Int /\ \A i \in 1 .. Cap : all[i] \in Tasks
      <4>1. \A i \in 1 .. Cap : i \in 1 .. Len(all)
        BY <1>1, <1>2, <2>2
      <4> QED
        BY <1>1, <1>2, <4>1
    <3>2. a = SubSeq(all, 1, Cap)
      BY <1>3, <2>2
    <3>3. /\ a \in Seq(Tasks) /\ Len(a) = IF 1 <= Cap THEN Cap - 1 + 1 ELSE 0
          /\ \A i \in 1 .. Cap - 1 + 1 : a[i] = all[1 + i - 1]
      BY <3>1, <3>2, SubSeqProperties
    <3>4. Len(a) = Cap
      BY <1>1, <3>3
    <3>5. \A i \in 1 .. Cap : a[i] = all[i]
      <4>1. \A i \in 1 .. Cap : i \in 1 .. Cap - 1 + 1 /\ 1 + i - 1 = i
        BY <1>1
      <4> QED
        BY <3>3, <4>1
    <3> QED
      BY <1>1, <1>2, <2>2, <3>3, <3>4, <3>5
  <2> QED
    BY <2>1, <2>2
<1>5. \A i \in 1 .. n : a[i] = w[i]
  <2>1. \A i \in 1 .. n : i \in 1 .. Len(a) /\ i \in 1 .. n + Len(s) /\ i <= n
    BY <1>1, <1>4
  <2> QED
    BY <1>2, <1>4, <2>1
<1>6. ASSUME NEW i \in 1 .. Len(a), ~(i <= n) PROVE i - n \in 1 .. Len(s) /\ a[i] = s[i - n]
  <2>1. i \in 1 .. n + Len(s) /\ i - n \in 1 .. Len(s)
    BY <1>1, <1>4, <1>6
  <2> QED
    BY <1>2, <1>4, <1>6, <2>1
<1> QED
  BY <1>1, <1>4, <1>5, <1>6 DEF w

\* What a call that queues may do: each lane keeps what it has and takes, at its end, tasks of
\* its own keys.  Those of an application are of a batch that opens now; they are one block.
Added(l, i) == i \in Place(l)' /\ i \notin Place(l)

AddsAtTheEnd ==
    /\ line' \in [Book -> Seq(Tasks)] /\ \A l \in Book : Len(line'[l]) <= Cap
    /\ \A l \in Book : \A i \in Place(l) : i \in Place(l)' /\ Waits(l, i)' = Waits(l, i)
    /\ \A l \in Book : \A i \in Nat : Added(l, i) => \A j \in Place(l) : j < i

AddsItsOwn ==
    \A l \in Book : \A i \in Nat : Added(l, i) =>
        /\ Lane(Waits(l, i)'.key) = l
        /\ Waits(l, i)'.kind # "edit" => /\ batch[Waits(l, i)'.batch] = "new"
                                         /\ batch'[Waits(l, i)'.batch] = "open"

AddsBlocks ==
    \A l \in Book : \A i \in Nat : Added(l, i) =>
        /\ Waits(l, i)'.kind = "fence" => 
              \A j \in Nat : Added(l, j) /\ Waits(l, j)' = Waits(l, i)' => j = i
        /\ Waits(l, i)'.kind = "apply" =>
              \E j \in Nat : /\ Added(l, j) /\ j < i /\ Between(l, Waits(l, i).key, j, i)'
                             /\ Waits(l, j)'.kind = "fence"
                             /\ Waits(l, j)'.key = Waits(l, i)'.key
                             /\ Waits(l, j)'.batch = Waits(l, i)'.batch
        /\ Waits(l, i)'.kind = "fence" /\ Waits(l, i)'.key \notin vain' =>
              NextApplies(l, Waits(l, i).key, i)'

Adds ==
    /\ AddsAtTheEnd /\ AddsItsOwn /\ AddsBlocks
    /\ batch' \in [Batch -> {"new", "open", "closed"}]
    /\ \A b \in Batch : batch[b] = "open" => batch'[b] = "open"
    /\ vain \subseteq vain' /\ armed' = armed

LEMMA PlacesInNat == \A l : Place(l) \subseteq Nat /\ Place(l)' \subseteq Nat
BY DEF Place

LEMMA PlacesAreNumbers ==
    ASSUME OnItsLane, NEW l \in Book, NEW i \in Place(l)
    PROVE  /\ i \in Nat /\ 1 <= i /\ i <= Len(line[l]) /\ Len(line[l]) \in Nat
           /\ Waits(l, i) \in Tasks
<1>1. line[l] \in Seq(Tasks)
  BY DEF OnItsLane
<1> QED
  BY <1>1 DEF Place, Waits

LEMMA AddsOnItsLane == OnItsLane /\ Adds => OnItsLane'
<1> SUFFICES ASSUME OnItsLane, Adds PROVE OnItsLane'
  OBVIOUS
<1>1. ASSUME NEW l \in Book, NEW i \in Nat, i \in Place(l)'
      PROVE  /\ Lane(Waits(l, i)'.key) = l
             /\ Waits(l, i)'.kind # "edit" => batch'[Waits(l, i)'.batch] = "open"
  <2>1. CASE i \in Place(l)
    <3>1. Waits(l, i)' = Waits(l, i) /\ Waits(l, i) \in Tasks
      BY <2>1, PlacesAreNumbers DEF Adds, AddsAtTheEnd
    <3>2. Lane(Waits(l, i).key) = l /\ (Waits(l, i).kind # "edit" => batch[Waits(l, i).batch] = "open")
      BY <2>1 DEF OnItsLane
    <3>3. Waits(l, i).kind # "edit" => Waits(l, i).batch \in Batch
      BY <3>1, KindsOfTasks
    <3> QED
      BY <3>1, <3>2, <3>3 DEF Adds
  <2>2. CASE i \notin Place(l)
    BY <1>1, <2>2 DEF Adds, AddsItsOwn, Added
  <2> QED
    BY <2>1, <2>2
<1> QED
  BY <1>1, PlacesInNat DEF Adds, AddsAtTheEnd, OnItsLane

\* Between two places a lane already had, nothing is added.
LEMMA AddsKeepBetween ==
    ASSUME OnItsLane, Adds, NEW l \in Book, NEW k, NEW i, NEW j \in Place(l), Between(l, k, i, j)
    PROVE  Between(l, k, i, j)'
<1> SUFFICES ASSUME NEW h \in Nat, h \in Place(l)', i < h, h < j PROVE Waits(l, h)'.key # k
  BY PlacesInNat DEF Between
<1>1. OnItsLane'
  BY AddsOnItsLane
<1>2. h \in Nat /\ j \in Nat
  BY <1>1, PlacesAreNumbers DEF PlacesAreNumbers, Place, OnItsLane
<1>3. h \in Place(l)
  <2>1. h \notin Place(l) => j < h
    BY DEF Adds, AddsAtTheEnd, Added
  <2> QED
    BY <1>2, <2>1
<1> QED
  BY <1>3 DEF Adds, AddsAtTheEnd, Between

LEMMA AddsKeepNext ==
    ASSUME OnItsLane, Adds, NEW l \in Book, NEW k, NEW j, NextApplies(l, k, j)
    PROVE  NextApplies(l, k, j)'
<1>1. PICK i \in Place(l) : /\ j < i /\ Between(l, k, j, i)
                            /\ Waits(l, i).kind = "apply" /\ Waits(l, i).key = k
  BY DEF NextApplies
<1>2. i \in Place(l)' /\ Waits(l, i)' = Waits(l, i)
  BY DEF Adds, AddsAtTheEnd
<1>3. Between(l, k, j, i)'
  BY <1>1, AddsKeepBetween
<1> QED
  BY <1>1, <1>2, <1>3 DEF NextApplies

LEMMA AddsArmedOnce == OnItsLane /\ ArmedOnce /\ Adds => ArmedOnce'
<1> SUFFICES ASSUME OnItsLane, ArmedOnce, Adds PROVE ArmedOnce'
  OBVIOUS
<1>0. armed' = armed /\ armed \in [Key -> Seq(Batch)]
  BY DEF Adds, ArmedOnce
<1>1. ASSUME NEW k \in Key PROVE Distinct(armed'[k]) /\ \A b \in Range(armed'[k]) : batch'[b] = "open"
  <2>1. armed[k] \in Seq(Batch) /\ armed'[k] = armed[k]
    BY <1>0
  <2>2. \A b \in Range(armed[k]) : b \in Batch /\ batch[b] = "open"
    BY <2>1 DEF ArmedOnce, Range
  <2> QED
    BY <2>1, <2>2 DEF Adds, ArmedOnce
<1>2. ASSUME NEW l \in Book, NEW i \in Nat, i \in Place(l)', Waits(l, i)'.kind = "fence"
      PROVE  /\ Waits(l, i)'.batch \notin Range(armed'[Waits(l, i)'.key])
             /\ \A j \in Place(l)' : Waits(l, j)' = Waits(l, i)' => j = i
  <2>0. OnItsLane'
    BY AddsOnItsLane
  <2>1. Waits(l, i)' \in Tasks
    BY <1>2, <2>0 DEF OnItsLane, Place, Waits
  <2>2. Waits(l, i)'.key \in Key /\ Waits(l, i)'.kind # "edit"
    BY <1>2, <2>1, KindsOfTasks
  <2>3. CASE i \in Place(l)
    <3>1. Waits(l, i)' = Waits(l, i)
      BY <2>3 DEF Adds, AddsAtTheEnd
    <3>2. batch[Waits(l, i).batch] = "open"
      BY <2>2, <2>3, <3>1 DEF OnItsLane
    <3>3. Waits(l, i).batch \notin Range(armed[Waits(l, i).key])
      BY <1>2, <2>3, <3>1 DEF ArmedOnce
    <3>4. ASSUME NEW j \in Nat, j \in Place(l)', Waits(l, j)' = Waits(l, i)' PROVE j = i
      <4>1. j \in Place(l)
        <5>1. j \notin Place(l) => batch[Waits(l, j)'.batch] = "new"
          BY <2>2, <3>4 DEF Adds, AddsItsOwn, Added
        <5> QED
          BY <3>1, <3>2, <3>4, <5>1
      <4>2. Waits(l, j) = Waits(l, i)
        BY <3>1, <3>4, <4>1 DEF Adds, AddsAtTheEnd
      <4> QED
        BY <1>2, <2>3, <3>1, <4>1, <4>2 DEF ArmedOnce
    <3> QED
      BY PlacesInNat, <1>0, <3>1, <3>3, <3>4
  <2>4. CASE i \notin Place(l)
    <3>1. batch[Waits(l, i)'.batch] = "new" /\ Added(l, i)
      BY <1>2, <2>2, <2>4 DEF Adds, AddsItsOwn, Added
    <3>2. Waits(l, i)'.batch \notin Range(armed[Waits(l, i)'.key])
      BY <2>2, <3>1 DEF ArmedOnce
    <3>3. ASSUME NEW j \in Nat, j \in Place(l)', Waits(l, j)' = Waits(l, i)' PROVE j = i
      <4>1. j \notin Place(l)
        <5>1. j \in Place(l) => Waits(l, j)' = Waits(l, j)
          BY DEF Adds, AddsAtTheEnd
        <5>2. j \in Place(l) => (Waits(l, j).kind # "edit" => batch[Waits(l, j).batch] = "open")
          BY DEF OnItsLane
        <5> QED
          BY <2>2, <3>1, <3>3, <5>1, <5>2
      <4>2. Added(l, j)
        BY <3>3, <4>1 DEF Added
      <4> QED
        BY <1>2, <3>1, <3>3, <4>2 DEF Adds, AddsBlocks
    <3> QED
      BY PlacesInNat, <1>0, <3>2, <3>3
  <2> QED
    BY <2>3, <2>4
<1> QED
  BY PlacesInNat, <1>0, <1>1, <1>2 DEF ArmedOnce

LEMMA AddsBehindItsFence == OnItsLane /\ BehindItsFence /\ Adds => BehindItsFence'
<1> SUFFICES ASSUME OnItsLane, BehindItsFence, Adds,
                    NEW l \in Book, NEW i \in Nat, i \in Place(l)', Waits(l, i)'.kind = "apply"
             PROVE  \/ /\ Waits(l, i)'.batch \in Range(armed'[Waits(l, i)'.key])
                       /\ Between(l, Waits(l, i).key, 0, i)'
                    \/ \E j \in Nat : /\ j \in Place(l)' /\ j < i /\ Between(l, Waits(l, i).key, j, i)'
                                            /\ Waits(l, j)'.kind = "fence"
                                            /\ Waits(l, j)'.key = Waits(l, i)'.key
                                            /\ Waits(l, j)'.batch = Waits(l, i)'.batch
  BY PlacesInNat DEF BehindItsFence
<1>1. CASE i \in Place(l)
  <2>1. Waits(l, i)' = Waits(l, i)
    BY <1>1 DEF Adds, AddsAtTheEnd
  <2>2. CASE Waits(l, i).batch \in Range(armed[Waits(l, i).key]) /\ Between(l, Waits(l, i).key, 0, i)
    <3>1. Between(l, Waits(l, i).key, 0, i)'
      BY <1>1, <2>1, <2>2, AddsKeepBetween
    <3> QED
      BY <2>1, <2>2, <3>1 DEF Adds
  <2>3. ASSUME NEW j \in Place(l), j < i, Between(l, Waits(l, i).key, j, i),
               Waits(l, j).kind = "fence", Waits(l, j).key = Waits(l, i).key,
               Waits(l, j).batch = Waits(l, i).batch
        PROVE  \E h \in Nat : /\ h \in Place(l)' /\ h < i /\ Between(l, Waits(l, i).key, h, i)'
                                    /\ Waits(l, h)'.kind = "fence"
                                    /\ Waits(l, h)'.key = Waits(l, i)'.key
                                    /\ Waits(l, h)'.batch = Waits(l, i)'.batch
    <3>1. Between(l, Waits(l, i).key, j, i)'
      BY <1>1, <2>1, <2>3, AddsKeepBetween
    <3>2. j \in Place(l)' /\ Waits(l, j)' = Waits(l, j)
      BY DEF Adds, AddsAtTheEnd
    <3> QED
      BY PlacesInNat, <2>1, <2>3, <3>1, <3>2
  <2> QED
    BY <1>1, <2>1, <2>2, <2>3 DEF BehindItsFence
<1>2. CASE i \notin Place(l)
  <2>1. Added(l, i)
    BY <1>2 DEF Added
  <2>2. PICK j \in Nat : /\ Added(l, j) /\ j < i /\ Between(l, Waits(l, i).key, j, i)'
                              /\ Waits(l, j)'.kind = "fence"
                              /\ Waits(l, j)'.key = Waits(l, i)'.key
                              /\ Waits(l, j)'.batch = Waits(l, i)'.batch
    BY <2>1 DEF Adds, AddsBlocks
  <2>3. j \in Place(l)'
    BY <2>2 DEF Added
  <2> QED
    BY <2>2, <2>3
<1> QED
  BY <1>1, <1>2

LEMMA AddsEachIsUsed == OnItsLane /\ EachIsUsed /\ Adds => EachIsUsed'
<1> SUFFICES ASSUME OnItsLane, EachIsUsed, Adds, NEW k \in Key, k \notin vain'
             PROVE  /\ \A j \in Place(Lane(k))' :
                          Waits(Lane(k), j)'.kind = "fence" /\ Waits(Lane(k), j)'.key = k
                              => NextApplies(Lane(k), k, j)'
                    /\ Len(armed'[k]) <= 1
                    /\ armed'[k] # <<>> => NextApplies(Lane(k), k, 0)'
  BY DEF EachIsUsed
<1>0. k \notin vain /\ Lane(k) \in Book
  BY LanesAreBooks DEF Adds
<1>1. ASSUME NEW j \in Nat, j \in Place(Lane(k))', Waits(Lane(k), j)'.kind = "fence", Waits(Lane(k), j)'.key = k
      PROVE  NextApplies(Lane(k), k, j)'
  <2>1. CASE j \in Place(Lane(k))
    <3>1. Waits(Lane(k), j)' = Waits(Lane(k), j)
      BY <1>0, <2>1 DEF Adds, AddsAtTheEnd
    <3>2. NextApplies(Lane(k), k, j)
      BY <1>0, <1>1, <2>1, <3>1 DEF EachIsUsed
    <3> QED
      BY <1>0, <3>2, AddsKeepNext
  <2>2. CASE j \notin Place(Lane(k))
    <3>1. Added(Lane(k), j)
      BY <1>1, <2>2 DEF Added
    <3> QED
      BY <1>0, <1>1, <3>1 DEF Adds, AddsBlocks
  <2> QED
    BY <2>1, <2>2
<1>2. Len(armed'[k]) <= 1
  BY <1>0 DEF EachIsUsed, Adds
<1>3. ASSUME armed'[k] # <<>> PROVE NextApplies(Lane(k), k, 0)'
  <2>1. NextApplies(Lane(k), k, 0)
    BY <1>0, <1>3 DEF EachIsUsed, Adds
  <2> QED
    BY <1>0, <2>1, AddsKeepNext
<1> QED
  BY PlacesInNat, <1>1, <1>2, <1>3

\* What Accepted makes of every lane is at its end.
LEMMA AcceptedAdds ==
    ASSUME OnItsLane, NEW s \in [Book -> Seq(Tasks)],
           line' \in [Book -> Seq(Tasks)], \A l \in Book : line'[l] = Accepted(l, s[l])
    PROVE  /\ AddsAtTheEnd
           /\ \A l \in Book : \A i \in Nat : Added(l, i) =>
                 i - Len(line[l]) \in 1 .. Len(s[l]) /\ Waits(l, i)' = s[l][i - Len(line[l])]
           /\ \A l \in Book : \A i \in Nat : Added(l, i) =>
                 \A p \in 1 .. Len(s[l]) : p < i - Len(line[l]) =>
                     Added(l, p + Len(line[l])) /\ p + Len(line[l]) \in Nat
<1>1. ASSUME NEW l \in Book
      PROVE  /\ line'[l] \in Seq(Tasks) /\ Len(line[l]) \in Nat
             /\ Len(line[l]) <= Len(line'[l]) /\ Len(line'[l]) <= Cap
             /\ \A i \in 1 .. Len(line[l]) : line'[l][i] = line[l][i]
             /\ \A i \in 1 .. Len(line'[l]) : ~(i <= Len(line[l])) =>
                   i - Len(line[l]) \in 1 .. Len(s[l]) /\ line'[l][i] = s[l][i - Len(line[l])]
  <2>1. s[l] \in Seq(Tasks)
    OBVIOUS
  <2>2. PICK a \in Seq(Tasks) : a = line'[l]
    OBVIOUS
  <2>3. a = Accepted(l, s[l])
    BY <2>2
  <2>4. PICK n : n = Len(line[l])
    OBVIOUS
  <2>5. PICK q \in Seq(Tasks) : q = s[l]
    OBVIOUS
  <2>6. /\ n \in Nat /\ n <= Len(a) /\ Len(a) <= Cap
        /\ \A i \in 1 .. n : a[i] = line[l][i]
        /\ \A i \in 1 .. Len(a) : ~(i <= n) => i - n \in 1 .. Len(q) /\ a[i] = q[i - n]
    BY <2>3, <2>4, <2>5, AcceptedIs
  <2> QED
    BY <2>2, <2>4, <2>5, <2>6
<1>2. ASSUME NEW l \in Book, NEW i \in Place(l) PROVE i \in Place(l)' /\ Waits(l, i)' = Waits(l, i)
  <2>1. Len(line'[l]) \in Nat
    BY <1>1
  <2> QED
    BY <1>1, <2>1 DEF Place, Waits
<1>3. ASSUME NEW l \in Book, NEW i \in Nat, Added(l, i)
      PROVE  /\ i \in 1 .. Len(line'[l]) /\ ~(i <= Len(line[l]))
             /\ \A j \in Place(l) : j < i
  BY <1>1, <1>3 DEF Added, Place
<1>4. ASSUME NEW l \in Book, NEW i \in Nat, Added(l, i)
      PROVE  i - Len(line[l]) \in 1 .. Len(s[l]) /\ Waits(l, i)' = s[l][i - Len(line[l])]
  BY <1>1, <1>3, <1>4 DEF Waits
<1>5. ASSUME NEW l \in Book, NEW i \in Nat, Added(l, i),
             NEW p \in 1 .. Len(s[l]), p < i - Len(line[l])
      PROVE  Added(l, p + Len(line[l])) /\ p + Len(line[l]) \in Nat
  <2>1. Len(line[l]) \in Nat /\ Len(line'[l]) \in Nat /\ i \in 1 .. Len(line'[l])
    BY <1>1, <1>3, <1>5
  <2> QED
    BY <1>5, <2>1 DEF Added, Place
<1> QED
  BY <1>1, <1>2, <1>3, <1>4, <1>5 DEF AddsAtTheEnd

LEMMA QueueAdds ==
    ASSUME OnItsLane, Rest, NEW k \in Key, Queue(k)
    PROVE  Adds
<1> DEFINE s == [l \in Book |-> IF l = Lane(k) THEN <<Edit(k)>> ELSE <<>>]
<1>0. Lane(k) \in Book /\ line \in [Book -> Seq(Tasks)] /\ batch' = batch /\ armed' = armed /\ vain' = vain
  BY LanesAreBooks DEF OnItsLane, Queue
<1>1. s \in [Book -> Seq(Tasks)]
  <2>1. <<Edit(k)>> \in Seq(Tasks) /\ <<>> \in Seq(Tasks)
    <3>1. Edit(k) \in Tasks
      BY DEF Edit, Tasks
    <3> QED
      BY <3>1
  <2> QED
    BY <2>1
<1>2. Edit(k).kind = "edit" /\ Edit(k).key = k
  BY DEF Edit
<1>3. line' = [line EXCEPT ![Lane(k)] = Accepted(Lane(k), <<Edit(k)>>)]
  BY DEF Queue
<1>4. \A l \in Book : line'[l] = Accepted(l, s[l])
  <2> SUFFICES ASSUME NEW l \in Book PROVE line'[l] = Accepted(l, s[l])
    OBVIOUS
  <2>1. CASE l = Lane(k)
    BY <1>0, <1>3, <2>1
  <2>2. CASE l # Lane(k)
    <3>1. s[l] = <<>> /\ line'[l] = line[l]
      BY <1>0, <1>3, <2>2
    <3>2. line[l] \in Seq(Tasks) /\ Len(line[l]) <= Cap
      BY <1>0 DEF OnItsLane
    <3>3. line[l] \o <<>> = line[l]
      BY <3>2, ConcatEmptySeq
    <3>4. Accepted(l, <<>>) = line[l]
      BY <3>2, <3>3 DEF Accepted
    <3> QED
      BY <3>1, <3>4
  <2> QED
    BY <2>1, <2>2
<1>5. \A l \in Book : line'[l] \in Seq(Tasks)
  <2> SUFFICES ASSUME NEW l \in Book PROVE line'[l] \in Seq(Tasks)
    OBVIOUS
  <2>1. s[l] \in Seq(Tasks)
    BY <1>1
  <2> QED
    BY <1>4, <2>1, AcceptedIs
<1>6. \A l \in Book : Len(s[l]) = IF l = Lane(k) THEN 1 ELSE 0
  OBVIOUS
<1>7. s[Lane(k)][1] = Edit(k)
  BY <1>0
<1>8. line' \in [Book -> Seq(Tasks)]
  BY <1>0, <1>3, <1>5
<1> HIDE DEF s
<1>9. AddsAtTheEnd
  BY <1>1, <1>4, <1>8, AcceptedAdds
<1>10. ASSUME NEW l \in Book, NEW i \in Nat, Added(l, i) PROVE l = Lane(k) /\ Waits(l, i)' = Edit(k)
  <2>1. i - Len(line[l]) \in 1 .. Len(s[l]) /\ Waits(l, i)' = s[l][i - Len(line[l])]
    BY <1>1, <1>4, <1>8, <1>10, AcceptedAdds
  <2>2. l = Lane(k) /\ i - Len(line[l]) = 1
    BY <1>6, <2>1
  <2> QED
    BY <1>7, <2>1, <2>2
<1>11. AddsItsOwn
  BY <1>2, <1>10 DEF AddsItsOwn
<1>12. AddsBlocks
  BY <1>2, <1>10 DEF AddsBlocks
<1> QED
  BY <1>0, <1>9, <1>11, <1>12 DEF Adds, OnItsLane

LEMMA OpenAdds ==
    ASSUME OnItsLane, Rest, NEW b \in Batch, NEW K \in SUBSET Key, NEW out \in [K -> Outcome], Open(b, K, out)
    PROVE  Adds
<1> DEFINE s == [l \in Book |-> Block(b, l, K, out)]
<1>0. /\ batch[b] = "new" /\ batch' = [batch EXCEPT ![b] = "open"]
      /\ vain' = vain \cup {k \in K : Apply(b, k, out[k]) \notin Range(line'[Lane(k)])}
      /\ armed' = armed /\ batch \in [Batch -> {"new", "open", "closed"}]
      /\ line' = [l \in Book |-> Accepted(l, Block(b, l, K, out))]
  BY DEF Open, OnItsLane, Block
<1>1. ASSUME NEW l \in Book
      PROVE  /\ s[l] \in Seq(Tasks)
             /\ \A p \in 1 .. Len(s[l]) : /\ s[l][p].kind \in {"fence", "apply"} /\ s[l][p].batch = b
                                          /\ Lane(s[l][p].key) = l /\ s[l][p].key \in K
             /\ \A p, q \in 1 .. Len(s[l]) :
                   s[l][p].kind = s[l][q].kind /\ s[l][p].key = s[l][q].key => p = q
             /\ \A p, q \in 1 .. Len(s[l]) : s[l][p].kind = "fence" /\ s[l][q].kind = "apply" => p < q
             /\ \A q \in 1 .. Len(s[l]) : s[l][q].kind = "apply" =>
                   \E p \in 1 .. Len(s[l]) : p < q /\ s[l][p].kind = "fence" /\ s[l][p].key = s[l][q].key
  <2>1. IsBlock(s[l], b, l, K)
    BY OneBlock
  <2> HIDE DEF s
  <2> QED
    BY <2>1 DEF IsBlock
<1>2. s \in [Book -> Seq(Tasks)]
  <2>1. \A l \in Book : Block(b, l, K, out) \in Seq(Tasks)
    BY <1>1
  <2> QED
    BY <2>1
<1>3. \A l \in Book : line'[l] = Accepted(l, s[l])
  BY <1>0
<1>4. line' \in [Book -> Seq(Tasks)]
  <2>1. \A l \in Book : Accepted(l, Block(b, l, K, out)) \in Seq(Tasks)
    <3> SUFFICES ASSUME NEW l \in Book PROVE Accepted(l, Block(b, l, K, out)) \in Seq(Tasks)
      OBVIOUS
    <3>1. Block(b, l, K, out) \in Seq(Tasks)
      BY <1>1
    <3> QED
      BY <3>1, AcceptedIs
  <2> QED
    BY <1>0, <2>1
<1> HIDE DEF s
<1>5. AddsAtTheEnd
  BY <1>2, <1>3, <1>4, AcceptedAdds
<1> DEFINE p(l, i) == i - Len(line[l])
<1>6. ASSUME NEW l \in Book, NEW i \in Nat, Added(l, i)
      PROVE  /\ p(l, i) \in 1 .. Len(s[l]) /\ Waits(l, i)' = s[l][p(l, i)]
             /\ Waits(l, i)'.kind \in {"fence", "apply"} /\ Waits(l, i)'.batch = b
             /\ Lane(Waits(l, i)'.key) = l /\ Waits(l, i)'.key \in K
  <2>1. p(l, i) \in 1 .. Len(s[l]) /\ Waits(l, i)' = s[l][p(l, i)]
    BY <1>2, <1>3, <1>4, <1>6, AcceptedAdds
  <2> HIDE DEF p
  <2> QED
    BY <1>1, <2>1
<1>7. ASSUME NEW l \in Book, NEW i \in Nat, Added(l, i), NEW j \in Nat, Added(l, j),
             Waits(l, j)'.kind = Waits(l, i)'.kind, Waits(l, j)'.key = Waits(l, i)'.key
      PROVE  j = i
  <2>1. /\ p(l, i) \in 1 .. Len(s[l]) /\ Waits(l, i)' = s[l][p(l, i)]
        /\ p(l, j) \in 1 .. Len(s[l]) /\ Waits(l, j)' = s[l][p(l, j)]
    BY <1>6, <1>7
  <2>2. p(l, j) = p(l, i)
    <3> HIDE DEF p
    <3> QED
      BY <1>1, <1>7, <2>1
  <2>3. Len(line[l]) \in Nat
    BY DEF OnItsLane
  <2> QED
    BY <2>2, <2>3
<1>8. ASSUME NEW l \in Book, NEW k, NEW i \in Nat, Added(l, i), NEW j \in Nat, Added(l, j), j < i,
             Waits(l, j)'.kind = "fence", Waits(l, j)'.key = k,
             Waits(l, i)'.kind = "apply", Waits(l, i)'.key = k
      PROVE  Between(l, k, j, i)'
  <2> SUFFICES ASSUME NEW h \in Nat, h \in Place(l)', j < h, h < i, Waits(l, h)'.key = k PROVE FALSE
    BY PlacesInNat DEF Between
  <2>1. Added(l, h)
    <3>1. h \in Place(l) => h < j
      BY <1>5, <1>8 DEF AddsAtTheEnd
    <3> QED
      BY <3>1 DEF Added
  <2>2. Waits(l, h)'.kind \in {"fence", "apply"}
    BY <1>6, <2>1
  <2>3. h = j \/ h = i
    BY <1>7, <1>8, <2>1, <2>2
  <2> QED
    BY <2>3
<1>9. AddsItsOwn
  BY <1>0, <1>6 DEF AddsItsOwn
<1>10. ASSUME NEW l \in Book, NEW i \in Nat, Added(l, i), Waits(l, i)'.kind = "apply"
       PROVE  \E j \in Nat : /\ Added(l, j) /\ j < i /\ Between(l, Waits(l, i).key, j, i)'
                             /\ Waits(l, j)'.kind = "fence"
                             /\ Waits(l, j)'.key = Waits(l, i)'.key
                             /\ Waits(l, j)'.batch = Waits(l, i)'.batch
  <2>1. p(l, i) \in 1 .. Len(s[l]) /\ Waits(l, i)' = s[l][p(l, i)]
    BY <1>6, <1>10
  <2>2. PICK q \in 1 .. Len(s[l]) : q < p(l, i) /\ s[l][q].kind = "fence" /\ s[l][q].key = s[l][p(l, i)].key
    <3> HIDE DEF p
    <3> QED
      BY <1>1, <1>10, <2>1
  <2>3. PICK j \in Nat : j = q + Len(line[l]) /\ Added(l, j)
    BY <1>2, <1>3, <1>4, <1>10, <2>2, AcceptedAdds
  <2>4. Len(line[l]) \in Nat /\ q \in Nat
    <3>1. line[l] \in Seq(Tasks)
      BY DEF OnItsLane
    <3> QED
      BY <3>1
  <2>5. j < i /\ p(l, j) = q
    BY <2>2, <2>3, <2>4
  <2>6. Waits(l, j)' = s[l][q] /\ Waits(l, j)'.batch = b
    BY <1>6, <2>3, <2>5
  <2>7. Waits(l, j)'.kind = "fence" /\ Waits(l, j)'.key = Waits(l, i)'.key
    BY <2>1, <2>2, <2>6
  <2>8. Between(l, Waits(l, i).key, j, i)'
    BY <1>8, <1>10, <2>3, <2>5, <2>7
  <2>9. Waits(l, i)'.batch = b
    BY <1>6, <1>10
  <2> QED
    BY <2>3, <2>5, <2>6, <2>7, <2>8, <2>9
<1>11. ASSUME NEW l \in Book, NEW i \in Nat, Added(l, i), Waits(l, i)'.kind = "fence",
              Waits(l, i)'.key \notin vain'
       PROVE  NextApplies(l, Waits(l, i).key, i)'
  <2>0. PICK k \in K : k = Waits(l, i)'.key
    BY <1>6, <1>11
  <2>1. Lane(k) = l /\ k \notin vain'
    BY <1>6, <1>11, <2>0
  <2>2. Apply(b, k, out[k]) \in Range(line'[l])
    BY <1>0, <2>1
  <2>3. line'[l] \in Seq(Tasks)
    BY <1>4
  <2>4. PICK h \in Nat : h \in Place(l)' /\ Waits(l, h)' = Apply(b, k, out[k])
    <3>1. \E h \in Place(l)' : Waits(l, h)' = Apply(b, k, out[k])
      BY <2>2, <2>3 DEF Range, Place, Waits
    <3> QED
      BY <3>1, PlacesInNat
  <2>6. Waits(l, h)'.kind = "apply" /\ Waits(l, h)'.batch = b /\ Waits(l, h)'.key = k
    BY <2>4 DEF Apply
  <2>7. Added(l, h)
    <3>1. ASSUME h \in Place(l) PROVE FALSE
      <4>1. Waits(l, h)' = Waits(l, h)
        BY <1>5, <2>4, <3>1 DEF AddsAtTheEnd
      <4>2. batch[b] = "open"
        BY <2>6, <3>1, <4>1 DEF OnItsLane
      <4> QED
        BY <1>0, <4>2
    <3> QED
      BY <2>4, <3>1 DEF Added
  <2>8. i < h
    <3>1. p(l, i) \in 1 .. Len(s[l]) /\ Waits(l, i)' = s[l][p(l, i)]
      BY <1>6, <1>11
    <3>2. p(l, h) \in 1 .. Len(s[l]) /\ Waits(l, h)' = s[l][p(l, h)]
      BY <1>6, <2>7
    <3>3. p(l, i) < p(l, h)
      <4> HIDE DEF p
      <4> QED
        BY <1>1, <1>11, <2>6, <3>1, <3>2
    <3>4. Len(line[l]) \in Nat
      BY DEF OnItsLane
    <3> QED
      BY <3>3, <3>4
  <2>9. Between(l, k, i, h)'
    BY <1>8, <1>11, <2>0, <2>6, <2>7, <2>8
  <2> QED
    BY <2>0, <2>4, <2>6, <2>8, <2>9 DEF NextApplies
<1>12. AddsBlocks
  <2>1. ASSUME NEW l \in Book, NEW i \in Nat, Added(l, i), NEW j \in Nat, Added(l, j), Waits(l, j)' = Waits(l, i)'
        PROVE  j = i
    BY <1>7, <2>1
  <2> QED
    BY <1>10, <1>11, <2>1 DEF AddsBlocks
<1>13. /\ batch' \in [Batch -> {"new", "open", "closed"}]
       /\ \A c \in Batch : batch[c] = "open" => batch'[c] = "open"
  BY <1>0
<1> QED
  BY <1>0, <1>5, <1>9, <1>12, <1>13 DEF Adds

-----------------------------------------------------------------------------
(* Running: the head of a lane goes, and no ticket changes but those of its key. *)

Goes(l) ==
    /\ line[l] # <<>> /\ Shift(l) /\ batch' = batch
    /\ armed' \in [Key -> Seq(Batch)]
    /\ \A k \in Key : k # Head(line[l]).key => armed'[k] = armed[k]

\* Another lane is as it was.
LEMMA OtherLanes ==
    ASSUME OnItsLane, NEW l \in Book, Goes(l), NEW m \in Book, m # l
    PROVE  /\ Place(m)' = Place(m) /\ \A i : Waits(m, i)' = Waits(m, i)
           /\ \A k, i, j : Between(m, k, i, j)' = Between(m, k, i, j)
           /\ \A k, j : NextApplies(m, k, j)' = NextApplies(m, k, j)
<1>1. line'[m] = line[m]
  BY DEF Goes, Shift, OnItsLane
<1>2. Place(m)' = Place(m) /\ \A i : Waits(m, i)' = Waits(m, i)
  BY <1>1 DEF Place, Waits
<1>3. \A k, i, j : Between(m, k, i, j)' = Between(m, k, i, j)
  BY <1>2 DEF Between
<1>4. \A k, j : NextApplies(m, k, j)' = NextApplies(m, k, j)
  BY <1>2, <1>3 DEF NextApplies
<1> QED
  BY <1>2, <1>3, <1>4

LEMMA GoesOnItsLane ==
    ASSUME OnItsLane, NEW l \in Book, Goes(l)
    PROVE  OnItsLane'
<1>0. line' \in [Book -> Seq(Tasks)] /\ batch' = batch
  BY AfterShift DEF Goes
<1>1. ASSUME NEW m \in Book
      PROVE  /\ Len(line'[m]) <= Cap
             /\ \A i \in Place(m)' : /\ Lane(Waits(m, i)'.key) = m
                                     /\ Waits(m, i)'.kind # "edit" => batch[Waits(m, i)'.batch] = "open"
  <2>1. CASE m = l
    <3>1. /\ Len(line'[l]) = Len(line[l]) - 1 /\ Len(line[l]) \in Nat
          /\ \A i \in Place(l)' : i + 1 \in Place(l) /\ Waits(l, i)' = Waits(l, i + 1)
      BY AfterShift DEF Goes
    <3>2. Len(line[l]) <= Cap /\ Cap \in Nat
      BY ProvenanceAssumption DEF OnItsLane, ProvenanceAssumption
    <3>3. Len(line'[l]) <= Cap
      BY <3>1, <3>2
    <3> QED
      BY <2>1, <3>1, <3>3 DEF OnItsLane
  <2>2. CASE m # l
    <3>1. line'[m] = line[m]
      BY <2>2, AfterShift DEF Goes
    <3> QED
      BY <2>2, <3>1, OtherLanes DEF OnItsLane
  <2> QED
    BY <2>1, <2>2
<1> QED
  BY <1>0, <1>1 DEF OnItsLane

\* On the lane itself every place moves up by one.
LEMMA BetweenMovesUp ==
    ASSUME OnItsLane, NEW l \in Book, Goes(l), NEW k, NEW i \in Nat, NEW j \in Nat, Between(l, k, i + 1, j + 1)
    PROVE  Between(l, k, i, j)'
<1> SUFFICES ASSUME NEW h \in Nat, h \in Place(l)', i < h, h < j PROVE Waits(l, h)'.key # k
  BY PlacesInNat DEF Between
<1>1. h + 1 \in Place(l) /\ Waits(l, h)' = Waits(l, h + 1)
  BY AfterShift DEF Goes
<1>2. i + 1 < h + 1 /\ h + 1 < j + 1
  OBVIOUS
<1> QED
  BY <1>1, <1>2 DEF Between

LEMMA NextMovesUp ==
    ASSUME OnItsLane, NEW l \in Book, Goes(l), NEW k, NEW j \in Nat, NextApplies(l, k, j + 1)
    PROVE  NextApplies(l, k, j)'
<1>1. PICK i \in Place(l) : /\ j + 1 < i /\ Between(l, k, j + 1, i)
                            /\ Waits(l, i).kind = "apply" /\ Waits(l, i).key = k
  BY DEF NextApplies
<1>2. i \in Nat /\ i # 1
  BY <1>1, PlacesInNat
<1>3. PICK h \in Nat : i = h + 1 /\ j < h /\ h = i - 1
  BY <1>1, <1>2
<1>4. h \in Place(l)' /\ Waits(l, h)' = Waits(l, i)
  BY <1>2, <1>3, AfterShift DEF Goes
<1>5. Between(l, k, j, h)'
  BY <1>1, <1>3, BetweenMovesUp
<1> QED
  BY <1>1, <1>3, <1>4, <1>5 DEF NextApplies

\* What is next of a key comes to stand first of it, where the head is of another.
LEMMA NextStaysFirst ==
    ASSUME OnItsLane, NEW l \in Book, Goes(l), NEW k, NextApplies(l, k, 0), Head(line[l]).key # k
    PROVE  NextApplies(l, k, 0)'
<1>1. PICK i \in Place(l) : /\ 0 < i /\ Between(l, k, 0, i)
                            /\ Waits(l, i).kind = "apply" /\ Waits(l, i).key = k
  BY DEF NextApplies
<1>2. i \in Nat /\ i # 1
  <2>1. Waits(l, 1) = Head(line[l])
    BY AfterShift DEF Goes
  <2> QED
    BY <1>1, <2>1, PlacesInNat
<1>3. PICK h \in Nat : i = h + 1 /\ 0 < h /\ h = i - 1
  BY <1>1, <1>2
<1>4. h \in Place(l)' /\ Waits(l, h)' = Waits(l, i)
  BY <1>2, <1>3, AfterShift DEF Goes
<1>5. Between(l, k, 0 + 1, h + 1)
  BY <1>1, <1>3, PlacesInNat DEF Between
<1>6. Between(l, k, 0, h)'
  BY <1>5, BetweenMovesUp
<1> QED
  BY <1>1, <1>3, <1>4, <1>6 DEF NextApplies

\* A ticket whose application comes next finds nothing else of its key at the head.
LEMMA HeadOfKeyApplies ==
    ASSUME OnItsLane, NEW l \in Book, line[l] # <<>>, NextApplies(l, Waits(l, 1).key, 0)
    PROVE  Waits(l, 1).kind = "apply"
<1>1. PICK i \in Place(l) : /\ 0 < i /\ Between(l, Waits(l, 1).key, 0, i)
                            /\ Waits(l, i).kind = "apply" /\ Waits(l, i).key = Waits(l, 1).key
  BY DEF NextApplies
<1>2. 1 \in Place(l)
  <2>1. line[l] \in Seq(Tasks)
    BY DEF OnItsLane
  <2> QED
    BY <2>1 DEF Place
<1>3. i \in Nat /\ ~(1 < i)
  BY <1>1, <1>2, PlacesInNat DEF Between
<1>4. i = 1
  BY <1>1, <1>3
<1> QED
  BY <1>1, <1>4

LEMMA GoesArmedOnce ==
    ASSUME OnItsLane, ArmedOnce, NEW l \in Book, Goes(l),
           \A k \in Key : Distinct(armed'[k]),
           \A k \in Key : \A b \in Range(armed'[k]) :
               \/ b \in Range(armed[k])
               \/ Waits(l, 1).kind = "fence" /\ Waits(l, 1).key = k /\ Waits(l, 1).batch = b
    PROVE  ArmedOnce'
<1>0. armed' \in [Key -> Seq(Batch)] /\ batch' = batch
  BY DEF Goes
<1>1. 1 \in Place(l) /\ Waits(l, 1) \in Tasks
  BY AfterShift DEF Goes
<1>2. ASSUME NEW k \in Key, NEW b \in Range(armed'[k]) PROVE batch'[b] = "open"
  <2>1. CASE b \in Range(armed[k])
    BY <1>0, <2>1 DEF ArmedOnce
  <2>2. CASE Waits(l, 1).kind = "fence" /\ Waits(l, 1).batch = b
    <3>1. Waits(l, 1).kind # "edit"
      BY <2>2
    <3> QED
      BY <1>0, <1>1, <2>2, <3>1 DEF OnItsLane
  <2> QED
    BY <1>2, <2>1, <2>2
<1>3. ASSUME NEW m \in Book, NEW i \in Nat, i \in Place(m)', Waits(m, i)'.kind = "fence"
      PROVE  /\ Waits(m, i)'.batch \notin Range(armed'[Waits(m, i)'.key])
             /\ \A j \in Place(m)' : Waits(m, j)' = Waits(m, i)' => j = i
  <2>1. CASE m = l
    <3>1. i + 1 \in Place(l) /\ Waits(l, i)' = Waits(l, i + 1)
      BY <1>3, <2>1, AfterShift DEF Goes
    <3>2. Waits(l, i + 1) \in Tasks /\ Waits(l, i + 1).key \in Key
      BY <3>1, PlacesAreNumbers, KindsOfTasks
    <3>3. /\ Waits(l, i + 1).batch \notin Range(armed[Waits(l, i + 1).key])
          /\ \A j \in Place(l) : Waits(l, j) = Waits(l, i + 1) => j = i + 1
      BY <1>3, <2>1, <3>1 DEF ArmedOnce
    <3>4. ~(/\ Waits(l, 1).kind = "fence" /\ Waits(l, 1).key = Waits(l, i + 1).key
            /\ Waits(l, 1).batch = Waits(l, i + 1).batch)
      <4> SUFFICES ASSUME Waits(l, 1).kind = "fence", Waits(l, 1).key = Waits(l, i + 1).key,
                          Waits(l, 1).batch = Waits(l, i + 1).batch
                   PROVE  FALSE
        OBVIOUS
      <4>1. Waits(l, i + 1).kind = "fence"
        BY <1>3, <2>1, <3>1
      <4>2. Waits(l, 1) = Waits(l, i + 1)
        BY <1>1, <3>2, <4>1 DEF Tasks
      <4>3. 1 = i + 1
        BY <1>1, <3>3, <4>2
      <4>4. i # 0
        BY <1>3 DEF Place
      <4> QED
        BY <4>3, <4>4
    <3>5. Waits(l, i + 1).batch \notin Range(armed'[Waits(l, i + 1).key])
      BY <3>2, <3>3, <3>4
    <3>6. ASSUME NEW j \in Nat, j \in Place(l)', Waits(l, j)' = Waits(l, i)' PROVE j = i
      <4>1. j + 1 \in Place(l) /\ Waits(l, j)' = Waits(l, j + 1)
        BY <3>6, AfterShift DEF Goes
      <4>2. j + 1 = i + 1
        BY <3>1, <3>3, <3>6, <4>1
      <4> QED
        BY <4>2
    <3> QED
      BY <2>1, <3>1, <3>5, <3>6, PlacesInNat
  <2>2. CASE m # l
    <3>1. i \in Place(m) /\ Place(m)' = Place(m) /\ \A j : Waits(m, j)' = Waits(m, j)
      BY <1>3, <2>2, OtherLanes
    <3>2. Waits(m, i).key \in Key /\ Lane(Waits(m, i).key) = m /\ Lane(Waits(l, 1).key) = l
      BY <1>1, <3>1, PlacesAreNumbers, KindsOfTasks DEF OnItsLane
    <3>3. /\ Waits(m, i).batch \notin Range(armed[Waits(m, i).key])
          /\ \A j \in Place(m) : Waits(m, j) = Waits(m, i) => j = i
      BY <1>3, <3>1 DEF ArmedOnce
    <3>4. Waits(m, i).batch \notin Range(armed'[Waits(m, i).key])
      BY <2>2, <3>2, <3>3
    <3> QED
      BY <3>1, <3>3, <3>4
  <2> QED
    BY <2>1, <2>2
<1> QED
  BY <1>0, <1>2, <1>3, PlacesInNat DEF ArmedOnce

LEMMA GoesBehindItsFence ==
    ASSUME OnItsLane, BehindItsFence, NEW l \in Book, Goes(l),
           Waits(l, 1).kind = "fence" => Waits(l, 1).batch \in Range(armed'[Waits(l, 1).key])
    PROVE  BehindItsFence'
<1> SUFFICES ASSUME NEW m \in Book, NEW i \in Nat, i \in Place(m)', Waits(m, i)'.kind = "apply"
             PROVE  \/ /\ Waits(m, i)'.batch \in Range(armed'[Waits(m, i)'.key])
                       /\ Between(m, Waits(m, i).key, 0, i)'
                    \/ \E j \in Nat : /\ j \in Place(m)' /\ j < i /\ Between(m, Waits(m, i).key, j, i)'
                                      /\ Waits(m, j)'.kind = "fence"
                                      /\ Waits(m, j)'.key = Waits(m, i)'.key
                                      /\ Waits(m, j)'.batch = Waits(m, i)'.batch
  BY PlacesInNat DEF BehindItsFence
<1>1. 1 \in Place(l) /\ Waits(l, 1) \in Tasks /\ Waits(l, 1) = Head(line[l])
  BY AfterShift DEF Goes
<1>2. CASE m = l
  <2>1. i + 1 \in Place(l) /\ Waits(l, i)' = Waits(l, i + 1)
    BY <1>2, AfterShift DEF Goes
  <2>2. PICK k \in Key : k = Waits(l, i + 1).key
    BY <2>1, PlacesAreNumbers, KindsOfTasks
  <2>3. Waits(l, i + 1).kind = "apply" /\ Waits(l, i)'.key = k /\ 1 < i + 1
    <3>1. i # 0
      BY DEF Place
    <3> QED
      BY <1>2, <2>1, <2>2, <3>1
  <2>4. CASE Waits(l, i + 1).batch \in Range(armed[k]) /\ Between(l, k, 0, i + 1)
    <3>1. Waits(l, 1).key # k
      BY <1>1, <2>3, <2>4 DEF Between
    <3>2. armed'[k] = armed[k]
      BY <1>1, <3>1 DEF Goes
    <3>3. Between(l, k, 0 + 1, i + 1)
      BY <2>4, PlacesInNat DEF Between
    <3>4. Between(l, k, 0, i)'
      BY <3>3, BetweenMovesUp
    <3> QED
      BY <1>2, <2>1, <2>2, <2>3, <2>4, <3>2, <3>4
  <2>5. ASSUME NEW j \in Place(l), j < i + 1, Between(l, k, j, i + 1), Waits(l, j).kind = "fence",
               Waits(l, j).key = k, Waits(l, j).batch = Waits(l, i + 1).batch
        PROVE  \/ /\ Waits(l, i)'.batch \in Range(armed'[k])
                  /\ Between(l, k, 0, i)'
               \/ \E h \in Nat : /\ h \in Place(l)' /\ h < i /\ Between(l, k, h, i)'
                                 /\ Waits(l, h)'.kind = "fence"
                                 /\ Waits(l, h)'.key = k
                                 /\ Waits(l, h)'.batch = Waits(l, i)'.batch
    <3>1. CASE j = 1
      <4>1. Waits(l, i + 1).batch \in Range(armed'[k])
        BY <2>5, <3>1
      <4>2. Between(l, k, 0 + 1, i + 1)
        BY <2>5, <3>1
      <4>3. Between(l, k, 0, i)'
        BY <4>2, BetweenMovesUp
      <4> QED
        BY <2>1, <4>1, <4>3
    <3>2. CASE j # 1
      <4>1. PICK h \in Nat : j = h + 1 /\ h = j - 1 /\ h < i
        <5>1. j \in Nat /\ j >= 1
          BY <2>5, PlacesAreNumbers
        <5> QED
          BY <2>5, <5>1
      <4>2. h \in Place(l)' /\ Waits(l, h)' = Waits(l, j)
        BY <3>2, <4>1, AfterShift DEF Goes
      <4>3. Between(l, k, h, i)'
        BY <2>5, <4>1, BetweenMovesUp
      <4> QED
        BY <2>1, <2>5, <4>1, <4>2, <4>3
    <3> QED
      BY <3>1, <3>2
  <2>6. \/ Waits(l, i + 1).batch \in Range(armed[k]) /\ Between(l, k, 0, i + 1)
        \/ \E j \in Place(l) : /\ j < i + 1 /\ Between(l, k, j, i + 1)
                               /\ Waits(l, j).kind = "fence"
                               /\ Waits(l, j).key = k /\ Waits(l, j).batch = Waits(l, i + 1).batch
    BY <2>1, <2>2, <2>3 DEF BehindItsFence
  <2>7. CASE \E j \in Place(l) : /\ j < i + 1 /\ Between(l, k, j, i + 1)
                                 /\ Waits(l, j).kind = "fence"
                                 /\ Waits(l, j).key = k /\ Waits(l, j).batch = Waits(l, i + 1).batch
    BY <1>2, <2>1, <2>2, <2>5, <2>7
  <2> QED
    BY <2>4, <2>6, <2>7
<1>3. CASE m # l
  <2>1. /\ i \in Place(m) /\ Place(m)' = Place(m) /\ \A j : Waits(m, j)' = Waits(m, j)
        /\ \A k, h, j : Between(m, k, h, j)' = Between(m, k, h, j)
    BY <1>3, OtherLanes
  <2>2. Waits(m, i).key \in Key /\ Lane(Waits(m, i).key) = m /\ Lane(Waits(l, 1).key) = l
    BY <1>1, <2>1, PlacesAreNumbers, KindsOfTasks DEF OnItsLane
  <2>3. armed'[Waits(m, i).key] = armed[Waits(m, i).key]
    BY <1>1, <1>3, <2>2 DEF Goes
  <2>4. Between(m, Waits(m, i).key, 0, i)' = Between(m, Waits(m, i).key, 0, i)
    BY <2>1
  <2>5. \A j : Between(m, Waits(m, i).key, j, i)' = Between(m, Waits(m, i).key, j, i)
    BY <2>1
  <2>6. \/ Waits(m, i).batch \in Range(armed[Waits(m, i).key]) /\ Between(m, Waits(m, i).key, 0, i)
        \/ \E j \in Place(m) : /\ j < i /\ Between(m, Waits(m, i).key, j, i)
                               /\ Waits(m, j).kind = "fence"
                               /\ Waits(m, j).key = Waits(m, i).key
                               /\ Waits(m, j).batch = Waits(m, i).batch
    BY <2>1 DEF BehindItsFence
  <2> QED
    BY <2>1, <2>3, <2>4, <2>5, <2>6, PlacesInNat
<1> QED
  BY <1>2, <1>3

LEMMA GoesEachIsUsed ==
    ASSUME OnItsLane, EachIsUsed, NEW l \in Book, Goes(l), vain \subseteq vain',
           Waits(l, 1).key \in Key \ vain' =>
               /\ Len(armed'[Waits(l, 1).key]) <= 1
               /\ armed'[Waits(l, 1).key] # <<>> => Waits(l, 1).kind = "fence"
    PROVE  EachIsUsed'
<1> SUFFICES ASSUME NEW k \in Key, k \notin vain'
             PROVE  /\ \A j \in Place(Lane(k))' :
                          Waits(Lane(k), j)'.kind = "fence" /\ Waits(Lane(k), j)'.key = k
                              => NextApplies(Lane(k), k, j)'
                    /\ Len(armed'[k]) <= 1
                    /\ armed'[k] # <<>> => NextApplies(Lane(k), k, 0)'
  BY DEF EachIsUsed
<1>0. 1 \in Place(l) /\ Waits(l, 1) \in Tasks /\ Waits(l, 1) = Head(line[l])
  BY AfterShift DEF Goes
<1>1. PICK m \in Book : m = Lane(k)
  BY LanesAreBooks
<1>2. /\ \A j \in Place(m) : Waits(m, j).kind = "fence" /\ Waits(m, j).key = k => NextApplies(m, k, j)
      /\ Len(armed[k]) <= 1
      /\ armed[k] # <<>> => NextApplies(m, k, 0)
  BY <1>1 DEF EachIsUsed
<1>3. CASE m = l
  <2>1. ASSUME NEW j \in Nat, j \in Place(l)', Waits(l, j)'.kind = "fence", Waits(l, j)'.key = k
        PROVE  NextApplies(l, k, j)'
    <3>1. j + 1 \in Place(l) /\ Waits(l, j)' = Waits(l, j + 1)
      BY <2>1, AfterShift DEF Goes
    <3>2. NextApplies(l, k, j + 1)
      BY <1>2, <1>3, <2>1, <3>1
    <3> QED
      BY <3>2, NextMovesUp
  <2>2. CASE k = Waits(l, 1).key
    <3>1. Len(armed'[k]) <= 1 /\ (armed'[k] # <<>> => Waits(l, 1).kind = "fence")
      BY <2>2
    <3>2. ASSUME armed'[k] # <<>> PROVE NextApplies(l, k, 0)'
      <4>1. NextApplies(l, k, 0 + 1)
        BY <1>0, <1>2, <1>3, <2>2, <3>1, <3>2
      <4> QED
        BY <4>1, NextMovesUp
    <3> QED
      BY <1>1, <1>3, <2>1, <3>1, <3>2, PlacesInNat
  <2>3. CASE k # Waits(l, 1).key
    <3>1. armed'[k] = armed[k]
      BY <1>0, <2>3 DEF Goes
    <3>2. ASSUME armed'[k] # <<>> PROVE NextApplies(l, k, 0)'
      <4>1. NextApplies(l, k, 0)
        BY <1>2, <1>3, <3>1, <3>2
      <4> QED
        BY <1>0, <2>3, <4>1, NextStaysFirst
    <3> QED
      BY <1>1, <1>2, <1>3, <2>1, <3>1, <3>2, PlacesInNat
  <2> QED
    BY <2>2, <2>3
<1>4. CASE m # l
  <2>1. /\ Place(m)' = Place(m) /\ \A j : Waits(m, j)' = Waits(m, j)
        /\ \A h, j : NextApplies(m, h, j)' = NextApplies(m, h, j)
    BY <1>4, OtherLanes
  <2>2. Lane(Waits(l, 1).key) = l
    BY <1>0 DEF OnItsLane
  <2>3. armed'[k] = armed[k]
    BY <1>0, <1>1, <1>4, <2>2 DEF Goes
  <2>4. \A j : NextApplies(m, k, j)' = NextApplies(m, k, j)
    BY <2>1
  <2> QED
    BY <1>1, <1>2, <2>1, <2>3, <2>4
<1> QED
  BY <1>3, <1>4

-----------------------------------------------------------------------------
(* The steps. *)

LEMMA Ends ==
    ASSUME NEW s \in Seq(Batch), s # <<>>
    PROVE  /\ Head(s) \in Batch /\ Tail(s) \in Seq(Batch) /\ Len(Tail(s)) = Len(s) - 1
           /\ Range(Tail(s)) \subseteq Range(s)
           /\ Distinct(s) => Distinct(Tail(s))
<1>1. /\ Len(s) \in Nat /\ Len(s) >= 1 /\ DOMAIN s = 1 .. Len(s) /\ Head(s) \in Batch
      /\ Tail(s) \in Seq(Batch) /\ Len(Tail(s)) = Len(s) - 1
      /\ \A i \in 1 .. Len(s) - 1 : Tail(s)[i] = s[i + 1]
  OBVIOUS
<1> DEFINE t == Tail(s)
<1> HIDE DEF t
<1>2. DOMAIN t = 1 .. Len(s) - 1 /\ \A i \in 1 .. Len(s) - 1 : i + 1 \in 1 .. Len(s)
  BY <1>1 DEF t
<1>3. \A i \in 1 .. Len(s) - 1 : t[i] = s[i + 1]
  BY <1>1 DEF t
<1>4. Range(t) \subseteq Range(s)
  BY <1>1, <1>2, <1>3 DEF Range
<1>5. Distinct(s) => Distinct(t)
  <2> SUFFICES ASSUME Distinct(s), NEW i \in 1 .. Len(s) - 1, NEW j \in 1 .. Len(s) - 1, t[i] = t[j]
               PROVE  i = j
    BY <1>1 DEF Distinct, t
  <2>1. i + 1 = j + 1
    BY <1>2, <1>3 DEF Distinct
  <2> QED
    BY <2>1
<1> QED
  BY <1>1, <1>4, <1>5 DEF t

LEMMA OneMore ==
    ASSUME NEW s \in Seq(Batch), NEW b \in Batch
    PROVE  /\ Append(s, b) \in Seq(Batch) /\ Len(Append(s, b)) = Len(s) + 1 /\ Append(s, b) # <<>>
           /\ Range(Append(s, b)) = Range(s) \cup {b}
           /\ Distinct(s) /\ b \notin Range(s) => Distinct(Append(s, b))
<1> DEFINE t == Append(s, b)
<1>1. /\ t \in Seq(Batch) /\ Len(t) = Len(s) + 1 /\ Len(s) \in Nat /\ t # <<>>
      /\ DOMAIN s = 1 .. Len(s) /\ DOMAIN t = 1 .. Len(s) + 1
      /\ t[Len(s) + 1] = b /\ \A i \in 1 .. Len(s) : t[i] = s[i]
  OBVIOUS
<1> HIDE DEF t
<1>2. \A i \in 1 .. Len(s) + 1 : i \in 1 .. Len(s) \/ i = Len(s) + 1
  BY <1>1
<1>3. \A i \in 1 .. Len(s) : i \in 1 .. Len(s) + 1 /\ i # Len(s) + 1
  BY <1>1
<1>4. Len(s) + 1 \in 1 .. Len(s) + 1
  BY <1>1
<1>5. Range(t) = Range(s) \cup {b}
  BY <1>1, <1>2, <1>3, <1>4 DEF Range
<1>6. Distinct(s) /\ b \notin Range(s) => Distinct(t)
  BY <1>1, <1>2, <1>3 DEF Distinct, Range
<1> QED
  BY <1>1, <1>5, <1>6 DEF t

LEMMA FenceStep ==
    ASSUME IInv, NEW l \in Book, RunFence(l)
    PROVE  IInv'
<1>1. PICK t \in Tasks : t = Head(line[l])
  BY DEF IInv, OnItsLane, RunFence, Due
<1>2. line[l] # <<>> /\ Shift(l) /\ batch' = batch /\ vain' = vain /\ t.kind = "fence"
  BY <1>1 DEF RunFence, Due
<1>3. armed' = [armed EXCEPT ![t.key] = Append(@, t.batch)] /\ journalled' = journalled
  BY <1>1 DEF RunFence
<1>4. t.key \in Key /\ t.batch \in Batch /\ armed \in [Key -> Seq(Batch)]
  BY <1>1, <1>2, KindsOfTasks DEF IInv, ArmedOnce
<1>5. OnItsLane /\ ArmedOnce /\ BehindItsFence /\ EachIsUsed
  BY DEF IInv
<1>6. armed[t.key] \in Seq(Batch) /\ armed'[t.key] = Append(armed[t.key], t.batch)
  BY <1>3, <1>4
<1>7. 1 \in Place(l) /\ Waits(l, 1) = t
  BY <1>1, <1>2, <1>5, AfterShift
<1>8. Goes(l)
  <2>1. armed' \in [Key -> Seq(Batch)]
    BY <1>3, <1>4, <1>6, OneMore
  <2> QED
    BY <1>1, <1>2, <1>3, <1>4, <2>1 DEF Goes
<1>9. t.batch \notin Range(armed[t.key])
  BY <1>2, <1>5, <1>7 DEF ArmedOnce
<1>10. Distinct(armed'[t.key]) /\ Range(armed'[t.key]) = Range(armed[t.key]) \cup {t.batch}
  BY <1>4, <1>5, <1>6, <1>9, OneMore DEF ArmedOnce
<1>11. \A k \in Key : k # t.key => armed'[k] = armed[k]
  BY <1>1, <1>8 DEF Goes
<1>12. ArmedOnce'
  <2>1. \A k \in Key : Distinct(armed'[k])
    BY <1>5, <1>10, <1>11 DEF ArmedOnce
  <2>2. \A k \in Key : \A b \in Range(armed'[k]) :
           \/ b \in Range(armed[k])
           \/ Waits(l, 1).kind = "fence" /\ Waits(l, 1).key = k /\ Waits(l, 1).batch = b
    BY <1>2, <1>7, <1>10, <1>11
  <2> QED
    BY <1>5, <1>8, <2>1, <2>2, GoesArmedOnce
<1>13. BehindItsFence'
  <2>1. Waits(l, 1).batch \in Range(armed'[Waits(l, 1).key])
    BY <1>7, <1>10
  <2> QED
    BY <1>5, <1>8, <2>1, GoesBehindItsFence
<1>14. EachIsUsed'
  <2>1. ASSUME t.key \notin vain' PROVE Len(armed'[t.key]) <= 1
    <3>1. t.key \in Key \ vain
      BY <1>2, <1>4, <2>1
    <3>2. Lane(t.key) = l
      BY <1>5, <1>7 DEF OnItsLane
    <3>3. armed[t.key] = <<>>
      <4>1. ASSUME armed[t.key] # <<>> PROVE FALSE
        <5>1. NextApplies(l, t.key, 0)
          BY <1>5, <3>1, <3>2, <4>1 DEF EachIsUsed
        <5>2. Waits(l, 1).kind = "apply"
          BY <1>2, <1>5, <1>7, <5>1, HeadOfKeyApplies
        <5> QED
          BY <1>2, <1>7, <5>2
      <4> QED
        BY <4>1
    <3>4. Len(armed[t.key]) = 0
      BY <3>3
    <3> QED
      BY <1>4, <1>6, <3>4, OneMore
  <2> QED
    BY <1>2, <1>5, <1>7, <1>8, <2>1, GoesEachIsUsed
<1>15. OnItsLane'
  BY <1>5, <1>8, GoesOnItsLane
<1>16. Rest'
  BY <1>2, <1>3 DEF IInv, Rest, RunFence
<1>17. AppliesAreRemote' /\ EditsAreLocal'
  BY <1>2, <1>3 DEF IInv, AppliesAreRemote, EditsAreLocal
<1> QED
  BY <1>12, <1>13, <1>14, <1>15, <1>16, <1>17 DEF IInv

LEMMA SameStep ==
    ASSUME IInv, NEW l \in Book, RunSame(l)
    PROVE  IInv'
<1>1. PICK t \in Tasks : t = Head(line[l])
  BY DEF IInv, OnItsLane, RunSame, Due
<1>2. /\ line[l] # <<>> /\ Shift(l) /\ batch' = batch /\ vain' = vain \cup {t.key} /\ t.kind = "apply"
      /\ armed' = armed /\ journalled' = journalled /\ running' = running /\ edits' = edits
  BY <1>1 DEF RunSame, Due
<1>3. t.key \in Key
  BY <1>1, KindsOfTasks
<1>4. OnItsLane /\ ArmedOnce /\ BehindItsFence /\ EachIsUsed
  BY DEF IInv
<1>5. Waits(l, 1) = t
  BY <1>1, <1>2, <1>4, AfterShift
<1>6. Goes(l)
  BY <1>2, <1>4 DEF Goes, ArmedOnce
<1>7. ArmedOnce'
  <2>1. \A k \in Key : Distinct(armed'[k])
    BY <1>2, <1>4 DEF ArmedOnce
  <2> QED
    BY <1>2, <1>4, <1>6, <2>1, GoesArmedOnce
<1>8. BehindItsFence'
  BY <1>2, <1>4, <1>5, <1>6, GoesBehindItsFence
<1>9. EachIsUsed'
  <2>1. vain \subseteq vain' /\ Waits(l, 1).key \in vain'
    BY <1>2, <1>5
  <2> QED
    BY <1>4, <1>6, <2>1, GoesEachIsUsed
<1>10. OnItsLane'
  BY <1>4, <1>6, GoesOnItsLane
<1>11. Rest'
  BY <1>2, <1>3 DEF IInv, Rest
<1>12. AppliesAreRemote' /\ EditsAreLocal'
  BY <1>2 DEF IInv, AppliesAreRemote, EditsAreLocal
<1> QED
  BY <1>7, <1>8, <1>9, <1>10, <1>11, <1>12 DEF IInv

LEMMA BeginStep ==
    ASSUME IInv, NEW l \in Book, Begin(l)
    PROVE  IInv'
<1>1. PICK t \in Tasks : t = Head(line[l])
  BY DEF IInv, OnItsLane, Begin, Due
<1>2. /\ line[l] # <<>> /\ Shift(l) /\ batch' = batch /\ vain' = vain /\ edits' = edits
      /\ t.kind \in {"edit", "apply"} /\ running' = [running EXCEPT ![l] = t]
  BY <1>1 DEF Begin, Due
<1>3. \/ /\ armed[t.key] = <<>> /\ armed' = armed
         /\ journalled' = journalled \cup {<<t.kind, "local", t.key>>}
      \/ /\ armed[t.key] # <<>> /\ armed' = [armed EXCEPT ![t.key] = Tail(@)]
         /\ journalled' = journalled \cup {<<t.kind, "remote", t.key>>}
  BY <1>1 DEF Begin
<1>4. t.key \in Key /\ armed \in [Key -> Seq(Batch)] /\ armed[t.key] \in Seq(Batch)
  BY <1>1, KindsOfTasks DEF IInv, ArmedOnce
<1>5. OnItsLane /\ ArmedOnce /\ BehindItsFence /\ EachIsUsed
  BY DEF IInv
<1>6. 1 \in Place(l) /\ Waits(l, 1) = t
  BY <1>1, <1>2, <1>5, AfterShift
<1>7. /\ armed' \in [Key -> Seq(Batch)] /\ \A k \in Key : k # t.key => armed'[k] = armed[k]
      /\ Distinct(armed'[t.key]) /\ Range(armed'[t.key]) \subseteq Range(armed[t.key])
      /\ Len(armed[t.key]) <= 1 => armed'[t.key] = <<>>
  <2>0. Distinct(armed[t.key])
    BY <1>4, <1>5 DEF ArmedOnce
  <2>1. CASE armed[t.key] = <<>> /\ armed' = armed
    BY <1>4, <2>0, <2>1
  <2>2. CASE armed[t.key] # <<>> /\ armed' = [armed EXCEPT ![t.key] = Tail(@)]
    <3>1. /\ Tail(armed[t.key]) \in Seq(Batch) /\ Len(Tail(armed[t.key])) = Len(armed[t.key]) - 1
          /\ Range(Tail(armed[t.key])) \subseteq Range(armed[t.key]) /\ Distinct(Tail(armed[t.key]))
      BY <1>4, <2>0, <2>2, Ends
    <3>2. armed'[t.key] = Tail(armed[t.key]) /\ \A k \in Key : k # t.key => armed'[k] = armed[k]
      BY <1>4, <2>2
    <3>3. armed' \in [Key -> Seq(Batch)]
      BY <1>4, <2>2, <3>1
    <3>4. Len(armed[t.key]) <= 1 => Tail(armed[t.key]) = <<>>
      BY <1>4, <2>2, <3>1
    <3> QED
      BY <3>1, <3>2, <3>3, <3>4
  <2> QED
    BY <1>3, <2>1, <2>2
<1>8. Goes(l)
  BY <1>1, <1>2, <1>7 DEF Goes
<1>9. ArmedOnce'
  <2>1. \A k \in Key : Distinct(armed'[k])
    BY <1>5, <1>7 DEF ArmedOnce
  <2>2. \A k \in Key : Range(armed'[k]) \subseteq Range(armed[k])
    BY <1>7
  <2> QED
    BY <1>5, <1>8, <2>1, <2>2, GoesArmedOnce
<1>10. BehindItsFence'
  BY <1>2, <1>5, <1>6, <1>8, GoesBehindItsFence
<1>11. EachIsUsed'
  <2>1. ASSUME t.key \in Key \ vain PROVE armed'[t.key] = <<>> /\ Len(armed'[t.key]) <= 1
    <3>1. Len(armed[t.key]) <= 1
      BY <1>5, <2>1 DEF EachIsUsed
    <3> QED
      BY <1>7, <3>1
  <2> QED
    BY <1>2, <1>5, <1>6, <1>8, <2>1, GoesEachIsUsed
<1>12. OnItsLane'
  BY <1>5, <1>8, GoesOnItsLane
<1>13. Rest'
  <2>1. running' \in [Book -> Tasks \cup {Free}]
    BY <1>2 DEF IInv, Rest
  <2>2. journalled' \subseteq {"apply", "edit"} \X Origin \X Key
    BY <1>2, <1>3, <1>4 DEF IInv, Rest, Origin
  <2> QED
    BY <1>2, <2>1, <2>2 DEF IInv, Rest
<1>14. CASE t.kind = "apply"
  <2>1. t.batch \in Range(armed[t.key])
    <3>1. ~\E j \in Place(l) : j < 1
      BY DEF Place
    <3> QED
      BY <1>5, <1>6, <1>14, <3>1 DEF BehindItsFence
  <2>2. armed[t.key] # <<>>
    BY <2>1 DEF Range
  <2>3. journalled' = journalled \cup {<<"apply", "remote", t.key>>}
    BY <1>3, <1>14, <2>2
  <2>4. AppliesAreRemote' /\ EditsAreLocal'
    BY <1>2, <2>3 DEF IInv, AppliesAreRemote, EditsAreLocal
  <2> QED
    BY <1>9, <1>10, <1>11, <1>12, <1>13, <2>4 DEF IInv
<1>15. CASE t.kind = "edit"
  <2>1. armed[t.key] # <<>> => t.key \in vain
    <3>1. ASSUME armed[t.key] # <<>>, t.key \notin vain PROVE FALSE
      <4>1. Lane(t.key) = l
        BY <1>5, <1>6 DEF OnItsLane
      <4>2. NextApplies(l, t.key, 0)
        BY <1>4, <1>5, <3>1, <4>1 DEF EachIsUsed
      <4>3. Waits(l, 1).kind = "apply"
        BY <1>2, <1>5, <1>6, <4>2, HeadOfKeyApplies
      <4> QED
        BY <1>6, <1>15, <4>3
    <3> QED
      BY <3>1
  <2>2. \/ journalled' = journalled \cup {<<"edit", "local", t.key>>}
        \/ t.key \in vain /\ journalled' = journalled \cup {<<"edit", "remote", t.key>>}
    BY <1>3, <1>15, <2>1
  <2>3. AppliesAreRemote' /\ EditsAreLocal'
    BY <1>2, <2>2 DEF IInv, AppliesAreRemote, EditsAreLocal
  <2> QED
    BY <1>9, <1>10, <1>11, <1>12, <1>13, <2>3 DEF IInv
<1> QED
  BY <1>2, <1>14, <1>15

LEMMA FinishStep ==
    ASSUME IInv, NEW l \in Book, Finish(l)
    PROVE  IInv'
<1>1. /\ line' = line /\ armed' = armed /\ batch' = batch /\ edits' = edits /\ vain' = vain
      /\ journalled' = journalled /\ running' = [running EXCEPT ![l] = Free]
  BY DEF Finish
<1>2. Rest'
  BY <1>1 DEF IInv, Rest
<1>3. \A m, i : Waits(m, i)' = Waits(m, i) /\ Place(m)' = Place(m)
  BY <1>1 DEF Waits, Place
<1>4. \A m, k, i, j : Between(m, k, i, j)' = Between(m, k, i, j)
  BY <1>3 DEF Between
<1>5. \A m, k, j : NextApplies(m, k, j)' = NextApplies(m, k, j)
  BY <1>3, <1>4 DEF NextApplies
<1>6. OnItsLane' /\ ArmedOnce'
  BY <1>1, <1>3 DEF IInv, OnItsLane, ArmedOnce
<1>7. BehindItsFence'
  BY <1>1 DEF IInv, BehindItsFence, Between, Waits, Place
<1>8. EachIsUsed'
  BY <1>1, <1>3, <1>5 DEF IInv, EachIsUsed
<1>9. AppliesAreRemote' /\ EditsAreLocal'
  BY <1>1 DEF IInv, AppliesAreRemote, EditsAreLocal
<1> QED
  BY <1>2, <1>6, <1>7, <1>8, <1>9 DEF IInv

LEMMA CloseStep ==
    ASSUME IInv, NEW b \in Batch, Close(b)
    PROVE  IInv'
<1>1. /\ line' = line /\ edits' = edits /\ vain' = vain /\ journalled' = journalled /\ running' = running
      /\ batch' = [batch EXCEPT ![b] = "closed"] /\ armed' = [k \in Key |-> Cleared(b, armed[k])]
  BY DEF Close
<1>2. /\ OnItsLane /\ ArmedOnce /\ BehindItsFence /\ EachIsUsed
      /\ armed \in [Key -> Seq(Batch)] /\ batch \in [Batch -> {"new", "open", "closed"}]
  BY DEF IInv, ArmedOnce, OnItsLane
<1>3. ASSUME NEW k \in Key
      PROVE  /\ armed[k] \in Seq(Batch) /\ armed'[k] \in Seq(Batch) /\ Distinct(armed'[k])
             /\ Range(armed'[k]) = Range(armed[k]) \ {b} /\ Len(armed'[k]) <= Len(armed[k])
  <2>1. armed[k] \in Seq(Batch) /\ Distinct(armed[k]) /\ armed'[k] = Cleared(b, armed[k])
    BY <1>1, <1>2 DEF ArmedOnce
  <2> QED
    BY <2>1, ClearedIs
<1>4. ASSUME NEW l \in Book, NEW i \in Place(l), Waits(l, i).kind # "edit"
      PROVE  Waits(l, i).batch # b /\ Waits(l, i).batch \in Batch /\ Waits(l, i).key \in Key
  <2>1. Waits(l, i) \in Tasks
    BY <1>2, PlacesAreNumbers
  <2>2. Waits(l, i).kind \in {"fence", "apply"} /\ Waits(l, i).batch \in Batch /\ Waits(l, i).key \in Key
    BY <1>4, <2>1, KindsOfTasks
  <2>3. Waits(l, i) \in Range(line[l])
    <3>1. line[l] \in Seq(Tasks)
      BY <1>2 DEF OnItsLane
    <3> QED
      BY <3>1 DEF Range, Place, Waits
  <2>4. TasksOf(b, l) = {}
    BY DEF Close, Settled
  <2> QED
    BY <2>2, <2>3, <2>4 DEF TasksOf
<1>5. \A m, i : Waits(m, i)' = Waits(m, i) /\ Place(m)' = Place(m)
  BY <1>1 DEF Waits, Place
<1>6. \A m, k, i, j : Between(m, k, i, j)' = Between(m, k, i, j)
  BY <1>5 DEF Between
<1>7. \A m, k, j : NextApplies(m, k, j)' = NextApplies(m, k, j)
  BY <1>5, <1>6 DEF NextApplies
<1>8. batch' \in [Batch -> {"new", "open", "closed"}] /\ \A c \in Batch : c # b => batch'[c] = batch[c]
  BY <1>1, <1>2
<1>9. OnItsLane'
  <2>1. \A l \in Book : \A i \in Place(l) : Waits(l, i).kind # "edit" => batch'[Waits(l, i).batch] = "open"
    BY <1>2, <1>4, <1>8 DEF OnItsLane
  <2> QED
    BY <1>1, <1>2, <1>5, <1>8, <2>1 DEF OnItsLane
<1>10. ArmedOnce'
  <2>1. armed' \in [Key -> Seq(Batch)]
    BY <1>1, <1>3
  <2>2. ASSUME NEW k \in Key, NEW c \in Range(armed'[k]) PROVE batch'[c] = "open"
    <3>1. c \in Range(armed[k]) /\ c # b
      BY <1>3, <2>2
    <3>2. c \in Batch /\ batch[c] = "open"
      BY <1>2, <1>3, <3>1 DEF ArmedOnce, Range
    <3> QED
      BY <1>8, <3>1, <3>2
  <2>3. ASSUME NEW l \in Book, NEW i \in Place(l), Waits(l, i).kind = "fence"
        PROVE  /\ Waits(l, i).batch \notin Range(armed'[Waits(l, i).key])
               /\ \A j \in Place(l) : Waits(l, j) = Waits(l, i) => j = i
    <3>1. Waits(l, i).key \in Key
      BY <1>4, <2>3
    <3>2. /\ Waits(l, i).batch \notin Range(armed[Waits(l, i).key])
          /\ \A j \in Place(l) : Waits(l, j) = Waits(l, i) => j = i
      BY <1>2, <2>3 DEF ArmedOnce
    <3> QED
      BY <1>3, <3>1, <3>2
  <2> QED
    BY <1>3, <1>5, <2>1, <2>2, <2>3 DEF ArmedOnce
<1>11. BehindItsFence'
  <2> SUFFICES ASSUME NEW l \in Book, NEW i \in Place(l), Waits(l, i).kind = "apply"
               PROVE  \/ /\ Waits(l, i).batch \in Range(armed'[Waits(l, i).key])
                         /\ Between(l, Waits(l, i).key, 0, i)
                      \/ \E j \in Place(l) : /\ j < i /\ Between(l, Waits(l, i).key, j, i)
                                             /\ Waits(l, j).kind = "fence"
                                             /\ Waits(l, j).key = Waits(l, i).key
                                             /\ Waits(l, j).batch = Waits(l, i).batch
    BY <1>1 DEF BehindItsFence, Between, Waits, Place
  <2>1. Waits(l, i).batch # b /\ Waits(l, i).key \in Key
    BY <1>4
  <2>2. Waits(l, i).batch \in Range(armed[Waits(l, i).key])
           => Waits(l, i).batch \in Range(armed'[Waits(l, i).key])
    BY <1>3, <2>1
  <2> QED
    BY <1>2, <2>2 DEF BehindItsFence
<1>12. EachIsUsed'
  <2> SUFFICES ASSUME NEW k \in Key \ vain
               PROVE  /\ \A j \in Place(Lane(k)) :
                            Waits(Lane(k), j).kind = "fence" /\ Waits(Lane(k), j).key = k
                                => NextApplies(Lane(k), k, j)
                      /\ Len(armed'[k]) <= 1
                      /\ armed'[k] # <<>> => NextApplies(Lane(k), k, 0)
    BY <1>1, <1>5, <1>7 DEF EachIsUsed
  <2>1. /\ Len(armed[k]) <= 1 /\ (armed[k] # <<>> => NextApplies(Lane(k), k, 0))
        /\ \A j \in Place(Lane(k)) :
              Waits(Lane(k), j).kind = "fence" /\ Waits(Lane(k), j).key = k => NextApplies(Lane(k), k, j)
    BY <1>2 DEF EachIsUsed
  <2>2. Len(armed'[k]) <= Len(armed[k]) /\ armed[k] \in Seq(Batch) /\ armed'[k] \in Seq(Batch)
    BY <1>3
  <2>3. Len(armed[k]) \in Nat /\ Len(armed'[k]) \in Nat
    BY <2>2
  <2>4. Len(armed'[k]) <= 1
    BY <2>1, <2>2, <2>3
  <2>5. armed[k] = <<>> => armed'[k] = <<>>
    BY <2>2, <2>3
  <2> QED
    BY <2>1, <2>4, <2>5
<1>13. Rest'
  BY <1>1 DEF IInv, Rest
<1>14. AppliesAreRemote' /\ EditsAreLocal'
  BY <1>1 DEF IInv, AppliesAreRemote, EditsAreLocal
<1> QED
  BY <1>9, <1>10, <1>11, <1>12, <1>13, <1>14 DEF IInv

LEMMA AddStep ==
    ASSUME IInv, Adds, Rest', journalled' = journalled
    PROVE  IInv'
<1>1. OnItsLane' /\ ArmedOnce' /\ BehindItsFence' /\ EachIsUsed'
  BY AddsOnItsLane, AddsArmedOnce, AddsBehindItsFence, AddsEachIsUsed DEF IInv
<1>2. AppliesAreRemote' /\ EditsAreLocal'
  BY DEF IInv, Adds, AppliesAreRemote, EditsAreLocal
<1> QED
  BY <1>1, <1>2 DEF IInv

-----------------------------------------------------------------------------
(* The theorems. *)

\* At the start no task waits and no ticket is armed.
LEMMA InitKept == Init => IInv
<1> SUFFICES ASSUME Init PROVE IInv
  OBVIOUS
<1>1. /\ line = [l \in Book |-> <<>>] /\ running = [l \in Book |-> Free]
      /\ armed = [k \in Key |-> <<>>] /\ batch = [b \in Batch |-> "new"]
      /\ edits = 0 /\ journalled = {} /\ vain = {}
  BY DEF Init
<1>2. \A l \in Book : Place(l) = {} /\ Len(line[l]) = 0 /\ line[l] \in Seq(Tasks)
  BY <1>1 DEF Place
<1>3. \A k \in Key : armed[k] = <<>> /\ Len(armed[k]) = 0 /\ Range(armed[k]) = {} /\ Distinct(armed[k])
  BY <1>1 DEF Range, Distinct
<1>4. OnItsLane
  <2>1. Cap >= 0
    BY ProvenanceAssumption DEF ProvenanceAssumption
  <2> QED
    BY <1>1, <1>2, <2>1 DEF OnItsLane
<1>5. ArmedOnce
  <2>1. armed \in [Key -> Seq(Batch)]
    BY <1>1
  <2> QED
    BY <1>2, <1>3, <2>1 DEF ArmedOnce
<1>6. BehindItsFence
  BY <1>2 DEF BehindItsFence
<1>7. EachIsUsed
  BY <1>2, <1>3, LanesAreBooks DEF EachIsUsed
<1>8. Rest
  BY <1>1, ProvenanceAssumption DEF ProvenanceAssumption, Rest
<1>9. AppliesAreRemote /\ EditsAreLocal
  BY <1>1 DEF AppliesAreRemote, EditsAreLocal
<1> QED
  BY <1>4, <1>5, <1>6, <1>7, <1>8, <1>9 DEF IInv

LEMMA NextKept == IInv /\ [Next]_vars => IInv'
<1> SUFFICES ASSUME IInv, [Next]_vars PROVE IInv'
  OBVIOUS
<1>0. OnItsLane /\ Rest
  BY DEF IInv
<1>1. ASSUME NEW b \in Batch, NEW K \in (SUBSET Key) \ {{}}, NEW out \in [K -> Outcome], Open(b, K, out)
      PROVE  IInv'
  <2>1. K \in SUBSET Key
    OBVIOUS
  <2>2. Adds
    BY <1>0, <1>1, <2>1, OpenAdds
  <2>3. Rest' /\ journalled' = journalled
    BY <1>0, <1>1 DEF Rest, Open
  <2> QED
    BY <2>2, <2>3, AddStep
<1>2. ASSUME NEW k \in Key, Queue(k) PROVE IInv'
  <2>1. Adds
    BY <1>0, <1>2, QueueAdds
  <2>2. Rest' /\ journalled' = journalled
    BY <1>0, <1>2, ProvenanceAssumption DEF ProvenanceAssumption, Rest, Queue
  <2> QED
    BY <2>1, <2>2, AddStep
<1>3. ASSUME NEW l \in Book, RunFence(l) \/ RunSame(l) \/ Begin(l) \/ Finish(l) PROVE IInv'
  BY <1>3, FenceStep, SameStep, BeginStep, FinishStep
<1>4. ASSUME NEW b \in Batch, Close(b) PROVE IInv'
  BY <1>4, CloseStep
<1>5. CASE UNCHANGED vars
  <2>1. \A m, i : Waits(m, i)' = Waits(m, i) /\ Place(m)' = Place(m)
    BY <1>5 DEF vars, Waits, Place
  <2> QED
    BY <1>5 DEF vars, IInv, OnItsLane, ArmedOnce, BehindItsFence, EachIsUsed, Rest, Between,
                NextApplies, Waits, Place, AppliesAreRemote, EditsAreLocal
<1>6. CASE Next
  BY <1>1, <1>2, <1>3, <1>4, <1>6 DEF Next
<1> QED
  BY <1>5, <1>6

\* Every state has the invariant.
LEMMA AlwaysIInv == Spec => []IInv
BY InitKept, NextKept, PTL DEF Spec

\* The lines, the tickets and what is journalled are of their types, and no line outgrows the
\* bound of its lane (writeQueue.ts: MAX_APPENDED).
THEOREM TicketTypesCorrect == Spec => []TypeOK
<1>1. IInv => TypeOK
  BY DEF IInv, OnItsLane, ArmedOnce, Rest, TypeOK
<1> QED
  BY <1>1, AlwaysIInv, PTL

\* An application that writes is journalled remote, an edit is local where every application
\* wrote, and a ticket dies with its batch (journal.ts: markRemote; ledger.ts: applyRemote).
THEOREM TicketsServe == Spec => []TicketsServeTheirOwn
<1>1. IInv => TicketsServeTheirOwn
  <2> SUFFICES ASSUME IInv PROVE TicketsDie
    BY DEF IInv, TicketsServeTheirOwn
  <2>1. \A k \in Key : armed[k] \in Seq(Batch) /\ \A b \in Range(armed[k]) : batch[b] = "open"
    BY DEF IInv, ArmedOnce
  <2> QED
    BY <2>1 DEF TicketsDie, Range
<1> QED
  BY <1>1, AlwaysIInv, PTL

-----------------------------------------------------------------------------
(* Numbers of a finite set. *)

LEMMA LeastOf ==
    ASSUME NEW S \in SUBSET Nat, S # {}
    PROVE  \E n \in S : \A m \in S : n <= m
<1>1. PICK n \in S : \A m \in S : <<m, n>> \notin OpToRel(<, Nat)
  BY NatLessThanWellFounded, WFMin
<1>2. \A m \in S : ~(m < n)
  BY <1>1 DEF OpToRel
<1> QED
  BY <1>2

LEMMA MinIs ==
    ASSUME NEW S \in SUBSET Nat, S # {}
    PROVE  Min(S) \in S /\ \A m \in S : Min(S) <= m
BY LeastOf DEF Min

LEMMA MaxIs ==
    ASSUME NEW S \in SUBSET Nat, S # {}, IsFiniteSet(S)
    PROVE  Max(S) \in S /\ \A m \in S : m <= Max(S)
<1> DEFINE Tops(T) == {n \in T : \A m \in T : m <= n}
           Bad == {T \in SUBSET S : T # {} /\ Tops(T) = {}}
           Sizes == {Cardinality(T) : T \in Bad}
<1>1. \A T \in SUBSET S : IsFiniteSet(T) /\ Cardinality(T) \in Nat
  BY FS_Subset, FS_CardinalityType
<1>2. ASSUME Bad # {} PROVE FALSE
  <2>0. Sizes \subseteq Nat /\ Sizes # {}
    BY <1>1, <1>2
  <2>1. PICK k \in Sizes : \A m \in Sizes : k <= m
    <3> HIDE DEF Sizes
    <3> QED
      BY <2>0, LeastOf
  <2>2. PICK T \in Bad : Cardinality(T) = k
    BY <2>1
  <2>3. PICK x \in T : TRUE
    BY <2>2
  <2> DEFINE U == T \ {x}
  <2>4. Cardinality(U) = k - 1 /\ k \in Nat /\ U \in SUBSET S
    BY <1>1, <2>2, <2>3, FS_RemoveElement
  <2>5. U \notin Bad
    <3>1. U \in Bad => k - 1 \in Sizes
      BY <2>4
    <3> QED
      BY <2>1, <2>4, <3>1
  <2>6. x \in Nat
    BY <2>2, <2>3
  <2>7. CASE U = {}
    <3>1. T = {x}
      BY <2>3, <2>7
    <3>2. x \in Tops(T)
      BY <2>6, <3>1
    <3> QED
      BY <2>2, <3>2
  <2>8. CASE U # {}
    <3>1. PICK y \in U : \A m \in U : m <= y
      BY <2>4, <2>5, <2>8
    <3>2. y \in Nat
      BY <3>1, <2>2
    <3>3. CASE x <= y
      <4>1. y \in Tops(T)
        BY <3>1, <3>3
      <4> QED
        BY <2>2, <4>1
    <3>4. CASE ~(x <= y)
      <4>0. \A m \in T : m \in Nat /\ (m = x \/ m \in U)
        BY <2>2
      <4>1. x \in Tops(T)
        BY <2>3, <2>6, <3>1, <3>2, <3>4, <4>0
      <4> QED
        BY <2>2, <4>1
    <3> QED
      BY <3>3, <3>4
  <2> QED
    BY <2>7, <2>8
<1>3. S \notin Bad
  BY <1>2
<1>4. \E n \in S : \A m \in S : m <= n
  BY <1>3
<1>5. \E n \in S : \A m \in S : n >= m
  BY <1>4
<1>6. Max(S) \in S /\ \A m \in S : Max(S) >= m
  BY <1>5 DEF Max
<1> QED
  BY <1>6

-----------------------------------------------------------------------------
(* Entries of distinct numbers, and their ranks. *)

Numbered(F) == IsFiniteSet(F) /\ \A a, b \in F : a.seq \in Nat /\ (a.seq = b.seq => a = b)
Below(F, e) == {o \in F : o.seq < e.seq}
Rank(F, e) == Cardinality(Below(F, e))

LEMMA RankRises ==
    ASSUME NEW F, Numbered(F), NEW a \in F, NEW b \in F, a.seq < b.seq
    PROVE  Rank(F, a) < Rank(F, b)
<1>1. Below(F, a) \subseteq Below(F, b) /\ a \in Below(F, b) /\ a \notin Below(F, a)
  BY DEF Numbered, Below
<1>2. IsFiniteSet(Below(F, b)) /\ IsFiniteSet(Below(F, a))
  BY FS_Subset DEF Numbered, Below
<1>3. Cardinality(Below(F, a)) <= Cardinality(Below(F, b)) /\ Cardinality(Below(F, a)) # Cardinality(Below(F, b))
  BY <1>1, <1>2, FS_Subset
<1> QED
  BY <1>2, <1>3, FS_CardinalityType DEF Rank

LEMMA RankBelow ==
    ASSUME NEW F, Numbered(F), NEW a \in F
    PROVE  Rank(F, a) \in 0 .. Cardinality(F) - 1 /\ Cardinality(F) \in Nat \ {0}
<1>1. Below(F, a) \subseteq F /\ a \notin Below(F, a) /\ IsFiniteSet(F)
  BY DEF Numbered, Below
<1>2. IsFiniteSet(Below(F, a)) /\ Cardinality(Below(F, a)) <= Cardinality(F) /\ Cardinality(Below(F, a)) # Cardinality(F)
  BY <1>1, FS_Subset
<1> QED
  BY <1>1, <1>2, FS_CardinalityType DEF Rank

\* There is one of every rank.
LEMMA RankOnto ==
    ASSUME NEW F, Numbered(F), NEW k \in 0 .. Cardinality(F) - 1
    PROVE  \E e \in F : Rank(F, e) = k
<1> DEFINE n == Cardinality(F)
           S == 1 .. n
           r == [e \in F |-> Rank(F, e) + 1]
<1>1. IsFiniteSet(F) /\ n \in Nat
  BY FS_CardinalityType DEF Numbered
<1>2. r \in [F -> S]
  BY RankBelow
<1>3. \A a, b \in F : r[a] = r[b] => a = b
  <2> SUFFICES ASSUME NEW a \in F, NEW b \in F, r[a] = r[b] PROVE a = b
    OBVIOUS
  <2>1. a.seq \in Nat /\ b.seq \in Nat /\ (a.seq = b.seq => a = b)
    BY DEF Numbered
  <2>2. Rank(F, a) = Rank(F, b)
    BY RankBelow
  <2>3. ~(a.seq < b.seq) /\ ~(b.seq < a.seq)
    BY <2>2, RankRises, RankBelow
  <2> QED
    BY <2>1, <2>3
<1>4. r \in Injection(F, S)
  BY <1>2, <1>3 DEF Injection, IsInjective
<1>5. IsFiniteSet(S) /\ Cardinality(S) = n
  <2>1. n \in Int /\ 1 \in Int /\ (1 > n => n = 0) /\ n - 1 + 1 = n
    BY <1>1
  <2> HIDE DEF n
  <2> QED
    BY <2>1, FS_Interval
<1>6. r \in Surjection(F, S)
  BY <1>4, <1>5, FS_Injection
<1>7. k + 1 \in S
  BY <1>1
<1>8. PICK e \in F : r[e] = k + 1
  BY <1>6, <1>7 DEF Surjection
<1> QED
  BY <1>8, RankBelow

-----------------------------------------------------------------------------
(* Prefixes. *)

LEMMA PrefixIs ==
    ASSUME NEW A, NEW s \in Seq(A), NEW t \in Seq(A)
    PROVE  IsPrefix(s, t) <=> Len(s) <= Len(t) /\ \A i \in 1 .. Len(s) : s[i] = t[i]
<1>1. Len(s) \in Nat /\ Len(t) \in Nat
  OBVIOUS
<1>2. SubSeq(s, 1, Len(s)) = s
  OBVIOUS
<1>3. ASSUME Len(s) <= Len(t)
      PROVE  /\ SubSeq(t, 1, Len(s)) \in Seq(A) /\ Len(SubSeq(t, 1, Len(s))) = Len(s)
             /\ \A i \in 1 .. Len(s) : SubSeq(t, 1, Len(s))[i] = t[i]
  BY <1>1, <1>3
<1>4. ASSUME Len(s) <= Len(t), \A i \in 1 .. Len(s) : s[i] = t[i]
      PROVE  SubSeq(t, 1, Len(s)) = s
  <2> DEFINE u == SubSeq(t, 1, Len(s))
  <2>1. u \in Seq(A) /\ Len(u) = Len(s) /\ \A i \in 1 .. Len(s) : u[i] = s[i]
    BY <1>3, <1>4
  <2> HIDE DEF u
  <2>2. u = s
    BY <2>1, SeqEqual
  <2> QED
    BY <2>2 DEF u
<1> QED
  BY <1>2, <1>3, <1>4 DEF IsPrefix

LEMMA EmptyIsPrefix == ASSUME NEW A, NEW t \in Seq(A) PROVE IsPrefix(<<>>, t)
<1>0. <<>> \in Seq(A) /\ Len(<<>>) = 0
  OBVIOUS
<1>1. PICK s \in Seq(A) : s = <<>> /\ Len(s) = 0
  BY <1>0
<1>2. Len(s) <= Len(t) /\ \A i \in 1 .. Len(s) : s[i] = t[i]
  BY <1>1
<1>3. IsPrefix(s, t)
  BY <1>2, PrefixIs
<1> QED
  BY <1>1, <1>3

LEMMA PrefixReaches ==
    ASSUME NEW A, NEW s \in Seq(A), NEW t \in Seq(A), NEW u \in Seq(A), IsPrefix(s, t), IsPrefix(t, u)
    PROVE  IsPrefix(s, u)
<1>1. Len(s) \in Nat /\ Len(t) \in Nat /\ Len(u) \in Nat
  OBVIOUS
<1>2. Len(s) <= Len(t) /\ \A i \in 1 .. Len(s) : s[i] = t[i]
  BY PrefixIs
<1>3. Len(t) <= Len(u) /\ \A i \in 1 .. Len(t) : t[i] = u[i]
  BY PrefixIs
<1>4. Len(s) <= Len(u) /\ \A i \in 1 .. Len(s) : s[i] = u[i]
  BY <1>1, <1>2, <1>3
<1> QED
  BY <1>4, PrefixIs

LEMMA PartIsPrefix ==
    ASSUME NEW A, NEW t \in Seq(A), NEW n \in 0 .. Len(t)
    PROVE  SubSeq(t, 1, n) \in Seq(A) /\ Len(SubSeq(t, 1, n)) = n /\ IsPrefix(SubSeq(t, 1, n), t)
<1> DEFINE u == SubSeq(t, 1, n)
<1>1. u \in Seq(A) /\ Len(u) = n /\ \A i \in 1 .. n : u[i] = t[i]
  OBVIOUS
<1>2. Len(t) \in Nat
  OBVIOUS
<1> HIDE DEF u
<1>3. IsPrefix(u, t)
  BY <1>1, <1>2, PrefixIs
<1> QED
  BY <1>1, <1>3 DEF u

LEMMA LongerIs ==
    ASSUME NEW A, NEW s \in Seq(A), NEW t \in Seq(A)
    PROVE  /\ s \o t \in Seq(A) /\ Len(s \o t) = Len(s) + Len(t) /\ IsPrefix(s, s \o t)
           /\ \A i \in 1 .. Len(s) : (s \o t)[i] = s[i]
           /\ \A i \in 1 .. Len(t) : (s \o t)[Len(s) + i] = t[i]
<1>1. s \o t \in Seq(A) /\ Len(s \o t) = Len(s) + Len(t)
  OBVIOUS
<1>2. \A i \in 1 .. Len(s) : (s \o t)[i] = s[i]
  OBVIOUS
<1>3. \A i \in 1 .. Len(t) : (s \o t)[Len(s) + i] = t[i]
  OBVIOUS
<1>4. Len(s) \in Nat /\ Len(t) \in Nat
  OBVIOUS
<1>5. IsPrefix(s, s \o t)
  <2>1. PICK u \in Seq(A) : u = s \o t
    BY <1>1
  <2>2. Len(s) <= Len(u) /\ \A i \in 1 .. Len(s) : s[i] = u[i]
    BY <1>1, <1>2, <1>4, <2>1
  <2>3. IsPrefix(s, u)
    BY <2>2, PrefixIs
  <2> QED
    BY <2>1, <2>3
<1> QED
  BY <1>1, <1>2, <1>3, <1>5

-----------------------------------------------------------------------------
(* Pages of a set of entries. *)

LEMMA PageOf ==
    ASSUME NEW a \in Nat, NEW n \in Nat \ {0}, a < n
    PROVE  (a \div PageRoom) + 1 \in 1 .. (n + PageRoom - 1) \div PageRoom
<1>1. PageRoom \in Nat \ {0}
  BY PublisherAssumption
<1> QED
  BY <1>1

LEMMA PageStarts ==
    ASSUME NEW n \in Nat, NEW i \in 1 .. (n + PageRoom - 1) \div PageRoom
    PROVE  (i - 1) * PageRoom \in 0 .. n - 1 /\ ((i - 1) * PageRoom) \div PageRoom = i - 1
<1>1. PageRoom \in Nat \ {0}
  BY PublisherAssumption
<1> DEFINE k == (n + PageRoom - 1) \div PageRoom
<1>2. k \in Nat /\ k * PageRoom <= n + PageRoom - 1
  BY <1>1
<1>3. i \in Nat /\ 1 <= i /\ i <= k
  BY <1>2
<1> HIDE DEF k
<1>4. i * PageRoom <= k * PageRoom
  BY <1>1, <1>2, <1>3
<1>5. (i - 1) * PageRoom = i * PageRoom - PageRoom /\ (i - 1) * PageRoom \in Nat
  BY <1>1, <1>3
<1>6. (i - 1) * PageRoom <= n - 1
  BY <1>1, <1>2, <1>3, <1>4, <1>5
<1>7. ((i - 1) * PageRoom) \div PageRoom = i - 1
  BY <1>1, <1>3
<1> QED
  BY <1>5, <1>6, <1>7

LEMMA PageKeepsOrder ==
    ASSUME NEW a \in Nat, NEW b \in Nat, a <= b
    PROVE  a \div PageRoom <= b \div PageRoom /\ a \div PageRoom \in Nat /\ b \div PageRoom \in Nat
<1>1. PageRoom \in Nat \ {0}
  BY PublisherAssumption
<1> QED
  BY <1>1

LEMMA PaginateIs ==
    ASSUME NEW F, Numbered(F)
    PROVE  \E k \in Nat :
              /\ DOMAIN Paginate(F) = 1 .. k
              /\ \A i \in 1 .. k : Paginate(F)[i] \subseteq F /\ Paginate(F)[i] # {}
              /\ \A i, j \in 1 .. k : \A a \in Paginate(F)[i], b \in Paginate(F)[j] : i < j => a.seq < b.seq
              /\ \A e \in F : \E i \in 1 .. k : e \in Paginate(F)[i]
<1> DEFINE n == Cardinality(F)
           k == (n + PageRoom - 1) \div PageRoom
<1>1. n \in Nat /\ PageRoom \in Nat \ {0}
  BY FS_CardinalityType, PublisherAssumption DEF Numbered
<1>2. k \in Nat
  BY <1>1
<1>3. DOMAIN Paginate(F) = 1 .. k /\ \A i \in 1 .. k : Paginate(F)[i] = {e \in F : Rank(F, e) \div PageRoom = i - 1}
  BY DEF Paginate, Rank, Below
<1>4. ASSUME NEW i \in 1 .. k PROVE Paginate(F)[i] # {}
  <2>1. (i - 1) * PageRoom \in 0 .. n - 1 /\ ((i - 1) * PageRoom) \div PageRoom = i - 1
    BY <1>1, PageStarts
  <2>2. PICK e \in F : Rank(F, e) = (i - 1) * PageRoom
    BY <2>1, RankOnto
  <2> QED
    BY <1>3, <2>1, <2>2
<1>5. ASSUME NEW i \in 1 .. k, NEW j \in 1 .. k, NEW a \in Paginate(F)[i], NEW b \in Paginate(F)[j], i < j
      PROVE  a.seq < b.seq
  <2>1. a \in F /\ b \in F /\ Rank(F, a) \div PageRoom = i - 1 /\ Rank(F, b) \div PageRoom = j - 1
    BY <1>3
  <2>2. a.seq \in Nat /\ b.seq \in Nat
    BY <2>1 DEF Numbered
  <2>3. Rank(F, a) \in Nat /\ Rank(F, b) \in Nat
    BY <2>1, RankBelow
  <2>4. ASSUME b.seq <= a.seq PROVE Rank(F, b) <= Rank(F, a)
    <3>1. CASE b.seq = a.seq
      BY <2>1, <2>3, <3>1 DEF Numbered
    <3>2. CASE b.seq < a.seq
      BY <2>1, <2>3, <3>2, RankRises
    <3> QED
      BY <2>2, <2>4, <3>1, <3>2
  <2>5. ASSUME b.seq <= a.seq PROVE j - 1 <= i - 1
    BY <2>1, <2>3, <2>4, <2>5, PageKeepsOrder
  <2> QED
    BY <1>2, <1>5, <2>2, <2>5
<1>6. ASSUME NEW e \in F PROVE \E i \in 1 .. k : e \in Paginate(F)[i]
  <2>1. Rank(F, e) \in 0 .. n - 1 /\ n \in Nat \ {0}
    BY RankBelow
  <2>2. PICK a \in Nat : a = Rank(F, e) /\ a < n
    BY <1>1, <2>1
  <2>3. (a \div PageRoom) + 1 \in 1 .. k
    BY <2>1, <2>2, PageOf
  <2>4. a \div PageRoom \in Nat
    BY <1>1, <2>2
  <2> QED
    BY <1>3, <2>2, <2>3, <2>4
<1> HIDE DEF k
<1>7. \A i \in 1 .. k : Paginate(F)[i] \subseteq F /\ Paginate(F)[i] # {}
  BY <1>3, <1>4
<1> QED
  BY <1>2, <1>3, <1>5, <1>6, <1>7

-----------------------------------------------------------------------------
(* A store, its log and its next number. *)

Spoken == [op : {"status"}, pub : {NoPub}, device : Device, seq : Nat, at : Nat]
Store == [publications : SUBSET Row, opinions : SUBSET Spoken, sealed : [Version -> Seq(Boundary)]]
Page == [device : Device, from : Nat, to : Nat, v : Version, frame : Nat, entries : SUBSET Entry]

NumberedOnce(entries) == \A a, b \in entries : a.device = b.device /\ a.seq = b.seq => a = b

InOrder(chain) ==
    /\ \A i \in 1 .. Len(chain) : 1 <= chain[i].from /\ chain[i].from <= chain[i].to
    /\ \A i, j \in 1 .. Len(chain) : i < j => chain[i].to < chain[j].from

\* What a chain has come past is on one of its pages.
Covered(entries, chain) ==
    \A e \in entries, i \in 1 .. Len(chain) :
        e.seq <= chain[i].to => \E j \in 1 .. i : e.seq \in chain[j].from .. chain[j].to

WellKept(held, d) ==
    /\ held \in Store /\ IsFiniteSet(LogOf(held))
    /\ \A e \in LogOf(held) : e.seq >= 1
    /\ NumberedOnce(LogOf(held))
    /\ \A v \in Version : InOrder(held.sealed[v]) /\ Covered(StreamOf(held, d, v), held.sealed[v])

LEMMA LogIs ==
    ASSUME NEW held \in Store
    PROVE  /\ LogOf(held) \subseteq Entry
           /\ \A pub : (\E e \in LogOf(held) : e.op = "share" /\ e.pub = pub)
                          <=> \E row \in held.publications : row.pub = pub
           /\ \A e \in LogOf(held) : e.op = "share" => \E row \in held.publications : e = ShareOf(row)
<1>1. \A row \in held.publications : row \in Row
  BY DEF Store
<1>2. \A row \in held.publications : ShareOf(row) \in Entry /\ ShareOf(row).op = "share" /\ ShareOf(row).pub = row.pub
  BY <1>1 DEF Row, ShareOf, Entry
<1>3. \A row \in held.publications : row.gone # NotGone => UnshareOf(row) \in Entry
  BY <1>1 DEF Row, UnshareOf, Entry
<1>4. \A row \in held.publications : UnshareOf(row).op = "unshare"
  BY DEF UnshareOf
<1>5. \A e \in held.opinions : e \in Entry /\ e.op = "status"
  BY DEF Store, Spoken, Entry
<1>6. ASSUME NEW e \in LogOf(held)
      PROVE  \/ e \in held.opinions
             \/ \E row \in held.publications : e = ShareOf(row)
             \/ \E row \in held.publications : row.gone # NotGone /\ e = UnshareOf(row)
  BY DEF LogOf
<1>7. \A row \in held.publications : ShareOf(row) \in LogOf(held)
  BY DEF LogOf
<1>8. LogOf(held) \subseteq Entry
  BY <1>2, <1>3, <1>5, <1>6
<1>9. \A e \in LogOf(held) : e.op = "share" => \E row \in held.publications : e = ShareOf(row)
  BY <1>4, <1>5, <1>6
<1> QED
  BY <1>2, <1>7, <1>8, <1>9

LEMMA StreamIs ==
    ASSUME NEW held \in Store, NEW d \in Device, NEW v \in Version
    PROVE  /\ StreamOf(held, d, v) \subseteq LogOf(held) /\ StreamOf(held, d, v) \subseteq Entry
           /\ \A e \in StreamOf(held, d, v) : e.device = d /\ e.seq \in Nat
<1>1. StreamOf(held, d, v) \subseteq LogOf(held) /\ \A e \in StreamOf(held, d, v) : e.device = d
  BY DEF StreamOf
<1>2. \A e \in LogOf(held) : e \in Entry /\ e.seq \in Nat
  BY LogIs DEF Entry
<1> QED
  BY <1>1, <1>2

LEMMA ImageIsFinite ==
    ASSUME NEW S, IsFiniteSet(S), NEW f, DOMAIN f = S
    PROVE  IsFiniteSet({f[x] : x \in S})
<1> DEFINE T == {f[x] : x \in S}
           g == [x \in S |-> f[x]]
<1>1. g \in Surjection(S, T)
  BY DEF Surjection
<1> QED
  BY <1>1, FS_Surjection

\* The next number is past all that was used.
LEMMA NextSeqIs ==
    ASSUME NEW held \in Store, NEW d \in Device, IsFiniteSet(LogOf(held))
    PROVE  /\ NextSeq(held, d) \in Nat /\ NextSeq(held, d) >= 1
           /\ \A e \in LogOf(held) : e.device = d => e.seq < NextSeq(held, d)
           /\ \A v \in Version : \A i \in 1 .. Len(held.sealed[v]) : held.sealed[v][i].to < NextSeq(held, d)
<1> DEFINE Own == {x \in LogOf(held) : x.device = d}
           A == {e.seq : e \in Own}
           B(v) == {b.to : b \in Range(held.sealed[v])}
           C == UNION {B(v) : v \in Version}
           S == {0} \cup A \cup C
<1>1. A \subseteq Nat /\ IsFiniteSet(A)
  <2>1. IsFiniteSet(Own) /\ \A e \in Own : e.seq \in Nat
    BY FS_Subset, LogIs DEF Entry
  <2> DEFINE f == [e \in Own |-> e.seq]
  <2>2. DOMAIN f = Own /\ A = {f[e] : e \in Own}
    OBVIOUS
  <2> HIDE DEF f
  <2>3. IsFiniteSet(A)
    BY <2>1, <2>2, ImageIsFinite
  <2> QED
    BY <2>1, <2>3
<1>2. ASSUME NEW v \in Version
      PROVE  B(v) \subseteq Nat /\ IsFiniteSet(B(v)) /\ \A i \in 1 .. Len(held.sealed[v]) : held.sealed[v][i].to \in B(v)
  <2> DEFINE q == held.sealed[v]
             I == 1 .. Len(q)
             f == [i \in I |-> q[i].to]
  <2>1. q \in Seq(Boundary)
    BY DEF Store
  <2>2. Len(q) \in Nat /\ DOMAIN q = I /\ \A i \in I : q[i] \in Boundary
    BY <2>1
  <2>3. \A i \in I : q[i].to \in Nat
    BY <2>2 DEF Boundary
  <2>4. B(v) = {f[i] : i \in I}
    BY <2>2 DEF Range
  <2>5. IsFiniteSet(I)
    BY <2>2, FS_Interval
  <2>6. DOMAIN f = I
    OBVIOUS
  <2>7. IsFiniteSet({f[i] : i \in I})
    <3> HIDE DEF f, I
    <3> QED
      BY <2>5, <2>6, ImageIsFinite
  <2> QED
    BY <2>3, <2>4, <2>7
<1>3. C = B(1) \cup B(2) /\ 1 \in Version /\ 2 \in Version
  BY DEF Version
<1>3a. IsFiniteSet(B(1)) /\ IsFiniteSet(B(2)) /\ B(1) \subseteq Nat /\ B(2) \subseteq Nat
  BY <1>2, <1>3
<1> HIDE DEF A, B, C
<1>4. IsFiniteSet(C) /\ C \subseteq Nat
  BY <1>3, <1>3a, FS_Union
<1>5. IsFiniteSet({0}) /\ IsFiniteSet({0} \cup A)
  BY <1>1, FS_Singleton, FS_Union
<1>6. IsFiniteSet(S) /\ S \subseteq Nat /\ S # {}
  <2>1. IsFiniteSet(({0} \cup A) \cup C)
    BY <1>4, <1>5, FS_Union
  <2> QED
    BY <1>1, <1>4, <2>1
<1>7. \A v \in Version : B(v) \subseteq S
  BY DEF C
<1> HIDE DEF S
<1>8. Max(S) \in S /\ \A m \in S : m <= Max(S)
  BY <1>6, MaxIs
<1>9. NextSeq(held, d) = 1 + Max(S)
  BY DEF NextSeq, S, A, B, C
<1>10. Max(S) \in Nat
  BY <1>6, <1>8
<1>11. ASSUME NEW e \in LogOf(held), e.device = d PROVE e.seq < NextSeq(held, d)
  <2>1. e.seq \in S
    BY <1>11 DEF S, A
  <2>2. e.seq \in Nat /\ e.seq <= Max(S)
    BY <1>6, <1>8, <2>1
  <2> QED
    BY <1>9, <1>10, <2>2
<1>12. ASSUME NEW v \in Version, NEW i \in 1 .. Len(held.sealed[v]) PROVE held.sealed[v][i].to < NextSeq(held, d)
  <2>1. held.sealed[v][i].to \in S
    BY <1>2, <1>7
  <2>2. PICK m \in S : m = held.sealed[v][i].to
    BY <2>1
  <2>3. m \in Nat /\ m <= Max(S)
    BY <1>6, <1>8
  <2> QED
    BY <1>9, <1>10, <2>2, <2>3
<1> QED
  BY <1>9, <1>10, <1>11, <1>12

-----------------------------------------------------------------------------
(* Chains. *)

LEMMA RebuiltIs ==
    ASSUME NEW held, NEW d, NEW v, NEW b
    PROVE  /\ Rebuilt(held, d, v, b).device = d /\ Rebuilt(held, d, v, b).from = b.from /\ Rebuilt(held, d, v, b).to = b.to
           /\ Rebuilt(held, d, v, b).entries = {e \in StreamOf(held, d, v) : e.seq \in b.from .. b.to}
BY DEF Rebuilt

LEMMA ChainIs ==
    ASSUME NEW held \in Store, NEW d \in Device, NEW v \in Version
    PROVE  /\ held.sealed[v] \in Seq(Boundary) /\ Chain(held, d, v) \in Seq(Page)
           /\ Len(Chain(held, d, v)) = Len(held.sealed[v]) /\ Len(held.sealed[v]) \in Nat
           /\ \A i \in 1 .. Len(held.sealed[v]) :
                /\ held.sealed[v][i] \in Boundary
                /\ Chain(held, d, v)[i] = Rebuilt(held, d, v, held.sealed[v][i])
<1> DEFINE q == held.sealed[v]
           n == Len(q)
           c == [i \in 1 .. n |-> Rebuilt(held, d, v, q[i])]
<1>1. q \in Seq(Boundary)
  BY DEF Store
<1>2. n \in Nat /\ \A i \in 1 .. n : q[i] \in Boundary
  BY <1>1
<1>3. ASSUME NEW b \in Boundary PROVE Rebuilt(held, d, v, b) \in Page
  <2> DEFINE es == {e \in StreamOf(held, d, v) : e.seq \in b.from .. b.to}
  <2>1. es \subseteq Entry
    BY StreamIs
  <2>2. b.from \in Nat /\ b.to \in Nat /\ b.frame \in Nat
    BY DEF Boundary
  <2>3. Rebuilt(held, d, v, b) = [device |-> d, from |-> b.from, to |-> b.to, v |-> v, frame |-> b.frame, entries |-> es]
    BY DEF Rebuilt
  <2> HIDE DEF es
  <2> QED
    BY <2>1, <2>2, <2>3 DEF Page
<1>4. \A i \in 1 .. n : Rebuilt(held, d, v, q[i]) \in Page
  BY <1>2, <1>3
<1>5. c \in Seq(Page) /\ Len(c) = n /\ \A i \in 1 .. n : c[i] = Rebuilt(held, d, v, q[i])
  <2> HIDE DEF n, q
  <2> QED
    BY <1>2, <1>4
<1>6. Chain(held, d, v) = c
  BY DEF Chain
<1> QED
  BY <1>1, <1>2, <1>5, <1>6

\* An entry that is stamped anew is on no page yet, so the pages stay as they are.
LEMMA AddsKeeps ==
    ASSUME NEW d \in Device, NEW held, WellKept(held, d), NEW new \in Store, NEW e,
           LogOf(new) = LogOf(held) \cup {e}, new.sealed = held.sealed,
           e.device = d, e.seq = NextSeq(held, d)
    PROVE  /\ WellKept(new, d)
           /\ \A v \in Version : Chain(new, d, v) = Chain(held, d, v)
           /\ \A v \in Version : \A i \in 1 .. Len(held.sealed[v]) : held.sealed[v][i].to < e.seq
<1>1. held \in Store /\ IsFiniteSet(LogOf(held)) /\ e \in Entry /\ e.seq \in Nat /\ e.seq >= 1
  BY NextSeqIs, LogIs DEF WellKept
<1>2. \A v \in Version : \A i \in 1 .. Len(held.sealed[v]) : held.sealed[v][i].to < e.seq
  BY <1>1, NextSeqIs
<1>3. \A x \in LogOf(held) : x.device = d => x.seq < e.seq
  BY <1>1, NextSeqIs
<1>4. IsFiniteSet(LogOf(new))
  BY <1>1, FS_AddElement
<1>5. NumberedOnce(LogOf(new))
  <2>1. \A x \in LogOf(held) : x.seq \in Nat
    BY <1>1, LogIs DEF Entry
  <2>2. ASSUME NEW a \in LogOf(new), NEW b \in LogOf(new), a.device = b.device, a.seq = b.seq PROVE a = b
    <3>1. CASE a = e /\ b = e
      BY <3>1
    <3>2. CASE a = e /\ b \in LogOf(held)
      <4>1. b.seq < e.seq
        BY <1>3, <2>2, <3>2
      <4> QED
        BY <1>1, <2>2, <3>2, <4>1
    <3>3. CASE b = e /\ a \in LogOf(held)
      <4>1. a.seq < e.seq
        BY <1>3, <2>2, <3>3
      <4> QED
        BY <1>1, <2>2, <3>3, <4>1
    <3>4. CASE a \in LogOf(held) /\ b \in LogOf(held)
      BY <2>2, <3>4 DEF WellKept, NumberedOnce
    <3> QED
      BY <3>1, <3>2, <3>3, <3>4
  <2> QED
    BY <2>2 DEF NumberedOnce
<1>6. ASSUME NEW v \in Version
      PROVE  Chain(new, d, v) = Chain(held, d, v) /\ Covered(StreamOf(new, d, v), new.sealed[v])
  <2> DEFINE q == held.sealed[v]
  <2>1. StreamOf(held, d, v) \subseteq StreamOf(new, d, v) /\ StreamOf(new, d, v) \subseteq StreamOf(held, d, v) \cup {e}
    BY DEF StreamOf
  <2>2. q \in Seq(Boundary) /\ Len(q) \in Nat /\ \A i \in 1 .. Len(q) : q[i] \in Boundary /\ q[i].to \in Nat /\ q[i].from \in Nat
    BY <1>1, ChainIs DEF Boundary
  <2>3. \A i \in 1 .. Len(q) : e.seq \notin q[i].from .. q[i].to /\ ~(e.seq <= q[i].to)
    BY <1>1, <1>2, <2>2
  <2>4. ASSUME NEW i \in 1 .. Len(q) PROVE Rebuilt(new, d, v, q[i]) = Rebuilt(held, d, v, q[i])
    <3>1. {x \in StreamOf(new, d, v) : x.seq \in q[i].from .. q[i].to}
            = {x \in StreamOf(held, d, v) : x.seq \in q[i].from .. q[i].to}
      BY <2>1, <2>3
    <3> QED
      BY <3>1 DEF Rebuilt
  <2>5. Chain(new, d, v) = Chain(held, d, v)
    BY <2>4 DEF Chain
  <2>6. Covered(StreamOf(held, d, v), q)
    BY DEF WellKept
  <2>7. Covered(StreamOf(new, d, v), q)
    BY <2>1, <2>3, <2>6 DEF Covered
  <2> QED
    BY <2>5, <2>7
<1>7. \A v \in Version : InOrder(new.sealed[v])
  BY DEF WellKept
<1>8. \A x \in LogOf(new) : x.seq >= 1
  BY <1>1 DEF WellKept
<1> QED
  BY <1>2, <1>4, <1>5, <1>6, <1>7, <1>8 DEF WellKept

-----------------------------------------------------------------------------
(* Sealing. *)

LEMMA SealFreshIs ==
    ASSUME NEW d \in Device, NEW held, WellKept(held, d), NEW v \in Version, NEW now \in Nat
    PROVE  LET s == SealFresh(held, d, v, now) IN
           /\ s \in Seq(Boundary)
           /\ \A i \in 1 .. Len(s) : 1 <= s[i].from /\ s[i].from <= s[i].to /\ LastSealed(held.sealed[v]) < s[i].from
           /\ \A i, j \in 1 .. Len(s) : i < j => s[i].to < s[j].from
           /\ \A e \in Fresh(held, d, v) : \E i \in 1 .. Len(s) : e.seq \in s[i].from .. s[i].to
<1> DEFINE F == Fresh(held, d, v)
           P == Paginate(F)
           s == SealFresh(held, d, v, now)
           last == LastSealed(held.sealed[v])
<1>1. held \in Store /\ F \subseteq StreamOf(held, d, v) /\ \A e \in F : e.seq > last
  BY DEF WellKept, Fresh
<1>2. \A e \in F : e.seq \in Nat /\ e.seq >= 1 /\ e.device = d
  BY <1>1, StreamIs DEF WellKept
<1>3. Numbered(F)
  <2>1. F \subseteq LogOf(held) /\ IsFiniteSet(LogOf(held))
    BY <1>1, StreamIs DEF WellKept
  <2>2. IsFiniteSet(F)
    BY <2>1, FS_Subset
  <2>3. \A a, b \in F : a.seq = b.seq => a = b
    BY <1>2, <2>1 DEF WellKept, NumberedOnce
  <2> QED
    BY <1>2, <2>2, <2>3 DEF Numbered
<1> HIDE DEF F
<1>4. PICK k \in Nat :
        /\ DOMAIN P = 1 .. k
        /\ \A i \in 1 .. k : P[i] \subseteq F /\ P[i] # {}
        /\ \A i, j \in 1 .. k : \A a \in P[i], b \in P[j] : i < j => a.seq < b.seq
        /\ \A e \in F : \E i \in 1 .. k : e \in P[i]
  BY <1>3, PaginateIs
<1> HIDE DEF P
<1>5. s = [i \in 1 .. k |-> BoundaryOf(P[i], now)]
  BY <1>4 DEF SealFresh, P, F
<1> HIDE DEF s
<1>6. ASSUME NEW i \in 1 .. k
      PROVE  /\ BoundaryOf(P[i], now) \in Boundary
             /\ \E a, b \in P[i] : BoundaryOf(P[i], now).from = a.seq /\ BoundaryOf(P[i], now).to = b.seq
             /\ \A e \in P[i] : BoundaryOf(P[i], now).from <= e.seq /\ e.seq <= BoundaryOf(P[i], now).to
  <2> DEFINE S == {e.seq : e \in P[i]}
  <2>1. P[i] \subseteq F /\ P[i] # {} /\ IsFiniteSet(P[i])
    BY <1>3, <1>4, FS_Subset DEF Numbered
  <2>2. S \in SUBSET Nat /\ S # {}
    BY <1>2, <2>1
  <2>3. IsFiniteSet(S)
    <3> DEFINE f == [e \in P[i] |-> e.seq]
    <3>1. DOMAIN f = P[i] /\ S = {f[e] : e \in P[i]}
      OBVIOUS
    <3> HIDE DEF f
    <3>2. IsFiniteSet({f[e] : e \in P[i]})
      BY <2>1, <3>1, ImageIsFinite
    <3> QED
      BY <3>1, <3>2
  <2>4. BoundaryOf(P[i], now) = [from |-> Min(S), to |-> Max(S), frame |-> now]
    BY DEF BoundaryOf
  <2>5. \A e \in P[i] : e.seq \in S
    OBVIOUS
  <2>6. \A m \in S : \E e \in P[i] : m = e.seq
    OBVIOUS
  <2> HIDE DEF S
  <2>7. Min(S) \in S /\ \A m \in S : Min(S) <= m
    BY <2>2, MinIs
  <2>8. Max(S) \in S /\ \A m \in S : m <= Max(S)
    BY <2>2, <2>3, MaxIs
  <2>9. BoundaryOf(P[i], now).from = Min(S) /\ BoundaryOf(P[i], now).to = Max(S)
    BY <2>4
  <2>10. BoundaryOf(P[i], now) \in Boundary
    <3>1. Min(S) \in Nat /\ Max(S) \in Nat
      BY <2>2, <2>7, <2>8
    <3> QED
      BY <2>4, <3>1 DEF Boundary
  <2> QED
    BY <2>5, <2>6, <2>7, <2>8, <2>9, <2>10
<1>7. s \in Seq(Boundary) /\ Len(s) = k /\ \A i \in 1 .. k : s[i] = BoundaryOf(P[i], now)
  BY <1>4, <1>5, <1>6
<1>8. ASSUME NEW i \in 1 .. k PROVE 1 <= s[i].from /\ s[i].from <= s[i].to /\ last < s[i].from
  <2>1. PICK a, b \in P[i] : s[i].from = a.seq /\ s[i].to = b.seq
    BY <1>6, <1>7
  <2>2. s[i].from <= b.seq
    BY <1>6, <1>7
  <2>3. a \in F /\ b \in F
    BY <1>4
  <2>4. a.seq > last /\ a.seq >= 1 /\ a.seq \in Nat
    BY <1>1, <1>2, <2>3 DEF F
  <2>5. last < a.seq
    <3>1. last \in Int
      <4>1. held.sealed[v] \in Seq(Boundary)
        BY <1>1, ChainIs
      <4>2. held.sealed[v] # <<>> => Last(held.sealed[v]) \in Boundary
        BY <4>1 DEF Last
      <4> QED
        BY <4>2 DEF LastSealed, Boundary
    <3> QED
      BY <2>4, <3>1
  <2> QED
    BY <2>1, <2>2, <2>4, <2>5
<1>9. ASSUME NEW i \in 1 .. k, NEW j \in 1 .. k, i < j PROVE s[i].to < s[j].from
  <2>1. PICK b \in P[i] : s[i].to = b.seq
    BY <1>6, <1>7
  <2>2. PICK a \in P[j] : s[j].from = a.seq
    BY <1>6, <1>7
  <2> QED
    BY <1>4, <1>9, <2>1, <2>2
<1>10. ASSUME NEW e \in F PROVE \E i \in 1 .. k : e.seq \in s[i].from .. s[i].to
  <2>1. PICK i \in 1 .. k : e \in P[i]
    BY <1>4
  <2>2. s[i].from <= e.seq /\ e.seq <= s[i].to
    BY <1>6, <1>7, <2>1
  <2>3. s[i] \in Boundary /\ e.seq \in Nat
    BY <1>2, <1>6, <1>7 DEF F
  <2> QED
    BY <2>2, <2>3 DEF Boundary
<1> HIDE DEF last
<1>11. /\ s \in Seq(Boundary)
       /\ \A i \in 1 .. Len(s) : 1 <= s[i].from /\ s[i].from <= s[i].to /\ last < s[i].from
       /\ \A i, j \in 1 .. Len(s) : i < j => s[i].to < s[j].from
       /\ \A e \in F : \E i \in 1 .. Len(s) : e.seq \in s[i].from .. s[i].to
  BY <1>7, <1>8, <1>9, <1>10
<1> QED
  BY <1>11 DEF s, F, last

\* What is fresh goes behind what was sealed, and what was sealed stays as it was.
LEMMA SealsKeeps ==
    ASSUME NEW d \in Device, NEW held, WellKept(held, d), NEW v \in Version, NEW now \in Nat
    PROVE  /\ WellKept(Sealed(held, d, v, now), d)
           /\ Sealed(held, d, v, now).publications = held.publications
           /\ LogOf(Sealed(held, d, v, now)) = LogOf(held)
           /\ \A w \in Version : IsPrefix(Chain(held, d, w), Chain(Sealed(held, d, v, now), d, w))
<1> DEFINE new == Sealed(held, d, v, now)
           s == SealFresh(held, d, v, now)
           q == held.sealed[v]
           n == Len(q)
           u == q \o s
<1>1. held \in Store
  BY DEF WellKept
<1>2. /\ s \in Seq(Boundary) /\ Len(s) \in Nat
      /\ \A i \in 1 .. Len(s) : 1 <= s[i].from /\ s[i].from <= s[i].to /\ LastSealed(q) < s[i].from
      /\ \A i, j \in 1 .. Len(s) : i < j => s[i].to < s[j].from
      /\ \A e \in Fresh(held, d, v) : \E i \in 1 .. Len(s) : e.seq \in s[i].from .. s[i].to
  BY SealFreshIs
<1>3. q \in Seq(Boundary) /\ n \in Nat /\ \A i \in 1 .. n : q[i] \in Boundary
  BY <1>1, ChainIs
<1>4. /\ new \in Store /\ new.publications = held.publications /\ new.opinions = held.opinions
      /\ new.sealed[v] = u /\ \A w \in Version : w # v => new.sealed[w] = held.sealed[w]
  <2>1. u \in Seq(Boundary)
    BY <1>2, <1>3
  <2>2. new = [held EXCEPT !.sealed[v] = u]
    BY DEF Sealed
  <2> HIDE DEF new, u
  <2> QED
    BY <1>1, <2>1, <2>2 DEF Store
<1> HIDE DEF new, s
<1>5. LogOf(new) = LogOf(held) /\ \A w \in Version : StreamOf(new, d, w) = StreamOf(held, d, w)
  BY <1>4 DEF LogOf, StreamOf
<1>6. /\ u \in Seq(Boundary) /\ Len(u) = n + Len(s)
      /\ \A i \in 1 .. n : u[i] = q[i]
      /\ \A i \in 1 .. Len(s) : u[n + i] = s[i]
  BY <1>2, <1>3, LongerIs
<1> HIDE DEF u
<1>7. \A i \in 1 .. n : q[i].from \in Nat /\ q[i].to \in Nat /\ q[i].from <= q[i].to /\ 1 <= q[i].from
  BY <1>3 DEF WellKept, InOrder, Boundary
<1>8. \A i \in 1 .. Len(s) : s[i].from \in Nat /\ s[i].to \in Nat
  <2>1. s \in Seq(Boundary)
    BY <1>2
  <2>2. \A i \in 1 .. Len(s) : s[i] \in Boundary
    BY <2>1
  <2> QED
    BY <2>2 DEF Boundary
<1>9. LastSealed(q) \in Nat /\ \A i \in 1 .. n : q[i].to <= LastSealed(q)
  <2>1. CASE n = 0
    <3>1. q = <<>>
      BY <1>3, <2>1
    <3> QED
      BY <2>1, <3>1 DEF LastSealed
  <2>2. CASE n # 0
    <3>1. q # <<>> /\ n \in 1 .. n
      BY <1>3, <2>2
    <3>2. LastSealed(q) = q[n].to
      BY <3>1 DEF LastSealed, Last
    <3>3. ASSUME NEW i \in 1 .. n PROVE q[i].to <= q[n].to
      <4>1. CASE i = n
        BY <1>7, <4>1
      <4>2. CASE i < n
        <5>1. q[i].to < q[n].from
          BY <3>1, <4>2 DEF WellKept, InOrder
        <5> QED
          BY <1>7, <3>1, <5>1
      <4> QED
        BY <1>3, <4>1, <4>2
    <3> QED
      BY <1>7, <3>1, <3>2, <3>3
  <2> QED
    BY <2>1, <2>2
<1>10. \A i \in 1 .. Len(u) : (i \in 1 .. n) \/ (i - n \in 1 .. Len(s) /\ u[i] = s[i - n])
  <2> SUFFICES ASSUME NEW i \in 1 .. Len(u), i \notin 1 .. n PROVE i - n \in 1 .. Len(s) /\ u[i] = s[i - n]
    OBVIOUS
  <2>1. i - n \in 1 .. Len(s) /\ n + (i - n) = i
    BY <1>2, <1>3, <1>6
  <2> QED
    BY <1>6, <2>1
<1>11. InOrder(u)
  <2>1. ASSUME NEW i \in 1 .. Len(u) PROVE 1 <= u[i].from /\ u[i].from <= u[i].to
    <3>1. CASE i \in 1 .. n
      BY <1>6, <1>7, <3>1
    <3>2. CASE i - n \in 1 .. Len(s) /\ u[i] = s[i - n]
      BY <1>2, <3>2
    <3> QED
      BY <1>10, <3>1, <3>2
  <2>2. ASSUME NEW i \in 1 .. Len(u), NEW j \in 1 .. Len(u), i < j PROVE u[i].to < u[j].from
    <3>1. CASE i \in 1 .. n /\ j \in 1 .. n
      BY <1>6, <2>2, <3>1 DEF WellKept, InOrder
    <3>2. CASE i \in 1 .. n /\ j - n \in 1 .. Len(s) /\ u[j] = s[j - n]
      <4>1. u[i].to = q[i].to /\ q[i].to <= LastSealed(q) /\ q[i].to \in Nat
        BY <1>6, <1>7, <1>9, <3>2
      <4>2. LastSealed(q) < s[j - n].from /\ s[j - n].from \in Nat
        BY <1>2, <1>8, <3>2
      <4> QED
        BY <1>9, <3>2, <4>1, <4>2
    <3>3. CASE i - n \in 1 .. Len(s) /\ u[i] = s[i - n] /\ j - n \in 1 .. Len(s) /\ u[j] = s[j - n]
      <4>1. i - n < j - n
        BY <1>3, <2>2
      <4> QED
        BY <1>2, <3>3, <4>1
    <3>4. ~(i - n \in 1 .. Len(s) /\ j \in 1 .. n)
      BY <1>3, <2>2
    <3> QED
      BY <1>10, <3>1, <3>2, <3>3, <3>4
  <2> QED
    BY <2>1, <2>2 DEF InOrder
<1>12. Covered(StreamOf(held, d, v), u)
  <2> SUFFICES ASSUME NEW e \in StreamOf(held, d, v), NEW i \in 1 .. Len(u), e.seq <= u[i].to
               PROVE  \E j \in 1 .. i : e.seq \in u[j].from .. u[j].to
    BY DEF Covered
  <2>1. e.seq \in Nat
    BY <1>1, StreamIs
  <2>2. ASSUME NEW m \in 1 .. n, m <= i, e.seq <= q[m].to PROVE \E j \in 1 .. i : e.seq \in u[j].from .. u[j].to
    <3>1. PICK j \in 1 .. m : e.seq \in q[j].from .. q[j].to
      BY <2>2 DEF WellKept, Covered
    <3>2. j \in 1 .. i /\ j \in 1 .. n
      BY <1>3, <1>6, <2>2
    <3> QED
      BY <1>6, <3>1, <3>2
  <2>3. CASE i \in 1 .. n
    BY <1>6, <2>2, <2>3
  <2>4. CASE i - n \in 1 .. Len(s) /\ u[i] = s[i - n]
    <3>1. CASE e.seq <= LastSealed(q)
      <4>1. n # 0
        <5>1. e.seq >= 1
          BY <1>1, StreamIs DEF WellKept
        <5>2. n = 0 => q = <<>>
          BY <1>3
        <5> QED
          BY <2>1, <3>1, <5>1, <5>2 DEF LastSealed
      <4>2. q # <<>> /\ n \in 1 .. n /\ n <= i
        BY <1>3, <1>2, <1>6, <2>4, <4>1
      <4>3. LastSealed(q) = q[n].to
        BY <4>2 DEF LastSealed, Last
      <4> QED
        BY <2>2, <3>1, <4>2, <4>3
    <3>2. CASE ~(e.seq <= LastSealed(q))
      <4>1. e \in Fresh(held, d, v)
        BY <1>9, <2>1, <3>2 DEF Fresh
      <4>2. PICK m \in 1 .. Len(s) : e.seq \in s[m].from .. s[m].to
        BY <1>2, <4>1
      <4>3. m <= i - n
        <5>1. i - n < m => s[i - n].to < s[m].from
          BY <1>2, <2>4
        <5>2. s[i - n].to \in Nat /\ s[m].from \in Nat /\ s[m].to \in Nat
          BY <1>8, <2>4
        <5>3. s[m].from <= e.seq /\ e.seq <= s[i - n].to
          BY <2>1, <2>4, <4>2, <5>2
        <5>4. ~(i - n < m)
          BY <2>1, <5>1, <5>2, <5>3
        <5>5. i - n \in Int /\ m \in Int
          BY <1>3
        <5> QED
          BY <5>4, <5>5
      <4>4. n + m \in 1 .. i /\ u[n + m] = s[m]
        BY <1>3, <1>6, <4>2, <4>3
      <4> QED
        BY <4>2, <4>4
    <3> QED
      BY <3>1, <3>2
  <2> QED
    BY <1>10, <2>3, <2>4
<1>13. WellKept(new, d)
  <2>1. \A w \in Version : InOrder(new.sealed[w]) /\ Covered(StreamOf(new, d, w), new.sealed[w])
    BY <1>4, <1>5, <1>11, <1>12 DEF WellKept
  <2> QED
    BY <1>4, <1>5, <2>1 DEF WellKept
<1>14. ASSUME NEW w \in Version PROVE IsPrefix(Chain(held, d, w), Chain(new, d, w))
  <2>1. \A b : Rebuilt(new, d, w, b) = Rebuilt(held, d, w, b)
    BY <1>5 DEF Rebuilt
  <2>2. Len(held.sealed[w]) <= Len(new.sealed[w]) /\ \A i \in 1 .. Len(held.sealed[w]) : new.sealed[w][i] = held.sealed[w][i]
    <3>1. CASE w = v
      BY <1>2, <1>3, <1>4, <1>6, <3>1
    <3>2. CASE w # v
      <4>1. new.sealed[w] = held.sealed[w] /\ Len(held.sealed[w]) \in Nat
        BY <1>1, <1>4, <3>2, ChainIs
      <4> QED
        BY <4>1
    <3> QED
      BY <3>1, <3>2
  <2>3. /\ Chain(held, d, w) \in Seq(Page) /\ Len(Chain(held, d, w)) = Len(held.sealed[w]) /\ Len(held.sealed[w]) \in Nat
        /\ \A i \in 1 .. Len(held.sealed[w]) : Chain(held, d, w)[i] = Rebuilt(held, d, w, held.sealed[w][i])
    BY <1>1, ChainIs
  <2>4. /\ Chain(new, d, w) \in Seq(Page) /\ Len(Chain(new, d, w)) = Len(new.sealed[w]) /\ Len(new.sealed[w]) \in Nat
        /\ \A i \in 1 .. Len(new.sealed[w]) : Chain(new, d, w)[i] = Rebuilt(new, d, w, new.sealed[w][i])
    BY <1>4, ChainIs
  <2>5. \A i \in 1 .. Len(Chain(held, d, w)) : Chain(held, d, w)[i] = Chain(new, d, w)[i]
    BY <2>1, <2>2, <2>3, <2>4
  <2> QED
    BY <2>2, <2>3, <2>4, <2>5, PrefixIs
<1>15. WellKept(new, d) /\ new.publications = held.publications /\ LogOf(new) = LogOf(held)
       /\ \A w \in Version : IsPrefix(Chain(held, d, w), Chain(new, d, w))
  BY <1>4, <1>5, <1>13, <1>14
<1> QED
  BY <1>15 DEF new

\* What a store may become: its log and its chains go on, and what is new is past its pages.
Grown(old, new, d) ==
    /\ LogOf(old) \subseteq LogOf(new)
    /\ \A v \in Version : IsPrefix(Chain(old, d, v), Chain(new, d, v))
    /\ \A e \in LogOf(new) \ LogOf(old), v \in Version :
          e.device = d /\ \A i \in 1 .. Len(old.sealed[v]) : old.sealed[v][i].to < e.seq

LEMMA SealsGrows ==
    ASSUME NEW d \in Device, NEW held, WellKept(held, d), NEW v \in Version, NEW now \in Nat
    PROVE  Grown(held, Sealed(held, d, v, now), d)
BY SealsKeeps DEF Grown

LEMMA AddsGrows ==
    ASSUME NEW d \in Device, NEW held, WellKept(held, d), NEW new \in Store, NEW e,
           LogOf(new) = LogOf(held) \cup {e}, new.sealed = held.sealed,
           e.device = d, e.seq = NextSeq(held, d)
    PROVE  Grown(held, new, d)
<1>1. /\ \A v \in Version : Chain(new, d, v) = Chain(held, d, v)
      /\ \A v \in Version : \A i \in 1 .. Len(held.sealed[v]) : held.sealed[v][i].to < e.seq
  BY AddsKeeps
<1>2. ASSUME NEW v \in Version PROVE IsPrefix(Chain(held, d, v), Chain(new, d, v))
  <2>1. PICK c \in Seq(Page) : c = Chain(held, d, v)
    BY ChainIs DEF WellKept
  <2>2. IsPrefix(c, c)
    BY PrefixIs
  <2> QED
    BY <1>1, <2>1, <2>2
<1>3. \A x \in LogOf(new) \ LogOf(held) : x = e
  OBVIOUS
<1> QED
  BY <1>1, <1>2, <1>3 DEF Grown

LEMMA SameGrows == ASSUME NEW d \in Device, NEW held, WellKept(held, d) PROVE Grown(held, held, d)
<1>1. ASSUME NEW v \in Version PROVE IsPrefix(Chain(held, d, v), Chain(held, d, v))
  <2>1. PICK c \in Seq(Page) : c = Chain(held, d, v)
    BY ChainIs DEF WellKept
  <2>2. IsPrefix(c, c)
    BY PrefixIs
  <2> QED
    BY <2>1, <2>2
<1> QED
  BY <1>1 DEF Grown

-----------------------------------------------------------------------------
(* The publisher's stores. *)

\* An id is given to one publication.
Owned(stores) ==
    \A d, o \in Device : \A a \in LogOf(stores[d]), b \in LogOf(stores[o]) :
        a.op = "share" /\ b.op = "share" /\ a.pub = b.pub => a = b

Stocked(stores) ==
    /\ stores \in [Device -> Store] /\ \A d \in Device : WellKept(stores[d], d)
    /\ Owned(stores)

Publisher == Stocked(shared) /\ frame \in [Device -> Nat] /\ speaks \in [Device -> Version]

GrownAll(old, new) == \A d \in Device : Grown(old[d], new[d], d)
Grows == GrownAll(shared, shared')

LEMMA StoresStay == ASSUME Publisher, UNCHANGED publisherVars PROVE Publisher' /\ Grows
<1>1. shared' = shared /\ frame' = frame /\ speaks' = speaks
  BY DEF publisherVars
<1>2. Publisher'
  BY <1>1 DEF Publisher
<1>3. Grows
  BY <1>1, SameGrows DEF Publisher, Stocked, Grows, GrownAll
<1> QED
  BY <1>2, <1>3

LEMMA OneStore ==
    ASSUME Publisher, NEW d \in Device, NEW new, WellKept(new, d), Grown(shared[d], new, d),
           shared' = [shared EXCEPT ![d] = new], UNCHANGED <<frame, speaks>>,
           \A a, b \in LogOf(new) \ LogOf(shared[d]) : a = b,
           \A a \in LogOf(new) \ LogOf(shared[d]) : a.op = "share" =>
               \A o \in Device : \A b \in LogOf(shared[o]) : b.op = "share" => b.pub # a.pub
    PROVE  Publisher' /\ Grows
<1>1. shared' \in [Device -> Store] /\ shared'[d] = new /\ \A o \in Device : o # d => shared'[o] = shared[o]
  BY DEF Publisher, Stocked, WellKept
<1>2. \A o \in Device : WellKept(shared'[o], o)
  BY <1>1 DEF Publisher, Stocked
<1>3. \A o \in Device : Grown(shared[o], shared'[o], o)
  BY <1>1, SameGrows DEF Publisher, Stocked
<1>4. Owned(shared')
  <2> SUFFICES ASSUME NEW p \in Device, NEW o \in Device, NEW a \in LogOf(shared'[p]), NEW b \in LogOf(shared'[o]),
                      a.op = "share", b.op = "share", a.pub = b.pub
               PROVE  a = b
    BY DEF Owned
  <2>1. a \in LogOf(shared[p]) \/ (p = d /\ a \in LogOf(new) \ LogOf(shared[d]))
    BY <1>1
  <2>2. b \in LogOf(shared[o]) \/ (o = d /\ b \in LogOf(new) \ LogOf(shared[d]))
    BY <1>1
  <2>3. CASE a \in LogOf(shared[p]) /\ b \in LogOf(shared[o])
    BY <2>3 DEF Publisher, Stocked, Owned
  <2> QED
    BY <2>1, <2>2, <2>3
<1>5. frame' \in [Device -> Nat] /\ speaks' \in [Device -> Version]
  BY DEF Publisher, Stocked
<1>6. Publisher'
  BY <1>1, <1>2, <1>4, <1>5 DEF Publisher, Stocked
<1> QED
  BY <1>3, <1>6 DEF Grows, GrownAll

LEMMA ShareStep == ASSUME Publisher, NEW d \in Device, Share(d) PROVE Publisher' /\ Grows
<1> DEFINE pub == Mint(Minted)
<1>1. PICK at \in Stamp(d) :
        shared' = [shared EXCEPT ![d].publications = @ \cup
           {[pub |-> pub, device |-> d, seq |-> NextSeq(shared[d], d), at |-> at, gone |-> NotGone]}]
  BY DEF Share
<1> DEFINE row == [pub |-> pub, device |-> d, seq |-> NextSeq(shared[d], d), at |-> at, gone |-> NotGone]
           new == [shared[d] EXCEPT !.publications = @ \cup {row}]
           e == ShareOf(row)
<1>2. shared[d] \in Store /\ WellKept(shared[d], d) /\ NextSeq(shared[d], d) \in Nat /\ at \in Nat
  <2>1. shared[d] \in Store /\ WellKept(shared[d], d)
    BY DEF Publisher, Stocked
  <2>2. at \in Nat
    BY PublisherAssumption DEF Stamp
  <2> QED
    BY <2>1, <2>2, NextSeqIs DEF WellKept
<1>3. pub \in Pub /\ pub \notin Minted
  <2>1. Minted \subseteq Pub /\ Minted # Pub
    BY DEF Publisher, Stocked, Minted, Store, Row, Share
  <2>2. \E p \in Pub \ Minted : TRUE
    BY <2>1
  <2> QED
    BY <2>2 DEF Mint
<1> HIDE DEF pub
<1>4. row \in Row /\ row.gone = NotGone
  BY <1>2, <1>3 DEF Row
<1>5. shared' = [shared EXCEPT ![d] = new]
  BY <1>1
<1>6. new \in Store /\ new.publications = shared[d].publications \cup {row} /\ new.opinions = shared[d].opinions
      /\ new.sealed = shared[d].sealed
  BY <1>2, <1>4 DEF Store
<1>7. e.op = "share" /\ e.pub = pub /\ e.device = d /\ e.seq = NextSeq(shared[d], d)
  BY DEF ShareOf
<1> HIDE DEF row, new
<1>8. LogOf(new) = LogOf(shared[d]) \cup {e}
  BY <1>4, <1>6 DEF LogOf
<1> HIDE DEF e
<1>9. WellKept(new, d) /\ Grown(shared[d], new, d)
  BY <1>2, <1>6, <1>7, <1>8, AddsKeeps, AddsGrows
<1>10. ASSUME NEW o \in Device, NEW b \in LogOf(shared[o]), b.op = "share" PROVE b.pub # pub
  <2>1. \E r \in shared[o].publications : r.pub = b.pub
    BY <1>10, LogIs DEF Publisher, Stocked
  <2> QED
    BY <1>3, <2>1 DEF Minted
<1>11. \A a \in LogOf(new) \ LogOf(shared[d]) : a = e
  BY <1>8
<1>12. UNCHANGED <<frame, speaks>>
  BY DEF Share
<1> QED
  BY <1>5, <1>7, <1>9, <1>10, <1>11, <1>12, OneStore

LEMMA UnshareStep == ASSUME Publisher, NEW d \in Device, NEW pub \in Pub, Unshare(d, pub) PROVE Publisher' /\ Grows
<1>1. PICK at \in Stamp(d), row \in shared[d].publications :
        /\ row.gone = NotGone
        /\ shared' = [shared EXCEPT ![d].publications = (@ \ {row}) \cup
              {[row EXCEPT !.gone = [device |-> d, seq |-> NextSeq(shared[d], d), at |-> at]]}]
  BY DEF Unshare
<1> DEFINE gone == [device |-> d, seq |-> NextSeq(shared[d], d), at |-> at]
           left == [row EXCEPT !.gone = gone]
           new == [shared[d] EXCEPT !.publications = (@ \ {row}) \cup {left}]
           e == UnshareOf(left)
<1>2. shared[d] \in Store /\ WellKept(shared[d], d) /\ NextSeq(shared[d], d) \in Nat /\ NextSeq(shared[d], d) >= 1 /\ at \in Nat
  <2>1. shared[d] \in Store /\ WellKept(shared[d], d)
    BY DEF Publisher, Stocked
  <2>2. at \in Nat
    BY PublisherAssumption DEF Stamp
  <2> QED
    BY <2>1, <2>2, NextSeqIs DEF WellKept
<1>3. gone \in [device : Device, seq : Nat, at : Nat] /\ gone # NotGone
  <2>1. gone.seq # 0
    BY <1>2
  <2>2. NotGone.seq = 0
    BY DEF NotGone
  <2> QED
    BY <1>2, <2>1, <2>2
<1>4. row \in Row
  BY <1>2 DEF Store
<1>5. /\ left \in Row /\ left.gone = gone /\ left.pub = row.pub
      /\ left.device = row.device /\ left.seq = row.seq /\ left.at = row.at
  BY <1>3, <1>4 DEF Row
<1>6. shared' = [shared EXCEPT ![d] = new]
  BY <1>1
<1>7. new \in Store /\ new.publications = (shared[d].publications \ {row}) \cup {left} /\ new.opinions = shared[d].opinions
      /\ new.sealed = shared[d].sealed
  BY <1>2, <1>5 DEF Store
<1>8. ShareOf(left) = ShareOf(row)
  BY <1>5 DEF ShareOf
<1>9. e.op = "unshare" /\ e.device = d /\ e.seq = NextSeq(shared[d], d)
  BY <1>5 DEF UnshareOf
<1> HIDE DEF left, new, gone
<1>10. LogOf(new) = LogOf(shared[d]) \cup {e}
  <2>1. {ShareOf(r) : r \in new.publications} = {ShareOf(r) : r \in shared[d].publications}
    BY <1>7, <1>8
  <2>2. {r \in new.publications : r.gone # NotGone} = {r \in shared[d].publications : r.gone # NotGone} \cup {left}
    BY <1>1, <1>3, <1>5, <1>7
  <2>3. {UnshareOf(r) : r \in {x \in new.publications : x.gone # NotGone}}
          = {UnshareOf(r) : r \in {x \in shared[d].publications : x.gone # NotGone}} \cup {e}
    BY <2>2
  <2> QED
    BY <1>7, <2>1, <2>3 DEF LogOf
<1> HIDE DEF e
<1>11. WellKept(new, d) /\ Grown(shared[d], new, d)
  BY <1>2, <1>7, <1>9, <1>10, AddsKeeps, AddsGrows
<1>12. \A a \in LogOf(new) \ LogOf(shared[d]) : a = e
  BY <1>10
<1>13. UNCHANGED <<frame, speaks>>
  BY DEF Unshare
<1> QED
  BY <1>6, <1>9, <1>11, <1>12, <1>13, OneStore

LEMMA RepublishStep == ASSUME Publisher, NEW d \in Device, Republish(d) PROVE Publisher' /\ Grows
<1>1. PICK at \in Stamp(d) :
        shared' = [shared EXCEPT ![d].opinions = @ \cup
           {[op |-> "status", pub |-> NoPub, device |-> d, seq |-> NextSeq(shared[d], d), at |-> at]}]
  BY DEF Republish
<1> DEFINE e == [op |-> "status", pub |-> NoPub, device |-> d, seq |-> NextSeq(shared[d], d), at |-> at]
           new == [shared[d] EXCEPT !.opinions = @ \cup {e}]
<1>2. shared[d] \in Store /\ WellKept(shared[d], d) /\ NextSeq(shared[d], d) \in Nat /\ at \in Nat
  <2>1. shared[d] \in Store /\ WellKept(shared[d], d)
    BY DEF Publisher, Stocked
  <2>2. at \in Nat
    BY PublisherAssumption DEF Stamp
  <2> QED
    BY <2>1, <2>2, NextSeqIs DEF WellKept
<1>3. e \in Spoken /\ e.op = "status" /\ e.device = d /\ e.seq = NextSeq(shared[d], d)
  BY <1>2 DEF Spoken
<1>4. shared' = [shared EXCEPT ![d] = new]
  BY <1>1
<1> HIDE DEF e
<1>5. new \in Store /\ new.publications = shared[d].publications /\ new.opinions = shared[d].opinions \cup {e}
      /\ new.sealed = shared[d].sealed
  BY <1>2, <1>3 DEF Store
<1> HIDE DEF new
<1>6. LogOf(new) = LogOf(shared[d]) \cup {e}
  BY <1>5 DEF LogOf
<1>7. WellKept(new, d) /\ Grown(shared[d], new, d)
  BY <1>2, <1>3, <1>5, <1>6, AddsKeeps, AddsGrows
<1>8. \A a \in LogOf(new) \ LogOf(shared[d]) : a = e
  BY <1>6
<1>9. UNCHANGED <<frame, speaks>>
  BY DEF Republish
<1> QED
  BY <1>3, <1>4, <1>7, <1>8, <1>9, OneStore

LEMMA SealStep ==
    ASSUME Publisher, NEW d \in Device, NEW v \in Version, NEW now \in Nat,
           shared' = [shared EXCEPT ![d] = Sealed(shared[d], d, v, now)], UNCHANGED <<frame, speaks>>
    PROVE  Publisher' /\ Grows
<1>1. PICK new : new = Sealed(shared[d], d, v, now)
  OBVIOUS
<1>2. WellKept(shared[d], d)
  BY DEF Publisher, Stocked
<1>3. WellKept(new, d) /\ Grown(shared[d], new, d) /\ LogOf(new) = LogOf(shared[d])
  BY <1>1, <1>2, SealsKeeps, SealsGrows
<1>4. shared' = [shared EXCEPT ![d] = new]
  BY <1>1
<1> QED
  BY <1>3, <1>4, OneStore

-----------------------------------------------------------------------------
(* What is held. *)

Word == [device : Device \cup {NoPub}, seq : Nat, at : Nat, epoch : Nat]
Gotten == [pub : Pub \cup {NoPub}, device : Device, seq : Nat, at : Nat, epoch : Nat]
Held == [rows : SUBSET Gotten, gone : SUBSET (Pub \cup {NoPub}), word : Word,
         heads : [Device -> Seq(Page)], cursor : [Device -> Nat], v : Version]

All(stores, v) == UNION {StreamOf(stores[d], d, v) : d \in Device}
PassedBy(stores, held) == {e \in All(stores, held.v) : e.seq <= held.cursor[e.device]}
DrawnOf(held) == {row.pub : row \in held.rows}

\* The pages that led to a cursor are the chain's ...
Follows(stores, held) ==
    /\ held \in Held
    /\ \A d \in Device :
        /\ IsPrefix(held.heads[d], Chain(stores[d], d, held.v))
        /\ held.cursor[d] = IF held.heads[d] = <<>> THEN 0 ELSE Last(held.heads[d]).to

\* ... and what is held is their fold.
WellHeld(stores, held) ==
    /\ Follows(stores, held)
    /\ Unshared(PassedBy(stores, held)) \subseteq held.gone /\ held.gone \subseteq Unshared(All(stores, 2))
    /\ DrawnOf(held) \cap held.gone = {}
    /\ \A row \in held.rows : \E e \in All(stores, 2) : e.op = "share" /\ e.pub = row.pub /\ e.device = row.device
    /\ Shared(PassedBy(stores, held)) \subseteq DrawnOf(held) \cup held.gone
    /\ \A e \in PassedBy(stores, held) : e.op = "status" => e.at <= held.word.at

LEMMA AllIs ==
    ASSUME NEW stores, Stocked(stores), NEW v \in Version
    PROVE  /\ All(stores, v) \subseteq Entry /\ All(stores, v) \subseteq All(stores, 2)
           /\ \A e \in All(stores, v) :
                /\ e.device \in Device /\ e.seq \in Nat /\ e.seq >= 1
                /\ e \in StreamOf(stores[e.device], e.device, v) /\ e \in LogOf(stores[e.device])
<1>1. ASSUME NEW d \in Device, NEW e \in StreamOf(stores[d], d, v)
      PROVE  /\ e \in Entry /\ e.device = d /\ e.seq \in Nat /\ e.seq >= 1
             /\ e \in LogOf(stores[d]) /\ e \in StreamOf(stores[d], d, 2)
  <2>1. stores[d] \in Store /\ WellKept(stores[d], d)
    BY DEF Stocked
  <2>2. e \in Entry /\ e \in LogOf(stores[d]) /\ e.device = d /\ e.seq \in Nat
    BY <2>1, StreamIs
  <2>3. e \in StreamOf(stores[d], d, 2)
    BY DEF StreamOf, Carried
  <2> QED
    BY <2>1, <2>2, <2>3 DEF WellKept
<1>2. ASSUME NEW e \in All(stores, v) PROVE \E d \in Device : e \in StreamOf(stores[d], d, v)
  BY DEF All
<1>3. All(stores, v) \subseteq All(stores, 2)
  BY <1>1, <1>2 DEF All
<1> QED
  BY <1>1, <1>2, <1>3

\* A cursor is where a page of the chain ends.
LEMMA CursorIs ==
    ASSUME NEW stores, Stocked(stores), NEW held, Follows(stores, held), NEW d \in Device
    PROVE  \/ held.heads[d] = <<>> /\ held.cursor[d] = 0
           \/ LET n == Len(held.heads[d]) IN
              /\ n \in 1 .. Len(stores[d].sealed[held.v]) /\ held.cursor[d] = stores[d].sealed[held.v][n].to
<1>1. held \in Held /\ held.v \in Version /\ held.heads[d] \in Seq(Page)
  BY DEF Follows, Held
<1>2. stores[d] \in Store
  BY DEF Stocked
<1> DEFINE c == Chain(stores[d], d, held.v)
           h == held.heads[d]
           n == Len(h)
<1>3. /\ c \in Seq(Page) /\ Len(c) = Len(stores[d].sealed[held.v])
      /\ \A i \in 1 .. Len(c) : c[i] = Rebuilt(stores[d], d, held.v, stores[d].sealed[held.v][i])
  BY <1>1, <1>2, ChainIs
<1>4. IsPrefix(h, c)
  BY DEF Follows
<1> HIDE DEF c
<1>5. n <= Len(c) /\ n \in Nat /\ Len(c) \in Nat /\ \A i \in 1 .. n : h[i] = c[i]
  BY <1>1, <1>3, <1>4, PrefixIs
<1>6. CASE h = <<>>
  BY <1>6 DEF Follows
<1>7. CASE h # <<>>
  <2>1. n \in 1 .. n /\ n \in 1 .. Len(c)
    BY <1>1, <1>5, <1>7
  <2>2. h[n] = Rebuilt(stores[d], d, held.v, stores[d].sealed[held.v][n])
    BY <1>3, <1>5, <2>1
  <2>3. h[n].to = stores[d].sealed[held.v][n].to
    BY <2>2, RebuiltIs
  <2>4. held.cursor[d] = h[n].to
    BY <1>7 DEF Follows, Last
  <2> QED
    BY <1>3, <2>1, <2>3, <2>4
<1> QED
  BY <1>6, <1>7

\* What is new in a store has not been passed.
LEMMA HeldStays ==
    ASSUME NEW old, NEW new, Stocked(old), Stocked(new), GrownAll(old, new), NEW held, WellHeld(old, held)
    PROVE  WellHeld(new, held)
<1>1. held \in Held /\ held.v \in Version /\ held.cursor \in [Device -> Nat] /\ held.heads \in [Device -> Seq(Page)]
  BY DEF WellHeld, Follows, Held
<1>2. ASSUME NEW v \in Version PROVE All(old, v) \subseteq All(new, v)
  BY DEF GrownAll, Grown, All, StreamOf
<1>3. ASSUME NEW e \in All(new, held.v), e \notin All(old, held.v) PROVE ~(e.seq <= held.cursor[e.device])
  <2> DEFINE d == e.device
  <2>1. d \in Device /\ e.seq \in Nat /\ e.seq >= 1 /\ e \in StreamOf(new[d], d, held.v) /\ e \in LogOf(new[d])
    BY <1>1, AllIs
  <2>2. e \notin StreamOf(old[d], d, held.v)
    BY <1>3, <2>1 DEF All
  <2>3. e \notin LogOf(old[d])
    BY <2>1, <2>2 DEF StreamOf
  <2>4. \A i \in 1 .. Len(old[d].sealed[held.v]) : old[d].sealed[held.v][i].to < e.seq
    BY <1>1, <2>1, <2>3 DEF GrownAll, Grown
  <2>5. held.cursor[d] \in Nat
    BY <1>1, <2>1
  <2> HIDE DEF d
  <2>6. \/ held.cursor[d] = 0
        \/ \E i \in 1 .. Len(old[d].sealed[held.v]) : held.cursor[d] = old[d].sealed[held.v][i].to
    BY <2>1, CursorIs DEF WellHeld
  <2>7. held.cursor[d] < e.seq
    BY <2>1, <2>4, <2>6
  <2> QED
    BY <2>1, <2>5, <2>7 DEF d
<1>4. PassedBy(new, held) = PassedBy(old, held)
  BY <1>1, <1>2, <1>3 DEF PassedBy
<1>5. ASSUME NEW d \in Device PROVE IsPrefix(held.heads[d], Chain(new[d], d, held.v))
  <2>1. IsPrefix(held.heads[d], Chain(old[d], d, held.v)) /\ IsPrefix(Chain(old[d], d, held.v), Chain(new[d], d, held.v))
    BY <1>1 DEF WellHeld, Follows, GrownAll, Grown
  <2>2. held.heads[d] \in Seq(Page) /\ Chain(old[d], d, held.v) \in Seq(Page) /\ Chain(new[d], d, held.v) \in Seq(Page)
    BY <1>1, ChainIs DEF Stocked
  <2> QED
    BY <2>1, <2>2, PrefixReaches
<1>6. 2 \in Version
  BY DEF Version
<1>7. held.gone \subseteq Unshared(All(new, 2))
  BY <1>2, <1>6 DEF WellHeld, Unshared
<1>8. \A row \in held.rows : \E e \in All(new, 2) : e.op = "share" /\ e.pub = row.pub /\ e.device = row.device
  BY <1>2, <1>6 DEF WellHeld
<1> QED
  BY <1>4, <1>5, <1>7, <1>8 DEF WellHeld, Follows

-----------------------------------------------------------------------------
(* The fold of a batch. *)

LEMMA NewestIs ==
    ASSUME NEW S \in SUBSET Entry, IsFiniteSet(S), S # {}
    PROVE  \E e \in S : \A o \in S : e.at >= o.at
<1> DEFINE A == {e.at : e \in S}
           f == [e \in S |-> e.at]
<1>1. A \in SUBSET Nat /\ A # {}
  BY DEF Entry
<1>2. DOMAIN f = S /\ A = {f[e] : e \in S}
  OBVIOUS
<1>3. \A e \in S : e.at \in A
  OBVIOUS
<1>4. \A a \in A : \E e \in S : a = e.at
  OBVIOUS
<1> HIDE DEF f, A
<1>5. IsFiniteSet({f[e] : e \in S})
  BY <1>2, ImageIsFinite
<1>6. Max(A) \in A /\ \A a \in A : a <= Max(A)
  BY <1>1, <1>2, <1>5, MaxIs
<1>7. PICK e \in S : Max(A) = e.at
  BY <1>4, <1>6
<1>8. \A o \in S : o.at \in Nat
  BY DEF Entry
<1> QED
  BY <1>3, <1>6, <1>7, <1>8

LEMMA ApplyIs ==
    ASSUME NEW held \in Held, NEW incoming \in SUBSET Entry, IsFiniteSet(incoming), NEW epoch \in Nat
    PROVE  LET new == ApplyEntries(held, incoming, epoch) IN
           /\ new \in Held /\ new.heads = held.heads /\ new.cursor = held.cursor /\ new.v = held.v
           /\ new.gone = held.gone \cup Unshared(incoming)
           /\ \A row \in new.rows :
                /\ row.pub \notin new.gone
                /\ row \in held.rows \/ (row.epoch = epoch /\
                      \E e \in incoming : e.op = "share" /\ e.pub = row.pub /\ e.device = row.device)
           /\ \A row \in held.rows : row.pub \notin new.gone => row \in new.rows
           /\ \A e \in incoming : e.op = "share" => e.pub \in DrawnOf(new) \cup new.gone
           /\ new.word.at >= held.word.at /\ \A e \in incoming : e.op = "status" => e.at <= new.word.at
           /\ new.word = held.word \/ new.word.epoch = epoch
<1> DEFINE gone == Withdrawn(held, incoming)
           old == {r \in held.rows : r.pub \notin gone}
           fresh == {e \in incoming : e.op = "share" /\ e.pub \notin gone \cup {r.pub : r \in old}}
           later == {e \in incoming : e.op = "status" /\ e.at > held.word.at}
           newest == CHOOSE e \in later : \A o \in later : e.at >= o.at
           rows == old \cup {[pub |-> e.pub, device |-> e.device, seq |-> e.seq, at |-> e.at, epoch |-> epoch] : e \in fresh}
           word == IF later = {} THEN held.word
                   ELSE [device |-> newest.device, seq |-> newest.seq, at |-> newest.at, epoch |-> epoch]
           new == ApplyEntries(held, incoming, epoch)
<1>1. new = [held EXCEPT !.gone = gone, !.rows = rows, !.word = word]
  BY DEF ApplyEntries
<1>2. gone = held.gone \cup Unshared(incoming) /\ gone \subseteq Pub \cup {NoPub}
  <2>1. Unshared(incoming) \subseteq Pub \cup {NoPub}
    BY DEF Unshared, Entry
  <2> QED
    BY <2>1 DEF Withdrawn, Held
<1> HIDE DEF gone
<1>3. \A e \in fresh : [pub |-> e.pub, device |-> e.device, seq |-> e.seq, at |-> e.at, epoch |-> epoch] \in Gotten
  BY DEF Gotten, Entry
<1>4. rows \subseteq Gotten
  BY <1>3 DEF Held
<1>5. later # {} => newest \in later /\ \A o \in later : newest.at >= o.at
  <2>1. later \in SUBSET Entry /\ IsFiniteSet(later)
    BY FS_Subset
  <2> HIDE DEF later
  <2> QED
    BY <2>1, NewestIs
<1>6. later \subseteq incoming /\ \A e \in later : e \in Entry /\ e.at > held.word.at
  OBVIOUS
<1>7. \A e \in incoming : e.op = "status" => e \in later \/ ~(e.at > held.word.at)
  OBVIOUS
<1>8. held.word \in Word /\ held.word.at \in Nat /\ \A e \in incoming : e.at \in Nat
  BY DEF Held, Word, Entry
<1>9. word \in Word /\ word.at >= held.word.at /\ (\A e \in incoming : e.op = "status" => e.at <= word.at)
      /\ (word = held.word \/ word.epoch = epoch)
  <2> HIDE DEF newest, later
  <2>1. CASE later = {}
    BY <1>7, <1>8, <2>1
  <2>2. CASE later # {}
    <3>1. newest \in Entry /\ newest.at > held.word.at /\ newest.at \in Nat
      BY <1>5, <1>6, <2>2 DEF Entry
    <3>2. word = [device |-> newest.device, seq |-> newest.seq, at |-> newest.at, epoch |-> epoch]
      BY <2>2
    <3>3. word.at = newest.at /\ word.epoch = epoch
      BY <3>2
    <3>4. word \in Word
      BY <3>1, <3>2 DEF Word, Entry
    <3> HIDE DEF word
    <3>5. ASSUME NEW e \in incoming, e.op = "status" PROVE e.at <= word.at
      <4>1. CASE e \in later
        BY <1>5, <1>8, <2>2, <3>1, <3>3, <4>1
      <4>2. CASE e \notin later
        BY <1>7, <1>8, <3>1, <3>3, <3>5, <4>2
      <4> QED
        BY <4>1, <4>2
    <3> QED
      BY <1>8, <3>1, <3>3, <3>4, <3>5
  <2> QED
    BY <2>1, <2>2
<1> HIDE DEF word
<1>10. \A row \in rows :
         /\ row.pub \notin gone
         /\ row \in held.rows \/ (row.epoch = epoch /\
               \E e \in incoming : e.op = "share" /\ e.pub = row.pub /\ e.device = row.device)
  <2> SUFFICES ASSUME NEW row \in rows
               PROVE  /\ row.pub \notin gone
                      /\ row \in held.rows \/ (row.epoch = epoch /\
                            \E e \in incoming : e.op = "share" /\ e.pub = row.pub /\ e.device = row.device)
    OBVIOUS
  <2>1. CASE row \in old
    BY <2>1
  <2>2. CASE row \notin old
    <3>1. PICK e \in fresh : row = [pub |-> e.pub, device |-> e.device, seq |-> e.seq, at |-> e.at, epoch |-> epoch]
      BY <2>2
    <3>2. row.pub = e.pub /\ row.device = e.device /\ row.epoch = epoch
      BY <3>1
    <3>3. e \in incoming /\ e.op = "share" /\ e.pub \notin gone
      OBVIOUS
    <3> QED
      BY <3>2, <3>3
  <2> QED
    BY <2>1, <2>2
<1>11. \A row \in held.rows : row.pub \notin gone => row \in rows
  OBVIOUS
<1>12. ASSUME NEW e \in incoming, e.op = "share", e.pub \notin gone PROVE \E row \in rows : row.pub = e.pub
  <2>1. CASE e \in fresh
    <3> DEFINE r == [pub |-> e.pub, device |-> e.device, seq |-> e.seq, at |-> e.at, epoch |-> epoch]
    <3>1. r \in rows /\ r.pub = e.pub
      BY <2>1
    <3> QED
      BY <3>1
  <2>2. CASE e \notin fresh
    <3>1. e.pub \in {r.pub : r \in old}
      BY <1>12, <2>2
    <3> QED
      BY <3>1
  <2> QED
    BY <2>1, <2>2
<1> HIDE DEF rows
<1>13. /\ new \in Held /\ new.heads = held.heads /\ new.cursor = held.cursor /\ new.v = held.v
       /\ new.gone = gone /\ new.rows = rows /\ new.word = word
  <2> HIDE DEF new
  <2> QED
    BY <1>1, <1>2, <1>4, <1>9 DEF Held
<1> HIDE DEF new
<1>14. \A e \in incoming : e.op = "share" => e.pub \in DrawnOf(new) \cup new.gone
  BY <1>12, <1>13 DEF DrawnOf
<1>15. /\ new \in Held /\ new.heads = held.heads /\ new.cursor = held.cursor /\ new.v = held.v
       /\ new.gone = held.gone \cup Unshared(incoming)
       /\ \A row \in new.rows :
            /\ row.pub \notin new.gone
            /\ row \in held.rows \/ (row.epoch = epoch /\
                  \E e \in incoming : e.op = "share" /\ e.pub = row.pub /\ e.device = row.device)
       /\ \A row \in held.rows : row.pub \notin new.gone => row \in new.rows
       /\ \A e \in incoming : e.op = "share" => e.pub \in DrawnOf(new) \cup new.gone
       /\ new.word.at >= held.word.at /\ \A e \in incoming : e.op = "status" => e.at <= new.word.at
       /\ new.word = held.word \/ new.word.epoch = epoch
  BY <1>2, <1>9, <1>10, <1>11, <1>13, <1>14
<1> QED
  BY <1>15 DEF new

\* What was read past the cursors is folded into what is held.
LEMMA FoldHolds ==
    ASSUME NEW stores, Stocked(stores), NEW start, WellHeld(stores, start), NEW held \in Held,
           held.rows = start.rows, held.gone = start.gone, held.word = start.word,
           Follows(stores, held), NEW entries, IsFiniteSet(entries), entries \subseteq All(stores, held.v),
           PassedBy(stores, held) \subseteq PassedBy(stores, start) \cup entries,
           NEW epoch \in Nat
    PROVE  WellHeld(stores, ApplyEntries(held, entries, epoch))
<1>1. PICK new : new = ApplyEntries(held, entries, epoch)
  OBVIOUS
<1>2. held.v \in Version /\ 2 \in Version
  BY DEF Held, Version
<1>3. entries \subseteq Entry /\ entries \subseteq All(stores, 2)
  BY <1>2, AllIs
<1>4. /\ new \in Held /\ new.heads = held.heads /\ new.cursor = held.cursor /\ new.v = held.v
      /\ new.gone = held.gone \cup Unshared(entries)
      /\ \A row \in new.rows :
           /\ row.pub \notin new.gone
           /\ row \in held.rows \/ (row.epoch = epoch /\
                 \E e \in entries : e.op = "share" /\ e.pub = row.pub /\ e.device = row.device)
      /\ \A row \in held.rows : row.pub \notin new.gone => row \in new.rows
      /\ \A e \in entries : e.op = "share" => e.pub \in DrawnOf(new) \cup new.gone
      /\ new.word.at >= held.word.at /\ \A e \in entries : e.op = "status" => e.at <= new.word.at
  BY <1>1, <1>3, ApplyIs
<1>5. PassedBy(stores, new) \subseteq PassedBy(stores, start) \cup entries
  BY <1>4 DEF PassedBy
<1>6. Unshared(PassedBy(stores, new)) \subseteq new.gone
  BY <1>4, <1>5 DEF WellHeld, Unshared
<1>7. new.gone \subseteq Unshared(All(stores, 2))
  BY <1>3, <1>4 DEF WellHeld, Unshared
<1>8. DrawnOf(new) \cap new.gone = {}
  BY <1>4 DEF DrawnOf
<1>9. \A row \in new.rows : \E e \in All(stores, 2) : e.op = "share" /\ e.pub = row.pub /\ e.device = row.device
  BY <1>3, <1>4 DEF WellHeld
<1>10. ASSUME NEW e \in PassedBy(stores, new), e.op = "share" PROVE e.pub \in DrawnOf(new) \cup new.gone
  <2>1. CASE e \in entries
    BY <1>4, <1>10, <2>1
  <2>2. CASE e \in PassedBy(stores, start)
    <3>1. e.pub \in DrawnOf(start) \cup start.gone
      BY <1>10, <2>2 DEF WellHeld, Shared
    <3>2. CASE e.pub \in start.gone
      BY <1>4, <3>2
    <3>3. CASE e.pub \in DrawnOf(start)
      <4>1. PICK row \in held.rows : row.pub = e.pub
        BY <3>3 DEF DrawnOf
      <4>2. row.pub \in new.gone \/ row \in new.rows
        BY <1>4
      <4> QED
        BY <4>1, <4>2 DEF DrawnOf
    <3> QED
      BY <3>1, <3>2, <3>3
  <2> QED
    BY <1>5, <2>1, <2>2
<1>11. Shared(PassedBy(stores, new)) \subseteq DrawnOf(new) \cup new.gone
  BY <1>10 DEF Shared
<1>12. ASSUME NEW e \in PassedBy(stores, new), e.op = "status" PROVE e.at <= new.word.at
  <2>1. CASE e \in entries
    BY <1>4, <1>12, <2>1
  <2>2. CASE e \in PassedBy(stores, start)
    <3>1. e.at <= start.word.at
      BY <1>12, <2>2 DEF WellHeld
    <3>2. e.at \in Nat
      <4>1. start.v \in Version
        BY DEF WellHeld, Follows, Held
      <4>2. e \in Entry
        BY <2>2, <4>1, AllIs DEF PassedBy
      <4> QED
        BY <4>2 DEF Entry
    <3>3. new.word.at \in Nat /\ held.word.at \in Nat
      BY <1>4 DEF Held, Word
    <3> QED
      BY <1>4, <3>1, <3>2, <3>3
  <2> QED
    BY <1>5, <2>1, <2>2
<1>13. WellHeld(stores, new)
  BY <1>4, <1>6, <1>7, <1>8, <1>9, <1>11, <1>12 DEF WellHeld, Follows
<1> QED
  BY <1>1, <1>13

-----------------------------------------------------------------------------
(* Pages that are taken. *)

\* The page that follows on what was read has all that comes up to its end.
LEMMA PageNext ==
    ASSUME NEW stores, Stocked(stores), NEW held, Follows(stores, held), NEW d \in Device,
           NEW chain \in Seq(Page), chain # <<>>, IsPrefix(chain, Chain(stores[d], d, held.v)),
           Front(chain) = held.heads[d]
    PROVE  /\ Last(chain).device = d /\ Last(chain).to \in Nat
           /\ Last(chain).entries \subseteq StreamOf(stores[d], d, held.v)
           /\ \A e \in StreamOf(stores[d], d, held.v) :
                 e.seq <= Last(chain).to => e.seq <= held.cursor[d] \/ e \in Last(chain).entries
<1> DEFINE C == Chain(stores[d], d, held.v)
           q == stores[d].sealed[held.v]
           n == Len(chain)
<1>1. held \in Held /\ held.v \in Version /\ held.heads[d] \in Seq(Page) /\ stores[d] \in Store /\ WellKept(stores[d], d)
  BY DEF Follows, Held, Stocked
<1>2. /\ q \in Seq(Boundary) /\ C \in Seq(Page) /\ Len(C) = Len(q) /\ Len(q) \in Nat
      /\ \A i \in 1 .. Len(q) : q[i] \in Boundary /\ C[i] = Rebuilt(stores[d], d, held.v, q[i])
  BY <1>1, ChainIs
<1> HIDE DEF C
<1>3. n \in Nat \ {0} /\ n <= Len(q) /\ \A i \in 1 .. n : chain[i] = C[i]
  <2>1. n \in Nat \ {0}
    OBVIOUS
  <2>2. Len(chain) <= Len(C) /\ \A i \in 1 .. Len(chain) : chain[i] = C[i]
    BY <1>2, PrefixIs DEF C
  <2> QED
    BY <1>2, <2>1, <2>2
<1>4. n \in 1 .. Len(q) /\ Last(chain) = Rebuilt(stores[d], d, held.v, q[n]) /\ q[n].to \in Nat /\ q[n].from \in Nat
  BY <1>2, <1>3 DEF Last, Boundary
<1>5. /\ Last(chain).device = d /\ Last(chain).to = q[n].to
      /\ Last(chain).entries = {e \in StreamOf(stores[d], d, held.v) : e.seq \in q[n].from .. q[n].to}
  BY <1>4, RebuiltIs
<1>6. Len(held.heads[d]) = n - 1
  <2>0. n - 1 \in 0 .. n
    BY <1>3
  <2>1. PICK m \in 0 .. n : m = n - 1
    BY <2>0
  <2>2. Len(SubSeq(chain, 1, m)) = m
    BY PartIsPrefix
  <2> QED
    BY <2>1, <2>2 DEF Front
<1>6a. InOrder(q) /\ Covered(StreamOf(stores[d], d, held.v), q)
  BY <1>1 DEF WellKept
<1>6b. held.heads[d] = <<>> \/ held.cursor[d] = q[Len(held.heads[d])].to
  BY CursorIs
<1> HIDE DEF q
<1>7. ASSUME NEW e \in StreamOf(stores[d], d, held.v), e.seq <= q[n].to PROVE e.seq <= held.cursor[d] \/ e.seq \in q[n].from .. q[n].to
  <2>1. PICK j \in 1 .. n : e.seq \in q[j].from .. q[j].to
    BY <1>4, <1>6a, <1>7 DEF Covered
  <2>2. CASE j = n
    BY <2>1, <2>2
  <2>3. CASE j # n
    <3>1. j <= n - 1 /\ n - 1 \in 1 .. Len(q) /\ j \in 1 .. Len(q)
      BY <1>3, <2>3
    <3>2. held.heads[d] # <<>>
      BY <1>6, <3>1
    <3>3. held.cursor[d] = q[n - 1].to
      BY <1>6, <1>6b, <3>2
    <3>4. q[j].to \in Nat /\ q[n - 1].to \in Nat /\ q[n - 1].from \in Nat /\ q[j].from \in Nat
      BY <1>2, <3>1 DEF Boundary
    <3>5. q[j].to <= q[n - 1].to
      <4>1. CASE j = n - 1
        BY <3>4, <4>1
      <4>2. CASE j # n - 1
        <5>1. j < n - 1
          BY <1>3, <3>1, <4>2
        <5>2. q[j].to < q[n - 1].from /\ q[n - 1].from <= q[n - 1].to
          BY <1>6a, <3>1, <5>1 DEF InOrder
        <5> QED
          BY <3>4, <5>2
      <4> QED
        BY <4>1, <4>2
    <3>6. e.seq \in Nat /\ e.seq <= q[j].to
      BY <2>1, <3>4
    <3> QED
      BY <3>3, <3>4, <3>5, <3>6
  <2> QED
    BY <2>2, <2>3
<1>8. Last(chain).to \in Nat /\ Last(chain).entries \subseteq StreamOf(stores[d], d, held.v)
  BY <1>4, <1>5
<1>9. ASSUME NEW e \in StreamOf(stores[d], d, held.v), e.seq <= Last(chain).to
      PROVE  e.seq <= held.cursor[d] \/ e \in Last(chain).entries
  BY <1>5, <1>7, <1>9
<1> QED
  BY <1>5, <1>8, <1>9

\* What a reading has come to.
Reads(stores, start, taken, d) ==
    /\ Follows(stores, taken.held)
    /\ taken.held.rows = start.rows /\ taken.held.gone = start.gone
    /\ taken.held.word = start.word /\ taken.held.v = start.v
    /\ taken.entries \subseteq StreamOf(stores[d], d, start.v)
    /\ PassedBy(stores, taken.held) \subseteq PassedBy(stores, start) \cup taken.entries

LEMMA TakePageReads ==
    ASSUME NEW stores, Stocked(stores), NEW start, Follows(stores, start), NEW d \in Device,
           NEW taken, Reads(stores, start, taken, d),
           NEW chain \in Seq(Page), chain # <<>>, IsPrefix(chain, Chain(stores[d], d, start.v))
    PROVE  Reads(stores, start, TakePage(taken, chain), d)
<1> DEFINE page == Last(chain)
           old == taken.held
           new == [old EXCEPT !.heads[d] = chain, !.cursor[d] = page.to]
           next == [held |-> new, entries |-> taken.entries \cup page.entries, accepted |-> taken.accepted + 1]
<1>1. /\ old \in Held /\ old.v = start.v /\ Follows(stores, old)
      /\ IsPrefix(chain, Chain(stores[d], d, old.v))
  BY DEF Reads, Follows
<1>2. page.device = d
  <2>1. PICK C \in Seq(Page) : C = Chain(stores[d], d, old.v) /\ \A i \in 1 .. Len(C) : C[i].device = d
    <3>1. stores[d] \in Store /\ old.v \in Version
      BY <1>1 DEF Stocked, Held
    <3> QED
      BY <3>1, ChainIs, RebuiltIs
  <2>2. Len(chain) <= Len(C) /\ \A i \in 1 .. Len(chain) : chain[i] = C[i]
    BY <1>1, <2>1, PrefixIs
  <2>3. Len(chain) \in 1 .. Len(chain) /\ Len(C) \in Nat
    OBVIOUS
  <2> QED
    BY <2>1, <2>2, <2>3 DEF Last
<1>3. CASE TakePage(taken, chain) = taken
  BY <1>3
<1>4. CASE TakePage(taken, chain) # taken
  <2>1. Front(chain) = old.heads[d] /\ TakePage(taken, chain) = next
    BY <1>2, <1>4 DEF TakePage
  <2>2. /\ page.to \in Nat /\ page.entries \subseteq StreamOf(stores[d], d, old.v)
        /\ \A e \in StreamOf(stores[d], d, old.v) : e.seq <= page.to => e.seq <= old.cursor[d] \/ e \in page.entries
    BY <1>1, <2>1, PageNext
  <2> HIDE DEF page
  <2>3. /\ new \in Held /\ new.heads[d] = chain /\ new.cursor[d] = page.to
        /\ \A o \in Device : o # d => new.heads[o] = old.heads[o] /\ new.cursor[o] = old.cursor[o]
        /\ new.rows = old.rows /\ new.gone = old.gone /\ new.word = old.word /\ new.v = old.v
    BY <1>1, <2>2 DEF Held
  <2>4. next.held = new /\ next.entries = taken.entries \cup page.entries
    OBVIOUS
  <2> HIDE DEF new, next
  <2>5. Follows(stores, new)
    <3>1. ASSUME NEW o \in Device
          PROVE  /\ IsPrefix(new.heads[o], Chain(stores[o], o, new.v))
                 /\ new.cursor[o] = IF new.heads[o] = <<>> THEN 0 ELSE Last(new.heads[o]).to
      <4>1. CASE o = d
        BY <1>1, <2>3, <4>1 DEF page
      <4>2. CASE o # d
        BY <1>1, <2>3, <4>2 DEF Follows
      <4> QED
        BY <4>1, <4>2
    <3> QED
      BY <2>3, <3>1 DEF Follows
  <2>6. ASSUME NEW e \in PassedBy(stores, new) PROVE e \in PassedBy(stores, old) \cup page.entries
    <3>1. e \in All(stores, old.v) /\ e.seq <= new.cursor[e.device] /\ old.v \in Version
      BY <1>1, <2>3 DEF PassedBy, Held
    <3>2. e.device \in Device /\ e \in StreamOf(stores[e.device], e.device, old.v)
      BY <3>1, AllIs
    <3>3. CASE e.device = d
      BY <2>2, <2>3, <3>1, <3>2, <3>3 DEF PassedBy
    <3>4. CASE e.device # d
      BY <2>3, <3>1, <3>2, <3>4 DEF PassedBy
    <3> QED
      BY <3>3, <3>4
  <2>7. PassedBy(stores, next.held) \subseteq PassedBy(stores, start) \cup next.entries
    BY <2>4, <2>6 DEF Reads
  <2>8. next.entries \subseteq StreamOf(stores[d], d, start.v)
    BY <1>1, <2>2, <2>4 DEF Reads
  <2>9. Reads(stores, start, next, d)
    BY <2>3, <2>4, <2>5, <2>7, <2>8 DEF Reads
  <2> QED
    BY <2>1, <2>9
<1> QED
  BY <1>3, <1>4

\* The reading of a batch, as far as it has come.
Reading(f, first, pages, n) ==
    /\ DOMAIN f = 0 .. n /\ f[0] = first
    /\ \A i \in 0 .. n - 1 : f[i + 1] = TakePage(f[i], pages[i + 1])

LEMMA ReadingExists ==
    ASSUME NEW first, NEW pages
    PROVE  \A n \in Nat : \E f : Reading(f, first, pages, n)
<1> DEFINE Without == {n \in Nat : ~\E f : Reading(f, first, pages, n)}
<1>1. SUFFICES ASSUME Without # {} PROVE FALSE
  OBVIOUS
<1>2. PICK n \in Without : \A m \in Without : n <= m
  BY <1>1, LeastOf
<1>3. n # 0
  <2>1. Reading([i \in 0 .. 0 |-> first], first, pages, 0)
    BY DEF Reading
  <2> QED
    BY <2>1, <1>2
<1>4. n \in Nat /\ n - 1 \in Nat /\ n - 1 \notin Without
  BY <1>2, <1>3
<1>5. PICK f : Reading(f, first, pages, n - 1)
  BY <1>4
<1> DEFINE last == TakePage(f[n - 1], pages[n])
           g == [i \in 0 .. n |-> IF i = n THEN last ELSE f[i]]
<1>6. Reading(g, first, pages, n)
  <2> HIDE DEF last
  <2>1. DOMAIN g = 0 .. n /\ g[0] = first
    BY <1>3, <1>4, <1>5 DEF Reading
  <2>2. ASSUME NEW i \in 0 .. n - 1 PROVE g[i + 1] = TakePage(g[i], pages[i + 1])
    <3>1. g[i] = f[i]
      BY <1>4
    <3>2. CASE i = n - 1
      <4>1. i + 1 = n /\ g[i + 1] = last
        BY <1>4, <3>2
      <4> QED
        BY <3>1, <3>2, <4>1 DEF last
    <3>3. CASE i # n - 1
      <4>1. i \in 0 .. (n - 1) - 1 /\ g[i + 1] = f[i + 1]
        BY <1>4, <3>3
      <4> HIDE DEF g
      <4> QED
        BY <1>5, <3>1, <4>1 DEF Reading
    <3> QED
      BY <3>2, <3>3
  <2> HIDE DEF g
  <2> QED
    BY <2>1, <2>2 DEF Reading
<1> QED
  BY <1>2, <1>6

LEMMA TakePagesGoesThrough ==
    ASSUME NEW held, NEW pages, Len(pages) \in Nat, NEW v, NEW epoch
    PROVE  \E upto :
             /\ upto[0] = [held |-> OnChain(held, v), entries |-> {}, accepted |-> 0]
             /\ TakePages(held, pages, v, epoch).held
                    = ApplyEntries(upto[Len(pages)].held, upto[Len(pages)].entries, epoch)
             /\ \A i \in 0 .. Len(pages) : i # 0 => upto[i] = TakePage(upto[i - 1], pages[i])
<1> DEFINE first == [held |-> OnChain(held, v), entries |-> {}, accepted |-> 0]
           Step(f) == [i \in 0 .. Len(pages) |-> IF i = 0 THEN first ELSE TakePage(f[i - 1], pages[i])]
           upto == CHOOSE f : f = Step(f)
<1>0. Len(pages) \in Nat /\ 0 \in 0 .. Len(pages)
  OBVIOUS
<1>1. \E f : f = Step(f)
  <2> HIDE DEF first
  <2>1. PICK f : Reading(f, first, pages, Len(pages))
    BY <1>0, ReadingExists
  <2> DEFINE g == [i \in 0 .. Len(pages) |-> f[i]]
  <2>2. \A i \in 0 .. Len(pages) : i # 0 => i - 1 \in 0 .. Len(pages) - 1 /\ (i - 1) + 1 = i
    BY <1>0
  <2>3. g = Step(g)
    <3>1. ASSUME NEW i \in 0 .. Len(pages)
          PROVE g[i] = IF i = 0 THEN first ELSE TakePage(g[i - 1], pages[i])
      <4>1. CASE i = 0
        BY <2>1, <4>1 DEF Reading
      <4>2. CASE i # 0
        <5>1. g[i - 1] = f[i - 1] /\ g[i] = f[i]
          BY <1>0, <4>2
        <5>2. f[(i - 1) + 1] = TakePage(f[i - 1], pages[(i - 1) + 1])
          BY <2>1, <2>2, <4>2 DEF Reading
        <5> HIDE DEF g
        <5> QED
          BY <2>2, <4>2, <5>1, <5>2
      <4> QED
        BY <4>1, <4>2
    <3>2. g = [i \in 0 .. Len(pages) |-> g[i]]
      OBVIOUS
    <3> HIDE DEF g
    <3> QED
      BY <3>1, <3>2
  <2> HIDE DEF g, Step
  <2> QED
    BY <2>3
<1>2. upto = Step(upto)
  <2> HIDE DEF Step
  <2> QED
    BY <1>1
<1>3. TakePages(held, pages, v, epoch).held
        = ApplyEntries(upto[Len(pages)].held, upto[Len(pages)].entries, epoch)
  BY DEF TakePages
<1> HIDE DEF upto, first
<1>4. upto[0] = first
  BY <1>0, <1>2
<1>5. \A i \in 0 .. Len(pages) : i # 0 => upto[i] = TakePage(upto[i - 1], pages[i])
  BY <1>2
<1>6. /\ upto[0] = first
      /\ TakePages(held, pages, v, epoch).held
            = ApplyEntries(upto[Len(pages)].held, upto[Len(pages)].entries, epoch)
      /\ \A i \in 0 .. Len(pages) : i # 0 => upto[i] = TakePage(upto[i - 1], pages[i])
  BY <1>3, <1>4, <1>5
<1> QED
  BY <1>6 DEF first

LEMMA NothingHolds == ASSUME NEW stores, Stocked(stores) PROVE WellHeld(stores, NothingShared)
<1> DEFINE h == NothingShared
<1>1. /\ h.rows = {} /\ h.gone = {} /\ h.word = NoWord /\ h.v = 1
      /\ h.heads = [d \in Device |-> <<>>] /\ h.cursor = [d \in Device |-> 0]
  BY DEF NothingShared
<1>2. h \in Held
  <2>1. NoWord \in Word
    BY DEF NoWord, Word
  <2>2. [d \in Device |-> <<>>] \in [Device -> Seq(Page)] /\ [d \in Device |-> 0] \in [Device -> Nat] /\ 1 \in Version
    BY DEF Version
  <2> QED
    BY <2>1, <2>2 DEF NothingShared, Held
<1> HIDE DEF h
<1>3. 1 \in Version
  BY DEF Version
<1>4. \A d \in Device : IsPrefix(h.heads[d], Chain(stores[d], d, h.v))
  BY <1>1, <1>3, ChainIs, EmptyIsPrefix DEF Stocked
<1>5. Follows(stores, h)
  BY <1>1, <1>2, <1>4 DEF Follows
<1>6. PassedBy(stores, h) = {}
  <2>1. \A e \in All(stores, 1) : ~(e.seq <= h.cursor[e.device])
    BY <1>1, <1>3, AllIs
  <2> QED
    BY <1>1, <2>1 DEF PassedBy
<1>7. Unshared({}) = {} /\ Shared({}) = {} /\ DrawnOf(h) = {}
  BY <1>1 DEF Unshared, Shared, DrawnOf
<1>8. WellHeld(stores, h)
  BY <1>1, <1>5, <1>6, <1>7 DEF WellHeld
<1> QED
  BY <1>8 DEF h

LEMMA OnChainHolds ==
    ASSUME NEW stores, Stocked(stores), NEW held, WellHeld(stores, held), NEW v \in Version
    PROVE  /\ WellHeld(stores, OnChain(held, v)) /\ OnChain(held, v).v = v
           /\ OnChain(held, v).rows = held.rows /\ OnChain(held, v).word = held.word
<1>1. CASE held.v = v
  BY <1>1 DEF OnChain
<1>2. CASE held.v # v
  <2> DEFINE h == OnChain(held, v)
  <2>1. held \in Held
    BY DEF WellHeld, Follows
  <2>2. NothingShared.heads = [d \in Device |-> <<>>] /\ NothingShared.cursor = [d \in Device |-> 0]
    BY DEF NothingShared
  <2>3. [d \in Device |-> <<>>] \in [Device -> Seq(Page)] /\ [d \in Device |-> 0] \in [Device -> Nat]
    OBVIOUS
  <2>4. /\ h \in Held /\ h.rows = held.rows /\ h.gone = held.gone /\ h.word = held.word /\ h.v = v
        /\ h.heads = [d \in Device |-> <<>>] /\ h.cursor = [d \in Device |-> 0]
    <3>1. h = [held EXCEPT !.heads = [d \in Device |-> <<>>], !.cursor = [d \in Device |-> 0], !.v = v]
      BY <1>2, <2>2 DEF OnChain
    <3> HIDE DEF h
    <3> QED
      BY <2>1, <2>3, <3>1 DEF Held
  <2> HIDE DEF h
  <2>5. \A d \in Device : IsPrefix(h.heads[d], Chain(stores[d], d, h.v))
    BY <2>4, ChainIs, EmptyIsPrefix DEF Stocked
  <2>6. Follows(stores, h)
    BY <2>4, <2>5 DEF Follows
  <2>7. PassedBy(stores, h) = {}
    <3>1. \A e \in All(stores, v) : ~(e.seq <= h.cursor[e.device])
      BY <2>4, AllIs
    <3> QED
      BY <2>4, <3>1 DEF PassedBy
  <2>8. Unshared({}) = {} /\ Shared({}) = {} /\ DrawnOf(h) = DrawnOf(held)
    BY <2>4 DEF Unshared, Shared, DrawnOf
  <2>9. WellHeld(stores, h)
    BY <2>4, <2>6, <2>7, <2>8 DEF WellHeld
  <2> QED
    BY <2>4, <2>9 DEF h
<1> QED
  BY <1>1, <1>2

LEMMA WithoutHolds ==
    ASSUME NEW stores, Stocked(stores), NEW held, WellHeld(stores, held), NEW d \in Device
    PROVE  /\ WellHeld(stores, WithoutStream(held, d))
           /\ WithoutStream(held, d).rows \subseteq held.rows
           /\ WithoutStream(held, d).word \in {NoWord, held.word}
<1>1. CASE \A o \in Device \ {d} : held.cursor[o] = 0
  <2>1. WithoutStream(held, d) = NothingShared /\ NothingShared.rows = {} /\ NothingShared.word = NoWord
    BY <1>1 DEF WithoutStream, NothingShared
  <2> QED
    BY <2>1, NothingHolds
<1>2. CASE ~\A o \in Device \ {d} : held.cursor[o] = 0
  <2> DEFINE h == WithoutStream(held, d)
             kept == {r \in held.rows : r.device # d}
  <2>1. held \in Held
    BY DEF WellHeld, Follows
  <2>2. h = [held EXCEPT !.heads[d] = <<>>, !.cursor[d] = 0, !.rows = kept]
    BY <1>2 DEF WithoutStream
  <2>3. /\ h \in Held /\ h.rows = kept /\ h.gone = held.gone /\ h.word = held.word /\ h.v = held.v
        /\ h.heads[d] = <<>> /\ h.cursor[d] = 0
        /\ \A o \in Device : o # d => h.heads[o] = held.heads[o] /\ h.cursor[o] = held.cursor[o]
    <3>1. <<>> \in Seq(Page) /\ kept \subseteq held.rows
      OBVIOUS
    <3> HIDE DEF h, kept
    <3> QED
      BY <2>1, <2>2, <3>1 DEF Held
  <2> HIDE DEF h
  <2>4. held.v \in Version
    BY <2>1 DEF Held
  <2>5. ASSUME NEW o \in Device
        PROVE  /\ IsPrefix(h.heads[o], Chain(stores[o], o, h.v))
               /\ h.cursor[o] = IF h.heads[o] = <<>> THEN 0 ELSE Last(h.heads[o]).to
    <3>1. CASE o = d
      BY <2>3, <2>4, <3>1, ChainIs, EmptyIsPrefix DEF Stocked
    <3>2. CASE o # d
      BY <2>3, <3>2 DEF WellHeld, Follows
    <3> QED
      BY <3>1, <3>2
  <2>6. Follows(stores, h)
    BY <2>3, <2>5 DEF Follows
  <2>7. ASSUME NEW e \in PassedBy(stores, h) PROVE e \in PassedBy(stores, held) /\ e.device # d
    <3>1. e \in All(stores, held.v) /\ e.seq <= h.cursor[e.device]
      BY <2>3 DEF PassedBy
    <3>2. e.device \in Device /\ e.seq \in Nat /\ e.seq >= 1
      BY <2>4, <3>1, AllIs
    <3>3. e.device # d
      BY <2>3, <3>1, <3>2
    <3> QED
      BY <2>3, <3>1, <3>2, <3>3 DEF PassedBy
  <2>8. Unshared(PassedBy(stores, h)) \subseteq h.gone
    BY <2>3, <2>7 DEF WellHeld, Unshared
  <2>9. DrawnOf(h) \cap h.gone = {}
    BY <2>3 DEF WellHeld, DrawnOf
  <2>10. \A row \in h.rows : \E e \in All(stores, 2) : e.op = "share" /\ e.pub = row.pub /\ e.device = row.device
    BY <2>3 DEF WellHeld
  <2>11. ASSUME NEW e \in PassedBy(stores, h), e.op = "share" PROVE e.pub \in DrawnOf(h) \cup h.gone
    <3>1. e \in PassedBy(stores, held) /\ e.device # d
      BY <2>7
    <3>2. e.pub \in DrawnOf(held) \cup held.gone
      BY <2>11, <3>1 DEF WellHeld, Shared
    <3>3. CASE e.pub \in held.gone
      BY <2>3, <3>3
    <3>4. CASE e.pub \in DrawnOf(held)
      <4>1. PICK row \in held.rows : row.pub = e.pub
        BY <3>4 DEF DrawnOf
      <4>2. PICK x \in All(stores, 2) : x.op = "share" /\ x.pub = row.pub /\ x.device = row.device
        BY DEF WellHeld
      <4>3. x.device \in Device /\ x \in LogOf(stores[x.device])
        BY AllIs DEF Version
      <4>4. e.device \in Device /\ e \in LogOf(stores[e.device])
        BY <2>4, <3>1, AllIs DEF PassedBy
      <4>5. x = e
        BY <2>11, <4>1, <4>2, <4>3, <4>4 DEF Stocked, Owned
      <4> QED
        BY <2>3, <3>1, <4>1, <4>2, <4>5 DEF DrawnOf
    <3> QED
      BY <3>2, <3>3, <3>4
  <2>12. Shared(PassedBy(stores, h)) \subseteq DrawnOf(h) \cup h.gone
    BY <2>11 DEF Shared
  <2>13. h.gone \subseteq Unshared(All(stores, 2)) /\ \A e \in PassedBy(stores, h) : e.op = "status" => e.at <= h.word.at
    BY <2>3, <2>7 DEF WellHeld
  <2>14. WellHeld(stores, h)
    BY <2>6, <2>8, <2>9, <2>10, <2>12, <2>13 DEF WellHeld
  <2> QED
    BY <2>3, <2>14 DEF h
<1> QED
  BY <1>1, <1>2

LEMMA TakePagesHolds ==
    ASSUME NEW stores, Stocked(stores), NEW held, WellHeld(stores, held), NEW d \in Device, NEW v \in Version,
           NEW pages \in Seq(Seq(Page)),
           \A i \in 1 .. Len(pages) : pages[i] # <<>> /\ IsPrefix(pages[i], Chain(stores[d], d, v)),
           NEW epoch \in Nat
    PROVE  LET new == TakePages(held, pages, v, epoch).held IN
           /\ WellHeld(stores, new)
           /\ \A row \in new.rows : row \in held.rows \/ row.epoch = epoch
           /\ new.word = held.word \/ new.word.epoch = epoch
<1> DEFINE start == OnChain(held, v)
           n == Len(pages)
<1>1. n \in Nat /\ \A i \in 1 .. n : pages[i] \in Seq(Page)
  OBVIOUS
<1>2. WellHeld(stores, start) /\ start.v = v /\ start.rows = held.rows /\ start.word = held.word
  BY OnChainHolds
<1>3. PICK upto :
        /\ upto[0] = [held |-> start, entries |-> {}, accepted |-> 0]
        /\ TakePages(held, pages, v, epoch).held = ApplyEntries(upto[n].held, upto[n].entries, epoch)
        /\ \A i \in 0 .. n : i # 0 => upto[i] = TakePage(upto[i - 1], pages[i])
  <2>1. Len(pages) \in Nat
    OBVIOUS
  <2> QED
    BY <2>1, TakePagesGoesThrough
<1> HIDE DEF start, n
<1> DEFINE Bad == {i \in 0 .. n : ~Reads(stores, start, upto[i], d)}
<1>4. Reads(stores, start, upto[0], d)
  <2>1. upto[0].held = start /\ upto[0].entries = {}
    BY <1>3
  <2> QED
    BY <1>2, <2>1 DEF Reads, WellHeld
<1>5. ASSUME Bad # {} PROVE FALSE
  <2>1. Bad \in SUBSET Nat
    BY <1>1
  <2>2. PICK i \in Bad : \A m \in Bad : i <= m
    <3> HIDE DEF Bad
    <3> QED
      BY <1>5, <2>1, LeastOf
  <2>3. i # 0 /\ i \in 0 .. n /\ i \in 1 .. n /\ i - 1 \in 0 .. n
    BY <1>1, <1>4, <2>2
  <2>4. i - 1 \notin Bad
    BY <2>2, <2>3
  <2>5. PICK t : t = upto[i - 1] /\ Reads(stores, start, t, d)
    BY <2>3, <2>4
  <2>6. PICK chain \in Seq(Page) : chain = pages[i] /\ chain # <<>> /\ IsPrefix(chain, Chain(stores[d], d, start.v))
    BY <1>1, <1>2, <2>3 DEF n
  <2>7. Follows(stores, start)
    BY <1>2 DEF WellHeld
  <2>8. Reads(stores, start, TakePage(t, chain), d)
    BY <2>5, <2>6, <2>7, TakePageReads
  <2>9. upto[i] = TakePage(t, chain)
    BY <1>3, <2>3, <2>5, <2>6
  <2> QED
    BY <2>2, <2>8, <2>9
<1>6. PICK t : t = upto[n] /\ Reads(stores, start, t, d)
  <2>1. n \in 0 .. n
    BY <1>1
  <2> QED
    BY <1>5, <2>1
<1>7. PICK h, entries : h = t.held /\ entries = t.entries
  OBVIOUS
<1>8. /\ h \in Held /\ Follows(stores, h) /\ h.v = v
      /\ h.rows = start.rows /\ h.gone = start.gone /\ h.word = start.word
      /\ entries \subseteq StreamOf(stores[d], d, v)
      /\ PassedBy(stores, h) \subseteq PassedBy(stores, start) \cup entries
  BY <1>2, <1>6, <1>7 DEF Reads, Follows
<1>9. IsFiniteSet(entries) /\ entries \subseteq All(stores, h.v) /\ entries \in SUBSET Entry
  <2>1. stores[d] \in Store /\ WellKept(stores[d], d)
    BY DEF Stocked
  <2>2. entries \subseteq LogOf(stores[d]) /\ entries \in SUBSET Entry
    BY <1>8, <2>1, StreamIs
  <2>3. IsFiniteSet(entries)
    BY <2>1, <2>2, FS_Subset DEF WellKept
  <2>4. entries \subseteq All(stores, h.v)
    BY <1>8 DEF All
  <2> QED
    BY <2>2, <2>3, <2>4
<1>10. PICK new : new = TakePages(held, pages, v, epoch).held /\ new = ApplyEntries(h, entries, epoch)
  BY <1>3, <1>6, <1>7
<1>11. WellHeld(stores, new)
  BY <1>2, <1>8, <1>9, <1>10, FoldHolds
<1>12. /\ \A row \in new.rows : row \in h.rows \/ row.epoch = epoch
       /\ new.word = h.word \/ new.word.epoch = epoch
  <2>1. h \in Held /\ entries \in SUBSET Entry /\ IsFiniteSet(entries)
    BY <1>8, <1>9
  <2>2. /\ \A row \in ApplyEntries(h, entries, epoch).rows : row \in h.rows \/ row.epoch = epoch
        /\ ApplyEntries(h, entries, epoch).word = h.word \/ ApplyEntries(h, entries, epoch).word.epoch = epoch
    BY <2>1, ApplyIs
  <2> QED
    BY <1>10, <2>2
<1> QED
  BY <1>2, <1>8, <1>10, <1>11, <1>12

-----------------------------------------------------------------------------
(* A round. *)

RoundType ==
    [pc : {"idle", "dial", "asked", "judged", "answered", "keep", "lane", "writing"},
     todo : SUBSET Device, at : Device \cup {NoPub}, v : Version, epoch : Nat, held : Held,
     asked : Nat, probing : BOOLEAN, shown : BOOLEAN, frame : Nat,
     answer : [pages : Seq(Seq(Page)), more : BOOLEAN]]

Answered(stores, r) ==
    \A i \in 1 .. Len(r.answer.pages) :
        /\ r.answer.pages[i] # <<>>
        /\ IsPrefix(r.answer.pages[i], Chain(stores[r.at], r.at, r.v))

RoundHolds(stores, r) ==
    /\ r \in RoundType
    /\ r.pc = "dial" => r.todo # {}
    /\ r.pc \notin {"idle", "dial"} => r.at \in Device
    /\ WellHeld(stores, r.held)
    /\ r.pc = "answered" => Answered(stores, r)

Relationship == [state : {"admitted", "exited"}, epoch : Nat]

FetchInv ==
    /\ Publisher /\ rel \in Relationship /\ cast \in Cast /\ serves \in [Device -> BOOLEAN]
    /\ WellHeld(shared, file)
    /\ RoundHolds(shared, round)

LEMMA RoundStays ==
    ASSUME NEW old, NEW new, Stocked(old), Stocked(new), GrownAll(old, new), NEW r, RoundHolds(old, r)
    PROVE  RoundHolds(new, r)
<1>1. WellHeld(new, r.held)
  BY HeldStays DEF RoundHolds
<1>2. ASSUME r.pc = "answered" PROVE Answered(new, r)
  <2>1. r.at \in Device /\ r.v \in Version /\ r.answer.pages \in Seq(Seq(Page)) /\ Answered(old, r)
    BY <1>2 DEF RoundHolds, RoundType
  <2>2. PICK d \in Device, v \in Version, pages \in Seq(Seq(Page)) : d = r.at /\ v = r.v /\ pages = r.answer.pages
    BY <2>1
  <2>3. Chain(old[d], d, v) \in Seq(Page) /\ Chain(new[d], d, v) \in Seq(Page)
    BY ChainIs DEF Stocked
  <2>4. IsPrefix(Chain(old[d], d, v), Chain(new[d], d, v))
    BY DEF GrownAll, Grown
  <2>5. ASSUME NEW i \in 1 .. Len(pages) PROVE pages[i] # <<>> /\ IsPrefix(pages[i], Chain(new[d], d, v))
    <3>1. pages[i] # <<>> /\ IsPrefix(pages[i], Chain(old[d], d, v))
      BY <2>1, <2>2 DEF Answered
    <3>2. PICK c \in Seq(Page) : c = pages[i]
      OBVIOUS
    <3>3. IsPrefix(c, Chain(new[d], d, v))
      BY <2>3, <2>4, <3>1, <3>2, PrefixReaches
    <3> QED
      BY <3>1, <3>2, <3>3
  <2> QED
    BY <2>2, <2>5 DEF Answered
<1> QED
  BY <1>1, <1>2 DEF RoundHolds

\* What is between two rounds, and between two devices.
LEMMA RestHolds ==
    ASSUME NEW stores, Stocked(stores)
    PROVE  /\ RoundHolds(stores, Resting) /\ Resting \in RoundType
           /\ Resting.pc = "idle" /\ Resting.held = NothingShared /\ Resting.epoch = 0
<1>1. WellHeld(stores, NothingShared) /\ NothingShared \in Held
  BY NothingHolds DEF WellHeld, Follows
<1>2. PICK h : h = NothingShared
  OBVIOUS
<1>3. Resting = [pc |-> "idle", todo |-> {}, at |-> NoPub, v |-> 1, epoch |-> 0, held |-> h,
                 asked |-> 0, probing |-> FALSE, shown |-> FALSE, frame |-> 0,
                 answer |-> [pages |-> <<>>, more |-> FALSE]]
  BY <1>2 DEF Resting
<1>4. h \in Held /\ 1 \in Version /\ [pages |-> <<>>, more |-> FALSE] \in [pages : Seq(Seq(Page)), more : BOOLEAN]
  BY <1>1, <1>2 DEF Version
<1>5. Resting \in RoundType /\ Resting.pc = "idle" /\ Resting.held = h /\ Resting.epoch = 0
  BY <1>3, <1>4 DEF RoundType
<1>6. RoundHolds(stores, Resting)
  BY <1>1, <1>2, <1>5 DEF RoundHolds
<1> QED
  BY <1>2, <1>5, <1>6

Dials(todo, epoch) == [Resting EXCEPT !.pc = "dial", !.todo = todo, !.epoch = epoch]

LEMMA DialHolds ==
    ASSUME NEW stores, Stocked(stores), NEW todo \in SUBSET Device, todo # {}, NEW epoch \in Nat
    PROVE  /\ RoundHolds(stores, Dials(todo, epoch)) /\ Dials(todo, epoch).pc = "dial"
           /\ Dials(todo, epoch).held = NothingShared /\ Dials(todo, epoch).epoch = epoch
<1> DEFINE r == Dials(todo, epoch)
<1>1. Resting \in RoundType /\ Resting.held = NothingShared
  BY RestHolds
<1>2. r \in RoundType /\ r.pc = "dial" /\ r.todo = todo /\ r.held = NothingShared /\ r.epoch = epoch
  BY <1>1 DEF RoundType, Dials
<1> HIDE DEF r
<1>3. RoundHolds(stores, r)
  BY <1>2, NothingHolds DEF RoundHolds
<1> QED
  BY <1>2, <1>3 DEF r

LEMMA SpendsKeeps == ASSUME cast \in Cast, NEW e \in Event, Spends(e) PROVE cast' \in Cast /\ cast'.hasty = cast.hasty /\ cast'.log = cast.log
<1>1. cast.times \in [Event -> Nat] /\ cast.times[e] \in Nat /\ cast.times[e] > 0
  BY DEF Cast, Spends, Left
<1>2. PICK n \in Nat : n = cast.times[e] - 1
  BY <1>1
<1>3. cast' = [cast EXCEPT !.times[e] = n]
  BY <1>2 DEF Spends
<1> QED
  BY <1>1, <1>3 DEF Cast

\* What is left of a round to its next device.
LEMMA NextHolds ==
    ASSUME FetchInv, NEW r, r = AtRest(round.todo) \/ r = Resting
           \/ (round.pc = "dial" /\ r = AtRest(round.todo \ {Candidate}))
    PROVE  /\ RoundHolds(shared, r) /\ r.pc \in {"idle", "dial"} /\ r.held = NothingShared
           /\ r.epoch \in {0, round.epoch}
<1>1. Stocked(shared) /\ round \in RoundType
  BY DEF FetchInv, Publisher, RoundHolds
<1>2. round.todo \in SUBSET Device /\ round.epoch \in Nat
  BY <1>1 DEF RoundType
<1>3. PICK todo \in SUBSET Device : r = Resting \/ r = AtRest(todo)
  BY <1>2
<1>4. CASE r = Resting \/ todo = {}
  <2>1. r = Resting
    BY <1>3, <1>4 DEF AtRest
  <2> QED
    BY <1>1, <2>1, RestHolds
<1>5. CASE r # Resting /\ todo # {}
  <2>1. r = [Resting EXCEPT !.pc = "dial", !.todo = todo, !.epoch = round.epoch]
    BY <1>3, <1>5 DEF AtRest
  <2>3. PICK epoch \in Nat : epoch = round.epoch
    BY <1>2
  <2>4. r = Dials(todo, epoch)
    BY <2>1, <2>3 DEF Dials
  <2>5. RoundHolds(shared, r) /\ r.pc = "dial" /\ r.held = NothingShared /\ r.epoch = epoch
    BY <1>1, <1>5, <2>4, DialHolds
  <2> QED
    BY <2>3, <2>5
<1> QED
  BY <1>4, <1>5

\* The pages of an answer are what leads to each of them.
LEMMA PagesOverIs ==
    ASSUME NEW chain \in Seq(Page), NEW since
    PROVE  /\ PagesOver(chain, since) \in [pages : Seq(Seq(Page)), more : BOOLEAN]
           /\ \A i \in 1 .. Len(PagesOver(chain, since).pages) :
                 /\ PagesOver(chain, since).pages[i] # <<>>
                 /\ IsPrefix(PagesOver(chain, since).pages[i], chain)
<1> DEFINE I == {i \in DOMAIN chain : chain[i].to <= since}
           before == Cardinality(I)
           n == Len(chain)
           last == Min({before + MaxPages, n})
           k == last - before
           pages == [i \in 1 .. k |-> SubSeq(chain, 1, before + i)]
<1>1. n \in Nat /\ DOMAIN chain = 1 .. n
  OBVIOUS
<1>2. IsFiniteSet(1 .. n) /\ Cardinality(1 .. n) = n
  <2>1. n \in Int /\ 1 \in Int /\ (1 > n => n = 0) /\ n - 1 + 1 = n
    BY <1>1
  <2> HIDE DEF n
  <2> QED
    BY <2>1, FS_Interval
<1>3. before \in Nat /\ before <= n
  <2>1. I \in SUBSET (1 .. n)
    BY <1>1
  <2> HIDE DEF I
  <2> QED
    BY <1>2, <2>1, FS_Subset, FS_CardinalityType
<1> HIDE DEF before
<1>4. last \in Nat /\ last <= n
  <2> DEFINE S == {before + MaxPages, n}
  <2>1. S \in SUBSET Nat /\ S # {} /\ n \in S
    BY <1>1, <1>3, PublisherAssumption
  <2> HIDE DEF S
  <2>2. Min(S) \in S /\ \A m \in S : Min(S) <= m
    BY <2>1, MinIs
  <2>3. last = Min(S)
    BY DEF S
  <2> QED
    BY <2>1, <2>2, <2>3
<1>5. PagesOver(chain, since) = [pages |-> pages, more |-> last < n]
  BY DEF PagesOver, before
<1> HIDE DEF last
<1>6. k \in Int /\ \A i \in 1 .. k : before + i \in 1 .. n
  BY <1>1, <1>3, <1>4
<1>7. ASSUME NEW i \in 1 .. k
      PROVE  SubSeq(chain, 1, before + i) \in Seq(Page) /\ SubSeq(chain, 1, before + i) # <<>>
             /\ IsPrefix(SubSeq(chain, 1, before + i), chain)
  <2>1. PICK m \in 0 .. n : m = before + i /\ m # 0
    BY <1>6
  <2>2. SubSeq(chain, 1, m) \in Seq(Page) /\ Len(SubSeq(chain, 1, m)) = m /\ IsPrefix(SubSeq(chain, 1, m), chain)
    BY <2>1, PartIsPrefix
  <2>3. Len(<<>>) = 0
    OBVIOUS
  <2> QED
    BY <2>1, <2>2, <2>3
<1>8. pages \in Seq(Seq(Page)) /\ (\A i \in 1 .. Len(pages) : i \in 1 .. k /\ pages[i] = SubSeq(chain, 1, before + i))
  <2>1. CASE k \in Nat
    <3>1. pages \in [1 .. k -> Seq(Page)]
      BY <1>7
    <3>2. pages \in Seq(Seq(Page)) /\ Len(pages) = k
      <4> HIDE DEF pages, k
      <4> QED
        BY <2>1, <3>1
    <3> QED
      BY <3>2
  <2>2. CASE k \notin Nat
    <3>1. 1 .. k = {}
      BY <1>6, <2>2
    <3>2. pages = <<>>
      BY <3>1
    <3>3. <<>> \in Seq(Seq(Page)) /\ Len(<<>>) = 0
      OBVIOUS
    <3> HIDE DEF pages
    <3> QED
      BY <3>2, <3>3
  <2> QED
    BY <2>1, <2>2
<1> HIDE DEF pages, k
<1>9. \A i \in 1 .. Len(pages) : pages[i] # <<>> /\ IsPrefix(pages[i], chain)
  BY <1>7, <1>8
<1> QED
  BY <1>5, <1>8, <1>9

-----------------------------------------------------------------------------
(* The steps of a round. *)

LEMMA RoundGoesOn ==
    ASSUME FetchInv, UNCHANGED <<publisherVars, serves>>, rel' \in Relationship, cast' \in Cast,
           WellHeld(shared, file'), RoundHolds(shared, round')
    PROVE  FetchInv'
<1>1. shared' = shared /\ frame' = frame /\ speaks' = speaks /\ serves' = serves
  BY DEF publisherVars
<1>2. Publisher'
  BY <1>1 DEF FetchInv, Publisher
<1> QED
  BY <1>1, <1>2 DEF FetchInv

\* What a step may do to the fields of a round that are not looked at.
LEMMA RoundIs ==
    ASSUME FetchInv
    PROVE  /\ round \in RoundType /\ round.at \in Device \cup {NoPub} /\ round.v \in Version /\ round.epoch \in Nat
           /\ round.held \in Held /\ round.frame \in Nat /\ WellHeld(shared, round.held)
           /\ round.todo \in SUBSET Device /\ round.asked \in Nat /\ Stocked(shared)
           /\ rel \in Relationship /\ cast \in Cast /\ WellHeld(shared, file)
           /\ round.pc \notin {"idle", "dial"} => round.at \in Device
BY DEF FetchInv, RoundHolds, RoundType, Publisher

LEMMA BeginRoundKeeps == ASSUME FetchInv, BeginRound PROVE FetchInv' /\ round'.held = NothingShared /\ round'.epoch = rel.epoch /\ round'.pc = "dial"
<1>1. cast.devices \in SUBSET Device /\ cast.devices # {} /\ rel.epoch \in Nat
  BY RoundIs DEF Cast, Relationship
<1>2. PICK todo \in SUBSET Device, epoch \in Nat : todo # {} /\ todo = cast.devices /\ epoch = rel.epoch
  BY <1>1
<1>3. round' = Dials(todo, epoch)
  BY <1>2 DEF BeginRound, Dials
<1>4. UNCHANGED <<publisherVars, serves>> /\ rel' = rel /\ cast' = cast /\ file' = file
  BY DEF BeginRound, readerVars
<1>5. RoundHolds(shared, round') /\ round'.held = NothingShared /\ round'.epoch = epoch /\ round'.pc = "dial"
  BY <1>2, <1>3, RoundIs, DialHolds
<1>6. FetchInv'
  BY <1>4, <1>5, RoundIs, RoundGoesOn
<1> QED
  BY <1>2, <1>5, <1>6

LEMMA DialKeeps ==
    ASSUME FetchInv, Dial
    PROVE  FetchInv' /\ round'.held \in {file, NothingShared} /\ round'.epoch = round.epoch /\ round'.pc = "asked"
<1>1. round.pc = "dial" /\ round.todo # {} /\ round \in RoundType /\ Stocked(shared) /\ WellHeld(shared, file)
  BY DEF Dial, FetchInv, RoundHolds, Publisher
<1>2. Candidate \in round.todo /\ Candidate \in Device
  BY <1>1 DEF Candidate, RoundType
<1>3. speaks[Candidate] \in Version
  BY <1>2 DEF FetchInv, Publisher
<1>4. PICK held : held = (IF place = "shelf" THEN file ELSE NothingShared)
  OBVIOUS
<1>5. WellHeld(shared, held) /\ held \in {file, NothingShared} /\ held \in Held
  BY <1>1, <1>4, NothingHolds DEF WellHeld, Follows
<1>6. PICK d \in Device, v \in Version : d = Candidate /\ v = speaks[Candidate]
  BY <1>2, <1>3
<1>7. round' = [round EXCEPT !.pc = "asked", !.todo = @ \ {d}, !.at = d, !.v = v, !.held = held, !.asked = 1]
  BY <1>4, <1>6 DEF Dial
<1>8. round' \in RoundType /\ round'.pc = "asked" /\ round'.at \in Device /\ round'.held = held /\ round'.epoch = round.epoch
  BY <1>1, <1>5, <1>7 DEF RoundType
<1>9. RoundHolds(shared, round')
  BY <1>5, <1>8 DEF RoundHolds
<1>10. UNCHANGED <<publisherVars, serves>> /\ rel' = rel /\ cast' = cast /\ file' = file
  BY DEF Dial, readerVars
<1>11. FetchInv'
  BY <1>9, <1>10, RoundIs, RoundGoesOn
<1> QED
  BY <1>5, <1>8, <1>11

LEMMA JudgesKeeps ==
    ASSUME FetchInv, Judges
    PROVE  FetchInv' /\ round'.held = round.held /\ round'.epoch = round.epoch /\ round'.pc = "judged"
<1>1. round.pc = "asked" /\ round \in RoundType /\ round.at \in Device
  BY RoundIs DEF Judges
<1>2. PICK now \in Nat, shown \in BOOLEAN : now = frame[round.at] /\ shown = serves[round.at]
  BY <1>1 DEF FetchInv, Publisher
<1>3. round' = [round EXCEPT !.pc = "judged", !.shown = shown, !.frame = now]
  BY <1>2 DEF Judges
<1>4. round' \in RoundType /\ round'.pc = "judged" /\ round'.at = round.at /\ round'.held = round.held /\ round'.epoch = round.epoch
  BY <1>1, <1>3 DEF RoundType
<1>5. RoundHolds(shared, round')
  BY <1>1, <1>4, RoundIs DEF RoundHolds
<1>6. UNCHANGED <<publisherVars, serves>> /\ rel' = rel /\ cast' = cast /\ file' = file
  BY DEF Judges, readerVars
<1>7. FetchInv'
  BY <1>5, <1>6, RoundIs, RoundGoesOn
<1> QED
  BY <1>4, <1>7

LEMMA StoresGoOn ==
    ASSUME FetchInv, Publisher', Grows, file' = file, rel' = rel, serves' \in [Device -> BOOLEAN], cast' \in Cast,
           RoundHolds(shared', round')
    PROVE  FetchInv'
<1>1. Stocked(shared) /\ Stocked(shared') /\ GrownAll(shared, shared')
  BY DEF FetchInv, Publisher, Grows
<1>2. WellHeld(shared', file)
  BY <1>1, HeldStays DEF FetchInv
<1> QED
  BY <1>2 DEF FetchInv

LEMMA AnswersKeeps ==
    ASSUME FetchInv, Answers
    PROVE  FetchInv' /\ round'.held = round.held /\ round'.epoch = round.epoch /\ round'.pc = "answered"
<1>1. round.pc = "judged" /\ round \in RoundType /\ round.at \in Device /\ Stocked(shared) /\ RoundHolds(shared, round)
  BY RoundIs DEF Answers, FetchInv
<1>2. PICK d \in Device, v \in Version, now \in Nat : d = round.at /\ v = round.v /\ now = round.frame
  BY <1>1, RoundIs
<1>3. frame' = frame /\ speaks' = speaks /\ file' = file /\ rel' = rel /\ serves' = serves /\ cast' = cast
  BY DEF Answers, readerVars
<1>4. CASE round.shown
  <2>1. PICK new, chain :
          /\ new = Sealed(shared[d], d, v, now) /\ chain = Chain(new, d, v)
          /\ shared' = [shared EXCEPT ![d] = new]
          /\ round' = [round EXCEPT !.pc = "answered", !.answer = PagesOver(chain, Since)]
    BY <1>2, <1>4 DEF Answers
  <2>2. Publisher' /\ Grows
    <3>1. shared' = [shared EXCEPT ![d] = Sealed(shared[d], d, v, now)]
      BY <2>1
    <3>2. Publisher /\ UNCHANGED <<frame, speaks>>
      BY <1>3 DEF FetchInv
    <3> QED
      BY <3>1, <3>2, SealStep
  <2>3. Stocked(shared') /\ GrownAll(shared, shared')
    BY <2>2 DEF Publisher, Grows
  <2>4. shared'[d] = new
    BY <1>1, <2>1 DEF Stocked
  <2>5. chain \in Seq(Page)
    BY <2>1, <2>3, <2>4, ChainIs DEF Stocked
  <2>6. PICK answer \in [pages : Seq(Seq(Page)), more : BOOLEAN] :
          /\ answer = PagesOver(chain, Since)
          /\ \A i \in 1 .. Len(answer.pages) : answer.pages[i] # <<>> /\ IsPrefix(answer.pages[i], chain)
    BY <2>5, PagesOverIs
  <2>7. round' = [round EXCEPT !.pc = "answered", !.answer = answer]
    BY <2>1, <2>6
  <2>8. /\ round' \in RoundType /\ round'.pc = "answered" /\ round'.at = d /\ round'.v = v /\ round'.held = round.held
        /\ round'.epoch = round.epoch /\ round'.answer = answer
    BY <1>1, <1>2, <2>7 DEF RoundType
  <2>9. Answered(shared', round')
    BY <2>1, <2>4, <2>6, <2>8 DEF Answered
  <2>10. WellHeld(shared', round.held)
    BY <1>1, <2>3, HeldStays DEF RoundHolds
  <2>11. RoundHolds(shared', round')
    BY <2>8, <2>9, <2>10 DEF RoundHolds
  <2>12. FetchInv'
    <3>1. serves' \in [Device -> BOOLEAN] /\ cast' \in Cast
      BY <1>3 DEF FetchInv
    <3> QED
      BY <1>3, <2>2, <2>11, <3>1, StoresGoOn
  <2> QED
    BY <2>8, <2>12
<1>5. CASE ~round.shown
  <2>1. shared' = shared /\ round' = [round EXCEPT !.pc = "answered", !.answer = Resting.answer]
    BY <1>5 DEF Answers
  <2>2. PICK answer \in [pages : Seq(Seq(Page)), more : BOOLEAN] : answer = Resting.answer /\ Len(answer.pages) = 0
    <3>1. Resting.answer = [pages |-> <<>>, more |-> FALSE]
      BY DEF Resting
    <3>2. <<>> \in Seq(Seq(Page)) /\ Len(<<>>) = 0
      OBVIOUS
    <3>3. PICK q \in Seq(Seq(Page)) : q = <<>> /\ Len(q) = 0
      BY <3>2
    <3>4. Resting.answer \in [pages : Seq(Seq(Page)), more : BOOLEAN] /\ Resting.answer.pages = q
      BY <3>1, <3>3
    <3> QED
      BY <3>3, <3>4
  <2>3. round' = [round EXCEPT !.pc = "answered", !.answer = answer]
    BY <2>1, <2>2
  <2>4. /\ round' \in RoundType /\ round'.pc = "answered" /\ round'.at = d /\ round'.held = round.held
        /\ round'.epoch = round.epoch /\ round'.answer = answer
    BY <1>1, <1>2, <2>3 DEF RoundType
  <2>5. Answered(shared, round')
    BY <2>2, <2>4 DEF Answered
  <2>6. RoundHolds(shared, round')
    BY <1>1, <2>4, <2>5 DEF RoundHolds
  <2>7. FetchInv'
    <3>1. UNCHANGED <<publisherVars, serves>> /\ rel' \in Relationship /\ cast' \in Cast /\ WellHeld(shared, file')
      BY <1>3, <2>1, RoundIs DEF publisherVars
    <3> QED
      BY <2>6, <3>1, RoundGoesOn
  <2> QED
    BY <2>4, <2>7
<1> QED
  BY <1>4, <1>5

\* What is left of a round where it goes on with another device, or ends.
GoesOn == round' = AtRest(round.todo) \/ round' = Resting
          \/ (round.pc = "dial" /\ round' = AtRest(round.todo \ {Candidate}))
BetweenRounds == RoundHolds(shared, round') /\ round'.pc \in {"idle", "dial"} /\ round'.held = NothingShared /\ round'.epoch \in {0, round.epoch}

LEMMA GoesOnKeeps ==
    ASSUME FetchInv, UNCHANGED <<publisherVars, serves>>, rel' \in Relationship, cast' \in Cast, WellHeld(shared, file'), GoesOn
    PROVE  FetchInv' /\ BetweenRounds
<1>1. PICK r : r = round'
  OBVIOUS
<1>2. r = AtRest(round.todo) \/ r = Resting \/ (round.pc = "dial" /\ r = AtRest(round.todo \ {Candidate}))
  BY <1>1 DEF GoesOn
<1>3. RoundHolds(shared, r) /\ r.pc \in {"idle", "dial"} /\ r.held = NothingShared /\ r.epoch \in {0, round.epoch}
  BY <1>2, NextHolds
<1>4. BetweenRounds
  BY <1>1, <1>3 DEF BetweenRounds
<1>5. FetchInv'
  BY <1>4, RoundGoesOn DEF BetweenRounds
<1> QED
  BY <1>4, <1>5

\* Where only what is asked next changes.
LEMMA MovesTo ==
    ASSUME FetchInv, UNCHANGED <<publisherVars, serves>>, rel' \in Relationship, cast' \in Cast, WellHeld(shared, file'),
           round.pc \notin {"idle", "dial"}, round' \in RoundType, round'.pc \notin {"idle", "dial", "answered"},
           round'.at = round.at, WellHeld(shared, round'.held)
    PROVE  FetchInv'
<1>1. RoundHolds(shared, round')
  BY RoundIs DEF RoundHolds
<1> QED
  BY <1>1, RoundGoesOn

LEMMA AsleepKeeps == ASSUME FetchInv, Asleep PROVE FetchInv' /\ BetweenRounds
<1>1. UNCHANGED <<publisherVars, serves>> /\ rel' = rel /\ file' = file /\ GoesOn
  BY DEF Asleep, readerVars, GoesOn
<1>2. cast' \in Cast
  BY RoundIs, SpendsKeeps DEF Asleep, Event
<1> QED
  BY <1>1, <1>2, RoundIs, GoesOnKeeps

LEMMA LosesKeeps == ASSUME FetchInv, Loses PROVE FetchInv' /\ BetweenRounds
<1>1. UNCHANGED <<publisherVars, serves>> /\ rel' = rel /\ file' = file
  BY DEF Loses
<1>2. GoesOn
  BY DEF Loses, NextDevice, GoesOn
<1>3. cast' \in Cast
  BY RoundIs, SpendsKeeps DEF Loses, Event
<1> QED
  BY <1>1, <1>2, <1>3, RoundIs, GoesOnKeeps

LEMMA PagesKeeps ==
    ASSUME FetchInv, Pages
    PROVE  /\ FetchInv'
           /\ \/ BetweenRounds
              \/ /\ Admitted /\ round'.epoch = round.epoch /\ round'.pc = "keep"
                 /\ \A row \in round'.held.rows : row \in round.held.rows \/ row.epoch = round.epoch
                 /\ round'.held.word = round.held.word \/ round'.held.word.epoch = round.epoch
<1>1. round.pc = "answered" /\ UNCHANGED <<publisherVars, serves>> /\ rel' = rel /\ file' = file /\ cast' = cast
  BY DEF Pages, readerVars
<1>2. PICK held : held = TakePages(round.held, round.answer.pages, round.v, round.epoch).held
  OBVIOUS
<1>3. \/ GoesOn
      \/ Admitted /\ round' = [round EXCEPT !.pc = "keep", !.held = held]
  BY <1>2 DEF Pages, NextDevice, GoesOn
<1>4. CASE GoesOn
  BY <1>1, <1>4, RoundIs, GoesOnKeeps
<1>5. CASE Admitted /\ round' = [round EXCEPT !.pc = "keep", !.held = held]
  <2>1. /\ round \in RoundType /\ round.at \in Device /\ round.answer.pages \in Seq(Seq(Page))
        /\ round.v \in Version /\ round.epoch \in Nat /\ Stocked(shared) /\ WellHeld(shared, round.held)
        /\ Answered(shared, round)
    BY <1>1, RoundIs DEF RoundType, FetchInv, RoundHolds
  <2>2. PICK old \in Held, d \in Device, v \in Version, pages \in Seq(Seq(Page)), epoch \in Nat :
            old = round.held /\ d = round.at /\ v = round.v /\ pages = round.answer.pages /\ epoch = round.epoch
    BY <2>1, RoundIs
  <2>3. \A i \in 1 .. Len(pages) : pages[i] # <<>> /\ IsPrefix(pages[i], Chain(shared[d], d, v))
    BY <2>1, <2>2 DEF Answered
  <2>4. held = TakePages(old, pages, v, epoch).held
    BY <1>2, <2>2
  <2>5. /\ WellHeld(shared, held)
        /\ \A row \in held.rows : row \in old.rows \/ row.epoch = epoch
        /\ held.word = old.word \/ held.word.epoch = epoch
    <3>1. Stocked(shared) /\ WellHeld(shared, old)
      BY <2>1, <2>2
    <3>2. /\ WellHeld(shared, TakePages(old, pages, v, epoch).held)
          /\ \A row \in TakePages(old, pages, v, epoch).held.rows : row \in old.rows \/ row.epoch = epoch
          /\ TakePages(old, pages, v, epoch).held.word = old.word \/ TakePages(old, pages, v, epoch).held.word.epoch = epoch
      BY <2>3, <3>1, TakePagesHolds
    <3> QED
      BY <2>4, <3>2
  <2>6. held \in Held
    BY <2>5 DEF WellHeld, Follows
  <2>7. round' \in RoundType /\ round'.pc = "keep" /\ round'.at = round.at /\ round'.held = held /\ round'.epoch = round.epoch
    BY <1>5, <2>1, <2>6 DEF RoundType
  <2>8. FetchInv'
    BY <1>1, <2>5, <2>7, RoundIs, MovesTo
  <2> QED
    BY <1>5, <2>2, <2>5, <2>7, <2>8
<1> QED
  BY <1>3, <1>4, <1>5

LEMMA NothingKeeps ==
    ASSUME FetchInv, Nothing
    PROVE  FetchInv' /\ (BetweenRounds \/ (round'.held = round.held /\ round'.epoch = round.epoch /\ round'.pc = "asked"))
<1>1. round.pc = "answered" /\ UNCHANGED <<publisherVars, serves>> /\ rel' = rel /\ file' = file /\ cast' = cast
  BY DEF Nothing, readerVars
<1>2. GoesOn \/ round' = [Asking(round.held) EXCEPT !.probing = TRUE]
  BY DEF Nothing, NextDevice, GoesOn
<1>3. CASE GoesOn
  BY <1>1, <1>3, RoundIs, GoesOnKeeps
<1>4. CASE round' = [Asking(round.held) EXCEPT !.probing = TRUE]
  <2>1. round \in RoundType /\ round.held \in Held /\ round.asked \in Nat
    BY RoundIs
  <2>2. PICK asked \in Nat, held \in Held : asked = round.asked + 1 /\ held = round.held
    BY <2>1
  <2>3. round' = [round EXCEPT !.pc = "asked", !.held = held, !.asked = asked, !.probing = TRUE]
    BY <1>4, <2>2 DEF Asking
  <2>4. round' \in RoundType /\ round'.pc = "asked" /\ round'.at = round.at /\ round'.held = held /\ round'.epoch = round.epoch
    BY <2>1, <2>3 DEF RoundType
  <2>5. FetchInv'
    BY <1>1, <2>2, <2>4, RoundIs, MovesTo
  <2> QED
    BY <2>2, <2>4, <2>5
<1> QED
  BY <1>2, <1>3, <1>4

LEMMA ProbedKeeps ==
    ASSUME FetchInv, Probed
    PROVE  /\ FetchInv'
           /\ \/ BetweenRounds
              \/ /\ round'.epoch = round.epoch /\ round'.pc = "lane"
                 /\ round'.held.rows \subseteq round.held.rows /\ round'.held.word \in {NoWord, round.held.word}
<1>1. round.pc = "answered" /\ UNCHANGED <<publisherVars, serves>> /\ rel' = rel /\ file' = file /\ cast' = cast
  BY DEF Probed, readerVars
<1>2. PICK held : held = WithoutStream(round.held, round.at)
  OBVIOUS
<1>3. GoesOn \/ round' = [round EXCEPT !.pc = "lane", !.held = held]
  BY <1>2 DEF Probed, NextDevice, GoesOn
<1>4. CASE GoesOn
  BY <1>1, <1>4, RoundIs, GoesOnKeeps
<1>5. CASE round' = [round EXCEPT !.pc = "lane", !.held = held]
  <2>1. PICK old \in Held, d \in Device : old = round.held /\ d = round.at /\ WellHeld(shared, old) /\ Stocked(shared)
    BY <1>1, RoundIs
  <2>2. held = WithoutStream(old, d)
    BY <1>2, <2>1
  <2>3. WellHeld(shared, held) /\ held.rows \subseteq old.rows /\ held.word \in {NoWord, old.word}
    BY <2>1, <2>2, WithoutHolds
  <2>4. held \in Held
    BY <2>3 DEF WellHeld, Follows
  <2>5. round' \in RoundType /\ round'.pc = "lane" /\ round'.at = round.at /\ round'.held = held /\ round'.epoch = round.epoch
    BY <1>5, <2>4, RoundIs DEF RoundType
  <2>6. FetchInv'
    BY <1>1, <2>3, <2>5, RoundIs, MovesTo
  <2> QED
    BY <2>1, <2>3, <2>5, <2>6
<1> QED
  BY <1>3, <1>4, <1>5

LEMMA KeepKeeps ==
    ASSUME FetchInv, Keep
    PROVE  FetchInv' /\ (BetweenRounds \/ (round'.held = round.held /\ round'.epoch = round.epoch /\ round'.pc = "lane"))
<1>1. round.pc = "keep" /\ UNCHANGED <<publisherVars, serves>> /\ rel' = rel /\ file' = file /\ cast' = cast
  BY DEF Keep, readerVars
<1>2. GoesOn \/ round' = [round EXCEPT !.pc = "lane"]
  BY DEF Keep, NextDevice, GoesOn
<1>3. CASE GoesOn
  BY <1>1, <1>3, RoundIs, GoesOnKeeps
<1>4. CASE round' = [round EXCEPT !.pc = "lane"]
  <2>1. round' \in RoundType /\ round'.pc = "lane" /\ round'.at = round.at /\ round'.held = round.held /\ round'.epoch = round.epoch
    BY <1>4, RoundIs DEF RoundType
  <2>2. FetchInv'
    BY <1>1, <2>1, RoundIs, MovesTo
  <2> QED
    BY <2>1, <2>2
<1> QED
  BY <1>2, <1>3, <1>4

LEMMA LaneAdmitsKeeps ==
    ASSUME FetchInv, LaneAdmits
    PROVE  /\ FetchInv'
           /\ \/ BetweenRounds
              \/ round'.held = round.held /\ round'.epoch = round.epoch /\ round'.pc = "writing" /\ StillAdmits(round.epoch)
<1>1. round.pc = "lane" /\ UNCHANGED <<publisherVars, serves>> /\ rel' = rel /\ file' = file /\ cast' = cast
  BY DEF LaneAdmits
<1>2. GoesOn \/ (StillAdmits(round.epoch) /\ round' = [round EXCEPT !.pc = "writing"])
  BY DEF LaneAdmits, NextDevice, GoesOn
<1>3. CASE GoesOn
  BY <1>1, <1>3, RoundIs, GoesOnKeeps
<1>4. CASE StillAdmits(round.epoch) /\ round' = [round EXCEPT !.pc = "writing"]
  <2>1. round' \in RoundType /\ round'.pc = "writing" /\ round'.at = round.at /\ round'.held = round.held /\ round'.epoch = round.epoch
    BY <1>4, RoundIs DEF RoundType
  <2>2. FetchInv'
    BY <1>1, <2>1, RoundIs, MovesTo
  <2> QED
    BY <1>4, <2>1, <2>2
<1> QED
  BY <1>2, <1>3, <1>4

LEMMA LaneWritesKeeps ==
    ASSUME FetchInv, LaneWrites
    PROVE  FetchInv' /\ (BetweenRounds \/ (round'.held = round.held /\ round'.epoch = round.epoch /\ round'.pc = "asked"))
<1>1. round.pc = "writing" /\ UNCHANGED <<publisherVars, serves>> /\ rel' = rel /\ file' = round.held /\ cast' = cast
  BY DEF LaneWrites
<1>2. GoesOn \/ round' = Asking(round.held)
  BY DEF LaneWrites, Kept, NextDevice, GoesOn
<1>3. CASE GoesOn
  BY <1>1, <1>3, RoundIs, GoesOnKeeps
<1>4. CASE round' = Asking(round.held)
  <2>1. round \in RoundType /\ round.held \in Held /\ round.asked \in Nat
    BY RoundIs
  <2>2. PICK asked \in Nat, held \in Held : asked = round.asked + 1 /\ held = round.held
    BY <2>1
  <2>3. round' = [round EXCEPT !.pc = "asked", !.held = held, !.asked = asked]
    BY <1>4, <2>2 DEF Asking
  <2>4. round' \in RoundType /\ round'.pc = "asked" /\ round'.at = round.at /\ round'.held = held /\ round'.epoch = round.epoch
    BY <2>1, <2>3 DEF RoundType
  <2>5. FetchInv'
    BY <1>1, <2>2, <2>4, RoundIs, MovesTo
  <2> QED
    BY <2>2, <2>4, <2>5
<1> QED
  BY <1>2, <1>3, <1>4

-----------------------------------------------------------------------------
(* What happens meanwhile. *)

LEMMA PublishingKeeps ==
    ASSUME FetchInv, Publishes \/ ServesAnother \/ Changes
    PROVE  FetchInv' /\ UNCHANGED <<readerVars, round>> /\ cast'.hasty = cast.hasty /\ cast'.log = cast.log
<1>1. UNCHANGED <<readerVars, serves, round>>
  BY DEF Publishes, ServesAnother, Changes
<1>2. cast' \in Cast /\ cast'.hasty = cast.hasty /\ cast'.log = cast.log
  <2>1. PICK e \in Event : Spends(e)
    BY DEF Publishes, ServesAnother, Changes, Event
  <2> QED
    BY <2>1, RoundIs, SpendsKeeps
<1>3. Publisher /\ \A d \in cast.devices : d \in Device
  <2>1. cast \in Cast /\ Publisher
    BY DEF FetchInv
  <2> QED
    BY <2>1 DEF Cast
<1>4. Publisher' /\ Grows
  <2>1. CASE Publishes
    <3>1. PICK d \in Device : Share(d) \/ (\E pub \in Pub : Unshare(d, pub)) \/ Republish(d)
      BY <1>3, <2>1 DEF Publishes
    <3> QED
      BY <1>3, <3>1, ShareStep, UnshareStep, RepublishStep
  <2>2. CASE ServesAnother
    <3>1. PICK d \in Device, v \in Version : OtherIsServed(d, v)
      BY <1>3, <2>2 DEF ServesAnother
    <3>2. PICK now \in Nat : now = frame[d]
      BY <1>3 DEF Publisher
    <3>3. shared' = [shared EXCEPT ![d] = Sealed(shared[d], d, v, now)] /\ UNCHANGED <<frame, speaks>>
      BY <3>1, <3>2 DEF OtherIsServed
    <3> QED
      BY <1>3, <3>3, SealStep
  <2>3. CASE Changes
    <3>1. PICK d \in Device : Reframe(d) \/ Upgrade(d)
      BY <1>3, <2>3 DEF Changes
    <3>2. shared' = shared
      BY <3>1 DEF Reframe, Upgrade
    <3>3. frame' \in [Device -> Nat] /\ speaks' \in [Device -> Version]
      <4>1. frame \in [Device -> Nat] /\ speaks \in [Device -> Version]
        BY <1>3 DEF Publisher
      <4>2. CASE Reframe(d)
        <5>1. frame' = [frame EXCEPT ![d] = frame[d] + 1] /\ speaks' = speaks
          BY <4>2 DEF Reframe
        <5> QED
          BY <4>1, <5>1
      <4>3. CASE Upgrade(d)
        <5>1. frame' = frame /\ speaks' = [speaks EXCEPT ![d] = 2] /\ 2 \in Version
          BY <4>3 DEF Upgrade, Version
        <5> QED
          BY <4>1, <5>1
      <4> QED
        BY <3>1, <4>2, <4>3
    <3>4. Grows
      BY <1>3, <3>2, SameGrows DEF Publisher, Stocked, Grows, GrownAll
    <3>5. Publisher'
      BY <1>3, <3>2, <3>3 DEF Publisher
    <3> QED
      BY <3>4, <3>5
  <2> QED
    BY <2>1, <2>2, <2>3
<1>5. Stocked(shared) /\ Stocked(shared') /\ GrownAll(shared, shared')
  BY <1>3, <1>4 DEF Publisher, Grows
<1>6. round' = round /\ file' = file /\ rel' = rel /\ serves' = serves
  BY <1>1 DEF readerVars
<1>7. RoundHolds(shared', round')
  <2>1. RoundHolds(shared, round)
    BY DEF FetchInv
  <2>2. RoundHolds(shared', round)
    BY <1>5, <2>1, RoundStays
  <2> QED
    BY <1>6, <2>2
<1>8. serves' \in [Device -> BOOLEAN]
  BY <1>6 DEF FetchInv
<1>9. FetchInv'
  BY <1>2, <1>4, <1>6, <1>7, <1>8, StoresGoOn
<1> QED
  BY <1>1, <1>2, <1>9

\* The reader's own steps: what is held stays, or is let go.
LEMMA ReaderKeeps ==
    ASSUME FetchInv, UNCHANGED <<publisherVars, serves>>, rel' \in Relationship, cast' \in Cast,
           file' \in {file, NothingShared}, round' \in {round, Resting}
    PROVE  FetchInv'
<1>1. WellHeld(shared, file')
  BY RoundIs, NothingHolds
<1>2. RoundHolds(shared, round')
  BY RoundIs, RestHolds DEF FetchInv
<1> QED
  BY <1>1, <1>2, RoundGoesOn

LEMMA ForgetsKeeps == ASSUME FetchInv, Forgets PROVE FetchInv'
<1>1. ForgetEnds(log) /\ Spends("forget") /\ UNCHANGED <<publisherVars, serves, round>>
  BY DEF Forgets
<1>2. file' = file /\ rel' = [rel EXCEPT !.state = "exited"]
  BY <1>1 DEF ForgetEnds
<1>3. rel' \in Relationship
  BY <1>2, RoundIs DEF Relationship
<1>4. cast' \in Cast
  BY <1>1, RoundIs, SpendsKeeps DEF Event
<1> QED
  BY <1>1, <1>2, <1>3, <1>4, ReaderKeeps

LEMMA ForgettingKeeps == ASSUME FetchInv, Forgetting PROVE FetchInv'
<1>1. (ForgetLists \/ PurgePerson(log) \/ ForgetPeer) /\ UNCHANGED <<publisherVars, serves, round>> /\ cast' = cast
  BY DEF Forgetting
<1>2. rel' = rel /\ file' \in {file, NothingShared}
  BY <1>1 DEF ForgetLists, PurgePerson, ForgetPeer
<1> QED
  BY <1>1, <1>2, RoundIs, ReaderKeeps

LEMMA ReadmitsKeeps == ASSUME FetchInv, Readmits PROVE FetchInv'
<1>1. ReadmitOnPairing(log) /\ UNCHANGED <<publisherVars, serves, round>> /\ cast' = cast
  BY DEF Readmits
<1>2. rel' \in {rel, Readmit} /\ file' = file
  BY <1>1 DEF ReadmitOnPairing
<1>3. rel \in Relationship /\ Readmit \in Relationship
  BY RoundIs DEF Readmit, Relationship
<1> QED
  BY <1>1, <1>2, <1>3, RoundIs, ReaderKeeps

LEMMA MeanwhileKeeps ==
    ASSUME FetchInv, TimePasses \/ MovesTheBook \/ Meets
    PROVE  FetchInv'
<1>1. UNCHANGED <<publisherVars, serves, round>> /\ (\E e \in Event : Spends(e))
      /\ ((\E d \in cast.devices : Lapse(d)) \/ Moves \/ Pairs)
  BY DEF TimePasses, MovesTheBook, Meets, Event
<1>2. rel' = rel /\ file' = file
  BY <1>1 DEF Lapse, Moves, Pairs
<1>3. cast' \in Cast
  BY <1>1, RoundIs, SpendsKeeps
<1> QED
  BY <1>1, <1>2, <1>3, RoundIs, ReaderKeeps

LEMMA ShowsKeeps == ASSUME FetchInv, Shows PROVE FetchInv'
<1>1. UNCHANGED <<publisherVars, readerVars, round>> /\ Spends("hide")
  BY DEF Shows
<1>2. shared' = shared /\ frame' = frame /\ speaks' = speaks /\ rel' = rel /\ file' = file /\ round' = round
  BY <1>1 DEF publisherVars, readerVars
<1>3. PICK d \in Device : serves' = [serves EXCEPT ![d] = ~serves[d]]
  <2>1. cast.devices \subseteq Device
    BY RoundIs DEF Cast
  <2> QED
    BY <2>1 DEF Shows
<1>4. serves' \in [Device -> BOOLEAN]
  <2>1. serves \in [Device -> BOOLEAN]
    BY DEF FetchInv
  <2> QED
    BY <1>3, <2>1
<1>5. cast' \in Cast
  BY <1>1, RoundIs, SpendsKeeps DEF Event
<1>6. Publisher'
  BY <1>2 DEF FetchInv, Publisher
<1> QED
  BY <1>2, <1>4, <1>5, <1>6 DEF FetchInv

LEMMA RestartsKeeps == ASSUME FetchInv, Restarts PROVE FetchInv'
<1>1. Spends("restart") /\ ReaderRestarts /\ round' = Resting /\ UNCHANGED <<publisherVars, serves>>
  BY DEF Restarts
<1>2. rel' = rel /\ file' = file
  BY <1>1 DEF ReaderRestarts
<1>3. cast' \in Cast
  BY <1>1, RoundIs, SpendsKeeps DEF Event
<1> QED
  BY <1>1, <1>2, <1>3, RoundIs, ReaderKeeps

LEMMA CircleStutters == ASSUME FetchInv, UNCHANGED circleVars PROVE FetchInv'
<1>1. UNCHANGED <<publisherVars, readerVars, serves, round, cast>>
  BY DEF circleVars
<1>2. rel' = rel /\ file' = file
  BY <1>1 DEF readerVars
<1> QED
  BY <1>1, <1>2, RoundIs, ReaderKeeps

LEMMA FetchStep == FetchInv /\ [CircleNext]_circleVars => FetchInv'
<1> SUFFICES ASSUME FetchInv, [CircleNext]_circleVars PROVE FetchInv'
  OBVIOUS
<1>1. CASE Fetching
  BY <1>1, BeginRoundKeeps, DialKeeps, JudgesKeeps, AnswersKeeps, PagesKeeps, NothingKeeps, ProbedKeeps,
     KeepKeeps, LaneAdmitsKeeps, LaneWritesKeeps DEF Fetching
<1>2. CASE Asleep \/ Loses
  BY <1>2, AsleepKeeps, LosesKeeps
<1>3. CASE Publishes \/ ServesAnother \/ Changes
  BY <1>3, PublishingKeeps
<1>4. CASE TimePasses \/ MovesTheBook \/ Meets
  BY <1>4, MeanwhileKeeps
<1>5. CASE Shows \/ Forgets \/ Forgetting \/ Readmits \/ Restarts
  BY <1>5, ShowsKeeps, ForgetsKeeps, ForgettingKeeps, ReadmitsKeeps, RestartsKeeps
<1>6. CASE UNCHANGED circleVars
  BY <1>6, CircleStutters
<1> QED
  BY <1>1, <1>2, <1>3, <1>4, <1>5, <1>6 DEF CircleNext

-----------------------------------------------------------------------------
(* How it starts. *)

\* A first store of one row, or of none.
Holding(rows) == [NothingPublished EXCEPT !.publications = rows]
FirstRow(o) == [pub |-> Mint({}), device |-> o, seq |-> 1, at |-> 1, gone |-> NotGone]

LEMMA FirstRowIs == ASSUME NEW o \in Device PROVE FirstRow(o) \in Row /\ FirstRow(o).gone = NotGone /\ FirstRow(o).seq = 1
<1>1. \E p \in Pub \ {} : TRUE
  BY PublisherAssumption
<1>2. Mint({}) \in Pub
  BY <1>1 DEF Mint
<1> QED
  BY <1>2 DEF FirstRow, Row

LEMMA HoldingIs ==
    ASSUME NEW rows \in SUBSET Row, \A row \in rows : row.gone = NotGone
    PROVE  /\ Holding(rows) \in Store
           /\ LogOf(Holding(rows)) = {ShareOf(row) : row \in rows}
           /\ \A v \in Version : Holding(rows).sealed[v] = <<>>
<1>0. PICK none : none = [v \in Version |-> <<>>]
  OBVIOUS
<1>a. NothingPublished = [publications |-> {}, opinions |-> {}, sealed |-> none]
  BY <1>0 DEF NothingPublished
<1>2. Holding(rows) = [publications |-> rows, opinions |-> {}, sealed |-> none]
  BY <1>a DEF Holding
<1>1. Holding(rows).publications = rows /\ Holding(rows).opinions = {} /\ Holding(rows).sealed = [v \in Version |-> <<>>]
  BY <1>0, <1>2
<1>3. <<>> \in Seq(Boundary)
  OBVIOUS
<1>4. [v \in Version |-> <<>>] \in [Version -> Seq(Boundary)]
  BY <1>3
<1>5. Holding(rows) \in Store
  BY <1>0, <1>2, <1>4 DEF Store
<1>6. LogOf(Holding(rows)) = {ShareOf(row) : row \in rows}
  BY <1>1 DEF LogOf
<1>7. \A v \in Version : Holding(rows).sealed[v] = <<>>
  BY <1>1
<1> QED
  BY <1>5, <1>6, <1>7

LEMMA StoresStart == ASSUME NEW stores \in Stores PROVE Stocked(stores)
<1>1. \E rows \in SUBSET Row : /\ stores = [d \in Device |-> Holding(rows)]
                               /\ \A row \in rows : row.gone = NotGone /\ row.seq = 1
                               /\ \A a, b \in rows : a = b
                               /\ IsFiniteSet(rows)
  <2>1. CASE stores = [d \in Device |-> NothingPublished]
    <3>0. PICK none : none = [v \in Version |-> <<>>]
      OBVIOUS
    <3>a. NothingPublished = [publications |-> {}, opinions |-> {}, sealed |-> none]
      BY <3>0 DEF NothingPublished
    <3>1. Holding({}) = NothingPublished
      BY <3>a DEF Holding
    <3>2. IsFiniteSet({})
      BY FS_EmptySet
    <3>3. PICK rows \in SUBSET Row : rows = {}
      OBVIOUS
    <3> QED
      BY <2>1, <3>1, <3>2, <3>3
  <2>2. ASSUME NEW o \in Device, stores = [d \in Device |-> Holding({FirstRow(o)})]
        PROVE  \E rows \in SUBSET Row : /\ stores = [d \in Device |-> Holding(rows)]
                                        /\ \A row \in rows : row.gone = NotGone /\ row.seq = 1
                                        /\ \A a, b \in rows : a = b
                                        /\ IsFiniteSet(rows)
    <3>1. PICK rows \in SUBSET Row : rows = {FirstRow(o)}
      BY FirstRowIs
    <3>2. IsFiniteSet(rows)
      BY <3>1, FS_Singleton
    <3>3. \A row \in rows : row.gone = NotGone /\ row.seq = 1
      BY <3>1, FirstRowIs
    <3>4. \A a, b \in rows : a = b
      BY <3>1
    <3> QED
      BY <2>2, <3>1, <3>2, <3>3, <3>4
  <2>3. \/ stores = [d \in Device |-> NothingPublished]
        \/ \E o \in Device : stores = [d \in Device |-> Holding({FirstRow(o)})]
    BY DEF Stores, Holding, FirstRow
  <2> QED
    BY <2>1, <2>2, <2>3
<1>2. PICK rows \in SUBSET Row : /\ stores = [d \in Device |-> Holding(rows)]
                                 /\ \A row \in rows : row.gone = NotGone /\ row.seq = 1
                                 /\ \A a, b \in rows : a = b
                                 /\ IsFiniteSet(rows)
  BY <1>1
<1>3. PICK held \in Store : held = Holding(rows)
  BY <1>2, HoldingIs
<1>4. LogOf(held) = {ShareOf(row) : row \in rows} /\ \A v \in Version : held.sealed[v] = <<>>
  BY <1>2, <1>3, HoldingIs
<1>5. \A a, b \in LogOf(held) : a = b
  BY <1>2, <1>4
<1>6. \A e \in LogOf(held) : e.seq = 1
  BY <1>2, <1>4 DEF ShareOf
<1>7. IsFiniteSet(LogOf(held))
  <2> DEFINE f == [row \in rows |-> ShareOf(row)]
  <2>1. DOMAIN f = rows /\ {f[row] : row \in rows} = LogOf(held)
    BY <1>4
  <2> HIDE DEF f
  <2> QED
    BY <1>2, <2>1, ImageIsFinite
<1>8. ASSUME NEW d \in Device PROVE WellKept(held, d)
  <2>1. \A v \in Version : Len(held.sealed[v]) = 0
    BY <1>4
  <2>2. \A v \in Version : InOrder(held.sealed[v]) /\ Covered(StreamOf(held, d, v), held.sealed[v])
    BY <2>1 DEF InOrder, Covered
  <2> QED
    BY <1>5, <1>6, <1>7, <2>2 DEF WellKept, NumberedOnce
<1>9. stores \in [Device -> Store] /\ \A d \in Device : stores[d] = held
  BY <1>2, <1>3
<1>10. Owned(stores)
  BY <1>5, <1>9 DEF Owned
<1> QED
  BY <1>8, <1>9, <1>10 DEF Stocked

LEMMA FetchStarts == CircleInit => FetchInv
<1> SUFFICES ASSUME CircleInit PROVE FetchInv
  OBVIOUS
<1>1. Stocked(shared)
  BY StoresStart DEF CircleInit
<1>2. cast \in Cast
  BY CircleAssumption DEF CircleInit
<1>3. frame = [d \in Device |-> 1] /\ speaks = [d \in Device |-> cast.speaks] /\ serves = [d \in Device |-> TRUE]
  BY DEF CircleInit
<1>4. cast.speaks \in Version
  BY <1>2 DEF Cast
<1>5. frame \in [Device -> Nat]
  BY <1>3
<1>6. speaks \in [Device -> Version]
  BY <1>3, <1>4
<1>7. serves \in [Device -> BOOLEAN]
  BY <1>3
<1>8. rel \in Relationship
  BY DEF CircleInit, ReaderInit, Relationship
<1>9. file = NothingShared /\ round = Resting
  BY DEF CircleInit, ReaderInit
<1>10. WellHeld(shared, file)
  BY <1>1, <1>9, NothingHolds
<1>11. RoundHolds(shared, round)
  BY <1>1, <1>9, RestHolds
<1> QED
  BY <1>1, <1>2, <1>5, <1>6, <1>7, <1>8, <1>10, <1>11 DEF FetchInv, Publisher

LEMMA FetchAlways == CircleSpec => []FetchInv
  BY FetchStarts, FetchStep, PTL DEF CircleSpec

-----------------------------------------------------------------------------
(* What the chains and the fold come to. *)

LEMMA ChainsFollow == FetchInv => ChainsHold
<1> SUFFICES ASSUME FetchInv PROVE ChainsHold
  OBVIOUS
<1>1. Stocked(shared) /\ WellHeld(shared, file) /\ WellHeld(shared, round.held)
  BY DEF FetchInv, Publisher, RoundHolds
<1>2. StoresRead
  <2> SUFFICES ASSUME NEW d \in Device
               PROVE  /\ NumberedOnce(LogOf(shared[d]))
                      /\ \A v \in Version : \A i, j \in DOMAIN shared[d].sealed[v] :
                            i < j => shared[d].sealed[v][i].to < shared[d].sealed[v][j].from
    BY DEF StoresRead, NumberedOnce
  <2>1. WellKept(shared[d], d)
    BY <1>1 DEF Stocked
  <2>2. ASSUME NEW v \in Version
        PROVE  \A i, j \in DOMAIN shared[d].sealed[v] : i < j => shared[d].sealed[v][i].to < shared[d].sealed[v][j].from
    <3>1. shared[d].sealed[v] \in Seq(Boundary) /\ InOrder(shared[d].sealed[v])
      BY <2>1 DEF WellKept, Store
    <3>2. DOMAIN shared[d].sealed[v] = 1 .. Len(shared[d].sealed[v])
      BY <3>1
    <3> QED
      BY <3>1, <3>2 DEF InOrder
  <2> QED
    BY <2>1, <2>2 DEF WellKept
<1>3. \A d \in Device : IsPrefix(file.heads[d], Chain(shared[d], d, file.v))
  BY <1>1 DEF WellHeld, Follows
<1>4. \A d \in Device : IsPrefix(round.held.heads[d], Chain(shared[d], d, round.held.v))
  BY <1>1 DEF WellHeld, Follows
<1> QED
  BY <1>2, <1>3, <1>4 DEF ChainsHold

LEMMA FoldFollows == FetchInv => FoldsAsOne
<1> SUFFICES ASSUME FetchInv PROVE FoldsAsOne
  OBVIOUS
<1>1. WellHeld(shared, file)
  BY DEF FetchInv
<1>2. Passed = PassedBy(shared, file) /\ Drawn = DrawnOf(file) /\ Streams(2) = All(shared, 2)
  BY DEF Passed, PassedBy, Drawn, DrawnOf, Streams, All
<1>3. Shared(PassedBy(shared, file)) \subseteq DrawnOf(file) \cup Unshared(All(shared, 2))
  BY <1>1 DEF WellHeld
<1>4. DrawnOf(file) \cap Unshared(PassedBy(shared, file)) = {}
  BY <1>1 DEF WellHeld
<1>5. \A e \in PassedBy(shared, file) : e.op = "status" => e.at <= file.word.at
  BY <1>1 DEF WellHeld
<1> QED
  BY <1>2, <1>3, <1>4, <1>5 DEF FoldsAsOne

(* What a device would serve next always follows the page the reader took last, in the
   file and in the round that is out: the boundaries a store sealed are never decided anew
   (exchange.ts's pagesOver), and no page is taken but the one that follows. *)
THEOREM ChainsAlwaysHold == CircleSpec => []ChainsHold
  BY FetchAlways, ChainsFollow, PTL

(* What the cursors have passed is in what is held, whatever came in between: what was
   published and not taken back is there, what was taken back is not, and of the words the
   newest stands (receive.ts's takePages and applyEntries). *)
THEOREM FoldIsOne == CircleSpec => []FoldsAsOne
  BY FetchAlways, FoldFollows, PTL

-----------------------------------------------------------------------------
(* What is held was taken in an epoch that no purge is past. *)

Words(held) == held.rows \cup ({held.word} \ {NoWord})
After(held, n) == \A row \in Words(held) : row.epoch > n

Epochs ==
    /\ cut \in Nat /\ cut <= rel.epoch /\ (cut = rel.epoch => rel.state = "exited")
    /\ round.epoch <= rel.epoch /\ (round.epoch <= cut \/ After(round.held, cut))
    /\ round.pc = "writing" => writing /\ round.epoch > cut
    /\ After(file, cut) /\ (rel.epoch <= cut => file = NothingShared)

\* The person is let go whose pairing was looked at, and every place of the book is listed.
LetGo ==
    /\ forget \in [pc : {"idle", "listing", "purging", "purged"}, books : BOOLEAN, trashed : BOOLEAN]
    /\ place \in {"shelf", "trash"}
    /\ forget.pc # "idle" => paired /\ known /\ rel.state = "exited"
    /\ forget.pc = "listing" => forget.books = (place = "shelf")
    /\ forget.pc = "purging" => Listed(log)

LEMMA AfterNothing == ASSUME NEW n PROVE After(NothingShared, n)
BY DEF After, Words, NothingShared

LEMMA EpochIs == ASSUME FetchInv PROVE rel.epoch \in Nat /\ round.epoch \in Nat /\ rel.state \in {"admitted", "exited"}
BY RoundIs DEF Relationship

LEMMA AdmittedIsAfter == ASSUME FetchInv, Epochs, StillAdmits(round.epoch) PROVE round.epoch > cut /\ After(round.held, cut)
<1>1. rel.state = "admitted" /\ rel.epoch = round.epoch
  BY DEF StillAdmits, AcceptsTransport
<1>2. cut \in Nat /\ cut <= rel.epoch /\ cut # rel.epoch
  BY <1>1 DEF Epochs
<1>3. round.epoch > cut
  BY <1>1, <1>2, EpochIs
<1>4. round.epoch <= cut \/ After(round.held, cut)
  BY DEF Epochs
<1> QED
  BY <1>2, <1>3, <1>4, EpochIs

LEMMA RoundMoves ==
    ASSUME FetchInv, Epochs, rel' = rel, cut' = cut, file' = file,
           round'.epoch \in Nat, round'.epoch <= rel.epoch, round'.pc # "writing",
           round'.epoch <= cut \/ After(round'.held, cut)
    PROVE  Epochs'
BY DEF Epochs

LEMMA BetweenMoves ==
    ASSUME FetchInv, Epochs, rel' = rel, cut' = cut, file' = file, BetweenRounds
    PROVE  Epochs'
<1>1. round'.held = NothingShared /\ round'.epoch \in {0, round.epoch} /\ round'.pc # "writing"
  BY DEF BetweenRounds
<1>2. round'.epoch \in Nat /\ round'.epoch <= rel.epoch
  BY <1>1, EpochIs DEF Epochs
<1>3. After(round'.held, cut)
  BY <1>1, AfterNothing
<1> QED
  BY <1>1, <1>2, <1>3, RoundMoves

LEMMA SameHeldMoves ==
    ASSUME FetchInv, Epochs, rel' = rel, cut' = cut, file' = file,
           round'.held = round.held, round'.epoch = round.epoch, round'.pc # "writing"
    PROVE  Epochs'
<1>1. round.epoch <= rel.epoch /\ (round.epoch <= cut \/ After(round.held, cut))
  BY DEF Epochs
<1>2. round'.epoch \in Nat /\ round'.epoch <= rel.epoch /\ (round'.epoch <= cut \/ After(round'.held, cut))
  BY <1>1, EpochIs
<1> QED
  BY <1>2, RoundMoves

LEMMA FetchingAfter == ASSUME FetchInv, Epochs, Fetching PROVE Epochs'
<1>1. CASE BeginRound
  <2>1. rel' = rel /\ cut' = cut /\ file' = file
    BY <1>1 DEF BeginRound, readerVars
  <2>2. round'.held = NothingShared /\ round'.epoch = rel.epoch /\ round'.pc = "dial"
    BY <1>1, BeginRoundKeeps
  <2> QED
    BY <2>1, <2>2, EpochIs, AfterNothing, RoundMoves
<1>2. CASE Dial
  <2>1. rel' = rel /\ cut' = cut /\ file' = file
    BY <1>2 DEF Dial, readerVars
  <2>2. round'.held \in {file, NothingShared} /\ round'.epoch = round.epoch /\ round'.pc = "asked"
    BY <1>2, DialKeeps
  <2>3. After(round'.held, cut) /\ round.epoch <= rel.epoch
    BY <2>2, AfterNothing DEF Epochs
  <2> QED
    BY <2>1, <2>2, <2>3, EpochIs, RoundMoves
<1>3. CASE Judges
  <2>1. rel' = rel /\ cut' = cut /\ file' = file
    BY <1>3 DEF Judges, readerVars
  <2> QED
    BY <1>3, <2>1, JudgesKeeps, SameHeldMoves
<1>4. CASE Answers
  <2>1. rel' = rel /\ cut' = cut /\ file' = file
    BY <1>4 DEF Answers, readerVars
  <2> QED
    BY <1>4, <2>1, AnswersKeeps, SameHeldMoves
<1>5. CASE Nothing
  <2>1. rel' = rel /\ cut' = cut /\ file' = file
    BY <1>5 DEF Nothing, readerVars
  <2> QED
    BY <1>5, <2>1, NothingKeeps, SameHeldMoves, BetweenMoves
<1>6. CASE Keep
  <2>1. rel' = rel /\ cut' = cut /\ file' = file
    BY <1>6 DEF Keep, readerVars
  <2> QED
    BY <1>6, <2>1, KeepKeeps, SameHeldMoves, BetweenMoves
<1>7. CASE Pages
  <2>1. rel' = rel /\ cut' = cut /\ file' = file
    BY <1>7 DEF Pages, readerVars
  <2>2. CASE BetweenRounds
    BY <2>1, <2>2, BetweenMoves
  <2>3. CASE ~BetweenRounds
    <3>1. /\ Admitted /\ round'.epoch = round.epoch /\ round'.pc = "keep"
          /\ \A row \in round'.held.rows : row \in round.held.rows \/ row.epoch = round.epoch
          /\ round'.held.word = round.held.word \/ round'.held.word.epoch = round.epoch
      BY <1>7, <2>3, PagesKeeps
    <3>2. round.epoch > cut /\ After(round.held, cut) /\ round.epoch <= rel.epoch
      BY <3>1, AdmittedIsAfter DEF Admitted, Epochs
    <3>3. \A row \in round'.held.rows : row.epoch > cut
      BY <3>1, <3>2 DEF After, Words
    <3>4. round'.held.word # NoWord => round'.held.word.epoch > cut
      BY <3>1, <3>2 DEF After, Words
    <3>5. After(round'.held, cut)
      BY <3>3, <3>4 DEF After, Words
    <3> QED
      BY <2>1, <3>1, <3>2, <3>5, EpochIs, RoundMoves
  <2> QED
    BY <2>2, <2>3
<1>8. CASE Probed
  <2>1. rel' = rel /\ cut' = cut /\ file' = file
    BY <1>8 DEF Probed, readerVars
  <2>2. CASE BetweenRounds
    BY <2>1, <2>2, BetweenMoves
  <2>3. CASE ~BetweenRounds
    <3>1. /\ round'.epoch = round.epoch /\ round'.pc = "lane"
          /\ round'.held.rows \subseteq round.held.rows /\ round'.held.word \in {NoWord, round.held.word}
      BY <1>8, <2>3, ProbedKeeps
    <3>2. Words(round'.held) \subseteq Words(round.held)
      BY <3>1 DEF Words
    <3>3. round.epoch <= rel.epoch /\ (round.epoch <= cut \/ After(round'.held, cut))
      BY <3>2 DEF Epochs, After
    <3> QED
      BY <2>1, <3>1, <3>3, EpochIs, RoundMoves
  <2> QED
    BY <2>2, <2>3
<1>9. CASE LaneAdmits
  <2>1. rel' = rel /\ cut' = cut /\ file' = file
    BY <1>9 DEF LaneAdmits
  <2>2. CASE BetweenRounds
    BY <2>1, <2>2, BetweenMoves
  <2>3. CASE ~BetweenRounds
    <3>1. round'.held = round.held /\ round'.epoch = round.epoch /\ round'.pc = "writing" /\ StillAdmits(round.epoch)
      BY <1>9, <2>3, LaneAdmitsKeeps
    <3>2. round.epoch > cut
      BY <3>1, AdmittedIsAfter
    <3>3. writing' = TRUE
      BY <1>9, <3>1 DEF LaneAdmits
    <3> QED
      BY <2>1, <3>1, <3>2, <3>3 DEF Epochs
  <2> QED
    BY <2>2, <2>3
<1>10. CASE LaneWrites
  <2>1. rel' = rel /\ cut' = cut /\ file' = round.held /\ round.pc = "writing"
    BY <1>10 DEF LaneWrites
  <2>2. round.epoch > cut /\ After(round.held, cut) /\ round.epoch <= rel.epoch /\ cut \in Nat
    BY <2>1, EpochIs DEF Epochs
  <2>3. ~(rel.epoch <= cut)
    BY <2>2, EpochIs
  <2>4. round'.pc # "writing" /\ round'.epoch \in {0, round.epoch} /\ (round'.held \in {round.held, NothingShared})
    BY <1>10, LaneWritesKeeps DEF BetweenRounds
  <2>5. round'.epoch <= rel.epoch /\ After(round'.held, cut)
    BY <2>2, <2>4, EpochIs, AfterNothing
  <2> QED
    BY <2>1, <2>2, <2>3, <2>4, <2>5 DEF Epochs
<1> QED
  BY <1>1, <1>2, <1>3, <1>4, <1>5, <1>6, <1>7, <1>8, <1>9, <1>10 DEF Fetching

LEMMA MeanwhileAfter ==
    ASSUME FetchInv, Epochs, UNCHANGED <<rel, cut, file, writing, round>>
    PROVE  Epochs'
<1>1. rel' = rel /\ cut' = cut /\ file' = file /\ writing' = writing /\ round' = round
  OBVIOUS
<1> QED
  BY <1>1 DEF Epochs

LEMMA ForgetsAfter == ASSUME FetchInv, Epochs, Forgets PROVE Epochs'
<1>1. cut' = cut /\ file' = file /\ writing' = writing /\ round' = round
  BY DEF Forgets, ForgetEnds
<1>2. rel'.epoch = rel.epoch /\ rel'.state = "exited"
  BY RoundIs DEF Forgets, ForgetEnds, Relationship
<1> QED
  BY <1>1, <1>2 DEF Epochs

LEMMA PurgeAfter == ASSUME FetchInv, Epochs, LetGo, PurgePerson(log), round' = round PROVE Epochs'
<1>1. rel' = rel /\ cut' = rel.epoch /\ ~writing /\ forget.pc = "purging"
  BY DEF PurgePerson
<1>2. Listed(log) /\ rel.state = "exited"
  BY <1>1 DEF LetGo
<1>3. file' = NothingShared
  BY <1>2 DEF PurgePerson
<1>4. round.pc # "writing" /\ round.epoch <= rel.epoch
  BY <1>1 DEF Epochs
<1>5. After(file', cut')
  BY <1>3, AfterNothing
<1>6. cut' \in Nat /\ cut' <= rel'.epoch /\ rel'.state = "exited"
  BY <1>1, <1>2, EpochIs
<1>7. round'.epoch <= rel'.epoch /\ round'.epoch <= cut' /\ round'.pc # "writing"
  BY <1>1, <1>4
<1> QED
  BY <1>3, <1>5, <1>6, <1>7 DEF Epochs

LEMMA ReadmitsAfter == ASSUME FetchInv, Epochs, Readmits PROVE Epochs'
<1>1. cut' = cut /\ file' = file /\ writing' = writing /\ round' = round
  BY DEF Readmits, ReadmitOnPairing
<1>2. rel' = rel \/ rel' = Readmit
  BY DEF Readmits, ReadmitOnPairing
<1>3. CASE rel' = rel
  BY <1>1, <1>3 DEF Epochs
<1>4. CASE rel' = Readmit
  <2>1. rel'.epoch = rel.epoch + 1
    BY <1>4 DEF Readmit
  <2>2. cut \in Nat /\ cut <= rel.epoch /\ round.epoch <= rel.epoch
    BY DEF Epochs
  <2>3. cut < rel'.epoch /\ round.epoch <= rel'.epoch /\ rel'.epoch \in Nat
    BY <2>1, <2>2, EpochIs
  <2>4. cut <= rel'.epoch /\ cut # rel'.epoch /\ ~(rel'.epoch <= cut)
    BY <2>2, <2>3
  <2> QED
    BY <1>1, <2>3, <2>4 DEF Epochs
<1> QED
  BY <1>2, <1>3, <1>4

LEMMA RestartsAfter == ASSUME FetchInv, Epochs, Restarts PROVE Epochs'
<1>1. rel' = rel /\ cut' = cut /\ file' = file /\ round' = Resting
  BY DEF Restarts, ReaderRestarts
<1>2. round'.pc = "idle" /\ round'.epoch = 0 /\ round'.held = NothingShared
  BY <1>1, RoundIs, RestHolds
<1>3. 0 <= rel.epoch
  BY EpochIs
<1> QED
  BY <1>1, <1>2, <1>3, AfterNothing, RoundMoves

LEMMA EpochsStep == FetchInv /\ Epochs /\ LetGo /\ [CircleNext]_circleVars => Epochs'
<1> SUFFICES ASSUME FetchInv, Epochs, LetGo, [CircleNext]_circleVars PROVE Epochs'
  OBVIOUS
<1>1. CASE Fetching
  BY <1>1, FetchingAfter
<1>2. CASE Asleep \/ Loses
  <2>1. rel' = rel /\ cut' = cut /\ file' = file
    BY <1>2 DEF Asleep, Loses, readerVars
  <2> QED
    BY <1>2, <2>1, AsleepKeeps, LosesKeeps, BetweenMoves
<1>3. CASE Publishes \/ ServesAnother \/ Changes
  <2>1. UNCHANGED <<readerVars, round>>
    BY <1>3, PublishingKeeps
  <2>2. UNCHANGED <<rel, cut, file, writing, round>>
    BY <2>1 DEF readerVars
  <2> QED
    BY <2>2, MeanwhileAfter
<1>4. CASE TimePasses \/ MovesTheBook \/ Meets \/ Shows
  <2>1. UNCHANGED <<rel, cut, file, writing, round>>
    BY <1>4 DEF TimePasses, MovesTheBook, Meets, Shows, Lapse, Moves, Pairs, readerVars
  <2> QED
    BY <2>1, MeanwhileAfter
<1>5. CASE Forgets \/ Readmits \/ Restarts
  BY <1>5, ForgetsAfter, ReadmitsAfter, RestartsAfter
<1>6. CASE Forgetting
  <2>1. CASE PurgePerson(log)
    BY <1>6, <2>1, PurgeAfter DEF Forgetting
  <2>2. CASE ForgetLists \/ ForgetPeer
    <3>1. UNCHANGED <<rel, cut, file, writing, round>>
      BY <1>6, <2>2 DEF Forgetting, ForgetLists, ForgetPeer
    <3> QED
      BY <3>1, MeanwhileAfter
  <2> QED
    BY <1>6, <2>1, <2>2 DEF Forgetting
<1>7. CASE UNCHANGED circleVars
  <2>1. UNCHANGED <<rel, cut, file, writing, round>>
    BY <1>7 DEF circleVars, readerVars
  <2> QED
    BY <2>1, MeanwhileAfter
<1> QED
  BY <1>1, <1>2, <1>3, <1>4, <1>5, <1>6, <1>7 DEF CircleNext

\* Who does what stays, and so does whether the reader is hasty.
LEMMA CastStays ==
    ASSUME FetchInv, [CircleNext]_circleVars
    PROVE  cast'.hasty = cast.hasty /\ cast'.log = cast.log
<1>1. cast' = cast \/ (\E e \in Event : Spends(e))
  <2>1. CASE Fetching \/ Forgetting \/ Readmits \/ UNCHANGED circleVars
    BY <2>1 DEF Fetching, BeginRound, Dial, Judges, Answers, Pages, Nothing, Probed, Keep, LaneAdmits, LaneWrites,
                Forgetting, Readmits, circleVars
  <2>2. CASE Asleep \/ Loses \/ Publishes \/ ServesAnother \/ Changes \/ TimePasses
    BY <2>2 DEF Asleep, Loses, Publishes, ServesAnother, Changes, TimePasses, Event
  <2>3. CASE Shows \/ MovesTheBook \/ Meets \/ Forgets \/ Restarts
    BY <2>3 DEF Shows, MovesTheBook, Meets, Forgets, Restarts, Event
  <2> QED
    BY <2>1, <2>2, <2>3 DEF CircleNext
<1> QED
  BY <1>1, RoundIs, SpendsKeeps

LEMMA LetGoStays ==
    ASSUME LetGo, cast'.log = cast.log, UNCHANGED <<forget, place, paired, known, rel>>
    PROVE  LetGo'
<1>1. forget' = forget /\ place' = place /\ paired' = paired /\ known' = known /\ rel' = rel
  OBVIOUS
<1>2. Listed(log) <=> Listed(log)'
  BY <1>1 DEF Listed, log
<1> QED
  BY <1>1, <1>2 DEF LetGo

LEMMA IdleIsLetGo ==
    ASSUME forget' \in [pc : {"idle", "listing", "purging", "purged"}, books : BOOLEAN, trashed : BOOLEAN],
           place' \in {"shelf", "trash"}, forget'.pc = "idle"
    PROVE  LetGo'
BY DEF LetGo

LEMMA ForgetsLetsGo == ASSUME FetchInv, LetGo, ~cast.hasty, Forgets PROVE LetGo'
<1>1. /\ paired' = paired /\ known' = known /\ place' = place /\ paired /\ known
      /\ forget' = [pc |-> "listing", books |-> place = "shelf", trashed |-> FALSE]
  BY DEF Forgets, ForgetEnds
<1>2. rel'.state = "exited"
  BY RoundIs DEF Forgets, ForgetEnds, Relationship
<1>3. place' \in {"shelf", "trash"}
  BY <1>1 DEF LetGo
<1>4. /\ forget' \in [pc : {"idle", "listing", "purging", "purged"}, books : BOOLEAN, trashed : BOOLEAN]
      /\ forget'.pc = "listing" /\ forget'.books = (place = "shelf")
  <2>1. PICK b \in BOOLEAN : b = (place = "shelf")
    OBVIOUS
  <2>2. forget' = [pc |-> "listing", books |-> b, trashed |-> FALSE]
    BY <1>1, <2>1
  <2>3. forget'.books = b
    BY <2>2
  <2> QED
    BY <2>1, <2>2, <2>3
<1> QED
  BY <1>1, <1>2, <1>3, <1>4 DEF LetGo

LEMMA ListsLetsGo == ASSUME LetGo, ForgetLists, cast' = cast PROVE LetGo'
<1>1. /\ paired' = paired /\ known' = known /\ place' = place /\ rel' = rel
      /\ forget.pc = "listing" /\ forget' = [forget EXCEPT !.pc = "purging", !.trashed = (place = "trash")]
  BY DEF ForgetLists
<1>2. /\ forget \in [pc : {"idle", "listing", "purging", "purged"}, books : BOOLEAN, trashed : BOOLEAN]
      /\ paired /\ known /\ rel.state = "exited" /\ forget.books = (place = "shelf") /\ place \in {"shelf", "trash"}
  BY <1>1 DEF LetGo
<1>3. /\ forget' \in [pc : {"idle", "listing", "purging", "purged"}, books : BOOLEAN, trashed : BOOLEAN]
      /\ forget'.pc = "purging" /\ forget'.books = (place = "shelf") /\ forget'.trashed = (place = "trash")
  <2>1. PICK b \in BOOLEAN : b = (place = "trash")
    OBVIOUS
  <2>2. forget' = [forget EXCEPT !.pc = "purging", !.trashed = b]
    BY <1>1, <2>1
  <2>3. forget' \in [pc : {"idle", "listing", "purging", "purged"}, books : BOOLEAN, trashed : BOOLEAN]
    BY <1>2, <2>2
  <2>4. forget'.pc = "purging" /\ forget'.books = forget.books /\ forget'.trashed = b
    BY <1>2, <2>2
  <2> QED
    BY <1>2, <2>1, <2>3, <2>4
<1>4. Listed(log)'
  BY <1>1, <1>2, <1>3 DEF Listed
<1> QED
  BY <1>1, <1>2, <1>3, <1>4 DEF LetGo

LEMMA PurgeLetsGo == ASSUME LetGo, PurgePerson(log) \/ ForgetPeer PROVE LetGo'
<1>1. /\ forget \in [pc : {"idle", "listing", "purging", "purged"}, books : BOOLEAN, trashed : BOOLEAN]
      /\ place \in {"shelf", "trash"} /\ (forget.pc # "idle" => paired /\ known /\ rel.state = "exited")
  BY DEF LetGo
<1>2. CASE PurgePerson(log)
  <2>1. /\ paired' = paired /\ known' = known /\ place' = place /\ rel' = rel
        /\ forget.pc = "purging" /\ forget' = [forget EXCEPT !.pc = "purged"]
    BY <1>2 DEF PurgePerson
  <2>2. /\ forget' \in [pc : {"idle", "listing", "purging", "purged"}, books : BOOLEAN, trashed : BOOLEAN]
        /\ forget'.pc = "purged"
    BY <1>1, <2>1
  <2> QED
    BY <1>1, <2>1, <2>2 DEF LetGo
<1>3. CASE ForgetPeer
  <2>1. place' = place /\ forget' = [forget EXCEPT !.pc = "idle"]
    BY <1>3 DEF ForgetPeer
  <2> QED
    BY <1>1, <2>1, IdleIsLetGo
<1> QED
  BY <1>2, <1>3

LEMMA ReadmitsLetsGo == ASSUME LetGo, Readmits PROVE LetGo'
<1>1. /\ place' = place /\ forget' = forget /\ paired' = paired /\ known' = paired /\ cast' = cast
      /\ rel' = IF paired /\ ~known /\ ~AcceptsTransport(rel.state) THEN Readmit ELSE rel
  BY DEF Readmits, ReadmitOnPairing
<1>2. CASE forget.pc = "idle"
  BY <1>1, <1>2, IdleIsLetGo DEF LetGo
<1>3. CASE forget.pc # "idle"
  <2>1. paired /\ known /\ rel.state = "exited"
    BY <1>3 DEF LetGo
  <2>2. rel' = rel /\ known' /\ paired'
    BY <1>1, <2>1
  <2>3. Listed(log) <=> Listed(log)'
    BY <1>1 DEF Listed, log
  <2> QED
    BY <1>1, <2>1, <2>2, <2>3 DEF LetGo
<1> QED
  BY <1>2, <1>3

LEMMA MeetsLetsGo == ASSUME FetchInv, LetGo, Meets PROVE LetGo'
<1>0. paired' \in {paired, TRUE}
  BY DEF Meets, Pairs
<1>a. paired => paired'
  BY <1>0
<1>b. place' = place /\ forget' = forget /\ known' = known /\ rel' = rel
  BY DEF Meets, Pairs
<1>1. place' = place /\ forget' = forget /\ known' = known /\ rel' = rel /\ (paired => paired')
  BY <1>a, <1>b
<1>2. cast'.log = cast.log
  BY RoundIs, SpendsKeeps DEF Meets, Event
<1>3. Listed(log) <=> Listed(log)'
  BY <1>1, <1>2 DEF Listed, log
<1> QED
  BY <1>1, <1>3 DEF LetGo

LEMMA MovesLetsGo == ASSUME LetGo, MovesTheBook, ~cast.hasty PROVE LetGo'
<1>1. forget' = forget /\ forget.pc = "idle" /\ place' \in {"shelf", "trash"}
  BY DEF MovesTheBook, Moves
<1> QED
  BY <1>1, IdleIsLetGo DEF LetGo

LEMMA RestartsLetsGo == ASSUME LetGo, Restarts PROVE LetGo'
<1>1. forget' = [forget EXCEPT !.pc = "idle"] /\ place' = place
  BY DEF Restarts, ReaderRestarts
<1>2. forget \in [pc : {"idle", "listing", "purging", "purged"}, books : BOOLEAN, trashed : BOOLEAN]
      /\ place \in {"shelf", "trash"}
  BY DEF LetGo
<1> QED
  BY <1>1, <1>2, IdleIsLetGo

LEMMA LetGoStep == FetchInv /\ LetGo /\ ~cast.hasty /\ [CircleNext]_circleVars => LetGo'
<1> SUFFICES ASSUME FetchInv, LetGo, ~cast.hasty, [CircleNext]_circleVars PROVE LetGo'
  OBVIOUS
<1>1. cast'.log = cast.log
  BY CastStays
<1>2. CASE Fetching \/ Asleep \/ Loses
  <2>1. UNCHANGED <<forget, place, paired, known, rel>>
    BY <1>2 DEF Fetching, BeginRound, Dial, Judges, Answers, Pages, Nothing, Probed, Keep, LaneAdmits, LaneWrites,
                Asleep, Loses, readerVars
  <2> QED
    BY <1>1, <2>1, LetGoStays
<1>3. CASE Publishes \/ ServesAnother \/ Changes \/ TimePasses \/ Shows \/ UNCHANGED circleVars
  <2>1. UNCHANGED <<forget, place, paired, known, rel>>
    BY <1>3 DEF Publishes, ServesAnother, Changes, TimePasses, Lapse, Shows, circleVars, readerVars
  <2> QED
    BY <1>1, <2>1, LetGoStays
<1>4. CASE MovesTheBook \/ Meets \/ Forgets \/ Readmits \/ Restarts
  BY <1>4, MovesLetsGo, MeetsLetsGo, ForgetsLetsGo, ReadmitsLetsGo, RestartsLetsGo
<1>5. CASE Forgetting
  BY <1>5, ListsLetsGo, PurgeLetsGo DEF Forgetting
<1> QED
  BY <1>2, <1>3, <1>4, <1>5 DEF CircleNext

\* The reader is not hasty.
Steady == ~cast.hasty /\ Epochs /\ LetGo

LEMMA SteadyStep == FetchInv /\ Steady /\ [CircleNext]_circleVars => Steady'
<1> SUFFICES ASSUME FetchInv, Steady, [CircleNext]_circleVars PROVE Steady'
  OBVIOUS
<1>1. ~cast'.hasty
  BY CastStays DEF Steady
<1> QED
  BY <1>1, EpochsStep, LetGoStep DEF Steady

LEMMA SteadyStarts == ASSUME \A c \in Casts : ~c.hasty PROVE CircleInit => Steady
<1> SUFFICES ASSUME CircleInit PROVE Steady
  OBVIOUS
<1>1. cast \in Casts /\ file = NothingShared /\ round = Resting /\ rel = [state |-> "admitted", epoch |-> 1] /\ cut = 0
      /\ place = "shelf" /\ forget = [pc |-> "idle", books |-> FALSE, trashed |-> FALSE]
  BY DEF CircleInit, ReaderInit
<1>2. ~cast.hasty
  BY <1>1
<1>3. round.pc = "idle" /\ round.epoch = 0 /\ round.held = NothingShared
  BY <1>1 DEF Resting
<1>4. Epochs
  <2>1. rel.epoch = 1 /\ cut = 0 /\ After(file, cut) /\ After(round.held, cut)
    BY <1>1, <1>3, AfterNothing
  <2> QED
    BY <1>1, <1>3, <2>1 DEF Epochs
<1>5. LetGo
  BY <1>1 DEF LetGo
<1> QED
  BY <1>2, <1>4, <1>5 DEF Steady

LEMMA SteadyForgets == FetchInv /\ Steady => Forgotten
BY DEF Steady, Epochs, After, Words, Forgotten

(* Once a person is forgotten nothing of theirs is held, and nothing that came before comes
   back though a round was out, when the book stays and their pairing was looked at: the
   relationship ends before the purge, and on the lane no file is written but in the epoch
   that stands (circlePort.ts's forget and writeOnLane). *)
THEOREM ForgottenForGood ==
    ASSUME \A c \in Casts : ~c.hasty
    PROVE  CircleSpec => []Forgotten
<1>1. CircleInit => Steady
  BY SteadyStarts
<1> QED
  BY <1>1, FetchAlways, SteadyStep, SteadyForgets, PTL DEF CircleSpec
=============================================================================
