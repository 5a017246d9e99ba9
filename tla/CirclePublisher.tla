-------------------------- MODULE CirclePublisher --------------------------
(***************************************************************************)
(* What one person publishes, and the pages that serve it (src/src/         *)
(* capabilities/circle/lib/publish.ts, shelf.ts, exchange.ts).  Each of the *)
(* person's devices has a store of its own, one log in it, and serves from  *)
(* it the stream of entries that it stamped itself.  A page's boundary is   *)
(* decided when it is first served and written down with what the page was  *)
(* signed under, for the hash of each page is in the next one.              *)
(***************************************************************************)
EXTENDS Integers, FiniteSets, Sequences, SequencesExt, FiniteSetsExt

CONSTANTS
    Device,      \* the publisher's devices
    Pub,         \* the publications it may make
    NoPub,       \* what an entry about the book itself names
    PageRoom,    \* bound: how many entries a page holds
    MaxPages,    \* bound: how many pages an answer holds
    MaxStamp,    \* bound: the stamps there are
    MaxFrame     \* bound: how often a device's frame changes

ASSUME PublisherAssumption ==
    /\ Pub # {} /\ NoPub \notin Pub
    /\ {PageRoom, MaxPages} \subseteq Nat \ {0} /\ {MaxStamp, MaxFrame} \subseteq Nat

VARIABLES
    shared,    \* shared[d]: the store of d: publications, opinions, sealed boundaries
    frame,     \* frame[d]: the roster, revocations and delegation that d signs with now
    speaks     \* speaks[d]: the newest page version that d speaks

publisherVars == <<shared, frame, speaks>>

\* The first version carries no word about the book itself, and is a chain of its own.
Version == 1 .. 2
Carried(v, e) == v = 2 \/ e.op # "status"

NotGone == [device |-> NoPub, seq |-> 0, at |-> 0]
NothingPublished == [publications |-> {}, opinions |-> {}, sealed |-> [v \in Version |-> <<>>]]

-----------------------------------------------------------------------------
ShareOf(row) == [op |-> "share", pub |-> row.pub, device |-> row.device, seq |-> row.seq, at |-> row.at]
UnshareOf(row) ==
    [op |-> "unshare", pub |-> row.pub, device |-> row.gone.device, seq |-> row.gone.seq, at |-> row.gone.at]

LogOf(held) ==
    held.opinions \cup {ShareOf(row) : row \in held.publications}
        \cup {UnshareOf(row) : row \in {r \in held.publications : r.gone # NotGone}}

StreamOf(held, d, v) == {e \in LogOf(held) : e.device = d /\ Carried(v, e)}

\* A store seals for its own device, each version's chain apart.
LastSealed(boundaries) == IF boundaries = <<>> THEN 0 ELSE Last(boundaries).to

\* No number is minted twice: not one of a row, nor one a sealed page has covered.
NextSeq(held, d) ==
    1 + Max({0} \cup {e.seq : e \in {x \in LogOf(held) : x.device = d}}
                \cup UNION {{b.to : b \in Range(held.sealed[v])} : v \in Version})

-----------------------------------------------------------------------------
\* The entries no boundary covers, in order, a page at a time.
Fresh(held, d, v) == {e \in StreamOf(held, d, v) : e.seq > LastSealed(held.sealed[v])}

BoundaryOf(group, now) ==
    [from |-> Min({e.seq : e \in group}), to |-> Max({e.seq : e \in group}), frame |-> now]

Paginate(fresh) ==
    [i \in 1 .. (Cardinality(fresh) + PageRoom - 1) \div PageRoom |->
        {e \in fresh : Cardinality({o \in fresh : o.seq < e.seq}) \div PageRoom = i - 1}]

SealFresh(held, d, v, now) ==
    LET pages == Paginate(Fresh(held, d, v))
    IN  [i \in DOMAIN pages |-> BoundaryOf(pages[i], now)]

\* A page as it was first served: its boundary's entries under its boundary's frame.
Rebuilt(held, d, v, b) ==
    [device |-> d, from |-> b.from, to |-> b.to, v |-> v, frame |-> b.frame,
     entries |-> {e \in StreamOf(held, d, v) : e.seq \in b.from .. b.to}]

\* The pages of a chain.  The hash of a page stands for all that came before it.
Chain(held, d, v) == [i \in 1 .. Len(held.sealed[v]) |-> Rebuilt(held, d, v, held.sealed[v][i])]

\* Wrong form: every boundary is decided anew for each answer.
SealedAfresh(held, d, v, now) ==
    LET clean == [held EXCEPT !.sealed[v] = <<>>]
    IN  [clean EXCEPT !.sealed[v] = SealFresh(clean, d, v, now)]

\* pagesOver: what is fresh is sealed ...
Sealed(held, d, v, now) == [held EXCEPT !.sealed[v] = @ \o SealFresh(held, d, v, now)]

\* ... and the first pages past `since` are the answer, each with the chain that leads to
\* it, which is what its hash says.
PagesOver(chain, since) ==
    LET before == Cardinality({i \in DOMAIN chain : chain[i].to <= since})
        last == Min({before + MaxPages, Len(chain)})
    IN  [pages |-> [i \in 1 .. last - before |-> SubSeq(chain, 1, before + i)], more |-> last < Len(chain)]

-----------------------------------------------------------------------------
Stamps(held) == {e.at : e \in LogOf(held)}

\* A stamp of d's clock: later than its own, and no other device's.
Stamp(d) ==
    {at \in 1 .. MaxStamp :
        /\ \A e \in LogOf(shared[d]) : at > e.at
        /\ \A o \in Device : at \notin Stamps(shared[o])}

\* An id is minted per publication, and never again.
Minted == {row.pub : row \in UNION {shared[o].publications : o \in Device}}
Mint(minted) == CHOOSE pub \in Pub \ minted : TRUE

Share(d) ==
    /\ Minted # Pub
    /\ \E at \in Stamp(d) :
          shared' = [shared EXCEPT ![d].publications = @ \cup
             {[pub |-> Mint(Minted), device |-> d, seq |-> NextSeq(shared[d], d), at |-> at, gone |-> NotGone]}]
    /\ UNCHANGED <<frame, speaks>>

\* A withdrawal is stamped by the device that makes it, whoever published.
Unshare(d, pub) ==
    /\ \E at \in Stamp(d), row \in shared[d].publications :
          /\ row.pub = pub /\ row.gone = NotGone
          /\ shared' = [shared EXCEPT ![d].publications = (@ \ {row}) \cup
                {[row EXCEPT !.gone = [device |-> d, seq |-> NextSeq(shared[d], d), at |-> at]]}]
    /\ UNCHANGED <<frame, speaks>>

\* A word about the book, whose value is named by its stamp.
Republish(d) ==
    /\ \E at \in Stamp(d) :
          shared' = [shared EXCEPT ![d].opinions = @ \cup
             {[op |-> "status", pub |-> NoPub, device |-> d, seq |-> NextSeq(shared[d], d), at |-> at]}]
    /\ UNCHANGED <<frame, speaks>>

\* Another friend asks, and is the first to be served what is fresh.
OtherIsServed(d, v) ==
    /\ v <= speaks[d]
    /\ shared' = [shared EXCEPT ![d] = Sealed(@, d, v, frame[d])]
    /\ UNCHANGED <<frame, speaks>>

\* The roster, the revocations or the delegation change.
Reframe(d) == frame[d] < MaxFrame /\ frame' = [frame EXCEPT ![d] = @ + 1] /\ UNCHANGED <<shared, speaks>>

\* A newer build.
Upgrade(d) == speaks[d] < 2 /\ speaks' = [speaks EXCEPT ![d] = 2] /\ UNCHANGED <<shared, frame>>

-----------------------------------------------------------------------------
Row == [pub : Pub, device : Device, seq : Nat, at : Nat,
        gone : {NotGone} \cup [device : Device, seq : Nat, at : Nat]]
Entry == [op : {"share", "unshare", "status"}, pub : Pub \cup {NoPub}, device : Device, seq : Nat, at : Nat]
Boundary == [from : Nat, to : Nat, frame : Nat]

PublisherTypes ==
    /\ \A d \in Device :
          /\ shared[d].publications \subseteq Row
          /\ shared[d].opinions \subseteq Entry
          /\ shared[d].sealed \in [Version -> Seq(Boundary)]
    /\ frame \in [Device -> 0 .. MaxFrame]
    /\ speaks \in [Device -> Version]

\* No two entries of a log have one number, and a chain's boundaries follow each other:
\* a store that did otherwise is refused when it is read, and serves nothing again.
StoresRead ==
    \A d \in Device :
       /\ \A a, b \in LogOf(shared[d]) : a.device = b.device /\ a.seq = b.seq => a = b
       /\ \A v \in Version : LET chain == shared[d].sealed[v]
                             IN  \A i, j \in DOMAIN chain : i < j => chain[i].to < chain[j].from
=============================================================================
