----------------------------- MODULE MCReplicas -----------------------------
(* Replicas for TLC: what builds from before the clock may have left.  With two *)
(* devices the stamps 3 and 6 are nobody's: above 1 and 2, which a device whose *)
(* wall is slow may still give.                                                 *)
EXTENDS Replicas

CONSTANT t1

NoTags == [t \in Tag |-> Unset]

\* Stamped by the wall while no sync was there; a list of tags, added on day 1; and
\* one whose stamps are the epoch.
MCLegacy ==
    {[meta |-> [parsed |-> -1, schema |-> 0, v |-> 1], position |-> [at |-> 3, v |-> 1], status |-> Unset,
      finished |-> Unset, tags |-> NoTags, clocked |-> FALSE, added |-> 2, opened |-> -1],
     [meta |-> [parsed |-> 1, schema |-> 0, v |-> 2], position |-> [at |-> 0, v |-> 2],
      status |-> Unset, finished |-> [at |-> 0, v |-> 1],
      tags |-> [t \in Tag |-> [at |-> HlcOf(1), v |-> 1]], clocked |-> FALSE, added |-> 1, opened |-> 1],
     [meta |-> [parsed |-> 1, schema |-> 0, v |-> 1], position |-> [at |-> 0, v |-> 1],
      status |-> Unset, finished |-> [at |-> 0, v |-> 0],
      tags |-> NoTags, clocked |-> FALSE, added |-> -1, opened |-> 1]}

=============================================================================
