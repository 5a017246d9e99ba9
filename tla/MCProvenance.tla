---------------------------- MODULE MCProvenance ----------------------------
(* Provenance for TLC. *)
EXTENDS Provenance, TLC

CONSTANTS A, B, record, marks

\* One book with two surfaces on its lane, another with one.
ThreeKeys == {<<A, record>>, <<A, marks>>, <<B, record>>}

TwoKeys == {<<A, record>>, <<B, record>>}

\* The end of markRemote comes before anything else that could: what a ticket
\* does meanwhile is then no matter of microtasks.
PromptNext ==
    IF \E b \in Batch : batch[b] = "open" /\ Settled(b)
    THEN \E b \in Batch : Close(b)
    ELSE Next

PromptSpec == Init /\ [][PromptNext]_vars

=============================================================================
