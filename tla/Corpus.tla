------------------------------- MODULE Corpus -------------------------------
(***************************************************************************)
(* What a connector promises to those who rely on the knowledge graph: it  *)
(* vouches for a content only while all of it is there, brings records in  *)
(* one by one, and takes nothing away without first withdrawing its word.  *)
(***************************************************************************)
CONSTANTS Records, None

VARIABLES
    present,  \* the records with an episode in the graph
    vouched   \* the content the connector vouches for, or None

corpus == <<present, vouched>>

Contents == (SUBSET Records) \ {{}}

Init == present = {} /\ vouched = None

BringIn(r) ==
    /\ present' = present \cup {r}
    /\ UNCHANGED vouched

VouchFor(content) ==
    /\ content \subseteq present
    /\ vouched' = content
    /\ UNCHANGED present

Withdraw ==
    /\ vouched' = None
    /\ present' \in SUBSET present

Next ==
    \/ \E r \in Records : BringIn(r)
    \/ \E content \in Contents : VouchFor(content)
    \/ Withdraw

Spec == Init /\ [][Next]_corpus
=============================================================================
