----------------------------- MODULE Answering -----------------------------
(***************************************************************************)
(* From retrieved facts to the lines of an answer                          *)
(* (app/context/orchestrator.py): the authority tie-break, the pairing of  *)
(* a superseded fact with what replaced it, and the lines themselves.      *)
(*                                                                         *)
(* An item is a fact as it was when it was retrieved; one that comes back  *)
(* twice is one item.  Lines are compared by text, so they are a set.      *)
(* Where a dict keeps the first of several, an operator gives all choices. *)
(***************************************************************************)
EXTENDS Retrieval

CONSTANTS
    Authority,  \* source_authority of each connector; 0 when it has none
    Live        \* what a live source (Foundry IQ, Fabric IQ, Work IQ) may say

Item(f, ends) == [says |-> f, valid |-> Valid(f), until |-> UntilOf(f), ends |-> ends]

(* A line without node uuids: a live source's, or a "not found". *)
Remark(text) == [says |-> text, valid |-> TRUE, until |-> 0, ends |-> FALSE]

TextOf(x) == IF x.says \in Fact THEN Edge[x.says].text ELSE x.says

-----------------------------------------------------------------------------
(* _apply_authority_tie_break. *)

Greatest(ns) == CHOOSE n \in ns : \A k \in ns : k <= n

(* authority_by_group_id: the highest among a knowledge base's connectors. *)
AuthorityOf(kb) == Greatest({0} \cup {Authority[c] : c \in {d \in Connector : FedTo[d] = kb}})

Rivals(x, items) ==
    {y \in items : y.valid /\ y.ends /\ x.valid /\ x.ends /\ Key(y.says) = Key(x.says)}

(* Different texts from different knowledge bases. *)
Disputed(x, items) ==
    /\ \E y, z \in Rivals(x, items) : TextOf(y) # TextOf(z)
    /\ \E y, z \in Rivals(x, items) : Home(y.says) # Home(z.says)

(* The items that may lose: in each dispute all but one of the highest. *)
TieBreaks(items) ==
    LET disputed == {x \in items : Disputed(x, items)}
        best(x)  == \A y \in Rivals(x, items) : AuthorityOf(Home(y.says)) <= AuthorityOf(Home(x.says))
    IN  {losers \in SUBSET disputed :
            /\ \A x \in disputed : Cardinality(Rivals(x, items) \ losers) = 1
            /\ \A x \in disputed \ losers : best(x)}

-----------------------------------------------------------------------------
(* _find_transitions: one superseded fact and one current fact for each     *)
(* source and moment at which the first ends and the second begins.         *)

Replaces(new, old) ==
    /\ old.ends /\ ~old.valid /\ old.until # 0
    /\ new.ends /\ new.valid
    /\ Edge[new.says].source = Edge[old.says].source
    /\ Edge[new.says].from = old.until

SameChange(t, u) ==
    t.old.until = u.old.until /\ Edge[t.old.says].source = Edge[u.old.says].source

Transitions(items) ==
    LET change == {t \in [old : items, new : items] : Replaces(t.new, t.old)}
    IN  {ts \in SUBSET change :
            /\ \A t \in change : \E u \in ts : SameChange(t, u)
            /\ \A t, u \in ts : SameChange(t, u) => t = u}

-----------------------------------------------------------------------------
(* _build_answer_lines. *)

Current(items, losers, ts) == {x \in items \ losers : x.valid /\ \A t \in ts : t.new # x}

FormerUnlessReplaced(items, ts) ==   \* slip: what nothing replaced here is left out
    {}

(* "Real historical information ... shouldn't vanish". *)
Former(items, ts) == {x \in items : ~x.valid /\ \A t \in ts : t.old # x}

Lines(items, losers, ts) ==
    {[kind |-> "changed", old |-> TextOf(t.old), text |-> TextOf(t.new)] : t \in ts}
    \cup {[kind |-> "is", old |-> None, text |-> TextOf(x)] : x \in Current(items, losers, ts)}
    \cup {[kind |-> "was", old |-> None, text |-> TextOf(x)] : x \in Former(items, ts)}

(* The answers there can be; only the Ask path breaks ties. *)
Answers(items, ties) ==
    {Lines(items, losers, ts) : losers \in ties, ts \in Transitions(items)}

SummaryLine(e) == [kind |-> "summary", old |-> None, text |-> e]
=============================================================================
