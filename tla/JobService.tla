----------------------------- MODULE JobService -----------------------------
(***************************************************************************)
(* What the ingestion queue promises its callers: accepted jobs begin in   *)
(* the order they were accepted, each at most once, at most MaxConcurrent  *)
(* of them at a time; once the service is closing none begins, and once it *)
(* is closed none runs.                                                    *)
(***************************************************************************)
EXTENDS Naturals, Sequences, FiniteSets

CONSTANTS Jobs, MaxConcurrent

VARIABLES
    accepted,  \* jobs ever accepted
    backlog,   \* accepted and not begun, in order
    running,   \* begun and not ended
    phase      \* "open", "closing" or "closed"

svars == <<accepted, backlog, running, phase>>

Init ==
    /\ accepted = {}
    /\ backlog = <<>>
    /\ running = {}
    /\ phase = "open"

Accept(j) ==
    /\ j \notin accepted
    /\ accepted' = accepted \cup {j}
    /\ backlog' = Append(backlog, j)
    /\ UNCHANGED <<running, phase>>

Begin ==
    /\ phase = "open"
    /\ backlog # <<>>
    /\ Cardinality(running) < MaxConcurrent
    /\ running' = running \cup {Head(backlog)}
    /\ backlog' = Tail(backlog)
    /\ UNCHANGED <<accepted, phase>>

End(j) ==
    /\ j \in running
    /\ running' = running \ {j}
    /\ UNCHANGED <<accepted, backlog, phase>>

Closing ==
    /\ phase = "open"
    /\ phase' = "closing"
    /\ UNCHANGED <<accepted, backlog, running>>

(* Jobs that wait are given up while the service closes. *)
GiveUp ==
    /\ phase = "closing"
    /\ \E n \in 1..Len(backlog) : backlog' = SubSeq(backlog, n + 1, Len(backlog))
    /\ UNCHANGED <<accepted, running, phase>>

Closed ==
    /\ phase = "closing"
    /\ running = {}
    /\ phase' = "closed"
    /\ UNCHANGED <<accepted, backlog, running>>

Next ==
    \/ \E j \in Jobs : Accept(j) \/ End(j)
    \/ Begin \/ Closing \/ GiveUp \/ Closed

Spec == Init /\ [][Next]_svars
=============================================================================
