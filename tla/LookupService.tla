--------------------------- MODULE LookupService ----------------------------
(***************************************************************************)
(* What the resolver promises to the event loop, without threads, locks or *)
(* wake-ups: a line of lookups.  A prober joins the end of the line, at    *)
(* most once at a time; answers come in batches from its front, one for    *)
(* every lookup and in the order in which they were asked for; a prober    *)
(* that goes away leaves its place in the line behind, and the answer to   *)
(* it reaches nobody.                                                      *)
(***************************************************************************)
EXTENDS Naturals, Sequences, Functions

CONSTANT Uids

VARIABLES line,     \* the lookups asked for and not answered yet, in order
          waiting   \* the probers that wait for an answer

vars == <<line, waiting>>

Init == line = << >> /\ waiting = {}

Ask(u) ==
    /\ u \notin Range(line)
    /\ line' = Append(line, u) /\ waiting' = waiting \cup {u}

\* The first n lookups in the line are answered.
Answer(n) ==
    /\ line' = SubSeq(line, n + 1, Len(line))
    /\ waiting' = waiting \ Range(SubSeq(line, 1, n))

GoAway(u) == waiting' = waiting \ {u} /\ UNCHANGED line

Next ==
    \/ \E u \in Uids : Ask(u) \/ GoAway(u)
    \/ \E n \in 1..Len(line) : Answer(n)

Spec == Init /\ [][Next]_vars
=============================================================================
