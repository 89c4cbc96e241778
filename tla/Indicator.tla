----------------------------- MODULE Indicator ------------------------------
(***************************************************************************)
(* What the user is promised about one LED, with no counters: the LED      *)
(* changes only to a verdict that more than `tolerance' samples in a row   *)
(* agree on, and then it does change.  The first sample is shown at once.  *)
(* Changing the tolerance never changes what is shown; replacing the       *)
(* destination forgets everything.                                         *)
(***************************************************************************)
EXTENDS Naturals, Sequences

CONSTANT Samples, Nothing

VARIABLES shown, tolerance, samples

vars == <<shown, tolerance, samples>>

\* The last n samples all said v.
LastAgree(s, n, v) ==
    /\ Len(s) >= n
    /\ \A i \in (Len(s) - n + 1)..Len(s) : s[i] = v

Init == shown = Nothing /\ tolerance \in Nat /\ samples = << >>

Sample(v) ==
    /\ samples' = Append(samples, v)
    /\ shown' = IF shown = Nothing \/ LastAgree(samples', tolerance + 1, v) THEN v ELSE shown
    /\ UNCHANGED tolerance

Retune == tolerance' \in Nat /\ UNCHANGED <<shown, samples>>

Replace == shown' = Nothing /\ samples' = << >> /\ tolerance' \in Nat

Next == Retune \/ Replace \/ \E v \in Samples : Sample(v)

Spec == Init /\ [][Next]_vars
=============================================================================
