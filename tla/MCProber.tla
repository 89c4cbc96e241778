------------------------------ MODULE MCProber ------------------------------
(* One subscriber that changes colour on its second disagreeing sample.     *)
EXTENDS Prober

MCSettings == [s \in Subscribers |->
    [threshold |-> 1, sensitivity |-> 1, enabled |-> TRUE, partTime |-> FALSE]]
=============================================================================
