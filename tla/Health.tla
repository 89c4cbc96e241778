------------------------------- MODULE Health -------------------------------
(***************************************************************************)
(* The health verdicts of the daemon, as pure operators: how one probe is  *)
(* classified, how a destination's indicator follows the samples, how a    *)
(* state is reported and how a client's states are summed up.              *)
(*                                                                         *)
(* Times are naturals in one unit.  The wall-clock stamps lastReplyRealUs  *)
(* and lastChangeRealUs are only displayed and are left out.               *)
(***************************************************************************)
EXTENDS Naturals, FiniteSets

\* What one probe can say.
Verdicts == {"good", "warn", "bad"}

\* What a destination's indicator can hold; Offline is only ever reported.
HealthState == {"unknown"} \cup Verdicts

classify(received, rtt, threshold) ==
    IF ~received THEN "bad" ELSE IF rtt <= threshold THEN "good" ELSE "warn"

reportedState(state, partTime) ==
    IF partTime /\ state = "bad" THEN "offline" ELSE state

Config == [threshold: Nat, sensitivity: Nat, enabled: BOOLEAN, partTime: BOOLEAN]

Destination ==
    [cfg: Config, state: HealthState, candidate: HealthState, candidateStreak: Nat,
     haveRtt: BOOLEAN, rtt: Nat, sent: Nat, received: Nat]

\* A destination as the configuration file introduces it.
NewDestination(cfg) ==
    [cfg |-> cfg, state |-> "unknown", candidate |-> "unknown", candidateStreak |-> 0,
     haveRtt |-> FALSE, rtt |-> 0, sent |-> 0, received |-> 0]

\* The destination survives an edit: new settings, everything measured is kept.
CarryOver(old, cfg) == [old EXCEPT !.cfg = cfg]

\* Mutant: the streak survives a change of verdict.
StreakOfAnything(d, sample) == d.candidateStreak + 1

\* The streak of disagreeing samples, this one included.
Streak(d, sample) == IF sample = d.candidate THEN d.candidateStreak + 1 ELSE 1

\* Mutant: one agreeing sample too few is enough.
AdoptsEarly(d, sample) ==
    \/ d.state = "unknown"
    \/ sample # d.state /\ Streak(d, sample) >= d.cfg.sensitivity

\* The sample is shown at once: it is the first one, or one too many in a row.
Adopts(d, sample) ==
    \/ d.state = "unknown"
    \/ sample # d.state /\ Streak(d, sample) > d.cfg.sensitivity

\* Mutants of applySample: the state is stored as it is reported; a lost probe
\* leaves the last round-trip time on show.
applySampleReported(d, received, rtt) ==
    [d EXCEPT !.state = reportedState(classify(received, rtt, d.cfg.threshold), d.cfg.partTime),
              !.candidate = @, !.sent = @ + 1]

applySampleKeepsRtt(d, received, rtt) ==
    LET sample == classify(received, rtt, d.cfg.threshold)
    IN [d EXCEPT !.state = IF Adopts(d, sample) THEN sample ELSE d.state,
                 !.candidate = sample,
                 !.candidateStreak = IF Adopts(d, sample) \/ sample = d.state
                                     THEN 0 ELSE Streak(d, sample),
                 !.haveRtt = received \/ d.haveRtt,
                 !.sent = @ + 1,
                 !.received = IF received THEN @ + 1 ELSE @]

\* What one subscriber makes of a probe's outcome.
applySample(d, received, rtt) ==
    LET sample == classify(received, rtt, d.cfg.threshold)
    IN [cfg |-> d.cfg,
        state |-> IF Adopts(d, sample) THEN sample ELSE d.state,
        candidate |-> sample,
        candidateStreak |-> IF Adopts(d, sample) \/ sample = d.state
                            THEN 0 ELSE Streak(d, sample),
        haveRtt |-> received,
        rtt |-> IF received THEN rtt ELSE d.rtt,
        sent |-> d.sent + 1,
        received |-> IF received THEN d.received + 1 ELSE d.received]

\* Shown(d) for every destination of a client; only enabled ones are counted.
Shown(d) == reportedState(d.state, d.cfg.partTime)

CountShown(dests, s) ==
    Cardinality({i \in DOMAIN dests : dests[i].cfg.enabled /\ Shown(dests[i]) = s})

CountEnabled(dests) == Cardinality({i \in DOMAIN dests : dests[i].cfg.enabled})

\* Mutant: destinations that are expected to be off are not set aside.
OverallOfAll(dests) ==
    IF CountEnabled(dests) = 0 THEN "idle"
    ELSE IF CountShown(dests, "bad") > 0 THEN "bad"
    ELSE IF CountShown(dests, "warn") > 0 THEN "warn"
    ELSE IF CountShown(dests, "unknown") = 0 THEN "good"
    ELSE "unknown"

\* The one-word summary, worked out from the counts.
Overall(dests) ==
    IF CountEnabled(dests) = CountShown(dests, "offline") THEN "idle"
    ELSE IF CountShown(dests, "bad") > 0 THEN "bad"
    ELSE IF CountShown(dests, "warn") > 0 THEN "warn"
    ELSE IF CountShown(dests, "unknown") = 0 THEN "good"
    ELSE "unknown"
=============================================================================
