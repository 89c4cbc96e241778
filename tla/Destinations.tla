---------------------------- MODULE Destinations ----------------------------
(***************************************************************************)
(* The destinations of one client as the daemon evaluates them: samples    *)
(* arrive from the probers and the configuration is edited in between.  An *)
(* edit of several rows is a sequence of edits of one row with no sample   *)
(* between them, so Reload edits one row.                                  *)
(***************************************************************************)
EXTENDS Health, Sequences

CONSTANTS Rows,        \* the client's destinations
          Configs,     \* the settings a row may be given
          Rtts,        \* the round-trip times a reply may have
          MaxSamples   \* bound on the samples between two replacements of a row

ASSUME DestinationsAssumption ==
    /\ IsFiniteSet(Rows)
    /\ Configs \subseteq Config
    /\ Rtts \subseteq Nat
    /\ MaxSamples \in Nat

VARIABLES
    dest,      \* m_clients[c].destinations, by row
    samples    \* history: what each row's samples said since it was (re)placed

vars == <<dest, samples>>

TypeOK ==
    /\ dest \in [Rows -> Destination]
    /\ samples \in [Rows -> Seq(Verdicts)]

Init ==
    /\ dest \in [Rows -> {NewDestination(c) : c \in Configs}]
    /\ samples = [r \in Rows |-> << >>]

\* A prober reports to an enabled destination that subscribes to it.
Sample(r, received, rtt) ==
    /\ dest[r].cfg.enabled
    /\ Len(samples[r]) < MaxSamples
    /\ dest' = [dest EXCEPT ![r] = applySample(dest[r], received, rtt)]
    /\ samples' = [samples EXCEPT ![r] = Append(@, classify(received, rtt, dest[r].cfg.threshold))]

\* The settings of a row are edited; its id and address stay.
ReloadKeep(r, cfg) ==
    /\ dest' = [dest EXCEPT ![r] = CarryOver(dest[r], cfg)]
    /\ UNCHANGED samples

\* The row gets another id or address: a new destination in its place.
ReloadReplace(r, cfg) ==
    /\ dest' = [dest EXCEPT ![r] = NewDestination(cfg)]
    /\ samples' = [samples EXCEPT ![r] = << >>]

Next ==
    \E r \in Rows :
        \/ \E rtt \in Rtts : Sample(r, TRUE, rtt)
        \/ Sample(r, FALSE, 0)
        \/ \E cfg \in Configs : ReloadKeep(r, cfg)
        \/ \E cfg \in Configs : ReloadReplace(r, cfg)

Spec == Init /\ [][Next]_vars

-----------------------------------------------------------------------------
(* What the summary is meant to say: the worst state of the enabled        *)
(* destinations that are not expected to be off.                           *)
Severity == [good |-> 1, unknown |-> 2, warn |-> 3, bad |-> 4]

Judged == {Shown(dest[r]) : r \in {q \in Rows : dest[q].cfg.enabled}} \ {"offline"}

WorstState ==
    IF Judged = {} THEN "idle"
    ELSE CHOOSE s \in Judged : \A t \in Judged : Severity[t] <= Severity[s]

\* "Worst state wins" (monitor.cpp:710-722): after any history of samples and
\* edits the summary computed from the counts is the worst state shown, and
\* part-time hosts that are off take no part in it.
WorstStateWins == Overall(dest) = WorstState

\* The loss shown is computed as sent - received on unsigned counters
\* (monitor.cpp:679): no history of samples, losses and carried-over edits may
\* make it wrap, and a round-trip time is on show exactly when the latest
\* sample was answered.
CountersSound ==
    \A r \in Rows :
        /\ dest[r].received <= dest[r].sent
        /\ dest[r].sent = Len(samples[r])
        /\ dest[r].haveRtt <=> samples[r] # << >> /\ samples[r][Len(samples[r])] # "bad"

\* The strengthening of the refinement: the candidate is the latest sample and,
\* while it disagrees with what is shown, the streak is exactly the length of
\* the run of samples that said so.
StreakIsRun ==
    \A r \in Rows :
        LET d == dest[r]
            s == samples[r]
            n == d.candidateStreak
        IN IF s = << >>
           THEN d.state = "unknown" /\ d.candidate = "unknown" /\ n = 0
           ELSE /\ d.state # "unknown"
                /\ d.candidate = s[Len(s)]
                /\ n = 0 <=> d.candidate = d.state
                /\ n > 0 => /\ n < Len(s)
                            /\ \A i \in (Len(s) - n + 1)..Len(s) : s[i] = d.candidate
                            /\ s[Len(s) - n] # d.candidate

Led(r) == INSTANCE Indicator WITH
              Samples <- Verdicts, Nothing <- "unknown",
              shown <- dest[r].state, tolerance <- dest[r].cfg.sensitivity,
              samples <- samples[r]

\* Every row's LED keeps the promise of Indicator, whatever the interleaving of
\* samples and edits of sensitivity and threshold (applySample and reloadClients).
LedPromise ==
    /\ \A r \in Rows : Led(r)!Init
    /\ [][\A r \in Rows : [Led(r)!Next]_(Led(r)!vars)]_vars
=============================================================================
