------------------------------ MODULE MCStaging ------------------------------
(* Values for the constants of Staging. *)
EXTENDS Staging, TLC

CONSTANTS s1, s2, r1, r2, slashed, control, v1, v2, small, large, directory, e1, e2, nobody, nothing

\* Past two commands that ran into each other no property claims anything.
Unmixed == ~mixed

\* What happens besides commands: two changes, or a change and a command broken
\* off, or one fault of another kind.
Changes == MaxUses - budget.uses
Breaks  == MaxBreaks - budget.breaks
Faults  == (MaxIdle - budget.idle) + (MaxDeaths - budget.deaths) + (MaxFaults - budget.faults)

Bounded ==
    /\ Unmixed
    /\ Changes + Breaks <= 2 /\ (Faults > 0 => Faults + Changes + Breaks <= 1)

Symmetry ==
    Permutations({s1, s2}) \cup Permutations({small, large}) \cup Permutations({e1, e2})

=============================================================================
