----------------------------- MODULE MCExchange -----------------------------
(* Small instances of Exchange for TLC.                                     *)
EXTENDS Exchange, TLC

CONSTANTS A, B, d, k, x, y, NoRecord

\* Nothing tells the values of a record apart.
ValueSymmetry == Permutations(Values)

\* Bound.  Commits that stand in one line, of which the last is only one more, are
\* looked at up to the one before it.
Explored ==
    Len(commits) = MaxCommits => \E c \in 2..MaxCommits : commits[c].parents # {c - 1}

=============================================================================
