--------------------------- MODULE MCAccountBuild ---------------------------
(* Small instances of AccountBuild for TLC.                                 *)
EXTENDS AccountBuild

CONSTANTS A, B

\* Bounds.  An account whose records came out short, of which nothing more is said, is
\* not built once more; options are given, and records added to the checkout, for A alone;
\* and the last command has no option and, like the last kill, does not go with records
\* that came out short.
Explored ==
    /\ kills = 0 => short = {}
    /\ \A a \in Accounts \ {A} : "new" \notin did[a]
    /\ \A a \in Accounts :
          run[a].at = 1 =>
              /\ a \notin short
              /\ a # A => run[a].open = "unsaid"
              /\ runs = 0 => run[a].open = "unsaid" /\ short = {}

=============================================================================
