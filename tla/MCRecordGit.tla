----------------------------- MODULE MCRecordGit -----------------------------
(* Small accounts for TLC.                                                  *)
EXTENDS RecordGit, TLC

CONSTANTS F, A, O, D,                  \* a file, two record ids, a dictionary id
          PROC, STK, QPTR, CAT               \* one VOC record of each kind

\* A VOC with a record of the kinds that add and status tell apart; an
\* edited stock record is one of the user's own.
KindClass    == [i \in VocIds |-> IF i = STK THEN 0 ELSE 2]
KindStock    == [i \in {STK} |-> 1]
SomeNamed == {PointerTo(F), <<F, "data", A>>, <<VOC, "data", STK>>}

\* One exclusion at a time; a provisioning pointer and an object are there or
\* not; and once there is a commit the file and the stock record alone are in
\* play.
Bounded ==
    /\ Cardinality(ignored) <= 1
    /\ live[<<VOC, "data", CAT>>] # 2 /\ live[<<F, "data", O>>] # 2
    /\ commits # << >> =>
          \A p \in {<<VOC, "data", QPTR>>, <<VOC, "data", CAT>>, <<F, "data", O>>} :
              live[p] = None /\ index[p] = None

\* A VOC that holds nothing but the pointers to the users' files.
BareClass   == [i \in {} |-> 0]
NoStock     == [i \in {} |-> 1]
NoSource    == [i \in {} |-> A]
ObjectOfA   == O :> A
NothingNamed == {}

\* What a record holds matters only by being the same or not.
ValueSymmetry == Permutations(Values)

=============================================================================
