------------------------------ MODULE MCMvgitd ------------------------------
(***************************************************************************)
(* Instances of Mvgitd for TLC.  The invocations are model values; the     *)
(* runs differ in who is started by hand, in which builds are around and   *)
(* in what the operator and the machine may do.                            *)
(***************************************************************************)
EXTENDS Mvgitd

CONSTANTS c1, c2, c3, old, new

MCThree == {c1, c2, c3}
MCTwo   == {c1, c2}

\* One installed build, and an upgrade that c1 precedes.
MCSameBuild == [c \in Conn |-> new]
MCUpgrade   == [c \in Conn |-> IF c = c1 THEN old ELSE new]

=============================================================================
