--------------------------- MODULE SessionService ---------------------------
(***************************************************************************)
(* What mvgitd promises the sessions of a user, with the run directory     *)
(* taken away: no token, no pid file, no lock, no FIFO, no pipe.           *)
(*                                                                         *)
(* One process at a time serves; a process that has stopped serving, or    *)
(* was never let in, does not come back.  A session that has been told it  *)
(* is connected is taken on once, by the process then serving, and its     *)
(* service ends once, whatever becomes of the process that took it on.     *)
(***************************************************************************)
CONSTANTS
    Conn,       \* the sessions, and the server each may have started
    Nobody      \* no server

VARIABLES
    running,    \* the servers that serve: none or one
    past,       \* the servers that will not serve (again)
    phase,      \* phase[c]: how far the service of session c has come
    by          \* by[c]: the server that took it on

vars == <<running, past, phase, by>>

Init ==
    /\ running = {}
    /\ past = {}
    /\ phase = [c \in Conn |-> "asking"]
    /\ by = [c \in Conn |-> Nobody]

TakeCharge(s) ==
    /\ running = {}
    /\ s \notin past
    /\ running' = {s}
    /\ UNCHANGED <<past, phase, by>>

\* A server that loses the race, or is killed before it serves.
Withdraw(s) ==
    /\ s \notin running
    /\ past' = past \cup {s}
    /\ UNCHANGED <<running, phase, by>>

Resign(s) ==
    /\ running = {s}
    /\ running' = {}
    /\ past' = past \cup {s}
    /\ UNCHANGED <<phase, by>>

Pass(c, from, to) == phase[c] = from /\ phase' = [phase EXCEPT ![c] = to]

Tell(c) ==
    /\ Pass(c, "asking", "told")
    /\ UNCHANGED <<running, past, by>>

Serve(c, s) ==
    /\ running = {s}
    /\ Pass(c, "told", "served")
    /\ by' = [by EXCEPT ![c] = s]
    /\ UNCHANGED <<running, past>>

Finish(c) ==
    /\ Pass(c, "served", "over")
    /\ UNCHANGED <<running, past, by>>

Next ==
    \/ \E s \in Conn : TakeCharge(s) \/ Withdraw(s) \/ Resign(s)
    \/ \E c \in Conn : Tell(c) \/ Finish(c) \/ \E s \in Conn : Serve(c, s)

Spec == Init /\ [][Next]_vars

=============================================================================
