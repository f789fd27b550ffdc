------------------------------ MODULE EventLedger ------------------------------
(***************************************************************************)
(* What the event bus promises from end to end, without saying how: an     *)
(* event is engaged with the commit of its mutation, broadcast only then,  *)
(* audited or archived only once broadcast, never forgotten afterwards,    *)
(* and audited exactly once.                                               *)
(***************************************************************************)
EXTENDS Naturals

CONSTANT Events

VARIABLES
    engages,    \* events committed with their business mutation
    diffuses,   \* events on the bus
    audites,    \* event |-> lines of the audit trail
    archives    \* events kept in the dead-letter table

vars == <<engages, diffuses, audites, archives>>

Init ==
    /\ engages = {} /\ diffuses = {} /\ archives = {}
    /\ audites = [e \in Events |-> 0]

Engager(e) ==
    /\ e \notin engages
    /\ engages' = engages \union {e}
    /\ UNCHANGED <<diffuses, audites, archives>>

Diffuser(e) ==
    /\ e \in engages \ diffuses
    /\ diffuses' = diffuses \union {e}
    /\ UNCHANGED <<engages, audites, archives>>

Auditer(e) ==
    /\ e \in diffuses /\ audites[e] = 0
    /\ audites' = [audites EXCEPT ![e] = 1]
    /\ UNCHANGED <<engages, diffuses, archives>>

Archiver(e) ==
    /\ e \in diffuses \ archives
    /\ archives' = archives \union {e}
    /\ UNCHANGED <<engages, diffuses, audites>>

Next == \E e \in Events : Engager(e) \/ Diffuser(e) \/ Auditer(e) \/ Archiver(e)

Spec == Init /\ [][Next]_vars
=============================================================================
