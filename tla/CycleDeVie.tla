------------------------------ MODULE CycleDeVie ------------------------------
(***************************************************************************)
(* What the contexts promise of everything that goes through a workflow    *)
(* (nodes, rules, corpora, referential rows, catalogues, grids,            *)
(* subscriptions): an object is created in its first state, moves along    *)
(* the arrows of its workflow, one object at a time, and each of the moves *)
(* that the other products must know of is announced, by that step and by  *)
(* no other.  Nothing is promised once two requests have overlapped.       *)
(***************************************************************************)
CONSTANTS
    Objets,
    Initial(_),         \* the first state of an object
    Fleches(_),         \* its workflow, as pairs of states
    Notoire(_, _)       \* whether its arrival in a state is announced

VARIABLES
    etats,              \* object |-> its state, {} before it is created
    annonce,            \* the objects announced by the last step
    perturbe

Creer(o) ==
    /\ etats[o] = {}
    /\ etats' = [etats EXCEPT ![o] = {Initial(o)}]
    /\ annonce' = {}

Avancer(o) ==
    \E f \in Fleches(o) :
        /\ etats[o] = {f[1]}
        /\ etats' = [etats EXCEPT ![o] = {f[2]}]
        /\ annonce' = IF Notoire(o, f[2]) THEN {o} ELSE {}

Silence == annonce' = {} /\ UNCHANGED etats

Perturber == perturbe'

Next == Perturber \/ Silence \/ \E o \in Objets : Creer(o) \/ Avancer(o)

Spec == annonce = {} /\ [][Next]_<<etats, annonce>>
=============================================================================
