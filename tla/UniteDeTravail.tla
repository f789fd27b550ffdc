---------------------------- MODULE UniteDeTravail ----------------------------
(***************************************************************************)
(* What the use-cases of the bounded contexts have in common.  A request   *)
(* runs in one READ COMMITTED transaction: its use-case reads the rows it  *)
(* needs, checks its guards on them and changes a copy of one row in       *)
(* memory; TypeORM's save reads the row again and writes the columns in    *)
(* which the copy differs from it; the commit makes them visible and hands *)
(* the event of the use-case to the Outbox.  Between these three steps     *)
(* other requests commit: no row is locked, and no row has a version.      *)
(*                                                                         *)
(* A table is a function from ids to sets of at most one row.  The reads   *)
(* of a use-case are one step; what the interceptor, the Outbox and the    *)
(* audit do with a request is modelled by RequestTransaction.              *)
(***************************************************************************)
EXTENDS Integers, FiniteSets, Sequences

CONSTANTS
    Requetes,       \* requests that may be in progress together
    Pays,           \* the countries that rows refer to
    Nul             \* null: no parent, no event

VARIABLES
    requete,        \* request |-> its write in progress, {} if none
    emission,       \* the event, if any, that the last step committed
    recouvrement    \* a request has committed after another one changed rows
                    \* since it read them

uniteVars == <<requete, emission, recouvrement>>

InitUnite ==
    /\ requete = [r \in Requetes |-> {}]
    /\ emission = {}
    /\ recouvrement = FALSE

(* The use-case has read row i of table t, and will write ligne.           *)
Ecriture(t, i, ligne, insertion, type) ==
    [table |-> t, id |-> i, ligne |-> ligne, insertion |-> insertion, type |-> type,
     enregistre |-> FALSE, colonnes |-> {}, depasse |-> FALSE]

TraiterTout(r, ecritures) ==
    /\ requete[r] = {}
    /\ requete' = [requete EXCEPT ![r] = ecritures]
    /\ emission' = {}
    /\ UNCHANGED recouvrement

Traiter(r, t, lignes, i, ligne, type) ==
    TraiterTout(r, {Ecriture(t, i, ligne, lignes[i] = {}, type)})

(* uuidv4: an id that no row has and that no other request has drawn.      *)
Neuf(t, lignes, i) ==
    /\ lignes[i] = {}
    /\ \A s \in Requetes : \A q \in requete[s] : q.table = t => q.id # i

Modifiees(q, lignes) ==
    {c \in DOMAIN q.ligne : q.insertion \/ \E l \in lignes[q.id] : l[c] # q.ligne[c]}

(* repo.save: the row is read again, the differences are written.          *)
save(r, t, lignes) ==
    /\ \E q \in requete[r] :
          /\ q.table = t /\ ~q.enregistre
          /\ requete' = [requete EXCEPT ![r] =
                (@ \ {q}) \union {[q EXCEPT !.enregistre = TRUE, !.colonnes = Modifiees(q, lignes)]}]
    /\ emission' = {}
    /\ UNCHANGED recouvrement

(* The table after the request's writes; the columns that it left alone    *)
(* keep the values of the row as it is by then.                            *)
Fusion(q, l) == [c \in DOMAIN q.ligne |-> IF c \in q.colonnes THEN q.ligne[c] ELSE l[c]]

Apres(q, lignes) ==
    [lignes EXCEPT ![q.id] =
        IF q.insertion THEN {q.ligne} ELSE {Fusion(q, l) : l \in lignes[q.id]}]

ApresDe(S, lignes) ==
    [i \in DOMAIN lignes |->
        IF \E q \in S : q.id = i
        THEN UNION {Apres(q, lignes)[i] : q \in {x \in S : x.id = i}}
        ELSE lignes[i]]

ApresTout(r, lignes) == ApresDe(requete[r], lignes)

Depasser == [s \in Requetes |-> {[p EXCEPT !.depasse = TRUE] : p \in requete[s]}]

(* COMMIT of the writes of r.                                              *)
Terminer(r) ==
    /\ requete[r] # {}
    /\ \A q \in requete[r] : q.enregistre
    /\ requete' = [Depasser EXCEPT ![r] = {}]
    /\ emission' = {<<q.type, q.table, q.id>> : q \in {x \in requete[r] : x.type # Nul}}
    /\ recouvrement' = (recouvrement \/ \E q \in requete[r] : q.depasse)

(* An insert finds no row under its key.                                   *)
ClesLibres(S, lignes) == \A q \in S : q.insertion => lignes[q.id] = {}

(* COMMIT of a request whose writes are all to table t.                    *)
Valider(r, t, lignes) ==
    /\ Terminer(r)
    /\ \A q \in requete[r] : q.table = t
    /\ ClesLibres(requete[r], lignes)

(* A constraint, the database or a later step refuses: ROLLBACK.           *)
rollback(r) ==
    /\ requete[r] # {}
    /\ requete' = [requete EXCEPT ![r] = {}]
    /\ emission' = {}
    /\ UNCHANGED recouvrement

-----------------------------------------------------------------------------
(* Trees kept as a parent column.  Every row met while going up from x,    *)
(* itself included; the climb stops at a row it has already seen.          *)
Lignee(parent, x) ==
    LET up[k \in 0..Cardinality(DOMAIN parent)] ==
            IF k = 0 THEN {x}
            ELSE up[k - 1] \union UNION {parent[y] : y \in up[k - 1] \intersect DOMAIN parent}
    IN  up[Cardinality(DOMAIN parent)]

SansBoucle(parent) ==
    ~\E S \in SUBSET DOMAIN parent : S # {} /\ \A x \in S : parent[x] \intersect S # {}
=============================================================================
