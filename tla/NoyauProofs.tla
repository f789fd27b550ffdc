------------------------------ MODULE NoyauProofs ------------------------------
(***************************************************************************)
(* Proofs about the business contexts, for every set of requests and of    *)
(* rows.  Reads and commits of the requests interleave; the argument is    *)
(* always the same: the write of a request that no commit has overtaken    *)
(* since it read (Suivi, AJour) still satisfies what the use-case checked, *)
(* so that its commit preserves the invariant of the table; the overtaken  *)
(* writes are those that set recouvrement, or that a constraint refuses.   *)
(***************************************************************************)
EXTENDS Noyau, FiniteSetTheorems, TLAPS

(* A non-empty set of naturals has a least element.                        *)
LEMMA PlusPetit ==
    ASSUME NEW T \in SUBSET Nat, T # {}
    PROVE  \E m \in T : \A k \in T : m <= k
<1> DEFINE Debuts == {0..k : k \in T}
           Ordre == StrictSubsetOrdering(Nat)
<1>1. \A k \in T : IsFiniteSet(0..k) /\ 0..k \subseteq Nat
      BY FS_Interval
<1>2. Debuts \subseteq FiniteSubsetsOf(Nat) /\ Debuts # {}
      BY <1>1 DEF FiniteSubsetsOf
<1>3. PICK D \in Debuts : \A E \in Debuts : <<E, D>> \notin Ordre
      BY <1>2, FS_StrictSubsetOrderingWellFounded, WFMin
<1>4. PICK m \in T : D = 0..m
      BY <1>3
<1>5. \A k \in T : m <= k
  <2> SUFFICES ASSUME NEW k \in T, k < m PROVE FALSE
      OBVIOUS
  <2>1. 0..k \subseteq 0..m /\ 0..k # 0..m
    <3>1. m \in 0..m /\ m \notin 0..k
        OBVIOUS
    <3>2. 0..k \subseteq 0..m
        OBVIOUS
    <3> QED  BY <3>1, <3>2
  <2>2. 0..k \in Debuts
      OBVIOUS
  <2> QED  BY <1>1, <1>3, <1>4, <2>1, <2>2 DEF StrictSubsetOrdering
<1> QED  BY <1>5

-----------------------------------------------------------------------------
(* The climb of Lignee: one step, and what makes a set closed under it.    *)
Monter(parent, U) == U \union UNION {parent[y] : y \in U \intersect DOMAIN parent}

Close(parent, U) == \A y \in U \intersect DOMAIN parent : parent[y] \subseteq U

EstMontee(f, parent, x, n) ==
    f = [k \in 0..n |-> IF k = 0 THEN {x} ELSE Monter(parent, f[k - 1])]

LEMMA MonteeExiste ==
    ASSUME NEW parent, NEW x, NEW N \in Nat
    PROVE  \E f : EstMontee(f, parent, x, N)
<1> DEFINE T == {n \in Nat : ~\E f : EstMontee(f, parent, x, n)}
<1> SUFFICES ASSUME T # {} PROVE FALSE
    OBVIOUS
<1>1. PICK m \in T : \A k \in T : m <= k
      BY PlusPetit
<1>2. CASE m = 0
  <2> DEFINE f == [k \in 0..0 |-> {x}]
  <2>1. EstMontee(f, parent, x, 0)
      BY DEF EstMontee
  <2> QED  BY <1>2, <2>1
<1>3. CASE m # 0
  <2>1. m - 1 \in Nat /\ m - 1 \notin T
      BY <1>1, <1>3
  <2>2. PICK f : EstMontee(f, parent, x, m - 1)
      BY <2>1
  <2> DEFINE g == [k \in 0..m |-> IF k < m THEN f[k] ELSE Monter(parent, f[m - 1])]
  <2>3. ASSUME NEW k \in 0..m
        PROVE  g[k] = IF k = 0 THEN {x} ELSE Monter(parent, g[k - 1])
    <3>1. CASE k = m
      <4>1. g[k] = Monter(parent, f[m - 1]) /\ g[k - 1] = f[m - 1]
          BY <3>1, <1>3
      <4> QED  BY <4>1, <3>1, <1>3
    <3>2. CASE k < m
      <4>1. g[k] = f[k] /\ k \in 0..(m - 1)
          BY <3>2
      <4>2. f[k] = IF k = 0 THEN {x} ELSE Monter(parent, f[k - 1])
          BY <4>1, <2>2 DEF EstMontee
      <4>3. k # 0 => g[k - 1] = f[k - 1]
          BY <3>2
      <4> QED  BY <4>1, <4>2, <4>3
    <3> QED  BY <3>1, <3>2
  <2> HIDE DEF g
  <2>4. g = [k \in 0..m |-> g[k]]
      BY DEF g
  <2>5. EstMontee(g, parent, x, m)
      BY <2>3, <2>4 DEF EstMontee
  <2> QED  BY <2>5, <1>1
<1> QED  BY <1>2, <1>3

LEMMA LigneeMontee ==
    ASSUME NEW parent, NEW x, Cardinality(DOMAIN parent) \in Nat
    PROVE  \E f : /\ EstMontee(f, parent, x, Cardinality(DOMAIN parent))
                  /\ Lignee(parent, x) = f[Cardinality(DOMAIN parent)]
<1> DEFINE N == Cardinality(DOMAIN parent)
           F == CHOOSE f : EstMontee(f, parent, x, N)
<1>1. EstMontee(F, parent, x, N)
      BY MonteeExiste
<1>2. Lignee(parent, x) = F[N]
      BY DEF Lignee, EstMontee, Monter
<1> QED  BY <1>1, <1>2

(* The climb ends: as many steps as there are rows reach every row above   *)
(* x, because each step that is not the last one meets a new row.          *)
LEMMA LigneeClose ==
    ASSUME NEW parent, NEW x, IsFiniteSet(DOMAIN parent)
    PROVE  x \in Lignee(parent, x) /\ Close(parent, Lignee(parent, x))
<1> DEFINE D == DOMAIN parent
           N == Cardinality(D)
<1>1. N \in Nat
      BY FS_CardinalityType
<1>2. PICK f : EstMontee(f, parent, x, N) /\ Lignee(parent, x) = f[N]
      BY <1>1, LigneeMontee
<1>3. f[0] = {x}
      BY <1>1, <1>2 DEF EstMontee
<1>4. ASSUME NEW k \in 1..N
      PROVE  k - 1 \in 0..N /\ f[k] = Monter(parent, f[k - 1])
  <2>1. k \in 0..N /\ k # 0 /\ k - 1 \in 0..N
      BY <1>1
  <2>2. f[k] = IF k = 0 THEN {x} ELSE Monter(parent, f[k - 1])
      BY <1>2, <2>1 DEF EstMontee
  <2> QED  BY <2>1, <2>2
<1>5. ASSUME NEW k \in 0..N
      PROVE  x \in f[k]
  <2> DEFINE T == {j \in 0..N : x \notin f[j]}
  <2> SUFFICES ASSUME T # {} PROVE FALSE
      OBVIOUS
  <2>1. PICK m \in T : \A j \in T : m <= j
    <3>1. T \in SUBSET Nat
        BY <1>1
    <3> QED  BY <3>1, PlusPetit
  <2>2. m # 0 /\ m \in 1..N
      BY <1>1, <1>3
  <2>3. x \in f[m - 1]
      BY <1>4, <2>1, <2>2
  <2> QED  BY <1>4, <2>1, <2>2, <2>3 DEF Monter
<1>6. SUFFICES ASSUME ~Close(parent, f[N]) PROVE FALSE
      BY <1>1, <1>2, <1>5
<1>7. ASSUME NEW k \in 0..N, Close(parent, f[k])
      PROVE  FALSE
  <2> DEFINE T == {j \in 0..N : j >= k /\ ~Close(parent, f[j])}
  <2>1. T \in SUBSET Nat /\ N \in T
      BY <1>1, <1>6
  <2>2. PICK m \in T : \A j \in T : m <= j
      BY <2>1, PlusPetit
  <2>3. m # k /\ m \in 1..N /\ m - 1 \in 0..N /\ m - 1 >= k
      BY <1>1, <1>7, <2>2
  <2>4. Close(parent, f[m - 1])
      BY <2>2, <2>3
  <2>5. f[m] = f[m - 1]
      BY <1>4, <2>3, <2>4 DEF Monter, Close
  <2> QED  BY <2>2, <2>4, <2>5
<1>8. ASSUME NEW k \in 0..N
      PROVE  Cardinality(f[k] \intersect D) >= k + 1
  <2> DEFINE T == {j \in 0..N : ~(Cardinality(f[j] \intersect D) >= j + 1)}
  <2> SUFFICES ASSUME T # {} PROVE FALSE
      OBVIOUS
  <2>1. PICK m \in T : \A j \in T : m <= j
    <3>1. T \in SUBSET Nat
        BY <1>1
    <3> QED  BY <3>1, PlusPetit
  <2>2. IsFiniteSet(f[m] \intersect D) /\ Cardinality(f[m] \intersect D) \in Nat
      BY FS_Intersection, FS_CardinalityType
  <2>3. PICK y \in f[m] \intersect D : ~(parent[y] \subseteq f[m])
      BY <1>7, <2>1 DEF Close
  <2>4. CASE m = 0
    <3>1. f[m] \intersect D = {y}
        BY <1>3, <2>3, <2>4
    <3>2. Cardinality(f[m] \intersect D) = 1
        BY <3>1, FS_Singleton
    <3> QED  BY <2>1, <2>4, <3>2
  <2>5. CASE m # 0
    <3> DEFINE V == f[m - 1] \intersect D
    <3>1. m \in 1..N /\ m - 1 \in 0..N /\ m - 1 \notin T
        BY <1>1, <2>1, <2>5
    <3>2. f[m] = Monter(parent, f[m - 1])
        BY <1>4, <3>1
    <3>3. y \notin V /\ V \union {y} \subseteq f[m] \intersect D
        BY <2>3, <3>2 DEF Monter
    <3>4. IsFiniteSet(V) /\ Cardinality(V) \in Nat
        BY FS_Intersection, FS_CardinalityType
    <3>5. Cardinality(V) >= m
        BY <3>1, <3>4
    <3>6. Cardinality(V \union {y}) = Cardinality(V) + 1
        BY <3>3, <3>4, FS_AddElement
    <3>7. Cardinality(V \union {y}) <= Cardinality(f[m] \intersect D)
        BY <2>2, <3>3, FS_Subset
    <3> HIDE DEF V
    <3> QED  BY <2>1, <2>2, <3>1, <3>4, <3>5, <3>6, <3>7
  <2> QED  BY <2>4, <2>5
<1>9. Cardinality(f[N] \intersect D) <= N
      BY FS_Intersection
<1>10. Cardinality(f[N] \intersect D) >= N + 1
      BY <1>1, <1>8
<1>11. Cardinality(f[N] \intersect D) \in Nat
      BY FS_Intersection, FS_CardinalityType
<1> HIDE DEF N, D
<1> QED  BY <1>1, <1>9, <1>10, <1>11

(* What the search for a cycle is for: if a set closed under the climb     *)
(* holds m and not o, giving m as the parent of o closes no loop.          *)
LEMMA RattacherSansBoucle ==
    ASSUME NEW parent, NEW o, NEW m, NEW apres, NEW L,
           SansBoucle(parent),
           m \in L, o \notin L, Close(parent, L),
           DOMAIN apres = DOMAIN parent,
           apres[o] \subseteq {m},
           \A x \in DOMAIN parent : x # o => apres[x] = parent[x]
    PROVE  SansBoucle(apres)
<1> SUFFICES ASSUME NEW S \in SUBSET DOMAIN parent, S # {},
                    \A x \in S : apres[x] \intersect S # {}
             PROVE  FALSE
    BY DEF SansBoucle
<1> DEFINE U == IF o \in S THEN S \intersect L ELSE S
<1>1. U # {}
      OBVIOUS
<1>2. \A x \in U : parent[x] \intersect U # {}
      BY DEF Close
<1> QED  BY <1>1, <1>2 DEF SansBoucle

(* Removing edges closes no loop.                                          *)
LEMMA DetacherSansBoucle ==
    ASSUME NEW parent, NEW apres, SansBoucle(parent),
           DOMAIN apres = DOMAIN parent,
           \A x \in DOMAIN parent : apres[x] \subseteq parent[x]
    PROVE  SansBoucle(apres)
BY DEF SansBoucle

-----------------------------------------------------------------------------
(* The requests as values: req before a step, req2 after it.  What a step  *)
(* of a context whose tables are in T does to the writes in progress.      *)
Champs == {"table", "id", "ligne", "insertion", "type", "enregistre", "colonnes", "depasse"}

EcritureOK(q) ==
    /\ DOMAIN q = Champs
    /\ q.insertion \in BOOLEAN /\ q.enregistre \in BOOLEAN /\ q.depasse \in BOOLEAN

(* A request writes a row of a table once, and writes two rows of a table  *)
(* only to change the main currency of a country or the default locale.    *)
CleUnique(E) ==
    \A p, q \in E :
        p.table = q.table /\ (p.id = q.id \/ p.table \notin {"circulation", "locale"}) => p = q

ReqOK(req) ==
    /\ req = [r \in Requetes |-> req[r]]
    /\ \A r \in Requetes : CleUnique(req[r]) /\ \A q \in req[r] : EcritureOK(q)

Neuve(q) == EcritureOK(q) /\ q.enregistre = FALSE /\ q.depasse = FALSE

Debute(req, req2, r, E) ==
    /\ req2 = [req EXCEPT ![r] = E]
    /\ CleUnique(E) /\ \A q \in E : Neuve(q)

Enregistree(q, C) == [q EXCEPT !.enregistre = TRUE, !.colonnes = C]

Sauve(req, req2, r, q, C) ==
    /\ q \in req[r]
    /\ req2 = [req EXCEPT ![r] = (@ \ {q}) \union {Enregistree(q, C)}]

Depassee(q) == [q EXCEPT !.depasse = TRUE]

Depassees(E) == {Depassee(q) : q \in E}

Finit(req, req2, r) == req2 = [[s \in Requetes |-> Depassees(req[s])] EXCEPT ![r] = {}]

Annule(req, req2, r) == req2 = [req EXCEPT ![r] = {}]

PasDe(req, req2, r, T) ==
    \/ \E E : Debute(req, req2, r, E) /\ \A q \in E : q.table \in T
    \/ \E q \in req[r] : \E C : q.table \in T /\ Sauve(req, req2, r, q, C)
    \/ Finit(req, req2, r)
    \/ Annule(req, req2, r)

LEMMA EnregistreeForme ==
    ASSUME NEW q, NEW C, EcritureOK(q)
    PROVE  LET e == Enregistree(q, C)
           IN  /\ EcritureOK(e) /\ e.table = q.table /\ e.id = q.id /\ e.ligne = q.ligne
               /\ e.insertion = q.insertion /\ e.type = q.type /\ e.depasse = q.depasse
               /\ e.enregistre = TRUE /\ e.colonnes = C
BY DEF EcritureOK, Enregistree, Champs

LEMMA DepasseeForme ==
    ASSUME NEW q, EcritureOK(q)
    PROVE  LET d == Depassee(q)
           IN  /\ EcritureOK(d) /\ d.table = q.table /\ d.id = q.id /\ d.ligne = q.ligne
               /\ d.insertion = q.insertion /\ d.type = q.type /\ d.depasse = TRUE
               /\ d.enregistre = q.enregistre /\ d.colonnes = q.colonnes
BY DEF EcritureOK, Depassee, Champs

LEMMA PasReqOK ==
    ASSUME NEW req, NEW req2, NEW r \in Requetes, NEW T,
           ReqOK(req), PasDe(req, req2, r, T)
    PROVE  ReqOK(req2)
<1>1. \A s \in Requetes : CleUnique(req[s]) /\ \A q \in req[s] : EcritureOK(q)
      BY DEF ReqOK
<1>2. DOMAIN req = Requetes
      BY DEF ReqOK
<1>3. ASSUME NEW E, Debute(req, req2, r, E)
      PROVE  ReqOK(req2)
  <2>1. req2 = [s \in Requetes |-> IF s = r THEN E ELSE req[s]]
      BY <1>2, <1>3 DEF Debute
  <2> QED  BY <1>1, <1>3, <2>1 DEF ReqOK, Debute, Neuve
<1>4. ASSUME NEW q \in req[r], NEW C, Sauve(req, req2, r, q, C)
      PROVE  ReqOK(req2)
  <2> DEFINE e == Enregistree(q, C)
             R == (req[r] \ {q}) \union {e}
  <2>1. req2 = [s \in Requetes |-> IF s = r THEN R ELSE req[s]]
      BY <1>2, <1>4 DEF Sauve
  <2>2. EcritureOK(e) /\ e.table = q.table /\ e.id = q.id
      BY <1>1, EnregistreeForme
  <2> HIDE DEF e
  <2>3. CleUnique(R)
      BY <1>1, <2>2 DEF CleUnique
  <2>4. \A x \in R : EcritureOK(x)
      BY <1>1, <2>2
  <2> HIDE DEF R
  <2> QED  BY <1>1, <2>1, <2>3, <2>4 DEF ReqOK
<1>5. ASSUME Finit(req, req2, r)
      PROVE  ReqOK(req2)
  <2>1. req2 = [s \in Requetes |-> IF s = r THEN {} ELSE Depassees(req[s])]
      BY <1>5 DEF Finit
  <2>2. ASSUME NEW s \in Requetes
        PROVE  CleUnique(Depassees(req[s])) /\ \A q \in Depassees(req[s]) : EcritureOK(q)
    <3>1. \A q \in Depassees(req[s]) : EcritureOK(q)
        BY <1>1, DepasseeForme DEF Depassees
    <3>2. ASSUME NEW d \in Depassees(req[s]), NEW e \in Depassees(req[s]),
                 d.table = e.table, d.id = e.id \/ d.table \notin {"circulation", "locale"}
          PROVE  d = e
      <4>1. PICK p \in req[s] : d = Depassee(p) /\ d.table = p.table /\ d.id = p.id
          BY <1>1, DepasseeForme DEF Depassees
      <4>2. PICK q \in req[s] : e = Depassee(q) /\ e.table = q.table /\ e.id = q.id
          BY <1>1, DepasseeForme DEF Depassees
      <4> QED  BY <1>1, <3>2, <4>1, <4>2 DEF CleUnique
    <3> QED  BY <3>1, <3>2 DEF CleUnique
  <2> QED  BY <2>1, <2>2 DEF ReqOK, CleUnique
<1>6. ASSUME Annule(req, req2, r)
      PROVE  ReqOK(req2)
  <2>1. req2 = [s \in Requetes |-> IF s = r THEN {} ELSE req[s]]
      BY <1>2, <1>6 DEF Annule
  <2> QED  BY <1>1, <2>1 DEF ReqOK, CleUnique
<1> QED  BY <1>3, <1>4, <1>5, <1>6 DEF PasDe

-----------------------------------------------------------------------------
(* The writes to table t, which holds lignes: all of them are in A; those  *)
(* whose request has been overtaken by no commit are in B, and their copy  *)
(* is that of the row as it is now.                                        *)
AJour(q, lignes, B) ==
    /\ <<q.id, q.ligne>> \in B
    /\ q.insertion = TRUE <=> lignes[q.id] = {}
    /\ q.enregistre = TRUE =>
          \A l \in lignes[q.id] : \A c \in DOMAIN q.ligne : c \in q.colonnes \/ l[c] = q.ligne[c]

Suivi(req, t, lignes, A, B) ==
    \A r \in Requetes : \A q \in req[r] : q.table = t =>
        <<q.id, q.ligne>> \in A /\ (q.depasse = FALSE => AJour(q, lignes, B))

LEMMA SuiviDebute ==
    ASSUME NEW req, NEW req2, NEW r \in Requetes, NEW E, NEW t, NEW lignes, NEW A, NEW B,
           ReqOK(req), Suivi(req, t, lignes, A, B), Debute(req, req2, r, E),
           \A q \in E : q.table = t =>
               /\ <<q.id, q.ligne>> \in A /\ <<q.id, q.ligne>> \in B
               /\ q.insertion = TRUE <=> lignes[q.id] = {}
    PROVE  Suivi(req2, t, lignes, A, B)
<1>1. req2 = [s \in Requetes |-> IF s = r THEN E ELSE req[s]]
      BY DEF Debute, ReqOK
<1>2. \A q \in E : q.enregistre = FALSE
      BY DEF Debute, Neuve
<1> QED  BY <1>1, <1>2 DEF Suivi, AJour

LEMMA SuiviSauve ==
    ASSUME NEW req, NEW req2, NEW r \in Requetes, NEW q, NEW C,
           NEW t, NEW lignes, NEW A, NEW B,
           ReqOK(req), Suivi(req, t, lignes, A, B), Sauve(req, req2, r, q, C),
           q.table = t => C = Modifiees(q, lignes)
    PROVE  Suivi(req2, t, lignes, A, B)
<1> DEFINE e == Enregistree(q, C)
           R == (req[r] \ {q}) \union {e}
<1>1. req2 = [s \in Requetes |-> IF s = r THEN R ELSE req[s]]
      BY DEF Sauve, ReqOK
<1>2. q \in req[r] /\ EcritureOK(q)
      BY DEF Sauve, ReqOK
<1>3. /\ e.table = q.table /\ e.id = q.id /\ e.ligne = q.ligne
      /\ e.insertion = q.insertion /\ e.depasse = q.depasse /\ e.colonnes = C
      BY <1>2, EnregistreeForme
<1> HIDE DEF e
<1>4. e.table = t => <<e.id, e.ligne>> \in A /\ (e.depasse = FALSE => AJour(e, lignes, B))
  <2> SUFFICES ASSUME q.table = t
               PROVE  <<e.id, e.ligne>> \in A /\ (e.depasse = FALSE => AJour(e, lignes, B))
      BY <1>3
  <2>1. <<q.id, q.ligne>> \in A /\ (q.depasse = FALSE => AJour(q, lignes, B))
      BY <1>2 DEF Suivi
  <2>2. \A l \in lignes[q.id] : \A c \in DOMAIN q.ligne : c \in C \/ l[c] = q.ligne[c]
      BY DEF Modifiees
  <2> QED  BY <1>3, <2>1, <2>2 DEF AJour
<1>5. \A p \in R : p.table = t =>
          <<p.id, p.ligne>> \in A /\ (p.depasse = FALSE => AJour(p, lignes, B))
      BY <1>4 DEF Suivi
<1> HIDE DEF R
<1> QED  BY <1>1, <1>5 DEF Suivi

(* After a commit no copy is known to be that of the row.                  *)
LEMMA SuiviFinit ==
    ASSUME NEW req, NEW req2, NEW r \in Requetes,
           NEW t, NEW lignes, NEW A, NEW B, NEW lignes2, NEW A2, NEW B2,
           ReqOK(req), Suivi(req, t, lignes, A, B), Finit(req, req2, r), A \subseteq A2
    PROVE  Suivi(req2, t, lignes2, A2, B2)
<1>1. req2 = [s \in Requetes |-> IF s = r THEN {} ELSE Depassees(req[s])]
      BY DEF Finit
<1> SUFFICES ASSUME NEW s \in Requetes, NEW d \in req2[s], d.table = t
             PROVE  <<d.id, d.ligne>> \in A2 /\ d.depasse # FALSE
    BY DEF Suivi
<1>2. PICK q \in req[s] : d = Depassee(q)
      BY <1>1 DEF Depassees
<1>3. d.table = q.table /\ d.id = q.id /\ d.ligne = q.ligne /\ d.depasse = TRUE
      BY <1>2, DepasseeForme DEF ReqOK
<1> QED  BY <1>2, <1>3 DEF Suivi

LEMMA SuiviAnnule ==
    ASSUME NEW req, NEW req2, NEW r \in Requetes, NEW t, NEW lignes, NEW A, NEW B,
           ReqOK(req), Suivi(req, t, lignes, A, B), Annule(req, req2, r)
    PROVE  Suivi(req2, t, lignes, A, B)
<1>1. req2 = [s \in Requetes |-> IF s = r THEN {} ELSE req[s]]
      BY DEF Annule, ReqOK
<1> QED  BY <1>1 DEF Suivi

(* The requests of another context leave the writes to t as they are.      *)
LEMMA SuiviAilleurs ==
    ASSUME NEW req, NEW req2, NEW r \in Requetes, NEW T, NEW t, NEW lignes, NEW A, NEW B,
           ReqOK(req), Suivi(req, t, lignes, A, B), PasDe(req, req2, r, T), t \notin T
    PROVE  Suivi(req2, t, lignes, A, B)
<1>1. ASSUME NEW E, Debute(req, req2, r, E), \A q \in E : q.table \in T
      PROVE  Suivi(req2, t, lignes, A, B)
      BY <1>1, SuiviDebute
<1>2. ASSUME NEW q \in req[r], NEW C, q.table \in T, Sauve(req, req2, r, q, C)
      PROVE  Suivi(req2, t, lignes, A, B)
      BY <1>2, SuiviSauve
<1>3. ASSUME Finit(req, req2, r)
      PROVE  Suivi(req2, t, lignes, A, B)
      BY <1>3, SuiviFinit
<1>4. ASSUME Annule(req, req2, r)
      PROVE  Suivi(req2, t, lignes, A, B)
      BY <1>4, SuiviAnnule
<1> QED  BY <1>1, <1>2, <1>3, <1>4 DEF PasDe

-----------------------------------------------------------------------------
(* A table: at most one row under an id, all of them in row.               *)
Table1(lignes, ids, row) ==
    /\ lignes \in [ids -> SUBSET row]
    /\ \A i \in ids : \A l, m \in lignes[i] : l = m

(* The rows of row are records, closed under a merge of columns.           *)
Colonnes(row) ==
    \A a, b \in row :
        /\ a = [c \in DOMAIN a |-> a[c]]
        /\ \A C : [c \in DOMAIN a |-> IF c \in C THEN a[c] ELSE b[c]] \in row

LEMMA TableDepart ==
    ASSUME NEW ids, NEW f, NEW row, \A i \in DOMAIN f : f[i] \in row
    PROVE  Table1(Table(ids, f), ids, row)
<1> DEFINE N == Table(ids, f)
<1>1. N = [i \in ids |-> N[i]] /\ \A i \in ids : N[i] = IF i \in DOMAIN f THEN {f[i]} ELSE {}
      BY DEF Table
<1> HIDE DEF N
<1>2. ASSUME NEW i \in ids PROVE N[i] \subseteq row /\ \A l, m \in N[i] : l = m
      BY <1>1
<1> QED  BY <1>1, <1>2 DEF Table1, N

LEMMA ApresDeTable ==
    ASSUME NEW S, NEW lignes, NEW ids, NEW row,
           Table1(lignes, ids, row), Colonnes(row),
           \A p, q \in S : p.id = q.id => p = q,
           \A q \in S : q.id \in ids /\ q.ligne \in row
    PROVE  Table1(ApresDe(S, lignes), ids, row)
<1> DEFINE N == ApresDe(S, lignes)
<1>1. DOMAIN lignes = ids
      BY DEF Table1
<1>2. N = [i \in ids |-> N[i]]
      BY <1>1 DEF ApresDe
<1>3. ASSUME NEW i \in ids
      PROVE  N[i] \subseteq row /\ \A l, m \in N[i] : l = m
  <2>1. CASE ~\E q \in S : q.id = i
      BY <1>1, <2>1 DEF ApresDe, Table1
  <2>2. CASE \E q \in S : q.id = i
    <3>1. PICK q \in S : q.id = i
        BY <2>2
    <3>2. {x \in S : x.id = i} = {q}
        BY <3>1
    <3>3. N[i] = Apres(q, lignes)[i]
        BY <1>1, <3>1, <3>2 DEF ApresDe
    <3>4. Apres(q, lignes)[i] =
              IF q.insertion THEN {q.ligne} ELSE {Fusion(q, l) : l \in lignes[i]}
        BY <1>1, <3>1 DEF Apres
    <3>5. ASSUME NEW l \in lignes[i]
          PROVE  Fusion(q, l) \in row
      <4>1. l \in row /\ q.ligne \in row
          BY <3>1 DEF Table1
      <4>2. \A C : [c \in DOMAIN q.ligne |-> IF c \in C THEN q.ligne[c] ELSE l[c]] \in row
          BY <4>1 DEF Colonnes
      <4> QED  BY <4>2 DEF Fusion
    <3>6. q.ligne \in row
        BY <3>1
    <3>7. \A l, m \in lignes[i] : l = m
        BY DEF Table1
    <3> HIDE DEF N
    <3>8. CASE q.insertion
        BY <3>3, <3>4, <3>6, <3>8
    <3>9. CASE ~q.insertion
      <4>1. N[i] = {Fusion(q, l) : l \in lignes[i]}
          BY <3>3, <3>4, <3>9
      <4> QED  BY <4>1, <3>5, <3>7
    <3> QED  BY <3>8, <3>9
  <2> QED  BY <2>1, <2>2
<1> QED  BY <1>2, <1>3 DEF Table1

(* The writes of a request that has not been overtaken: their rows become  *)
(* the copies, and no other row changes.                                   *)
Copies(S, lignes, ids, row, B) ==
    /\ \A p, q \in S : p.id = q.id => p = q
    /\ \A q \in S : /\ q.id \in ids /\ q.ligne \in row /\ AJour(q, lignes, B)
                    /\ q.enregistre = TRUE /\ q.insertion \in BOOLEAN

LEMMA ApresDeCopies ==
    ASSUME NEW S, NEW lignes, NEW ids, NEW row, NEW B,
           Table1(lignes, ids, row), Colonnes(row), Copies(S, lignes, ids, row, B)
    PROVE  /\ \A q \in S : ApresDe(S, lignes)[q.id] = {q.ligne}
           /\ \A i \in ids : (\A q \in S : q.id # i) => ApresDe(S, lignes)[i] = lignes[i]
<1> USE DEF Copies
<1>1. DOMAIN lignes = ids
      BY DEF Table1
<1>2. ASSUME NEW q \in S
      PROVE  ApresDe(S, lignes)[q.id] = {q.ligne}
  <2> DEFINE i == q.id
  <2>1. i \in ids
      OBVIOUS
  <2>2. {x \in S : x.id = i} = {q}
      OBVIOUS
  <2>3. ApresDe(S, lignes)[i] = Apres(q, lignes)[i]
      BY <1>1, <2>1, <2>2 DEF ApresDe
  <2>4. Apres(q, lignes)[i] =
            IF q.insertion THEN {q.ligne} ELSE {Fusion(q, l) : l \in lignes[i]}
      BY <1>1, <2>1 DEF Apres
  <2>5. CASE q.insertion = TRUE
      BY <2>3, <2>4, <2>5
  <2>6. CASE q.insertion = FALSE
    <3>1. lignes[i] # {}
        BY <2>6 DEF AJour
    <3>2. \A l \in lignes[i] : Fusion(q, l) = q.ligne
      <4> SUFFICES ASSUME NEW l \in lignes[i] PROVE Fusion(q, l) = q.ligne
          OBVIOUS
      <4>1. \A c \in DOMAIN q.ligne : c \in q.colonnes \/ l[c] = q.ligne[c]
          BY DEF AJour
      <4>2. q.ligne = [c \in DOMAIN q.ligne |-> q.ligne[c]]
          BY DEF Colonnes
      <4>3. Fusion(q, l) = [c \in DOMAIN q.ligne |-> q.ligne[c]]
          BY <4>1 DEF Fusion
      <4> QED  BY <4>2, <4>3
    <3> QED  BY <2>3, <2>4, <2>6, <3>1, <3>2
  <2> QED  BY <2>5, <2>6
<1>3. ASSUME NEW i \in ids, \A q \in S : q.id # i
      PROVE  ApresDe(S, lignes)[i] = lignes[i]
      BY <1>1, <1>3 DEF ApresDe
<1> QED  BY <1>2, <1>3

-----------------------------------------------------------------------------
(* The operations of UniteDeTravail, as steps between values.              *)
LEMMA EcritureNeuve ==
    ASSUME NEW t, NEW i, NEW ligne, NEW insertion \in BOOLEAN, NEW type
    PROVE  LET q == Ecriture(t, i, ligne, insertion, type)
           IN  /\ Neuve(q) /\ q.table = t /\ q.id = i /\ q.ligne = ligne
               /\ q.insertion = insertion /\ q.type = type
BY DEF Ecriture, Neuve, EcritureOK, Champs

LEMMA TraiterDebute ==
    ASSUME NEW r \in Requetes, NEW t, NEW lignes, NEW i, NEW ligne, NEW type,
           Traiter(r, t, lignes, i, ligne, type)
    PROVE  /\ Debute(requete, requete', r, {Ecriture(t, i, ligne, lignes[i] = {}, type)})
           /\ UNCHANGED recouvrement
<1> DEFINE q == Ecriture(t, i, ligne, lignes[i] = {}, type)
<1>1. Neuve(q)
      BY EcritureNeuve
<1> HIDE DEF q
<1>2. Debute(requete, requete', r, {q}) /\ UNCHANGED recouvrement
      BY <1>1 DEF q, Traiter, TraiterTout, Debute, CleUnique
<1> QED  BY <1>2 DEF q

LEMMA saveSauve ==
    ASSUME NEW r \in Requetes, NEW t, NEW lignes, save(r, t, lignes)
    PROVE  /\ \E q \in requete[r] :
                 q.table = t /\ Sauve(requete, requete', r, q, Modifiees(q, lignes))
           /\ UNCHANGED recouvrement
BY DEF save, Sauve, Enregistree

LEMMA TerminerFinit ==
    ASSUME NEW r \in Requetes, Terminer(r)
    PROVE  /\ Finit(requete, requete', r)
           /\ \A q \in requete[r] : q.enregistre
           /\ recouvrement => recouvrement'
           /\ ~recouvrement' => \A q \in requete[r] : ~q.depasse
BY DEF Terminer, Finit, Depasser, Depassees, Depassee

LEMMA rollbackAnnule ==
    ASSUME NEW r \in Requetes, rollback(r)
    PROVE  Annule(requete, requete', r) /\ UNCHANGED recouvrement
BY DEF rollback, Annule

(* A step of a request of the context whose tables are in T.               *)
Acte(T) ==
    /\ \E r \in Requetes : PasDe(requete, requete', r, T)
    /\ recouvrement => recouvrement'

LEMMA TraiterActe ==
    ASSUME NEW r \in Requetes, NEW t, NEW lignes, NEW i, NEW ligne, NEW type, NEW T,
           Traiter(r, t, lignes, i, ligne, type), t \in T
    PROVE  Acte(T)
<1> DEFINE q == Ecriture(t, i, ligne, lignes[i] = {}, type)
<1>1. Debute(requete, requete', r, {q}) /\ UNCHANGED recouvrement
      BY TraiterDebute
<1>2. q.table = t
      BY DEF Ecriture
<1> HIDE DEF q
<1> QED  BY <1>1, <1>2 DEF Acte, PasDe

LEMMA saveActe ==
    ASSUME NEW r \in Requetes, NEW t, NEW lignes, NEW T, save(r, t, lignes), t \in T
    PROVE  Acte(T)
<1>1. PICK q \in requete[r] :
          q.table = t /\ Sauve(requete, requete', r, q, Modifiees(q, lignes))
      BY saveSauve
<1> QED  BY <1>1, saveSauve DEF Acte, PasDe

LEMMA TerminerActe ==
    ASSUME NEW r \in Requetes, NEW T, Terminer(r)
    PROVE  Acte(T)
BY TerminerFinit DEF Acte, PasDe

LEMMA EngineActe ==
    ASSUME EngineNext
    PROVE  \/ Acte({"niveau", "noeud", "regle", "ville"})
           \/ UNCHANGED <<requete, recouvrement>>
<1> DEFINE T == {"niveau", "noeud", "regle", "ville"}
<1>0. "niveau" \in T /\ "noeud" \in T /\ "regle" \in T /\ "ville" \in T
      OBVIOUS
<1> HIDE DEF T
<1>1. ASSUME NEW r \in Requetes, Arbre(r) PROVE Acte(T)
      BY <1>0, <1>1, TraiterActe DEF Arbre, ReattachNoeudRacine, ReattachNoeud
<1>2. ASSUME NEW r \in Requetes, Publication(r) PROVE Acte(T)
      BY <1>0, <1>2, TraiterActe
         DEF Publication, ReattachNoeudRacine, DeactivateNoeud, ReactivateNoeud, CreateVille, MoveVille
<1>3. ASSUME NEW r \in Requetes, Revision(r) PROVE Acte(T)
      BY <1>0, <1>3, TraiterActe
         DEF Revision, CreateNiveau, CreateNoeudRacine, CreateNoeudEnfant, TransitionNoeud, UpdateNoeud
<1>4. ASSUME NEW r \in Requetes, Rattachement(r) PROVE Acte(T)
      BY <1>0, <1>4, TraiterActe DEF Rattachement, CreateVille, MoveVille, SetVilleActivation
<1>5. ASSUME NEW r \in Requetes, Reglementation(r) PROVE Acte(T)
      BY <1>0, <1>5, TraiterActe
         DEF Reglementation, CreateReferentielRegle, UpdateReferentielRegle, TransitionRegle,
             SetRegleActivation
<1>6. ASSUME NEW r \in Requetes, saveEngine(r) PROVE Acte(T)
      BY <1>0, <1>6, saveActe DEF saveEngine
<1>7. ASSUME NEW r \in Requetes, commitNiveau(r) \/ commitNoeud(r) \/ commitRegle(r) \/ commitVille(r)
      PROVE  Acte(T)
      BY <1>7, TerminerActe DEF commitNiveau, commitNoeud, commitRegle, commitVille, Valider
<1>8. ASSUME NEW n, Compter(n) PROVE UNCHANGED <<requete, recouvrement>>
      BY <1>8 DEF Compter
<1> QED  BY <1>1, <1>2, <1>3, <1>4, <1>5, <1>6, <1>7, <1>8 DEF EngineNext, T

LEMMA CorpusActe ==
    ASSUME CorpusNext
    PROVE  Acte({"corpus", "element"})
<1> DEFINE T == {"corpus", "element"}
<1>0. "corpus" \in T /\ "element" \in T
      OBVIOUS
<1> HIDE DEF T
<1>1. ASSUME NEW r \in Requetes, Edition(r) PROVE Acte(T)
      BY <1>0, <1>1, TraiterActe
         DEF Edition, CreateCorpusVersionne, UpdateCorpusVersionne, PublishCorpus, ArchiveCorpus
<1>2. ASSUME NEW r \in Requetes, Arborescence(r) PROVE Acte(T)
      BY <1>0, <1>2, TraiterActe
         DEF Arborescence, AttachCorpusElement, ReattachCorpusElement, UpdateCorpusElement
<1>3. ASSUME NEW r \in Requetes, saveCorpus(r) PROVE Acte(T)
      BY <1>0, <1>3, saveActe DEF saveCorpus
<1>4. ASSUME NEW r \in Requetes, commitCorpus(r) \/ commitElement(r) PROVE Acte(T)
      BY <1>4, TerminerActe DEF commitCorpus, commitElement, Valider
<1> QED  BY <1>1, <1>2, <1>3, <1>4 DEF CorpusNext, T

LEMMA RegistreActe ==
    ASSUME RegistreNext
    PROVE  Acte({"produit", "deploiement"})
<1> DEFINE T == {"produit", "deploiement"}
<1>0. "produit" \in T /\ "deploiement" \in T
      OBVIOUS
<1> HIDE DEF T
<1>1. ASSUME NEW r \in Requetes, Registre(r) PROVE Acte(T)
      BY <1>0, <1>1, TraiterActe
         DEF Registre, CreateProduitPortefeuille, UpdateProduitPortefeuille, SetProduitActivation,
             SetDeploiementStatut
<1>2. ASSUME NEW r \in Requetes, NEW a \in BOOLEAN, SetProduitActivation(r, a1, a) PROVE Acte(T)
      BY <1>0, <1>2, TraiterActe DEF SetProduitActivation
<1>3. ASSUME NEW r \in Requetes, saveRegistre(r) PROVE Acte(T)
      BY <1>0, <1>3, saveActe DEF saveRegistre
<1>4. ASSUME NEW r \in Requetes, commitProduit(r) \/ commitDeploiement(r) PROVE Acte(T)
      BY <1>4, TerminerActe DEF commitProduit, commitDeploiement, Valider
<1> QED  BY <1>1, <1>2, <1>3, <1>4 DEF RegistreNext, T

LEMMA OrgActe ==
    ASSUME OrgNext
    PROVE  Acte({"organisation", "unite", "abonnement"})
<1> DEFINE T == {"organisation", "unite", "abonnement"}
<1>0. "organisation" \in T /\ "unite" \in T /\ "abonnement" \in T
      OBVIOUS
<1> HIDE DEF T
<1>1. ASSUME NEW r \in Requetes, Filiation(r) PROVE Acte(T)
      BY <1>0, <1>1, TraiterActe
         DEF Filiation, CreateOrganisation, ReattachOrganisation, UpdateOrganisation,
             UpdateOrganisationReferentiel
<1>2. ASSUME NEW r \in Requetes, Equipement(r) PROVE Acte(T)
      BY <1>0, <1>2, TraiterActe
         DEF Equipement, CreateUniteOperationnelle, UpdateUniteOperationnelleReferentiel,
             SetUniteOperationnelleActivation, SetOrganisationActivation
<1>3. ASSUME NEW r \in Requetes, Souscription(r) PROVE Acte(T)
      BY <1>0, <1>3, TraiterActe DEF Souscription, SubscribeToProduit, TransitionAbonnement
<1>4. ASSUME NEW r \in Requetes, NEW a \in BOOLEAN, SetOrganisationActivation(r, o1, a)
      PROVE  Acte(T)
      BY <1>0, <1>4, TraiterActe DEF SetOrganisationActivation
<1>5. ASSUME NEW r \in Requetes, saveOrg(r) PROVE Acte(T)
      BY <1>0, <1>5, saveActe DEF saveOrg
<1>6. ASSUME NEW r \in Requetes, commitOrganisation(r) \/ commitUnite(r) \/ commitAbonnement(r)
      PROVE  Acte(T)
      BY <1>6, TerminerActe DEF commitOrganisation, commitUnite, commitAbonnement, Valider
<1> QED  BY <1>1, <1>2, <1>3, <1>4, <1>5, <1>6 DEF OrgNext, T

(* A request of several writes, to different rows.                         *)
LEMMA TraiterToutDebute ==
    ASSUME NEW r \in Requetes, NEW E, TraiterTout(r, E),
           CleUnique(E), \A q \in E : Neuve(q)
    PROVE  Debute(requete, requete', r, E) /\ UNCHANGED recouvrement
BY DEF TraiterTout, Debute

LEMMA TraiterToutActe ==
    ASSUME NEW r \in Requetes, NEW E, NEW T, TraiterTout(r, E),
           CleUnique(E), \A q \in E : Neuve(q) /\ q.table \in T
    PROVE  Acte(T)
BY TraiterToutDebute DEF Acte, PasDe

(* The attachment of a currency: the new row and at most one that it ends. *)
Circulations(x, l, a, m) ==
    {Ecriture("circulation", a, m, FALSE, Nul), Ecriture("circulation", x, l, TRUE, Nul)}

Attachement(r, x, p, d, b, l) ==
    /\ circulations[x] = {}
    /\ \/ /\ b => findPrincipaleActive(p, d) = {}
          /\ TraiterTout(r, {Ecriture("circulation", x, l, TRUE, Nul)})
       \/ /\ b
          /\ \E a \in findPrincipaleActive(p, d) : \E m \in circulations[a] :
                a # x /\ TraiterTout(r, Circulations(x, l, a, [m EXCEPT !.fin = d]))

LEMMA AttachDeviseEcritures ==
    ASSUME NEW r, NEW x \in Relations, NEW p, NEW v, NEW d, NEW f, NEW b, NEW l,
           l = [pays |-> p, devise |-> v, debut |-> d, fin |-> f, principale |-> b],
           AttachDeviseToPays(r, x, p, v, d, f, b)
    PROVE  Attachement(r, x, p, d, b, l)
<1> DEFINE E(a, m) == {Ecriture("circulation", a, [m EXCEPT !.fin = d], FALSE, Nul),
                       Ecriture("circulation", x, l, TRUE, Nul)}
           actives == IF b THEN findPrincipaleActive(p, d) ELSE {}
<1>1. circulations[x] = {}
      BY DEF AttachDeviseToPays, Neuf
<1>2. \/ actives = {} /\ TraiterTout(r, {Ecriture("circulation", x, l, TRUE, Nul)})
      \/ \E a \in actives : \E m \in circulations[a] : TraiterTout(r, E(a, m))
      BY DEF AttachDeviseToPays
<1>3. \A a, m : E(a, m) = Circulations(x, l, a, [m EXCEPT !.fin = d])
      BY DEF Circulations
<1> HIDE DEF E
<1>4. \A a : \A m \in circulations[a] : a # x
      BY <1>1
<1> QED  BY <1>1, <1>2, <1>3, <1>4 DEF Attachement

LEMMA CirculationsNeuves ==
    ASSUME NEW x, NEW l, NEW a, NEW m, a # x
    PROVE  /\ CleUnique(Circulations(x, l, a, m))
           /\ \A q \in Circulations(x, l, a, m) : Neuve(q) /\ q.table = "circulation"
<1> DEFINE q == Ecriture("circulation", a, m, FALSE, Nul)
           p == Ecriture("circulation", x, l, TRUE, Nul)
<1>1. Neuve(q) /\ q.table = "circulation" /\ q.id = a /\ Neuve(p) /\ p.table = "circulation" /\ p.id = x
      BY DEF Ecriture, Neuve, EcritureOK, Champs
<1>2. Circulations(x, l, a, m) = {q, p}
      BY DEF Circulations
<1> HIDE DEF q, p
<1> QED  BY <1>1, <1>2 DEF CleUnique

LEMMA SeuleNeuve ==
    ASSUME NEW t, NEW i, NEW ligne, NEW insertion \in BOOLEAN, NEW type
    PROVE  /\ CleUnique({Ecriture(t, i, ligne, insertion, type)})
           /\ \A q \in {Ecriture(t, i, ligne, insertion, type)} :
                 /\ Neuve(q) /\ q.table = t /\ q.id = i /\ q.ligne = ligne
                 /\ q.insertion = insertion /\ q.type = type
BY EcritureNeuve DEF CleUnique

(* The change of the default locale: one write for each locale concerned.  *)
Defaut(x, a, l) == Ecriture("locale", a, [l EXCEPT !.defaut = (a = x)], FALSE, Nul)

Defauts(x) == UNION {{Defaut(x, a, l) : l \in locales[a]} : a \in findParDefaut \union {x}}

LEMMA SetLocaleEcritures ==
    ASSUME NEW r, NEW x, SetLocaleParDefaut(r, x)
    PROVE  locales[x] # {} /\ TraiterTout(r, Defauts(x))
BY DEF SetLocaleParDefaut, Defauts, Defaut

LEMMA DefautsDe ==
    ASSUME NEW x \in Locales
    PROVE  \A q \in Defauts(x) : \E a \in Locales : \E l \in locales[a] : q = Defaut(x, a, l)
<1>1. findParDefaut \union {x} \subseteq Locales
      BY DEF findParDefaut
<1> QED  BY <1>1 DEF Defauts

LEMMA DefautsNeuves ==
    ASSUME NEW x \in Locales, \A y \in Locales : \A l, m \in locales[y] : l = m
    PROVE  /\ CleUnique(Defauts(x))
           /\ \A q \in Defauts(x) : Neuve(q) /\ q.table = "locale"
<1>1. ASSUME NEW q \in Defauts(x)
      PROVE  \E a \in Locales : \E l \in locales[a] :
                q = Defaut(x, a, l) /\ q.id = a /\ Neuve(q) /\ q.table = "locale"
  <2>1. PICK a \in Locales : \E l \in locales[a] : q = Defaut(x, a, l)
      BY DefautsDe
  <2>2. PICK l \in locales[a] : q = Defaut(x, a, l)
      BY <2>1
  <2>3. q.id = a /\ Neuve(q) /\ q.table = "locale"
      BY <2>2 DEF Defaut, Ecriture, Neuve, EcritureOK, Champs
  <2> QED  BY <2>2, <2>3
<1>2. ASSUME NEW p \in Defauts(x), NEW q \in Defauts(x), p.id = q.id
      PROVE  p = q
  <2>1. PICK a \in Locales : \E l \in locales[a] : p = Defaut(x, a, l) /\ p.id = a
      BY <1>1
  <2>2. PICK b \in Locales : \E l \in locales[b] : q = Defaut(x, b, l) /\ q.id = b
      BY <1>1
  <2> QED  BY <1>2, <2>1, <2>2
<1> QED  BY <1>1, <1>2 DEF CleUnique

TablesReferentiel ==
    {"fiche", "circulation", "langue_pays", "adhesion", "taux", "locale", "traduction"}

LEMMA ActePlus ==
    ASSUME NEW T, NEW U, T \subseteq U, Acte(T)
    PROVE  Acte(U)
BY DEF Acte, PasDe

LEMMA FichesActe ==
    ASSUME NEW r \in Requetes, Fiches(r)
    PROVE  Acte({"fiche"})
<1> DEFINE T == {"fiche"}
<1>0. "fiche" \in T
      OBVIOUS
<1> HIDE DEF T
<1>1. Acte(T)
      BY <1>0, TraiterActe
         DEF Fiches, CreatePays, UpdatePays, TransitionPays, SetPaysActivation, CreateDevise,
             TransitionDevise, CreateLangue, TransitionLangue, CreateBlocRegional,
             TransitionBlocRegional, Creer, Transition
<1> QED  BY <1>1 DEF T

LEMMA LiaisonsActe ==
    ASSUME NEW r \in Requetes, Liaisons(r)
    PROVE  Acte({"langue_pays", "adhesion", "taux"})
<1> DEFINE T == {"langue_pays", "adhesion", "taux"}
<1>0. "langue_pays" \in T /\ "adhesion" \in T /\ "taux" \in T
      OBVIOUS
<1> HIDE DEF T
<1>1. Acte(T)
      BY <1>0, TraiterActe
         DEF Liaisons, AttachLangueToPays, AddPaysToBlocRegional, WithdrawPaysFromBlocRegional,
             SetTauxChange
<1> QED  BY <1>1 DEF T

LEMMA TraductionActe ==
    ASSUME NEW r \in Requetes, Traduction(r), \A y \in Locales : \A l, m \in locales[y] : l = m
    PROVE  Acte({"locale", "traduction"})
<1> DEFINE T == {"locale", "traduction"}
<1>0. "locale" \in T /\ "traduction" \in T
      OBVIOUS
<1> HIDE DEF T
<1>1. ASSUME NEW x \in Locales, SetLocaleParDefaut(r, x) PROVE Acte(T)
  <2>1. TraiterTout(r, Defauts(x))
      BY <1>1, SetLocaleEcritures
  <2>2. CleUnique(Defauts(x)) /\ \A q \in Defauts(x) : Neuve(q) /\ q.table = "locale"
      BY DefautsNeuves
  <2> QED  BY <1>0, <2>1, <2>2, TraiterToutActe
<1>2. ASSUME NEW x \in Locales,
             \/ CreateLocale(r, x) \/ UpdateLocale(r, x)
             \/ \E a \in BOOLEAN : SetLocaleActivation(r, x, a)
             \/ \E c \in Cles : CreateTraduction(r, x, c) \/ UpdateTraduction(r, x, c)
      PROVE  Acte(T)
      BY <1>0, <1>2, TraiterActe
         DEF CreateLocale, UpdateLocale, SetLocaleActivation, CreateTraduction, UpdateTraduction
<1>3. Acte(T)
      BY <1>1, <1>2 DEF Traduction
<1> QED  BY <1>3 DEF T

LEMMA CirculationActe ==
    ASSUME NEW r \in Requetes, Circulation(r)
    PROVE  Acte({"circulation"})
<1>1. PICK x \in Relations, v \in {d1, d2}, d \in Dates, f \in Dates \union {Nul}, b \in BOOLEAN :
          AttachDeviseToPays(r, x, p1, v, d, f, b)
    BY DEF Circulation
<1> PICK l : l = [pays |-> p1, devise |-> v, debut |-> d, fin |-> f, principale |-> b]
    OBVIOUS
<1>2. CASE TraiterTout(r, {Ecriture("circulation", x, l, TRUE, Nul)})
  <2>1. /\ CleUnique({Ecriture("circulation", x, l, TRUE, Nul)})
        /\ \A q \in {Ecriture("circulation", x, l, TRUE, Nul)} : Neuve(q) /\ q.table = "circulation"
      BY DEF Ecriture, Neuve, EcritureOK, Champs, CleUnique
  <2> QED  BY <1>2, <2>1, TraiterToutActe
<1>3. CASE \E a, m : a # x /\ TraiterTout(r, Circulations(x, l, a, m))
  <2>1. PICK a, m : a # x /\ TraiterTout(r, Circulations(x, l, a, m))
      BY <1>3
  <2>2. /\ CleUnique(Circulations(x, l, a, m))
        /\ \A q \in Circulations(x, l, a, m) : Neuve(q) /\ q.table = "circulation"
      BY <2>1, CirculationsNeuves
  <2> QED  BY <2>1, <2>2, TraiterToutActe
<1>4. \/ TraiterTout(r, {Ecriture("circulation", x, l, TRUE, Nul)})
      \/ \E a \in findPrincipaleActive(p1, d) : \E m \in circulations[a] :
            a # x /\ TraiterTout(r, Circulations(x, l, a, [m EXCEPT !.fin = d]))
  <2>1. Attachement(r, x, p1, d, b, l)
      BY <1>1, AttachDeviseEcritures
  <2> QED  BY <2>1 DEF Attachement
<1>5. \/ TraiterTout(r, {Ecriture("circulation", x, l, TRUE, Nul)})
      \/ \E a, m : a # x /\ TraiterTout(r, Circulations(x, l, a, m))
    BY <1>4
<1> QED  BY <1>2, <1>3, <1>5

LEMMA ReferentielActe ==
    ASSUME ReferentielNext, \A y \in Locales : \A l, m \in locales[y] : l = m
    PROVE  Acte(TablesReferentiel)
<1> DEFINE T == TablesReferentiel
<1>0. /\ {"fiche"} \subseteq T /\ {"circulation"} \subseteq T /\ {"locale", "traduction"} \subseteq T
      /\ {"langue_pays", "adhesion", "taux"} \subseteq T
      BY DEF TablesReferentiel
<1>1. ASSUME NEW r \in Requetes, Fiches(r) \/ Liaisons(r) \/ Traduction(r) \/ Circulation(r)
      PROVE  Acte(T)
  <2> HIDE DEF T
  <2>1. CASE Fiches(r)
      BY <1>0, <2>1, FichesActe, ActePlus
  <2>2. CASE Liaisons(r)
      BY <1>0, <2>2, LiaisonsActe, ActePlus
  <2>3. CASE Traduction(r)
      BY <1>0, <2>3, TraductionActe, ActePlus
  <2>4. CASE Circulation(r)
      BY <1>0, <2>4, CirculationActe, ActePlus
  <2> QED  BY <1>1, <2>1, <2>2, <2>3, <2>4
<1>2. ASSUME NEW r \in Requetes, saveReferentiel(r) PROVE Acte(T)
      BY <1>2, saveActe DEF saveReferentiel, TablesReferentiel
<1>3. ASSUME NEW r \in Requetes,
             commitFiche(r) \/ commitRelation(r) \/ commitLocale(r) \/ commitTraduction(r)
      PROVE  Acte(T)
      BY <1>3, TerminerActe DEF commitFiche, commitRelation, commitLocale, commitTraduction, Valider
<1> QED  BY <1>1, <1>2, <1>3 DEF ReferentielNext

LEMMA ConfigActe ==
    ASSUME ConfigNext
    PROVE  Acte({"configuration"})
<1> DEFINE T == {"configuration"}
<1>0. "configuration" \in T
      OBVIOUS
<1> HIDE DEF T
<1>1. ASSUME NEW r \in Requetes, Reglage(r) PROVE Acte(T)
      BY <1>0, <1>1, TraiterActe DEF Reglage, UpdateConfigurationGlobale
<1>2. ASSUME NEW r \in Requetes, saveConfiguration(r) PROVE Acte(T)
      BY <1>0, <1>2, saveActe DEF saveConfiguration
<1>3. ASSUME NEW r \in Requetes, commitConfiguration(r) PROVE Acte(T)
      BY <1>3, TerminerActe DEF commitConfiguration, Valider
<1> QED  BY <1>1, <1>2, <1>3 DEF ConfigNext, T

TablesCatalogue == {"catalogue", "article", "offre", "feature", "droit", "grille"}

LEMMA CatalogueActe ==
    ASSUME CatalogueNext
    PROVE  Acte(TablesCatalogue)
<1> DEFINE T == TablesCatalogue
<1>0. /\ "catalogue" \in T /\ "article" \in T /\ "offre" \in T
      /\ "feature" \in T /\ "droit" \in T /\ "grille" \in T
      BY DEF TablesCatalogue
<1> HIDE DEF T
<1>1. ASSUME NEW r \in Requetes, Diffusion(r) PROVE Acte(T)
      BY <1>0, <1>1, TraiterActe
         DEF Diffusion, CreateCatalogue, UpdateCatalogue, TransitionCatalogueWorkflow, TransitionCatalog
<1>2. ASSUME NEW r \in Requetes, Assortiment(r) PROVE Acte(T)
      BY <1>0, <1>2, TraiterActe
         DEF Assortiment, CreateProduit, UpdateProduit, TransitionProduit, TransitionCatalog
<1>3. ASSUME NEW r \in Requetes, Offre(r) PROVE Acte(T)
      BY <1>0, <1>3, TraiterActe DEF Offre, CreateOffre, UpdateOffre, TransitionOffre, TransitionCatalog
<1>4. ASSUME NEW r \in Requetes, Droits(r) PROVE Acte(T)
      BY <1>0, <1>4, TraiterActe DEF Droits, CreateFeature, AttachEntitlementToOffre
<1>5. ASSUME NEW r \in Requetes, Tarif(r) PROVE Acte(T)
      BY <1>0, <1>5, TraiterActe DEF Tarif, CreateGrilleTarifaire, TransitionGrille, TransitionCatalog
<1>6. ASSUME NEW r \in Requetes, saveCatalogue(r) PROVE Acte(T)
      BY <1>0, <1>6, saveActe DEF saveCatalogue
<1>7. ASSUME NEW r \in Requetes,
             \/ commitCatalogue(r) \/ commitArticle(r) \/ commitOffre(r)
             \/ commitFeature(r) \/ commitGrille(r)
      PROVE  Acte(T)
      BY <1>7, TerminerActe
         DEF commitCatalogue, commitArticle, commitOffre, commitFeature, commitGrille, Valider
<1> QED  BY <1>1, <1>2, <1>3, <1>4, <1>5, <1>6, <1>7 DEF CatalogueNext, T

(* The first login of an unknown person: the account and its identity.     *)
Ouverture(x, g, l) ==
    {Ecriture("compte", g, l, TRUE, Nul), NouveauLien(x, g, "SUPABASE_SESSION_EXCHANGED")}

LEMMA OuvertureNeuve ==
    ASSUME NEW x, NEW g, NEW l
    PROVE  /\ CleUnique(Ouverture(x, g, l))
           /\ \A q \in Ouverture(x, g, l) : Neuve(q) /\ q.table \in {"compte", "lien"}
<1> DEFINE q == Ecriture("compte", g, l, TRUE, Nul)
           p == NouveauLien(x, g, "SUPABASE_SESSION_EXCHANGED")
<1>1. Neuve(q) /\ q.table = "compte" /\ Neuve(p) /\ p.table = "lien"
      BY DEF NouveauLien, Ecriture, Neuve, EcritureOK, Champs
<1>2. Ouverture(x, g, l) = {q, p}
      BY DEF Ouverture
<1> HIDE DEF q, p
<1> QED  BY <1>1, <1>2 DEF CleUnique

LEMMA LienNeuf ==
    ASSUME NEW x, NEW g, NEW type
    PROVE  /\ CleUnique({NouveauLien(x, g, type)})
           /\ \A q \in {NouveauLien(x, g, type)} :
                 /\ Neuve(q) /\ q.table = "lien" /\ q.id = x /\ q.ligne = [compte |-> g]
                 /\ q.insertion = TRUE
BY DEF NouveauLien, Ecriture, Neuve, EcritureOK, Champs, CleUnique

LEMMA IdentiteActe ==
    ASSUME IdentiteNext
    PROVE  Acte({"compte", "lien", "affectation"})
<1> DEFINE T == {"compte", "lien", "affectation"}
<1>0. "compte" \in T /\ "lien" \in T /\ "affectation" \in T
      OBVIOUS
<1> HIDE DEF T
<1>1. ASSUME NEW r \in Requetes, NEW g, NEW e, NEW t, RegisterUser(r, g, e, t) PROVE Acte(T)
      BY <1>0, <1>1, TraiterActe DEF RegisterUser
<1>2. ASSUME NEW r \in Requetes, NEW x, NEW g, NEW type, TraiterTout(r, {NouveauLien(x, g, type)})
      PROVE  Acte(T)
  <2> DEFINE E == {NouveauLien(x, g, type)}
  <2>1. CleUnique(E) /\ \A q \in E : Neuve(q) /\ q.table = "lien"
      BY DEF NouveauLien, Ecriture, Neuve, EcritureOK, Champs, CleUnique
  <2>2. TraiterTout(r, E)
      BY <1>2
  <2> HIDE DEF E
  <2> QED  BY <1>0, <2>1, <2>2, TraiterToutActe
<1>3. ASSUME NEW r \in Requetes, NEW x, NEW g, NEW e, NEW t, ExchangeSupabaseSession(r, x, g, e, t)
      PROVE  Acte(T)
  <2> DEFINE l == [email |-> e, phone |-> t, motDePasse |-> FALSE]
  <2>1. TraiterTout(r, Ouverture(x, g, l)) => Acte(T)
      BY <1>0, OuvertureNeuve, TraiterToutActe
  <2> QED  BY <1>2, <1>3, <2>1 DEF ExchangeSupabaseSession, Ouverture
<1>4. ASSUME NEW r \in Requetes, NEW x, NEW g, LinkExternalIdentity(r, x, g) PROVE Acte(T)
      BY <1>2, <1>4 DEF LinkExternalIdentity
<1>5. ASSUME NEW r \in Requetes, NEW a, NEW x, NEW o, AssignRole(r, a, g1, x, o) PROVE Acte(T)
      BY <1>0, <1>5, TraiterActe DEF AssignRole
<1>6. ASSUME NEW r \in Requetes, saveIdentite(r) PROVE Acte(T)
      BY <1>0, <1>6, saveActe DEF saveIdentite
<1>7. ASSUME NEW r \in Requetes, commitCompte(r) \/ commitAffectation(r) PROVE Acte(T)
      BY <1>7, TerminerActe DEF commitCompte, commitAffectation, Valider
<1> QED  BY <1>1, <1>3, <1>4, <1>5, <1>6, <1>7 DEF IdentiteNext, Inscription, T

-----------------------------------------------------------------------------
(* What the steps of a request do to the writes to t.                      *)
LEMMA SuiviTraiter ==
    ASSUME NEW r \in Requetes, NEW t, NEW lignes, NEW i, NEW ligne, NEW type, NEW A, NEW B,
           ReqOK(requete), Suivi(requete, t, lignes, A, B),
           Traiter(r, t, lignes, i, ligne, type),
           <<i, ligne>> \in A, <<i, ligne>> \in B
    PROVE  Suivi(requete', t, lignes, A, B)
<1> DEFINE q == Ecriture(t, i, ligne, lignes[i] = {}, type)
<1>1. Debute(requete, requete', r, {q})
      BY TraiterDebute
<1>2. q.id = i /\ q.ligne = ligne /\ (q.insertion = TRUE <=> lignes[i] = {})
      BY DEF Ecriture
<1> HIDE DEF q
<1> QED  BY <1>1, <1>2, SuiviDebute

LEMMA SuiviSave ==
    ASSUME NEW r \in Requetes, NEW t, NEW lignes, NEW A, NEW B,
           ReqOK(requete), Suivi(requete, t, lignes, A, B), save(r, t, lignes)
    PROVE  Suivi(requete', t, lignes, A, B)
BY saveSauve, SuiviSauve

LEMMA SuiviTerminer ==
    ASSUME NEW r \in Requetes, NEW t, NEW lignes, NEW A, NEW B, NEW lignes2, NEW A2, NEW B2,
           ReqOK(requete), Suivi(requete, t, lignes, A, B), Terminer(r), A \subseteq A2
    PROVE  Suivi(requete', t, lignes2, A2, B2)
BY TerminerFinit, SuiviFinit

LEMMA SuiviActe ==
    ASSUME NEW T, NEW t, NEW lignes, NEW A, NEW B,
           ReqOK(requete), Suivi(requete, t, lignes, A, B), Acte(T), t \notin T
    PROVE  Suivi(requete', t, lignes, A, B)
BY SuiviAilleurs DEF Acte

LEMMA SuiviRollback ==
    ASSUME NEW r \in Requetes, NEW t, NEW lignes, NEW A, NEW B,
           ReqOK(requete), Suivi(requete, t, lignes, A, B), rollback(r)
    PROVE  Suivi(requete', t, lignes, A, B)
BY rollbackAnnule, SuiviAnnule

LEMMA ActeReqOK ==
    ASSUME NEW T, ReqOK(requete), Acte(T)
    PROVE  ReqOK(requete') /\ (recouvrement => recouvrement')
BY PasReqOK DEF Acte

(* The commit of the writes to t.                                          *)
LEMMA ValiderTable ==
    ASSUME NEW r \in Requetes, NEW t, NEW lignes, NEW ids, NEW row, NEW A, NEW B,
           ReqOK(requete), Suivi(requete, t, lignes, A, B), A \subseteq ids \X row,
           Table1(lignes, ids, row), Colonnes(row), Valider(r, t, lignes)
    PROVE  Table1(ApresTout(r, lignes), ids, row)
<1> DEFINE S == requete[r]
<1>1. \A q \in S : q.table = t
      BY DEF Valider
<1>2. \A q \in S : q.id \in ids /\ q.ligne \in row
      BY <1>1 DEF Suivi
<1>3. \A p, q \in S : p.id = q.id => p = q
      BY <1>1 DEF ReqOK, CleUnique
<1> HIDE DEF S
<1>4. Table1(ApresDe(S, lignes), ids, row)
      BY <1>2, <1>3, ApresDeTable
<1> QED  BY <1>4 DEF ApresTout, S

LEMMA ValiderCopies ==
    ASSUME NEW r \in Requetes, NEW t, NEW lignes, NEW ids, NEW row, NEW A, NEW B,
           ReqOK(requete), Suivi(requete, t, lignes, A, B), A \subseteq ids \X row,
           Table1(lignes, ids, row), Colonnes(row), Valider(r, t, lignes),
           ~recouvrement'
    PROVE  /\ \A q \in requete[r] : /\ ApresTout(r, lignes)[q.id] = {q.ligne}
                                    /\ q.id \in ids /\ q.ligne \in row
                                    /\ q.table = t /\ AJour(q, lignes, B)
           /\ \A i \in ids : (\A q \in requete[r] : q.id # i) => ApresTout(r, lignes)[i] = lignes[i]
<1> DEFINE S == requete[r]
<1>1. \A q \in S : q.table = t /\ q.enregistre /\ ~q.depasse /\ EcritureOK(q)
      BY TerminerFinit DEF Valider, ReqOK
<1>2. \A q \in S : q.enregistre = TRUE /\ q.depasse = FALSE /\ q.insertion \in BOOLEAN
      BY <1>1 DEF EcritureOK
<1>3. \A q \in S : q.id \in ids /\ q.ligne \in row /\ AJour(q, lignes, B)
  <2>1. \A q \in S : q.table = t => <<q.id, q.ligne>> \in A /\ (q.depasse = FALSE => AJour(q, lignes, B))
      BY DEF Suivi
  <2> HIDE DEF S
  <2>2. \A q \in S : <<q.id, q.ligne>> \in A /\ AJour(q, lignes, B)
      BY <1>1, <1>2, <2>1
  <2> QED  BY <2>2
<1>4. \A p, q \in S : p.id = q.id => p = q
      BY <1>1 DEF ReqOK, CleUnique
<1> HIDE DEF S
<1>5. /\ \A q \in S : ApresDe(S, lignes)[q.id] = {q.ligne}
      /\ \A i \in ids : (\A q \in S : q.id # i) => ApresDe(S, lignes)[i] = lignes[i]
  <2>1. \A q \in S : /\ q.id \in ids /\ q.ligne \in row /\ AJour(q, lignes, B)
                     /\ q.enregistre = TRUE /\ q.insertion \in BOOLEAN
      BY <1>2, <1>3
  <2>2. Copies(S, lignes, ids, row, B)
      BY <1>4, <2>1 DEF Copies
  <2> QED  BY <2>2, ApresDeCopies
<1> QED  BY <1>1, <1>3, <1>5 DEF ApresTout, S

(* A commit removes no row.                                                *)
LEMMA ValiderReste ==
    ASSUME NEW r \in Requetes, NEW lignes, NEW ids, DOMAIN lignes = ids
    PROVE  \A i \in ids : lignes[i] # {} => ApresTout(r, lignes)[i] # {}
<1> SUFFICES ASSUME NEW i \in ids, lignes[i] # {} PROVE ApresTout(r, lignes)[i] # {}
    OBVIOUS
<1> DEFINE S == requete[r]
<1>1. CASE ~\E q \in S : q.id = i
      BY <1>1 DEF ApresTout, ApresDe
<1>2. CASE \E q \in S : q.id = i
  <2>1. PICK q \in S : q.id = i
      BY <1>2
  <2>2. Apres(q, lignes)[i] = IF q.insertion THEN {q.ligne} ELSE {Fusion(q, l) : l \in lignes[i]}
      BY <2>1 DEF Apres
  <2>3. Apres(q, lignes)[i] # {}
      BY <2>2
  <2>4. ApresTout(r, lignes)[i] = UNION {Apres(p, lignes)[i] : p \in {x \in S : x.id = i}}
      BY <1>2 DEF ApresTout, ApresDe
  <2> QED  BY <2>1, <2>3, <2>4
<1> QED  BY <1>1, <1>2

LEMMA ValiderGarde ==
    ASSUME NEW r \in Requetes, NEW lignes, NEW ids, NEW row, Table1(lignes, ids, row)
    PROVE  \A i \in ids : lignes[i] # {} => ApresTout(r, lignes)[i] # {}
BY ValiderReste DEF Table1

LEMMA Table1Plus ==
    ASSUME NEW lignes, NEW ids, NEW row, NEW row2, Table1(lignes, ids, row), row \subseteq row2
    PROVE  Table1(lignes, ids, row2)
BY DEF Table1

(* When a table takes one write per request.                               *)
LEMMA ValiderCopie ==
    ASSUME NEW r \in Requetes, NEW t, NEW lignes, NEW ids, NEW row, NEW A, NEW B,
           ReqOK(requete), Suivi(requete, t, lignes, A, B), A \subseteq ids \X row,
           Table1(lignes, ids, row), Colonnes(row), Valider(r, t, lignes),
           ~recouvrement', t \notin {"circulation", "locale"}
    PROVE  \E q \in requete[r] :
               /\ q.id \in ids /\ q.ligne \in row /\ AJour(q, lignes, B)
               /\ requete[r] = {q} /\ q.table = t
               /\ ApresTout(r, lignes)[q.id] = {q.ligne}
               /\ \A i \in ids : i # q.id => ApresTout(r, lignes)[i] = lignes[i]
<1>1. PICK q \in requete[r] : TRUE
      BY DEF Valider, Terminer
<1>2. requete[r] = {q}
      BY <1>1 DEF Valider, ReqOK, CleUnique
<1> QED  BY <1>2, ValiderCopies

-----------------------------------------------------------------------------
LEMMA NextContextes ==
    ASSUME [Next]_vars
    PROVE  \/ EngineNext \/ CorpusNext \/ RegistreNext \/ OrgNext \/ ReferentielNext
           \/ ConfigNext \/ CatalogueNext \/ IdentiteNext \/ Refus
           \/ UNCHANGED <<uniteVars, metierVars>>
BY DEF Next, Metier, vars

LEMMA LocaleColonnes == Colonnes(LocaleRow)
BY DEF Colonnes, LocaleRow

LocalesOK == Table1(locales, Locales, LocaleRow)

SuiviLocales ==
    Suivi(requete, "locale", locales, Locales \X LocaleRow, Locales \X LocaleRow)

Socle == ReqOK(requete) /\ LocalesOK /\ SuiviLocales

LEMMA SocleInit == Init => Socle
<1> SUFFICES ASSUME Init PROVE Socle
    OBVIOUS
<1>1. requete = [r \in Requetes |-> {}]
      BY DEF Init, InitUnite
<1>2. ReqOK(requete) /\ SuiviLocales
      BY <1>1 DEF ReqOK, CleUnique, SuiviLocales, Suivi
<1>3. locales = Table(Locales, [x \in {<<l1, Nul>>} |-> [actif |-> TRUE, defaut |-> TRUE]])
      BY DEF Init, Demarrage
<1>4. LocalesOK
  <2> DEFINE f == [x \in {<<l1, Nul>>} |-> [actif |-> TRUE, defaut |-> TRUE]]
  <2>1. \A i \in DOMAIN f : f[i] \in LocaleRow
      BY DEF LocaleRow
  <2> HIDE DEF f
  <2>2. Table1(Table(Locales, f), Locales, LocaleRow)
      BY <2>1, TableDepart
  <2> QED  BY <1>3, <2>2 DEF LocalesOK, f
<1> QED  BY <1>2, <1>4 DEF Socle

LEMMA SocleSansDouble == Socle => \A y \in Locales : \A l, m \in locales[y] : l = m
BY DEF Socle, LocalesOK, Table1

(* Every step but those that write to the locales.                         *)
LEMMA SocleAilleurs ==
    ASSUME Socle, NEW T, Acte(T), "locale" \notin T, UNCHANGED locales
    PROVE  Socle'
<1> DEFINE A == Locales \X LocaleRow
<1>1. ReqOK(requete') /\ Suivi(requete', "locale", locales, A, A)
      BY ActeReqOK, SuiviActe DEF Socle, SuiviLocales
<1> QED  BY <1>1 DEF Socle, SuiviLocales, LocalesOK

LEMMA SocleReferentiel ==
    ASSUME Socle, ReferentielNext
    PROVE  Socle'
<1> DEFINE A == Locales \X LocaleRow
<1> USE DEF Socle
<1>1. ReqOK(requete')
      BY SocleSansDouble, ReferentielActe, ActeReqOK
<1>2. SUFFICES LocalesOK' /\ Suivi(requete', "locale", locales', A, A)
      BY <1>1 DEF SuiviLocales
<1>3. Suivi(requete, "locale", locales, A, A)
      BY DEF SuiviLocales
<1>4. SUFFICES ASSUME NEW r \in Requetes,
                      \/ /\ Fiches(r) \/ Liaisons(r) \/ Traduction(r) \/ Circulation(r)
                         /\ UNCHANGED locales
                      \/ saveReferentiel(r) \/ commitFiche(r) \/ commitRelation(r)
                      \/ commitLocale(r) \/ commitTraduction(r)
               PROVE  LocalesOK' /\ Suivi(requete', "locale", locales', A, A)
      BY DEF ReferentielNext
<1>5. CASE UNCHANGED locales /\ \E T : Acte(T) /\ "locale" \notin T
      BY <1>3, <1>5, SuiviActe DEF LocalesOK
<1>6. CASE Terminer(r) /\ UNCHANGED locales
      BY <1>3, <1>6, SuiviTerminer DEF LocalesOK
<1>7. CASE Traduction(r) /\ UNCHANGED locales
  <2>1. ASSUME NEW x \in Locales, SetLocaleParDefaut(r, x)
        PROVE  Suivi(requete', "locale", locales, A, A)
    <3>1. CleUnique(Defauts(x)) /\ \A q \in Defauts(x) : Neuve(q) /\ q.table = "locale"
        BY SocleSansDouble, DefautsNeuves
    <3>2. locales[x] # {} /\ Debute(requete, requete', r, Defauts(x))
        BY <2>1, <3>1, SetLocaleEcritures, TraiterToutDebute
    <3>3. ASSUME NEW q \in Defauts(x)
          PROVE  <<q.id, q.ligne>> \in A /\ (q.insertion = TRUE <=> locales[q.id] = {})
      <4>1. PICK a \in Locales : \E l \in locales[a] : q = Defaut(x, a, l)
          BY DefautsDe
      <4>2. PICK l \in locales[a] : q = Defaut(x, a, l)
          BY <4>1
      <4>3. q.id = a /\ q.ligne = [l EXCEPT !.defaut = (a = x)] /\ q.insertion = FALSE
          BY <4>2 DEF Defaut, Ecriture
      <4>4. l \in LocaleRow
          BY DEF LocalesOK, Table1
      <4>5. q.ligne \in LocaleRow
          BY <4>3, <4>4 DEF LocaleRow
      <4>6. q.id \in Locales /\ locales[q.id] # {} /\ q.insertion # TRUE
          BY <4>3
      <4> QED  BY <4>5, <4>6
    <3> QED  BY <1>3, <3>2, <3>3, SuiviDebute
  <2>2. ASSUME NEW x \in Locales, NEW l \in LocaleRow, NEW type,
               Traiter(r, "locale", locales, x, l, type)
        PROVE  Suivi(requete', "locale", locales, A, A)
      BY <1>3, <2>2, SuiviTraiter
  <2>3. ASSUME NEW x \in Locales,
               \/ CreateLocale(r, x) \/ UpdateLocale(r, x)
               \/ \E a \in BOOLEAN : SetLocaleActivation(r, x, a)
        PROVE  Suivi(requete', "locale", locales, A, A)
    <3>1. locales[x] \subseteq LocaleRow /\ [actif |-> TRUE, defaut |-> FALSE] \in LocaleRow
        BY DEF LocalesOK, Table1, LocaleRow
    <3>2. \A l \in locales[x] : \A a \in BOOLEAN : [l EXCEPT !.actif = a] \in LocaleRow
        BY <3>1 DEF LocaleRow
    <3> QED  BY <2>2, <2>3, <3>1, <3>2 DEF CreateLocale, UpdateLocale, SetLocaleActivation
  <2>4. ASSUME NEW x \in Locales, NEW c \in Cles, CreateTraduction(r, x, c) \/ UpdateTraduction(r, x, c)
        PROVE  Acte({"traduction"})
      BY <2>4, TraiterActe DEF CreateTraduction, UpdateTraduction
  <2>5. Acte({"traduction"}) => Suivi(requete', "locale", locales, A, A)
      BY <1>3, SuiviActe
  <2>6. Suivi(requete', "locale", locales, A, A)
      BY <1>7, <2>1, <2>3, <2>4, <2>5 DEF Traduction
  <2> QED  BY <1>7, <2>6 DEF LocalesOK
<1>8. CASE saveReferentiel(r)
  <2>1. \/ save(r, "locale", locales)
        \/ Acte({"fiche"}) \/ Acte({"circulation"}) \/ Acte({"langue_pays"})
        \/ Acte({"adhesion"}) \/ Acte({"taux"}) \/ Acte({"traduction"})
      BY <1>8, saveActe DEF saveReferentiel
  <2>2. UNCHANGED locales
      BY <1>8 DEF saveReferentiel, referentielVars
  <2>3. save(r, "locale", locales) => Suivi(requete', "locale", locales, A, A)
      BY <1>3, SuiviSave
  <2> QED  BY <1>5, <2>1, <2>2, <2>3 DEF LocalesOK
<1>9. CASE commitLocale(r)
  <2>1. Valider(r, "locale", locales) /\ locales' = ApresTout(r, locales)
      BY <1>9 DEF commitLocale
  <2>2. LocalesOK'
      BY <1>3, <2>1, ValiderTable, LocaleColonnes DEF LocalesOK
  <2>3. Suivi(requete', "locale", locales', A, A)
      BY <1>3, <2>1, SuiviTerminer DEF Valider
  <2> QED  BY <2>2, <2>3
<1>10. CASE commitFiche(r) \/ commitRelation(r) \/ commitTraduction(r)
      BY <1>6, <1>10 DEF commitFiche, commitRelation, commitTraduction, Valider
<1>11. CASE (Fiches(r) \/ Liaisons(r) \/ Circulation(r)) /\ UNCHANGED locales
      BY <1>5, <1>11, FichesActe, LiaisonsActe, CirculationActe
<1> QED  BY <1>4, <1>7, <1>8, <1>9, <1>10, <1>11

LEMMA SocleEtape == Socle /\ [Next]_vars => Socle'
<1> SUFFICES ASSUME Socle, [Next]_vars PROVE Socle'
    OBVIOUS
<1>1. ASSUME UNCHANGED <<requete, locales>> PROVE Socle'
      BY <1>1 DEF Socle, SuiviLocales, LocalesOK
<1>2. CASE EngineNext
      BY <1>1, <1>2, EngineActe, SocleAilleurs DEF EngineNext, referentielVars
<1>3. CASE CorpusNext
      BY <1>3, CorpusActe, SocleAilleurs DEF CorpusNext, referentielVars
<1>4. CASE RegistreNext
      BY <1>4, RegistreActe, SocleAilleurs DEF RegistreNext, referentielVars
<1>5. CASE OrgNext
      BY <1>5, OrgActe, SocleAilleurs DEF OrgNext, referentielVars
<1>6. CASE ReferentielNext
      BY <1>6, SocleReferentiel
<1>7. CASE ConfigNext
      BY <1>7, ConfigActe, SocleAilleurs DEF ConfigNext, referentielVars
<1>8. CASE CatalogueNext
      BY <1>8, CatalogueActe, SocleAilleurs DEF CatalogueNext, referentielVars, TablesCatalogue
<1>9. CASE IdentiteNext
      BY <1>9, IdentiteActe, SocleAilleurs DEF IdentiteNext, referentielVars
<1>10. CASE Refus
  <2>1. PICK r \in Requetes : rollback(r)
      BY <1>10 DEF Refus
  <2>2. UNCHANGED locales
      BY <1>10 DEF Refus, metierVars, referentielVars
  <2>3. Acte({})
      BY <2>1, rollbackAnnule DEF Acte, PasDe
  <2> QED  BY <2>2, <2>3, SocleAilleurs
<1>11. CASE UNCHANGED <<uniteVars, metierVars>>
      BY <1>1, <1>11 DEF uniteVars, metierVars, referentielVars
<1> QED  BY NextContextes, <1>2, <1>3, <1>4, <1>5, <1>6, <1>7, <1>8, <1>9, <1>10, <1>11

LEMMA SocleCorrect == Spec => []Socle
<1>1. Socle /\ [Next]_vars => Socle'
      BY SocleEtape
<1> QED  BY SocleInit, <1>1, PTL DEF Spec

-----------------------------------------------------------------------------
(* The tree of the organisations.  A parent is there when it is chosen and *)
(* is never removed; as long as no request has overlapped another, a write *)
(* whose copy is up to date closes no loop.                                *)
Organisees(t) == {l \in OrganisationRow : l.mere = Nul \/ t[l.mere] # {}}

MeresDe(t) == [o \in Orgs |-> {l.mere : l \in t[o]} \ {Nul}]

MeresAvec(t, o, l) == [x \in Orgs |-> IF x = o THEN {l.mere} \ {Nul} ELSE MeresDe(t)[x]]

FiliationSure(t) == {w \in Orgs \X OrganisationRow : SansBoucle(MeresAvec(t, w[1], w[2]))}

InvFiliation ==
    /\ Table1(organisations, Orgs, Organisees(organisations))
    /\ Suivi(requete, "organisation", organisations, Orgs \X Organisees(organisations),
             Orgs \X Organisees(organisations))
    /\ ~recouvrement =>
          /\ SansBoucle(MeresDe(organisations))
          /\ Suivi(requete, "organisation", organisations, Orgs \X Organisees(organisations),
                   FiliationSure(organisations))

LEMMA OrganisationColonnes == \A t : Colonnes(Organisees(t))
<1>1. Colonnes(OrganisationRow)
      BY DEF Colonnes, OrganisationRow
<1>2. ASSUME NEW t, NEW a \in Organisees(t), NEW b \in Organisees(t), NEW C
      PROVE  [c \in DOMAIN a |-> IF c \in C THEN a[c] ELSE b[c]] \in Organisees(t)
  <2> DEFINE n == [c \in DOMAIN a |-> IF c \in C THEN a[c] ELSE b[c]]
  <2>1. "mere" \in DOMAIN a
      BY DEF Organisees, OrganisationRow
  <2>2. n.mere = (IF "mere" \in C THEN a.mere ELSE b.mere)
      BY <2>1
  <2>3. n \in OrganisationRow
      BY <1>1 DEF Colonnes, Organisees
  <2> HIDE DEF n
  <2>4. n \in Organisees(t)
      BY <2>2, <2>3 DEF Organisees
  <2> QED  BY <2>4 DEF n
<1>3. \A t : \A a \in Organisees(t) : a = [c \in DOMAIN a |-> a[c]]
      BY <1>1 DEF Colonnes, Organisees
<1> QED  BY <1>2, <1>3 DEF Colonnes

LEMMA FiliationInit == Init => InvFiliation
<1> SUFFICES ASSUME Init PROVE InvFiliation
    OBVIOUS
<1>1. requete = [r \in Requetes |-> {}]
      BY DEF Init, InitUnite
<1> DEFINE f == [o \in {o1} |-> [mere |-> Nul, actif |-> TRUE]]
<1>2. organisations = Table(Orgs, f)
      BY DEF Init, Demarrage
<1>3. \A t : \A i \in DOMAIN f : f[i] \in Organisees(t) /\ f[i].mere = Nul
      BY DEF Organisees, OrganisationRow
<1> HIDE DEF f
<1>4. Table1(organisations, Orgs, Organisees(organisations))
      BY <1>2, <1>3, TableDepart
<1>5. \A o \in Orgs : MeresDe(organisations)[o] = {}
  <2>1. \A o \in Orgs : \A l \in organisations[o] : l.mere = Nul
      BY <1>2, <1>3 DEF Table
  <2> QED  BY <2>1 DEF MeresDe
<1>6. SansBoucle(MeresDe(organisations))
      BY <1>5 DEF SansBoucle, MeresDe
<1> QED  BY <1>1, <1>4, <1>6 DEF InvFiliation, Suivi

LEMMA FiliationAilleurs ==
    ASSUME Socle, InvFiliation, NEW T, Acte(T), "organisation" \notin T, UNCHANGED organisations
    PROVE  InvFiliation'
<1>1. ReqOK(requete)
      BY DEF Socle
<1> QED  BY <1>1, ActeReqOK, SuiviActe DEF InvFiliation

(* The writes that the use-cases prepare.                                  *)
LEMMA FiliationTraiter ==
    ASSUME Socle, InvFiliation, NEW r \in Requetes, NEW o \in Orgs, NEW l, NEW type,
           Traiter(r, "organisation", organisations, o, l, type), UNCHANGED organisations,
           l \in Organisees(organisations),
           SansBoucle(MeresDe(organisations)) => SansBoucle(MeresAvec(organisations, o, l))
    PROVE  InvFiliation'
<1> DEFINE A == Orgs \X Organisees(organisations)
           B == FiliationSure(organisations)
<1>1. ReqOK(requete) /\ <<o, l>> \in A
      BY DEF Socle
<1>2. UNCHANGED recouvrement
      BY TraiterDebute
<1>3. Suivi(requete', "organisation", organisations, A, A)
      BY <1>1, SuiviTraiter DEF InvFiliation
<1>4. ASSUME ~recouvrement
      PROVE  SansBoucle(MeresDe(organisations)) /\ Suivi(requete', "organisation", organisations, A, B)
  <2>1. SansBoucle(MeresDe(organisations)) /\ Suivi(requete, "organisation", organisations, A, B)
      BY <1>4 DEF InvFiliation
  <2>2. <<o, l>> \in B
      BY <2>1 DEF FiliationSure, Organisees
  <2> QED  BY <1>1, <2>1, <2>2, SuiviTraiter
<1> QED  BY <1>2, <1>3, <1>4 DEF InvFiliation

LEMMA FiliationCommit ==
    ASSUME Socle, InvFiliation, NEW r \in Requetes, commitOrganisation(r)
    PROVE  InvFiliation'
<1> DEFINE t == organisations
           t2 == ApresTout(r, organisations)
           A == Orgs \X Organisees(t)
<1>1. /\ ReqOK(requete) /\ Table1(t, Orgs, Organisees(t)) /\ Colonnes(Organisees(t))
      /\ Suivi(requete, "organisation", t, A, A)
      BY OrganisationColonnes DEF Socle, InvFiliation
<1>2. Valider(r, "organisation", t) /\ Terminer(r) /\ t' = t2
      BY DEF commitOrganisation, Valider
<1>3. Organisees(t) \subseteq Organisees(t2)
  <2>1. \A o \in Orgs : t[o] # {} => t2[o] # {}
      BY <1>1, ValiderGarde
  <2> QED  BY <2>1 DEF Organisees, OrganisationRow
<1>4. Table1(t2, Orgs, Organisees(t2))
  <2>1. Table1(t2, Orgs, Organisees(t))
      BY <1>1, <1>2, ValiderTable
  <2> QED  BY <1>3, <2>1, Table1Plus
<1>5. \A B : Suivi(requete', "organisation", t2, Orgs \X Organisees(t2), B)
  <2>1. A \subseteq Orgs \X Organisees(t2)
      BY <1>3
  <2> QED  BY <1>1, <1>2, <2>1, SuiviTerminer
<1>6. ASSUME ~recouvrement'
      PROVE  SansBoucle(MeresDe(t2))
  <2>1. ~recouvrement
      BY <1>2, <1>6, TerminerFinit
  <2>2. Suivi(requete, "organisation", t, A, FiliationSure(t))
      BY <2>1 DEF InvFiliation
  <2>3. PICK q \in requete[r] :
            /\ q.id \in Orgs /\ q.ligne \in Organisees(t) /\ AJour(q, t, FiliationSure(t))
            /\ t2[q.id] = {q.ligne}
            /\ \A o \in Orgs : o # q.id => t2[o] = t[o]
      BY <1>1, <1>2, <1>6, <2>2, ValiderCopie
  <2>4. MeresDe(t2) = MeresAvec(t, q.id, q.ligne)
      BY <2>3 DEF MeresDe, MeresAvec
  <2> QED  BY <2>3, <2>4 DEF AJour, FiliationSure
<1> QED  BY <1>2, <1>4, <1>5, <1>6 DEF InvFiliation

(* Each use-case prepares a row whose parent is there and closes no loop.  *)
LEMMA FiliationLecture ==
    ASSUME Socle, InvFiliation, NEW r \in Requetes, NEW o \in Orgs, UNCHANGED organisations,
           \/ \E m \in Orgs \union {Nul} : CreateOrganisation(r, o, m) \/ ReattachOrganisation(r, o, m)
           \/ UpdateOrganisation(r, o) \/ UpdateOrganisationReferentiel(r, o)
           \/ \E a \in BOOLEAN : SetOrganisationActivation(r, o, a)
    PROVE  InvFiliation'
<1> DEFINE t == organisations
           P == MeresDe(t)
<1>1. \A x \in Orgs : t[x] \subseteq Organisees(t) /\ \A l, m \in t[x] : l = m
      BY DEF InvFiliation, Table1
<1>2. \A l \in Organisees(t) : l \in OrganisationRow
      BY DEF Organisees
<1>3. DOMAIN P = Orgs /\ IsFiniteSet(Orgs) /\ Nul \notin Orgs
      BY OrgAssumption DEF MeresDe
<1>4. \A x \in Orgs, l \in OrganisationRow :
          DOMAIN MeresAvec(t, x, l) = Orgs /\ MeresAvec(t, x, l)[x] = {l.mere} \ {Nul}
      BY DEF MeresAvec
<1>5. \A x, y \in Orgs, l \in OrganisationRow : x # y => MeresAvec(t, x, l)[y] = P[y]
      BY DEF MeresAvec
<1>6. \A x \in Orgs : \A l \in t[x] : P[x] = {l.mere} \ {Nul}
      BY <1>1 DEF MeresDe
<1>7. ASSUME NEW l \in t[o], NEW k \in OrganisationRow, NEW type, k.mere = l.mere,
             Traiter(r, "organisation", organisations, o, k, type)
      PROVE  InvFiliation'
  <2>1. k \in Organisees(t)
      BY <1>1, <1>7 DEF Organisees
  <2>2. \A x \in Orgs : MeresAvec(t, o, k)[x] \subseteq P[x]
      BY <1>4, <1>5, <1>6, <1>7
  <2>3. SansBoucle(P) => SansBoucle(MeresAvec(t, o, k))
      BY <1>3, <1>4, <2>2, DetacherSansBoucle
  <2> QED  BY <1>7, <2>1, <2>3, FiliationTraiter
<1>8. ASSUME NEW m \in Orgs \union {Nul}, CreateOrganisation(r, o, m)
      PROVE  InvFiliation'
  <2> DEFINE k == [mere |-> m, actif |-> TRUE]
  <2>1. /\ t[o] = {} /\ m # o /\ (m # Nul => t[m] # {})
        /\ Traiter(r, "organisation", organisations, o, k, "ORGANISATION_CREATED")
      BY <1>8 DEF CreateOrganisation, Neuf
  <2>2. k \in Organisees(t) /\ k \in OrganisationRow /\ k.mere = m
      BY <2>1 DEF Organisees, OrganisationRow
  <2> HIDE DEF k
  <2>3. \A x \in Orgs : o \notin P[x]
    <3>1. ASSUME NEW x \in Orgs, NEW l \in t[x] PROVE l.mere # o
        BY <1>1, <1>3, <2>1 DEF Organisees
    <3> QED  BY <3>1 DEF MeresDe
  <2>4. SansBoucle(P) => SansBoucle(MeresAvec(t, o, k))
    <3>1. Close(P, Orgs \ {o}) /\ DOMAIN MeresAvec(t, o, k) = DOMAIN P
        BY <1>1, <1>3, <1>4, <2>2, <2>3 DEF Close, MeresDe, Organisees, OrganisationRow
    <3>2. \A x \in DOMAIN P : x # o => MeresAvec(t, o, k)[x] = P[x]
        BY <1>3, <1>5, <2>2
    <3>3. CASE m = Nul
      <4>1. \A x \in Orgs : MeresAvec(t, o, k)[x] \subseteq P[x]
          BY <1>3, <1>4, <2>2, <3>2, <3>3
      <4> QED  BY <1>3, <3>1, <4>1, DetacherSansBoucle
    <3>4. CASE m # Nul
      <4> DEFINE L == Orgs \ {o}
      <4>1. m \in L /\ o \notin L /\ MeresAvec(t, o, k)[o] \subseteq {m}
          BY <1>4, <2>1, <2>2, <3>4
      <4>2. Close(P, L)
          BY <3>1
      <4> HIDE DEF L
      <4> QED  BY <3>1, <3>2, <4>1, <4>2, RattacherSansBoucle
    <3> QED  BY <3>3, <3>4
  <2> QED  BY <2>1, <2>2, <2>4, FiliationTraiter
<1>9. ASSUME NEW m \in Orgs \union {Nul}, ReattachOrganisation(r, o, m)
      PROVE  InvFiliation'
  <2>1. PICK l \in t[o] :
            /\ m # Nul => (t[m] # {} /\ o \notin Lignee(P, m))
            /\ Traiter(r, "organisation", organisations, o, [l EXCEPT !.mere = m], "ORGANISATION_REATTACHED")
      BY <1>9 DEF ReattachOrganisation, isDescendantOf, Meres, MeresDe
  <2> DEFINE k == [l EXCEPT !.mere = m]
  <2>2. k \in Organisees(t) /\ k \in OrganisationRow /\ k.mere = m
      BY <1>1, <1>2, <2>1 DEF Organisees, OrganisationRow
  <2>3. Traiter(r, "organisation", organisations, o, k, "ORGANISATION_REATTACHED")
      BY <2>1
  <2> HIDE DEF k
  <2>4. SansBoucle(P) => SansBoucle(MeresAvec(t, o, k))
    <3>1. DOMAIN MeresAvec(t, o, k) = DOMAIN P
        BY <1>3, <1>4, <2>2
    <3>2. \A x \in DOMAIN P : x # o => MeresAvec(t, o, k)[x] = P[x]
        BY <1>3, <1>5, <2>2
    <3>3. CASE m = Nul
      <4>1. \A x \in Orgs : MeresAvec(t, o, k)[x] \subseteq P[x]
          BY <1>3, <1>4, <2>2, <3>2, <3>3
      <4> QED  BY <1>3, <3>1, <4>1, DetacherSansBoucle
    <3>4. CASE m # Nul
      <4>1. m \in Lignee(P, m) /\ Close(P, Lignee(P, m))
          BY <1>3, LigneeClose
      <4>2. o \notin Lignee(P, m) /\ MeresAvec(t, o, k)[o] \subseteq {m}
          BY <1>4, <2>1, <2>2, <3>4
      <4> QED  BY <3>1, <3>2, <4>1, <4>2, RattacherSansBoucle
    <3> QED  BY <3>3, <3>4
  <2> QED  BY <2>2, <2>3, <2>4, FiliationTraiter
<1>10. CASE UpdateOrganisation(r, o) \/ UpdateOrganisationReferentiel(r, o)
      BY <1>1, <1>2, <1>7, <1>10 DEF UpdateOrganisation, UpdateOrganisationReferentiel
<1>11. ASSUME NEW a \in BOOLEAN, SetOrganisationActivation(r, o, a)
       PROVE  InvFiliation'
  <2>1. PICK l, type :
            l \in t[o] /\ Traiter(r, "organisation", organisations, o, [l EXCEPT !.actif = a], type)
      BY <1>11 DEF SetOrganisationActivation
  <2>2. [l EXCEPT !.actif = a] \in OrganisationRow /\ [l EXCEPT !.actif = a].mere = l.mere
      BY <1>1, <1>2, <2>1 DEF OrganisationRow
  <2> QED  BY <1>7, <2>1, <2>2
<1> QED  BY <1>8, <1>9, <1>10, <1>11

-----------------------------------------------------------------------------
(* A step that does not write to the tables T.                             *)
Ailleurs(T) ==
    UNCHANGED <<requete, recouvrement>> \/ \E S : Acte(S) /\ S \intersect T = {}

TablesOrg == {"organisation", "unite", "abonnement"}
TablesEngine == {"niveau", "noeud", "regle", "ville"}
TablesCorpus == {"corpus", "element"}
TablesRegistre == {"produit", "deploiement"}
TablesIdentite == {"compte", "lien", "affectation"}

(* What the step of each context may write to, and what it leaves alone.   *)
LEMMA Contextes ==
    ASSUME Socle, [Next]_vars
    PROVE  \/ EngineNext /\ (Acte(TablesEngine) \/ UNCHANGED <<requete, recouvrement>>)
           \/ CorpusNext /\ Acte(TablesCorpus)
           \/ RegistreNext /\ Acte(TablesRegistre)
           \/ OrgNext /\ Acte(TablesOrg)
           \/ ReferentielNext /\ Acte(TablesReferentiel)
           \/ ConfigNext /\ Acte({"configuration"})
           \/ CatalogueNext /\ Acte(TablesCatalogue)
           \/ IdentiteNext /\ Acte(TablesIdentite)
           \/ Refus /\ Acte({})
           \/ UNCHANGED <<uniteVars, metierVars>>
<1>1. ASSUME Refus PROVE Acte({})
      BY <1>1, rollbackAnnule DEF Refus, Acte, PasDe
<1>2. ASSUME ReferentielNext PROVE Acte(TablesReferentiel)
      BY <1>2, SocleSansDouble, ReferentielActe
<1> QED  BY NextContextes, EngineActe, CorpusActe, RegistreActe, OrgActe, <1>2, ConfigActe,
            CatalogueActe, IdentiteActe, <1>1
         DEF TablesEngine, TablesCorpus, TablesRegistre, TablesOrg, TablesIdentite

LEMMA HorsOrg ==
    ASSUME Socle, [Next]_vars, ~OrgNext
    PROVE  UNCHANGED orgVars /\ Ailleurs(TablesOrg)
<1> DEFINE T == TablesOrg
<1>1. /\ TablesEngine \intersect T = {} /\ TablesCorpus \intersect T = {}
      /\ TablesRegistre \intersect T = {} /\ TablesReferentiel \intersect T = {}
      /\ {"configuration"} \intersect T = {} /\ TablesCatalogue \intersect T = {}
      /\ TablesIdentite \intersect T = {} /\ {} \intersect T = {}
      BY DEF TablesOrg, TablesEngine, TablesCorpus, TablesRegistre, TablesReferentiel,
             TablesCatalogue, TablesIdentite
<1>2. UNCHANGED orgVars
      BY NextContextes DEF EngineNext, CorpusNext, RegistreNext, ReferentielNext, ConfigNext,
             CatalogueNext, IdentiteNext, Refus, metierVars
<1>3. UNCHANGED <<requete, recouvrement>> \/ \E S : Acte(S) /\ S \intersect T = {}
  <2> HIDE DEF T
  <2>1. UNCHANGED <<uniteVars, metierVars>> => UNCHANGED <<requete, recouvrement>>
      BY DEF uniteVars
  <2> QED  BY Contextes, <1>1, <2>1
<1> QED  BY <1>2, <1>3 DEF Ailleurs

LEMMA FiliationHors ==
    ASSUME Socle, InvFiliation, Ailleurs({"organisation"}), UNCHANGED organisations
    PROVE  InvFiliation'
<1>1. CASE UNCHANGED <<requete, recouvrement>>
      BY <1>1 DEF InvFiliation
<1>2. ASSUME NEW S, Acte(S), S \intersect {"organisation"} = {} PROVE InvFiliation'
      BY <1>2, FiliationAilleurs
<1> QED  BY <1>1, <1>2 DEF Ailleurs

LEMMA FiliationOrg ==
    ASSUME Socle, InvFiliation, OrgNext
    PROVE  InvFiliation'
<1> DEFINE A == Orgs \X Organisees(organisations)
           B == FiliationSure(organisations)
<1>1. ReqOK(requete)
      BY DEF Socle
<1>2. ASSUME NEW r \in Requetes, Filiation(r), UNCHANGED organisations PROVE InvFiliation'
      BY <1>2, FiliationLecture DEF Filiation
<1>3. ASSUME NEW r \in Requetes, NEW a \in BOOLEAN, SetOrganisationActivation(r, o1, a),
             UNCHANGED organisations
      PROVE  InvFiliation'
      BY <1>3, FiliationLecture, NoyauAssumption
<1>4. ASSUME NEW r \in Requetes, Equipement(r), UNCHANGED organisations PROVE InvFiliation'
  <2>1. ASSUME NEW x \in Unites,
               \/ CreateUniteOperationnelle(r, x, o1) \/ UpdateUniteOperationnelleReferentiel(r, x)
               \/ \E a \in BOOLEAN : SetUniteOperationnelleActivation(r, x, a)
        PROVE  Acte({"unite"})
      BY <2>1, TraiterActe
         DEF CreateUniteOperationnelle, UpdateUniteOperationnelleReferentiel,
             SetUniteOperationnelleActivation
  <2> QED  BY <1>3, <1>4, <2>1, FiliationAilleurs DEF Equipement
<1>5. ASSUME NEW r \in Requetes, Souscription(r), UNCHANGED organisations PROVE InvFiliation'
  <2>1. Acte({"abonnement"})
      BY <1>5, TraiterActe DEF Souscription, SubscribeToProduit, TransitionAbonnement
  <2> QED  BY <1>5, <2>1, FiliationAilleurs
<1>6. ASSUME NEW r \in Requetes, saveOrg(r) PROVE InvFiliation'
  <2>1. UNCHANGED organisations
      BY <1>6 DEF saveOrg, orgVars
  <2>2. CASE save(r, "organisation", organisations)
    <3>1. UNCHANGED recouvrement
        BY <2>2 DEF save
    <3>2. Suivi(requete', "organisation", organisations, A, A)
        BY <1>1, <2>2, SuiviSave DEF InvFiliation
    <3>3. Suivi(requete, "organisation", organisations, A, B)
          => Suivi(requete', "organisation", organisations, A, B)
        BY <1>1, <2>2, SuiviSave
    <3> QED  BY <2>1, <3>1, <3>2, <3>3 DEF InvFiliation
  <2>3. CASE save(r, "unite", unites)
    <3>1. Acte({"unite"})
        BY <2>3, saveActe
    <3> QED  BY <2>1, <3>1, FiliationAilleurs
  <2>4. CASE save(r, "abonnement", abonnements)
    <3>1. Acte({"abonnement"})
        BY <2>4, saveActe
    <3> QED  BY <2>1, <3>1, FiliationAilleurs
  <2> QED  BY <1>6, <2>2, <2>3, <2>4 DEF saveOrg
<1>7. ASSUME NEW r \in Requetes, commitUnite(r) \/ commitAbonnement(r) PROVE InvFiliation'
  <2>1. UNCHANGED organisations /\ Acte({})
      BY <1>7, TerminerActe DEF commitUnite, commitAbonnement, Valider
  <2> QED  BY <2>1, FiliationAilleurs
<1> QED  BY <1>2, <1>3, <1>4, <1>5, <1>6, <1>7, FiliationCommit DEF OrgNext, orgVars

LEMMA FiliationEtape == Socle /\ InvFiliation /\ [Next]_vars => InvFiliation'
<1> SUFFICES ASSUME Socle, InvFiliation, [Next]_vars PROVE InvFiliation'
    OBVIOUS
<1>1. CASE ~OrgNext
  <2>1. Ailleurs({"organisation"})
      BY <1>1, HorsOrg DEF Ailleurs, TablesOrg
  <2>2. UNCHANGED organisations
      BY <1>1, HorsOrg DEF orgVars
  <2> QED  BY <2>1, <2>2, FiliationHors
<1> QED  BY <1>1, FiliationOrg

(* No organisation is its own ancestor as long as no request has           *)
(* overlapped another: the search of ReattachOrganisation up the parents,  *)
(* whatever their number, rejects every loop, and a copy that is still up  *)
(* to date when it is saved brings none.                                   *)
THEOREM FiliationSansCycleCorrect == Spec => []FiliationSansCycle
<1>1. InvFiliation => FiliationSansCycle
      BY DEF InvFiliation, FiliationSansCycle, Meres, MeresDe
<1>2. Socle /\ InvFiliation /\ [Next]_vars => (Socle /\ InvFiliation)'
      BY SocleEtape, FiliationEtape
<1> QED  BY SocleInit, FiliationInit, <1>1, <1>2, PTL DEF Spec

-----------------------------------------------------------------------------
(* The accounts and their identities.  What a request writes stays the     *)
(* same from its use-case to its commit, whatever the others do: an        *)
(* account without a password comes with the identity that leads to it, an *)
(* identity leads to an account that is there or comes with it.            *)
Contenu(q) == <<q.table, q.id, q.ligne, q.insertion>>

Contenus(E) == {Contenu(q) : q \in E}

LEMMA ContenusDepassees ==
    ASSUME NEW E, \A q \in E : EcritureOK(q)
    PROVE  Contenus(Depassees(E)) = Contenus(E)
<1>1. \A q \in E : Contenu(Depassee(q)) = Contenu(q)
      BY DepasseeForme DEF Contenu
<1> QED  BY <1>1 DEF Contenus, Depassees

LEMMA ContenusSauve ==
    ASSUME NEW req, NEW req2, NEW r \in Requetes, ReqOK(req),
           NEW q \in req[r], NEW C, Sauve(req, req2, r, q, C), NEW s \in Requetes
    PROVE  Contenus(req2[s]) = Contenus(req[s])
<1>1. DOMAIN req = Requetes /\ \A x \in Requetes : \A p \in req[x] : EcritureOK(p)
      BY DEF ReqOK
<1>2. CASE s # r
      BY <1>1, <1>2 DEF Sauve
<1>3. CASE s = r
  <2>1. req2[s] = (req[r] \ {q}) \union {Enregistree(q, C)}
      BY <1>1, <1>3 DEF Sauve
  <2>2. Contenu(Enregistree(q, C)) = Contenu(q)
      BY <1>1, EnregistreeForme DEF Contenu
  <2> QED  BY <1>3, <2>1, <2>2 DEF Contenus
<1> QED  BY <1>2, <1>3

LEMMA ContenusPas ==
    ASSUME NEW req, NEW req2, NEW r \in Requetes, NEW T,
           ReqOK(req), PasDe(req, req2, r, T), NEW s \in Requetes
    PROVE  \/ Contenus(req2[s]) = Contenus(req[s])
           \/ req2[s] = {}
           \/ \A q \in req2[s] : q.table \in T
<1>1. DOMAIN req = Requetes /\ \A x \in Requetes : \A q \in req[x] : EcritureOK(q)
      BY DEF ReqOK
<1>2. ASSUME NEW E, Debute(req, req2, r, E), \A q \in E : q.table \in T, s = r
      PROVE  \A q \in req2[s] : q.table \in T
      BY <1>1, <1>2 DEF Debute
<1>3. ASSUME NEW E, Debute(req, req2, r, E), s # r
      PROVE  req2[s] = req[s]
      BY <1>1, <1>3 DEF Debute
<1>4. ASSUME NEW q \in req[r], NEW C, Sauve(req, req2, r, q, C)
      PROVE  Contenus(req2[s]) = Contenus(req[s])
      BY <1>4, ContenusSauve
<1>5. ASSUME Finit(req, req2, r)
      PROVE  Contenus(req2[s]) = Contenus(req[s]) \/ req2[s] = {}
  <2>1. req2[s] = IF s = r THEN {} ELSE Depassees(req[s])
      BY <1>5 DEF Finit
  <2> QED  BY <1>1, <2>1, ContenusDepassees
<1>6. ASSUME Annule(req, req2, r)
      PROVE  req2[s] = req[s] \/ req2[s] = {}
      BY <1>1, <1>6 DEF Annule
<1> QED  BY <1>2, <1>3, <1>4, <1>5, <1>6 DEF PasDe

LotComptes(E, t) ==
    /\ \A q \in E : q.table = "compte" =>
          /\ q.id \in Comptes /\ q.ligne \in CompteRow /\ q.insertion = TRUE
          /\ q.ligne.motDePasse = TRUE \/ \E p \in E : p.table = "lien" /\ p.ligne.compte = q.id
    /\ \A q \in E : q.table = "lien" =>
          /\ q.id \in Identites /\ q.ligne \in LienRow /\ q.insertion = TRUE
          /\ t[q.ligne.compte] # {} \/ \E p \in E : p.table = "compte" /\ p.id = q.ligne.compte

SuiviComptes(req, t) == \A s \in Requetes : LotComptes(req[s], t)

LEMMA LotComptesContenus ==
    ASSUME NEW E, NEW F, Contenus(E) = Contenus(F), NEW t, LotComptes(E, t)
    PROVE  LotComptes(F, t)
<1>1. \A q \in E : \E p \in F : Contenu(p) = Contenu(q)
      BY DEF Contenus
<1>2. \A p \in F : \E q \in E : Contenu(p) = Contenu(q)
      BY DEF Contenus
<1>3. \A p \in F, q \in E : Contenu(p) = Contenu(q) =>
          p.table = q.table /\ p.id = q.id /\ p.ligne = q.ligne /\ p.insertion = q.insertion
      BY DEF Contenu
<1>4. ASSUME NEW q \in F, q.table = "compte"
      PROVE  /\ q.id \in Comptes /\ q.ligne \in CompteRow /\ q.insertion = TRUE
             /\ q.ligne.motDePasse = TRUE \/ \E p \in F : p.table = "lien" /\ p.ligne.compte = q.id
      BY <1>1, <1>2, <1>3, <1>4 DEF LotComptes
<1>5. ASSUME NEW q \in F, q.table = "lien"
      PROVE  /\ q.id \in Identites /\ q.ligne \in LienRow /\ q.insertion = TRUE
             /\ t[q.ligne.compte] # {} \/ \E p \in F : p.table = "compte" /\ p.id = q.ligne.compte
      BY <1>1, <1>2, <1>3, <1>5 DEF LotComptes
<1> QED  BY <1>4, <1>5 DEF LotComptes

InvComptes ==
    /\ Table1(comptes, Comptes, CompteRow) /\ Table1(liens, Identites, LienRow)
    /\ SuiviComptes(requete, comptes)
    /\ CompteUnique

LEMMA LotComptesVide == \A t : LotComptes({}, t)
BY DEF LotComptes

LEMMA ComptesInit == Init => InvComptes
<1> SUFFICES ASSUME Init PROVE InvComptes
    OBVIOUS
<1> DEFINE f == [g \in {g1} |-> [email |-> m1, phone |-> Nul, motDePasse |-> TRUE]]
<1>1. /\ requete = [r \in Requetes |-> {}]
      /\ comptes = Table(Comptes, f) /\ liens = Table(Identites, Aucune)
      BY DEF Init, InitUnite, Demarrage
<1>2. \A g \in DOMAIN f : f[g] \in CompteRow /\ f[g].motDePasse = TRUE
      BY NoyauAssumption DEF CompteRow
<1>3. DOMAIN f = {g1} /\ DOMAIN Aucune = {}
      BY DEF Aucune
<1> HIDE DEF f
<1>4. Table1(comptes, Comptes, CompteRow)
      BY <1>1, <1>2, TableDepart
<1>5. Table1(liens, Identites, LienRow)
      BY <1>1, <1>3, TableDepart
<1>6. \A g \in Comptes : \A l \in comptes[g] : g = g1 /\ l.motDePasse = TRUE
      BY <1>1, <1>2, <1>3 DEF Table
<1>7. \A x \in Identites : liens[x] = {}
      BY <1>1, <1>3 DEF Table
<1>8. CompteUnique
      BY <1>6, <1>7 DEF CompteUnique, SansDoublon
<1>9. SuiviComptes(requete, comptes)
      BY <1>1, LotComptesVide DEF SuiviComptes
<1> QED  BY <1>4, <1>5, <1>8, <1>9 DEF InvComptes

(* A step that starts no write to the accounts or the identities.          *)
LEMMA SuiviComptesActe ==
    ASSUME Socle, NEW T, Acte(T), T \intersect {"compte", "lien"} = {}, NEW t,
           SuiviComptes(requete, t)
    PROVE  SuiviComptes(requete', t)
<1>1. PICK r \in Requetes : PasDe(requete, requete', r, T)
      BY DEF Acte
<1> SUFFICES ASSUME NEW s \in Requetes PROVE LotComptes(requete'[s], t)
    BY DEF SuiviComptes
<1>2. CASE Contenus(requete'[s]) = Contenus(requete[s]) \/ requete'[s] = {}
      BY <1>2, LotComptesVide, LotComptesContenus DEF SuiviComptes
<1>3. CASE \A q \in requete'[s] : q.table \in T
      BY <1>3 DEF LotComptes
<1> QED  BY <1>1, <1>2, <1>3, ContenusPas DEF Socle

LEMMA ComptesHors ==
    ASSUME Socle, InvComptes, Ailleurs({"compte", "lien"}), UNCHANGED <<comptes, liens>>
    PROVE  InvComptes'
<1>1. SuiviComptes(requete', comptes)
      BY SuiviComptesActe DEF Ailleurs, InvComptes
<1> QED  BY <1>1 DEF InvComptes, CompteUnique, SansDoublon

LEMMA ComptesDebute ==
    ASSUME Socle, InvComptes, NEW r \in Requetes, NEW E, Debute(requete, requete', r, E),
           LotComptes(E, comptes), UNCHANGED <<comptes, liens>>
    PROVE  InvComptes'
<1>1. \A s \in Requetes : requete'[s] = IF s = r THEN E ELSE requete[s]
      BY DEF Debute, Socle, ReqOK
<1>2. SuiviComptes(requete', comptes)
      BY <1>1 DEF InvComptes, SuiviComptes
<1> QED  BY <1>2 DEF InvComptes, CompteUnique, SansDoublon

LEMMA ComptesInscription ==
    ASSUME Socle, InvComptes, NEW r \in Requetes, Inscription(r), UNCHANGED <<comptes, liens>>
    PROVE  InvComptes'
<1>1. ASSUME NEW g \in Comptes, NEW t \in Telephones \union {Nul}, RegisterUser(r, g, m2, t)
      PROVE  InvComptes'
  <2> DEFINE l == [email |-> m2, phone |-> t, motDePasse |-> TRUE]
             q == Ecriture("compte", g, l, comptes[g] = {}, "USER_REGISTERED")
  <2>1. comptes[g] = {} /\ Debute(requete, requete', r, {q})
      BY <1>1, TraiterDebute DEF RegisterUser, Neuf
  <2>2. l \in CompteRow /\ l.motDePasse = TRUE
      BY NoyauAssumption DEF CompteRow
  <2>3. q.table = "compte" /\ q.id = g /\ q.ligne = l /\ q.insertion = TRUE
      BY <2>1 DEF Ecriture
  <2> HIDE DEF q, l
  <2>4. LotComptes({q}, comptes)
      BY <2>2, <2>3 DEF LotComptes
  <2> QED  BY <2>1, <2>4, ComptesDebute
<1>2. ASSUME NEW x \in Identites, NEW g \in Comptes, NEW type, comptes[g] # {},
             TraiterTout(r, {NouveauLien(x, g, type)})
      PROVE  InvComptes'
  <2> DEFINE q == NouveauLien(x, g, type)
             l == [compte |-> g]
  <2>1. CleUnique({q}) /\ Neuve(q)
      BY DEF NouveauLien, Ecriture, Neuve, EcritureOK, Champs, CleUnique
  <2>2. q.table = "lien" /\ q.id = x /\ q.ligne = l /\ q.insertion = TRUE
      BY DEF NouveauLien, Ecriture
  <2>3. l \in LienRow /\ l.compte = g
      BY DEF LienRow
  <2>4. TraiterTout(r, {q})
      BY <1>2
  <2> HIDE DEF q, l
  <2>5. LotComptes({q}, comptes)
      BY <1>2, <2>2, <2>3 DEF LotComptes
  <2>6. Debute(requete, requete', r, {q})
      BY <2>1, <2>4, TraiterToutDebute
  <2> QED  BY <2>5, <2>6, ComptesDebute
<1>3. ASSUME NEW x \in Identites, NEW g \in Comptes, NEW l \in CompteRow, comptes[g] = {},
             TraiterTout(r, Ouverture(x, g, l))
      PROVE  InvComptes'
  <2> DEFINE E == Ouverture(x, g, l)
             q == Ecriture("compte", g, l, TRUE, Nul)
             p == NouveauLien(x, g, "SUPABASE_SESSION_EXCHANGED")
             k == [compte |-> g]
  <2>1. /\ E = {q, p}
        /\ q.table = "compte" /\ q.id = g /\ q.ligne = l /\ q.insertion = TRUE
        /\ p.table = "lien" /\ p.id = x /\ p.ligne = k /\ p.insertion = TRUE
      BY DEF Ouverture, NouveauLien, Ecriture
  <2>2. k \in LienRow /\ k.compte = g
      BY DEF LienRow
  <2>3. Debute(requete, requete', r, E)
      BY <1>3, OuvertureNeuve, TraiterToutDebute
  <2> HIDE DEF E, k, p, q
  <2>4. LotComptes(E, comptes)
      BY <2>1, <2>2 DEF LotComptes
  <2> QED  BY <2>3, <2>4, ComptesDebute
<1>4. ASSUME NEW x \in Identites, NEW g \in Comptes, NEW e \in {m2, Nul}, NEW t \in Telephones,
             ExchangeSupabaseSession(r, x, g, e, t)
      PROVE  InvComptes'
  <2> DEFINE l == [email |-> e, phone |-> t, motDePasse |-> FALSE]
  <2>1. l \in CompteRow
      BY NoyauAssumption DEF CompteRow
  <2>2. \/ comptes[g] = {} /\ TraiterTout(r, Ouverture(x, g, l))
        \/ comptes[g] # {} /\ TraiterTout(r, {NouveauLien(x, g, "SUPABASE_SESSION_EXCHANGED")})
      BY <1>4 DEF ExchangeSupabaseSession, Ouverture, Neuf, resolveUser, findByEmail, findByPhone
  <2> HIDE DEF l
  <2> QED  BY <1>2, <1>3, <2>1, <2>2
<1>5. ASSUME NEW x \in Identites, LinkExternalIdentity(r, x, g1)
      PROVE  InvComptes'
      BY <1>2, <1>5, NoyauAssumption DEF LinkExternalIdentity
<1> QED  BY <1>1, <1>4, <1>5 DEF Inscription

(* Rows inserted where there are none.                                     *)
LEMMA ApresDeInsertions ==
    ASSUME NEW S, NEW lignes, NEW ids, NEW row, Table1(lignes, ids, row), Colonnes(row),
           \A p, q \in S : p.id = q.id => p = q,
           \A q \in S : /\ q.id \in ids /\ q.ligne \in row /\ q.insertion = TRUE
                        /\ q.enregistre = TRUE /\ lignes[q.id] = {}
    PROVE  /\ Table1(ApresDe(S, lignes), ids, row)
           /\ \A q \in S : ApresDe(S, lignes)[q.id] = {q.ligne}
           /\ \A i \in ids : (\A q \in S : q.id # i) => ApresDe(S, lignes)[i] = lignes[i]
           /\ \A i \in ids : lignes[i] \subseteq ApresDe(S, lignes)[i]
<1> DEFINE B == ids \X row
<1>1. Copies(S, lignes, ids, row, B)
      BY DEF Copies, AJour
<1>2. Table1(ApresDe(S, lignes), ids, row)
      BY ApresDeTable
<1>3. /\ \A q \in S : ApresDe(S, lignes)[q.id] = {q.ligne}
      /\ \A i \in ids : (\A q \in S : q.id # i) => ApresDe(S, lignes)[i] = lignes[i]
      BY <1>1, ApresDeCopies
<1> QED  BY <1>2, <1>3

LEMMA CompteColonnes == Colonnes(CompteRow) /\ Colonnes(LienRow)
BY DEF Colonnes, CompteRow, LienRow

LEMMA ComptesCommit ==
    ASSUME Socle, InvComptes, NEW r \in Requetes, commitCompte(r)
    PROVE  InvComptes'
<1> DEFINE V == Vers(r, "compte")
           W == Vers(r, "lien")
           c == comptes
           cApres == ApresDe(V, comptes)
           k == liens
           k2 == ApresDe(W, liens)
<1>1. /\ Terminer(r) /\ requete[r] = V \union W /\ comptes' = cApres /\ liens' = k2 /\ SansDoublon(cApres)
      /\ ClesLibres(V, comptes) /\ ClesLibres(W, liens)
      BY DEF commitCompte
<1>2. /\ \A q \in V : q \in requete[r] /\ q.table = "compte"
      /\ \A q \in W : q \in requete[r] /\ q.table = "lien"
      /\ \A q \in requete[r] : q.enregistre = TRUE
      /\ \A p, q \in requete[r] : p.table = q.table /\ p.id = q.id => p = q
      BY <1>1, TerminerFinit DEF Vers, Socle, ReqOK, EcritureOK, CleUnique
<1>3. LotComptes(requete[r], c) /\ Table1(c, Comptes, CompteRow) /\ Table1(k, Identites, LienRow)
      BY DEF InvComptes, SuiviComptes
<1>4. \A q \in V : /\ q.id \in Comptes /\ q.ligne \in CompteRow /\ q.insertion = TRUE
                   /\ q.enregistre = TRUE /\ c[q.id] = {}
      BY <1>1, <1>2, <1>3 DEF LotComptes, ClesLibres
<1>5. \A q \in W : /\ q.id \in Identites /\ q.ligne \in LienRow /\ q.insertion = TRUE
                   /\ q.enregistre = TRUE /\ k[q.id] = {}
      BY <1>1, <1>2, <1>3 DEF LotComptes, ClesLibres
<1>6. (\A p, q \in V : p.id = q.id => p = q) /\ \A p, q \in W : p.id = q.id => p = q
      BY <1>2
<1> HIDE DEF V, W
<1>7. /\ Table1(cApres, Comptes, CompteRow)
      /\ \A q \in V : cApres[q.id] = {q.ligne}
      /\ \A i \in Comptes : (\A q \in V : q.id # i) => cApres[i] = c[i]
      /\ \A i \in Comptes : c[i] \subseteq cApres[i]
      BY <1>3, <1>4, <1>6, CompteColonnes, ApresDeInsertions
<1>8. /\ Table1(k2, Identites, LienRow)
      /\ \A q \in W : k2[q.id] = {q.ligne}
      /\ \A i \in Identites : (\A q \in W : q.id # i) => k2[i] = k[i]
      /\ \A i \in Identites : k[i] \subseteq k2[i]
      BY <1>3, <1>5, <1>6, CompteColonnes, ApresDeInsertions
<1>9. /\ \A q \in V : q.ligne.motDePasse = TRUE \/ \E p \in W : p.ligne.compte = q.id
      /\ \A q \in W : c[q.ligne.compte] # {} \/ \E p \in V : p.id = q.ligne.compte
      BY <1>1, <1>2, <1>3 DEF LotComptes, Vers, V, W
<1>10. \A l \in LienRow : l.compte \in Comptes
      BY DEF LienRow
<1> HIDE DEF cApres, k2
<1>11. ASSUME NEW x \in Identites, NEW l \in k2[x]
       PROVE  cApres[l.compte] # {}
  <2>1. l.compte \in Comptes
      BY <1>8, <1>10 DEF Table1
  <2>2. CASE \A q \in W : q.id # x
      BY <1>7, <1>8, <2>1, <2>2 DEF InvComptes, CompteUnique
  <2>3. ASSUME NEW q \in W, q.id = x
        PROVE  cApres[l.compte] # {}
    <3>1. l = q.ligne
        BY <1>8, <2>3
    <3>2. c[l.compte] # {} \/ \E p \in V : p.id = l.compte
        BY <1>9, <2>3, <3>1
    <3>3. c[l.compte] \subseteq cApres[l.compte] /\ \A p \in V : p.id = l.compte => cApres[l.compte] = {p.ligne}
        BY <1>7, <2>1
    <3> QED  BY <3>2, <3>3
  <2> QED  BY <2>2, <2>3
<1>12. ASSUME NEW g \in Comptes, NEW l \in cApres[g]
       PROVE  l.motDePasse = TRUE \/ \E x \in Identites : \E m \in k2[x] : m.compte = g
  <2>1. CASE \A q \in V : q.id # g
    <3>1. l \in c[g]
        BY <1>7, <2>1
    <3>2. l.motDePasse = TRUE \/ \E x \in Identites : \E m \in k[x] : m.compte = g
        BY <3>1 DEF InvComptes, CompteUnique
    <3> QED  BY <1>8, <3>2
  <2>2. ASSUME NEW q \in V, q.id = g
        PROVE  l.motDePasse = TRUE \/ \E x \in Identites : \E m \in k2[x] : m.compte = g
    <3>1. l = q.ligne
        BY <1>7, <2>2
    <3>2. ASSUME NEW p \in W, p.ligne.compte = g
          PROVE  \E x \in Identites : \E m \in k2[x] : m.compte = g
        BY <1>5, <1>8, <3>2
    <3> QED  BY <1>9, <2>2, <3>1, <3>2
  <2> QED  BY <2>1, <2>2
<1>13. SuiviComptes(requete', cApres)
  <2>1. Acte({})
      BY <1>1, TerminerActe
  <2>2. SuiviComptes(requete', c)
      BY <2>1, SuiviComptesActe DEF InvComptes
  <2>3. \A g \in Comptes : c[g] # {} => cApres[g] # {}
      BY <1>7
  <2> QED  BY <1>10, <2>2, <2>3 DEF SuiviComptes, LotComptes
<1>14. /\ Table1(comptes', Comptes, CompteRow) /\ Table1(liens', Identites, LienRow)
       /\ SuiviComptes(requete', comptes') /\ SansDoublon(comptes')
      BY <1>1, <1>7, <1>8, <1>13
<1>15. /\ \A x \in Identites : \A l \in liens'[x] : comptes'[l.compte] # {}
       /\ \A g \in Comptes : \A l \in comptes'[g] :
             l.motDePasse = TRUE \/ \E x \in Identites : \E m \in liens'[x] : m.compte = g
      BY <1>1, <1>11, <1>12
<1> QED  BY <1>14, <1>15 DEF InvComptes, CompteUnique, SansDoublon

LEMMA HorsIdentite ==
    ASSUME Socle, [Next]_vars, ~IdentiteNext
    PROVE  UNCHANGED identiteVars /\ Ailleurs(TablesIdentite)
<1> DEFINE T == TablesIdentite
<1>1. /\ TablesEngine \intersect T = {} /\ TablesCorpus \intersect T = {}
      /\ TablesRegistre \intersect T = {} /\ TablesReferentiel \intersect T = {}
      /\ {"configuration"} \intersect T = {} /\ TablesCatalogue \intersect T = {}
      /\ TablesOrg \intersect T = {} /\ {} \intersect T = {}
      BY DEF TablesOrg, TablesEngine, TablesCorpus, TablesRegistre, TablesReferentiel,
             TablesCatalogue, TablesIdentite
<1>2. UNCHANGED identiteVars
      BY NextContextes DEF EngineNext, CorpusNext, RegistreNext, OrgNext, ReferentielNext,
             ConfigNext, CatalogueNext, Refus, metierVars
<1>3. UNCHANGED <<requete, recouvrement>> \/ \E S : Acte(S) /\ S \intersect T = {}
  <2> HIDE DEF T
  <2>1. UNCHANGED <<uniteVars, metierVars>> => UNCHANGED <<requete, recouvrement>>
      BY DEF uniteVars
  <2> QED  BY Contextes, <1>1, <2>1
<1> QED  BY <1>2, <1>3 DEF Ailleurs

LEMMA ComptesEtape == Socle /\ InvComptes /\ [Next]_vars => InvComptes'
<1> SUFFICES ASSUME Socle, InvComptes, [Next]_vars PROVE InvComptes'
    OBVIOUS
<1>1. CASE ~IdentiteNext
  <2>1. Ailleurs({"compte", "lien"})
      BY <1>1, HorsIdentite DEF Ailleurs, TablesIdentite
  <2>2. UNCHANGED <<comptes, liens>>
      BY <1>1, HorsIdentite DEF identiteVars
  <2> QED  BY <2>1, <2>2, ComptesHors
<1>2. ASSUME NEW T, Acte(T), T \intersect {"compte", "lien"} = {}, UNCHANGED <<comptes, liens>>
      PROVE  InvComptes'
      BY <1>2, ComptesHors DEF Ailleurs
<1>3. CASE IdentiteNext
  <2>1. ASSUME NEW r \in Requetes, Inscription(r), UNCHANGED identiteVars
        PROVE  InvComptes'
      BY <2>1, ComptesInscription DEF identiteVars
  <2>2. ASSUME NEW r \in Requetes, NEW a, NEW x, NEW o, AssignRole(r, a, g1, x, o),
               UNCHANGED identiteVars
        PROVE  InvComptes'
    <3>1. Acte({"affectation"})
        BY <2>2, TraiterActe DEF AssignRole
    <3> QED  BY <1>2, <2>2, <3>1 DEF identiteVars
  <2>3. ASSUME NEW r \in Requetes, saveIdentite(r)
        PROVE  InvComptes'
    <3>1. UNCHANGED <<comptes, liens>>
        BY <2>3 DEF saveIdentite, identiteVars
    <3>2. PICK q, C : q \in requete[r] /\ Sauve(requete, requete', r, q, C)
        BY <2>3, saveSauve DEF saveIdentite
    <3>3. ASSUME NEW s \in Requetes
          PROVE  LotComptes(requete'[s], comptes)
      <4>1. Contenus(requete'[s]) = Contenus(requete[s])
          BY <3>2, ContenusSauve DEF Socle
      <4> QED  BY <4>1, LotComptesContenus DEF InvComptes, SuiviComptes
    <3> QED  BY <3>1, <3>3 DEF InvComptes, SuiviComptes, CompteUnique, SansDoublon
  <2>4. ASSUME NEW r \in Requetes, commitAffectation(r)
        PROVE  InvComptes'
    <3>1. Acte({}) /\ UNCHANGED <<comptes, liens>>
        BY <2>4, TerminerActe DEF commitAffectation, Valider
    <3> QED  BY <1>2, <3>1
  <2> QED  BY <1>3, <2>1, <2>2, <2>3, <2>4, ComptesCommit DEF IdentiteNext
<1> QED  BY <1>1, <1>3

(* No two accounts share an email or a phone, no external identity leads   *)
(* to a missing account, and an account without a password has an identity *)
(* that leads to it, however the requests of registration, first login and *)
(* linking overlap.                                                        *)
THEOREM CompteUniqueCorrect == Spec => []CompteUnique
<1>1. InvComptes => CompteUnique
      BY DEF InvComptes
<1>2. Socle /\ InvComptes /\ [Next]_vars => (Socle /\ InvComptes)'
      BY SocleEtape, ComptesEtape
<1> QED  BY SocleInit, ComptesInit, <1>1, <1>2, PTL DEF Spec

-----------------------------------------------------------------------------
(* A table t whose rows are good, t in G, as long as no request has        *)
(* overlapped another: a write whose copy is up to date keeps them good.   *)
Avec(t, i, l) == [x \in DOMAIN t |-> IF x = i THEN {l} ELSE t[x]]

BonnesEcritures(t, ids, row, G) == {w \in ids \X row : Avec(t, w[1], w[2]) \in G}

TableSuivie(req, rec, nom, t, ids, row, G) ==
    /\ Table1(t, ids, row)
    /\ Suivi(req, nom, t, ids \X row, ids \X row)
    /\ ~rec => t \in G /\ Suivi(req, nom, t, ids \X row, BonnesEcritures(t, ids, row, G))

LEMMA TableSuivieDepart ==
    ASSUME NEW nom, NEW t, NEW ids, NEW row, NEW G, Table1(t, ids, row), t \in G,
           \A r \in Requetes : requete[r] = {}
    PROVE  TableSuivie(requete, recouvrement, nom, t, ids, row, G)
BY DEF TableSuivie, Suivi

LEMMA TableSuivieTraiter ==
    ASSUME NEW r \in Requetes, NEW nom, NEW t, NEW ids, NEW row, NEW G,
           NEW i \in ids, NEW l \in row, NEW type,
           ReqOK(requete), TableSuivie(requete, recouvrement, nom, t, ids, row, G),
           Traiter(r, nom, t, i, l, type),
           t \in G => Avec(t, i, l) \in G
    PROVE  TableSuivie(requete', recouvrement', nom, t, ids, row, G)
<1> DEFINE A == ids \X row
           B == BonnesEcritures(t, ids, row, G)
<1>1. UNCHANGED recouvrement
      BY TraiterDebute
<1>2. Suivi(requete', nom, t, A, A)
      BY SuiviTraiter DEF TableSuivie
<1>3. ASSUME ~recouvrement
      PROVE  t \in G /\ Suivi(requete', nom, t, A, B)
  <2>1. t \in G /\ Suivi(requete, nom, t, A, B)
      BY <1>3 DEF TableSuivie
  <2>2. <<i, l>> \in A /\ <<i, l>> \in B
      BY <2>1 DEF BonnesEcritures
  <2> QED  BY <2>1, <2>2, SuiviTraiter
<1> QED  BY <1>1, <1>2, <1>3 DEF TableSuivie

LEMMA TableSuivieSave ==
    ASSUME NEW r \in Requetes, NEW nom, NEW t, NEW ids, NEW row, NEW G,
           ReqOK(requete), TableSuivie(requete, recouvrement, nom, t, ids, row, G),
           save(r, nom, t)
    PROVE  TableSuivie(requete', recouvrement', nom, t, ids, row, G)
<1>1. UNCHANGED recouvrement
      BY DEF save
<1>2. \A B : Suivi(requete, nom, t, ids \X row, B) => Suivi(requete', nom, t, ids \X row, B)
      BY SuiviSave
<1> QED  BY <1>1, <1>2 DEF TableSuivie

LEMMA TableSuivieHors ==
    ASSUME NEW nom, NEW t, NEW ids, NEW row, NEW G,
           ReqOK(requete), TableSuivie(requete, recouvrement, nom, t, ids, row, G),
           NEW T, nom \in T, Ailleurs(T)
    PROVE  TableSuivie(requete', recouvrement', nom, t, ids, row, G)
<1>1. CASE UNCHANGED <<requete, recouvrement>>
      BY <1>1
<1>2. ASSUME NEW S, Acte(S), S \intersect T = {}
      PROVE  TableSuivie(requete', recouvrement', nom, t, ids, row, G)
  <2>1. \A B : Suivi(requete, nom, t, ids \X row, B) => Suivi(requete', nom, t, ids \X row, B)
      BY <1>2, SuiviActe
  <2>2. ~recouvrement' => ~recouvrement
      BY <1>2, ActeReqOK
  <2> QED  BY <2>1, <2>2 DEF TableSuivie
<1> QED  BY <1>1, <1>2 DEF Ailleurs

LEMMA TableSuivieValider ==
    ASSUME NEW r \in Requetes, NEW nom, NEW t, NEW ids, NEW row, NEW G, Colonnes(row),
           ReqOK(requete), TableSuivie(requete, recouvrement, nom, t, ids, row, G),
           nom \notin {"circulation", "locale"}, Valider(r, nom, t)
    PROVE  TableSuivie(requete', recouvrement', nom, ApresTout(r, t), ids, row, G)
<1> DEFINE A == ids \X row
           t2 == ApresTout(r, t)
<1>1. Terminer(r) /\ Table1(t, ids, row) /\ Suivi(requete, nom, t, A, A)
      BY DEF Valider, TableSuivie
<1>2. Table1(t2, ids, row)
      BY <1>1, ValiderTable
<1>3. \A B : Suivi(requete', nom, t2, A, B)
      BY <1>1, SuiviTerminer
<1>4. ASSUME ~recouvrement'
      PROVE  t2 \in G
  <2>1. ~recouvrement
      BY <1>1, <1>4, TerminerFinit
  <2>2. Suivi(requete, nom, t, A, BonnesEcritures(t, ids, row, G))
      BY <2>1 DEF TableSuivie
  <2>3. PICK q \in requete[r] :
            /\ q.id \in ids /\ q.ligne \in row /\ AJour(q, t, BonnesEcritures(t, ids, row, G))
            /\ t2[q.id] = {q.ligne}
            /\ \A i \in ids : i # q.id => t2[i] = t[i]
      BY <1>1, <1>4, <2>2, ValiderCopie
  <2>4. DOMAIN t = ids /\ DOMAIN t2 = ids /\ t2 = [i \in ids |-> t2[i]]
      BY <1>1, <1>2 DEF Table1
  <2>5. t2 = Avec(t, q.id, q.ligne)
    <3> HIDE DEF t2
    <3> QED  BY <2>3, <2>4 DEF Avec
  <2> QED  BY <2>3, <2>5 DEF AJour, BonnesEcritures
<1> QED  BY <1>2, <1>3, <1>4 DEF TableSuivie

-----------------------------------------------------------------------------
(* The subscriptions of one organisation to one product.                   *)
Couple(t, o, p) == {a \in Abonnements : \E l \in t[a] : l.organisation = o /\ l.produit = p}

EnVie(t, o, p) == {a \in Couple(t, o, p) : \A l \in t[a] : l.statut # "resilie"}

AbonnementsUniques ==
    {t \in [Abonnements -> SUBSET AbonnementRow] :
        \A o \in Orgs, p \in Produits :
            EnVie(t, o, p) = Couple(t, o, p) => \A a, b \in Couple(t, o, p) : a = b}

InvAbonnement ==
    TableSuivie(requete, recouvrement, "abonnement", abonnements, Abonnements, AbonnementRow,
                AbonnementsUniques)

LEMMA AbonnementColonnes == Colonnes(AbonnementRow)
BY DEF Colonnes, AbonnementRow

LEMMA AbonnementInit == Init => InvAbonnement
<1> SUFFICES ASSUME Init PROVE InvAbonnement
    OBVIOUS
<1>1. requete = [r \in Requetes |-> {}] /\ abonnements = Table(Abonnements, Aucune)
      BY DEF Init, InitUnite, Demarrage
<1>2. DOMAIN Aucune = {}
      BY DEF Aucune
<1>3. Table1(abonnements, Abonnements, AbonnementRow)
      BY <1>1, <1>2, TableDepart
<1>4. \A a \in Abonnements : abonnements[a] = {}
      BY <1>1, <1>2 DEF Table
<1>5. abonnements \in AbonnementsUniques
      BY <1>3, <1>4 DEF AbonnementsUniques, Couple, Table1
<1> QED  BY <1>1, <1>3, <1>5, TableSuivieDepart DEF InvAbonnement

(* A new subscription: the pair has none, or one that is terminated.       *)
LEMMA AbonnementNouveau ==
    ASSUME NEW t \in AbonnementsUniques, NEW a \in Abonnements, t[a] = {},
           NEW k \in AbonnementRow,
           \/ Couple(t, k.organisation, k.produit) = {}
           \/ \E b \in Couple(t, k.organisation, k.produit) : \E l \in t[b] : l.statut = "resilie"
    PROVE  Avec(t, a, k) \in AbonnementsUniques
<1> DEFINE t2 == Avec(t, a, k)
<1>1. t \in [Abonnements -> SUBSET AbonnementRow]
      BY DEF AbonnementsUniques
<1>2. /\ t2 \in [Abonnements -> SUBSET AbonnementRow] /\ t2[a] = {k}
      /\ \A b \in Abonnements : b # a => t2[b] = t[b]
      BY <1>1 DEF Avec
<1> HIDE DEF t2
<1>3. ASSUME NEW o \in Orgs, NEW p \in Produits, EnVie(t2, o, p) = Couple(t2, o, p),
             NEW b \in Couple(t2, o, p), NEW c \in Couple(t2, o, p)
      PROVE  b = c
  <2>1. \A x \in Abonnements : x # a => (x \in Couple(t2, o, p) <=> x \in Couple(t, o, p))
      BY <1>2 DEF Couple
  <2>2. a \notin Couple(t, o, p)
      BY DEF Couple
  <2>3. a \in Couple(t2, o, p) <=> k.organisation = o /\ k.produit = p
      BY <1>2 DEF Couple
  <2>4. \A x \in Couple(t, o, p) : \A l \in t[x] : l.statut # "resilie"
      BY <1>2, <1>3, <2>1, <2>2 DEF EnVie, Couple
  <2>5. CASE k.organisation = o /\ k.produit = p
    <3>1. Couple(t, o, p) = {}
        BY <2>4, <2>5
    <3> QED  BY <2>1, <3>1 DEF Couple
  <2>6. CASE ~(k.organisation = o /\ k.produit = p)
    <3>1. Couple(t2, o, p) = Couple(t, o, p)
        BY <2>1, <2>2, <2>3, <2>6 DEF Couple
    <3>2. EnVie(t, o, p) = Couple(t, o, p)
        BY <2>4 DEF EnVie
    <3> QED  BY <3>1, <3>2 DEF AbonnementsUniques
  <2> QED  BY <2>5, <2>6
<1> QED  BY <1>2, <1>3 DEF AbonnementsUniques, t2

(* A living one changes state, or is terminated.                           *)
LEMMA AbonnementChange ==
    ASSUME NEW t \in AbonnementsUniques, NEW a \in Abonnements, NEW l, t[a] = {l},
           NEW k \in AbonnementRow, k.organisation = l.organisation, k.produit = l.produit,
           l.statut # "resilie"
    PROVE  Avec(t, a, k) \in AbonnementsUniques
<1> DEFINE t2 == Avec(t, a, k)
<1>1. t \in [Abonnements -> SUBSET AbonnementRow]
      BY DEF AbonnementsUniques
<1>2. /\ t2 \in [Abonnements -> SUBSET AbonnementRow] /\ t2[a] = {k}
      /\ \A b \in Abonnements : b # a => t2[b] = t[b]
      BY <1>1 DEF Avec
<1> HIDE DEF t2
<1>3. ASSUME NEW o \in Orgs, NEW p \in Produits, EnVie(t2, o, p) = Couple(t2, o, p)
      PROVE  \A b, c \in Couple(t2, o, p) : b = c
  <2>1. Couple(t2, o, p) = Couple(t, o, p)
      BY <1>2 DEF Couple
  <2>2. \A x \in Couple(t, o, p) : \A m \in t[x] : m.statut # "resilie"
      BY <1>2, <1>3, <2>1 DEF EnVie, Couple
  <2>3. EnVie(t, o, p) = Couple(t, o, p)
      BY <2>2 DEF EnVie
  <2> QED  BY <2>1, <2>3 DEF AbonnementsUniques
<1> QED  BY <1>2, <1>3 DEF AbonnementsUniques, t2

LEMMA AbonnementSouscription ==
    ASSUME Socle, InvAbonnement, NEW r \in Requetes, Souscription(r), UNCHANGED abonnements
    PROVE  InvAbonnement'
<1> DEFINE t == abonnements
<1>1. Table1(t, Abonnements, AbonnementRow) /\ ReqOK(requete)
      BY DEF Socle, InvAbonnement, TableSuivie
<1>2. ASSUME NEW a \in Abonnements, NEW k \in AbonnementRow, NEW type,
             Traiter(r, "abonnement", abonnements, a, k, type),
             t \in AbonnementsUniques => Avec(t, a, k) \in AbonnementsUniques
      PROVE  InvAbonnement'
  <2>1. TableSuivie(requete', recouvrement', "abonnement", t, Abonnements, AbonnementRow,
                    AbonnementsUniques)
      BY <1>1, <1>2, TableSuivieTraiter DEF InvAbonnement
  <2> QED  BY <2>1 DEF InvAbonnement
<1>3. ASSUME NEW a \in Abonnements, SubscribeToProduit(r, a, o1, a1)
      PROVE  InvAbonnement'
  <2> DEFINE k == [organisation |-> o1, produit |-> a1, statut |-> "actif"]
  <2>1. /\ t[a] = {} /\ Traiter(r, "abonnement", abonnements, a, k, "ABONNEMENT_CREATED")
        /\ \/ Couple(t, o1, a1) = {}
           \/ \E b \in Couple(t, o1, a1) : \E l \in t[b] : l.statut = "resilie"
      BY <1>3 DEF SubscribeToProduit, Neuf, Couple, findByOrganisationAndProduit
  <2>2. k \in AbonnementRow /\ k.organisation = o1 /\ k.produit = a1
      BY NoyauAssumption DEF AbonnementRow
  <2> HIDE DEF k
  <2> QED  BY <1>2, <2>1, <2>2, AbonnementNouveau
<1>4. ASSUME NEW a \in Abonnements, NEW s \in {"actif", "suspendu", "resilie"},
             TransitionAbonnement(r, a, s)
      PROVE  InvAbonnement'
  <2>1. PICK l \in t[a] :
            /\ l.statut \in AbonnementTransitions[s]
            /\ Traiter(r, "abonnement", abonnements, a, [l EXCEPT !.statut = s], AbonnementEvenement[s])
      BY <1>4 DEF TransitionAbonnement
  <2> DEFINE k == [l EXCEPT !.statut = s]
  <2>2. t[a] = {l} /\ l \in AbonnementRow
      BY <1>1 DEF Table1
  <2>3. l.statut # "resilie"
      BY <2>1 DEF AbonnementTransitions
  <2>4. k \in AbonnementRow /\ k.organisation = l.organisation /\ k.produit = l.produit
      BY <2>2 DEF AbonnementRow
  <2>5. Traiter(r, "abonnement", abonnements, a, k, AbonnementEvenement[s])
      BY <2>1
  <2> HIDE DEF k
  <2> QED  BY <1>2, <2>2, <2>3, <2>4, <2>5, AbonnementChange
<1> QED  BY <1>3, <1>4 DEF Souscription

LEMMA AbonnementEtape == Socle /\ InvAbonnement /\ [Next]_vars => InvAbonnement'
<1> SUFFICES ASSUME Socle, InvAbonnement, [Next]_vars PROVE InvAbonnement'
    OBVIOUS
<1> DEFINE S(req, rec, t) ==
        TableSuivie(req, rec, "abonnement", t, Abonnements, AbonnementRow, AbonnementsUniques)
<1>1. ReqOK(requete) /\ S(requete, recouvrement, abonnements)
      BY DEF Socle, InvAbonnement
<1>2. ASSUME NEW T, "abonnement" \in T, Ailleurs(T), UNCHANGED abonnements PROVE InvAbonnement'
  <2>1. S(requete', recouvrement', abonnements)
      BY <1>1, <1>2, TableSuivieHors
  <2> QED  BY <1>2, <2>1 DEF InvAbonnement
<1>3. CASE ~OrgNext
  <2>1. "abonnement" \in TablesOrg /\ UNCHANGED abonnements
      BY <1>3, HorsOrg DEF TablesOrg, orgVars
  <2> QED  BY <1>2, <1>3, <2>1, HorsOrg
<1>4. ASSUME Acte({"organisation", "unite"}), UNCHANGED abonnements PROVE InvAbonnement'
  <2>1. Ailleurs({"abonnement"})
      BY <1>4 DEF Ailleurs
  <2> QED  BY <1>2, <1>4, <2>1
<1>5. CASE OrgNext
  <2> DEFINE T == {"organisation", "unite"}
  <2>1. ASSUME NEW r \in Requetes,
               \/ Filiation(r) \/ Equipement(r) \/ \E a \in BOOLEAN : SetOrganisationActivation(r, o1, a)
        PROVE  Acte(T)
    <3>1. "organisation" \in T /\ "unite" \in T
        OBVIOUS
    <3> HIDE DEF T
    <3> QED  BY <2>1, <3>1, TraiterActe
             DEF Filiation, CreateOrganisation, ReattachOrganisation, UpdateOrganisation,
                 UpdateOrganisationReferentiel, SetOrganisationActivation, Equipement,
                 CreateUniteOperationnelle, UpdateUniteOperationnelleReferentiel,
                 SetUniteOperationnelleActivation
  <2>2. ASSUME NEW r \in Requetes, saveOrg(r) PROVE InvAbonnement'
    <3>1. UNCHANGED abonnements
        BY <2>2 DEF saveOrg, orgVars
    <3>2. CASE save(r, "abonnement", abonnements)
      <4>1. S(requete', recouvrement', abonnements)
          BY <1>1, <3>2, TableSuivieSave
      <4> QED  BY <3>1, <4>1 DEF InvAbonnement
    <3>3. CASE save(r, "organisation", organisations) \/ save(r, "unite", unites)
      <4>1. Acte(T)
          BY <3>3, saveActe
      <4> QED  BY <1>4, <3>1, <4>1
    <3> QED  BY <2>2, <3>2, <3>3 DEF saveOrg
  <2>3. ASSUME NEW r \in Requetes, commitOrganisation(r) \/ commitUnite(r) PROVE InvAbonnement'
    <3>1. UNCHANGED abonnements /\ Acte(T)
        BY <2>3, TerminerActe DEF commitOrganisation, commitUnite, Valider
    <3> QED  BY <1>4, <3>1
  <2>4. ASSUME NEW r \in Requetes, commitAbonnement(r) PROVE InvAbonnement'
    <3>1. Valider(r, "abonnement", abonnements) /\ abonnements' = ApresTout(r, abonnements)
        BY <2>4 DEF commitAbonnement
    <3>2. S(requete', recouvrement', ApresTout(r, abonnements))
        BY <1>1, <3>1, AbonnementColonnes, TableSuivieValider
    <3> QED  BY <3>1, <3>2 DEF InvAbonnement
  <2> QED  BY <1>4, <1>5, <2>1, <2>2, <2>3, <2>4, AbonnementSouscription DEF OrgNext, orgVars
<1> QED  BY <1>3, <1>5

(* One living subscription per organisation and product as long as no      *)
(* request has overlapped another and none of the pair is terminated:      *)
(* SubscribeToProduit may draw any row of the pair, and draws the only one.*)
THEOREM AbonnementUniqueCorrect == Spec => []AbonnementUnique
<1>1. InvAbonnement => AbonnementUnique
  <2> SUFFICES ASSUME InvAbonnement, ~recouvrement, NEW o \in Orgs, NEW p \in Produits,
                      Vivants(o, p) = findByOrganisationAndProduit(o, p)
               PROVE  Cardinality(Vivants(o, p)) <= 1
      BY DEF AbonnementUnique
  <2>1. \A a, b \in Vivants(o, p) : a = b
      BY DEF InvAbonnement, TableSuivie, AbonnementsUniques, Vivants, EnVie, Couple,
             findByOrganisationAndProduit
  <2>2. CASE Vivants(o, p) = {}
      BY <2>2, FS_EmptySet
  <2>3. ASSUME NEW a \in Vivants(o, p)
        PROVE  Cardinality(Vivants(o, p)) <= 1
    <3>1. Vivants(o, p) = {a}
        BY <2>1, <2>3
    <3>2. Cardinality({a}) = 1
        BY FS_Singleton
    <3> QED  BY <3>1, <3>2
  <2> QED  BY <2>2, <2>3
<1>2. Socle /\ InvAbonnement /\ [Next]_vars => (Socle /\ InvAbonnement)'
      BY SocleEtape, AbonnementEtape
<1> QED  BY SocleInit, AbonnementInit, <1>1, <1>2, PTL DEF Spec

-----------------------------------------------------------------------------
(* The elements of the corpora.  Whatever overlaps, an element stays in    *)
(* its corpus, and the parent that a write gives it is there already: no   *)
(* row leaves, and a request that inserts has drawn an id of its own.      *)
HeriteActe(T) ==
    \A s \in Requetes : \A p \in requete'[s] :
        p.table \in T \/ \E q \in requete[s] : Contenu(q) = Contenu(p)

LEMMA ActeHerite ==
    ASSUME Socle, NEW T, Acte(T)
    PROVE  HeriteActe(T)
<1>1. PICK r \in Requetes : PasDe(requete, requete', r, T)
      BY DEF Acte
<1> SUFFICES ASSUME NEW s \in Requetes, NEW p \in requete'[s]
             PROVE  p.table \in T \/ \E q \in requete[s] : Contenu(q) = Contenu(p)
    BY DEF HeriteActe
<1>2. ASSUME Contenus(requete'[s]) = Contenus(requete[s])
      PROVE  \E q \in requete[s] : Contenu(q) = Contenu(p)
  <2>1. Contenu(p) \in Contenus(requete'[s])
      BY DEF Contenus
  <2>2. Contenu(p) \in Contenus(requete[s])
      BY <1>2, <2>1
  <2> QED  BY <2>2 DEF Contenus
<1> QED  BY <1>1, <1>2, ContenusPas DEF Socle

LEMMA saveHerite ==
    ASSUME Socle, NEW r \in Requetes, NEW t, NEW lignes, save(r, t, lignes)
    PROVE  HeriteActe({})
<1>1. PICK q, C : q \in requete[r] /\ Sauve(requete, requete', r, q, C)
      BY saveSauve
<1> SUFFICES ASSUME NEW s \in Requetes, NEW p \in requete'[s]
             PROVE  \E x \in requete[s] : Contenu(x) = Contenu(p)
    BY DEF HeriteActe
<1>2. Contenu(p) \in Contenus(requete'[s])
      BY DEF Contenus
<1>3. Contenu(p) \in Contenus(requete[s])
      BY <1>1, <1>2, ContenusSauve DEF Socle
<1> QED  BY <1>3 DEF Contenus

ParentLa(t, l) == l.parent # Nul => \E m \in t[l.parent] : m.corpus = l.corpus

EcritureElement(q, t) ==
    /\ q.id \in Elements /\ q.ligne \in ElementRow /\ ParentLa(t, q.ligne)
    /\ q.insertion = TRUE => t[q.id] = {}
    /\ q.insertion # TRUE => \E l \in t[q.id] : l.corpus = q.ligne.corpus

SuiviElements(req, t) ==
    \A r \in Requetes : \A q \in req[r] : q.table = "element" =>
        /\ EcritureElement(q, t)
        /\ q.insertion = TRUE =>
              \A s \in Requetes : \A p \in req[s] : p.table = "element" /\ p.id = q.id => s = r

InvElements ==
    /\ Table1(elements, Elements, ElementRow)
    /\ SuiviElements(requete, elements)
    /\ \A e \in Elements : \A l \in elements[e] : ParentLa(elements, l)

LEMMA ElementColonnes == Colonnes(ElementRow)
BY DEF Colonnes, ElementRow

LEMMA SuiviElementsHerite ==
    ASSUME NEW T, HeriteActe(T), "element" \notin T, NEW t, SuiviElements(requete, t)
    PROVE  SuiviElements(requete', t)
<1>1. \A p, q : Contenu(q) = Contenu(p) =>
          p.table = q.table /\ p.id = q.id /\ p.ligne = q.ligne /\ p.insertion = q.insertion
      BY DEF Contenu
<1>2. \A s \in Requetes : \A p \in requete'[s] : p.table = "element" =>
          \E q \in requete[s] : /\ p.table = q.table /\ p.id = q.id
                                /\ p.ligne = q.ligne /\ p.insertion = q.insertion
      BY <1>1 DEF HeriteActe
<1>3. ASSUME NEW r \in Requetes, NEW p \in requete'[r], p.table = "element"
      PROVE  /\ EcritureElement(p, t)
             /\ p.insertion = TRUE =>
                   \A s \in Requetes : \A x \in requete'[s] : x.table = "element" /\ x.id = p.id => s = r
  <2>1. PICK q \in requete[r] : /\ p.table = q.table /\ p.id = q.id
                                /\ p.ligne = q.ligne /\ p.insertion = q.insertion
      BY <1>2, <1>3
  <2>2. EcritureElement(q, t)
      BY <1>3, <2>1 DEF SuiviElements
  <2>3. EcritureElement(p, t)
      BY <2>1, <2>2 DEF EcritureElement
  <2>4. ASSUME p.insertion = TRUE, NEW s \in Requetes, NEW x \in requete'[s],
               x.table = "element", x.id = p.id
        PROVE  s = r
    <3>1. PICK y \in requete[s] : y.table = "element" /\ y.id = x.id
        BY <1>2, <2>4
    <3> QED  BY <1>3, <2>1, <2>4, <3>1 DEF SuiviElements
  <2> QED  BY <2>3, <2>4
<1> QED  BY <1>3 DEF SuiviElements

LEMMA ElementsHors ==
    ASSUME InvElements, NEW T, HeriteActe(T), "element" \notin T, UNCHANGED elements
    PROVE  InvElements'
<1>1. SuiviElements(requete', elements)
      BY SuiviElementsHerite DEF InvElements
<1> QED  BY <1>1 DEF InvElements, ParentLa

LEMMA ElementsInit == Init => InvElements
<1> SUFFICES ASSUME Init PROVE InvElements
    OBVIOUS
<1>1. requete = [r \in Requetes |-> {}] /\ elements = Table(Elements, Aucune)
      BY DEF Init, InitUnite, Demarrage
<1>2. DOMAIN Aucune = {}
      BY DEF Aucune
<1>3. Table1(elements, Elements, ElementRow)
      BY <1>1, <1>2, TableDepart
<1>4. \A e \in Elements : elements[e] = {}
      BY <1>1, <1>2 DEF Table
<1>5. SuiviElements(requete, elements)
      BY <1>1 DEF SuiviElements
<1> QED  BY <1>3, <1>4, <1>5 DEF InvElements

LEMMA ElementsTraiter ==
    ASSUME Socle, InvElements, NEW r \in Requetes, NEW e \in Elements, NEW l \in ElementRow, NEW type,
           Traiter(r, "element", elements, e, l, type), UNCHANGED elements,
           ParentLa(elements, l),
           \/ Neuf("element", elements, e)
           \/ \E m \in elements[e] : m.corpus = l.corpus
    PROVE  InvElements'
<1> DEFINE q == Ecriture("element", e, l, elements[e] = {}, type)
<1>1. Debute(requete, requete', r, {q}) /\ requete[r] = {}
      BY TraiterDebute DEF Traiter, TraiterTout
<1>2. /\ q.table = "element" /\ q.id = e /\ q.ligne = l
      /\ q.insertion = TRUE <=> elements[e] = {}
      BY DEF Ecriture
<1> HIDE DEF q
<1>3. \A s \in Requetes : requete'[s] = IF s = r THEN {q} ELSE requete[s]
      BY <1>1 DEF Debute, Socle, ReqOK
<1>4. EcritureElement(q, elements)
      BY <1>2 DEF EcritureElement, Neuf
<1>5. ASSUME q.insertion = TRUE, NEW s \in Requetes, NEW p \in requete'[s], p.table = "element", p.id = e
      PROVE  s = r
      BY <1>2, <1>3, <1>5 DEF Neuf
<1>6. ASSUME NEW s \in Requetes, NEW p \in requete[s], p.table = "element", p.insertion = TRUE, p.id = e
      PROVE  FALSE
  <2>1. elements[e] = {}
      BY <1>6 DEF InvElements, SuiviElements, EcritureElement
  <2> QED  BY <1>6, <2>1 DEF Neuf
<1>7. ASSUME NEW s \in Requetes, NEW p \in requete'[s], p.table = "element"
      PROVE  /\ EcritureElement(p, elements)
             /\ p.insertion = TRUE =>
                   \A x \in Requetes : \A y \in requete'[x] : y.table = "element" /\ y.id = p.id => x = s
  <2>1. CASE s = r
      BY <1>2, <1>3, <1>4, <1>5, <1>7, <2>1
  <2>2. CASE s # r
    <3>1. p \in requete[s] /\ EcritureElement(p, elements)
        BY <1>3, <1>7, <2>2 DEF InvElements, SuiviElements
    <3>2. ASSUME p.insertion = TRUE, NEW x \in Requetes, NEW y \in requete'[x],
                 y.table = "element", y.id = p.id
          PROVE  x = s
      <4>1. p.id # e
          BY <1>6, <1>7, <3>1, <3>2
      <4>2. y \in requete[x]
          BY <1>2, <1>3, <3>2, <4>1
      <4> QED  BY <1>7, <3>1, <3>2, <4>2 DEF InvElements, SuiviElements
    <3> QED  BY <3>1, <3>2
  <2> QED  BY <2>1, <2>2
<1>8. SuiviElements(requete', elements)
      BY <1>7 DEF SuiviElements
<1> QED  BY <1>8 DEF InvElements, ParentLa

LEMMA ElementsCommit ==
    ASSUME Socle, InvElements, NEW r \in Requetes, commitElement(r)
    PROVE  InvElements'
<1> DEFINE t == elements
           t2 == ApresTout(r, t)
<1>1. Valider(r, "element", elements) /\ Terminer(r) /\ elements' = t2
      BY DEF commitElement, Valider
<1>2. PICK q \in requete[r] : requete[r] = {q} /\ q.table = "element" /\ q.insertion \in BOOLEAN
  <2>1. PICK q \in requete[r] : TRUE
      BY <1>1 DEF Terminer
  <2> QED  BY <1>1, <2>1 DEF Valider, Socle, ReqOK, CleUnique, EcritureOK
<1>3. EcritureElement(q, t) /\ Table1(t, Elements, ElementRow)
      BY <1>2 DEF InvElements, SuiviElements
<1>4. DOMAIN t = Elements /\ q.id \in Elements /\ q.ligne \in ElementRow
      BY <1>3 DEF Table1, EcritureElement
<1>5. Table1(t2, Elements, ElementRow)
  <2>1. \A p, x \in requete[r] : p.id = x.id => p = x
      BY <1>2
  <2>2. \A p \in requete[r] : p.id \in Elements /\ p.ligne \in ElementRow
      BY <1>2, <1>4
  <2> QED  BY <1>3, <2>1, <2>2, ElementColonnes, ApresDeTable DEF ApresTout
<1>6. /\ \A e \in Elements : e # q.id => t2[e] = t[e]
      /\ t2[q.id] = Apres(q, t)[q.id]
  <2>1. {x \in requete[r] : x.id = q.id} = {q}
      BY <1>2
  <2>2. \A e \in Elements : e # q.id => ~\E x \in requete[r] : x.id = e
      BY <1>2
  <2> QED  BY <1>2, <1>4, <2>1, <2>2 DEF ApresTout, ApresDe
<1>7. Apres(q, t)[q.id] = IF q.insertion THEN {q.ligne} ELSE {Fusion(q, l) : l \in t[q.id]}
      BY <1>4 DEF Apres
<1> HIDE DEF t2
<1>8. ASSUME NEW m \in t2[q.id]
      PROVE  /\ m.corpus = q.ligne.corpus
             /\ m.parent = q.ligne.parent \/ \E l \in t[q.id] : m.parent = l.parent
  <2>1. CASE q.insertion = TRUE
      BY <1>6, <1>7, <1>8, <2>1
  <2>2. CASE q.insertion = FALSE
    <3>1. PICK l \in t[q.id] : m = Fusion(q, l)
        BY <1>6, <1>7, <1>8, <2>2
    <3>2. "corpus" \in DOMAIN q.ligne /\ "parent" \in DOMAIN q.ligne
        BY <1>4 DEF ElementRow
    <3>3. l.corpus = q.ligne.corpus
        BY <1>3, <2>2 DEF EcritureElement, Table1
    <3> QED  BY <3>1, <3>2, <3>3 DEF Fusion
  <2> QED  BY <1>2, <2>1, <2>2
<1>9. \A l \in t[q.id] : l.corpus = q.ligne.corpus
  <2>1. CASE q.insertion = TRUE
      BY <1>3, <2>1 DEF EcritureElement
  <2>2. CASE q.insertion = FALSE
      BY <1>3, <2>2 DEF EcritureElement, Table1
  <2> QED  BY <1>2, <2>1, <2>2
<1>10. t2[q.id] # {}
  <2>1. CASE q.insertion = TRUE
      BY <1>6, <1>7, <2>1
  <2>2. CASE q.insertion = FALSE
      BY <1>3, <1>6, <1>7, <2>2 DEF EcritureElement
  <2> QED  BY <1>2, <2>1, <2>2
<1>11. \A e \in Elements : \A l \in t[e] : \E m \in t2[e] : m.corpus = l.corpus
      BY <1>6, <1>8, <1>9, <1>10
<1>12. \A l \in ElementRow : ParentLa(t, l) => ParentLa(t2, l)
      BY <1>11 DEF ParentLa, ElementRow
<1>13. ASSUME NEW e \in Elements, NEW m \in t2[e]
       PROVE  ParentLa(t2, m)
  <2>1. CASE e # q.id
    <3>1. m \in t[e] /\ m \in ElementRow
        BY <1>3, <1>6, <2>1 DEF Table1
    <3> QED  BY <1>12, <3>1 DEF InvElements
  <2>2. CASE e = q.id
    <3>1. ASSUME NEW k \in ElementRow, ParentLa(t, k), m.parent = k.parent, m.corpus = k.corpus
          PROVE  ParentLa(t2, m)
        BY <1>12, <3>1 DEF ParentLa
    <3>2. m.corpus = q.ligne.corpus
        BY <1>8, <2>2
    <3>3. CASE m.parent = q.ligne.parent
        BY <1>3, <1>4, <3>1, <3>2, <3>3 DEF EcritureElement
    <3>4. CASE \E l \in t[q.id] : m.parent = l.parent
      <4>1. PICK l \in t[q.id] : m.parent = l.parent
          BY <3>4
      <4>2. l \in ElementRow /\ l.corpus = q.ligne.corpus /\ ParentLa(t, l)
          BY <1>3, <1>4, <1>9 DEF Table1, InvElements
      <4> QED  BY <3>1, <3>2, <4>1, <4>2
    <3> QED  BY <1>8, <2>2, <3>3, <3>4
  <2> QED  BY <2>1, <2>2
<1>14. SuiviElements(requete', t)
  <2>1. Acte({})
      BY <1>1, TerminerActe
  <2> QED  BY <2>1, ActeHerite, SuiviElementsHerite DEF InvElements
<1>15. ASSUME NEW s \in Requetes, NEW p \in requete'[s], p.table = "element"
       PROVE  EcritureElement(p, t2)
  <2>1. EcritureElement(p, t)
      BY <1>14, <1>15 DEF SuiviElements
  <2>2. ParentLa(t2, p.ligne)
      BY <1>12, <2>1 DEF EcritureElement
  <2>3. p.insertion # TRUE => \E l \in t2[p.id] : l.corpus = p.ligne.corpus
      BY <1>11, <2>1 DEF EcritureElement
  <2>4. p.insertion = TRUE => t2[p.id] = {}
    <3>1. ASSUME p.insertion = TRUE, p.id = q.id PROVE FALSE
      <4>1. PICK x \in requete[s] : x.table = "element" /\ x.id = q.id /\ x.insertion = TRUE
        <5>1. HeriteActe({})
            BY <1>1, TerminerActe, ActeHerite
        <5>2. PICK x \in requete[s] : Contenu(x) = Contenu(p)
            BY <5>1 DEF HeriteActe
        <5> QED  BY <1>15, <3>1, <5>2 DEF Contenu
      <4>2. s = r
          BY <1>2, <4>1 DEF InvElements, SuiviElements
      <4>3. requete'[r] = {}
          BY <1>1, TerminerFinit DEF Finit
      <4> QED  BY <1>15, <4>2, <4>3
    <3> QED  BY <1>6, <2>1, <3>1 DEF EcritureElement
  <2> QED  BY <2>1, <2>2, <2>3, <2>4 DEF EcritureElement
<1>16. SuiviElements(requete', t2)
      BY <1>14, <1>15 DEF SuiviElements
<1> QED  BY <1>1, <1>5, <1>13, <1>16 DEF InvElements

(* The tree of a corpus: the climb of wouldCreateCycleInCorpus meets its   *)
(* own elements only, and all those above the new parent.                  *)
ParentsDe(t) == [x \in Elements |-> {l.parent : l \in t[x]} \ {Nul}]

ArbresElements == {t \in [Elements -> SUBSET ElementRow] : SansBoucle(ParentsDe(t))}

InvArbre ==
    TableSuivie(requete, recouvrement, "element", elements, Elements, ElementRow, ArbresElements)

LEMMA ArbreInit == Init => InvArbre
<1> SUFFICES ASSUME Init PROVE InvArbre
    OBVIOUS
<1>1. requete = [r \in Requetes |-> {}] /\ elements = Table(Elements, Aucune)
      BY DEF Init, InitUnite, Demarrage
<1>2. DOMAIN Aucune = {}
      BY DEF Aucune
<1>3. Table1(elements, Elements, ElementRow)
      BY <1>1, <1>2, TableDepart
<1>4. \A e \in Elements : elements[e] = {}
      BY <1>1, <1>2 DEF Table
<1>5. \A e \in Elements : ParentsDe(elements)[e] = {}
      BY <1>4 DEF ParentsDe
<1>6. SansBoucle(ParentsDe(elements))
      BY <1>5 DEF SansBoucle, ParentsDe
<1>7. elements \in ArbresElements
      BY <1>3, <1>6 DEF ArbresElements, Table1
<1> QED  BY <1>1, <1>3, <1>7, TableSuivieDepart DEF InvArbre

LEMMA ParentsAvec ==
    ASSUME NEW t \in ArbresElements, NEW e \in Elements, NEW k \in ElementRow
    PROVE  /\ DOMAIN ParentsDe(t) = Elements /\ DOMAIN ParentsDe(Avec(t, e, k)) = Elements
           /\ SansBoucle(ParentsDe(t)) /\ Avec(t, e, k) \in [Elements -> SUBSET ElementRow]
           /\ ParentsDe(Avec(t, e, k))[e] = {k.parent} \ {Nul}
           /\ \A x \in Elements : x # e => ParentsDe(Avec(t, e, k))[x] = ParentsDe(t)[x]
<1> DEFINE t2 == Avec(t, e, k)
<1>1. t \in [Elements -> SUBSET ElementRow]
      BY DEF ArbresElements
<1>2. /\ t2 \in [Elements -> SUBSET ElementRow] /\ t2[e] = {k}
      /\ \A x \in Elements : x # e => t2[x] = t[x]
      BY <1>1 DEF Avec
<1> HIDE DEF t2
<1>3. ParentsDe(t2)[e] = {k.parent} \ {Nul}
      BY <1>2 DEF ParentsDe
<1>4. \A x \in Elements : x # e => ParentsDe(t2)[x] = ParentsDe(t)[x]
      BY <1>2 DEF ParentsDe
<1>5. DOMAIN ParentsDe(t) = Elements /\ DOMAIN ParentsDe(t2) = Elements
      BY DEF ParentsDe
<1> QED  BY <1>2, <1>3, <1>4, <1>5 DEF ArbresElements, t2

(* A write that gives e a parent p outside of a set that is closed under   *)
(* the parents and does not hold e, or that gives it none.                 *)
LEMMA ArbreAttache ==
    ASSUME NEW t \in ArbresElements, NEW e \in Elements, NEW k \in ElementRow, NEW L,
           k.parent # Nul => k.parent \in L /\ e \notin L /\ Close(ParentsDe(t), L)
    PROVE  Avec(t, e, k) \in ArbresElements
<1> DEFINE P == ParentsDe(t)
           Q == ParentsDe(Avec(t, e, k))
<1>1. /\ DOMAIN P = Elements /\ DOMAIN Q = Elements
      /\ SansBoucle(P) /\ Avec(t, e, k) \in [Elements -> SUBSET ElementRow]
      /\ Q[e] = {k.parent} \ {Nul}
      /\ \A x \in Elements : x # e => Q[x] = P[x]
      BY ParentsAvec
<1>2. DOMAIN Q = DOMAIN P /\ \A x \in DOMAIN P : x # e => Q[x] = P[x]
      BY <1>1
<1> HIDE DEF P, Q
<1>3. SansBoucle(Q)
  <2>1. CASE k.parent = Nul
    <3>1. \A x \in DOMAIN P : Q[x] \subseteq P[x]
        BY <1>1, <2>1
    <3> QED  BY <1>1, <1>2, <3>1, DetacherSansBoucle
  <2>2. CASE k.parent # Nul
    <3>1. k.parent \in L /\ e \notin L /\ Close(P, L) /\ Q[e] \subseteq {k.parent}
        BY <1>1, <2>2 DEF P
    <3> QED  BY <1>1, <1>2, <3>1, RattacherSansBoucle
  <2> QED  BY <2>1, <2>2
<1> QED  BY <1>1, <1>3 DEF ArbresElements, Q

LEMMA ArbreLecture ==
    ASSUME Socle, InvElements, InvArbre, NEW r \in Requetes, Arborescence(r), UNCHANGED elements
    PROVE  InvElements' /\ InvArbre'
<1> DEFINE t == elements
           P == ParentsDe(t)
<1>1. /\ ReqOK(requete) /\ Table1(t, Elements, ElementRow)
      /\ \A x \in Elements : \A l \in t[x] : l \in ElementRow /\ ParentLa(t, l)
      /\ \A x \in Elements : \A l, m \in t[x] : l = m
      BY DEF Socle, InvElements, Table1
<1>2. DOMAIN P = Elements /\ IsFiniteSet(Elements) /\ Nul \notin Elements
      BY CorpusAssumption DEF ParentsDe
<1>3. \A x \in Elements : P[x] = {l.parent : l \in t[x]} \ {Nul}
      BY DEF ParentsDe
<1>4. ASSUME NEW e \in Elements, NEW l \in ElementRow, NEW type, NEW L,
             Traiter(r, "element", elements, e, l, type), ParentLa(t, l),
             \/ Neuf("element", elements, e)
             \/ \E m \in elements[e] : m.corpus = l.corpus,
             t \in ArbresElements => \/ Avec(t, e, l) \in ArbresElements
                                     \/ l.parent # Nul => l.parent \in L /\ e \notin L /\ Close(P, L)
      PROVE  InvElements' /\ InvArbre'
  <2>1. InvElements'
      BY <1>4, ElementsTraiter
  <2>2. t \in ArbresElements => Avec(t, e, l) \in ArbresElements
      BY <1>4, ArbreAttache
  <2>3. TableSuivie(requete', recouvrement', "element", t, Elements, ElementRow, ArbresElements)
      BY <1>1, <1>4, <2>2, TableSuivieTraiter DEF InvArbre
  <2> QED  BY <2>1, <2>3 DEF InvArbre
<1>5. ASSUME NEW e \in Elements, NEW c \in Corpus, NEW p \in Elements \union {Nul},
             AttachCorpusElement(r, e, c, n1, p)
      PROVE  InvElements' /\ InvArbre'
  <2> DEFINE k == [corpus |-> c, noeud |-> n1, parent |-> p]
             L == Elements \ {e}
  <2>1. /\ Neuf("element", elements, e) /\ t[e] = {} /\ ParentDuCorpus(p, c)
        /\ Traiter(r, "element", elements, e, k, "CORPUS_ELEMENT_CREATED")
      BY <1>5 DEF AttachCorpusElement, Neuf
  <2>2. k \in ElementRow /\ k.corpus = c /\ k.parent = p
      BY NoyauAssumption DEF ElementRow
  <2> HIDE DEF k
  <2>3. ParentLa(t, k)
      BY <2>1, <2>2 DEF ParentLa, ParentDuCorpus
  <2>4. ASSUME NEW x \in Elements, NEW l \in t[x]
        PROVE  l.parent # e
      BY <1>1, <1>2, <2>1 DEF ParentLa
  <2>5. Close(P, L)
      BY <1>1, <1>3, <2>4 DEF Close, ElementRow
  <2>6. k.parent # Nul => k.parent \in L /\ e \notin L
      BY <2>1, <2>2 DEF ParentDuCorpus
  <2> HIDE DEF L, P
  <2> QED  BY <1>4, <2>1, <2>2, <2>3, <2>5, <2>6
<1>6. ASSUME NEW e \in Elements, UpdateCorpusElement(r, e)
      PROVE  InvElements' /\ InvArbre'
  <2>1. PICK l \in t[e] : Traiter(r, "element", elements, e, l, Nul)
      BY <1>6 DEF UpdateCorpusElement
  <2>2. l \in ElementRow /\ ParentLa(t, l) /\ t[e] = {l}
      BY <1>1, <2>1
  <2>3. ASSUME t \in ArbresElements PROVE Avec(t, e, l) \in ArbresElements
    <3>1. Avec(t, e, l) = t
        BY <2>2, <2>3 DEF Avec, ArbresElements
    <3> QED  BY <2>3, <3>1
  <2> QED  BY <1>4, <2>1, <2>2, <2>3
<1>7. ASSUME NEW e \in Elements, NEW p \in Elements \union {Nul}, ReattachCorpusElement(r, e, p)
      PROVE  InvElements' /\ InvArbre'
  <2>1. PICK l \in t[e] :
            /\ ParentDuCorpus(p, l.corpus)
            /\ p # Nul => ~wouldCreateCycleInCorpus(findByCorpusVersionne(l.corpus), e, p)
            /\ Traiter(r, "element", elements, e, [l EXCEPT !.parent = p], Nul)
      BY <1>7 DEF ReattachCorpusElement
  <2> DEFINE k == [l EXCEPT !.parent = p]
             plats == findByCorpusVersionne(l.corpus)
             L == Lignee(Parents(plats), p) \intersect plats
  <2>2. k \in ElementRow /\ k.corpus = l.corpus /\ k.parent = p /\ l \in ElementRow
      BY <1>1, <2>1 DEF ElementRow
  <2>3. Traiter(r, "element", elements, e, k, Nul)
      BY <2>1
  <2> HIDE DEF k
  <2>4. ParentLa(t, k)
      BY <2>1, <2>2 DEF ParentLa, ParentDuCorpus
  <2>5. plats = {x \in Elements : \E m \in t[x] : m.corpus = l.corpus}
      BY DEF findByCorpusVersionne
  <2>6. DOMAIN Parents(plats) = plats /\ \A x \in plats : Parents(plats)[x] = P[x]
      BY <1>3, <2>5 DEF Parents
  <2>7. IsFiniteSet(plats)
      BY <1>2, <2>5, FS_Subset
  <2> HIDE DEF plats
  <2>8. p \in Lignee(Parents(plats), p) /\ Close(Parents(plats), Lignee(Parents(plats), p))
      BY <2>6, <2>7, LigneeClose
  <2>9. \A x \in plats : P[x] \subseteq plats
      BY <1>1, <1>3, <2>5 DEF ParentLa, ElementRow
  <2>10. Close(P, L)
      BY <2>6, <2>8, <2>9 DEF Close
  <2>11. p # Nul => p \in L /\ e \notin L
      BY <2>1, <2>5, <2>8 DEF ParentDuCorpus, wouldCreateCycleInCorpus, plats
  <2> HIDE DEF L, P
  <2> QED  BY <1>4, <2>1, <2>2, <2>3, <2>4, <2>10, <2>11
<1> QED  BY <1>5, <1>6, <1>7 DEF Arborescence

LEMMA HorsCorpus ==
    ASSUME Socle, [Next]_vars, ~CorpusNext
    PROVE  UNCHANGED corpusVars /\ Ailleurs(TablesCorpus)
<1> DEFINE T == TablesCorpus
<1>1. /\ TablesEngine \intersect T = {} /\ TablesOrg \intersect T = {}
      /\ TablesRegistre \intersect T = {} /\ TablesReferentiel \intersect T = {}
      /\ {"configuration"} \intersect T = {} /\ TablesCatalogue \intersect T = {}
      /\ TablesIdentite \intersect T = {} /\ {} \intersect T = {}
      BY DEF TablesOrg, TablesEngine, TablesCorpus, TablesRegistre, TablesReferentiel,
             TablesCatalogue, TablesIdentite
<1>2. UNCHANGED corpusVars
      BY NextContextes DEF EngineNext, RegistreNext, OrgNext, ReferentielNext, ConfigNext,
             CatalogueNext, IdentiteNext, Refus, metierVars
<1>3. UNCHANGED <<requete, recouvrement>> \/ \E S : Acte(S) /\ S \intersect T = {}
  <2> HIDE DEF T
  <2>1. UNCHANGED <<uniteVars, metierVars>> => UNCHANGED <<requete, recouvrement>>
      BY DEF uniteVars
  <2> QED  BY Contextes, <1>1, <2>1
<1> QED  BY <1>2, <1>3 DEF Ailleurs

LEMMA ArbreEtape ==
    Socle /\ InvElements /\ InvArbre /\ [Next]_vars => InvElements' /\ InvArbre'
<1> SUFFICES ASSUME Socle, InvElements, InvArbre, [Next]_vars PROVE InvElements' /\ InvArbre'
    OBVIOUS
<1> DEFINE S(req, rec, t) ==
        TableSuivie(req, rec, "element", t, Elements, ElementRow, ArbresElements)
<1>1. ReqOK(requete) /\ S(requete, recouvrement, elements)
      BY DEF Socle, InvArbre
<1>2. ASSUME NEW T, "element" \in T, Ailleurs(T), UNCHANGED elements PROVE InvElements' /\ InvArbre'
  <2>1. S(requete', recouvrement', elements)
      BY <1>1, <1>2, TableSuivieHors
  <2>2. ASSUME UNCHANGED <<requete, recouvrement>> PROVE InvElements'
      BY <1>2, <2>2 DEF InvElements, ParentLa
  <2>3. ASSUME NEW U, Acte(U), U \intersect T = {} PROVE InvElements'
    <3>1. HeriteActe(U) /\ "element" \notin U
        BY <1>2, <2>3, ActeHerite
    <3> QED  BY <1>2, <3>1, ElementsHors
  <2> QED  BY <1>2, <2>1, <2>2, <2>3 DEF Ailleurs, InvArbre
<1>3. CASE ~CorpusNext
  <2>1. "element" \in TablesCorpus /\ UNCHANGED elements
      BY <1>3, HorsCorpus DEF TablesCorpus, corpusVars
  <2> QED  BY <1>2, <1>3, <2>1, HorsCorpus
<1>4. ASSUME Acte({"corpus"}), UNCHANGED elements PROVE InvElements' /\ InvArbre'
  <2>1. Ailleurs({"element"})
      BY <1>4 DEF Ailleurs
  <2> QED  BY <1>2, <1>4, <2>1
<1>5. CASE CorpusNext
  <2>1. ASSUME NEW r \in Requetes, Edition(r) PROVE Acte({"corpus"})
      BY <2>1, TraiterActe
         DEF Edition, CreateCorpusVersionne, UpdateCorpusVersionne, PublishCorpus, ArchiveCorpus
  <2>2. ASSUME NEW r \in Requetes, saveCorpus(r) PROVE InvElements' /\ InvArbre'
    <3>1. UNCHANGED elements
        BY <2>2 DEF saveCorpus, corpusVars
    <3>2. CASE save(r, "element", elements)
      <4>1. S(requete', recouvrement', elements)
          BY <1>1, <3>2, TableSuivieSave
      <4>2. InvElements'
          BY <3>1, <3>2, saveHerite, ElementsHors
      <4> QED  BY <3>1, <4>1, <4>2 DEF InvArbre
    <3>3. CASE save(r, "corpus", corpus)
      <4>1. Acte({"corpus"})
          BY <3>3, saveActe
      <4> QED  BY <1>4, <3>1, <4>1
    <3> QED  BY <2>2, <3>2, <3>3 DEF saveCorpus
  <2>3. ASSUME NEW r \in Requetes, commitCorpus(r) PROVE InvElements' /\ InvArbre'
    <3>1. UNCHANGED elements /\ Acte({"corpus"})
        BY <2>3, TerminerActe DEF commitCorpus, Valider
    <3> QED  BY <1>4, <3>1
  <2>4. ASSUME NEW r \in Requetes, commitElement(r) PROVE InvElements' /\ InvArbre'
    <3>1. Valider(r, "element", elements) /\ elements' = ApresTout(r, elements)
        BY <2>4 DEF commitElement
    <3>2. S(requete', recouvrement', ApresTout(r, elements))
        BY <1>1, <3>1, ElementColonnes, TableSuivieValider
    <3> QED  BY <2>4, <3>1, <3>2, ElementsCommit DEF InvArbre
  <2> QED  BY <1>4, <1>5, <2>1, <2>2, <2>3, <2>4, ArbreLecture DEF CorpusNext, corpusVars
<1> QED  BY <1>3, <1>5

(* The parent of an element is there, in the same corpus, whatever         *)
(* overlaps; and no element is above itself as long as no request has      *)
(* overlapped another, however deep the corpus.                            *)
THEOREM ElementsEnArbreCorrect == Spec => []ElementsEnArbre
<1>1. InvElements /\ InvArbre => ElementsEnArbre
  <2>1. Parents(Elements) = ParentsDe(elements)
      BY DEF Parents, ParentsDe
  <2> QED  BY <2>1 DEF InvElements, InvArbre, TableSuivie, ArbresElements, ElementsEnArbre,
                       ParentLa, ParentDuCorpus
<1>2. Socle /\ InvElements /\ InvArbre /\ [Next]_vars => (Socle /\ InvElements /\ InvArbre)'
      BY SocleEtape, ArbreEtape
<1> QED  BY SocleInit, ElementsInit, ArbreInit, <1>1, <1>2, PTL DEF Spec

-----------------------------------------------------------------------------
(* The hierarchy of nodes.  What a write that no commit has overtaken says *)
(* was said when the tables were read, and they are still the same.        *)
Meme(p, q) ==
    q.depasse = FALSE /\ q.table = p.table /\ q.id = p.id /\ q.ligne = p.ligne /\ q.type = p.type

Frais(req, req2, T) ==
    \A s \in Requetes : \A p \in req2[s] :
        p.depasse = FALSE => p.table \in T \/ \E q \in req[s] : Meme(p, q)

LEMMA FraisSauve ==
    ASSUME NEW req, NEW req2, NEW r \in Requetes, NEW q, NEW C, ReqOK(req), Sauve(req, req2, r, q, C)
    PROVE  Frais(req, req2, {})
<1> DEFINE e == Enregistree(q, C)
<1>1. \A s \in Requetes : req2[s] = IF s = r THEN (req[r] \ {q}) \union {e} ELSE req[s]
      BY DEF Sauve, ReqOK
<1>2. q \in req[r] /\ EcritureOK(q)
      BY DEF Sauve, ReqOK
<1>3. e.table = q.table /\ e.id = q.id /\ e.ligne = q.ligne /\ e.type = q.type /\ e.depasse = q.depasse
      BY <1>2, EnregistreeForme
<1> HIDE DEF e
<1> QED  BY <1>1, <1>2, <1>3 DEF Frais, Meme

LEMMA FraisFinit ==
    ASSUME NEW req, NEW req2, NEW r \in Requetes, ReqOK(req), Finit(req, req2, r)
    PROVE  \A s \in Requetes : \A p \in req2[s] : p.depasse = TRUE
<1>1. \A s \in Requetes : req2[s] = IF s = r THEN {} ELSE Depassees(req[s])
      BY DEF Finit
<1>2. \A s \in Requetes : \A q \in req[s] : Depassee(q).depasse = TRUE
      BY DepasseeForme DEF ReqOK
<1>3. \A s \in Requetes : \A p \in Depassees(req[s]) : p.depasse = TRUE
      BY <1>2 DEF Depassees
<1> QED  BY <1>1, <1>3

LEMMA FraisPas ==
    ASSUME NEW req, NEW req2, NEW r \in Requetes, NEW T, ReqOK(req), PasDe(req, req2, r, T)
    PROVE  Frais(req, req2, T)
<1>1. DOMAIN req = Requetes
      BY DEF ReqOK
<1>2. ASSUME NEW E, Debute(req, req2, r, E), \A q \in E : q.table \in T PROVE Frais(req, req2, T)
  <2>1. \A s \in Requetes : req2[s] = IF s = r THEN E ELSE req[s]
      BY <1>1, <1>2 DEF Debute
  <2> QED  BY <1>2, <2>1 DEF Frais, Meme
<1>3. ASSUME NEW q \in req[r], NEW C, Sauve(req, req2, r, q, C) PROVE Frais(req, req2, T)
      BY <1>3, FraisSauve DEF Frais
<1>4. ASSUME Finit(req, req2, r) PROVE Frais(req, req2, T)
  <2>1. \A s \in Requetes : \A p \in req2[s] : p.depasse = TRUE
      BY <1>4, FraisFinit
  <2> QED  BY <2>1 DEF Frais
<1>5. ASSUME Annule(req, req2, r) PROVE Frais(req, req2, T)
  <2>1. \A s \in Requetes : req2[s] = IF s = r THEN {} ELSE req[s]
      BY <1>1, <1>5 DEF Annule
  <2> QED  BY <2>1 DEF Frais, Meme
<1> QED  BY <1>2, <1>3, <1>4, <1>5 DEF PasDe

Racine(n, l) == l.parent = Nul /\ l.chemin = <<n>> /\ l.rang = 1

SousParent(t, n, l) ==
    \E m \in Noeuds : l.parent = m /\ m # n /\ \E p \in t[m] :
        l.chemin = Append(p.chemin, n) /\ l.rang = p.rang + 1 /\ l.pays = p.pays

(* The rows, and the writes, whose path follows that of their parent.      *)
CheminsBons(t) == {w \in Noeuds \X NoeudRow : Racine(w[1], w[2]) \/ SousParent(t, w[1], w[2])}

Garde(k, l) == k.parent = l.parent /\ k.chemin = l.chemin /\ k.rang = l.rang /\ k.pays = l.pays

(* A write that is not a move keeps the place of the node; a creation has  *)
(* a named level.                                                          *)
EnPlace(t, niv, n, k) ==
    IF t[n] = {} THEN niv[<<k.pays, k.rang>>] # {} ELSE \A l \in t[n] : Garde(k, l)

SansDeplacement(req, t, niv) ==
    \A r \in Requetes : \A q \in req[r] :
        q.table = "noeud" /\ q.depasse = FALSE /\ q.type # "BRANCH_REATTACHED" =>
            EnPlace(t, niv, q.id, q.ligne)

AscendantsDe(t) == [n \in Noeuds |-> {l.parent : l \in t[n]} \ {Nul}]

AscendantsAvec(t, n, k) ==
    [x \in Noeuds |-> IF x = n THEN {k.parent} \ {Nul} ELSE AscendantsDe(t)[x]]

SansCycle(t) ==
    {w \in Noeuds \X NoeudRow :
        SansBoucle(AscendantsDe(t)) => SansBoucle(AscendantsAvec(t, w[1], w[2]))}

(* A write that moves or deactivates a node has seen no active, published  *)
(* child below it.                                                         *)
Expose(k, l) == k.parent # l.parent \/ (l.actif = TRUE /\ k.actif = FALSE)

Enfants(t, n) ==
    \E m \in Noeuds : \E e \in t[m] : e.parent = n /\ e.statut = "publie" /\ e.actif = TRUE

Protegees(t) ==
    {w \in Noeuds \X NoeudRow : (\E l \in t[w[1]] : Expose(w[2], l)) => ~Enfants(t, w[1])}

CheminsSurs(t, niv, d) ==
    \A n \in Noeuds : \A l \in t[n] :
        /\ <<n, l>> \in CheminsBons(t) /\ l.rang = Len(l.chemin) /\ l.rang <= MaxChemin
        /\ d = "rien" => niv[<<l.pays, l.rang>>] # {}

ToutNoeud == Noeuds \X NoeudRow

ToutNiveau == Pays \X (1..(MaxChemin + 1))

InvNoeuds ==
    /\ DOMAIN niveaux = ToutNiveau
    /\ Table1(noeuds, Noeuds, NoeudRow)
    /\ Suivi(requete, "noeud", noeuds, ToutNoeud, ToutNoeud)
    /\ ~recouvrement => Suivi(requete, "noeud", noeuds, ToutNoeud, Protegees(noeuds))
    /\ ~recouvrement /\ deplace # "branches" =>
          /\ CheminsSurs(noeuds, niveaux, deplace)
          /\ Suivi(requete, "noeud", noeuds, ToutNoeud, CheminsBons(noeuds))
          /\ Suivi(requete, "noeud", noeuds, ToutNoeud, SansCycle(noeuds))
          /\ SansDeplacement(requete, noeuds, niveaux)

LEMMA NoeudColonnes == Colonnes(NoeudRow)
BY DEF Colonnes, NoeudRow

LEMMA SansDeplacementFrais ==
    ASSUME NEW T, NEW t, NEW niv, SansDeplacement(requete, t, niv),
           Frais(requete, requete', T), "noeud" \notin T
    PROVE  SansDeplacement(requete', t, niv)
<1> SUFFICES ASSUME NEW s \in Requetes, NEW p \in requete'[s], p.table = "noeud", p.depasse = FALSE,
                    p.type # "BRANCH_REATTACHED"
             PROVE  EnPlace(t, niv, p.id, p.ligne)
    BY DEF SansDeplacement
<1>1. PICK q \in requete[s] : Meme(p, q)
      BY DEF Frais
<1> QED  BY <1>1 DEF SansDeplacement, Meme

(* A step that writes neither to the nodes nor to the levels.              *)
LEMMA NoeudsHors ==
    ASSUME Socle, InvNoeuds, Ailleurs({"noeud"}), UNCHANGED <<noeuds, niveaux, deplace>>
    PROVE  InvNoeuds'
<1>1. CASE UNCHANGED <<requete, recouvrement>>
      BY <1>1 DEF InvNoeuds
<1>2. ASSUME NEW S, Acte(S), S \intersect {"noeud"} = {} PROVE InvNoeuds'
  <2>1. ReqOK(requete) /\ "noeud" \notin S /\ (~recouvrement' => ~recouvrement)
      BY <1>2, ActeReqOK DEF Socle
  <2>2. \A B : Suivi(requete, "noeud", noeuds, ToutNoeud, B)
               => Suivi(requete', "noeud", noeuds, ToutNoeud, B)
      BY <1>2, <2>1, SuiviActe
  <2>3. Frais(requete, requete', S)
      BY <1>2, <2>1, FraisPas DEF Acte
  <2>4. SansDeplacement(requete, noeuds, niveaux) => SansDeplacement(requete', noeuds, niveaux)
      BY <2>1, <2>3, SansDeplacementFrais
  <2> QED  BY <2>1, <2>2, <2>4 DEF InvNoeuds
<1> QED  BY <1>1, <1>2 DEF Ailleurs

(* The commit of a request of another table of the engine.                 *)
LEMMA NoeudsAutreCommit ==
    ASSUME Socle, InvNoeuds, NEW r \in Requetes, Terminer(r), UNCHANGED <<noeuds, deplace>>,
           DOMAIN niveaux' = ToutNiveau,
           \A k \in ToutNiveau : niveaux[k] # {} => niveaux'[k] # {}
    PROVE  InvNoeuds'
<1>1. /\ ReqOK(requete) /\ (~recouvrement' => ~recouvrement)
      /\ Suivi(requete, "noeud", noeuds, ToutNoeud, ToutNoeud)
      /\ \A s \in Requetes : \A p \in requete'[s] : p.depasse = TRUE
      BY TerminerFinit, FraisFinit DEF Socle, InvNoeuds
<1>2. \A B : Suivi(requete', "noeud", noeuds, ToutNoeud, B)
      BY <1>1, SuiviTerminer
<1>3. \A niv : SansDeplacement(requete', noeuds, niv)
      BY <1>1 DEF SansDeplacement
<1>4. ASSUME CheminsSurs(noeuds, niveaux, deplace), NEW n \in Noeuds, NEW l \in noeuds[n]
      PROVE  <<l.pays, l.rang>> \in ToutNiveau
  <2>1. l \in NoeudRow
      BY DEF InvNoeuds, Table1
  <2>2. l.pays \in Pays /\ l.rang \in Nat /\ l.rang <= MaxChemin /\ MaxChemin \in Nat
      BY <1>4, <2>1, NoeudAssumption DEF CheminsSurs, NoeudRow
  <2>3. l.rang >= 1
    <3>1. Racine(n, l) \/ SousParent(noeuds, n, l)
        BY <1>4 DEF CheminsSurs, CheminsBons
    <3>2. ASSUME SousParent(noeuds, n, l) PROVE l.rang >= 1
      <4>1. PICK m \in Noeuds : \E p \in noeuds[m] : l.rang = p.rang + 1
          BY <3>2 DEF SousParent
      <4>2. PICK p \in noeuds[m] : l.rang = p.rang + 1
          BY <4>1
      <4>3. p.rang \in Nat
          BY DEF InvNoeuds, Table1, NoeudRow
      <4> QED  BY <4>2, <4>3
    <3> QED  BY <3>1, <3>2 DEF Racine
  <2> QED  BY <2>2, <2>3 DEF ToutNiveau
<1>5. CheminsSurs(noeuds, niveaux, deplace) => CheminsSurs(noeuds, niveaux', deplace)
  <2> SUFFICES ASSUME CheminsSurs(noeuds, niveaux, deplace), NEW n \in Noeuds, NEW l \in noeuds[n]
               PROVE  /\ <<n, l>> \in CheminsBons(noeuds) /\ l.rang = Len(l.chemin) /\ l.rang <= MaxChemin
                      /\ deplace = "rien" => niveaux'[<<l.pays, l.rang>>] # {}
      BY DEF CheminsSurs
  <2> QED  BY <1>4 DEF CheminsSurs
<1> QED  BY <1>1, <1>2, <1>3, <1>5 DEF InvNoeuds

(* The writes that the use-cases prepare.                                  *)
LEMMA NoeudTraiter ==
    ASSUME Socle, InvNoeuds, NEW r \in Requetes, NEW n \in Noeuds, NEW k \in NoeudRow, NEW type,
           Traiter(r, "noeud", noeuds, n, k, type), UNCHANGED <<noeuds, niveaux, deplace>>,
           <<n, k>> \in Protegees(noeuds),
           ~recouvrement /\ deplace # "branches" =>
               /\ <<n, k>> \in CheminsBons(noeuds) /\ <<n, k>> \in SansCycle(noeuds)
               /\ type # "BRANCH_REATTACHED" => EnPlace(noeuds, niveaux, n, k)
    PROVE  InvNoeuds'
<1> DEFINE q == Ecriture("noeud", n, k, noeuds[n] = {}, type)
<1>1. ReqOK(requete) /\ <<n, k>> \in ToutNoeud /\ UNCHANGED recouvrement
      BY TraiterDebute DEF Socle, ToutNoeud
<1>2. \A B : Suivi(requete, "noeud", noeuds, ToutNoeud, B) /\ <<n, k>> \in B
             => Suivi(requete', "noeud", noeuds, ToutNoeud, B)
      BY <1>1, SuiviTraiter
<1>3. Debute(requete, requete', r, {q})
      BY TraiterDebute
<1>4. q.id = n /\ q.ligne = k /\ q.type = type
      BY DEF Ecriture
<1> HIDE DEF q
<1>5. \A s \in Requetes : requete'[s] = IF s = r THEN {q} ELSE requete[s]
      BY <1>1, <1>3 DEF Debute, ReqOK
<1>6. ASSUME SansDeplacement(requete, noeuds, niveaux),
             type # "BRANCH_REATTACHED" => EnPlace(noeuds, niveaux, n, k)
      PROVE  SansDeplacement(requete', noeuds, niveaux)
      BY <1>4, <1>5, <1>6 DEF SansDeplacement
<1> QED  BY <1>1, <1>2, <1>6 DEF InvNoeuds

LEMMA AscendantsForme ==
    ASSUME NEW t, Table1(t, Noeuds, NoeudRow), NEW n \in Noeuds, NEW k \in NoeudRow
    PROVE  /\ DOMAIN AscendantsDe(t) = Noeuds /\ DOMAIN AscendantsAvec(t, n, k) = Noeuds
           /\ AscendantsAvec(t, n, k)[n] = {k.parent} \ {Nul}
           /\ \A x \in Noeuds : x # n => AscendantsAvec(t, n, k)[x] = AscendantsDe(t)[x]
           /\ \A x \in Noeuds : \A l \in t[x] : AscendantsDe(t)[x] = {l.parent} \ {Nul}
<1>1. \A x \in Noeuds : \A l, m \in t[x] : l = m
      BY DEF Table1
<1>2. DOMAIN AscendantsDe(t) = Noeuds /\ \A x \in Noeuds : AscendantsDe(t)[x] = {l.parent : l \in t[x]} \ {Nul}
      BY DEF AscendantsDe
<1>3. \A x \in Noeuds : \A l \in t[x] : AscendantsDe(t)[x] = {l.parent} \ {Nul}
      BY <1>1, <1>2
<1> QED  BY <1>2, <1>3 DEF AscendantsAvec

(* A write that keeps the place of the node, or makes it a root.           *)
LEMMA SansCycleMoins ==
    ASSUME NEW t, Table1(t, Noeuds, NoeudRow), NEW n \in Noeuds, NEW k \in NoeudRow,
           k.parent = Nul \/ \E l \in t[n] : k.parent = l.parent
    PROVE  <<n, k>> \in SansCycle(t)
<1>1. \A x \in Noeuds : AscendantsAvec(t, n, k)[x] \subseteq AscendantsDe(t)[x]
      BY AscendantsForme
<1> DEFINE P == AscendantsDe(t)
           Q == AscendantsAvec(t, n, k)
<1>2. DOMAIN P = Noeuds /\ DOMAIN Q = Noeuds
      BY AscendantsForme
<1>3. \A x \in Noeuds : Q[x] \subseteq P[x]
      BY <1>1
<1> HIDE DEF P, Q
<1>4. SansBoucle(P) => SansBoucle(Q)
      BY <1>2, <1>3, DetacherSansBoucle
<1> QED  BY <1>4 DEF SansCycle, P, Q

(* A write that puts the node below m, out of a set closed under parents.  *)
LEMMA SansCycleSous ==
    ASSUME NEW t, Table1(t, Noeuds, NoeudRow), NEW n \in Noeuds, NEW k \in NoeudRow, NEW L,
           k.parent \in L, n \notin L, Close(AscendantsDe(t), L)
    PROVE  <<n, k>> \in SansCycle(t)
<1> DEFINE P == AscendantsDe(t)
           Q == AscendantsAvec(t, n, k)
<1>1. /\ DOMAIN P = Noeuds /\ DOMAIN Q = Noeuds /\ Q[n] \subseteq {k.parent}
      /\ \A x \in Noeuds : x # n => Q[x] = P[x]
      BY AscendantsForme
<1>2. Close(P, L)
      OBVIOUS
<1> HIDE DEF P, Q
<1>3. SansBoucle(P) => SansBoucle(Q)
      BY <1>1, <1>2, RattacherSansBoucle
<1> QED  BY <1>3 DEF SansCycle, P, Q

(* The paths: what goes up stays a prefix.                                 *)
LEMMA PrefixeSuite ==
    ASSUME NEW s \in Seq(Noeuds), NEW t \in Seq(Noeuds), NEW n \in Noeuds, Prefixe(s, t)
    PROVE  Prefixe(s, Append(t, n))
<1>1. Len(s) \in Nat /\ Len(t) \in Nat /\ Len(s) <= Len(t) /\ SubSeq(t, 1, Len(s)) = s
      BY DEF Prefixe
<1>2. Len(Append(t, n)) = Len(t) + 1 /\ \A i \in 1..Len(t) : Append(t, n)[i] = t[i]
      OBVIOUS
<1>3. SubSeq(Append(t, n), 1, Len(s)) = SubSeq(t, 1, Len(s))
      BY <1>1, <1>2
<1> QED  BY <1>1, <1>2, <1>3 DEF Prefixe

LEMMA PrefixeEgal ==
    ASSUME NEW s \in Seq(Noeuds)
    PROVE  Prefixe(s, s)
BY DEF Prefixe

LEMMA DeplacableProtege ==
    ASSUME NEW n \in Noeuds, Deplacable(n)
    PROVE  ~Enfants(noeuds, n)
<1> SUFFICES ASSUME NEW m \in Noeuds, NEW e \in noeuds[m],
                    e.parent = n, e.statut = "publie", e.actif = TRUE
             PROVE  FALSE
    BY DEF Enfants
<1>1. m \in findChildren(n)
      BY DEF findChildren
<1> QED  BY <1>1 DEF Deplacable, assertNoPublishedChildren

(* The row as read, but for what is not its place in the hierarchy.        *)
LEMMA NoeudGarde ==
    ASSUME Socle, InvNoeuds, NEW r \in Requetes, NEW n \in Noeuds, NEW l \in noeuds[n],
           NEW k \in NoeudRow, NEW type,
           Traiter(r, "noeud", noeuds, n, k, type), UNCHANGED <<noeuds, niveaux, deplace>>,
           Garde(k, l), k.actif = TRUE \/ k.actif = l.actif \/ Deplacable(n)
    PROVE  InvNoeuds'
<1> DEFINE t == noeuds
<1>1. /\ Table1(t, Noeuds, NoeudRow) /\ l \in NoeudRow /\ \A m \in t[n] : m = l
      /\ k.parent = l.parent
      BY DEF InvNoeuds, Table1, Garde
<1>2. <<n, k>> \in Protegees(t)
  <2>1. CASE k.actif = TRUE \/ k.actif = l.actif
    <3>1. ~Expose(k, l)
        BY <1>1, <2>1, Zenon DEF Expose
    <3> QED  BY <1>1, <3>1 DEF Protegees
  <2>2. CASE Deplacable(n)
      BY <1>1, <2>2, DeplacableProtege DEF Protegees
  <2> QED  BY <2>1, <2>2
<1>3. ASSUME ~recouvrement, deplace # "branches" PROVE <<n, k>> \in CheminsBons(t)
  <2>1. Racine(n, l) \/ SousParent(t, n, l)
      BY <1>3 DEF InvNoeuds, CheminsSurs, CheminsBons
  <2>2. Racine(n, k) \/ SousParent(t, n, k)
      BY <2>1 DEF Racine, SousParent, Garde
  <2> QED  BY <2>2 DEF CheminsBons
<1>4. <<n, k>> \in SansCycle(t)
      BY <1>1, SansCycleMoins
<1>5. EnPlace(t, niveaux, n, k)
      BY <1>1 DEF EnPlace
<1> QED  BY <1>2, <1>3, <1>4, <1>5, NoeudTraiter

(* A new node: nothing is below it.                                        *)
LEMMA NoeudNouveau ==
    ASSUME Socle, InvNoeuds, NEW r \in Requetes, NEW n \in Noeuds, NEW k \in NoeudRow, NEW type,
           Traiter(r, "noeud", noeuds, n, k, type), UNCHANGED <<noeuds, niveaux, deplace>>,
           noeuds[n] = {}, niveaux[<<k.pays, k.rang>>] # {},
           Racine(n, k) \/ SousParent(noeuds, n, k)
    PROVE  InvNoeuds'
<1> DEFINE t == noeuds
           P == AscendantsDe(t)
           L == Noeuds \ {n}
<1>1. Table1(t, Noeuds, NoeudRow) /\ <<n, k>> \in CheminsBons(t)
      BY DEF InvNoeuds, CheminsBons
<1>2. <<n, k>> \in Protegees(t)
      BY DEF Protegees
<1>3. EnPlace(t, niveaux, n, k)
      BY DEF EnPlace
<1>4. ASSUME ~recouvrement, deplace # "branches" PROVE <<n, k>> \in SansCycle(t)
  <2>1. CASE k.parent = Nul
      BY <1>1, <2>1, SansCycleMoins
  <2>2. CASE k.parent # Nul
    <3>1. k.parent \in L
        BY <2>2 DEF Racine, SousParent
    <3>2. ASSUME NEW x \in Noeuds, NEW l \in t[x] PROVE l.parent # n
      <4>1. Racine(x, l) \/ SousParent(t, x, l)
          BY <1>4 DEF InvNoeuds, CheminsSurs, CheminsBons
      <4>2. Nul \notin Noeuds
          BY NoeudAssumption
      <4> QED  BY <4>1, <4>2 DEF Racine, SousParent
    <3>3. \A x \in Noeuds : P[x] \subseteq L
      <4>1. \A x \in Noeuds : \A l \in t[x] : l.parent \in Noeuds \union {Nul}
          BY <1>1 DEF Table1, NoeudRow
      <4>2. \A x \in Noeuds : P[x] = {l.parent : l \in t[x]} \ {Nul}
          BY DEF AscendantsDe
      <4> QED  BY <3>2, <4>1, <4>2
    <3>4. Close(P, L)
        BY <3>3 DEF Close
    <3> QED  BY <1>1, <3>1, <3>4, SansCycleSous
  <2> QED  BY <2>1, <2>2
<1> QED  BY <1>1, <1>2, <1>3, <1>4, NoeudTraiter

(* A move: the guard on the children, and on the paths.                    *)
LEMMA NoeudDeplace ==
    ASSUME Socle, InvNoeuds, NEW r \in Requetes, NEW n \in Noeuds, NEW l \in noeuds[n],
           NEW k \in NoeudRow,
           Traiter(r, "noeud", noeuds, n, k, "BRANCH_REATTACHED"),
           UNCHANGED <<noeuds, niveaux, deplace>>, Deplacable(n),
           \/ Racine(n, k)
           \/ SousParent(noeuds, n, k) /\ \E p \in noeuds[k.parent] : ~wouldCreateCycle(l.chemin, p.chemin)
    PROVE  InvNoeuds'
<1> DEFINE t == noeuds
           P == AscendantsDe(t)
           L == {x \in Noeuds : \A a \in t[x] : ~Prefixe(l.chemin, a.chemin)}
<1>1. Table1(t, Noeuds, NoeudRow) /\ <<n, k>> \in CheminsBons(t)
      BY DEF InvNoeuds, CheminsBons
<1>2. /\ \A x \in Noeuds : t[x] \subseteq NoeudRow /\ \A a, b \in t[x] : a = b
      /\ \A a \in NoeudRow : a.chemin \in Seq(Noeuds) /\ a.parent \in Noeuds \union {Nul}
      BY <1>1 DEF Table1, NoeudRow
<1>3. <<n, k>> \in Protegees(t)
      BY DeplacableProtege DEF Protegees
<1>4. ASSUME ~recouvrement, deplace # "branches" PROVE <<n, k>> \in SansCycle(t)
  <2>1. CASE Racine(n, k)
      BY <1>1, <2>1, SansCycleMoins DEF Racine
  <2>2. CASE ~Racine(n, k)
    <3>1. k.parent \in Noeuds /\ \E p \in t[k.parent] : ~Prefixe(l.chemin, p.chemin)
        BY <2>2 DEF SousParent, wouldCreateCycle
    <3>2. k.parent \in L
        BY <1>2, <3>1
    <3>3. n \notin L
        BY <1>2, PrefixeEgal
    <3>4. ASSUME NEW x \in L, NEW a \in t[x], a.parent # Nul PROVE a.parent \in L
      <4>1. Racine(x, a) \/ SousParent(t, x, a)
          BY <1>4 DEF InvNoeuds, CheminsSurs, CheminsBons
      <4>2. a.parent \in Noeuds /\ \E p \in t[a.parent] : a.chemin = Append(p.chemin, x)
          BY <3>4, <4>1 DEF Racine, SousParent
      <4>3. PICK p \in t[a.parent] : a.chemin = Append(p.chemin, x)
          BY <4>2
      <4>4. l.chemin \in Seq(Noeuds) /\ p.chemin \in Seq(Noeuds)
          BY <1>2, <4>2
      <4>5. ~Prefixe(l.chemin, a.chemin)
          BY <3>4
      <4>6. ~Prefixe(l.chemin, p.chemin)
          BY <4>3, <4>4, <4>5, PrefixeSuite
      <4> QED  BY <1>2, <4>2, <4>6
    <3>5. \A x \in L : P[x] \subseteq L
      <4>1. \A x \in Noeuds : P[x] = {a.parent : a \in t[x]} \ {Nul}
          BY DEF AscendantsDe
      <4>2. L \subseteq Noeuds
          OBVIOUS
      <4> HIDE DEF L, P
      <4> SUFFICES ASSUME NEW x \in L, NEW y \in P[x] PROVE y \in L
          OBVIOUS
      <4>3. PICK a \in t[x] : a.parent = y /\ y # Nul
          BY <4>1, <4>2
      <4> QED  BY <3>4, <4>3
    <3>6. Close(P, L)
        BY <3>5 DEF Close
    <3> HIDE DEF L
    <3> QED  BY <1>1, <3>2, <3>3, <3>6, SansCycleSous
  <2> QED  BY <2>1, <2>2
<1> QED  BY <1>1, <1>3, <1>4, NoeudTraiter

(* The use-cases of the hierarchy.                                         *)
LEMMA NoeudCree ==
    ASSUME Socle, InvNoeuds, NEW r \in Requetes, NEW n \in Noeuds, NEW b \in BOOLEAN,
           UNCHANGED <<noeuds, niveaux, deplace>>,
           \/ \E p \in Pays : CreateNoeudRacine(r, n, p, b)
           \/ \E m \in Noeuds : CreateNoeudEnfant(r, n, m, b)
    PROVE  InvNoeuds'
<1>1. ASSUME NEW p \in Pays, CreateNoeudRacine(r, n, p, b) PROVE InvNoeuds'
  <2> DEFINE k == createRoot(n, p, b)
  <2>1. /\ noeuds[n] = {} /\ niveaux[<<p, 1>>] # {}
        /\ Traiter(r, "noeud", noeuds, n, k, "ADMINISTRATIVE_HIERARCHY_NODE_CREATED")
      BY <1>1 DEF CreateNoeudRacine, Neuf, assertNiveauDefini, findByPaysAndRang
  <2>2. k \in NoeudRow /\ k.pays = p /\ k.rang = 1 /\ Racine(n, k)
      BY DEF createRoot, NoeudRow, Racine, Statuts
  <2> HIDE DEF k
  <2> QED  BY <2>1, <2>2, NoeudNouveau
<1>2. ASSUME NEW m \in Noeuds, CreateNoeudEnfant(r, n, m, b) PROVE InvNoeuds'
  <2>1. PICK p \in noeuds[m] :
            /\ niveaux[<<p.pays, p.rang + 1>>] # {}
            /\ Traiter(r, "noeud", noeuds, n, createChild(n, m, p, b), "ADMINISTRATIVE_HIERARCHY_NODE_CREATED")
      BY <1>2 DEF CreateNoeudEnfant, assertNiveauDefini, findByPaysAndRang
  <2>2. noeuds[n] = {} /\ m # n /\ p \in NoeudRow
      BY <1>2, <2>1 DEF CreateNoeudEnfant, Neuf, InvNoeuds, Table1
  <2> DEFINE k == createChild(n, m, p, b)
  <2>3. /\ k \in NoeudRow /\ k.pays = p.pays /\ k.rang = p.rang + 1 /\ k.parent = m
        /\ k.chemin = Append(p.chemin, n)
      BY <2>2 DEF createChild, NoeudRow, Statuts
  <2>4. Traiter(r, "noeud", noeuds, n, k, "ADMINISTRATIVE_HIERARCHY_NODE_CREATED")
      BY <2>1
  <2> HIDE DEF k
  <2>5. SousParent(noeuds, n, k)
      BY <2>1, <2>2, <2>3 DEF SousParent
  <2> QED  BY <2>1, <2>2, <2>3, <2>4, <2>5, NoeudNouveau
<1> QED  BY <1>1, <1>2

LEMMA NoeudModifie ==
    ASSUME Socle, InvNoeuds, NEW r \in Requetes, NEW n \in Noeuds,
           UNCHANGED <<noeuds, niveaux, deplace>>,
           \/ UpdateNoeud(r, n) \/ \E s \in Statuts : TransitionNoeud(r, n, s)
           \/ DeactivateNoeud(r, n) \/ ReactivateNoeud(r, n)
    PROVE  InvNoeuds'
<1>1. \A l \in noeuds[n] : l \in NoeudRow
      BY DEF InvNoeuds, Table1
<1>2. CASE UpdateNoeud(r, n)
  <2>1. PICK l \in noeuds[n] : Traiter(r, "noeud", noeuds, n, l, Nul)
      BY <1>2 DEF UpdateNoeud
  <2> QED  BY <1>1, <2>1, NoeudGarde DEF Garde
<1>3. ASSUME NEW s \in Statuts, TransitionNoeud(r, n, s) PROVE InvNoeuds'
  <2>1. PICK l, type :
            l \in noeuds[n] /\ Traiter(r, "noeud", noeuds, n, [l EXCEPT !.statut = s], type)
      BY <1>3 DEF TransitionNoeud
  <2> DEFINE k == [l EXCEPT !.statut = s]
  <2>2. k \in NoeudRow /\ Garde(k, l) /\ k.actif = l.actif
      BY <1>1, <2>1 DEF NoeudRow, Garde
  <2>3. Traiter(r, "noeud", noeuds, n, k, type)
      BY <2>1
  <2> HIDE DEF k
  <2> QED  BY <2>1, <2>2, <2>3, NoeudGarde
<1>4. CASE DeactivateNoeud(r, n)
  <2>1. PICK l \in noeuds[n] :
            Traiter(r, "noeud", noeuds, n, [l EXCEPT !.actif = FALSE], "ADMINISTRATIVE_NODE_DEACTIVATED")
      BY <1>4 DEF DeactivateNoeud
  <2> DEFINE k == [l EXCEPT !.actif = FALSE]
  <2>2. k \in NoeudRow /\ Garde(k, l)
      BY <1>1 DEF NoeudRow, Garde
  <2>3. Traiter(r, "noeud", noeuds, n, k, "ADMINISTRATIVE_NODE_DEACTIVATED")
      BY <2>1
  <2> HIDE DEF k
  <2> QED  BY <1>4, <2>2, <2>3, NoeudGarde DEF DeactivateNoeud
<1>5. CASE ReactivateNoeud(r, n)
  <2>1. PICK l \in noeuds[n] : Traiter(r, "noeud", noeuds, n, [l EXCEPT !.actif = TRUE], Nul)
      BY <1>5 DEF ReactivateNoeud
  <2> DEFINE k == [l EXCEPT !.actif = TRUE]
  <2>2. k \in NoeudRow /\ Garde(k, l) /\ k.actif = TRUE
      BY <1>1 DEF NoeudRow, Garde
  <2>3. Traiter(r, "noeud", noeuds, n, k, Nul)
      BY <2>1
  <2> HIDE DEF k
  <2> QED  BY <2>2, <2>3, NoeudGarde
<1> QED  BY <1>2, <1>3, <1>4, <1>5

Deplacee(l, m, c, g) == [l EXCEPT !.parent = m, !.chemin = c, !.rang = g]

LEMMA LigneDeplacee ==
    ASSUME NEW l \in NoeudRow, NEW m \in Noeuds \union {Nul}, NEW c \in Seq(Noeuds), NEW g \in Nat,
           NEW k, k = Deplacee(l, m, c, g)
    PROVE  k \in NoeudRow /\ k.parent = m /\ k.chemin = c /\ k.rang = g /\ k.pays = l.pays
<1>1. /\ DOMAIN l = {"pays", "parent", "chemin", "rang", "terminal", "actif", "statut"}
      /\ l.pays \in Pays /\ l.terminal \in BOOLEAN /\ l.actif \in BOOLEAN /\ l.statut \in Statuts
      BY DEF NoeudRow
<1>2. k = [pays |-> l.pays, parent |-> m, chemin |-> c, rang |-> g,
           terminal |-> l.terminal, actif |-> l.actif, statut |-> l.statut]
      BY <1>1 DEF NoeudRow, Deplacee
<1>3. k \in NoeudRow
      BY <1>1, <1>2 DEF NoeudRow
<1> QED  BY <1>2, <1>3

LEMMA NoeudRattache ==
    ASSUME Socle, InvNoeuds, NEW r \in Requetes, NEW n \in Noeuds,
           UNCHANGED <<noeuds, niveaux, deplace>>,
           ReattachNoeudRacine(r, n) \/ \E m \in Noeuds : ReattachNoeud(r, n, m)
    PROVE  InvNoeuds'
<1>1. /\ \A x \in Noeuds : \A l \in noeuds[x] : l \in NoeudRow
      /\ \A x \in Noeuds : \A l, m \in noeuds[x] : l = m
      BY DEF InvNoeuds, Table1
<1>2. CASE ReattachNoeudRacine(r, n)
  <2>1. PICK l \in noeuds[n] :
            Traiter(r, "noeud", noeuds, n, reattachToRoot(n, l), "BRANCH_REATTACHED")
      BY <1>2 DEF ReattachNoeudRacine
  <2> DEFINE k == reattachToRoot(n, l)
  <2>2. k \in NoeudRow /\ Racine(n, k)
    <3> DEFINE c == <<n>>
               g == 1
    <3>1. l \in NoeudRow /\ c \in Seq(Noeuds) /\ g \in Nat
        BY <1>1
    <3>2. k = Deplacee(l, Nul, c, g)
        BY DEF reattachToRoot, Deplacee
    <3> HIDE DEF k, c, g
    <3>3. Nul \in Noeuds \union {Nul}
        OBVIOUS
    <3>4. k \in NoeudRow /\ k.parent = Nul /\ k.chemin = c /\ k.rang = g
        BY <3>1, <3>2, <3>3, LigneDeplacee
    <3> QED  BY <3>4 DEF Racine, c, g
  <2>3. Traiter(r, "noeud", noeuds, n, k, "BRANCH_REATTACHED") /\ Deplacable(n)
      BY <1>2, <2>1 DEF ReattachNoeudRacine
  <2> HIDE DEF k
  <2> QED  BY <2>2, <2>3, NoeudDeplace
<1>3. ASSUME NEW m \in Noeuds, ReattachNoeud(r, n, m) PROVE InvNoeuds'
  <2>1. PICK l \in noeuds[n], p \in noeuds[m] :
            /\ ~wouldCreateCycle(l.chemin, p.chemin)
            /\ p.pays = l.pays
            /\ Traiter(r, "noeud", noeuds, n, reattachToParent(n, l, m, p), "BRANCH_REATTACHED")
      BY <1>3 DEF ReattachNoeud
  <2> DEFINE k == reattachToParent(n, l, m, p)
  <2>2. l \in NoeudRow /\ p \in NoeudRow
      BY <1>1
  <2>3. /\ k \in NoeudRow /\ k.parent = m /\ k.rang = p.rang + 1 /\ k.chemin = Append(p.chemin, n)
        /\ k.pays = p.pays
    <3> DEFINE c == Append(p.chemin, n)
               g == p.rang + 1
    <3>1. c \in Seq(Noeuds) /\ g \in Nat
        BY <2>2 DEF NoeudRow
    <3>2. k = Deplacee(l, m, c, g)
        BY DEF reattachToParent, Deplacee
    <3> HIDE DEF k, c, g
    <3>3. m \in Noeuds \union {Nul} /\ l \in NoeudRow
        BY <2>2
    <3>4. k \in NoeudRow /\ k.parent = m /\ k.chemin = c /\ k.rang = g /\ k.pays = l.pays
        BY <3>1, <3>2, <3>3, LigneDeplacee
    <3> QED  BY <2>1, <3>4 DEF c, g
  <2>4. Traiter(r, "noeud", noeuds, n, k, "BRANCH_REATTACHED") /\ Deplacable(n)
      BY <1>3, <2>1 DEF ReattachNoeud
  <2> HIDE DEF k
  <2>5. m # n
    <3>1. l.chemin \in Seq(Noeuds)
        BY <2>2 DEF NoeudRow
    <3> QED  BY <1>1, <2>1, <3>1, PrefixeEgal DEF wouldCreateCycle
  <2>6. SousParent(noeuds, n, k) /\ \E x \in noeuds[k.parent] : ~wouldCreateCycle(l.chemin, x.chemin)
      BY <2>1, <2>3, <2>5 DEF SousParent
  <2> QED  BY <2>3, <2>4, <2>6, NoeudDeplace
<1> QED  BY <1>2, <1>3

(* The commit.  What it knows, when no request has overlapped another, of  *)
(* the one row that it writes.                                             *)
NoeudEcrit(r, q, t, t2) ==
    /\ requete[r] = {q} /\ q.id \in Noeuds /\ q.ligne \in NoeudRow
    /\ t2[q.id] = {q.ligne}
    /\ \A n \in Noeuds : n # q.id => t2[n] = t[n]

LEMMA NoeudValide ==
    ASSUME Socle, InvNoeuds, NEW r \in Requetes, commitNoeud(r), ~recouvrement'
    PROVE  /\ ~recouvrement
           /\ \E q \in requete[r] :
                 /\ NoeudEcrit(r, q, noeuds, noeuds')
                 /\ <<q.id, q.ligne>> \in Protegees(noeuds)
                 /\ deplace # "branches" =>
                       /\ <<q.id, q.ligne>> \in CheminsBons(noeuds)
                       /\ <<q.id, q.ligne>> \in SansCycle(noeuds)
                       /\ q.type # "BRANCH_REATTACHED" => EnPlace(noeuds, niveaux, q.id, q.ligne)
<1> DEFINE t == noeuds
           t2 == ApresTout(r, t)
<1>1. /\ ReqOK(requete) /\ Table1(t, Noeuds, NoeudRow) /\ Colonnes(NoeudRow)
      /\ Valider(r, "noeud", t) /\ Terminer(r) /\ noeuds' = t2
      BY NoeudColonnes DEF Socle, InvNoeuds, commitNoeud, Valider
<1>2. ~recouvrement /\ \A p \in requete[r] : ~p.depasse
      BY <1>1, TerminerFinit
<1>3. ASSUME NEW B, Suivi(requete, "noeud", t, ToutNoeud, B)
      PROVE  \E q \in requete[r] :
                 /\ q.id \in Noeuds /\ q.ligne \in NoeudRow /\ AJour(q, t, B)
                 /\ requete[r] = {q} /\ q.table = "noeud"
                 /\ t2[q.id] = {q.ligne}
                 /\ \A i \in Noeuds : i # q.id => t2[i] = t[i]
      BY <1>1, <1>3, ValiderCopie DEF ToutNoeud
<1>4. PICK q \in requete[r] : NoeudEcrit(r, q, t, t2) /\ q.table = "noeud"
      BY <1>3 DEF InvNoeuds, NoeudEcrit
<1>5. \A B : Suivi(requete, "noeud", t, ToutNoeud, B) => <<q.id, q.ligne>> \in B
  <2> SUFFICES ASSUME NEW B, Suivi(requete, "noeud", t, ToutNoeud, B) PROVE <<q.id, q.ligne>> \in B
      OBVIOUS
  <2>1. PICK p \in requete[r] : AJour(p, t, B) /\ requete[r] = {p}
      BY <1>3
  <2>2. p = q
      BY <2>1
  <2> QED  BY <2>1, <2>2 DEF AJour
<1> HIDE DEF t2
<1>6. <<q.id, q.ligne>> \in Protegees(t)
      BY <1>2, <1>5 DEF InvNoeuds
<1>7. ASSUME deplace # "branches"
      PROVE  /\ <<q.id, q.ligne>> \in CheminsBons(t) /\ <<q.id, q.ligne>> \in SansCycle(t)
             /\ q.type # "BRANCH_REATTACHED" => EnPlace(t, niveaux, q.id, q.ligne)
  <2>1. q.depasse = FALSE
    <3>1. q.depasse \in BOOLEAN /\ ~q.depasse
        BY <1>1, <1>2 DEF ReqOK, EcritureOK
    <3> QED  BY <3>1, Zenon
  <2>2. SansDeplacement(requete, t, niveaux)
      BY <1>2, <1>7 DEF InvNoeuds
  <2> QED  BY <1>2, <1>4, <1>5, <1>7, <2>1, <2>2 DEF InvNoeuds, SansDeplacement
<1> QED  BY <1>1, <1>2, <1>4, <1>6, <1>7

(* What a commit tells of the moves.                                       *)
LEMMA NoeudDeplacement ==
    ASSUME NEW r, Deplacement(r), deplace' # "branches"
    PROVE  /\ deplace # "branches"
           /\ deplace' = "rien" => deplace = "rien" /\ \A p \in requete[r] : p.type # "BRANCH_REATTACHED"
           /\ \A p \in requete[r] : p.type # "BRANCH_REATTACHED" \/ findChildren(p.id) = {}
BY DEF Deplacement

LEMMA NoeudCommit ==
    ASSUME Socle, InvNoeuds, NEW r \in Requetes, commitNoeud(r)
    PROVE  InvNoeuds'
<1> DEFINE t == noeuds
           t2 == ApresTout(r, t)
<1>1. /\ ReqOK(requete) /\ Table1(t, Noeuds, NoeudRow) /\ Colonnes(NoeudRow)
      /\ Suivi(requete, "noeud", t, ToutNoeud, ToutNoeud)
      /\ Valider(r, "noeud", t) /\ Terminer(r) /\ noeuds' = t2 /\ UNCHANGED niveaux
      BY NoeudColonnes DEF Socle, InvNoeuds, commitNoeud, Valider
<1>2. Table1(t2, Noeuds, NoeudRow)
      BY <1>1, ValiderTable DEF ToutNoeud
<1>3. \A B : Suivi(requete', "noeud", t2, ToutNoeud, B)
      BY <1>1, SuiviTerminer
<1>4. \A niv : SansDeplacement(requete', t2, niv)
  <2>1. \A s \in Requetes : \A p \in requete'[s] : p.depasse = TRUE
      BY <1>1, TerminerFinit, FraisFinit
  <2> QED  BY <2>1 DEF SansDeplacement
<1> HIDE DEF t2
<1>5. ASSUME ~recouvrement', deplace' # "branches"
      PROVE  CheminsSurs(t2, niveaux, deplace')
  <2>1. /\ deplace # "branches"
        /\ deplace' = "rien" => deplace = "rien" /\ \A p \in requete[r] : p.type # "BRANCH_REATTACHED"
        /\ \A p \in requete[r] : p.type # "BRANCH_REATTACHED" \/ findChildren(p.id) = {}
      BY <1>5, NoeudDeplacement DEF commitNoeud
  <2>2. ~recouvrement /\ CheminsSurs(t, niveaux, deplace)
      BY <1>5, <2>1, NoeudValide DEF InvNoeuds
  <2>3. PICK q \in requete[r] :
            /\ NoeudEcrit(r, q, t, t2)
            /\ <<q.id, q.ligne>> \in CheminsBons(t)
            /\ q.type # "BRANCH_REATTACHED" => EnPlace(t, niveaux, q.id, q.ligne)
      BY <1>1, <1>5, <2>1, NoeudValide
  <2> DEFINE i == q.id
             k == q.ligne
  <2>4. /\ i \in Noeuds /\ k \in NoeudRow /\ t2[i] = {k}
        /\ \A n \in Noeuds : n # i => t2[n] = t[n]
      BY <2>3 DEF NoeudEcrit
  <2>5. /\ \A n \in Noeuds : \A l \in t[n] : l \in NoeudRow
        /\ \A n \in Noeuds : \A l, m \in t[n] : l = m
      BY <1>1 DEF Table1
  <2>6. Len(k.chemin) <= MaxChemin
      BY <2>3 DEF commitNoeud, CheminAdmis
  <2>7. Racine(i, k) \/ SousParent(t, i, k)
      BY <2>3 DEF CheminsBons
  <2>8. <<i, k>> \in CheminsBons(t2) /\ k.rang = Len(k.chemin) /\ k.rang <= MaxChemin
    <3>1. CASE Racine(i, k)
        BY <2>4, <2>6, <3>1 DEF Racine, CheminsBons
    <3>2. CASE SousParent(t, i, k)
      <4>1. PICK m \in Noeuds : /\ k.parent = m /\ m # i
                                /\ \E p \in t[m] : k.chemin = Append(p.chemin, i) /\ k.rang = p.rang + 1 /\ k.pays = p.pays
          BY <3>2 DEF SousParent
      <4>2. PICK p \in t[m] : k.chemin = Append(p.chemin, i) /\ k.rang = p.rang + 1 /\ k.pays = p.pays
          BY <4>1
      <4>3. p.rang = Len(p.chemin) /\ p.chemin \in Seq(Noeuds)
        <5>1. p \in NoeudRow
            BY <2>5
        <5> QED  BY <2>2, <5>1 DEF CheminsSurs, NoeudRow
      <4>4. k.rang = Len(k.chemin)
          BY <2>4, <4>2, <4>3
      <4>5. SousParent(t2, i, k)
          BY <2>4, <4>1, <4>2 DEF SousParent
      <4> QED  BY <2>4, <2>6, <4>4, <4>5 DEF CheminsBons
    <3> QED  BY <2>7, <3>1, <3>2
  <2>9. ASSUME deplace' = "rien" PROVE niveaux[<<k.pays, k.rang>>] # {}
    <3>1. deplace = "rien" /\ EnPlace(t, niveaux, i, k)
        BY <2>1, <2>3, <2>9
    <3>2. CASE t[i] = {}
        BY <3>1, <3>2 DEF EnPlace
    <3>3. ASSUME NEW l \in t[i] PROVE niveaux[<<k.pays, k.rang>>] # {}
      <4>1. k.pays = l.pays /\ k.rang = l.rang
          BY <3>1, <3>3 DEF EnPlace, Garde
      <4>2. niveaux[<<l.pays, l.rang>>] # {}
          BY <2>2, <2>4, <3>1 DEF CheminsSurs
      <4> QED  BY <4>1, <4>2
    <3> QED  BY <3>2, <3>3
  <2>10. ASSUME NEW n \in Noeuds, n # i, NEW l \in t[n]
         PROVE  <<n, l>> \in CheminsBons(t2)
    <3>1. l \in NoeudRow /\ (Racine(n, l) \/ SousParent(t, n, l))
        BY <2>2, <2>5 DEF CheminsSurs, CheminsBons
    <3>2. ASSUME SousParent(t, n, l) PROVE SousParent(t2, n, l)
      <4>1. PICK m \in Noeuds : /\ l.parent = m /\ m # n
                                /\ \E p \in t[m] : l.chemin = Append(p.chemin, n) /\ l.rang = p.rang + 1 /\ l.pays = p.pays
          BY <3>2 DEF SousParent
      <4>2. PICK p \in t[m] : l.chemin = Append(p.chemin, n) /\ l.rang = p.rang + 1 /\ l.pays = p.pays
          BY <4>1
      <4>3. CASE m # i
          BY <2>4, <4>1, <4>2, <4>3 DEF SousParent
      <4>4. CASE m = i
        <5>1. n \in findChildren(i)
            BY <4>1, <4>4 DEF findChildren
        <5>2. EnPlace(t, niveaux, i, k) /\ t[i] # {}
            BY <2>1, <2>3, <4>2, <4>4, <5>1
        <5>3. k.chemin = p.chemin /\ k.rang = p.rang /\ k.pays = p.pays
            BY <4>4, <5>2 DEF EnPlace, Garde
        <5> QED  BY <2>4, <4>1, <4>2, <4>4, <5>3 DEF SousParent
      <4> QED  BY <4>3, <4>4
    <3> QED  BY <3>1, <3>2 DEF CheminsBons
  <2>11. ASSUME NEW n \in Noeuds, NEW l \in t2[n]
         PROVE  /\ <<n, l>> \in CheminsBons(t2) /\ l.rang = Len(l.chemin) /\ l.rang <= MaxChemin
                /\ deplace' = "rien" => niveaux[<<l.pays, l.rang>>] # {}
    <3>1. CASE n = i
        BY <2>4, <2>8, <2>9, <3>1
    <3>2. CASE n # i
      <4>1. l \in t[n] /\ (deplace' = "rien" => deplace = "rien")
          BY <2>1, <2>4, <3>2
      <4> QED  BY <2>2, <2>10, <3>2, <4>1 DEF CheminsSurs
    <3> QED  BY <3>1, <3>2
  <2> QED  BY <2>11 DEF CheminsSurs
<1> QED  BY <1>1, <1>2, <1>3, <1>4, <1>5 DEF InvNoeuds

LEMMA HorsEngine ==
    ASSUME Socle, [Next]_vars, ~EngineNext
    PROVE  UNCHANGED engineVars /\ Ailleurs(TablesEngine)
<1> DEFINE T == TablesEngine
<1>1. /\ TablesCorpus \intersect T = {} /\ TablesOrg \intersect T = {}
      /\ TablesRegistre \intersect T = {} /\ TablesReferentiel \intersect T = {}
      /\ {"configuration"} \intersect T = {} /\ TablesCatalogue \intersect T = {}
      /\ TablesIdentite \intersect T = {} /\ {} \intersect T = {}
      BY DEF TablesOrg, TablesEngine, TablesCorpus, TablesRegistre, TablesReferentiel,
             TablesCatalogue, TablesIdentite
<1>2. UNCHANGED engineVars
      BY NextContextes DEF CorpusNext, RegistreNext, OrgNext, ReferentielNext, ConfigNext,
             CatalogueNext, IdentiteNext, Refus, metierVars
<1>3. UNCHANGED <<requete, recouvrement>> \/ \E S : Acte(S) /\ S \intersect T = {}
  <2> HIDE DEF T
  <2>1. UNCHANGED <<uniteVars, metierVars>> => UNCHANGED <<requete, recouvrement>>
      BY DEF uniteVars
  <2> QED  BY Contextes, <1>1, <2>1
<1> QED  BY <1>2, <1>3 DEF Ailleurs

LEMMA NoeudSave ==
    ASSUME Socle, InvNoeuds, NEW r \in Requetes, save(r, "noeud", noeuds),
           UNCHANGED <<noeuds, niveaux, deplace>>
    PROVE  InvNoeuds'
<1>1. ReqOK(requete) /\ UNCHANGED recouvrement
      BY DEF Socle, save
<1>2. \A B : Suivi(requete, "noeud", noeuds, ToutNoeud, B)
             => Suivi(requete', "noeud", noeuds, ToutNoeud, B)
      BY <1>1, SuiviSave
<1>3. Frais(requete, requete', {})
      BY <1>1, saveSauve, FraisSauve
<1>4. SansDeplacement(requete, noeuds, niveaux) => SansDeplacement(requete', noeuds, niveaux)
      BY <1>3, SansDeplacementFrais
<1> QED  BY <1>1, <1>2, <1>4 DEF InvNoeuds

(* A read of the engine is one of the nodes, or prepares no write to them. *)
LEMMA EngineLecture ==
    ASSUME NEW r \in Requetes, Arbre(r) \/ Publication(r) \/ Revision(r) \/ Rattachement(r) \/ Reglementation(r)
    PROVE  \/ \E n \in Noeuds :
                 \/ \E b \in BOOLEAN : \/ \E p \in Pays : CreateNoeudRacine(r, n, p, b)
                                       \/ \E m \in Noeuds : CreateNoeudEnfant(r, n, m, b)
                 \/ UpdateNoeud(r, n) \/ \E s \in Statuts : TransitionNoeud(r, n, s)
                 \/ DeactivateNoeud(r, n) \/ ReactivateNoeud(r, n)
                 \/ ReattachNoeudRacine(r, n) \/ \E m \in Noeuds : ReattachNoeud(r, n, m)
           \/ Acte({"niveau", "regle", "ville"})
<1> DEFINE T == {"niveau", "regle", "ville"}
<1>1. "niveau" \in T /\ "regle" \in T /\ "ville" \in T
      OBVIOUS
<1>2. {n1, n2, n3, n4} \subseteq Noeuds
      BY NoyauAssumption
<1> HIDE DEF T
<1>3. CASE Arbre(r)
      BY <1>2, <1>3 DEF Arbre
<1>4. CASE Publication(r)
  <2>1. ASSUME NEW v \in Villes, NEW n, CreateVille(r, v, n) \/ MoveVille(r, v, n) PROVE Acte(T)
      BY <1>1, <2>1, TraiterActe DEF CreateVille, MoveVille
  <2> QED  BY <1>2, <1>4, <2>1 DEF Publication, T
<1>5. CASE Revision(r)
  <2>1. ASSUME NEW k, CreateNiveau(r, p1, k) PROVE Acte(T)
      BY <1>1, <2>1, TraiterActe DEF CreateNiveau
  <2> QED  BY <1>2, <1>5, <2>1 DEF Revision, T
<1>6. CASE Rattachement(r)
  <2>1. Acte(T)
      BY <1>1, <1>6, TraiterActe DEF Rattachement, CreateVille, MoveVille, SetVilleActivation
  <2> QED  BY <2>1 DEF T
<1>7. CASE Reglementation(r)
  <2>1. Acte(T)
      BY <1>1, <1>7, TraiterActe
         DEF Reglementation, CreateReferentielRegle, UpdateReferentielRegle, TransitionRegle,
             SetRegleActivation
  <2> QED  BY <2>1 DEF T
<1> QED  BY <1>3, <1>4, <1>5, <1>6, <1>7

LEMMA NoeudEtape ==
    Socle /\ InvNoeuds /\ [Next]_vars => InvNoeuds'
<1> SUFFICES ASSUME Socle, InvNoeuds, [Next]_vars PROVE InvNoeuds'
    OBVIOUS
<1>1. ASSUME NEW T, Acte(T), T \subseteq {"niveau", "regle", "ville"}, UNCHANGED <<noeuds, niveaux, deplace>>
      PROVE  InvNoeuds'
      BY <1>1, NoeudsHors DEF Ailleurs
<1>2. CASE ~EngineNext
  <2>1. UNCHANGED <<noeuds, niveaux, deplace>> /\ Ailleurs({"noeud"})
      BY <1>2, HorsEngine DEF engineVars, tablesEngine, Ailleurs, TablesEngine
  <2> QED  BY <2>1, NoeudsHors
<1>3. CASE EngineNext
  <2>1. ASSUME NEW r \in Requetes,
               Arbre(r) \/ Publication(r) \/ Revision(r) \/ Rattachement(r) \/ Reglementation(r),
               UNCHANGED <<tablesEngine, deplace>>
        PROVE  InvNoeuds'
    <3>1. UNCHANGED <<noeuds, niveaux, deplace>>
        BY <2>1 DEF tablesEngine
    <3>2. CASE Acte({"niveau", "regle", "ville"})
        BY <1>1, <3>1, <3>2
    <3>3. ASSUME NEW n \in Noeuds, NEW b \in BOOLEAN,
                 \/ \E p \in Pays : CreateNoeudRacine(r, n, p, b)
                 \/ \E m \in Noeuds : CreateNoeudEnfant(r, n, m, b)
          PROVE  InvNoeuds'
        BY <3>1, <3>3, NoeudCree
    <3>4. ASSUME NEW n \in Noeuds,
                 \/ UpdateNoeud(r, n) \/ \E s \in Statuts : TransitionNoeud(r, n, s)
                 \/ DeactivateNoeud(r, n) \/ ReactivateNoeud(r, n)
          PROVE  InvNoeuds'
        BY <3>1, <3>4, NoeudModifie
    <3>5. ASSUME NEW n \in Noeuds, ReattachNoeudRacine(r, n) \/ \E m \in Noeuds : ReattachNoeud(r, n, m)
          PROVE  InvNoeuds'
        BY <3>1, <3>5, NoeudRattache
    <3> QED  BY <2>1, EngineLecture, <3>2, <3>3, <3>4, <3>5
  <2>2. ASSUME NEW r \in Requetes, saveEngine(r) PROVE InvNoeuds'
    <3>1. UNCHANGED <<noeuds, niveaux, deplace>>
        BY <2>2 DEF saveEngine, engineVars, tablesEngine
    <3>2. CASE save(r, "noeud", noeuds)
        BY <3>1, <3>2, NoeudSave
    <3>3. CASE save(r, "niveau", niveaux)
        BY <1>1, <3>1, <3>3, saveActe
    <3>4. CASE save(r, "regle", regles)
        BY <1>1, <3>1, <3>4, saveActe
    <3>5. CASE save(r, "ville", villes)
        BY <1>1, <3>1, <3>5, saveActe
    <3> QED  BY <2>2, <3>2, <3>3, <3>4, <3>5 DEF saveEngine
  <2>3. ASSUME NEW r \in Requetes, commitNiveau(r) PROVE InvNoeuds'
    <3>1. /\ Terminer(r) /\ UNCHANGED <<noeuds, deplace>> /\ niveaux' = ApresTout(r, niveaux)
          /\ DOMAIN niveaux = ToutNiveau
        BY <2>3 DEF commitNiveau, Valider, InvNoeuds
    <3>2. DOMAIN niveaux' = ToutNiveau
        BY <3>1 DEF ApresTout, ApresDe
    <3>3. \A k \in ToutNiveau : niveaux[k] # {} => niveaux'[k] # {}
        BY <3>1, ValiderReste
    <3> QED  BY <3>1, <3>2, <3>3, NoeudsAutreCommit
  <2>4. ASSUME NEW r \in Requetes, commitNoeud(r) PROVE InvNoeuds'
      BY <2>4, NoeudCommit
  <2>5. ASSUME NEW r \in Requetes, commitRegle(r) \/ commitVille(r) PROVE InvNoeuds'
    <3>1. Terminer(r) /\ UNCHANGED <<noeuds, niveaux, deplace>>
        BY <2>5 DEF commitRegle, commitVille, Valider
    <3> QED  BY <1>1, <3>1, TerminerActe
  <2>6. ASSUME NEW n, Compter(n) PROVE InvNoeuds'
    <3>1. UNCHANGED <<requete, recouvrement, noeuds, niveaux, deplace>>
        BY <2>6 DEF Compter, tablesEngine
    <3> QED  BY <3>1, NoeudsHors DEF Ailleurs
  <2> QED  BY <1>3, <2>1, <2>2, <2>3, <2>4, <2>5, <2>6 DEF EngineNext
<1> QED  BY <1>2, <1>3

LEMMA NoeudsDistincts ==
    /\ n1 # n2 /\ n1 # n3 /\ n1 # n4 /\ n2 # n3 /\ n2 # n4 /\ n3 # n4
    /\ n1 \in Noeuds /\ n2 \in Noeuds /\ n3 \in Noeuds /\ n4 \in Noeuds
<1>1. ASSUME NEW a, NEW b, NEW c, {n1, n2, n3, n4} = {a, b, c} PROVE FALSE
  <2>2. /\ IsFiniteSet({c}) /\ Cardinality({c}) \in Nat /\ Cardinality({c}) <= 1
    <3>1. IsFiniteSet({c}) /\ Cardinality({c}) = 1
        BY FS_Singleton
    <3> QED  BY <3>1
  <2>3. /\ IsFiniteSet({c} \union {b}) /\ Cardinality({c} \union {b}) \in Nat
        /\ Cardinality({c} \union {b}) <= 2
    <3> DEFINE S == {c}
    <3>1. IsFiniteSet(S) /\ Cardinality(S) \in Nat /\ Cardinality(S) <= 1
        BY <2>2
    <3> HIDE DEF S
    <3>2. /\ IsFiniteSet(S \union {b}) /\ Cardinality(S \union {b}) \in Nat
          /\ Cardinality(S \union {b}) <= 2
        BY <3>1, FS_AddElement
    <3> QED  BY <3>2 DEF S
  <2>4. Cardinality(({c} \union {b}) \union {a}) <= 3
    <3> DEFINE S == {c} \union {b}
    <3>1. IsFiniteSet(S) /\ Cardinality(S) \in Nat /\ Cardinality(S) <= 2
        BY <2>3
    <3> HIDE DEF S
    <3>2. Cardinality(S \union {a}) <= 3
        BY <3>1, FS_AddElement
    <3> QED  BY <3>2 DEF S
  <2>5. {a, b, c} = ({c} \union {b}) \union {a}
      OBVIOUS
  <2> QED  BY <1>1, <2>4, <2>5, NoyauAssumption
<1>2. CASE n1 = n2
      BY <1>1, <1>2
<1>3. CASE n1 = n3
      BY <1>1, <1>3
<1>4. CASE n1 = n4
      BY <1>1, <1>4
<1>5. CASE n2 = n3
      BY <1>1, <1>5
<1>6. CASE n2 = n4
      BY <1>1, <1>6
<1>7. CASE n3 = n4
      BY <1>1, <1>7
<1> QED  BY <1>2, <1>3, <1>4, <1>5, <1>6, <1>7, NoyauAssumption

AvecStatut(l, x) == [l EXCEPT !.statut = x]

LEMMA StatutDonne ==
    ASSUME NEW l \in NoeudRow, NEW x \in Statuts
    PROVE  AvecStatut(l, x) \in NoeudRow /\ Garde(AvecStatut(l, x), l)
BY DEF NoeudRow, Garde, AvecStatut

LEMMA NoeudInit == Init => InvNoeuds
<1> SUFFICES ASSUME Init PROVE InvNoeuds
    OBVIOUS
<1> DEFINE arbre == perimetre \in {"arbre", "publication"}
           f == NoeudsAuDepart
           s == IF perimetre = "arbre" THEN "brouillon" ELSE "publie"
           racine == [createRoot(n1, p1, FALSE) EXCEPT !.statut = s]
           enfant == [createChild(n2, n1, racine, TRUE) EXCEPT !.statut = s]
           feuille == [createChild(n3, n2, enfant, TRUE) EXCEPT !.statut = s]
           autre == createRoot(n4, p2, FALSE)
<1>1. /\ requete = [r \in Requetes |-> {}]
      /\ noeuds = Table(Noeuds, f)
      /\ niveaux = [k \in ToutNiveau |->
                      IF k[2] = 1 \/ k = <<p1, 2>> \/ (k = <<p1, 3>> /\ arbre)
                      THEN {[actif |-> TRUE]} ELSE {}]
      BY DEF Init, InitUnite, Demarrage, ToutNiveau
<1>2. p1 \in Pays /\ p2 \in Pays /\ MaxChemin \in Nat /\ MaxChemin >= 3
      BY NoyauAssumption, NoeudAssumption
<1>3. s \in Statuts
      BY DEF Statuts
<1> HIDE DEF s
<1>4. /\ racine \in NoeudRow /\ Racine(n1, racine) /\ racine.pays = p1 /\ racine.chemin = <<n1>>
  <2>1. createRoot(n1, p1, FALSE) \in NoeudRow
      BY <1>2, NoeudsDistincts DEF createRoot, NoeudRow, Statuts
  <2>2. racine = AvecStatut(createRoot(n1, p1, FALSE), s)
      BY DEF AvecStatut
  <2>3. racine \in NoeudRow /\ Garde(racine, createRoot(n1, p1, FALSE))
      BY <1>3, <2>1, <2>2, StatutDonne
  <2>4. Racine(n1, createRoot(n1, p1, FALSE)) /\ createRoot(n1, p1, FALSE).pays = p1
      BY DEF createRoot, Racine
  <2> HIDE DEF racine
  <2> QED  BY <2>3, <2>4 DEF Garde, Racine
<1> HIDE DEF racine
<1>5. /\ enfant \in NoeudRow /\ enfant.parent = n1 /\ enfant.chemin = Append(<<n1>>, n2)
      /\ enfant.rang = 2 /\ enfant.pays = p1
  <2>1. racine.rang = 1 /\ racine.chemin = <<n1>> /\ racine.pays = p1
      BY <1>4 DEF Racine
  <2> DEFINE e == createChild(n2, n1, racine, TRUE)
  <2>2. e = [pays |-> p1, parent |-> n1, chemin |-> Append(<<n1>>, n2), rang |-> 2,
             terminal |-> TRUE, actif |-> TRUE, statut |-> "brouillon"]
      BY <2>1 DEF createChild
  <2>3. enfant = AvecStatut(e, s)
      BY DEF AvecStatut
  <2> HIDE DEF e, enfant
  <2>4. Append(<<n1>>, n2) \in Seq(Noeuds)
      BY NoeudsDistincts
  <2>5. e \in NoeudRow
      BY <1>2, <2>2, <2>4, NoeudsDistincts DEF NoeudRow, Statuts
  <2>6. enfant \in NoeudRow /\ Garde(enfant, e)
      BY <1>3, <2>3, <2>5, StatutDonne
  <2> QED  BY <2>2, <2>6 DEF Garde
<1> HIDE DEF enfant
<1>6. /\ feuille \in NoeudRow /\ feuille.parent = n2 /\ feuille.chemin = Append(enfant.chemin, n3)
      /\ feuille.rang = 3 /\ feuille.pays = p1
  <2> DEFINE e == createChild(n3, n2, enfant, TRUE)
  <2>1. e = [pays |-> p1, parent |-> n2, chemin |-> Append(enfant.chemin, n3), rang |-> 3,
             terminal |-> TRUE, actif |-> TRUE, statut |-> "brouillon"]
      BY <1>5 DEF createChild
  <2>2. feuille = AvecStatut(e, s)
      BY DEF AvecStatut
  <2> HIDE DEF e, feuille
  <2>3. Append(enfant.chemin, n3) \in Seq(Noeuds)
    <3>1. enfant.chemin \in Seq(Noeuds)
        BY <1>5 DEF NoeudRow
    <3> QED  BY <3>1, NoeudsDistincts
  <2>4. e \in NoeudRow
      BY <1>2, <2>1, <2>3, NoeudsDistincts DEF NoeudRow, Statuts
  <2>5. feuille \in NoeudRow /\ Garde(feuille, e)
      BY <1>3, <2>2, <2>4, StatutDonne
  <2> QED  BY <2>1, <2>5 DEF Garde
<1>7. /\ autre \in NoeudRow /\ Racine(n4, autre) /\ autre.pays = p2
      BY <1>2, NoeudsDistincts DEF createRoot, NoeudRow, Statuts, Racine
<1>8. f = [n \in {n1, n2, n4} \union (IF arbre THEN {n3} ELSE {}) |->
              CASE n = n1 -> racine [] n = n2 -> enfant [] n = n3 -> feuille [] n = n4 -> autre]
      BY DEF NoeudsAuDepart, racine, enfant, feuille, s
<1> HIDE DEF f, feuille, autre, arbre
<1>9. /\ DOMAIN f = {n1, n2, n4} \union (IF arbre THEN {n3} ELSE {})
      /\ f[n1] = racine /\ f[n2] = enfant /\ f[n4] = autre /\ (arbre => f[n3] = feuille)
      BY <1>8, NoeudsDistincts
<1>10. Table1(noeuds, Noeuds, NoeudRow)
      BY <1>1, <1>4, <1>5, <1>6, <1>7, <1>9, TableDepart
<1>11. /\ noeuds[n1] = {racine} /\ noeuds[n2] = {enfant} /\ noeuds[n4] = {autre}
       /\ noeuds[n3] = IF arbre THEN {feuille} ELSE {}
       /\ \A n \in Noeuds : n \notin {n1, n2, n3, n4} => noeuds[n] = {}
      BY <1>1, <1>9, NoeudsDistincts DEF Table
<1>12. /\ niveaux[<<p1, 1>>] # {} /\ niveaux[<<p2, 1>>] # {} /\ niveaux[<<p1, 2>>] # {}
       /\ arbre => niveaux[<<p1, 3>>] # {}
  <2>1. \A k \in {<<p1, 1>>, <<p2, 1>>, <<p1, 2>>, <<p1, 3>>} : k \in ToutNiveau
      BY <1>2 DEF ToutNiveau
  <2> QED  BY <1>1, <2>1
<1>13. CheminsSurs(noeuds, niveaux, deplace)
  <2> DEFINE Bon(n, l) ==
          /\ <<n, l>> \in CheminsBons(noeuds) /\ l.rang = Len(l.chemin) /\ l.rang <= MaxChemin
          /\ deplace = "rien" => niveaux[<<l.pays, l.rang>>] # {}
  <2>1. Bon(n1, racine)
      BY <1>2, <1>4, <1>12, NoeudsDistincts DEF Racine, CheminsBons
  <2>2. Bon(n4, autre)
      BY <1>2, <1>7, <1>12, NoeudsDistincts DEF Racine, CheminsBons
  <2>3. Bon(n2, enfant)
    <3>1. SousParent(noeuds, n2, enfant)
      <4>1. racine \in noeuds[n1] /\ racine.rang = 1
          BY <1>4, <1>11 DEF Racine
      <4>2. /\ enfant.chemin = Append(racine.chemin, n2) /\ enfant.rang = racine.rang + 1
            /\ enfant.pays = racine.pays
          BY <1>4, <1>5, <4>1
      <4> QED  BY <1>5, <4>1, <4>2, NoeudsDistincts DEF SousParent
    <3> QED  BY <1>2, <1>5, <1>12, <3>1, NoeudsDistincts DEF CheminsBons
  <2>4. arbre => Bon(n3, feuille)
    <3>1. SousParent(noeuds, n3, feuille)
      <4>1. enfant \in noeuds[n2]
          BY <1>11
      <4>2. /\ feuille.chemin = Append(enfant.chemin, n3) /\ feuille.rang = enfant.rang + 1
            /\ feuille.pays = enfant.pays
          BY <1>5, <1>6
      <4> QED  BY <1>6, <4>1, <4>2, NoeudsDistincts DEF SousParent
    <3> QED  BY <1>2, <1>5, <1>6, <1>12, <3>1, NoeudsDistincts DEF CheminsBons
  <2> HIDE DEF Bon
  <2>5. \A n \in Noeuds : \A l \in noeuds[n] : Bon(n, l)
      BY <1>11, <2>1, <2>2, <2>3, <2>4
  <2> QED  BY <2>5 DEF Bon, CheminsSurs
<1>14. DOMAIN niveaux = ToutNiveau
      BY <1>1
<1> QED  BY <1>1, <1>10, <1>13, <1>14 DEF InvNoeuds, Suivi, SansDeplacement

LEMMA NoeudsCorrects == Spec => [](Socle /\ InvNoeuds)
<1>1. Socle /\ InvNoeuds /\ [Next]_vars => (Socle /\ InvNoeuds)'
      BY SocleEtape, NoeudEtape
<1> QED  BY SocleInit, NoeudInit, <1>1, PTL DEF Spec

(* The paths, the ranks and the countries of the nodes follow those of     *)
(* their parents, and until a node is moved every rank has a name, as long *)
(* as no request has overlapped another and only leaves have been moved.   *)
THEOREM CheminFideleCorrect == Spec => []CheminFidele
<1>1. InvNoeuds => CheminFidele
  <2> SUFFICES ASSUME InvNoeuds, ~recouvrement, deplace # "branches", NEW n \in Noeuds, NEW l \in noeuds[n]
               PROVE  /\ \/ l.parent = Nul /\ l.chemin = <<n>> /\ l.rang = 1
                         \/ \E p \in UNION {noeuds[m] : m \in Ascendants[n]} :
                               l.chemin = Append(p.chemin, n) /\ l.rang = p.rang + 1 /\ l.pays = p.pays
                      /\ deplace = "rien" => assertNiveauDefini(l.pays, l.rang)
      BY DEF CheminFidele
  <2>1. /\ Racine(n, l) \/ SousParent(noeuds, n, l)
        /\ deplace = "rien" => niveaux[<<l.pays, l.rang>>] # {}
      BY DEF InvNoeuds, CheminsSurs, CheminsBons
  <2>2. ASSUME SousParent(noeuds, n, l)
        PROVE  \E p \in UNION {noeuds[m] : m \in Ascendants[n]} :
                   l.chemin = Append(p.chemin, n) /\ l.rang = p.rang + 1 /\ l.pays = p.pays
    <3>1. PICK m \in Noeuds : /\ l.parent = m
                              /\ \E p \in noeuds[m] :
                                    l.chemin = Append(p.chemin, n) /\ l.rang = p.rang + 1 /\ l.pays = p.pays
        BY <2>2 DEF SousParent
    <3>2. m \in Ascendants[n]
        BY <3>1, NoeudAssumption DEF Ascendants
    <3> QED  BY <3>1, <3>2
  <2> QED  BY <2>1, <2>2 DEF Racine, assertNiveauDefini, findByPaysAndRang
<1> QED  BY NoeudsCorrects, <1>1, PTL

(* The nodes change only when a request commits a node.                    *)
LEMMA NoeudsChangent ==
    ASSUME Socle, [Next]_vars
    PROVE  UNCHANGED noeuds \/ \E r \in Requetes : commitNoeud(r)
<1>1. CASE ~EngineNext
      BY <1>1, HorsEngine DEF engineVars, tablesEngine
<1>2. CASE EngineNext
      BY <1>2 DEF EngineNext, tablesEngine, saveEngine, engineVars, commitNiveau, commitRegle,
                  commitVille, Compter
<1> QED  BY <1>1, <1>2

(* A step that commits a node without an overlap has seen no published,    *)
(* active child of a node that it moves or deactivates.                    *)
THEOREM BrancheProtegeeCorrect == Spec => BrancheProtegee
<1> DEFINE A == \A n, m \in Noeuds : \A l \in noeuds[n], a \in noeuds'[n], enfant \in noeuds[m] :
                    a.parent # l.parent \/ (l.actif /\ ~a.actif) =>
                        recouvrement' \/ enfant.parent # n \/ enfant.statut # "publie" \/ ~enfant.actif
<1>1. Socle /\ InvNoeuds /\ [Next]_vars => [A]_noeuds
  <2> SUFFICES ASSUME Socle, InvNoeuds, [Next]_vars, noeuds' # noeuds,
                      NEW n \in Noeuds, NEW m \in Noeuds, NEW l \in noeuds[n], NEW a \in noeuds'[n],
                      NEW enfant \in noeuds[m],
                      a.parent # l.parent \/ (l.actif /\ ~a.actif),
                      ~recouvrement', enfant.parent = n, enfant.statut = "publie", enfant.actif
               PROVE  FALSE
      OBVIOUS
  <2>1. PICK r \in Requetes : commitNoeud(r)
      BY NoeudsChangent
  <2>2. PICK q \in requete[r] :
            NoeudEcrit(r, q, noeuds, noeuds') /\ <<q.id, q.ligne>> \in Protegees(noeuds)
      BY <2>1, NoeudValide
  <2>3. l \in NoeudRow /\ enfant \in NoeudRow /\ \A x \in noeuds[n] : x = l
      BY DEF InvNoeuds, Table1
  <2>4. n = q.id /\ a = q.ligne /\ a \in NoeudRow
    <3>1. CASE n # q.id
      <4>1. a = l
          BY <2>2, <2>3, <3>1 DEF NoeudEcrit
      <4> QED  BY <4>1
    <3>2. CASE n = q.id
        BY <2>2, <3>2 DEF NoeudEcrit
    <3> QED  BY <3>1, <3>2
  <2>5. Expose(a, l)
    <3>1. l.actif \in BOOLEAN /\ a.actif \in BOOLEAN
        BY <2>3, <2>4 DEF NoeudRow
    <3> QED  BY <3>1, Zenon DEF Expose
  <2>6. Enfants(noeuds, n)
    <3>1. enfant.actif \in BOOLEAN
        BY <2>3 DEF NoeudRow
    <3>2. enfant.actif = TRUE
        BY <3>1, Zenon
    <3> QED  BY <3>2 DEF Enfants
  <2> QED  BY <2>2, <2>4, <2>5, <2>6 DEF Protegees
<1>2. BrancheProtegee <=> [][A]_noeuds
      BY PTL DEF BrancheProtegee
<1> QED  BY NoeudsCorrects, <1>1, <1>2, PTL DEF Spec

(* The check by paths puts no node below itself as long as no branch has   *)
(* been moved before.                                                      *)
THEOREM CycleParCheminPerimeCorrect == Spec => CycleParCheminPerime
<1> DEFINE A == noeuds' # noeuds /\ deplace # "branches" /\ SansBoucle(Ascendants)
                    => recouvrement' \/ SansBoucle(Ascendants)'
<1>1. Socle /\ InvNoeuds /\ [Next]_vars => [A]_noeuds
  <2> SUFFICES ASSUME Socle, InvNoeuds, [Next]_vars, noeuds' # noeuds,
                      deplace # "branches", SansBoucle(Ascendants), ~recouvrement'
               PROVE  SansBoucle(Ascendants)'
      OBVIOUS
  <2>1. PICK r \in Requetes : commitNoeud(r)
      BY NoeudsChangent
  <2>2. PICK q \in requete[r] :
            NoeudEcrit(r, q, noeuds, noeuds') /\ <<q.id, q.ligne>> \in SansCycle(noeuds)
      BY <2>1, NoeudValide
  <2>3. Ascendants = AscendantsDe(noeuds) /\ Ascendants' = AscendantsDe(noeuds')
      BY DEF Ascendants, AscendantsDe
  <2>4. AscendantsDe(noeuds') = AscendantsAvec(noeuds, q.id, q.ligne)
      BY <2>2 DEF AscendantsDe, AscendantsAvec, NoeudEcrit
  <2>5. SansBoucle(AscendantsDe(noeuds'))
      BY <2>2, <2>3, <2>4 DEF SansCycle
  <2> QED  BY <2>3, <2>5 DEF SansBoucle
<1>2. CycleParCheminPerime <=> [][A]_noeuds
      BY PTL DEF CycleParCheminPerime
<1> QED  BY NoeudsCorrects, <1>1, <1>2, PTL DEF Spec

-----------------------------------------------------------------------------
(* The villes and the nodes that they are attached to.  A write to a ville *)
(* names an admitted node; a write to an admitted node with villes leaves  *)
(* it active and published.                                                *)
AdmisLa(t, n) == n # Nul => \E l \in t[n] : l.actif = TRUE /\ l.statut = "publie"

Habite(v, n) == \E y \in Villes : \E l \in v[y] : l.noeud = n

ToutVille == Villes \X VilleRow

Admises(t) == {w \in ToutVille : AdmisLa(t, w[2].noeud)}

Hospitalieres(t, v) ==
    {w \in ToutNoeud : Habite(v, w[1]) /\ AdmisLa(t, w[1]) =>
                           w[2].actif = TRUE /\ w[2].statut = "publie"}

VillesBien(t, v) == \A y \in Villes : \A l \in v[y] : AdmisLa(t, l.noeud)

InvVilles ==
    /\ Table1(villes, Villes, VilleRow)
    /\ Suivi(requete, "ville", villes, ToutVille, ToutVille)
    /\ ~recouvrement /\ ~retard =>
          /\ VillesBien(noeuds, villes)
          /\ Suivi(requete, "ville", villes, ToutVille, Admises(noeuds))
          /\ Suivi(requete, "noeud", noeuds, ToutNoeud, Hospitalieres(noeuds, villes))

LEMMA VilleColonnes == Colonnes(VilleRow)
BY DEF Colonnes, VilleRow

LEMMA AdmisEgal ==
    ASSUME InvNoeuds, NEW n \in Noeuds \union {Nul}
    PROVE  NoeudAdmis(n) <=> AdmisLa(noeuds, n)
<1>1. CASE n = Nul
      BY <1>1 DEF NoeudAdmis, AdmisLa
<1>2. CASE n # Nul
  <2>1. \A l \in noeuds[n] : l.actif \in BOOLEAN
      BY <1>2 DEF InvNoeuds, Table1, NoeudRow
  <2>2. \A l \in noeuds[n] : l.actif <=> l.actif = TRUE
      BY <2>1, Zenon
  <2> QED  BY <1>2, <2>2 DEF NoeudAdmis, AdmisLa, existsAndPublished
<1> QED  BY <1>1, <1>2

LEMMA VilleInit == Init => InvVilles
<1> SUFFICES ASSUME Init PROVE InvVilles
    OBVIOUS
<1>1. requete = [r \in Requetes |-> {}] /\ villes = Table(Villes, Aucune)
      BY DEF Init, InitUnite, Demarrage
<1>2. DOMAIN Aucune = {}
      BY DEF Aucune
<1>3. Table1(villes, Villes, VilleRow)
      BY <1>1, <1>2, TableDepart
<1>4. \A y \in Villes : villes[y] = {}
      BY <1>1, <1>2 DEF Table
<1> QED  BY <1>1, <1>3, <1>4 DEF InvVilles, Suivi, VillesBien

(* A step that writes neither to the villes nor to the nodes.              *)
LEMMA VillesHors ==
    ASSUME Socle, InvVilles, Ailleurs({"noeud", "ville"}), UNCHANGED <<noeuds, villes>>,
           retard => retard'
    PROVE  InvVilles'
<1>1. CASE UNCHANGED <<requete, recouvrement>>
      BY <1>1 DEF InvVilles
<1>2. ASSUME NEW S, Acte(S), S \intersect {"noeud", "ville"} = {} PROVE InvVilles'
  <2>1. ReqOK(requete) /\ "noeud" \notin S /\ "ville" \notin S /\ (~recouvrement' => ~recouvrement)
      BY <1>2, ActeReqOK DEF Socle
  <2>2. /\ \A B : Suivi(requete, "ville", villes, ToutVille, B) => Suivi(requete', "ville", villes, ToutVille, B)
        /\ \A B : Suivi(requete, "noeud", noeuds, ToutNoeud, B) => Suivi(requete', "noeud", noeuds, ToutNoeud, B)
      BY <1>2, <2>1, SuiviActe
  <2> QED  BY <2>1, <2>2 DEF InvVilles
<1> QED  BY <1>1, <1>2 DEF Ailleurs

LEMMA VillesSave ==
    ASSUME Socle, InvVilles, NEW r \in Requetes,
           save(r, "noeud", noeuds) \/ save(r, "ville", villes), UNCHANGED <<noeuds, villes, retard>>
    PROVE  InvVilles'
<1>1. ReqOK(requete) /\ UNCHANGED recouvrement
      BY DEF Socle, save
<1>2. CASE save(r, "noeud", noeuds)
  <2>1. Acte({"noeud"}) /\ "ville" \notin {"noeud"}
      BY <1>2, saveActe
  <2>2. /\ \A B : Suivi(requete, "ville", villes, ToutVille, B) => Suivi(requete', "ville", villes, ToutVille, B)
        /\ \A B : Suivi(requete, "noeud", noeuds, ToutNoeud, B) => Suivi(requete', "noeud", noeuds, ToutNoeud, B)
      BY <1>1, <1>2, <2>1, SuiviActe, SuiviSave
  <2> QED  BY <1>1, <2>2 DEF InvVilles
<1>3. CASE save(r, "ville", villes)
  <2>1. Acte({"ville"}) /\ "noeud" \notin {"ville"}
      BY <1>3, saveActe
  <2>2. /\ \A B : Suivi(requete, "ville", villes, ToutVille, B) => Suivi(requete', "ville", villes, ToutVille, B)
        /\ \A B : Suivi(requete, "noeud", noeuds, ToutNoeud, B) => Suivi(requete', "noeud", noeuds, ToutNoeud, B)
      BY <1>1, <1>3, <2>1, SuiviActe, SuiviSave
  <2> QED  BY <1>1, <2>2 DEF InvVilles
<1> QED  BY <1>2, <1>3

(* The writes that the use-cases prepare, to a node and to a ville.        *)
LEMMA VillesNoeudTraiter ==
    ASSUME Socle, InvVilles, NEW r \in Requetes, NEW n \in Noeuds, NEW k \in NoeudRow, NEW type,
           Traiter(r, "noeud", noeuds, n, k, type), UNCHANGED <<noeuds, villes>>, retard => retard',
           ~retard' => <<n, k>> \in Hospitalieres(noeuds, villes)
    PROVE  InvVilles'
<1>1. /\ ReqOK(requete) /\ <<n, k>> \in ToutNoeud /\ UNCHANGED recouvrement
      /\ Acte({"noeud"}) /\ "ville" \notin {"noeud"}
      BY TraiterDebute, TraiterActe DEF Socle, ToutNoeud
<1>2. \A B : Suivi(requete, "noeud", noeuds, ToutNoeud, B) /\ <<n, k>> \in B
             => Suivi(requete', "noeud", noeuds, ToutNoeud, B)
      BY <1>1, SuiviTraiter
<1>3. \A B : Suivi(requete, "ville", villes, ToutVille, B) => Suivi(requete', "ville", villes, ToutVille, B)
      BY <1>1, SuiviActe
<1> QED  BY <1>1, <1>2, <1>3 DEF InvVilles

LEMMA VillesTraiter ==
    ASSUME Socle, InvVilles, NEW r \in Requetes, NEW y \in Villes, NEW k \in VilleRow, NEW type,
           Traiter(r, "ville", villes, y, k, type), UNCHANGED <<noeuds, villes, retard>>,
           ~recouvrement /\ ~retard => AdmisLa(noeuds, k.noeud)
    PROVE  InvVilles'
<1>1. /\ ReqOK(requete) /\ <<y, k>> \in ToutVille /\ UNCHANGED recouvrement
      /\ Acte({"ville"}) /\ "noeud" \notin {"ville"}
      BY TraiterDebute, TraiterActe DEF Socle, ToutVille
<1>2. \A B : Suivi(requete, "ville", villes, ToutVille, B) /\ <<y, k>> \in B
             => Suivi(requete', "ville", villes, ToutVille, B)
      BY <1>1, SuiviTraiter
<1>3. \A B : Suivi(requete, "noeud", noeuds, ToutNoeud, B) => Suivi(requete', "noeud", noeuds, ToutNoeud, B)
      BY <1>1, SuiviActe
<1>4. ~recouvrement /\ ~retard => <<y, k>> \in Admises(noeuds)
      BY <1>1 DEF Admises
<1> QED  BY <1>1, <1>2, <1>3, <1>4 DEF InvVilles

(* The use-cases.                                                          *)
LEMMA VilleLecture ==
    ASSUME Socle, InvNoeuds, InvVilles, NEW r \in Requetes, NEW y \in Villes,
           NEW n \in Noeuds \union {Nul}, UNCHANGED <<noeuds, villes, retard>>,
           CreateVille(r, y, n) \/ MoveVille(r, y, n) \/ \E b \in BOOLEAN : SetVilleActivation(r, y, b)
    PROVE  InvVilles'
<1>1. \A l \in villes[y] : l \in VilleRow
      BY DEF InvVilles, Table1
<1>2. NoeudAdmis(n) => AdmisLa(noeuds, n)
      BY AdmisEgal
<1>3. CASE CreateVille(r, y, n)
  <2> DEFINE k == [noeud |-> n, actif |-> TRUE]
  <2>1. NoeudAdmis(n) /\ Traiter(r, "ville", villes, y, k, "VILLE_CREATED")
      BY <1>3 DEF CreateVille
  <2>2. k \in VilleRow /\ k.noeud = n
      BY DEF VilleRow
  <2> HIDE DEF k
  <2> QED  BY <1>2, <2>1, <2>2, VillesTraiter
<1>4. CASE MoveVille(r, y, n)
  <2>1. PICK l \in villes[y] : Traiter(r, "ville", villes, y, [l EXCEPT !.noeud = n], "VILLE_MOVED")
      BY <1>4 DEF MoveVille
  <2> DEFINE k == [l EXCEPT !.noeud = n]
  <2>2. Traiter(r, "ville", villes, y, k, "VILLE_MOVED") /\ NoeudAdmis(n)
      BY <1>4, <2>1 DEF MoveVille
  <2>3. k \in VilleRow /\ k.noeud = n
      BY <1>1 DEF VilleRow
  <2> HIDE DEF k
  <2> QED  BY <1>2, <2>2, <2>3, VillesTraiter
<1>5. ASSUME NEW b \in BOOLEAN, SetVilleActivation(r, y, b) PROVE InvVilles'
  <2>1. PICK l \in villes[y] : Traiter(r, "ville", villes, y, [l EXCEPT !.actif = b], Nul)
      BY <1>5 DEF SetVilleActivation
  <2> DEFINE k == [l EXCEPT !.actif = b]
  <2>2. Traiter(r, "ville", villes, y, k, Nul)
      BY <2>1
  <2>3. k \in VilleRow /\ k.noeud = l.noeud
      BY <1>1 DEF VilleRow
  <2>4. ~recouvrement /\ ~retard => AdmisLa(noeuds, k.noeud)
      BY <2>3 DEF InvVilles, VillesBien
  <2> HIDE DEF k
  <2> QED  BY <2>2, <2>3, <2>4, VillesTraiter
<1> QED  BY <1>3, <1>4, <1>5

AvecActif(l, b) == [l EXCEPT !.actif = b]

LEMMA ActifDonne ==
    ASSUME NEW l \in NoeudRow, NEW b \in BOOLEAN
    PROVE  /\ AvecActif(l, b) \in NoeudRow
           /\ AvecActif(l, b).statut = l.statut /\ AvecActif(l, b).actif = b
BY DEF NoeudRow, AvecActif

(* A count of zero that is not out of date: no ville is attached.          *)
LEMMA SansVille ==
    ASSUME NEW n \in Noeuds, getCompte(n) = 0, LireCompte(n), ~retard'
    PROVE  ~Habite(villes, n)
<1> DEFINE V == {v \in Villes : \E l \in villes[v] : l.noeud = n}
<1>1. Cardinality(V) = 0
      BY DEF LireCompte, Attachees
<1>2. IsFiniteSet(V)
      BY NoeudAssumption, FS_Subset
<1>3. V = {}
      BY <1>1, <1>2, FS_EmptySet
<1> QED  BY <1>3 DEF Habite

LEMMA VillesNoeud ==
    ASSUME Socle, InvNoeuds, InvVilles, NEW r \in Requetes, NEW n \in Noeuds,
           UNCHANGED <<noeuds, villes>>, retard => retard',
           \/ \E b \in BOOLEAN : \/ \E p \in Pays : CreateNoeudRacine(r, n, p, b)
                                 \/ \E m \in Noeuds : CreateNoeudEnfant(r, n, m, b)
           \/ UpdateNoeud(r, n) \/ \E s \in Statuts : TransitionNoeud(r, n, s)
           \/ DeactivateNoeud(r, n) \/ ReactivateNoeud(r, n)
           \/ ReattachNoeudRacine(r, n) \/ \E m \in Noeuds : ReattachNoeud(r, n, m)
    PROVE  InvVilles'
<1>1. /\ \A x \in Noeuds : \A l \in noeuds[x] : l \in NoeudRow
      /\ \A x \in Noeuds : \A l, m \in noeuds[x] : l = m
      BY DEF InvNoeuds, Table1
<1>2. n # Nul
      BY NoeudAssumption
<1>3. ASSUME NEW k \in NoeudRow, NEW type, Traiter(r, "noeud", noeuds, n, k, type), noeuds[n] = {}
      PROVE  InvVilles'
  <2>1. <<n, k>> \in Hospitalieres(noeuds, villes)
      BY <1>2, <1>3 DEF Hospitalieres, AdmisLa, ToutNoeud
  <2> QED  BY <1>3, <2>1, VillesNoeudTraiter
<1>4. ASSUME NEW l \in noeuds[n], NEW k \in NoeudRow, NEW type, Traiter(r, "noeud", noeuds, n, k, type),
             l.statut = "publie" => k.statut = "publie", l.actif = TRUE => k.actif = TRUE
      PROVE  InvVilles'
  <2>1. ASSUME AdmisLa(noeuds, n) PROVE k.actif = TRUE /\ k.statut = "publie"
    <3>1. PICK m \in noeuds[n] : m.actif = TRUE /\ m.statut = "publie"
        BY <1>2, <2>1 DEF AdmisLa
    <3>2. m = l
        BY <1>1
    <3>3. l.actif = TRUE /\ l.statut = "publie"
        BY <3>1, <3>2, Zenon
    <3> QED  BY <1>4, <3>3
  <2>2. <<n, k>> \in Hospitalieres(noeuds, villes)
      BY <2>1 DEF Hospitalieres, ToutNoeud
  <2> QED  BY <1>4, <2>2, VillesNoeudTraiter
<1>5. ASSUME NEW k \in NoeudRow, NEW type, Traiter(r, "noeud", noeuds, n, k, type),
             ~retard' => ~Habite(villes, n)
      PROVE  InvVilles'
  <2>1. ~retard' => <<n, k>> \in Hospitalieres(noeuds, villes)
      BY <1>5 DEF Hospitalieres, ToutNoeud
  <2> QED  BY <1>5, <2>1, VillesNoeudTraiter
<1>6. ASSUME NEW b \in BOOLEAN, NEW p \in Pays, CreateNoeudRacine(r, n, p, b) PROVE InvVilles'
  <2> DEFINE k == createRoot(n, p, b)
  <2>1. k \in NoeudRow
      BY DEF createRoot, NoeudRow, Statuts
  <2>2. noeuds[n] = {} /\ Traiter(r, "noeud", noeuds, n, k, "ADMINISTRATIVE_HIERARCHY_NODE_CREATED")
      BY <1>6 DEF CreateNoeudRacine, Neuf
  <2> HIDE DEF k
  <2> QED  BY <1>3, <2>1, <2>2
<1>7. ASSUME NEW b \in BOOLEAN, NEW m \in Noeuds, CreateNoeudEnfant(r, n, m, b) PROVE InvVilles'
  <2>1. PICK p \in noeuds[m] :
            Traiter(r, "noeud", noeuds, n, createChild(n, m, p, b), "ADMINISTRATIVE_HIERARCHY_NODE_CREATED")
      BY <1>7 DEF CreateNoeudEnfant
  <2> DEFINE k == createChild(n, m, p, b)
  <2>2. p \in NoeudRow
      BY <1>1
  <2>3. k \in NoeudRow
      BY <2>2 DEF createChild, NoeudRow, Statuts
  <2>4. noeuds[n] = {} /\ Traiter(r, "noeud", noeuds, n, k, "ADMINISTRATIVE_HIERARCHY_NODE_CREATED")
      BY <1>7, <2>1 DEF CreateNoeudEnfant, Neuf
  <2> HIDE DEF k
  <2> QED  BY <1>3, <2>3, <2>4
<1>8. CASE UpdateNoeud(r, n)
  <2>1. PICK l \in noeuds[n] : Traiter(r, "noeud", noeuds, n, l, Nul)
      BY <1>8 DEF UpdateNoeud
  <2> QED  BY <1>1, <1>4, <2>1
<1>9. ASSUME NEW s \in Statuts, TransitionNoeud(r, n, s) PROVE InvVilles'
  <2>1. PICK l \in noeuds[n] :
            /\ assertEngineTransitionAllowed(l.statut, s)
            /\ \E type : Traiter(r, "noeud", noeuds, n, [l EXCEPT !.statut = s], type)
      BY <1>9 DEF TransitionNoeud
  <2> DEFINE k == AvecStatut(l, s)
  <2>2. PICK type : Traiter(r, "noeud", noeuds, n, k, type)
      BY <2>1 DEF AvecStatut
  <2>3. k \in NoeudRow /\ l \in NoeudRow
      BY <1>1, StatutDonne
  <2>4. k.actif = l.actif
      BY <2>3 DEF AvecStatut, NoeudRow
  <2>5. l.statut # "publie"
      BY <2>1 DEF assertEngineTransitionAllowed, AllowedTransitions
  <2> HIDE DEF k
  <2>6. l.actif = TRUE => k.actif = TRUE
      BY <2>4, Zenon
  <2> QED  BY <1>4, <2>2, <2>3, <2>5, <2>6
<1>10. CASE DeactivateNoeud(r, n)
  <2>1. PICK l \in noeuds[n] :
            Traiter(r, "noeud", noeuds, n, [l EXCEPT !.actif = FALSE], "ADMINISTRATIVE_NODE_DEACTIVATED")
      BY <1>10 DEF DeactivateNoeud
  <2> DEFINE k == AvecActif(l, FALSE)
  <2>2. k \in NoeudRow
      BY <1>1, ActifDonne
  <2>3. /\ Traiter(r, "noeud", noeuds, n, k, "ADMINISTRATIVE_NODE_DEACTIVATED")
        /\ getCompte(n) = 0 /\ LireCompte(n)
      BY <1>10, <2>1 DEF DeactivateNoeud, Deplacable, AvecActif
  <2> HIDE DEF k
  <2> QED  BY <1>5, <2>2, <2>3, SansVille
<1>11. CASE ReactivateNoeud(r, n)
  <2>1. PICK l \in noeuds[n] : Traiter(r, "noeud", noeuds, n, [l EXCEPT !.actif = TRUE], Nul)
      BY <1>11 DEF ReactivateNoeud
  <2> DEFINE k == AvecActif(l, TRUE)
  <2>2. k \in NoeudRow /\ k.statut = l.statut /\ k.actif = TRUE
      BY <1>1, ActifDonne
  <2>3. Traiter(r, "noeud", noeuds, n, k, Nul)
      BY <2>1 DEF AvecActif
  <2> HIDE DEF k
  <2> QED  BY <1>4, <2>2, <2>3
<1>12. CASE ReattachNoeudRacine(r, n)
  <2>1. PICK l \in noeuds[n] :
            Traiter(r, "noeud", noeuds, n, reattachToRoot(n, l), "BRANCH_REATTACHED")
      BY <1>12 DEF ReattachNoeudRacine
  <2> DEFINE c == <<n>>
             g == 1
             k == reattachToRoot(n, l)
  <2>2. l \in NoeudRow /\ Nul \in Noeuds \union {Nul} /\ c \in Seq(Noeuds) /\ g \in Nat
      BY <1>1
  <2>3. k = Deplacee(l, Nul, c, g)
      BY DEF reattachToRoot, Deplacee
  <2>4. /\ Traiter(r, "noeud", noeuds, n, k, "BRANCH_REATTACHED")
        /\ getCompte(n) = 0 /\ LireCompte(n)
      BY <1>12, <2>1 DEF ReattachNoeudRacine, Deplacable
  <2> HIDE DEF k, c, g
  <2>5. k \in NoeudRow
      BY <2>2, <2>3, LigneDeplacee
  <2> QED  BY <1>5, <2>4, <2>5, SansVille
<1>13. ASSUME NEW m \in Noeuds, ReattachNoeud(r, n, m) PROVE InvVilles'
  <2>1. PICK l \in noeuds[n], p \in noeuds[m] :
            Traiter(r, "noeud", noeuds, n, reattachToParent(n, l, m, p), "BRANCH_REATTACHED")
      BY <1>13 DEF ReattachNoeud
  <2> DEFINE c == Append(p.chemin, n)
             g == p.rang + 1
             k == reattachToParent(n, l, m, p)
  <2>2. l \in NoeudRow /\ p \in NoeudRow
      BY <1>1
  <2>3. m \in Noeuds \union {Nul} /\ c \in Seq(Noeuds) /\ g \in Nat
      BY <2>2 DEF NoeudRow
  <2>4. k = Deplacee(l, m, c, g)
      BY DEF reattachToParent, Deplacee
  <2>5. /\ Traiter(r, "noeud", noeuds, n, k, "BRANCH_REATTACHED")
        /\ getCompte(n) = 0 /\ LireCompte(n)
      BY <1>13, <2>1 DEF ReattachNoeud, Deplacable
  <2> HIDE DEF k, c, g
  <2>6. k \in NoeudRow
      BY <2>2, <2>3, <2>4, LigneDeplacee
  <2> QED  BY <1>5, <2>5, <2>6, SansVille
<1> QED  BY <1>6, <1>7, <1>8, <1>9, <1>10, <1>11, <1>12, <1>13

(* The commits, to a node and to a ville.                                  *)
LEMMA VillesSuivi ==
    ASSUME Socle, InvNoeuds, InvVilles, NEW r \in Requetes, Terminer(r),
           NEW t, NEW v, NEW A, NEW B
    PROVE  /\ Suivi(requete', "ville", v, ToutVille, A)
           /\ Suivi(requete', "noeud", t, ToutNoeud, B)
BY SuiviTerminer DEF Socle, InvNoeuds, InvVilles

LEMMA VillesNoeudCommit ==
    ASSUME Socle, InvNoeuds, InvVilles, NEW r \in Requetes, commitNoeud(r)
    PROVE  InvVilles'
<1> DEFINE t == noeuds
           t2 == ApresTout(r, t)
<1>1. /\ ReqOK(requete) /\ Table1(t, Noeuds, NoeudRow) /\ Colonnes(NoeudRow)
      /\ Suivi(requete, "noeud", t, ToutNoeud, ToutNoeud)
      /\ Valider(r, "noeud", t) /\ Terminer(r) /\ noeuds' = t2 /\ UNCHANGED <<villes, retard>>
      BY NoeudColonnes DEF Socle, InvNoeuds, commitNoeud, Valider
<1>2. /\ Suivi(requete', "ville", villes, ToutVille, ToutVille)
      /\ Suivi(requete', "ville", villes, ToutVille, Admises(t2))
      /\ Suivi(requete', "noeud", t2, ToutNoeud, Hospitalieres(t2, villes))
      BY <1>1, VillesSuivi
<1>3. ASSUME ~recouvrement', ~retard PROVE VillesBien(t2, villes)
  <2>1. ~recouvrement
      BY <1>1, <1>3, TerminerFinit
  <2>2. VillesBien(t, villes) /\ Suivi(requete, "noeud", t, ToutNoeud, Hospitalieres(t, villes))
      BY <1>3, <2>1 DEF InvVilles
  <2>3. PICK q \in requete[r] :
            /\ q.id \in Noeuds /\ q.ligne \in NoeudRow /\ AJour(q, t, Hospitalieres(t, villes))
            /\ t2[q.id] = {q.ligne}
            /\ \A n \in Noeuds : n # q.id => t2[n] = t[n]
      BY <1>1, <1>3, <2>2, ValiderCopie DEF ToutNoeud
  <2>4. Habite(villes, q.id) /\ AdmisLa(t, q.id) => q.ligne.actif = TRUE /\ q.ligne.statut = "publie"
      BY <2>3 DEF AJour, Hospitalieres
  <2> HIDE DEF t2
  <2> SUFFICES ASSUME NEW y \in Villes, NEW l \in villes[y] PROVE AdmisLa(t2, l.noeud)
      BY DEF VillesBien
  <2>5. AdmisLa(t, l.noeud) /\ l.noeud \in Noeuds \union {Nul}
      BY <2>2 DEF VillesBien, InvVilles, Table1, VilleRow
  <2>6. CASE l.noeud = q.id
    <3>1. Habite(villes, q.id)
        BY <2>6 DEF Habite
    <3> QED  BY <2>3, <2>4, <2>5, <2>6, <3>1 DEF AdmisLa
  <2>7. CASE l.noeud # q.id
      BY <2>3, <2>5, <2>7 DEF AdmisLa
  <2> QED  BY <2>6, <2>7
<1> QED  BY <1>1, <1>2, <1>3 DEF InvVilles

LEMMA VillesCommit ==
    ASSUME Socle, InvNoeuds, InvVilles, NEW r \in Requetes, commitVille(r)
    PROVE  InvVilles'
<1> DEFINE v == villes
           v2 == ApresTout(r, v)
<1>1. /\ ReqOK(requete) /\ Table1(v, Villes, VilleRow) /\ Colonnes(VilleRow)
      /\ Suivi(requete, "ville", v, ToutVille, ToutVille)
      /\ Valider(r, "ville", v) /\ Terminer(r) /\ villes' = v2 /\ UNCHANGED <<noeuds, retard>>
      BY VilleColonnes DEF Socle, InvVilles, commitVille, Valider
<1>2. Table1(v2, Villes, VilleRow)
      BY <1>1, ValiderTable DEF ToutVille
<1>3. /\ Suivi(requete', "ville", v2, ToutVille, ToutVille)
      /\ Suivi(requete', "ville", v2, ToutVille, Admises(noeuds))
      /\ Suivi(requete', "noeud", noeuds, ToutNoeud, Hospitalieres(noeuds, v2))
      BY <1>1, VillesSuivi
<1>4. ASSUME ~recouvrement', ~retard PROVE VillesBien(noeuds, v2)
  <2>1. ~recouvrement
      BY <1>1, <1>4, TerminerFinit
  <2>2. VillesBien(noeuds, v) /\ Suivi(requete, "ville", v, ToutVille, Admises(noeuds))
      BY <1>4, <2>1 DEF InvVilles
  <2>3. PICK q \in requete[r] :
            /\ q.id \in Villes /\ q.ligne \in VilleRow /\ AJour(q, v, Admises(noeuds))
            /\ v2[q.id] = {q.ligne}
            /\ \A y \in Villes : y # q.id => v2[y] = v[y]
      BY <1>1, <1>4, <2>2, ValiderCopie DEF ToutVille
  <2>4. AdmisLa(noeuds, q.ligne.noeud)
      BY <2>3 DEF AJour, Admises
  <2> HIDE DEF v2
  <2> SUFFICES ASSUME NEW y \in Villes, NEW l \in v2[y] PROVE AdmisLa(noeuds, l.noeud)
      BY DEF VillesBien
  <2>5. CASE y = q.id
      BY <2>3, <2>4, <2>5
  <2>6. CASE y # q.id
      BY <2>2, <2>3, <2>6 DEF VillesBien
  <2> QED  BY <2>5, <2>6
<1> QED  BY <1>1, <1>2, <1>3, <1>4 DEF InvVilles

LEMMA VillesEtape ==
    Socle /\ InvNoeuds /\ InvVilles /\ [Next]_vars => InvVilles'
<1> SUFFICES ASSUME Socle, InvNoeuds, InvVilles, [Next]_vars PROVE InvVilles'
    OBVIOUS
<1>1. ASSUME NEW t, Acte({t}), t \notin {"noeud", "ville"}, UNCHANGED <<noeuds, villes>>,
             retard => retard'
      PROVE  InvVilles'
  <2>1. {t} \intersect {"noeud", "ville"} = {}
      BY <1>1
  <2> QED  BY <1>1, <2>1, VillesHors DEF Ailleurs
<1>2. CASE ~EngineNext
  <2>1. UNCHANGED <<noeuds, villes, retard>> /\ Ailleurs({"noeud", "ville"})
      BY <1>2, HorsEngine DEF engineVars, tablesEngine, Ailleurs, TablesEngine
  <2> QED  BY <2>1, VillesHors
<1>3. CASE EngineNext
  <2>1. ASSUME NEW r \in Requetes,
               Arbre(r) \/ Publication(r) \/ Revision(r) \/ Rattachement(r) \/ Reglementation(r),
               UNCHANGED tablesEngine
        PROVE  InvVilles'
    <3>1. UNCHANGED <<noeuds, villes>> /\ {n1, n2, n3, n4} \subseteq Noeuds
        BY <2>1, NoyauAssumption DEF tablesEngine
    <3>2. ASSUME NEW n \in Noeuds, retard => retard',
                 \/ \E b \in BOOLEAN : \/ \E p \in Pays : CreateNoeudRacine(r, n, p, b)
                                       \/ \E m \in Noeuds : CreateNoeudEnfant(r, n, m, b)
                 \/ UpdateNoeud(r, n) \/ \E s \in Statuts : TransitionNoeud(r, n, s)
                 \/ DeactivateNoeud(r, n) \/ ReactivateNoeud(r, n)
                 \/ ReattachNoeudRacine(r, n) \/ \E m \in Noeuds : ReattachNoeud(r, n, m)
          PROVE  InvVilles'
        BY <3>1, <3>2, VillesNoeud
    <3>3. ASSUME NEW y \in Villes, NEW n \in Noeuds \union {Nul}, UNCHANGED retard,
                 \/ CreateVille(r, y, n) \/ MoveVille(r, y, n)
                 \/ \E b \in BOOLEAN : SetVilleActivation(r, y, b)
          PROVE  InvVilles'
        BY <3>1, <3>3, VilleLecture
    <3>4. CASE Arbre(r)
      <4>1. PICK n \in Noeuds : ReattachNoeudRacine(r, n) \/ \E m \in Noeuds : ReattachNoeud(r, n, m)
          BY <3>1, <3>4 DEF Arbre
      <4>2. retard => retard'
          BY <4>1 DEF ReattachNoeudRacine, ReattachNoeud, LireCompte
      <4> QED  BY <3>2, <4>1, <4>2
    <3>5. CASE Publication(r)
      <4>1. CASE \E n \in Noeuds : ReattachNoeudRacine(r, n) \/ DeactivateNoeud(r, n)
        <5>1. retard => retard'
            BY <4>1 DEF ReattachNoeudRacine, DeactivateNoeud, LireCompte
        <5> QED  BY <3>2, <4>1, <5>1
      <4>2. CASE \E n \in Noeuds : ReactivateNoeud(r, n) /\ UNCHANGED retard
          BY <3>2, <4>2
      <4>3. CASE /\ \E y \in Villes, n \in Noeuds \union {Nul} : CreateVille(r, y, n) \/ MoveVille(r, y, n)
                 /\ UNCHANGED retard
          BY <3>3, <4>3
      <4> QED  BY <3>1, <3>5, <4>1, <4>2, <4>3 DEF Publication
    <3>6. CASE Revision(r)
      <4>1. UNCHANGED retard
          BY <3>6 DEF Revision
      <4>2. ASSUME NEW k \in 1..MaxChemin, CreateNiveau(r, p1, k) PROVE InvVilles'
        <5>1. Acte({"niveau"})
            BY <4>2, TraiterActe DEF CreateNiveau
        <5> QED  BY <1>1, <3>1, <4>1, <5>1
      <4>3. CASE \E p \in Pays : CreateNoeudRacine(r, n3, p, FALSE)
          BY <3>1, <3>2, <4>1, <4>3
      <4>4. CASE \E m \in {n1, n2} : CreateNoeudEnfant(r, n3, m, TRUE)
          BY <3>1, <3>2, <4>1, <4>4
      <4>5. CASE UpdateNoeud(r, n3) \/ \E s \in Statuts : TransitionNoeud(r, n3, s)
          BY <3>1, <3>2, <4>1, <4>5
      <4> QED  BY <3>6, <4>2, <4>3, <4>4, <4>5 DEF Revision
    <3>7. CASE Rattachement(r)
        BY <3>1, <3>3, <3>7 DEF Rattachement
    <3>8. CASE Reglementation(r)
      <4>1. Acte({"regle"}) /\ UNCHANGED retard
          BY <3>8, TraiterActe
             DEF Reglementation, CreateReferentielRegle, UpdateReferentielRegle, TransitionRegle,
                 SetRegleActivation
      <4> QED  BY <1>1, <3>1, <4>1
    <3> QED  BY <2>1, <3>4, <3>5, <3>6, <3>7, <3>8
  <2>2. ASSUME NEW r \in Requetes, saveEngine(r) PROVE InvVilles'
    <3>1. UNCHANGED <<noeuds, villes, retard>>
        BY <2>2 DEF saveEngine, engineVars, tablesEngine
    <3>2. CASE save(r, "noeud", noeuds) \/ save(r, "ville", villes)
        BY <3>1, <3>2, VillesSave
    <3>3. CASE save(r, "niveau", niveaux)
      <4>1. Acte({"niveau"})
          BY <3>3, saveActe
      <4> QED  BY <1>1, <3>1, <4>1
    <3>4. CASE save(r, "regle", regles)
      <4>1. Acte({"regle"})
          BY <3>4, saveActe
      <4> QED  BY <1>1, <3>1, <4>1
    <3> QED  BY <2>2, <3>2, <3>3, <3>4 DEF saveEngine
  <2>3. ASSUME NEW r \in Requetes, commitNiveau(r) \/ commitRegle(r) PROVE InvVilles'
    <3>1. Terminer(r) /\ UNCHANGED <<noeuds, villes, retard>>
        BY <2>3 DEF commitNiveau, commitRegle, Valider
    <3>2. Acte({"regle"})
        BY <3>1, TerminerActe
    <3> QED  BY <1>1, <3>1, <3>2
  <2>4. ASSUME NEW n, Compter(n) PROVE InvVilles'
    <3>1. UNCHANGED <<requete, recouvrement, noeuds, villes, retard>>
        BY <2>4 DEF Compter, tablesEngine
    <3> QED  BY <3>1, VillesHors DEF Ailleurs
  <2> QED  BY <1>3, <2>1, <2>2, <2>3, <2>4, VillesNoeudCommit, VillesCommit DEF EngineNext
<1> QED  BY <1>2, <1>3

(* KER-ADM-04, for every set of nodes, villes and requests: a ville is     *)
(* attached to an active, published node, unless requests have overlapped  *)
(* or a guard has trusted a counter out of date.                           *)
THEOREM VilleSurNoeudActifCorrect == Spec => []VilleSurNoeudActif
<1>1. Init => InvVilles
      BY VilleInit
<1>2. ASSUME InvNoeuds, InvVilles PROVE VilleSurNoeudActif
  <2> SUFFICES ASSUME ~recouvrement, ~retard, NEW v \in Villes, NEW l \in villes[v]
               PROVE  NoeudAdmis(l.noeud)
      BY DEF VilleSurNoeudActif
  <2>1. AdmisLa(noeuds, l.noeud) /\ l.noeud \in Noeuds \union {Nul}
      BY <1>2 DEF InvVilles, VillesBien, Table1, VilleRow
  <2> QED  BY <1>2, <2>1, AdmisEgal
<1>3. InvNoeuds /\ InvVilles => VilleSurNoeudActif
      BY <1>2
<1> QED  BY NoeudsCorrects, <1>1, <1>3, VillesEtape, PTL DEF Spec

-----------------------------------------------------------------------------
(* The tariff grids.  The versions of an offer run from 1 without a gap,   *)
(* whatever overlaps: a request numbers its grid after those it has seen,  *)
(* and the unique constraint leaves only the next number.                  *)
GrilleLigne ==
    [offre : Offres, devise : Devises, version : Nat \ {0},
     debut : Dates, fin : Dates \union {Nul}, statut : StatutsCatalogue]

DeOffre(t, o) == {g \in Grilles : \E l \in t[g] : l.offre = o}

VersionsDe(t, o) == {l.version : l \in UNION {t[g] : g \in DeOffre(t, o)}}

VersionsSuivies(t) ==
    \A o \in Offres : /\ IsFiniteSet(DeOffre(t, o))
                      /\ VersionsDe(t, o) = 1..Cardinality(DeOffre(t, o))

Versionne(t, i, k) ==
    IF t[i] = {} THEN k.version <= Cardinality(DeOffre(t, k.offre)) + 1
    ELSE \E l \in t[i] : l.offre = k.offre /\ l.version = k.version

EcritureGrille(q, t) ==
    /\ q.id \in Grilles /\ q.ligne \in GrilleLigne
    /\ q.insertion = TRUE => q.ligne.version <= Cardinality(DeOffre(t, q.ligne.offre)) + 1
    /\ q.insertion # TRUE => \E l \in t[q.id] : l.offre = q.ligne.offre /\ l.version = q.ligne.version

SuiviGrilles(req, t) ==
    \A r \in Requetes : \A q \in req[r] : q.table = "grille" => EcritureGrille(q, t)

InvVersions ==
    /\ Table1(grilles, Grilles, GrilleLigne)
    /\ SuiviGrilles(requete, grilles)
    /\ VersionsSuivies(grilles)

LEMMA GrilleColonnes == Colonnes(GrilleLigne)
BY DEF Colonnes, GrilleLigne

LEMMA VersionsHors ==
    ASSUME InvVersions, NEW T, HeriteActe(T), "grille" \notin T, UNCHANGED grilles
    PROVE  InvVersions'
<1>1. \A p, q : Contenu(q) = Contenu(p) =>
          p.table = q.table /\ p.id = q.id /\ p.ligne = q.ligne /\ p.insertion = q.insertion
      BY DEF Contenu
<1>2. \A s \in Requetes : \A p \in requete'[s] : p.table = "grille" =>
          \E q \in requete[s] : /\ p.table = q.table /\ p.id = q.id
                                /\ p.ligne = q.ligne /\ p.insertion = q.insertion
      BY <1>1 DEF HeriteActe
<1>3. SuiviGrilles(requete', grilles)
  <2> SUFFICES ASSUME NEW s \in Requetes, NEW p \in requete'[s], p.table = "grille"
               PROVE  EcritureGrille(p, grilles)
      BY DEF SuiviGrilles
  <2>1. PICK q \in requete[s] : /\ p.table = q.table /\ p.id = q.id
                                /\ p.ligne = q.ligne /\ p.insertion = q.insertion
      BY <1>2
  <2>2. EcritureGrille(q, grilles)
      BY <2>1 DEF InvVersions, SuiviGrilles
  <2> QED  BY <2>1, <2>2 DEF EcritureGrille
<1> QED  BY <1>3 DEF InvVersions

LEMMA VersionsTraiter ==
    ASSUME Socle, InvVersions, NEW r \in Requetes, NEW g \in Grilles, NEW k \in GrilleLigne, NEW type,
           Traiter(r, "grille", grilles, g, k, type), UNCHANGED grilles, Versionne(grilles, g, k)
    PROVE  InvVersions'
<1> DEFINE q == Ecriture("grille", g, k, grilles[g] = {}, type)
<1>1. Debute(requete, requete', r, {q})
      BY TraiterDebute
<1>2. q.table = "grille" /\ q.id = g /\ q.ligne = k /\ (q.insertion = TRUE <=> grilles[g] = {})
      BY DEF Ecriture
<1> HIDE DEF q
<1>3. \A s \in Requetes : requete'[s] = IF s = r THEN {q} ELSE requete[s]
      BY <1>1 DEF Debute, Socle, ReqOK
<1>4. EcritureGrille(q, grilles)
      BY <1>2 DEF EcritureGrille, Versionne
<1>5. SuiviGrilles(requete', grilles)
      BY <1>3, <1>4 DEF InvVersions, SuiviGrilles
<1> QED  BY <1>5 DEF InvVersions

LEMMA VersionsDit ==
    ASSUME NEW t, NEW o, NEW v
    PROVE  v \in VersionsDe(t, o) <=> \E g \in DeOffre(t, o) : \E l \in t[g] : l.version = v
BY DEF VersionsDe

LEMMA DerniereVersion ==
    ASSUME InvVersions, NEW o \in Offres
    PROVE  /\ findLatestVersion(o) = Cardinality(DeOffre(grilles, o))
           /\ Cardinality(DeOffre(grilles, o)) \in Nat
<1> DEFINE n == Cardinality(DeOffre(grilles, o))
           V == Versions(o)
<1>1. V = VersionsDe(grilles, o)
      BY DEF Versions, VersionsDe, GrillesDe, DeOffre
<1>2. n \in Nat /\ V = 1..n
      BY <1>1, FS_CardinalityType DEF InvVersions, VersionsSuivies
<1>3. findLatestVersion(o) = IF V = {} THEN 0 ELSE CHOOSE v \in V : \A w \in V : w <= v
      BY DEF findLatestVersion
<1> HIDE DEF V, n
<1>4. ASSUME n = 0 PROVE findLatestVersion(o) = n
      BY <1>2, <1>3, <1>4
<1>5. ASSUME n # 0 PROVE findLatestVersion(o) = n
  <2> DEFINE x == CHOOSE v \in V : \A w \in V : w <= v
  <2>1. V # {} /\ n \in V /\ \A w \in V : w <= n
      BY <1>2, <1>5
  <2>2. x \in V /\ \A w \in V : w <= x
      BY <2>1
  <2>3. findLatestVersion(o) = x
      BY <1>3, <2>1
  <2> HIDE DEF x
  <2>4. x = n
      BY <1>2, <2>1, <2>2
  <2> QED  BY <2>3, <2>4
<1>6. findLatestVersion(o) = n
      BY <1>4, <1>5
<1> QED  BY <1>2, <1>6 DEF n

(* The commit of a row keeps the offer and the version of the row that it  *)
(* updates, or adds the next version of the offer.                         *)
LEMMA VersionsCommit ==
    ASSUME Socle, InvVersions, NEW r \in Requetes, commitGrille(r)
    PROVE  InvVersions'
<1> DEFINE t == grilles
           t2 == ApresTout(r, t)
<1>1. Valider(r, "grille", t) /\ Terminer(r) /\ grilles' = t2
      BY DEF commitGrille, Valider
<1>2. PICK q \in requete[r] : requete[r] = {q} /\ q.table = "grille" /\ q.insertion \in BOOLEAN
  <2>1. PICK q \in requete[r] : TRUE
      BY <1>1 DEF Terminer
  <2> QED  BY <1>1, <2>1 DEF Valider, Socle, ReqOK, CleUnique, EcritureOK
<1>3. EcritureGrille(q, t) /\ Table1(t, Grilles, GrilleLigne)
      BY <1>2 DEF InvVersions, SuiviGrilles
<1>4. DOMAIN t = Grilles /\ q.id \in Grilles /\ q.ligne \in GrilleLigne
      BY <1>3 DEF Table1, EcritureGrille
<1>5. Table1(t2, Grilles, GrilleLigne)
  <2>1. \A p, x \in requete[r] : p.id = x.id => p = x
      BY <1>2
  <2>2. \A p \in requete[r] : p.id \in Grilles /\ p.ligne \in GrilleLigne
      BY <1>2, <1>4
  <2> QED  BY <1>3, <2>1, <2>2, GrilleColonnes, ApresDeTable DEF ApresTout
<1>6. /\ \A g \in Grilles : g # q.id => t2[g] = t[g]
      /\ t2[q.id] = Apres(q, t)[q.id]
  <2>1. {x \in requete[r] : x.id = q.id} = {q}
      BY <1>2
  <2>2. \A g \in Grilles : g # q.id => ~\E x \in requete[r] : x.id = g
      BY <1>2
  <2> QED  BY <1>2, <1>4, <2>1, <2>2 DEF ApresTout, ApresDe
<1>7. Apres(q, t)[q.id] = IF q.insertion THEN {q.ligne} ELSE {Fusion(q, l) : l \in t[q.id]}
      BY <1>4 DEF Apres
<1> DEFINE o == q.ligne.offre
           v == q.ligne.version
           n == Cardinality(DeOffre(t, o))
<1>8. o \in Offres /\ v \in Nat \ {0}
      BY <1>4 DEF GrilleLigne
<1>9. \A x \in Offres : /\ IsFiniteSet(DeOffre(t, x)) /\ Cardinality(DeOffre(t, x)) \in Nat
                        /\ VersionsDe(t, x) = 1..Cardinality(DeOffre(t, x))
      BY FS_CardinalityType DEF InvVersions, VersionsSuivies
<1>10. q.insertion = TRUE => t[q.id] = {} /\ v \notin VersionsDe(t, o) /\ v <= n + 1
  <2> SUFFICES ASSUME q.insertion = TRUE
               PROVE  t[q.id] = {} /\ v \notin VersionsDe(t, o) /\ v <= n + 1
      OBVIOUS
  <2>1. t[q.id] = {}
      BY <1>1, <1>2 DEF Valider, ClesLibres
  <2>2. VersionsDe(t, o) = Versions(o)
      BY DEF Versions, VersionsDe, GrillesDe, DeOffre
  <2>3. v \notin Versions(o)
      BY <1>2 DEF commitGrille
  <2> QED  BY <1>3, <2>1, <2>2, <2>3 DEF EcritureGrille
<1> HIDE DEF t2
<1>11. ASSUME q.insertion = TRUE
       PROVE  /\ VersionsSuivies(t2)
              /\ \A x \in Offres : Cardinality(DeOffre(t, x)) <= Cardinality(DeOffre(t2, x))
              /\ \A g \in Grilles : \A l \in t[g] : l \in t2[g]
  <2>1. t2[q.id] = {q.ligne} /\ t[q.id] = {} /\ v = n + 1
      BY <1>6, <1>7, <1>8, <1>9, <1>10, <1>11
  <2>2. \A x \in Offres : x # o => DeOffre(t2, x) = DeOffre(t, x)
      BY <1>6, <2>1 DEF DeOffre
  <2>3. DeOffre(t2, o) = DeOffre(t, o) \union {q.id} /\ q.id \notin DeOffre(t, o)
      BY <1>4, <1>6, <2>1 DEF DeOffre
  <2>4. \A x \in Offres : x # o => VersionsDe(t2, x) = VersionsDe(t, x)
    <3> SUFFICES ASSUME NEW x \in Offres, x # o PROVE VersionsDe(t2, x) = VersionsDe(t, x)
        OBVIOUS
    <3>1. \A g \in DeOffre(t, x) : t2[g] = t[g]
        BY <1>6, <2>1 DEF DeOffre
    <3>2. DeOffre(t2, x) = DeOffre(t, x)
        BY <2>2
    <3> QED  BY <3>1, <3>2 DEF VersionsDe
  <2>5. VersionsDe(t2, o) = VersionsDe(t, o) \union {v}
    <3>1. \A g \in DeOffre(t, o) : t2[g] = t[g]
        BY <1>6, <2>3 DEF DeOffre
    <3>2. ASSUME NEW x
          PROVE  x \in VersionsDe(t2, o) <=> x \in VersionsDe(t, o) \/ x = v
      <4>1. x \in VersionsDe(t2, o) <=> \E g \in DeOffre(t2, o) : \E l \in t2[g] : l.version = x
          BY VersionsDit
      <4>2. x \in VersionsDe(t, o) <=> \E g \in DeOffre(t, o) : \E l \in t[g] : l.version = x
          BY VersionsDit
      <4>3. (\E l \in t2[q.id] : l.version = x) <=> x = v
          BY <2>1
      <4> HIDE DEF o, v, t
      <4> QED  BY <2>3, <3>1, <4>1, <4>2, <4>3
    <3> QED  BY <3>2
  <2>6. IsFiniteSet(DeOffre(t2, o)) /\ Cardinality(DeOffre(t2, o)) = n + 1
    <3>1. IsFiniteSet(DeOffre(t, o))
        BY <1>8, <1>9
    <3> QED  BY <2>3, <3>1, FS_AddElement
  <2>7. n \in Nat /\ VersionsDe(t, o) = 1..n
      BY <1>8, <1>9
  <2>8. VersionsDe(t2, o) = 1..(n + 1)
      BY <2>1, <2>5, <2>7
  <2>9. ASSUME NEW x \in Offres
        PROVE  /\ IsFiniteSet(DeOffre(t2, x)) /\ VersionsDe(t2, x) = 1..Cardinality(DeOffre(t2, x))
               /\ Cardinality(DeOffre(t, x)) <= Cardinality(DeOffre(t2, x))
    <3>1. CASE x = o
        BY <2>6, <2>7, <2>8, <3>1
    <3>2. CASE x # o
        BY <1>9, <2>2, <2>4, <3>2
    <3> QED  BY <3>1, <3>2
  <2>10. \A g \in Grilles : \A l \in t[g] : l \in t2[g]
      BY <1>6, <2>1
  <2> QED  BY <2>9, <2>10 DEF VersionsSuivies
<1>12. ASSUME q.insertion = FALSE
       PROVE  /\ VersionsSuivies(t2)
              /\ \A x \in Offres : Cardinality(DeOffre(t, x)) <= Cardinality(DeOffre(t2, x))
              /\ \A g \in Grilles : \A l \in t[g] : \E m \in t2[g] : m.offre = l.offre /\ m.version = l.version
  <2>1. PICK l \in t[q.id] : l.offre = o /\ l.version = v
      BY <1>3, <1>12 DEF EcritureGrille
  <2>2. t[q.id] = {l}
      BY <1>3, <1>4, <2>1 DEF Table1
  <2> DEFINE m == Fusion(q, l)
  <2>3. t2[q.id] = {m}
      BY <1>6, <1>7, <1>12, <2>2
  <2>4. m.offre = o /\ m.version = v
    <3>1. "offre" \in DOMAIN q.ligne /\ "version" \in DOMAIN q.ligne
        BY <1>4 DEF GrilleLigne
    <3> QED  BY <2>1, <3>1 DEF Fusion
  <2> HIDE DEF m
  <2>5. \A x \in Offres : DeOffre(t2, x) = DeOffre(t, x)
      BY <1>6, <2>1, <2>2, <2>3, <2>4 DEF DeOffre
  <2>6. \A x \in Offres : VersionsDe(t2, x) = VersionsDe(t, x)
    <3> SUFFICES ASSUME NEW x \in Offres PROVE VersionsDe(t2, x) = VersionsDe(t, x)
        OBVIOUS
    <3>1. \A g \in DeOffre(t, x) : {k.version : k \in t2[g]} = {k.version : k \in t[g]}
        BY <1>6, <2>1, <2>2, <2>3, <2>4 DEF DeOffre
    <3>2. \A w : w \in VersionsDe(t, x) <=> \E g \in DeOffre(t, x) : w \in {k.version : k \in t[g]}
        BY DEF VersionsDe
    <3>3. \A w : w \in VersionsDe(t2, x) <=> \E g \in DeOffre(t2, x) : w \in {k.version : k \in t2[g]}
        BY DEF VersionsDe
    <3> QED  BY <2>5, <3>1, <3>2, <3>3
  <2>7. VersionsSuivies(t2)
      BY <2>5, <2>6 DEF InvVersions, VersionsSuivies
  <2>8. \A x \in Offres : Cardinality(DeOffre(t, x)) <= Cardinality(DeOffre(t2, x))
      BY <1>9, <2>5
  <2> QED  BY <1>6, <2>1, <2>2, <2>3, <2>4, <2>7, <2>8
<1>13. /\ VersionsSuivies(t2)
       /\ \A x \in Offres : /\ Cardinality(DeOffre(t, x)) <= Cardinality(DeOffre(t2, x))
                            /\ Cardinality(DeOffre(t2, x)) \in Nat
       /\ \A g \in Grilles : \A l \in t[g] : \E m \in t2[g] : m.offre = l.offre /\ m.version = l.version
  <2>1. \A x \in Offres : IsFiniteSet(DeOffre(t2, x))
      BY <1>2, <1>11, <1>12 DEF VersionsSuivies
  <2> QED  BY <1>2, <1>11, <1>12, <2>1, FS_CardinalityType
<1>14. ASSUME NEW s \in Requetes, NEW p \in requete'[s], p.table = "grille"
       PROVE  EcritureGrille(p, t2)
  <2>1. PICK x \in requete[s] : Contenu(x) = Contenu(p)
    <3>1. HeriteActe({})
        BY <1>1, TerminerActe, ActeHerite
    <3> QED  BY <3>1 DEF HeriteActe
  <2>2. x.table = "grille" /\ p.id = x.id /\ p.ligne = x.ligne /\ p.insertion = x.insertion
      BY <1>14, <2>1 DEF Contenu
  <2>3. EcritureGrille(x, t)
      BY <2>2 DEF InvVersions, SuiviGrilles
  <2>4. p.id \in Grilles /\ p.ligne \in GrilleLigne /\ p.ligne.offre \in Offres /\ p.ligne.version \in Nat
      BY <2>2, <2>3 DEF EcritureGrille, GrilleLigne
  <2>5. p.insertion = TRUE => p.ligne.version <= Cardinality(DeOffre(t2, p.ligne.offre)) + 1
      BY <1>9, <1>13, <2>2, <2>3, <2>4 DEF EcritureGrille
  <2>6. p.insertion # TRUE => \E l \in t2[p.id] : l.offre = p.ligne.offre /\ l.version = p.ligne.version
      BY <1>13, <2>2, <2>3, <2>4 DEF EcritureGrille
  <2> QED  BY <2>4, <2>5, <2>6 DEF EcritureGrille
<1>15. SuiviGrilles(requete', t2)
      BY <1>14 DEF SuiviGrilles
<1> QED  BY <1>1, <1>5, <1>13, <1>15 DEF InvVersions

(* A certified currency stays so, and the grids are in certified           *)
(* currencies, two published ones of an offer and a currency apart.        *)
Diffusee(l) == l.statut = "publie" /\ l.actif = TRUE

Certifie(f, d) == \E l \in f[<<"devise", d>>] : Diffusee(l)

Certifiant(f) ==
    {t \in [CodesFiches -> SUBSET FicheRow] : \A d \in Devises : Certifie(f, d) => Certifie(t, d)}

Disjointes(a, b) ==
    a.offre = b.offre /\ a.devise = b.devise /\ a.statut = "publie" /\ b.statut = "publie"
        => ~rangesOverlap(a, b)

GrillesBonnes(f) ==
    {t \in [Grilles -> SUBSET GrilleLigne] :
        /\ \A g, h \in Grilles : g # h => \A l \in t[g], m \in t[h] : Disjointes(l, m)
        /\ \A g \in Grilles : \A l \in t[g] : Certifie(f, l.devise)}

FichesSuivies(req, rec, f) ==
    TableSuivie(req, rec, "fiche", f, CodesFiches, FicheRow, Certifiant(f))

GrillesSuivies(req, rec, f, t) ==
    TableSuivie(req, rec, "grille", t, Grilles, GrilleLigne, GrillesBonnes(f))

InvTarif ==
    /\ InvVersions
    /\ FichesSuivies(requete, recouvrement, fiches)
    /\ GrillesSuivies(requete, recouvrement, fiches, grilles)

LEMMA FicheColonnes == Colonnes(FicheRow)
BY DEF Colonnes, FicheRow

LEMMA CertifieEgal ==
    ASSUME Table1(fiches, CodesFiches, FicheRow), NEW d \in Devises
    PROVE  isCertified(d) <=> Certifie(fiches, d)
<1>1. <<"devise", d>> \in CodesFiches
      BY DEF CodesFiches
<1>2. \A l \in fiches[<<"devise", d>>] : l.actif \in BOOLEAN
      BY <1>1 DEF Table1, FicheRow
<1>3. \A l \in fiches[<<"devise", d>>] : l.actif <=> l.actif = TRUE
      BY <1>2, Zenon
<1> QED  BY <1>3 DEF isCertified, Certifie, Diffusee

LEMMA CertifiantSoi ==
    ASSUME NEW f, Table1(f, CodesFiches, FicheRow)
    PROVE  f \in Certifiant(f)
BY DEF Certifiant, Table1

(* A write to a row that is no published, active currency, or leaves it so.*)
LEMMA CertifiantAvec ==
    ASSUME NEW f, Table1(f, CodesFiches, FicheRow), NEW i \in CodesFiches, NEW k \in FicheRow,
           \/ \A d \in Devises : i # <<"devise", d>>
           \/ \A l \in f[i] : Diffusee(l) => Diffusee(k)
    PROVE  Avec(f, i, k) \in Certifiant(f)
<1> DEFINE t == Avec(f, i, k)
<1>1. f \in [CodesFiches -> SUBSET FicheRow]
      BY DEF Table1
<1>2. /\ t \in [CodesFiches -> SUBSET FicheRow] /\ t[i] = {k}
      /\ \A c \in CodesFiches : c # i => t[c] = f[c]
      BY <1>1 DEF Avec
<1> HIDE DEF t
<1>3. ASSUME NEW d \in Devises, Certifie(f, d)
      PROVE  Certifie(t, d)
  <2> DEFINE c == <<"devise", d>>
  <2>1. c \in CodesFiches
      BY DEF CodesFiches
  <2>2. PICK l \in f[c] : Diffusee(l)
      BY <1>3 DEF Certifie
  <2>3. i # c \/ \A m \in f[i] : Diffusee(m) => Diffusee(k)
      OBVIOUS
  <2> HIDE DEF c
  <2>4. \E m \in t[c] : Diffusee(m)
    <3>1. CASE i = c
        BY <1>2, <2>2, <2>3, <3>1
    <3>2. CASE i # c
        BY <1>2, <2>1, <2>2, <3>2
    <3> QED  BY <3>1, <3>2
  <2> QED  BY <2>4 DEF Certifie, c
<1> QED  BY <1>2, <1>3 DEF Certifiant, t

LEMMA CertifiantGarde ==
    ASSUME NEW f, NEW f2 \in Certifiant(f), NEW t \in GrillesBonnes(f)
    PROVE  t \in GrillesBonnes(f2)
<1>1. \A g \in Grilles : \A l \in t[g] : l.devise \in Devises
      BY DEF GrillesBonnes, GrilleLigne
<1> QED  BY <1>1 DEF Certifiant, GrillesBonnes

(* A grid that overlaps no other, in a certified currency.                 *)
LEMMA GrillesAvec ==
    ASSUME NEW f, NEW t \in GrillesBonnes(f), NEW g \in Grilles, NEW k \in GrilleLigne,
           Certifie(f, k.devise),
           \A h \in Grilles : h # g => \A m \in t[h] : Disjointes(k, m)
    PROVE  Avec(t, g, k) \in GrillesBonnes(f)
<1> DEFINE t2 == Avec(t, g, k)
<1>1. t \in [Grilles -> SUBSET GrilleLigne]
      BY DEF GrillesBonnes
<1>2. /\ t2 \in [Grilles -> SUBSET GrilleLigne] /\ t2[g] = {k}
      /\ \A h \in Grilles : h # g => t2[h] = t[h]
      BY <1>1 DEF Avec
<1> HIDE DEF t2
<1>3. \A a, b : Disjointes(a, b) => Disjointes(b, a)
      BY DEF Disjointes, rangesOverlap
<1>4. ASSUME NEW a \in Grilles, NEW b \in Grilles, a # b, NEW l \in t2[a], NEW m \in t2[b]
      PROVE  Disjointes(l, m)
  <2>1. CASE a = g
      BY <1>2, <1>4, <2>1
  <2>2. CASE b = g
      BY <1>2, <1>3, <1>4, <2>2
  <2>3. CASE a # g /\ b # g
      BY <1>2, <1>4, <2>3 DEF GrillesBonnes
  <2> QED  BY <2>1, <2>2, <2>3
<1>5. ASSUME NEW a \in Grilles, NEW l \in t2[a]
      PROVE  Certifie(f, l.devise)
      BY <1>2, <1>5 DEF GrillesBonnes
<1> QED  BY <1>2, <1>4, <1>5 DEF GrillesBonnes, t2

LEMMA TarifInit == Init => InvTarif
<1> SUFFICES ASSUME Init PROVE InvTarif
    OBVIOUS
<1>1. requete = [r \in Requetes |-> {}] /\ grilles = Table(Grilles, Aucune)
      BY DEF Init, InitUnite, Demarrage
<1>2. DOMAIN Aucune = {}
      BY DEF Aucune
<1>3. Table1(grilles, Grilles, GrilleLigne)
      BY <1>1, <1>2, TableDepart
<1>4. \A g \in Grilles : grilles[g] = {}
      BY <1>1, <1>2 DEF Table
<1>5. \A o \in Offres : DeOffre(grilles, o) = {} /\ VersionsDe(grilles, o) = {}
      BY <1>4 DEF DeOffre, VersionsDe
<1>6. Cardinality({}) = 0 /\ IsFiniteSet({}) /\ 1..0 = {}
      BY FS_EmptySet
<1>7. VersionsSuivies(grilles)
      BY <1>5, <1>6 DEF VersionsSuivies
<1>8. InvVersions
      BY <1>1, <1>3, <1>7 DEF InvVersions, SuiviGrilles
<1>9. grilles \in GrillesBonnes(fiches)
      BY <1>3, <1>4 DEF GrillesBonnes, Table1
<1>10. Table1(fiches, CodesFiches, FicheRow)
  <2> DEFINE K == {<<"pays", p1>>, <<"devise", d1>>, <<"devise", d2>>, <<"langue", l1>>}
             s(k) == IF k[2] = d2 THEN "valide" ELSE "publie"
             f == [k \in K |-> [actif |-> TRUE, statut |-> s(k)]]
  <2>1. fiches = Table(CodesFiches, f)
      BY DEF Init, Demarrage
  <2>2. \A k \in K : s(k) \in StatutsFiche
      BY DEF StatutsFiche
  <2> HIDE DEF K, s
  <2>3. \A i \in DOMAIN f : f[i] \in FicheRow
      BY <2>2 DEF FicheRow
  <2> HIDE DEF f
  <2> QED  BY <2>1, <2>3, TableDepart
<1> QED  BY <1>1, <1>3, <1>8, <1>9, <1>10, CertifiantSoi, TableSuivieDepart
         DEF InvTarif, FichesSuivies, GrillesSuivies

(* What leaves the grids and the currencies alone; the saves.              *)
LEMMA TarifHors ==
    ASSUME Socle, InvTarif, Ailleurs({"fiche", "grille"}), UNCHANGED <<fiches, grilles>>
    PROVE  InvTarif'
<1> DEFINE T == {"fiche", "grille"}
<1>1. "fiche" \in T /\ "grille" \in T /\ Ailleurs(T) /\ ReqOK(requete)
      BY DEF Socle
<1> HIDE DEF T
<1>2. FichesSuivies(requete', recouvrement', fiches)
      BY <1>1, TableSuivieHors DEF InvTarif, FichesSuivies
<1>3. GrillesSuivies(requete', recouvrement', fiches, grilles)
      BY <1>1, TableSuivieHors DEF InvTarif, GrillesSuivies
<1>4. InvVersions'
  <2>1. ASSUME UNCHANGED requete PROVE InvVersions'
      BY <2>1 DEF InvTarif, InvVersions
  <2>2. ASSUME NEW S, Acte(S), S \intersect T = {} PROVE InvVersions'
    <3>1. HeriteActe(S) /\ "grille" \notin S
        BY <1>1, <2>2, ActeHerite
    <3> QED  BY <3>1, VersionsHors DEF InvTarif
  <2> QED  BY <1>1, <2>1, <2>2 DEF Ailleurs
<1> QED  BY <1>2, <1>3, <1>4 DEF InvTarif

LEMMA TarifSaveGrille ==
    ASSUME Socle, InvTarif, NEW r \in Requetes, save(r, "grille", grilles), UNCHANGED <<fiches, grilles>>
    PROVE  InvTarif'
<1> DEFINE T == {"fiche"}
<1>1. "fiche" \in T /\ Ailleurs(T) /\ ReqOK(requete)
  <2>1. Acte({"grille"}) /\ {"grille"} \intersect T = {}
      BY saveActe
  <2> QED  BY <2>1 DEF Socle, Ailleurs
<1> HIDE DEF T
<1>2. FichesSuivies(requete', recouvrement', fiches)
      BY <1>1, TableSuivieHors DEF InvTarif, FichesSuivies
<1>3. GrillesSuivies(requete', recouvrement', fiches, grilles)
      BY <1>1, TableSuivieSave DEF InvTarif, GrillesSuivies
<1>4. HeriteActe({}) /\ "grille" \notin {}
      BY saveHerite
<1> QED  BY <1>2, <1>3, <1>4, VersionsHors DEF InvTarif

LEMMA TarifSaveFiche ==
    ASSUME Socle, InvTarif, NEW r \in Requetes, save(r, "fiche", fiches), UNCHANGED <<fiches, grilles>>
    PROVE  InvTarif'
<1> DEFINE T == {"grille"}
<1>1. "grille" \in T /\ Ailleurs(T) /\ ReqOK(requete)
  <2>1. Acte({"fiche"}) /\ {"fiche"} \intersect T = {}
      BY saveActe
  <2> QED  BY <2>1 DEF Socle, Ailleurs
<1> HIDE DEF T
<1>2. FichesSuivies(requete', recouvrement', fiches)
      BY <1>1, TableSuivieSave DEF InvTarif, FichesSuivies
<1>3. GrillesSuivies(requete', recouvrement', fiches, grilles)
      BY <1>1, TableSuivieHors DEF InvTarif, GrillesSuivies
<1>4. HeriteActe({}) /\ "grille" \notin {}
      BY saveHerite
<1> QED  BY <1>2, <1>3, <1>4, VersionsHors DEF InvTarif

(* The writes that the use-cases prepare.                                  *)
LEMMA TarifTraiterFiche ==
    ASSUME Socle, InvTarif, NEW r \in Requetes, NEW i \in CodesFiches, NEW k \in FicheRow, NEW type,
           Traiter(r, "fiche", fiches, i, k, type), UNCHANGED <<fiches, grilles>>,
           \/ \A d \in Devises : i # <<"devise", d>>
           \/ \A l \in fiches[i] : Diffusee(l) => Diffusee(k)
    PROVE  InvTarif'
<1> DEFINE T == {"grille"}
<1>1. "grille" \in T /\ Ailleurs(T) /\ ReqOK(requete) /\ Acte({"fiche"}) /\ "grille" \notin {"fiche"}
  <2>1. Acte({"fiche"}) /\ {"fiche"} \intersect T = {}
      BY TraiterActe
  <2> QED  BY <2>1 DEF Socle, Ailleurs
<1> HIDE DEF T
<1>2. Avec(fiches, i, k) \in Certifiant(fiches)
      BY CertifiantAvec DEF InvTarif, FichesSuivies, TableSuivie
<1>3. FichesSuivies(requete', recouvrement', fiches)
      BY <1>1, <1>2, TableSuivieTraiter DEF InvTarif, FichesSuivies
<1>4. GrillesSuivies(requete', recouvrement', fiches, grilles)
      BY <1>1, TableSuivieHors DEF InvTarif, GrillesSuivies
<1>5. InvVersions'
      BY <1>1, ActeHerite, VersionsHors DEF InvTarif
<1> QED  BY <1>3, <1>4, <1>5 DEF InvTarif

LEMMA TarifTraiterGrille ==
    ASSUME Socle, InvTarif, NEW r \in Requetes, NEW g \in Grilles, NEW k \in GrilleLigne, NEW type,
           Traiter(r, "grille", grilles, g, k, type), UNCHANGED <<fiches, grilles>>,
           Versionne(grilles, g, k),
           grilles \in GrillesBonnes(fiches) => Avec(grilles, g, k) \in GrillesBonnes(fiches)
    PROVE  InvTarif'
<1> DEFINE T == {"fiche"}
<1>1. "fiche" \in T /\ Ailleurs(T) /\ ReqOK(requete)
  <2>1. Acte({"grille"}) /\ {"grille"} \intersect T = {}
      BY TraiterActe
  <2> QED  BY <2>1 DEF Socle, Ailleurs
<1> HIDE DEF T
<1>2. FichesSuivies(requete', recouvrement', fiches)
      BY <1>1, TableSuivieHors DEF InvTarif, FichesSuivies
<1>3. GrillesSuivies(requete', recouvrement', fiches, grilles)
      BY <1>1, TableSuivieTraiter DEF InvTarif, GrillesSuivies
<1>4. InvVersions'
      BY VersionsTraiter DEF InvTarif
<1> QED  BY <1>2, <1>3, <1>4 DEF InvTarif

(* The use-cases of the grids.                                             *)
LEMMA TarifLecture ==
    ASSUME Socle, InvTarif, NEW r \in Requetes, Tarif(r), UNCHANGED <<fiches, grilles>>
    PROVE  InvTarif'
<1> DEFINE t == grilles
<1>1. Table1(t, Grilles, GrilleLigne) /\ Table1(fiches, CodesFiches, FicheRow)
      BY DEF InvTarif, GrillesSuivies, FichesSuivies, TableSuivie
<1>2. /\ \A g \in Grilles : \A l \in t[g] : l \in GrilleLigne
      /\ \A g \in Grilles : \A l, m \in t[g] : l = m
      BY <1>1 DEF Table1
<1>3. ASSUME NEW g \in Grilles, NEW debut \in Dates, NEW fin \in Dates \union {Nul},
             CreateGrilleTarifaire(r, g, f1, d2, debut, fin)
      PROVE  InvTarif'
  <2> DEFINE v == findLatestVersion(f1) + 1
             k == [offre |-> f1, devise |-> d2, version |-> v,
                   debut |-> debut, fin |-> fin, statut |-> "brouillon"]
  <2>1. /\ t[g] = {} /\ isCertified(d2)
        /\ Traiter(r, "grille", grilles, g, k, "PRICING_GRID_CREATED")
      BY <1>3 DEF CreateGrilleTarifaire, Neuf
  <2>2. f1 \in Offres /\ d2 \in Devises
      BY NoyauAssumption
  <2>3. v = Cardinality(DeOffre(t, f1)) + 1 /\ v \in Nat \ {0}
      BY <2>2, DerniereVersion DEF InvTarif
  <2> HIDE DEF v
  <2>4. /\ k \in GrilleLigne /\ k.offre = f1 /\ k.devise = d2 /\ k.version = v
        /\ k.statut = "brouillon"
      BY <2>2, <2>3 DEF GrilleLigne, StatutsCatalogue
  <2> HIDE DEF k
  <2>5. Versionne(t, g, k)
      BY <2>1, <2>3, <2>4 DEF Versionne
  <2>6. Certifie(fiches, k.devise)
      BY <1>1, <2>1, <2>2, <2>4, CertifieEgal
  <2>7. \A h \in Grilles : h # g => \A m \in t[h] : Disjointes(k, m)
      BY <2>4 DEF Disjointes
  <2>8. t \in GrillesBonnes(fiches) => Avec(t, g, k) \in GrillesBonnes(fiches)
      BY <2>4, <2>6, <2>7, GrillesAvec
  <2> QED  BY <2>1, <2>4, <2>5, <2>8, TarifTraiterGrille
<1>4. ASSUME NEW g \in Grilles, NEW s \in StatutsCatalogue, TransitionGrille(r, g, s)
      PROVE  InvTarif'
  <2>1. PICK l, type : l \in t[g] /\ Traiter(r, "grille", grilles, g, [l EXCEPT !.statut = s], type)
      BY <1>4 DEF TransitionGrille, TransitionCatalog
  <2> DEFINE k == [l EXCEPT !.statut = s]
  <2>2. Traiter(r, "grille", grilles, g, k, type)
      BY <2>1
  <2>3. l \in GrilleLigne
      BY <1>2, <2>1
  <2>4. /\ k \in GrilleLigne /\ k.offre = l.offre /\ k.devise = l.devise /\ k.version = l.version
        /\ k.debut = l.debut /\ k.fin = l.fin /\ k.statut = s
      BY <2>3 DEF GrilleLigne
  <2> HIDE DEF k
  <2>5. Versionne(t, g, k)
      BY <2>1, <2>4 DEF Versionne
  <2>6. ASSUME NEW h \in Grilles, h # g, NEW m \in t[h], k.statut = "publie", m.statut = "publie",
               k.offre = m.offre, k.devise = m.devise
        PROVE  ~rangesOverlap(k, m)
    <3>1. assertNoOverlapWithExisting(g, l)
        BY <1>4, <2>1, <2>4, <2>6 DEF TransitionGrille
    <3>2. h \in findPublieesByOffreEtDevise(l.offre, l.devise) \ {g}
        BY <2>4, <2>6 DEF findPublieesByOffreEtDevise, GrillesDe
    <3>3. ~rangesOverlap(l, m)
        BY <3>1, <3>2 DEF assertNoOverlapWithExisting
    <3> QED  BY <2>4, <3>3 DEF rangesOverlap
  <2>7. \A h \in Grilles : h # g => \A m \in t[h] : Disjointes(k, m)
      BY <2>6 DEF Disjointes
  <2>8. ASSUME t \in GrillesBonnes(fiches) PROVE Avec(t, g, k) \in GrillesBonnes(fiches)
    <3>1. Certifie(fiches, k.devise)
        BY <2>1, <2>4, <2>8 DEF GrillesBonnes
    <3> QED  BY <2>4, <2>7, <2>8, <3>1, GrillesAvec
  <2> QED  BY <2>2, <2>4, <2>5, <2>8, TarifTraiterGrille
<1> QED  BY <1>3, <1>4 DEF Tarif

(* The use-cases of the sheets: none touches a published currency.         *)
LEMMA TarifFiches ==
    ASSUME Socle, InvTarif, NEW r \in Requetes, Fiches(r), UNCHANGED <<fiches, grilles>>
    PROVE  InvTarif'
<1>1. /\ \A i \in CodesFiches : \A l \in fiches[i] : l \in FicheRow
      /\ \A i \in CodesFiches : \A l, m \in fiches[i] : l = m
      BY DEF InvTarif, FichesSuivies, TableSuivie, Table1
<1>2. ASSUME NEW i \in CodesFiches, NEW type, Creer(r, i, type) PROVE InvTarif'
  <2> DEFINE k == [actif |-> TRUE, statut |-> "brouillon"]
  <2>1. fiches[i] = {} /\ Traiter(r, "fiche", fiches, i, k, type)
      BY <1>2 DEF Creer, existe
  <2>2. k \in FicheRow
      BY DEF FicheRow, StatutsFiche
  <2> HIDE DEF k
  <2> QED  BY <2>1, <2>2, TarifTraiterFiche
<1>3. ASSUME NEW i \in CodesFiches, NEW s \in StatutsFiche, NEW type, Transition(r, i, s, type)
      PROVE  InvTarif'
  <2>1. PICK l \in fiches[i] :
            /\ assertTransitionAllowed(l.statut, s)
            /\ \E e : Traiter(r, "fiche", fiches, i, [l EXCEPT !.statut = s], e)
      BY <1>3 DEF Transition
  <2> DEFINE k == [l EXCEPT !.statut = s]
  <2>2. PICK e : Traiter(r, "fiche", fiches, i, k, e)
      BY <2>1
  <2>3. k \in FicheRow
      BY <1>1 DEF FicheRow
  <2> HIDE DEF k
  <2>4. l.statut # "publie"
      BY <2>1 DEF assertTransitionAllowed, TransitionsReferentiel
  <2>5. \A m \in fiches[i] : Diffusee(m) => Diffusee(k)
      BY <1>1, <2>1, <2>4 DEF Diffusee
  <2> QED  BY <2>2, <2>3, <2>5, TarifTraiterFiche
<1>4. ASSUME NEW p \in Pays, UpdatePays(r, p) \/ \E a \in BOOLEAN : SetPaysActivation(r, p, a)
      PROVE  InvTarif'
  <2> DEFINE i == <<"pays", p>>
  <2>1. i \in CodesFiches /\ \A d \in Devises : i # <<"devise", d>>
      BY DEF CodesFiches
  <2>2. ASSUME NEW k \in FicheRow, NEW type, Traiter(r, "fiche", fiches, i, k, type)
        PROVE  InvTarif'
    <3> HIDE DEF i
    <3> QED  BY <2>1, <2>2, TarifTraiterFiche
  <2>3. CASE UpdatePays(r, p)
      BY <1>1, <2>1, <2>2, <2>3 DEF UpdatePays
  <2>4. ASSUME NEW a \in BOOLEAN, SetPaysActivation(r, p, a)
        PROVE  InvTarif'
    <3>1. PICK l, type : l \in fiches[i] /\ Traiter(r, "fiche", fiches, i, [l EXCEPT !.actif = a], type)
        BY <2>4 DEF SetPaysActivation
    <3>2. [l EXCEPT !.actif = a] \in FicheRow
        BY <1>1, <2>1, <3>1 DEF FicheRow
    <3> QED  BY <2>2, <3>1, <3>2
  <2> QED  BY <1>4, <2>3, <2>4
<1>5. /\ \A p \in Pays : <<"pays", p>> \in CodesFiches
      /\ \A d \in Devises : <<"devise", d>> \in CodesFiches
      /\ \A l \in Langues : <<"langue", l>> \in CodesFiches
      /\ \A b \in Blocs : <<"bloc", b>> \in CodesFiches
      BY DEF CodesFiches
<1>6. ASSUME NEW p \in Pays, CreatePays(r, p) \/ \E s \in StatutsFiche : TransitionPays(r, p, s)
      PROVE  InvTarif'
      BY <1>2, <1>3, <1>5, <1>6 DEF CreatePays, TransitionPays
<1>7. ASSUME NEW d \in Devises, CreateDevise(r, d) \/ \E s \in StatutsFiche : TransitionDevise(r, d, s)
      PROVE  InvTarif'
      BY <1>2, <1>3, <1>5, <1>7 DEF CreateDevise, TransitionDevise
<1>8. ASSUME NEW l \in Langues, CreateLangue(r, l) \/ \E s \in StatutsFiche : TransitionLangue(r, l, s)
      PROVE  InvTarif'
      BY <1>2, <1>3, <1>5, <1>8 DEF CreateLangue, TransitionLangue
<1>9. ASSUME NEW b \in Blocs,
             CreateBlocRegional(r, b) \/ \E s \in StatutsFiche : TransitionBlocRegional(r, b, s)
      PROVE  InvTarif'
      BY <1>2, <1>3, <1>5, <1>9 DEF CreateBlocRegional, TransitionBlocRegional
<1> QED  BY <1>4, <1>6, <1>7, <1>8, <1>9 DEF Fiches

(* The commits.                                                            *)
LEMMA TarifCommitGrille ==
    ASSUME Socle, InvTarif, NEW r \in Requetes, commitGrille(r), UNCHANGED fiches
    PROVE  InvTarif'
<1>1. Valider(r, "grille", grilles) /\ grilles' = ApresTout(r, grilles) /\ ReqOK(requete)
      BY DEF Socle, commitGrille
<1>2. Terminer(r)
      BY <1>1 DEF Valider
<1> DEFINE t2 == ApresTout(r, grilles)
<1>3. GrillesSuivies(requete', recouvrement', fiches, t2)
      BY <1>1, GrilleColonnes, TableSuivieValider DEF InvTarif, GrillesSuivies
<1>4. FichesSuivies(requete', recouvrement', fiches)
  <2>1. "fiche" \in {"fiche"} /\ Ailleurs({"fiche"})
    <3>1. Acte({}) /\ {} \intersect {"fiche"} = {}
        BY <1>2, TerminerActe
    <3> QED  BY <3>1 DEF Ailleurs
  <2> QED  BY <1>1, <2>1, TableSuivieHors DEF InvTarif, FichesSuivies
<1>5. InvVersions'
      BY VersionsCommit DEF InvTarif
<1> QED  BY <1>1, <1>3, <1>4, <1>5 DEF InvTarif

LEMMA TarifCommitFiche ==
    ASSUME Socle, InvTarif, NEW r \in Requetes, commitFiche(r), UNCHANGED grilles
    PROVE  InvTarif'
<1> DEFINE f == fiches
           f2 == ApresTout(r, f)
<1>1. Valider(r, "fiche", f) /\ fiches' = f2 /\ ReqOK(requete) /\ Terminer(r)
      BY DEF Socle, commitFiche, Valider
<1>2. TableSuivie(requete', recouvrement', "fiche", f2, CodesFiches, FicheRow, Certifiant(f))
      BY <1>1, FicheColonnes, TableSuivieValider DEF InvTarif, FichesSuivies
<1>3. /\ Table1(f2, CodesFiches, FicheRow)
      /\ Suivi(requete', "fiche", f2, CodesFiches \X FicheRow, CodesFiches \X FicheRow)
      /\ ~recouvrement' => f2 \in Certifiant(f)
      BY <1>2 DEF TableSuivie
<1> DEFINE A == CodesFiches \X FicheRow
           G == Grilles \X GrilleLigne
<1>4. Suivi(requete, "fiche", f, A, A) /\ Suivi(requete, "grille", grilles, G, G)
      BY DEF InvTarif, FichesSuivies, GrillesSuivies, TableSuivie
<1> HIDE DEF f2
<1>5. \A B : Suivi(requete', "fiche", f2, A, B) /\ Suivi(requete', "grille", grilles, G, B)
      BY <1>1, <1>4, SuiviTerminer
<1>6. FichesSuivies(requete', recouvrement', f2)
      BY <1>3, <1>5, CertifiantSoi DEF FichesSuivies, TableSuivie
<1>7. GrillesSuivies(requete', recouvrement', f2, grilles)
  <2>1. Table1(grilles, Grilles, GrilleLigne)
      BY DEF InvTarif, GrillesSuivies, TableSuivie
  <2>2. ASSUME ~recouvrement' PROVE grilles \in GrillesBonnes(f2)
    <3>1. ~recouvrement
        BY <1>1, <2>2, TerminerFinit
    <3>2. grilles \in GrillesBonnes(f)
        BY <3>1 DEF InvTarif, GrillesSuivies, TableSuivie
    <3> QED  BY <1>3, <2>2, <3>2, CertifiantGarde
  <2> QED  BY <1>5, <2>1, <2>2 DEF GrillesSuivies, TableSuivie
<1>8. InvVersions'
  <2>1. Acte({}) /\ "grille" \notin {}
      BY <1>1, TerminerActe
  <2> QED  BY <2>1, ActeHerite, VersionsHors DEF InvTarif
<1> QED  BY <1>1, <1>6, <1>7, <1>8 DEF InvTarif

LEMMA HorsTarif ==
    ASSUME Socle, [Next]_vars, ~ReferentielNext, ~CatalogueNext
    PROVE  UNCHANGED <<fiches, grilles>> /\ Ailleurs({"fiche", "grille"})
<1> DEFINE T == {"fiche", "grille"}
<1>1. /\ TablesEngine \intersect T = {} /\ TablesCorpus \intersect T = {}
      /\ TablesRegistre \intersect T = {} /\ TablesOrg \intersect T = {}
      /\ {"configuration"} \intersect T = {}
      /\ TablesIdentite \intersect T = {} /\ {} \intersect T = {}
      BY DEF TablesOrg, TablesEngine, TablesCorpus, TablesRegistre, TablesIdentite
<1>2. UNCHANGED <<referentielVars, catalogueVars>>
      BY NextContextes DEF EngineNext, CorpusNext, RegistreNext, OrgNext, ConfigNext,
             IdentiteNext, Refus, metierVars
<1>3. UNCHANGED <<requete, recouvrement>> \/ \E S : Acte(S) /\ S \intersect T = {}
  <2> HIDE DEF T
  <2>1. UNCHANGED <<uniteVars, metierVars>> => UNCHANGED <<requete, recouvrement>>
      BY DEF uniteVars
  <2> QED  BY Contextes, <1>1, <2>1
<1> QED  BY <1>2, <1>3 DEF Ailleurs, referentielVars, catalogueVars

LEMMA TarifEtape == Socle /\ InvTarif /\ [Next]_vars => InvTarif'
<1> SUFFICES ASSUME Socle, InvTarif, [Next]_vars PROVE InvTarif'
    OBVIOUS
<1>1. ASSUME NEW S, Acte(S), S \intersect {"fiche", "grille"} = {}, UNCHANGED <<fiches, grilles>>
      PROVE  InvTarif'
      BY <1>1, TarifHors DEF Ailleurs
<1>2. CASE ~ReferentielNext /\ ~CatalogueNext
      BY <1>2, HorsTarif, TarifHors
<1>3. CASE CatalogueNext
  <2> DEFINE S == {"catalogue", "article", "offre", "feature", "droit"}
  <2>1. UNCHANGED fiches /\ S \intersect {"fiche", "grille"} = {}
      BY <1>3 DEF CatalogueNext, referentielVars
  <2>2. /\ "catalogue" \in S /\ "article" \in S /\ "offre" \in S
        /\ "feature" \in S /\ "droit" \in S
      OBVIOUS
  <2> HIDE DEF S
  <2>3. ASSUME NEW r \in Requetes, Diffusion(r) \/ Assortiment(r) \/ Offre(r) \/ Droits(r)
        PROVE  Acte(S)
      BY <2>2, <2>3, TraiterActe
         DEF Diffusion, CreateCatalogue, UpdateCatalogue, TransitionCatalogueWorkflow, TransitionCatalog,
             Assortiment, CreateProduit, UpdateProduit, TransitionProduit,
             Offre, CreateOffre, UpdateOffre, TransitionOffre,
             Droits, CreateFeature, AttachEntitlementToOffre
  <2>4. ASSUME NEW r \in Requetes, saveCatalogue(r)
        PROVE  UNCHANGED grilles /\ (save(r, "grille", grilles) \/ Acte(S))
      BY <2>2, <2>4, saveActe DEF saveCatalogue, catalogueVars
  <2>5. ASSUME NEW r \in Requetes,
               commitCatalogue(r) \/ commitArticle(r) \/ commitOffre(r) \/ commitFeature(r)
        PROVE  UNCHANGED grilles /\ Acte(S)
      BY <2>5, TerminerActe DEF commitCatalogue, commitArticle, commitOffre, commitFeature, Valider
  <2> QED  BY <1>1, <1>3, <2>1, <2>3, <2>4, <2>5, TarifLecture, TarifSaveGrille, TarifCommitGrille
           DEF CatalogueNext, catalogueVars
<1>4. CASE ReferentielNext
  <2> DEFINE S == {"circulation", "langue_pays", "adhesion", "taux", "locale", "traduction"}
  <2>1. UNCHANGED grilles /\ S \intersect {"fiche", "grille"} = {}
      BY <1>4 DEF ReferentielNext, catalogueVars
  <2>2. /\ {"circulation"} \subseteq S /\ {"locale", "traduction"} \subseteq S
        /\ {"langue_pays", "adhesion", "taux"} \subseteq S
      OBVIOUS
  <2> HIDE DEF S
  <2>3. ASSUME NEW r \in Requetes, Liaisons(r) \/ Traduction(r) \/ Circulation(r)
        PROVE  Acte(S)
    <3>1. CASE Liaisons(r)
        BY <2>2, <3>1, LiaisonsActe, ActePlus
    <3>2. CASE Traduction(r)
        BY <2>2, <3>2, SocleSansDouble, TraductionActe, ActePlus
    <3>3. CASE Circulation(r)
        BY <2>2, <3>3, CirculationActe, ActePlus
    <3> QED  BY <2>3, <3>1, <3>2, <3>3
  <2>4. ASSUME NEW r \in Requetes, saveReferentiel(r)
        PROVE  UNCHANGED fiches /\ (save(r, "fiche", fiches) \/ Acte(S))
    <3>1. /\ "circulation" \in S /\ "langue_pays" \in S /\ "adhesion" \in S /\ "taux" \in S
          /\ "locale" \in S /\ "traduction" \in S
        BY <2>2
    <3> QED  BY <2>4, <3>1, saveActe DEF saveReferentiel, referentielVars
  <2>5. ASSUME NEW r \in Requetes, commitRelation(r) \/ commitLocale(r) \/ commitTraduction(r)
        PROVE  UNCHANGED fiches /\ Acte(S)
      BY <2>5, TerminerActe DEF commitRelation, commitLocale, commitTraduction, Valider
  <2> QED  BY <1>1, <1>4, <2>1, <2>3, <2>4, <2>5, TarifFiches, TarifSaveFiche, TarifCommitFiche
           DEF ReferentielNext
<1> QED  BY <1>2, <1>3, <1>4

(* An offer has at most one price in a currency at any date, in certified  *)
(* currencies only, as long as no request has overlapped another; and the  *)
(* versions of its grids run from 1 without a gap, whatever overlaps.      *)
THEOREM PrixUniqueCorrect == Spec => []PrixUnique
<1>1. ASSUME InvTarif PROVE PrixUnique
  <2> DEFINE t == grilles
  <2>1. /\ Table1(t, Grilles, GrilleLigne) /\ Table1(fiches, CodesFiches, FicheRow)
        /\ ~recouvrement => t \in GrillesBonnes(fiches)
      BY <1>1 DEF InvTarif, GrillesSuivies, FichesSuivies, TableSuivie
  <2>2. /\ \A g \in Grilles : \A l \in t[g] : l \in GrilleLigne
        /\ \A g \in Grilles : \A l, m \in t[g] : l = m
      BY <2>1 DEF Table1
  <2>3. \A o \in Offres : Versions(o) = 1..Cardinality(GrillesDe(o))
      BY <1>1 DEF InvTarif, InvVersions, VersionsSuivies, Versions, VersionsDe, GrillesDe, DeOffre
  <2>4. ASSUME ~recouvrement, NEW g \in Grilles, NEW l \in t[g] PROVE isCertified(l.devise)
    <3>1. l.devise \in Devises
        BY <2>2 DEF GrilleLigne
    <3>2. Certifie(fiches, l.devise)
        BY <2>1, <2>4 DEF GrillesBonnes
    <3> QED  BY <2>1, <3>1, <3>2, CertifieEgal
  <2>5. ASSUME ~recouvrement, NEW o \in Offres, NEW v \in Devises, NEW d \in Dates
        PROVE  Cardinality(resolveActivePrice(o, v, d)) <= 1
    <3> DEFINE R == resolveActivePrice(o, v, d)
    <3>1. \A g \in R : g \in Grilles /\ \E l \in t[g] :
              l.offre = o /\ l.devise = v /\ l.statut = "publie" /\ isEffectiveAt(l, d)
        BY <2>2 DEF resolveActivePrice, findPublieesByOffreEtDevise, GrillesDe
    <3>2. ASSUME NEW g \in R, NEW h \in R, g # h PROVE FALSE
      <4>1. PICK l \in t[g] : l.offre = o /\ l.devise = v /\ l.statut = "publie" /\ isEffectiveAt(l, d)
          BY <3>1
      <4>2. PICK m \in t[h] : m.offre = o /\ m.devise = v /\ m.statut = "publie" /\ isEffectiveAt(m, d)
          BY <3>1
      <4>3. l \in GrilleLigne /\ m \in GrilleLigne /\ g \in Grilles /\ h \in Grilles
          BY <2>2, <3>1
      <4>4. ~rangesOverlap(l, m)
          BY <2>1, <2>5, <3>2, <4>1, <4>2, <4>3 DEF GrillesBonnes, Disjointes
      <4>5. /\ l.debut \in Nat /\ m.debut \in Nat /\ d \in Nat
            /\ l.fin = Nul \/ l.fin \in Nat
            /\ m.fin = Nul \/ m.fin \in Nat
          BY <4>3, ReferentielAssumption DEF GrilleLigne
      <4>6. rangesOverlap(l, m)
          BY <4>1, <4>2, <4>5 DEF isEffectiveAt, rangesOverlap
      <4> QED  BY <4>4, <4>6
    <3> HIDE DEF R
    <3>3. ASSUME R = {} PROVE Cardinality(R) <= 1
        BY <3>3, FS_EmptySet
    <3>4. ASSUME NEW g \in R PROVE Cardinality(R) <= 1
      <4>1. R = {g}
          BY <3>2, <3>4
      <4>2. Cardinality({g}) = 1
          BY FS_Singleton
      <4> QED  BY <4>1, <4>2
    <3> QED  BY <3>3, <3>4 DEF R
  <2> QED  BY <2>3, <2>4, <2>5 DEF PrixUnique
<1>2. InvTarif => PrixUnique
      BY <1>1
<1>3. Socle /\ InvTarif /\ [Next]_vars => (Socle /\ InvTarif)'
      BY SocleEtape, TarifEtape
<1> QED  BY SocleInit, TarifInit, <1>2, <1>3, PTL DEF Spec

-----------------------------------------------------------------------------
(* When a request may write several rows of a table, it is the table with  *)
(* all of its writes applied that must be good, u \in G, and the request   *)
(* must not have been overtaken since it read t.                           *)
Voulu(E, nom, t, i) ==
    LET W == {q \in E : q.table = nom /\ q.id = i}
    IN  IF W = {} THEN t[i] ELSE {q.ligne : q \in W}

Applique(E, nom, t, ids) == [i \in ids |-> Voulu(E, nom, t, i)]

LotBon(E, nom, t, ids, G) ==
    (\E q \in E : q.table = nom /\ q.depasse = FALSE) => Applique(E, nom, t, ids) \in G

LotsSuivis(req, nom, t, ids, G) == \A s \in Requetes : LotBon(req[s], nom, t, ids, G)

LEMMA LotDebute ==
    ASSUME NEW req, NEW req2, NEW r \in Requetes, NEW E, NEW nom, NEW t, NEW ids, NEW G,
           ReqOK(req), LotsSuivis(req, nom, t, ids, G), Debute(req, req2, r, E),
           (\E q \in E : q.table = nom) => Applique(E, nom, t, ids) \in G
    PROVE  LotsSuivis(req2, nom, t, ids, G)
<1>1. req2 = [s \in Requetes |-> IF s = r THEN E ELSE req[s]]
      BY DEF Debute, ReqOK
<1>2. LotBon(E, nom, t, ids, G)
      BY DEF LotBon
<1> QED  BY <1>1, <1>2 DEF LotsSuivis

LEMMA LotSauve ==
    ASSUME NEW req, NEW req2, NEW r \in Requetes, NEW q, NEW C, NEW nom, NEW t, NEW ids, NEW G,
           ReqOK(req), LotsSuivis(req, nom, t, ids, G), Sauve(req, req2, r, q, C)
    PROVE  LotsSuivis(req2, nom, t, ids, G)
<1> DEFINE e == Enregistree(q, C)
           R == (req[r] \ {q}) \union {e}
<1>1. req2 = [s \in Requetes |-> IF s = r THEN R ELSE req[s]]
      BY DEF Sauve, ReqOK
<1>2. q \in req[r] /\ EcritureOK(q)
      BY DEF Sauve, ReqOK
<1>3. /\ e.table = q.table /\ e.id = q.id /\ e.ligne = q.ligne /\ e.depasse = q.depasse
      BY <1>2, EnregistreeForme
<1> HIDE DEF e
<1>4. ASSUME NEW i PROVE Voulu(R, nom, t, i) = Voulu(req[r], nom, t, i)
  <2> DEFINE W == {x \in req[r] : x.table = nom /\ x.id = i}
             V == {x \in R : x.table = nom /\ x.id = i}
  <2>1. W = {} <=> V = {}
      BY <1>2, <1>3
  <2>2. {x.ligne : x \in W} = {x.ligne : x \in V}
      BY <1>2, <1>3
  <2>3. Voulu(R, nom, t, i) = IF V = {} THEN t[i] ELSE {x.ligne : x \in V}
      BY DEF Voulu
  <2>4. Voulu(req[r], nom, t, i) = IF W = {} THEN t[i] ELSE {x.ligne : x \in W}
      BY DEF Voulu
  <2> HIDE DEF V, W
  <2> QED  BY <2>1, <2>2, <2>3, <2>4
<1>5. Applique(R, nom, t, ids) = Applique(req[r], nom, t, ids)
      BY <1>4 DEF Applique
<1>6. (\E x \in R : x.table = nom /\ x.depasse = FALSE) =>
          \E x \in req[r] : x.table = nom /\ x.depasse = FALSE
      BY <1>2, <1>3
<1> HIDE DEF R
<1>7. LotBon(R, nom, t, ids, G)
      BY <1>5, <1>6 DEF LotBon, LotsSuivis
<1> QED  BY <1>1, <1>7 DEF LotsSuivis

(* After a commit every write in progress has been overtaken.              *)
LEMMA LotFinit ==
    ASSUME NEW req, NEW req2, NEW r \in Requetes, NEW nom, NEW t, NEW ids, NEW G,
           ReqOK(req), Finit(req, req2, r)
    PROVE  LotsSuivis(req2, nom, t, ids, G)
<1>1. req2 = [s \in Requetes |-> IF s = r THEN {} ELSE Depassees(req[s])]
      BY DEF Finit
<1>2. ASSUME NEW s \in Requetes, NEW d \in req2[s] PROVE d.depasse # FALSE
  <2>1. PICK q \in req[s] : d = Depassee(q)
      BY <1>1, <1>2 DEF Depassees
  <2>2. d.depasse = TRUE
      BY <2>1, DepasseeForme DEF ReqOK
  <2> QED  BY <2>2
<1> QED  BY <1>2 DEF LotsSuivis, LotBon

LEMMA LotAnnule ==
    ASSUME NEW req, NEW req2, NEW r \in Requetes, NEW nom, NEW t, NEW ids, NEW G,
           ReqOK(req), LotsSuivis(req, nom, t, ids, G), Annule(req, req2, r)
    PROVE  LotsSuivis(req2, nom, t, ids, G)
<1>1. req2 = [s \in Requetes |-> IF s = r THEN {} ELSE req[s]]
      BY DEF Annule, ReqOK
<1> QED  BY <1>1 DEF LotsSuivis, LotBon

LEMMA LotActe ==
    ASSUME NEW T, NEW nom, NEW t, NEW ids, NEW G,
           ReqOK(requete), LotsSuivis(requete, nom, t, ids, G), Acte(T), nom \notin T
    PROVE  LotsSuivis(requete', nom, t, ids, G)
<1>1. PICK r \in Requetes : PasDe(requete, requete', r, T)
      BY DEF Acte
<1>2. ASSUME NEW E, Debute(requete, requete', r, E), \A q \in E : q.table \in T
      PROVE  LotsSuivis(requete', nom, t, ids, G)
      BY <1>2, LotDebute
<1>3. ASSUME NEW q \in requete[r], NEW C, Sauve(requete, requete', r, q, C)
      PROVE  LotsSuivis(requete', nom, t, ids, G)
      BY <1>3, LotSauve
<1>4. ASSUME Finit(requete, requete', r)
      PROVE  LotsSuivis(requete', nom, t, ids, G)
      BY <1>4, LotFinit
<1>5. ASSUME Annule(requete, requete', r)
      PROVE  LotsSuivis(requete', nom, t, ids, G)
      BY <1>5, LotAnnule
<1> QED  BY <1>1, <1>2, <1>3, <1>4, <1>5 DEF PasDe

LEMMA LotSave ==
    ASSUME NEW r \in Requetes, NEW x, NEW lignes, NEW nom, NEW t, NEW ids, NEW G,
           ReqOK(requete), LotsSuivis(requete, nom, t, ids, G), save(r, x, lignes)
    PROVE  LotsSuivis(requete', nom, t, ids, G)
BY saveSauve, LotSauve

LEMMA LotTerminer ==
    ASSUME NEW r \in Requetes, NEW nom, NEW t, NEW ids, NEW G, ReqOK(requete), Terminer(r)
    PROVE  LotsSuivis(requete', nom, t, ids, G)
BY TerminerFinit, LotFinit

(* A request that has not been overtaken leaves the table as it wanted it. *)
LEMMA LotValider ==
    ASSUME NEW r \in Requetes, NEW nom, NEW t, NEW ids, NEW row, NEW A, NEW B, NEW G,
           ReqOK(requete), LotsSuivis(requete, nom, t, ids, G),
           Suivi(requete, nom, t, A, B), A \subseteq ids \X row,
           Table1(t, ids, row), Colonnes(row), Valider(r, nom, t), ~recouvrement'
    PROVE  ApresTout(r, t) \in G
<1> DEFINE S == requete[r]
           t2 == ApresTout(r, t)
<1>1. /\ \A q \in S : t2[q.id] = {q.ligne} /\ q.table = nom /\ q.id \in ids
      /\ \A i \in ids : (\A q \in S : q.id # i) => t2[i] = t[i]
      BY ValiderCopies
<1>2. S # {} /\ \A q \in S : q.depasse = FALSE
  <2>1. \A q \in S : EcritureOK(q)
      BY DEF ReqOK
  <2>2. \A q \in S : ~q.depasse
      BY TerminerFinit DEF Valider
  <2>3. S # {}
      BY DEF Valider, Terminer
  <2> QED  BY <2>1, <2>2, <2>3 DEF EcritureOK
<1>3. t2 = [i \in ids |-> t2[i]]
      BY ValiderTable DEF Table1
<1>4. LotBon(S, nom, t, ids, G)
      BY DEF LotsSuivis
<1> HIDE DEF S, t2
<1>5. ASSUME NEW i \in ids PROVE Voulu(S, nom, t, i) = t2[i]
  <2> DEFINE W == {q \in S : q.table = nom /\ q.id = i}
  <2>1. Voulu(S, nom, t, i) = IF W = {} THEN t[i] ELSE {q.ligne : q \in W}
      BY DEF Voulu
  <2>2. CASE W = {}
      BY <1>1, <2>1, <2>2
  <2>3. CASE W # {}
    <3>1. \A q \in W : {q.ligne} = t2[i]
        BY <1>1
    <3>2. {q.ligne : q \in W} = t2[i]
      <4> HIDE DEF W
      <4> QED  BY <2>3, <3>1
    <3> QED  BY <2>1, <2>3, <3>2
  <2> QED  BY <2>2, <2>3
<1>6. Applique(S, nom, t, ids) = t2
      BY <1>3, <1>5 DEF Applique
<1>7. \E q \in S : q.table = nom /\ q.depasse = FALSE
      BY <1>1, <1>2
<1>8. t2 \in G
      BY <1>4, <1>6, <1>7 DEF LotBon
<1> QED  BY <1>8 DEF t2

LEMMA AppliqueSeule ==
    ASSUME NEW nom, NEW t, NEW ids, NEW i \in ids, NEW l, NEW q,
           q.table = nom, q.id = i, q.ligne = l, DOMAIN t = ids
    PROVE  Applique({q}, nom, t, ids) = Avec(t, i, l)
<1>1. ASSUME NEW j \in ids PROVE Voulu({q}, nom, t, j) = IF j = i THEN {l} ELSE t[j]
      BY DEF Voulu
<1> QED  BY <1>1 DEF Applique, Avec

LEMMA LotTraiter ==
    ASSUME NEW r \in Requetes, NEW nom, NEW t, NEW ids, NEW G, NEW i \in ids, NEW l, NEW type,
           ReqOK(requete), LotsSuivis(requete, nom, t, ids, G), Traiter(r, nom, t, i, l, type),
           DOMAIN t = ids, Avec(t, i, l) \in G
    PROVE  LotsSuivis(requete', nom, t, ids, G)
<1> DEFINE q == Ecriture(nom, i, l, t[i] = {}, type)
<1>1. Debute(requete, requete', r, {q})
      BY TraiterDebute
<1>2. q.table = nom /\ q.id = i /\ q.ligne = l
      BY DEF Ecriture
<1> HIDE DEF q
<1>3. Applique({q}, nom, t, ids) \in G
      BY <1>2, AppliqueSeule
<1> QED  BY <1>1, <1>3, LotDebute

LEMMA HorsReferentiel ==
    ASSUME Socle, [Next]_vars, ~ReferentielNext
    PROVE  UNCHANGED referentielVars /\ Ailleurs(TablesReferentiel)
<1> DEFINE T == TablesReferentiel
<1>1. /\ TablesEngine \intersect T = {} /\ TablesCorpus \intersect T = {}
      /\ TablesRegistre \intersect T = {} /\ TablesOrg \intersect T = {}
      /\ {"configuration"} \intersect T = {} /\ TablesCatalogue \intersect T = {}
      /\ TablesIdentite \intersect T = {} /\ {} \intersect T = {}
      BY DEF TablesOrg, TablesEngine, TablesCorpus, TablesRegistre, TablesReferentiel,
             TablesCatalogue, TablesIdentite
<1>2. UNCHANGED referentielVars
      BY NextContextes DEF EngineNext, CorpusNext, RegistreNext, OrgNext, ConfigNext,
             CatalogueNext, IdentiteNext, Refus, metierVars
<1>3. UNCHANGED <<requete, recouvrement>> \/ \E S : Acte(S) /\ S \intersect T = {}
  <2> HIDE DEF T
  <2>1. UNCHANGED <<uniteVars, metierVars>> => UNCHANGED <<requete, recouvrement>>
      BY DEF uniteVars
  <2> QED  BY Contextes, <1>1, <2>1
<1> QED  BY <1>2, <1>3 DEF Ailleurs

-----------------------------------------------------------------------------
(* The default locale: a request that takes the default from a locale      *)
(* gives it to another one in the same transaction.                        *)
ParDefaut(t) == {x \in Locales : \E l \in t[x] : l.defaut = TRUE}

DefautGarde(t) ==
    {u \in [Locales -> SUBSET LocaleRow] : ParDefaut(t) # {} => ParDefaut(u) # {}}

InvDefaut == LotsSuivis(requete, "locale", locales, Locales, DefautGarde(locales))

LEMMA DefautHors ==
    ASSUME Socle, InvDefaut, NEW S, Acte(S), "locale" \notin S, UNCHANGED locales
    PROVE  InvDefaut'
<1> DEFINE G == DefautGarde(locales)
<1>1. LotsSuivis(requete', "locale", locales, Locales, G)
  <2> HIDE DEF G
  <2> QED  BY LotActe DEF Socle, InvDefaut, G
<1> QED  BY <1>1 DEF InvDefaut, DefautGarde, ParDefaut

LEMMA DefautLocale ==
    ASSUME Socle, InvDefaut, NEW r \in Requetes, NEW x \in Locales, UNCHANGED locales,
           \/ CreateLocale(r, x) \/ UpdateLocale(r, x)
           \/ \E a \in BOOLEAN : SetLocaleActivation(r, x, a)
    PROVE  InvDefaut'
<1> DEFINE G == DefautGarde(locales)
<1>0. /\ locales \in [Locales -> SUBSET LocaleRow]
      /\ \A y \in Locales : \A l, m \in locales[y] : l = m
      BY DEF Socle, LocalesOK, Table1
<1>1. ASSUME NEW l \in LocaleRow, NEW type, Traiter(r, "locale", locales, x, l, type),
             \A m \in locales[x] : m.defaut = l.defaut
      PROVE  InvDefaut'
  <2> DEFINE u == Avec(locales, x, l)
  <2>1. u \in [Locales -> SUBSET LocaleRow] /\ u[x] = {l} /\ \A y \in Locales : y # x => u[y] = locales[y]
      BY <1>0 DEF Avec
  <2> HIDE DEF u
  <2>2. \A y \in ParDefaut(locales) : y \in ParDefaut(u)
      BY <1>1, <2>1 DEF ParDefaut
  <2>3. u \in G
      BY <2>1, <2>2 DEF DefautGarde
  <2>4. LotsSuivis(requete', "locale", locales, Locales, G)
    <3> HIDE DEF G
    <3> QED  BY <1>0, <1>1, <2>3, LotTraiter DEF Socle, InvDefaut, G, u
  <2> QED  BY <2>4 DEF InvDefaut, DefautGarde, ParDefaut
<1>2. ASSUME CreateLocale(r, x) PROVE InvDefaut'
  <2> DEFINE k == [actif |-> TRUE, defaut |-> FALSE]
  <2>1. locales[x] = {} /\ Traiter(r, "locale", locales, x, k, "LOCALE_CREATED") /\ k \in LocaleRow
      BY <1>2 DEF CreateLocale, LocaleRow
  <2> HIDE DEF k
  <2> QED  BY <1>1, <2>1
<1>3. ASSUME UpdateLocale(r, x) PROVE InvDefaut'
      BY <1>0, <1>1, <1>3 DEF UpdateLocale
<1>4. ASSUME NEW a \in BOOLEAN, SetLocaleActivation(r, x, a) PROVE InvDefaut'
  <2>1. PICK l \in locales[x] : Traiter(r, "locale", locales, x, [l EXCEPT !.actif = a], Nul)
      BY <1>4 DEF SetLocaleActivation
  <2> DEFINE k == [l EXCEPT !.actif = a]
  <2>2. k \in LocaleRow /\ k.defaut = l.defaut
      BY <1>0 DEF LocaleRow
  <2>3. \A m \in locales[x] : m.defaut = k.defaut
      BY <1>0, <2>2
  <2>4. Traiter(r, "locale", locales, x, k, Nul)
      BY <2>1
  <2> HIDE DEF k
  <2> QED  BY <1>1, <2>2, <2>3, <2>4
<1> QED  BY <1>2, <1>3, <1>4

LEMMA DefautChange ==
    ASSUME Socle, InvDefaut, NEW r \in Requetes, NEW x \in Locales, UNCHANGED locales,
           SetLocaleParDefaut(r, x)
    PROVE  InvDefaut'
<1> DEFINE G == DefautGarde(locales)
           E == Defauts(x)
           u == Applique(E, "locale", locales, Locales)
<1>0. locales \in [Locales -> SUBSET LocaleRow]
      BY DEF Socle, LocalesOK, Table1
<1>1. CleUnique(E) /\ \A q \in E : Neuve(q) /\ q.table = "locale"
      BY SocleSansDouble, DefautsNeuves
<1>2. locales[x] # {} /\ Debute(requete, requete', r, E)
      BY <1>1, SetLocaleEcritures, TraiterToutDebute
<1>3. \A q \in E : q.ligne \in LocaleRow
  <2> SUFFICES ASSUME NEW q \in E PROVE q.ligne \in LocaleRow
      OBVIOUS
  <2>1. PICK a \in Locales : \E l \in locales[a] : q = Defaut(x, a, l)
      BY DefautsDe
  <2>2. PICK l \in locales[a] : q = Defaut(x, a, l)
      BY <2>1
  <2>3. q.ligne = [l EXCEPT !.defaut = (a = x)]
      BY <2>2 DEF Defaut, Ecriture
  <2>4. l \in LocaleRow
      BY <1>0
  <2> QED  BY <2>3, <2>4 DEF LocaleRow
<1>4. PICK l \in locales[x] : TRUE
      BY <1>2
<1>5. PICK q \in E : q.table = "locale" /\ q.id = x /\ q.ligne.defaut = TRUE
  <2> DEFINE q == Defaut(x, x, l)
  <2>1. q \in E
      BY <1>4 DEF Defauts
  <2>2. l \in LocaleRow
      BY <1>0, <1>4
  <2>3. q.table = "locale" /\ q.id = x /\ q.ligne = [l EXCEPT !.defaut = TRUE]
      BY DEF Defaut, Ecriture
  <2>4. q.ligne.defaut = TRUE
      BY <2>2, <2>3 DEF LocaleRow
  <2> QED  BY <2>1, <2>3, <2>4
<1> HIDE DEF E
<1>6. ASSUME NEW i \in Locales PROVE Voulu(E, "locale", locales, i) \in SUBSET LocaleRow
  <2> DEFINE W == {p \in E : p.table = "locale" /\ p.id = i}
  <2>1. Voulu(E, "locale", locales, i) = IF W = {} THEN locales[i] ELSE {p.ligne : p \in W}
      BY DEF Voulu
  <2> QED  BY <1>0, <1>3, <2>1
<1>7. u \in [Locales -> SUBSET LocaleRow]
      BY <1>6 DEF Applique
<1>8. q.ligne \in Voulu(E, "locale", locales, x)
      BY <1>5 DEF Voulu
<1>9. q.ligne \in u[x]
      BY <1>8 DEF Applique
<1> HIDE DEF u
<1>10. x \in ParDefaut(u)
      BY <1>5, <1>9 DEF ParDefaut
<1>11. u \in G
      BY <1>7, <1>10 DEF DefautGarde
<1>12. LotsSuivis(requete', "locale", locales, Locales, G)
  <2> HIDE DEF G
  <2> QED  BY <1>2, <1>11, LotDebute DEF Socle, InvDefaut, G, u
<1> QED  BY <1>12 DEF InvDefaut, DefautGarde, ParDefaut

LEMMA DefautReferentiel ==
    ASSUME Socle, InvDefaut, ReferentielNext
    PROVE  InvDefaut'
<1>0. ASSUME LotsSuivis(requete', "locale", locales', Locales, DefautGarde(locales')) PROVE InvDefaut'
      BY <1>0 DEF InvDefaut, DefautGarde, ParDefaut
<1>1. ASSUME NEW r \in Requetes, Terminer(r) PROVE InvDefaut'
      BY <1>0, <1>1, LotTerminer DEF Socle
<1>2. ASSUME NEW r \in Requetes, UNCHANGED locales, Fiches(r) \/ Liaisons(r) \/ Circulation(r)
      PROVE  InvDefaut'
      BY <1>2, FichesActe, LiaisonsActe, CirculationActe, DefautHors
<1>3. ASSUME NEW r \in Requetes, UNCHANGED locales, Traduction(r) PROVE InvDefaut'
  <2>1. ASSUME NEW x \in Locales, NEW c \in Cles, CreateTraduction(r, x, c) \/ UpdateTraduction(r, x, c)
        PROVE  InvDefaut'
    <3>1. Acte({"traduction"})
        BY <2>1, TraiterActe DEF CreateTraduction, UpdateTraduction
    <3> QED  BY <1>3, <3>1, DefautHors
  <2> QED  BY <1>3, <2>1, DefautLocale, DefautChange DEF Traduction
<1>4. ASSUME NEW r \in Requetes, saveReferentiel(r) PROVE InvDefaut'
  <2>1. UNCHANGED locales /\ \E x, lignes : save(r, x, lignes)
      BY <1>4 DEF saveReferentiel, referentielVars
  <2> DEFINE G == DefautGarde(locales)
  <2>2. LotsSuivis(requete', "locale", locales, Locales, G)
    <3> HIDE DEF G
    <3> QED  BY <2>1, LotSave DEF Socle, InvDefaut, G
  <2> QED  BY <1>0, <2>1, <2>2
<1>5. ASSUME NEW r \in Requetes,
             \/ commitFiche(r) \/ commitRelation(r) \/ commitLocale(r) \/ commitTraduction(r)
      PROVE  Terminer(r)
      BY <1>5 DEF commitFiche, commitRelation, commitLocale, commitTraduction, Valider
<1> QED  BY <1>1, <1>2, <1>3, <1>4, <1>5 DEF ReferentielNext

LEMMA DefautEtape == Socle /\ InvDefaut /\ [Next]_vars => InvDefaut'
<1> SUFFICES ASSUME Socle, InvDefaut, [Next]_vars PROVE InvDefaut'
    OBVIOUS
<1>1. CASE ReferentielNext
      BY <1>1, DefautReferentiel
<1>2. CASE ~ReferentielNext
  <2>1. UNCHANGED locales /\ Ailleurs(TablesReferentiel)
      BY <1>2, HorsReferentiel DEF referentielVars
  <2>2. CASE UNCHANGED requete
      BY <2>1, <2>2 DEF InvDefaut
  <2>3. ASSUME NEW S, Acte(S), S \intersect TablesReferentiel = {} PROVE InvDefaut'
    <3>1. "locale" \notin S
        BY <2>3 DEF TablesReferentiel
    <3> QED  BY <2>1, <2>3, <3>1, DefautHors
  <2> QED  BY <2>1, <2>2, <2>3 DEF Ailleurs
<1> QED  BY <1>1, <1>2

LEMMA LocalesChangent ==
    ASSUME Socle, [Next]_vars
    PROVE  UNCHANGED locales \/ \E r \in Requetes : commitLocale(r)
<1>1. CASE ~ReferentielNext
      BY <1>1, HorsReferentiel DEF referentielVars
<1>2. CASE ReferentielNext
      BY <1>2 DEF ReferentielNext, saveReferentiel, referentielVars, commitFiche, commitRelation,
                  commitTraduction
<1> QED  BY <1>1, <1>2

(* KER-INH-02: once there is a default locale there always is one, unless  *)
(* a request committed over a change that it had not read.                 *)
THEOREM DefautConserveCorrect == Spec => DefautConserve
<1> DEFINE A == findParDefaut # {} => recouvrement' \/ findParDefaut' # {}
<1>1. Init => InvDefaut
      BY DEF Init, InitUnite, InvDefaut, LotsSuivis, LotBon
<1>2. Socle /\ InvDefaut /\ [Next]_vars => [A]_<<locales, recouvrement>>
  <2> SUFFICES ASSUME Socle, InvDefaut, [Next]_vars, findParDefaut # {}, ~recouvrement'
               PROVE  findParDefaut' # {}
      OBVIOUS
  <2>1. CASE UNCHANGED locales
      BY <2>1 DEF findParDefaut
  <2>2. ASSUME NEW r \in Requetes, commitLocale(r) PROVE findParDefaut' # {}
    <3> DEFINE G == DefautGarde(locales)
    <3>1. Valider(r, "locale", locales) /\ locales' = ApresTout(r, locales)
        BY <2>2 DEF commitLocale
    <3>2. locales' \in G
      <4> HIDE DEF G
      <4> DEFINE A2 == Locales \X LocaleRow
      <4>1. /\ ReqOK(requete) /\ LotsSuivis(requete, "locale", locales, Locales, G)
            /\ Suivi(requete, "locale", locales, A2, A2) /\ Table1(locales, Locales, LocaleRow)
          BY DEF Socle, InvDefaut, G, SuiviLocales, LocalesOK
      <4> QED  BY <3>1, <4>1, LocaleColonnes, LotValider
    <3>3. findParDefaut = ParDefaut(locales)
        BY DEF findParDefaut, ParDefaut, Socle, LocalesOK, Table1, LocaleRow
    <3>4. ParDefaut(locales') \subseteq findParDefaut'
        BY DEF findParDefaut, ParDefaut
    <3> QED  BY <3>2, <3>3, <3>4 DEF DefautGarde
  <2> QED  BY <2>1, <2>2, LocalesChangent
<1>3. DefautConserve <=> [][A]_<<locales, recouvrement>>
      BY PTL DEF DefautConserve
<1>4. Socle /\ InvDefaut /\ [Next]_vars => (Socle /\ InvDefaut)'
      BY SocleEtape, DefautEtape
<1> QED  BY SocleInit, <1>1, <1>2, <1>3, <1>4, PTL DEF Spec

-----------------------------------------------------------------------------
(* The currencies of a country: the write of a new main currency and that  *)
(* of the end of the one before make one lot.                              *)
Succede(l, m) == l.fin # Nul /\ l.fin <= m.debut

(* Of two main currencies of a country one is over when the other begins.  *)
CoursUniques ==
    {t \in [Relations -> SUBSET PaysDeviseRow] :
        \A x, y \in Relations : \A l \in t[x], m \in t[y] :
            x # y /\ l.principale = TRUE /\ m.principale = TRUE /\ l.pays = m.pays =>
                Succede(l, m) \/ Succede(m, l)}

(* The main currencies of country p are over at date d.                    *)
Achevees(t, p, d) ==
    \A x \in Relations : \A l \in t[x] : l.pays = p /\ l.principale = TRUE =>
        l.fin # Nul /\ l.fin <= d

CirculationsSuivies ==
    Suivi(requete, "circulation", circulations, Relations \X PaysDeviseRow, Relations \X PaysDeviseRow)

InvDevise ==
    /\ Table1(circulations, Relations, PaysDeviseRow)
    /\ CirculationsSuivies
    /\ ~recouvrement /\ desordre = FALSE =>
          /\ circulations \in CoursUniques
          /\ LotsSuivis(requete, "circulation", circulations, Relations, CoursUniques)
    /\ desordre \in BOOLEAN

LEMMA CirculationColonnes == Colonnes(PaysDeviseRow)
BY DEF Colonnes, PaysDeviseRow

LEMMA CirculationType ==
    ASSUME NEW l \in PaysDeviseRow
    PROVE  /\ l.debut \in Dates /\ l.debut \in Nat /\ (l.fin = Nul \/ l.fin \in Nat)
           /\ l.fin \in Dates \union {Nul} /\ l.principale \in BOOLEAN /\ l.pays \in Pays
BY ReferentielAssumption DEF PaysDeviseRow

(* A new row that begins when all others are over; or one that is not a    *)
(* main currency.                                                          *)
LEMMA CoursNouveau ==
    ASSUME NEW t \in CoursUniques, NEW x \in Relations, NEW l \in PaysDeviseRow,
           l.principale = TRUE => Achevees(t, l.pays, l.debut), t[x] = {}
    PROVE  Avec(t, x, l) \in CoursUniques
<1> DEFINE v == Avec(t, x, l)
<1>1. t \in [Relations -> SUBSET PaysDeviseRow]
      BY DEF CoursUniques
<1>2. v \in [Relations -> SUBSET PaysDeviseRow] /\ v[x] = {l} /\ \A y \in Relations : y # x => v[y] = t[y]
      BY <1>1 DEF Avec
<1> HIDE DEF v
<1>3. ASSUME NEW y \in Relations, NEW m \in v[y], y # x, l.principale = TRUE, m.principale = TRUE,
             m.pays = l.pays
      PROVE  Succede(m, l)
      BY <1>2, <1>3 DEF Achevees, Succede
<1>4. ASSUME NEW y \in Relations, NEW z \in Relations, NEW m \in v[y], NEW n \in v[z], y # z,
             m.principale = TRUE, n.principale = TRUE, m.pays = n.pays
      PROVE  Succede(m, n) \/ Succede(n, m)
  <2>1. CASE y # x /\ z # x
      BY <1>2, <1>4, <2>1 DEF CoursUniques
  <2>2. CASE y = x
      BY <1>2, <1>3, <1>4, <2>2
  <2>3. CASE z = x
      BY <1>2, <1>3, <1>4, <2>3
  <2> QED  BY <2>1, <2>2, <2>3
<1>5. v \in CoursUniques
      BY <1>2, <1>4 DEF CoursUniques
<1> QED  BY <1>5 DEF v

(* Ending the currency in force at d leaves none after d.                  *)
Achevable(t, p, d, m) ==
    /\ \A y \in Relations : \A l, n \in t[y] : l = n
    /\ m.pays = p /\ m.principale = TRUE /\ (m.fin = Nul \/ m.fin >= d)
    /\ \A y \in Relations : \A l \in t[y] : l.pays = p /\ l.principale = TRUE => l.debut < d

LEMMA CoursAcheve ==
    ASSUME NEW t \in CoursUniques, NEW p \in Pays, NEW d \in Dates, NEW a \in Relations,
           NEW m \in t[a], NEW k, k = [m EXCEPT !.fin = d], Achevable(t, p, d, m)
    PROVE  /\ k \in PaysDeviseRow /\ Avec(t, a, k) \in CoursUniques
           /\ Achevees(Avec(t, a, k), p, d)
<1> DEFINE v == Avec(t, a, k)
<1>0. /\ \A y \in Relations : \A l, n \in t[y] : l = n
      /\ m.pays = p /\ m.principale = TRUE /\ (m.fin = Nul \/ m.fin >= d)
      /\ \A y \in Relations : \A l \in t[y] : l.pays = p /\ l.principale = TRUE => l.debut < d
      BY DEF Achevable
<1>1. t \in [Relations -> SUBSET PaysDeviseRow] /\ m \in PaysDeviseRow
      BY DEF CoursUniques
<1>2. /\ k \in PaysDeviseRow /\ k.fin = d /\ k.pays = m.pays /\ k.debut = m.debut
      /\ k.principale = m.principale
      BY <1>1 DEF PaysDeviseRow
<1>3. v \in [Relations -> SUBSET PaysDeviseRow] /\ v[a] = {k} /\ \A y \in Relations : y # a => v[y] = t[y]
      BY <1>1, <1>2 DEF Avec
<1> HIDE DEF v
<1>4. d \in Nat /\ d # Nul /\ m.debut \in Nat /\ m.debut < d /\ (m.fin = Nul \/ m.fin \in Nat)
      BY <1>0, <1>1, CirculationType, ReferentielAssumption
<1>5. ASSUME NEW y \in Relations, NEW n \in t[y], y # a, n.principale = TRUE, n.pays = p
      PROVE  n.fin # Nul /\ n.fin \in Nat /\ n.fin <= m.debut
  <2>1. n \in PaysDeviseRow /\ n.debut < d /\ n.debut \in Nat /\ (n.fin = Nul \/ n.fin \in Nat)
      BY <1>0, <1>1, <1>5, CirculationType
  <2>2. Succede(n, m) \/ Succede(m, n)
      BY <1>0, <1>5 DEF CoursUniques
  <2>3. ~Succede(m, n)
      BY <1>0, <1>4, <2>1 DEF Succede
  <2> QED  BY <2>1, <2>2, <2>3 DEF Succede
<1>6. ASSUME NEW y \in Relations, NEW z \in Relations, NEW n \in v[y], NEW o \in v[z], y # z,
             n.principale = TRUE, o.principale = TRUE, n.pays = o.pays
      PROVE  Succede(n, o) \/ Succede(o, n)
  <2>1. CASE y # a /\ z # a
      BY <1>3, <1>6, <2>1 DEF CoursUniques
  <2>2. CASE y = a
    <3>1. n = k /\ o \in t[z]
        BY <1>3, <1>6, <2>2
    <3> QED  BY <1>0, <1>2, <1>5, <1>6, <2>2, <3>1 DEF Succede
  <2>3. CASE z = a
    <3>1. o = k /\ n \in t[y]
        BY <1>3, <1>6, <2>3
    <3> QED  BY <1>0, <1>2, <1>5, <1>6, <2>3, <3>1 DEF Succede
  <2> QED  BY <2>1, <2>2, <2>3
<1>7. v \in CoursUniques
      BY <1>3, <1>6 DEF CoursUniques
<1>8. ASSUME NEW y \in Relations, NEW l \in v[y], l.pays = p, l.principale = TRUE
      PROVE  l.fin # Nul /\ l.fin <= d
  <2>1. CASE y = a
    <3>1. l = k
        BY <1>3, <1>8, <2>1
    <3>2. l.fin = d
        BY <1>2, <3>1
    <3> QED  BY <1>4, <3>2
  <2>2. CASE y # a
    <3>1. l \in t[y]
        BY <1>3, <1>8, <2>2
    <3>2. l.fin # Nul /\ l.fin \in Nat /\ l.fin <= m.debut
        BY <1>5, <1>8, <2>2, <3>1
    <3> QED  BY <1>4, <3>2
  <2> QED  BY <2>1, <2>2
<1>9. Achevees(v, p, d)
      BY <1>8 DEF Achevees
<1> QED  BY <1>2, <1>7, <1>9 DEF v

LEMMA AppliqueDeux ==
    ASSUME NEW t, DOMAIN t = Relations, NEW x \in Relations, NEW l, NEW a \in Relations, NEW k, a # x
    PROVE  Applique(Circulations(x, l, a, k), "circulation", t, Relations) = Avec(Avec(t, a, k), x, l)
<1> DEFINE q == Ecriture("circulation", a, k, FALSE, Nul)
           p == Ecriture("circulation", x, l, TRUE, Nul)
<1>1. /\ q.table = "circulation" /\ q.id = a /\ q.ligne = k
      /\ p.table = "circulation" /\ p.id = x /\ p.ligne = l
      BY DEF Ecriture
<1>2. Circulations(x, l, a, k) = {q, p}
      BY DEF Circulations
<1> HIDE DEF q, p
<1>3. ASSUME NEW j \in Relations
      PROVE  Voulu({q, p}, "circulation", t, j) = IF j = x THEN {l} ELSE IF j = a THEN {k} ELSE t[j]
  <2> DEFINE W == {e \in {q, p} : e.table = "circulation" /\ e.id = j}
  <2>1. Voulu({q, p}, "circulation", t, j) = IF W = {} THEN t[j] ELSE {e.ligne : e \in W}
      BY DEF Voulu
  <2>2. CASE j = x
    <3>1. W = {p}
        BY <1>1, <2>2
    <3> QED  BY <1>1, <2>1, <2>2, <3>1
  <2>3. CASE j = a
    <3>1. W = {q}
        BY <1>1, <2>3
    <3> QED  BY <1>1, <2>1, <2>3, <3>1
  <2>4. CASE j # a /\ j # x
    <3>1. W = {}
        BY <1>1, <2>4
    <3> QED  BY <2>1, <2>4, <3>1
  <2> QED  BY <2>2, <2>3, <2>4
<1>4. DOMAIN Avec(t, a, k) = Relations
      BY DEF Avec
<1>5. Avec(Avec(t, a, k), x, l) = [j \in Relations |-> IF j = x THEN {l} ELSE IF j = a THEN {k} ELSE t[j]]
      BY <1>4 DEF Avec
<1> QED  BY <1>2, <1>3, <1>5 DEF Applique

EcrituresDevise(E) ==
    \A q \in E : /\ q.table = "circulation" /\ q.id \in Relations /\ q.ligne \in PaysDeviseRow
                 /\ q.insertion = TRUE <=> circulations[q.id] = {}

LotDevise(E) ==
    circulations \in CoursUniques =>
        Applique(E, "circulation", circulations, Relations) \in CoursUniques

DebuteDevise(r, E) ==
    /\ Debute(requete, requete', r, E)
    /\ EcrituresDevise(E)
    /\ desordre' = FALSE => LotDevise(E)
    /\ desordre' \in BOOLEAN /\ (desordre => desordre')
    /\ UNCHANGED <<circulations, recouvrement>>

LEMMA DeviseDebute ==
    ASSUME Socle, InvDevise, NEW r \in Requetes, NEW E, DebuteDevise(r, E)
    PROVE  InvDevise'
<1>0. /\ Debute(requete, requete', r, E)
      /\ EcrituresDevise(E)
      /\ desordre' = FALSE => LotDevise(E)
      /\ desordre' \in BOOLEAN /\ (desordre => desordre')
      /\ UNCHANGED <<circulations, recouvrement>>
      BY DEF DebuteDevise
<1> DEFINE A == Relations \X PaysDeviseRow
<1>1. Suivi(requete', "circulation", circulations, A, A)
  <2>1. \A q \in E : q.table = "circulation" =>
            <<q.id, q.ligne>> \in A /\ (q.insertion = TRUE <=> circulations[q.id] = {})
      BY <1>0 DEF EcrituresDevise
  <2>2. ReqOK(requete) /\ Suivi(requete, "circulation", circulations, A, A)
      BY DEF Socle, InvDevise, CirculationsSuivies
  <2> HIDE DEF A
  <2> QED  BY <1>0, <2>1, <2>2, SuiviDebute
<1>2. ASSUME ~recouvrement, desordre' = FALSE
      PROVE  /\ circulations \in CoursUniques
             /\ LotsSuivis(requete', "circulation", circulations, Relations, CoursUniques)
  <2>1. /\ circulations \in CoursUniques
        /\ LotsSuivis(requete, "circulation", circulations, Relations, CoursUniques)
      BY <1>0, <1>2 DEF InvDevise
  <2>2. Applique(E, "circulation", circulations, Relations) \in CoursUniques
      BY <1>0, <1>2, <2>1 DEF LotDevise
  <2> QED  BY <1>0, <2>1, <2>2, LotDebute DEF Socle
<1>3. circulations' = circulations /\ recouvrement' = recouvrement
      BY <1>0
<1>4. Table1(circulations', Relations, PaysDeviseRow)
      BY <1>3 DEF InvDevise
<1>5. Suivi(requete', "circulation", circulations', A, A)
      BY <1>1, <1>3
<1>6. ASSUME ~recouvrement', desordre' = FALSE
      PROVE  /\ circulations' \in CoursUniques
             /\ LotsSuivis(requete', "circulation", circulations', Relations, CoursUniques)
      BY <1>2, <1>3, <1>6
<1>7. desordre' \in BOOLEAN
      BY <1>0
<1> QED  BY <1>4, <1>5, <1>6, <1>7 DEF InvDevise, CirculationsSuivies

LEMMA DeviseLecture ==
    ASSUME Socle, InvDevise, NEW r \in Requetes, Circulation(r), UNCHANGED circulations
    PROVE  InvDevise'
<1>1. PICK x \in Relations, v \in {d1, d2}, d \in Dates, f \in Dates \union {Nul}, b \in BOOLEAN :
          AttachDeviseToPays(r, x, p1, v, d, f, b)
      BY DEF Circulation
<1> PICK l : l = [pays |-> p1, devise |-> v, debut |-> d, fin |-> f, principale |-> b]
    OBVIOUS
<1>2. /\ l \in PaysDeviseRow /\ l.pays = p1 /\ l.debut = d /\ l.principale = b
      /\ p1 \in Pays /\ d \in Nat
      BY NoyauAssumption, ReferentielAssumption DEF PaysDeviseRow
<1>3. /\ circulations[x] = {}
      /\ \/ /\ b => findPrincipaleActive(p1, d) = {}
            /\ TraiterTout(r, {Ecriture("circulation", x, l, TRUE, Nul)})
         \/ /\ b
            /\ \E a \in findPrincipaleActive(p1, d) : \E m \in circulations[a] :
                  a # x /\ TraiterTout(r, Circulations(x, l, a, [m EXCEPT !.fin = d]))
  <2>1. Attachement(r, x, p1, d, b, l)
      BY <1>1, AttachDeviseEcritures
  <2> QED  BY <2>1 DEF Attachement
<1>4. /\ desordre' \in BOOLEAN /\ (desordre => desordre')
      /\ desordre' = FALSE /\ b => \A y \in Relations : \A n \in circulations[y] :
            n.pays = p1 /\ n.principale => ~(n.debut >= d)
      BY <1>1 DEF AttachDeviseToPays, InvDevise
<1>5. /\ circulations \in [Relations -> SUBSET PaysDeviseRow]
      /\ \A y \in Relations : \A n, m \in circulations[y] : n = m
      BY DEF InvDevise, Table1
<1>6. ASSUME b = TRUE, desordre' = FALSE
      PROVE  \A y \in Relations : \A n \in circulations[y] :
                 n.pays = p1 /\ n.principale = TRUE => n.debut < d
  <2> SUFFICES ASSUME NEW y \in Relations, NEW n \in circulations[y], n.pays = p1, n.principale = TRUE
               PROVE  n.debut < d
      OBVIOUS
  <2>1. ~(n.debut >= d)
      BY <1>4, <1>6
  <2>2. n.debut \in Nat
      BY <1>5, CirculationType
  <2> QED  BY <1>2, <2>1, <2>2
<1>7. CASE /\ b => findPrincipaleActive(p1, d) = {}
           /\ TraiterTout(r, {Ecriture("circulation", x, l, TRUE, Nul)})
  <2> DEFINE q == Ecriture("circulation", x, l, TRUE, Nul)
  <2>1. /\ CleUnique({q}) /\ Neuve(q)
        /\ q.table = "circulation" /\ q.id = x /\ q.ligne = l /\ q.insertion = TRUE
      BY DEF Ecriture, Neuve, EcritureOK, Champs, CleUnique
  <2>2. Debute(requete, requete', r, {q}) /\ UNCHANGED recouvrement
      BY <1>7, <2>1, TraiterToutDebute
  <2>3. ASSUME circulations \in CoursUniques, desordre' = FALSE
        PROVE  Avec(circulations, x, l) \in CoursUniques
    <3>1. ASSUME b = TRUE PROVE Achevees(circulations, p1, d)
      <4> SUFFICES ASSUME NEW y \in Relations, NEW n \in circulations[y],
                          n.pays = p1, n.principale = TRUE
                   PROVE  n.fin # Nul /\ n.fin <= d
          BY DEF Achevees
      <4>1. n.debut < d /\ n.debut \in Nat /\ (n.fin = Nul \/ n.fin \in Nat)
          BY <1>5, <1>6, <2>3, <3>1, CirculationType
      <4>2. y \notin findPrincipaleActive(p1, d)
          BY <1>7, <3>1
      <4>3. ~(n.fin = Nul \/ n.fin >= d)
        <5>1. n.debut <= d
            BY <1>2, <4>1
        <5> QED  BY <4>2, <5>1 DEF findPrincipaleActive
      <4> QED  BY <1>2, <4>1, <4>3
    <3> QED  BY <1>2, <1>3, <2>3, <3>1, CoursNouveau
  <2>4. Applique({q}, "circulation", circulations, Relations) = Avec(circulations, x, l)
    <3>1. DOMAIN circulations = Relations
        BY <1>5
    <3> HIDE DEF q
    <3> QED  BY <2>1, <3>1, AppliqueSeule
  <2> HIDE DEF q
  <2>5. EcrituresDevise({q})
      BY <1>2, <1>3, <2>1 DEF EcrituresDevise
  <2>6. desordre' = FALSE => LotDevise({q})
      BY <2>3, <2>4 DEF LotDevise
  <2>7. DebuteDevise(r, {q})
      BY <1>4, <2>2, <2>5, <2>6 DEF DebuteDevise
  <2> QED  BY <2>7, DeviseDebute
<1>8. CASE /\ b
           /\ \E a \in findPrincipaleActive(p1, d) : \E m \in circulations[a] :
                 a # x /\ TraiterTout(r, Circulations(x, l, a, [m EXCEPT !.fin = d]))
  <2>0. PICK a \in findPrincipaleActive(p1, d) : \E m \in circulations[a] :
            a # x /\ TraiterTout(r, Circulations(x, l, a, [m EXCEPT !.fin = d]))
      BY <1>8
  <2>1. PICK m \in circulations[a] :
            a # x /\ TraiterTout(r, Circulations(x, l, a, [m EXCEPT !.fin = d]))
      BY <2>0
  <2> PICK k : k = [m EXCEPT !.fin = d]
      OBVIOUS
  <2>2. a \in Relations /\ \E n \in circulations[a] :
            n.pays = p1 /\ n.principale /\ n.debut <= d /\ (n.fin = Nul \/ n.fin >= d)
      BY DEF findPrincipaleActive
  <2>3. /\ m.pays = p1 /\ m.principale = TRUE /\ (m.fin = Nul \/ m.fin >= d)
        /\ m \in PaysDeviseRow
      BY <1>5, <2>2, CirculationType
  <2>4. k \in PaysDeviseRow
      BY <2>3 DEF PaysDeviseRow
  <2> DEFINE E == Circulations(x, l, a, k)
  <2>5. CleUnique(E) /\ \A q \in E : Neuve(q) /\ q.table = "circulation"
      BY <2>1, CirculationsNeuves
  <2>6. Debute(requete, requete', r, E) /\ UNCHANGED recouvrement
    <3> HIDE DEF E
    <3>1. TraiterTout(r, E)
        BY <2>1 DEF E
    <3> QED  BY <2>5, <3>1, TraiterToutDebute
  <2>7. \A q \in E : /\ q.id \in Relations /\ q.ligne \in PaysDeviseRow
                     /\ q.insertion = TRUE <=> circulations[q.id] = {}
    <3> DEFINE q == Ecriture("circulation", a, k, FALSE, Nul)
               p == Ecriture("circulation", x, l, TRUE, Nul)
    <3>1. /\ q.id = a /\ q.ligne = k /\ q.insertion = FALSE
          /\ p.id = x /\ p.ligne = l /\ p.insertion = TRUE
        BY DEF Ecriture
    <3>2. E = {q, p}
        BY DEF Circulations
    <3>3. circulations[a] # {}
        OBVIOUS
    <3> HIDE DEF q, p, E
    <3> QED  BY <1>2, <1>3, <2>2, <2>4, <3>1, <3>2, <3>3
  <2>8. ASSUME circulations \in CoursUniques, desordre' = FALSE
        PROVE  Applique(E, "circulation", circulations, Relations) \in CoursUniques
    <3> DEFINE t == Avec(circulations, a, k)
    <3>1. b = TRUE
        BY <1>8
    <3>2. Achevable(circulations, p1, d, m)
        BY <1>5, <1>6, <2>3, <2>8, <3>1 DEF Achevable
    <3>3. t \in CoursUniques /\ Achevees(t, p1, d)
        BY <1>2, <2>2, <2>8, <3>2, CoursAcheve
    <3>4. t[x] = {}
        BY <1>3, <1>5, <2>1 DEF Avec
    <3>5. Applique(E, "circulation", circulations, Relations) = Avec(t, x, l)
        BY <1>5, <2>1, <2>2, AppliqueDeux
    <3> HIDE DEF t
    <3>6. Avec(t, x, l) \in CoursUniques
        BY <1>2, <3>3, <3>4, CoursNouveau
    <3> QED  BY <3>5, <3>6
  <2> HIDE DEF E
  <2>9. EcrituresDevise(E)
      BY <2>5, <2>7 DEF EcrituresDevise
  <2>10. desordre' = FALSE => LotDevise(E)
      BY <2>8 DEF LotDevise
  <2>11. DebuteDevise(r, E)
      BY <1>4, <2>6, <2>9, <2>10 DEF DebuteDevise
  <2> QED  BY <2>11, DeviseDebute
<1> QED  BY <1>3, <1>7, <1>8

(* A step of another table, or one that only saves.                        *)
LEMMA DeviseHors ==
    ASSUME Socle, InvDevise, UNCHANGED <<circulations, desordre>>,
           UNCHANGED <<requete, recouvrement>> \/ \E S : Acte(S) /\ "circulation" \notin S
    PROVE  InvDevise'
<1> DEFINE A == Relations \X PaysDeviseRow
<1>1. CASE UNCHANGED <<requete, recouvrement>>
      BY <1>1 DEF InvDevise, CirculationsSuivies
<1>2. ASSUME NEW S, Acte(S), "circulation" \notin S PROVE InvDevise'
  <2>1. ReqOK(requete) /\ Suivi(requete, "circulation", circulations, A, A)
      BY DEF Socle, InvDevise, CirculationsSuivies
  <2>2. Suivi(requete', "circulation", circulations, A, A)
    <3> HIDE DEF A
    <3> QED  BY <1>2, <2>1, SuiviActe
  <2>3. recouvrement => recouvrement'
      BY <1>2, <2>1, ActeReqOK
  <2>4. ASSUME ~recouvrement', desordre' = FALSE
        PROVE  /\ circulations \in CoursUniques
               /\ LotsSuivis(requete', "circulation", circulations, Relations, CoursUniques)
    <3>1. /\ circulations \in CoursUniques
          /\ LotsSuivis(requete, "circulation", circulations, Relations, CoursUniques)
        BY <2>3, <2>4 DEF InvDevise
    <3> QED  BY <1>2, <2>1, <3>1, LotActe
  <2>5. Table1(circulations', Relations, PaysDeviseRow) /\ desordre' \in BOOLEAN
      BY DEF InvDevise
  <2>6. Suivi(requete', "circulation", circulations', A, A)
      BY <2>2
  <2>7. ASSUME ~recouvrement', desordre' = FALSE
        PROVE  /\ circulations' \in CoursUniques
               /\ LotsSuivis(requete', "circulation", circulations', Relations, CoursUniques)
      BY <2>4, <2>7
  <2> QED  BY <2>5, <2>6, <2>7 DEF InvDevise, CirculationsSuivies
<1> QED  BY <1>1, <1>2

LEMMA DeviseSave ==
    ASSUME Socle, InvDevise, NEW r \in Requetes, save(r, "circulation", circulations),
           UNCHANGED <<circulations, desordre>>
    PROVE  InvDevise'
<1> DEFINE A == Relations \X PaysDeviseRow
<1>1. ReqOK(requete) /\ Suivi(requete, "circulation", circulations, A, A)
      BY DEF Socle, InvDevise, CirculationsSuivies
<1>2. Suivi(requete', "circulation", circulations, A, A) /\ UNCHANGED recouvrement
  <2> HIDE DEF A
  <2> QED  BY <1>1, SuiviSave, saveSauve
<1>3. ASSUME ~recouvrement, desordre = FALSE
      PROVE  /\ circulations \in CoursUniques
             /\ LotsSuivis(requete', "circulation", circulations, Relations, CoursUniques)
  <2>1. /\ circulations \in CoursUniques
        /\ LotsSuivis(requete, "circulation", circulations, Relations, CoursUniques)
      BY <1>3 DEF InvDevise
  <2> QED  BY <1>1, <2>1, LotSave
<1>4. Table1(circulations', Relations, PaysDeviseRow) /\ desordre' \in BOOLEAN
      BY DEF InvDevise
<1>5. Suivi(requete', "circulation", circulations', A, A)
      BY <1>2
<1>6. ASSUME ~recouvrement', desordre' = FALSE
      PROVE  /\ circulations' \in CoursUniques
             /\ LotsSuivis(requete', "circulation", circulations', Relations, CoursUniques)
      BY <1>2, <1>3, <1>6
<1> QED  BY <1>4, <1>5, <1>6 DEF InvDevise, CirculationsSuivies

LEMMA DeviseCommit ==
    ASSUME Socle, InvDevise, NEW r \in Requetes, Valider(r, "circulation", circulations),
           circulations' = ApresTout(r, circulations), UNCHANGED desordre
    PROVE  InvDevise'
<1> DEFINE A == Relations \X PaysDeviseRow
           v == ApresTout(r, circulations)
<1>1. /\ ReqOK(requete) /\ Suivi(requete, "circulation", circulations, A, A)
      /\ Table1(circulations, Relations, PaysDeviseRow) /\ Terminer(r)
      BY DEF Socle, InvDevise, CirculationsSuivies, Valider
<1> HIDE DEF A
<1>2. Table1(v, Relations, PaysDeviseRow)
      BY <1>1, CirculationColonnes, ValiderTable DEF A
<1>3. Suivi(requete', "circulation", v, A, A)
      BY <1>1, SuiviTerminer
<1>4. recouvrement => recouvrement'
      BY <1>1, TerminerFinit
<1>5. ASSUME ~recouvrement', desordre = FALSE
      PROVE  /\ v \in CoursUniques
             /\ LotsSuivis(requete', "circulation", v, Relations, CoursUniques)
  <2>1. LotsSuivis(requete, "circulation", circulations, Relations, CoursUniques)
      BY <1>4, <1>5 DEF InvDevise
  <2>2. v \in CoursUniques
      BY <1>1, <1>5, <2>1, CirculationColonnes, LotValider DEF A
  <2> QED  BY <1>1, <2>2, LotTerminer
<1> HIDE DEF v
<1>6. circulations' = v /\ desordre' = desordre
      BY DEF v
<1>7. Table1(circulations', Relations, PaysDeviseRow) /\ desordre' \in BOOLEAN
      BY <1>2, <1>6 DEF InvDevise
<1>8. Suivi(requete', "circulation", circulations', Relations \X PaysDeviseRow, Relations \X PaysDeviseRow)
      BY <1>3, <1>6 DEF A
<1>9. ASSUME ~recouvrement', desordre' = FALSE
      PROVE  /\ circulations' \in CoursUniques
             /\ LotsSuivis(requete', "circulation", circulations', Relations, CoursUniques)
      BY <1>5, <1>6, <1>9
<1> QED  BY <1>7, <1>8, <1>9 DEF InvDevise, CirculationsSuivies

LEMMA DeviseReferentiel ==
    ASSUME Socle, InvDevise, ReferentielNext
    PROVE  InvDevise'
<1>1. ASSUME NEW S, Acte(S), "circulation" \notin S, UNCHANGED <<circulations, desordre>>
      PROVE  InvDevise'
      BY <1>1, DeviseHors
<1>2. ASSUME NEW r \in Requetes, UNCHANGED <<circulations, desordre>>,
             Fiches(r) \/ Liaisons(r) \/ Traduction(r)
      PROVE  InvDevise'
      BY <1>1, <1>2, FichesActe, LiaisonsActe, TraductionActe, SocleSansDouble
<1>3. ASSUME NEW r \in Requetes, UNCHANGED circulations, Circulation(r) PROVE InvDevise'
      BY <1>3, DeviseLecture
<1>4. ASSUME NEW r \in Requetes, saveReferentiel(r) PROVE InvDevise'
  <2>1. UNCHANGED <<circulations, desordre>>
      BY <1>4 DEF saveReferentiel, referentielVars, relationVars
  <2>2. CASE save(r, "circulation", circulations)
      BY <2>1, <2>2, DeviseSave
  <2>3. ASSUME NEW x, NEW lignes, save(r, x, lignes), x # "circulation" PROVE InvDevise'
    <3>1. Acte({x}) /\ "circulation" \notin {x}
        BY <2>3, saveActe
    <3> QED  BY <1>1, <2>1, <3>1
  <2> QED  BY <1>4, <2>2, <2>3 DEF saveReferentiel
<1>5. ASSUME NEW r \in Requetes, Terminer(r), UNCHANGED <<circulations, desordre>> PROVE InvDevise'
  <2>1. Acte({}) /\ "circulation" \notin {}
      BY <1>5, TerminerActe
  <2> QED  BY <1>1, <1>5, <2>1
<1>6. ASSUME NEW r \in Requetes, commitRelation(r) PROVE InvDevise'
      BY <1>5, <1>6, DeviseCommit DEF commitRelation, Valider
<1>7. ASSUME NEW r \in Requetes, commitFiche(r) \/ commitLocale(r) \/ commitTraduction(r)
      PROVE  Terminer(r) /\ UNCHANGED <<circulations, desordre>>
      BY <1>7 DEF commitFiche, commitLocale, commitTraduction, Valider, relationVars
<1> QED  BY <1>2, <1>3, <1>4, <1>5, <1>6, <1>7 DEF ReferentielNext, relationVars

LEMMA DeviseEtape == Socle /\ InvDevise /\ [Next]_vars => InvDevise'
<1> SUFFICES ASSUME Socle, InvDevise, [Next]_vars PROVE InvDevise'
    OBVIOUS
<1>1. CASE ReferentielNext
      BY <1>1, DeviseReferentiel
<1>2. CASE ~ReferentielNext
  <2>1. UNCHANGED <<circulations, desordre>> /\ Ailleurs(TablesReferentiel)
      BY <1>2, HorsReferentiel DEF referentielVars, relationVars
  <2>2. ASSUME NEW S, S \intersect TablesReferentiel = {} PROVE "circulation" \notin S
      BY <2>2 DEF TablesReferentiel
  <2> QED  BY <2>1, <2>2, DeviseHors DEF Ailleurs
<1> QED  BY <1>1, <1>2

LEMMA DeviseInit == Init => InvDevise
<1> SUFFICES ASSUME Init PROVE InvDevise
    OBVIOUS
<1>1. /\ circulations = Table(Relations, Aucune) /\ desordre = FALSE
      /\ requete = [r \in Requetes |-> {}]
      BY DEF Init, InitUnite, Demarrage
<1>2. \A x \in Relations : circulations[x] = {}
      BY <1>1 DEF Table, Aucune
<1>3. Table1(circulations, Relations, PaysDeviseRow)
      BY <1>1, <1>2 DEF Table1, Table
<1>4. circulations \in CoursUniques
      BY <1>2, <1>3 DEF CoursUniques, Table1
<1> QED  BY <1>1, <1>3, <1>4 DEF InvDevise, CirculationsSuivies, Suivi, LotsSuivis, LotBon

(* KER-REF-03: two main currencies that findPrincipaleActive finds for one *)
(* country at one date are the one that ends and the one that begins that  *)
(* day, unless two attachments overlapped or one came with a date not      *)
(* after those before.                                                     *)
THEOREM DevisePrincipaleUniqueCorrect == Spec => []DevisePrincipaleUnique
<1>1. Socle /\ InvDevise /\ [Next]_vars => (Socle /\ InvDevise)'
      BY SocleEtape, DeviseEtape
<1>2. InvDevise => DevisePrincipaleUnique
  <2> SUFFICES ASSUME InvDevise, ~recouvrement, ~desordre, NEW p \in Pays, NEW d \in Dates,
                      NEW x \in findPrincipaleActive(p, d), NEW y \in findPrincipaleActive(p, d), x # y
               PROVE  Releve(x, y, d) \/ Releve(y, x, d)
      BY DEF DevisePrincipaleUnique
  <2>1. circulations \in CoursUniques
      BY DEF InvDevise
  <2>2. ASSUME NEW z \in findPrincipaleActive(p, d)
        PROVE  z \in Relations /\ \E l \in circulations[z] :
                  l.pays = p /\ l.principale /\ l.debut <= d /\ (l.fin = Nul \/ l.fin >= d)
      BY <2>2 DEF findPrincipaleActive
  <2>3. PICK l \in circulations[x] :
            l.pays = p /\ l.principale /\ l.debut <= d /\ (l.fin = Nul \/ l.fin >= d)
      BY <2>2
  <2>4. PICK m \in circulations[y] :
            m.pays = p /\ m.principale /\ m.debut <= d /\ (m.fin = Nul \/ m.fin >= d)
      BY <2>2
  <2>5. /\ x \in Relations /\ y \in Relations /\ d \in Nat
        /\ l \in PaysDeviseRow /\ m \in PaysDeviseRow
      BY <2>1, <2>2, ReferentielAssumption DEF CoursUniques
  <2>6. /\ l.principale = TRUE /\ m.principale = TRUE
        /\ l.debut \in Nat /\ m.debut \in Nat
        /\ (l.fin = Nul \/ l.fin \in Nat) /\ (m.fin = Nul \/ m.fin \in Nat)
      BY <2>3, <2>4, <2>5, CirculationType
  <2>7. Succede(l, m) \/ Succede(m, l)
      BY <2>1, <2>3, <2>4, <2>5, <2>6 DEF CoursUniques
  <2>8. CASE Succede(l, m)
      BY <2>3, <2>4, <2>5, <2>6, <2>8 DEF Succede, Releve
  <2>9. CASE Succede(m, l)
      BY <2>3, <2>4, <2>5, <2>6, <2>9 DEF Succede, Releve
  <2> QED  BY <2>7, <2>8, <2>9
<1> QED  BY SocleInit, DeviseInit, <1>1, <1>2, PTL DEF Spec
-----------------------------------------------------------------------------
(* The life cycle of what goes through a workflow.  The objects are the    *)
(* rows of nine tables, named as the writes name them.                     *)
TablesCycle ==
    {"noeud", "regle", "corpus", "fiche", "abonnement", "catalogue", "article", "offre", "grille"}

IdsDe(nom) ==
    CASE nom = "noeud" -> Noeuds [] nom = "regle" -> Regles [] nom = "corpus" -> Corpus
      [] nom = "fiche" -> CodesFiches [] nom = "abonnement" -> Abonnements
      [] nom = "catalogue" -> Catalogues [] nom = "article" -> Articles
      [] nom = "offre" -> Offres [] nom = "grille" -> Grilles

StatutsDe(nom) ==
    CASE nom \in {"noeud", "regle", "fiche"} -> Statuts
      [] nom = "corpus" -> StatutsCorpus
      [] nom = "abonnement" -> {"actif", "suspendu", "resilie"}
      [] OTHER -> StatutsCatalogue

EtatsDe(L) == {l.statut : l \in L}

(* An object o in the states avant is written with state s under an event  *)
(* of this type: it is created, it keeps its state, or it moves along an   *)
(* arrow of its workflow, and only a move is announced.                    *)
Coup(o, avant, s, type) ==
    \/ avant = {} /\ s = InitialNoyau(o) /\ type \notin Annonces
    \/ avant = {s} /\ type \notin Annonces
    \/ \E f \in FlechesNoyau(o) :
          avant = {f[1]} /\ s = f[2] /\ (type \in Annonces <=> NotoireNoyau(o, s))

CoupBon(q, nom, t) ==
    /\ q.id \in IdsDe(nom) /\ "statut" \in DOMAIN q.ligne /\ q.ligne.statut \in StatutsDe(nom)
    /\ q.depasse = FALSE =>
          /\ Coup(<<nom, q.id>>, EtatsDe(t[q.id]), q.ligne.statut, q.type)
          /\ q.insertion = TRUE => t[q.id] = {}
          /\ q.insertion = FALSE => t[q.id] # {}
          /\ q.enregistre = TRUE =>
                "statut" \in q.colonnes \/ \A l \in t[q.id] : l.statut = q.ligne.statut

EcritureCycle(q) ==
    IF q.table \in TablesCycle THEN CoupBon(q, q.table, Lignes(q.table)) ELSE q.type \notin Annonces

TableCycle(nom, t) ==
    /\ DOMAIN t = IdsDe(nom)
    /\ \A i \in IdsDe(nom) : \A l \in t[i] :
          /\ "statut" \in DOMAIN l /\ l.statut \in StatutsDe(nom)
          /\ \A m \in t[i] : m.statut = l.statut

InvCycle ==
    /\ \A nom \in TablesCycle : TableCycle(nom, Lignes(nom))
    /\ \A r \in Requetes : \A q \in requete[r] : EcritureCycle(q)

(* The objects announced by the last step.                                 *)
Annoncees == {<<x[2], x[3]>> : x \in {y \in emission : y[1] \in Annonces}}

CyclePas == [Cycle!Next]_<<EtatsNoyau, Annoncees>>

LEMMA LignesCas ==
    /\ Lignes("noeud") = noeuds /\ Lignes("regle") = regles /\ Lignes("corpus") = corpus
    /\ Lignes("fiche") = fiches /\ Lignes("abonnement") = abonnements
    /\ Lignes("catalogue") = catalogues /\ Lignes("article") = articles
    /\ Lignes("offre") = offres /\ Lignes("grille") = grilles
    /\ Lignes("noeud")' = noeuds' /\ Lignes("regle")' = regles' /\ Lignes("corpus")' = corpus'
    /\ Lignes("fiche")' = fiches' /\ Lignes("abonnement")' = abonnements'
    /\ Lignes("catalogue")' = catalogues' /\ Lignes("article")' = articles'
    /\ Lignes("offre")' = offres' /\ Lignes("grille")' = grilles'
BY DEF Lignes

LEMMA IdsCas ==
    /\ IdsDe("noeud") = Noeuds /\ IdsDe("regle") = Regles /\ IdsDe("corpus") = Corpus
    /\ IdsDe("fiche") = CodesFiches /\ IdsDe("abonnement") = Abonnements
    /\ IdsDe("catalogue") = Catalogues /\ IdsDe("article") = Articles
    /\ IdsDe("offre") = Offres /\ IdsDe("grille") = Grilles
BY DEF IdsDe

LEMMA StatutsCas ==
    /\ StatutsDe("noeud") = Statuts /\ StatutsDe("regle") = Statuts
    /\ StatutsDe("corpus") = StatutsCorpus /\ StatutsDe("fiche") = Statuts
    /\ StatutsDe("abonnement") = {"actif", "suspendu", "resilie"}
    /\ StatutsDe("catalogue") = StatutsCatalogue /\ StatutsDe("article") = StatutsCatalogue
    /\ StatutsDe("offre") = StatutsCatalogue /\ StatutsDe("grille") = StatutsCatalogue
BY DEF StatutsDe

LEMMA ObjetsForme ==
    /\ \A o \in ObjetsNoyau : o = <<o[1], o[2]>> /\ o[1] \in TablesCycle /\ o[2] \in IdsDe(o[1])
    /\ \A nom \in TablesCycle : \A i \in IdsDe(nom) : <<nom, i>> \in ObjetsNoyau
BY IdsCas DEF ObjetsNoyau, TablesCycle

LEMMA EtatsForme ==
    /\ EtatsNoyau = [o \in ObjetsNoyau |-> EtatsDe(Lignes(o[1])[o[2]])]
    /\ EtatsNoyau' = [o \in ObjetsNoyau |-> EtatsDe(Lignes(o[1])'[o[2]])]
BY DEF EtatsNoyau, EtatsDe

LEMMA PasSilence ==
    ASSUME Annoncees' = {}, UNCHANGED EtatsNoyau
    PROVE  CyclePas
BY DEF CyclePas, Cycle!Next, Cycle!Silence, Annoncees

LEMMA PasPerturbe ==
    ASSUME recouvrement'
    PROVE  CyclePas
BY DEF CyclePas, Cycle!Next, Cycle!Perturber

LEMMA PasCree ==
    ASSUME NEW o \in ObjetsNoyau, EtatsNoyau[o] = {},
           EtatsNoyau' = [EtatsNoyau EXCEPT ![o] = {InitialNoyau(o)}], Annoncees' = {}
    PROVE  CyclePas
BY DEF CyclePas, Cycle!Next, Cycle!Creer, Annoncees

LEMMA PasAvance ==
    ASSUME NEW o \in ObjetsNoyau, NEW f \in FlechesNoyau(o), EtatsNoyau[o] = {f[1]},
           EtatsNoyau' = [EtatsNoyau EXCEPT ![o] = {f[2]}],
           Annoncees' = IF NotoireNoyau(o, f[2]) THEN {o} ELSE {}
    PROVE  CyclePas
BY DEF CyclePas, Cycle!Next, Cycle!Avancer, Annoncees

(* No table of the cycle changes and nothing is announced.                 *)
Immobile == \A nom \in TablesCycle : UNCHANGED Lignes(nom)

LEMMA PasImmobile ==
    ASSUME Immobile
    PROVE  /\ UNCHANGED EtatsNoyau
           /\ UNCHANGED emission => CyclePas
           /\ emission' = {} => CyclePas
<1>1. UNCHANGED EtatsNoyau
      BY EtatsForme, ObjetsForme DEF Immobile
<1>2. UNCHANGED emission => UNCHANGED Annoncees
      BY DEF Annoncees
<1>3. emission' = {} => Annoncees' = {}
      BY DEF Annoncees
<1> QED  BY <1>1, <1>2, <1>3, PasSilence DEF CyclePas

LEMMA EcritureCycleImmobile ==
    ASSUME Immobile, NEW q, EcritureCycle(q)
    PROVE  EcritureCycle(q)'
BY DEF Immobile, EcritureCycle

LEMMA TableCycleImmobile ==
    ASSUME Immobile, InvCycle
    PROVE  \A nom \in TablesCycle : TableCycle(nom, Lignes(nom))'
BY DEF Immobile, InvCycle

(* What the steps of a request do to the writes in progress.               *)
LEMMA CycleDebute ==
    ASSUME ReqOK(requete), InvCycle, Immobile, NEW r \in Requetes, NEW E,
           Debute(requete, requete', r, E), \A q \in E : EcritureCycle(q)
    PROVE  InvCycle'
<1>1. requete' = [s \in Requetes |-> IF s = r THEN E ELSE requete[s]]
      BY DEF Debute, ReqOK
<1>2. \A s \in Requetes : \A q \in requete'[s] : EcritureCycle(q)
      BY <1>1 DEF InvCycle
<1>3. \A s \in Requetes : \A q \in requete'[s] : EcritureCycle(q)'
      BY <1>2, EcritureCycleImmobile
<1> QED  BY <1>3, TableCycleImmobile DEF InvCycle

LEMMA CycleAnnule ==
    ASSUME ReqOK(requete), InvCycle, Immobile, NEW r \in Requetes,
           Annule(requete, requete', r)
    PROVE  InvCycle'
<1>1. requete' = [s \in Requetes |-> IF s = r THEN {} ELSE requete[s]]
      BY DEF Annule, ReqOK
<1>2. \A s \in Requetes : \A q \in requete'[s] : EcritureCycle(q)
      BY <1>1 DEF InvCycle
<1>3. \A s \in Requetes : \A q \in requete'[s] : EcritureCycle(q)'
      BY <1>2, EcritureCycleImmobile
<1> QED  BY <1>3, TableCycleImmobile DEF InvCycle

LEMMA CycleSauve ==
    ASSUME ReqOK(requete), InvCycle, Immobile, NEW r \in Requetes,
           NEW q \in requete[r], NEW lignes,
           Sauve(requete, requete', r, q, Modifiees(q, lignes)),
           q.table \in TablesCycle => lignes = Lignes(q.table)
    PROVE  InvCycle'
<1> DEFINE C == Modifiees(q, lignes)
           e == Enregistree(q, C)
           R == (requete[r] \ {q}) \union {e}
<1>1. requete' = [s \in Requetes |-> IF s = r THEN R ELSE requete[s]]
      BY DEF Sauve, ReqOK
<1>2. EcritureOK(q) /\ EcritureCycle(q)
      BY DEF ReqOK, InvCycle
<1>3. /\ e.table = q.table /\ e.id = q.id /\ e.ligne = q.ligne /\ e.insertion = q.insertion
      /\ e.type = q.type /\ e.depasse = q.depasse /\ e.colonnes = C
      BY <1>2, EnregistreeForme
<1>4. C = {c \in DOMAIN q.ligne : q.insertion \/ \E l \in lignes[q.id] : l[c] # q.ligne[c]}
      BY DEF Modifiees
<1> HIDE DEF e, C
<1>5. EcritureCycle(e)
  <2>1. CASE q.table \notin TablesCycle
      BY <1>2, <1>3, <2>1 DEF EcritureCycle
  <2>2. CASE q.table \in TablesCycle
    <3>1. lignes = Lignes(q.table) /\ CoupBon(q, q.table, lignes)
        BY <1>2, <2>2 DEF EcritureCycle
    <3>2. "statut" \in DOMAIN q.ligne
        BY <3>1 DEF CoupBon
    <3>3. "statut" \in C \/ \A l \in lignes[q.id] : l.statut = q.ligne.statut
        BY <1>4, <3>2
    <3>4. CoupBon(e, q.table, lignes)
        BY <1>3, <3>1, <3>3 DEF CoupBon
    <3> QED  BY <1>3, <2>2, <3>1, <3>4 DEF EcritureCycle
  <2> QED  BY <2>1, <2>2
<1>6. \A s \in Requetes : \A x \in requete'[s] : EcritureCycle(x)
      BY <1>1, <1>5 DEF InvCycle
<1>7. \A s \in Requetes : \A x \in requete'[s] : EcritureCycle(x)'
      BY <1>6, EcritureCycleImmobile
<1> QED  BY <1>7, TableCycleImmobile DEF InvCycle

(* After a commit every write in progress has been overtaken.              *)
LEMMA CycleFinit ==
    ASSUME ReqOK(requete), InvCycle, NEW r \in Requetes, Finit(requete, requete', r),
           \A nom \in TablesCycle : TableCycle(nom, Lignes(nom))'
    PROVE  InvCycle'
<1>1. requete' = [s \in Requetes |-> IF s = r THEN {} ELSE Depassees(requete[s])]
      BY DEF Finit
<1>2. ASSUME NEW s \in Requetes, NEW d \in requete'[s] PROVE EcritureCycle(d)'
  <2>1. PICK q \in requete[s] : d = Depassee(q)
      BY <1>1, <1>2 DEF Depassees
  <2>2. /\ d.table = q.table /\ d.id = q.id /\ d.ligne = q.ligne /\ d.type = q.type
        /\ d.depasse = TRUE
      BY <2>1, DepasseeForme DEF ReqOK
  <2>3. EcritureCycle(q)
      BY DEF InvCycle
  <2>4. ASSUME q.table \in TablesCycle PROVE CoupBon(d, d.table, Lignes(d.table)')
      BY <2>2, <2>3, <2>4 DEF EcritureCycle, CoupBon
  <2> QED  BY <2>2, <2>3, <2>4 DEF EcritureCycle, CoupBon
<1> QED  BY <1>2 DEF InvCycle

(* A commit in another table.                                              *)
LEMMA CycleCommitAilleurs ==
    ASSUME ReqOK(requete), InvCycle, Immobile, NEW r \in Requetes, Terminer(r),
           \A q \in requete[r] : q.table \notin TablesCycle
    PROVE  InvCycle' /\ CyclePas
<1>1. InvCycle'
      BY TerminerFinit, TableCycleImmobile, CycleFinit
<1>2. Annoncees' = {}
  <2>1. \A q \in requete[r] : q.type \notin Annonces
      BY DEF InvCycle, EcritureCycle
  <2>2. emission' = {<<q.type, q.table, q.id>> : q \in {x \in requete[r] : x.type # Nul}}
      BY DEF Terminer
  <2>3. \A x \in emission' : x[1] \notin Annonces
      BY <2>1, <2>2
  <2> QED  BY <2>3 DEF Annoncees
<1> QED  BY <1>1, <1>2, PasImmobile, PasSilence

(* A commit in a table of the cycle: one row changes, and unless a request *)
(* has been overtaken it takes the state of the copy.                      *)
Seule(q, r, nom, t) ==
    /\ requete[r] = {q} /\ q.table = nom /\ CoupBon(q, nom, t)
    /\ ApresTout(r, t)[q.id] =
          IF q.insertion THEN {q.ligne} ELSE {Fusion(q, l) : l \in t[q.id]}
    /\ \A i \in IdsDe(nom) : i # q.id => ApresTout(r, t)[i] = t[i]
    /\ DOMAIN ApresTout(r, t) = IdsDe(nom)

LEMMA CycleUneEcriture ==
    ASSUME ReqOK(requete), InvCycle, NEW r \in Requetes, NEW nom \in TablesCycle,
           NEW t, t = Lignes(nom), Valider(r, nom, t)
    PROVE  \E q \in requete[r] : Seule(q, r, nom, t)
<1>1. PICK q \in requete[r] : TRUE
      BY DEF Valider, Terminer
<1>2. \A x \in requete[r] : x.table = nom
      BY DEF Valider
<1>3. nom \notin {"circulation", "locale"}
      BY DEF TablesCycle
<1>4. requete[r] = {q}
      BY <1>1, <1>2, <1>3 DEF ReqOK, CleUnique
<1>5. CoupBon(q, nom, t) /\ q.id \in IdsDe(nom)
      BY <1>1, <1>2 DEF InvCycle, EcritureCycle, CoupBon
<1>6. DOMAIN t = IdsDe(nom)
      BY DEF InvCycle, TableCycle
<1>7. \A i \in IdsDe(nom) : ApresTout(r, t)[i] =
          IF \E x \in {q} : x.id = i
          THEN UNION {Apres(x, t)[i] : x \in {y \in {q} : y.id = i}}
          ELSE t[i]
      BY <1>4, <1>6 DEF ApresTout, ApresDe
<1>8. {y \in {q} : y.id = q.id} = {q}
      OBVIOUS
<1>9. ApresTout(r, t)[q.id] = Apres(q, t)[q.id]
      BY <1>5, <1>7, <1>8
<1>10. Apres(q, t)[q.id] = IF q.insertion THEN {q.ligne} ELSE {Fusion(q, l) : l \in t[q.id]}
      BY <1>5, <1>6 DEF Apres
<1>11. DOMAIN ApresTout(r, t) = IdsDe(nom)
      BY <1>6 DEF ApresTout, ApresDe
<1>12. \A i \in IdsDe(nom) : i # q.id => ApresTout(r, t)[i] = t[i]
      BY <1>7
<1>13. Seule(q, r, nom, t)
      BY <1>1, <1>2, <1>4, <1>5, <1>9, <1>10, <1>11, <1>12 DEF Seule
<1> QED  BY <1>13

LEMMA FusionStatut ==
    ASSUME NEW nom, NEW t, NEW q, NEW l, NEW m, CoupBon(q, nom, t),
           "statut" \in DOMAIN l, l.statut \in StatutsDe(nom), m.statut = l.statut
    PROVE  /\ "statut" \in DOMAIN Fusion(q, l) /\ Fusion(q, l).statut \in StatutsDe(nom)
           /\ Fusion(q, m).statut = Fusion(q, l).statut
BY DEF CoupBon, Fusion

LEMMA CycleTable ==
    ASSUME ReqOK(requete), InvCycle, NEW r \in Requetes, NEW nom \in TablesCycle,
           NEW t, t = Lignes(nom), Valider(r, nom, t)
    PROVE  TableCycle(nom, ApresTout(r, t))
<1>0. PICK q \in requete[r] : Seule(q, r, nom, t)
      BY CycleUneEcriture
<1>1. /\ requete[r] = {q} /\ q.table = nom /\ CoupBon(q, nom, t)
      /\ ApresTout(r, t)[q.id] =
           IF q.insertion THEN {q.ligne} ELSE {Fusion(q, l) : l \in t[q.id]}
      /\ \A i \in IdsDe(nom) : i # q.id => ApresTout(r, t)[i] = t[i]
      /\ DOMAIN ApresTout(r, t) = IdsDe(nom)
      BY <1>0 DEF Seule
<1>2. TableCycle(nom, t)
      BY DEF InvCycle
<1>3. q.id \in IdsDe(nom) /\ "statut" \in DOMAIN q.ligne /\ q.ligne.statut \in StatutsDe(nom)
      BY <1>1 DEF CoupBon
<1> DEFINE u == ApresTout(r, t)
<1> HIDE DEF u
<1>4. ASSUME NEW l \in u[q.id], NEW m \in u[q.id]
      PROVE  "statut" \in DOMAIN l /\ l.statut \in StatutsDe(nom) /\ m.statut = l.statut
  <2>1. u[q.id] = IF q.insertion THEN {q.ligne} ELSE {Fusion(q, x) : x \in t[q.id]}
      BY <1>1 DEF u
  <2>2. CASE q.insertion
      BY <1>3, <1>4, <2>1, <2>2
  <2>3. CASE ~q.insertion
    <3>1. PICK x \in t[q.id] : l = Fusion(q, x)
        BY <2>1, <2>3
    <3>2. PICK y \in t[q.id] : m = Fusion(q, y)
        BY <2>1, <2>3
    <3>3. "statut" \in DOMAIN x /\ x.statut \in StatutsDe(nom) /\ y.statut = x.statut
        BY <1>2, <1>3 DEF TableCycle
    <3> QED  BY <1>1, <3>1, <3>2, <3>3, FusionStatut
  <2> QED  BY <2>2, <2>3
<1>5. ASSUME NEW i \in IdsDe(nom), NEW l \in u[i], NEW m \in u[i]
      PROVE  "statut" \in DOMAIN l /\ l.statut \in StatutsDe(nom) /\ m.statut = l.statut
  <2>1. CASE i = q.id
      BY <1>4, <1>5, <2>1
  <2>2. CASE i # q.id
    <3>1. u[i] = t[i]
        BY <1>1, <2>2 DEF u
    <3> QED  BY <1>2, <1>5, <3>1 DEF TableCycle
  <2> QED  BY <2>1, <2>2
<1>6. DOMAIN u = IdsDe(nom)
      BY <1>1 DEF u
<1>7. TableCycle(nom, u)
      BY <1>5, <1>6 DEF TableCycle
<1> QED  BY <1>7 DEF u

Arrivee(q, r, nom, t) ==
    /\ requete[r] = {q} /\ q.table = nom /\ q.id \in IdsDe(nom)
    /\ Coup(<<nom, q.id>>, EtatsDe(t[q.id]), q.ligne.statut, q.type)
    /\ EtatsDe(ApresTout(r, t)[q.id]) = {q.ligne.statut}
    /\ \A i \in IdsDe(nom) : i # q.id => ApresTout(r, t)[i] = t[i]

LEMMA CycleArrivee ==
    ASSUME ReqOK(requete), InvCycle, NEW r \in Requetes, NEW nom \in TablesCycle,
           NEW t, t = Lignes(nom), Valider(r, nom, t), ~recouvrement'
    PROVE  \E q \in requete[r] : Arrivee(q, r, nom, t)
<1>0. PICK q \in requete[r] : Seule(q, r, nom, t)
      BY CycleUneEcriture
<1>1. /\ requete[r] = {q} /\ q.table = nom /\ CoupBon(q, nom, t)
      /\ ApresTout(r, t)[q.id] =
           IF q.insertion THEN {q.ligne} ELSE {Fusion(q, l) : l \in t[q.id]}
      /\ \A i \in IdsDe(nom) : i # q.id => ApresTout(r, t)[i] = t[i]
      /\ DOMAIN ApresTout(r, t) = IdsDe(nom)
      BY <1>0 DEF Seule
<1>2. q.depasse = FALSE /\ q.enregistre = TRUE /\ q.insertion \in BOOLEAN
  <2>1. EcritureOK(q)
      BY DEF ReqOK
  <2>2. ~q.depasse /\ q.enregistre
      BY TerminerFinit DEF Valider
  <2> QED  BY <2>1, <2>2 DEF EcritureOK
<1>3. /\ q.id \in IdsDe(nom) /\ "statut" \in DOMAIN q.ligne
      /\ Coup(<<nom, q.id>>, EtatsDe(t[q.id]), q.ligne.statut, q.type)
      /\ q.insertion = FALSE => t[q.id] # {}
      /\ "statut" \in q.colonnes \/ \A l \in t[q.id] : l.statut = q.ligne.statut
      BY <1>1, <1>2 DEF CoupBon
<1>4. EtatsDe(ApresTout(r, t)[q.id]) = {q.ligne.statut}
  <2>1. CASE q.insertion = TRUE
      BY <1>1, <2>1 DEF EtatsDe
  <2>2. CASE q.insertion = FALSE
    <3>1. ApresTout(r, t)[q.id] = {Fusion(q, l) : l \in t[q.id]}
        BY <1>1, <2>2
    <3>2. ASSUME NEW l \in t[q.id] PROVE Fusion(q, l).statut = q.ligne.statut
      <4>1. "statut" \in DOMAIN l /\ l.statut \in StatutsDe(nom)
          BY <1>3 DEF InvCycle, TableCycle
      <4> QED  BY <1>3, <4>1 DEF Fusion
    <3> QED  BY <1>3, <2>2, <3>1, <3>2 DEF EtatsDe
  <2> QED  BY <1>2, <2>1, <2>2
<1>5. Arrivee(q, r, nom, t)
      BY <1>1, <1>3, <1>4 DEF Arrivee
<1> QED  BY <1>5

(* One object o goes from the states avant to the state s.                 *)
LEMMA PasCoup ==
    ASSUME NEW o \in ObjetsNoyau, NEW s, NEW type,
           Coup(o, EtatsNoyau[o], s, type),
           EtatsNoyau' = [EtatsNoyau EXCEPT ![o] = {s}],
           Annoncees' = IF type \in Annonces THEN {o} ELSE {}
    PROVE  CyclePas
<1>1. CASE EtatsNoyau[o] = {} /\ s = InitialNoyau(o) /\ type \notin Annonces
      BY <1>1, PasCree
<1>2. CASE EtatsNoyau[o] = {s} /\ type \notin Annonces
  <2>1. UNCHANGED EtatsNoyau
      BY <1>2, EtatsForme
  <2> QED  BY <1>2, <2>1, PasSilence
<1>3. ASSUME NEW f \in FlechesNoyau(o), EtatsNoyau[o] = {f[1]}, s = f[2],
             type \in Annonces <=> NotoireNoyau(o, s)
      PROVE  CyclePas
      BY <1>3, PasAvance
<1> QED  BY <1>1, <1>2, <1>3 DEF Coup

(* The commits in the other tables leave table nom alone.                  *)
SeuleChange(nom) ==
    \A x \in TablesCycle : x # nom => UNCHANGED Lignes(x)

LEMMA CycleCommit ==
    ASSUME ReqOK(requete), InvCycle, NEW r \in Requetes, NEW nom \in TablesCycle,
           Valider(r, nom, Lignes(nom)), Lignes(nom)' = ApresTout(r, Lignes(nom)),
           SeuleChange(nom)
    PROVE  InvCycle' /\ CyclePas
<1> DEFINE t == Lignes(nom)
<1>1. InvCycle'
  <2>1. TableCycle(nom, ApresTout(r, t))
      BY CycleTable
  <2>2. ASSUME NEW x \in TablesCycle PROVE TableCycle(x, Lignes(x))'
    <3>1. CASE x = nom
        BY <2>1, <3>1
    <3>2. CASE x # nom
      <4>1. UNCHANGED Lignes(x) /\ TableCycle(x, Lignes(x))
          BY <3>2 DEF SeuleChange, InvCycle
      <4> QED  BY <4>1
    <3> QED  BY <3>1, <3>2
  <2> QED  BY <2>2, TerminerFinit, CycleFinit DEF Valider
<1>2. ASSUME ~recouvrement' PROVE CyclePas
  <2>0. PICK q \in requete[r] : Arrivee(q, r, nom, t)
      BY <1>2, CycleArrivee
  <2>1. /\ requete[r] = {q} /\ q.table = nom /\ q.id \in IdsDe(nom)
        /\ Coup(<<nom, q.id>>, EtatsDe(t[q.id]), q.ligne.statut, q.type)
        /\ EtatsDe(ApresTout(r, t)[q.id]) = {q.ligne.statut}
        /\ \A i \in IdsDe(nom) : i # q.id => ApresTout(r, t)[i] = t[i]
      BY <2>0 DEF Arrivee
  <2> DEFINE o == <<nom, q.id>>
  <2>2. o \in ObjetsNoyau /\ o[1] = nom /\ o[2] = q.id
      BY <2>1, ObjetsForme
  <2>3. EtatsNoyau[o] = EtatsDe(t[q.id]) /\ EtatsNoyau'[o] = {q.ligne.statut}
      BY <2>1, <2>2, EtatsForme
  <2>4. ASSUME NEW p \in ObjetsNoyau, p # o PROVE EtatsNoyau'[p] = EtatsNoyau[p]
    <3>1. p = <<p[1], p[2]>> /\ p[1] \in TablesCycle /\ p[2] \in IdsDe(p[1])
        BY ObjetsForme
    <3>2. Lignes(p[1])'[p[2]] = Lignes(p[1])[p[2]]
      <4>1. CASE p[1] = nom
        <5>1. p[2] # q.id
            BY <2>4, <3>1, <4>1
        <5> QED  BY <2>1, <3>1, <4>1, <5>1
      <4>2. CASE p[1] # nom
          BY <3>1, <4>2 DEF SeuleChange
      <4> QED  BY <4>1, <4>2
    <3> QED  BY <3>2, EtatsForme
  <2>5. EtatsNoyau' = [EtatsNoyau EXCEPT ![o] = {q.ligne.statut}]
      BY <2>2, <2>3, <2>4, EtatsForme
  <2>6. Annoncees' = IF q.type \in Annonces THEN {o} ELSE {}
    <3>1. emission' = {<<x.type, x.table, x.id>> : x \in {y \in {q} : y.type # Nul}}
        BY <2>1 DEF Valider, Terminer
    <3>2. emission' = IF q.type # Nul THEN {<<q.type, nom, q.id>>} ELSE {}
        BY <2>1, <3>1
    <3> DEFINE w == <<q.type, nom, q.id>>
    <3>3. w[1] = q.type /\ <<w[2], w[3]>> = o
        OBVIOUS
    <3>4. Annoncees' = {<<x[2], x[3]>> : x \in {y \in emission' : y[1] \in Annonces}}
        BY DEF Annoncees
    <3> HIDE DEF w, o
    <3>5. CASE q.type \in Annonces
      <4>1. {y \in emission' : y[1] \in Annonces} = {w}
          BY <3>2, <3>3, <3>5, AnnoncesAssumption DEF w
      <4> QED  BY <3>3, <3>4, <3>5, <4>1
    <3>6. CASE q.type \notin Annonces
      <4>1. {y \in emission' : y[1] \in Annonces} = {}
          BY <3>2, <3>3, <3>6 DEF w
      <4> QED  BY <3>4, <3>6, <4>1
    <3> QED  BY <3>5, <3>6
  <2> HIDE DEF o
  <2> QED  BY <2>1, <2>2, <2>3, <2>5, <2>6, PasCoup DEF o
<1> QED  BY <1>1, <1>2, PasPerturbe

-----------------------------------------------------------------------------
(* The operations of UniteDeTravail, seen from the cycle.                  *)
PasFidele == InvCycle' /\ CyclePas

LEMMA CycleTraiter ==
    ASSUME ReqOK(requete), InvCycle, Immobile, NEW r \in Requetes, NEW nom \in TablesCycle,
           NEW t, t = Lignes(nom), NEW i \in IdsDe(nom), NEW ligne, NEW type,
           Traiter(r, nom, t, i, ligne, type),
           "statut" \in DOMAIN ligne, ligne.statut \in StatutsDe(nom),
           Coup(<<nom, i>>, EtatsDe(t[i]), ligne.statut, type)
    PROVE  PasFidele
<1> DEFINE q == Ecriture(nom, i, ligne, t[i] = {}, type)
<1>1. Debute(requete, requete', r, {q})
      BY TraiterDebute
<1>2. /\ q.table = nom /\ q.id = i /\ q.ligne = ligne /\ (q.insertion = TRUE <=> t[i] = {})
      /\ (q.insertion = FALSE <=> t[i] # {}) /\ q.type = type /\ q.enregistre = FALSE
      BY DEF Ecriture
<1>3. emission' = {}
      BY DEF Traiter, TraiterTout
<1> HIDE DEF q
<1>4. CoupBon(q, nom, t)
      BY <1>2 DEF CoupBon
<1>5. EcritureCycle(q)
      BY <1>2, <1>4 DEF EcritureCycle
<1>6. InvCycle'
      BY <1>1, <1>5, CycleDebute
<1> QED  BY <1>3, <1>6, PasImmobile DEF PasFidele

LEMMA CycleCree ==
    ASSUME ReqOK(requete), InvCycle, Immobile, NEW r \in Requetes, NEW nom \in TablesCycle,
           NEW t, t = Lignes(nom), NEW i \in IdsDe(nom), NEW ligne, NEW type,
           Traiter(r, nom, t, i, ligne, type), t[i] = {}, type \notin Annonces,
           "statut" \in DOMAIN ligne,
           ligne.statut = IF nom = "abonnement" THEN "actif" ELSE "brouillon"
    PROVE  PasFidele
<1>1. ligne.statut \in StatutsDe(nom)
      BY StatutsCas DEF TablesCycle, Statuts, StatutsCorpus, StatutsCatalogue
<1>2. EtatsDe(t[i]) = {}
      BY DEF EtatsDe
<1>3. ligne.statut = InitialNoyau(<<nom, i>>)
      BY DEF InitialNoyau
<1>4. Coup(<<nom, i>>, EtatsDe(t[i]), ligne.statut, type)
      BY <1>2, <1>3 DEF Coup
<1> QED  BY <1>1, <1>4, CycleTraiter

LEMMA CycleLigne ==
    ASSUME InvCycle, NEW nom \in TablesCycle, NEW t, t = Lignes(nom),
           NEW i \in IdsDe(nom), NEW l \in t[i]
    PROVE  "statut" \in DOMAIN l /\ l.statut \in StatutsDe(nom) /\ EtatsDe(t[i]) = {l.statut}
<1>1. \A m \in t[i] : m.statut = l.statut
      BY DEF InvCycle, TableCycle
<1> QED  BY <1>1 DEF InvCycle, TableCycle, EtatsDe

LEMMA CycleMeme ==
    ASSUME ReqOK(requete), InvCycle, Immobile, NEW r \in Requetes, NEW nom \in TablesCycle,
           NEW t, t = Lignes(nom), NEW i \in IdsDe(nom), NEW ligne, NEW type,
           Traiter(r, nom, t, i, ligne, type), type \notin Annonces,
           NEW l \in t[i], "statut" \in DOMAIN ligne, ligne.statut = l.statut
    PROVE  PasFidele
<1>1. l.statut \in StatutsDe(nom) /\ EtatsDe(t[i]) = {l.statut}
      BY CycleLigne
<1>2. Coup(<<nom, i>>, EtatsDe(t[i]), ligne.statut, type)
      BY <1>1 DEF Coup
<1> QED  BY <1>1, <1>2, CycleTraiter

LEMMA CycleFleche ==
    ASSUME ReqOK(requete), InvCycle, Immobile, NEW r \in Requetes, NEW nom \in TablesCycle,
           NEW t, t = Lignes(nom), NEW i \in IdsDe(nom), NEW s, NEW type, NEW l \in t[i],
           Traiter(r, nom, t, i, [l EXCEPT !.statut = s], type),
           <<l.statut, s>> \in FlechesNoyau(<<nom, i>>), s \in StatutsDe(nom),
           type \in Annonces <=> NotoireNoyau(<<nom, i>>, s)
    PROVE  PasFidele
<1> DEFINE ligne == [l EXCEPT !.statut = s]
           f == <<l.statut, s>>
<1>1. "statut" \in DOMAIN l /\ EtatsDe(t[i]) = {l.statut}
      BY CycleLigne
<1>2. "statut" \in DOMAIN ligne /\ ligne.statut = s
      BY <1>1
<1>3. f[1] = l.statut /\ f[2] = s
      OBVIOUS
<1>4. Coup(<<nom, i>>, EtatsDe(t[i]), s, type)
  <2> HIDE DEF f
  <2> QED  BY <1>1, <1>3 DEF Coup, f
<1> HIDE DEF ligne
<1>5. Traiter(r, nom, t, i, ligne, type)
      BY DEF ligne
<1> QED  BY <1>2, <1>4, <1>5, CycleTraiter

LEMMA CycleAutres ==
    ASSUME ReqOK(requete), InvCycle, Immobile, NEW r \in Requetes, NEW E,
           Debute(requete, requete', r, E), emission' = {},
           \A q \in E : q.table \notin TablesCycle /\ q.type \notin Annonces
    PROVE  PasFidele
<1>1. \A q \in E : EcritureCycle(q)
      BY DEF EcritureCycle
<1>2. InvCycle'
      BY <1>1, CycleDebute
<1> QED  BY <1>2, PasImmobile DEF PasFidele

LEMMA CycleAutre ==
    ASSUME ReqOK(requete), InvCycle, Immobile, NEW r \in Requetes, NEW nom, nom \notin TablesCycle,
           NEW t, NEW i, NEW ligne, NEW type, Traiter(r, nom, t, i, ligne, type),
           type \notin Annonces
    PROVE  PasFidele
<1> DEFINE q == Ecriture(nom, i, ligne, t[i] = {}, type)
<1>1. Debute(requete, requete', r, {q})
      BY TraiterDebute
<1>2. q.table = nom /\ q.type = type
      BY DEF Ecriture
<1>3. emission' = {}
      BY DEF Traiter, TraiterTout
<1> HIDE DEF q
<1> QED  BY <1>1, <1>2, <1>3, CycleAutres

LEMMA CycleSave ==
    ASSUME ReqOK(requete), InvCycle, Immobile, NEW r \in Requetes, NEW nom, NEW t,
           nom \in TablesCycle => t = Lignes(nom), save(r, nom, t)
    PROVE  PasFidele
<1>1. PICK q \in requete[r] : q.table = nom /\ Sauve(requete, requete', r, q, Modifiees(q, t))
      BY saveSauve
<1>2. InvCycle'
      BY <1>1, CycleSauve
<1>3. emission' = {}
      BY DEF save
<1> QED  BY <1>2, <1>3, PasImmobile DEF PasFidele

LEMMA CycleValider ==
    ASSUME ReqOK(requete), InvCycle, Immobile, NEW r \in Requetes, NEW nom, NEW t,
           nom \notin TablesCycle, Valider(r, nom, t)
    PROVE  PasFidele
BY CycleCommitAilleurs DEF Valider, PasFidele

LEMMA CycleRefus ==
    ASSUME ReqOK(requete), InvCycle, Immobile, NEW r \in Requetes, rollback(r)
    PROVE  PasFidele
<1>1. InvCycle'
      BY rollbackAnnule, CycleAnnule
<1>2. emission' = {}
      BY DEF rollback
<1> QED  BY <1>1, <1>2, PasImmobile DEF PasFidele

LEMMA CycleInerte ==
    ASSUME InvCycle, Immobile, UNCHANGED requete, UNCHANGED emission \/ emission' = {}
    PROVE  PasFidele
<1>1. \A s \in Requetes : \A q \in requete'[s] : EcritureCycle(q)
      BY DEF InvCycle
<1>2. \A s \in Requetes : \A q \in requete'[s] : EcritureCycle(q)'
      BY <1>1, EcritureCycleImmobile
<1> QED  BY <1>2, TableCycleImmobile, PasImmobile DEF InvCycle, PasFidele

-----------------------------------------------------------------------------
(* The copy k of the row l keeps its state.                                *)
Conserve(l, k) == "statut" \in DOMAIN l => "statut" \in DOMAIN k /\ k.statut = l.statut

LEMMA ConserveCas ==
    /\ \A l : Conserve(l, l)
    /\ \A l, x : Conserve(l, [l EXCEPT !.actif = x])
    /\ \A l, x : Conserve(l, [l EXCEPT !.confiance = x])
    /\ \A l, n : Conserve(l, reattachToRoot(n, l))
    /\ \A l, n, m, p : Conserve(l, reattachToParent(n, l, m, p))
BY DEF Conserve, reattachToRoot, reattachToParent

(* What a request may do while no table of the cycle changes.              *)
Cadre == ReqOK(requete) /\ InvCycle /\ Immobile

LEMMA CycleModifie ==
    ASSUME Cadre, NEW r \in Requetes, NEW nom \in TablesCycle,
           NEW t, t = Lignes(nom), NEW i \in IdsDe(nom), NEW l \in t[i], NEW k, NEW type,
           Traiter(r, nom, t, i, k, type), type \notin Annonces, Conserve(l, k)
    PROVE  PasFidele
<1>1. "statut" \in DOMAIN k /\ k.statut = l.statut
      BY CycleLigne DEF Conserve, Cadre
<1> QED  BY <1>1, CycleMeme DEF Cadre

LEMMA CycleNoeud ==
    ASSUME Cadre, NEW r \in Requetes, NEW n \in Noeuds,
           \/ \E b \in BOOLEAN : \/ \E p \in Pays : CreateNoeudRacine(r, n, p, b)
                                 \/ \E m \in Noeuds : CreateNoeudEnfant(r, n, m, b)
           \/ UpdateNoeud(r, n) \/ \E s \in Statuts : TransitionNoeud(r, n, s)
           \/ DeactivateNoeud(r, n) \/ ReactivateNoeud(r, n)
           \/ ReattachNoeudRacine(r, n) \/ \E m \in Noeuds : ReattachNoeud(r, n, m)
    PROVE  PasFidele
<1>0. "noeud" \in TablesCycle /\ noeuds = Lignes("noeud") /\ n \in IdsDe("noeud")
      BY LignesCas, IdsCas DEF TablesCycle
<1>1. /\ "ADMINISTRATIVE_HIERARCHY_NODE_CREATED" \notin Annonces /\ Nul \notin Annonces
      /\ "BRANCH_REATTACHED" \notin Annonces /\ "ADMINISTRATIVE_NODE_DEACTIVATED" \notin Annonces
      /\ "ADMINISTRATIVE_NODE_PUBLISHED" \in Annonces
  <2>1. Nul \notin Annonces
      BY AnnoncesAssumption
  <2> QED  BY <2>1 DEF Annonces
<1>2. ASSUME NEW l \in noeuds[n], NEW k, NEW type, type \notin Annonces,
             Traiter(r, "noeud", noeuds, n, k, type), Conserve(l, k)
      PROVE  PasFidele
      BY <1>0, <1>2, CycleModifie
<1>3. ASSUME NEW k, noeuds[n] = {}, "statut" \in DOMAIN k, k.statut = "brouillon",
             Traiter(r, "noeud", noeuds, n, k, "ADMINISTRATIVE_HIERARCHY_NODE_CREATED")
      PROVE  PasFidele
      BY <1>0, <1>1, <1>3, CycleCree DEF Cadre
<1>4. ASSUME NEW b, NEW p, CreateNoeudRacine(r, n, p, b) PROVE PasFidele
      BY <1>3, <1>4 DEF CreateNoeudRacine, Neuf, createRoot
<1>5. ASSUME NEW b, NEW m, CreateNoeudEnfant(r, n, m, b) PROVE PasFidele
      BY <1>3, <1>5 DEF CreateNoeudEnfant, Neuf, createChild
<1>6. ASSUME UpdateNoeud(r, n) PROVE PasFidele
      BY <1>1, <1>2, <1>6, ConserveCas DEF UpdateNoeud
<1>7. ASSUME DeactivateNoeud(r, n) PROVE PasFidele
      BY <1>1, <1>2, <1>7, ConserveCas DEF DeactivateNoeud
<1>8. ASSUME ReactivateNoeud(r, n) PROVE PasFidele
      BY <1>1, <1>2, <1>8, ConserveCas DEF ReactivateNoeud
<1>9. ASSUME ReattachNoeudRacine(r, n) PROVE PasFidele
      BY <1>1, <1>2, <1>9, ConserveCas DEF ReattachNoeudRacine
<1>10. ASSUME NEW m, ReattachNoeud(r, n, m) PROVE PasFidele
      BY <1>1, <1>2, <1>10, ConserveCas DEF ReattachNoeud
<1>11. ASSUME NEW s \in Statuts, TransitionNoeud(r, n, s) PROVE PasFidele
  <2> DEFINE type == IF s = "publie" THEN "ADMINISTRATIVE_NODE_PUBLISHED" ELSE Nul
  <2>1. PICK l \in noeuds[n] : /\ assertEngineTransitionAllowed(l.statut, s)
                               /\ Traiter(r, "noeud", noeuds, n, [l EXCEPT !.statut = s], type)
      BY <1>11 DEF TransitionNoeud
  <2>2. type \in Annonces <=> s = "publie"
      BY <1>1
  <2> HIDE DEF type
  <2>3. l.statut \in Statuts
      BY <1>0, CycleLigne, StatutsCas DEF Cadre
  <2>4. <<l.statut, s>> \in FlechesNoyau(<<"noeud", n>>)
      BY <2>1, <2>3 DEF FlechesNoyau, EditorialNoyau, assertEngineTransitionAllowed,
             AllowedTransitions, Statuts
  <2>5. NotoireNoyau(<<"noeud", n>>, s) <=> s = "publie"
      BY DEF NotoireNoyau, Statuts
  <2> QED  BY <1>0, <2>1, <2>2, <2>4, <2>5, StatutsCas, CycleFleche DEF Cadre
<1> QED  BY <1>4, <1>5, <1>6, <1>7, <1>8, <1>9, <1>10, <1>11

LEMMA CycleRegle ==
    ASSUME Cadre, NEW r \in Requetes, Reglementation(r)
    PROVE  PasFidele
<1>0. PICK x \in Regles :
          \/ \E n \in {n1, n2} : CreateReferentielRegle(r, x, n, "A_VERIFIER")
          \/ \E c \in {"VERIFIE", "A_VERIFIER"} : UpdateReferentielRegle(r, x, c)
          \/ \E s \in Statuts : TransitionRegle(r, x, s)
          \/ \E a \in BOOLEAN : SetRegleActivation(r, x, a)
      BY DEF Reglementation
<1>1. "regle" \in TablesCycle /\ regles = Lignes("regle") /\ x \in IdsDe("regle")
      BY LignesCas, IdsCas DEF TablesCycle
<1>2. /\ "REFERENTIEL_REGLE_CREATED" \notin Annonces /\ Nul \notin Annonces
      /\ "REFERENTIEL_REGLE_PUBLISHED" \in Annonces
  <2>1. Nul \notin Annonces
      BY AnnoncesAssumption
  <2> QED  BY <2>1 DEF Annonces
<1>3. ASSUME NEW l \in regles[x], NEW k, NEW type, type \notin Annonces,
             Traiter(r, "regle", regles, x, k, type), Conserve(l, k)
      PROVE  PasFidele
      BY <1>1, <1>3, CycleModifie
<1>4. ASSUME NEW n, NEW c, CreateReferentielRegle(r, x, n, c) PROVE PasFidele
  <2> DEFINE k == [noeud |-> n, confiance |-> c, actif |-> TRUE, statut |-> "brouillon"]
  <2>1. regles[x] = {} /\ Traiter(r, "regle", regles, x, k, "REFERENTIEL_REGLE_CREATED")
      BY <1>4 DEF CreateReferentielRegle, Neuf
  <2>2. "statut" \in DOMAIN k /\ k.statut = "brouillon"
      OBVIOUS
  <2> HIDE DEF k
  <2> QED  BY <1>1, <1>2, <2>1, <2>2, CycleCree DEF Cadre
<1>5. ASSUME NEW c, UpdateReferentielRegle(r, x, c) PROVE PasFidele
      BY <1>2, <1>3, <1>5, ConserveCas DEF UpdateReferentielRegle
<1>6. ASSUME NEW a \in BOOLEAN, SetRegleActivation(r, x, a) PROVE PasFidele
      BY <1>2, <1>3, <1>6, ConserveCas DEF SetRegleActivation
<1>7. ASSUME NEW s \in Statuts, TransitionRegle(r, x, s) PROVE PasFidele
  <2> DEFINE type == IF s = "publie" THEN "REFERENTIEL_REGLE_PUBLISHED" ELSE Nul
  <2>1. PICK l \in regles[x] : /\ assertEngineTransitionAllowed(l.statut, s)
                               /\ Traiter(r, "regle", regles, x, [l EXCEPT !.statut = s], type)
      BY <1>7 DEF TransitionRegle
  <2>2. type \in Annonces <=> s = "publie"
      BY <1>2
  <2> HIDE DEF type
  <2>3. l.statut \in Statuts
      BY <1>1, CycleLigne, StatutsCas DEF Cadre
  <2>4. <<l.statut, s>> \in FlechesNoyau(<<"regle", x>>)
      BY <2>1, <2>3 DEF FlechesNoyau, EditorialNoyau, assertEngineTransitionAllowed,
             AllowedTransitions, Statuts
  <2>5. NotoireNoyau(<<"regle", x>>, s) <=> s = "publie"
      BY DEF NotoireNoyau, Statuts
  <2> QED  BY <1>1, <2>1, <2>2, <2>4, <2>5, StatutsCas, CycleFleche DEF Cadre
<1> QED  BY <1>0, <1>4, <1>5, <1>6, <1>7

(* The levels and the villes.                                              *)
LEMMA CycleNiveauVille ==
    ASSUME Cadre, NEW r \in Requetes,
           \/ \E p \in Pays, k \in 1..MaxChemin : CreateNiveau(r, p, k)
           \/ \E v \in Villes, n \in Noeuds \union {Nul} : CreateVille(r, v, n) \/ MoveVille(r, v, n)
           \/ \E v \in Villes, a \in BOOLEAN : SetVilleActivation(r, v, a)
    PROVE  PasFidele
<1>1. "niveau" \notin TablesCycle /\ "ville" \notin TablesCycle
      BY DEF TablesCycle
<1>2. /\ "NIVEAU_ADMINISTRATIF_CREATED" \notin Annonces /\ "VILLE_CREATED" \notin Annonces
      /\ "VILLE_MOVED" \notin Annonces
      BY DEF Annonces
<1>3. Nul \notin Annonces
      BY AnnoncesAssumption
<1> QED  BY <1>1, <1>2, <1>3, CycleAutre DEF Cadre, CreateNiveau, CreateVille, MoveVille, SetVilleActivation

tablesCycle ==
    <<noeuds, regles, corpus, fiches, abonnements, catalogues, articles, offres, grilles>>

LEMMA CycleImmobile ==
    /\ UNCHANGED tablesCycle => Immobile
    /\ UNCHANGED <<regles, corpus, fiches, abonnements, catalogues, articles, offres, grilles>>
       => SeuleChange("noeud")
    /\ UNCHANGED <<noeuds, corpus, fiches, abonnements, catalogues, articles, offres, grilles>>
       => SeuleChange("regle")
    /\ UNCHANGED <<noeuds, regles, fiches, abonnements, catalogues, articles, offres, grilles>>
       => SeuleChange("corpus")
    /\ UNCHANGED <<noeuds, regles, corpus, abonnements, catalogues, articles, offres, grilles>>
       => SeuleChange("fiche")
    /\ UNCHANGED <<noeuds, regles, corpus, fiches, catalogues, articles, offres, grilles>>
       => SeuleChange("abonnement")
    /\ UNCHANGED <<noeuds, regles, corpus, fiches, abonnements, articles, offres, grilles>>
       => SeuleChange("catalogue")
    /\ UNCHANGED <<noeuds, regles, corpus, fiches, abonnements, catalogues, offres, grilles>>
       => SeuleChange("article")
    /\ UNCHANGED <<noeuds, regles, corpus, fiches, abonnements, catalogues, articles, grilles>>
       => SeuleChange("offre")
    /\ UNCHANGED <<noeuds, regles, corpus, fiches, abonnements, catalogues, articles, offres>>
       => SeuleChange("grille")
BY LignesCas DEF Immobile, SeuleChange, TablesCycle, tablesCycle

LEMMA CycleEngine ==
    ASSUME ReqOK(requete), InvCycle, EngineNext
    PROVE  PasFidele
<1>0. UNCHANGED <<corpus, fiches, abonnements, catalogues, articles, offres, grilles>>
      BY DEF EngineNext, corpusVars, referentielVars, orgVars, catalogueVars
<1>1. ASSUME UNCHANGED tablesEngine PROVE Immobile
      BY <1>0, <1>1, CycleImmobile DEF tablesEngine, tablesCycle
<1>2. ASSUME NEW r \in Requetes, Arbre(r) \/ Publication(r) \/ Revision(r) \/ Rattachement(r)
                                 \/ Reglementation(r), UNCHANGED tablesEngine
      PROVE  PasFidele
  <2>0. Cadre
      BY <1>1, <1>2 DEF Cadre
  <2>1. {n1, n2, n3, n4} \subseteq Noeuds /\ p1 \in Pays
      BY NoyauAssumption
  <2>2. CASE Arbre(r)
      BY <2>0, <2>1, <2>2, CycleNoeud DEF Arbre
  <2>3. CASE Publication(r)
      BY <2>0, <2>1, <2>3, CycleNoeud, CycleNiveauVille DEF Publication
  <2>4. CASE Revision(r)
      BY <2>0, <2>1, <2>4, CycleNoeud, CycleNiveauVille DEF Revision
  <2>5. CASE Rattachement(r)
      BY <2>0, <2>1, <2>5, CycleNiveauVille DEF Rattachement
  <2> QED  BY <1>2, <2>0, <2>2, <2>3, <2>4, <2>5, CycleRegle
<1>3. ASSUME NEW r \in Requetes, saveEngine(r) PROVE PasFidele
  <2>1. Immobile
      BY <1>1, <1>3 DEF saveEngine, engineVars
  <2>2. "niveau" \notin TablesCycle /\ "ville" \notin TablesCycle
      BY DEF TablesCycle
  <2> QED  BY <1>3, <2>1, <2>2, LignesCas, CycleSave DEF saveEngine
<1>4. ASSUME NEW r \in Requetes, commitNiveau(r) \/ commitVille(r) PROVE PasFidele
  <2>1. "niveau" \notin TablesCycle /\ "ville" \notin TablesCycle
      BY DEF TablesCycle
  <2>2. Immobile
      BY <1>0, <1>4, CycleImmobile DEF commitNiveau, commitVille, tablesCycle
  <2> QED  BY <1>4, <2>1, <2>2, CycleValider DEF commitNiveau, commitVille
<1>5. ASSUME NEW r \in Requetes, commitNoeud(r) PROVE PasFidele
  <2>1. SeuleChange("noeud") /\ "noeud" \in TablesCycle
      BY <1>0, <1>5, CycleImmobile DEF commitNoeud, TablesCycle
  <2> QED  BY <1>5, <2>1, LignesCas, CycleCommit DEF commitNoeud, PasFidele
<1>6. ASSUME NEW r \in Requetes, commitRegle(r) PROVE PasFidele
  <2>1. SeuleChange("regle") /\ "regle" \in TablesCycle
      BY <1>0, <1>6, CycleImmobile DEF commitRegle, TablesCycle
  <2> QED  BY <1>6, <2>1, LignesCas, CycleCommit DEF commitRegle, PasFidele
<1>7. ASSUME NEW n, Compter(n) PROVE PasFidele
      BY <1>1, <1>7, CycleInerte DEF Compter
<1> QED  BY <1>2, <1>3, <1>4, <1>5, <1>6, <1>7 DEF EngineNext

LEMMA CycleEdition ==
    ASSUME Cadre, NEW r \in Requetes, Edition(r)
    PROVE  PasFidele
<1>0. PICK c \in Corpus :
          \/ \E f \in {"VERIFIE", "A_VERIFIER"} :
                CreateCorpusVersionne(r, c, f) \/ UpdateCorpusVersionne(r, c, f)
          \/ PublishCorpus(r, c) \/ ArchiveCorpus(r, c)
      BY DEF Edition
<1>1. "corpus" \in TablesCycle /\ corpus = Lignes("corpus") /\ c \in IdsDe("corpus")
      BY LignesCas, IdsCas DEF TablesCycle
<1>2. /\ "CORPUS_VERSIONNE_CREATED" \notin Annonces /\ Nul \notin Annonces
      /\ "CORPUS_VERSIONNE_PUBLISHED" \in Annonces /\ "CORPUS_VERSIONNE_ARCHIVED" \in Annonces
  <2>1. Nul \notin Annonces
      BY AnnoncesAssumption
  <2> QED  BY <2>1 DEF Annonces
<1>3. ASSUME NEW f, CreateCorpusVersionne(r, c, f) PROVE PasFidele
  <2> DEFINE k == [confiance |-> f, statut |-> "brouillon"]
  <2>1. corpus[c] = {} /\ Traiter(r, "corpus", corpus, c, k, "CORPUS_VERSIONNE_CREATED")
      BY <1>3 DEF CreateCorpusVersionne, Neuf
  <2>2. "statut" \in DOMAIN k /\ k.statut = "brouillon"
      OBVIOUS
  <2> HIDE DEF k
  <2> QED  BY <1>1, <1>2, <2>1, <2>2, CycleCree DEF Cadre
<1>4. ASSUME NEW f, UpdateCorpusVersionne(r, c, f) PROVE PasFidele
  <2>1. ASSUME NEW l \in corpus[c], NEW k, Traiter(r, "corpus", corpus, c, k, Nul), Conserve(l, k)
        PROVE  PasFidele
      BY <1>1, <1>2, <2>1, CycleModifie
  <2> QED  BY <1>4, <2>1, ConserveCas DEF UpdateCorpusVersionne
<1>5. ASSUME NEW l \in corpus[c], NEW s \in {"publie", "archive"}, NEW type \in Annonces,
             assertCorpusTransitionAllowed(l.statut, s),
             Traiter(r, "corpus", corpus, c, [l EXCEPT !.statut = s], type)
      PROVE  PasFidele
  <2>1. l.statut \in StatutsCorpus
      BY <1>1, CycleLigne, StatutsCas DEF Cadre
  <2>2. <<l.statut, s>> \in FlechesNoyau(<<"corpus", c>>)
      BY <1>5, <2>1 DEF FlechesNoyau, assertCorpusTransitionAllowed, CorpusTransitions, StatutsCorpus
  <2>3. NotoireNoyau(<<"corpus", c>>, s) /\ s \in StatutsCorpus
      BY DEF NotoireNoyau, StatutsCorpus
  <2> QED  BY <1>1, <1>5, <2>2, <2>3, StatutsCas, CycleFleche DEF Cadre
<1>6. ASSUME PublishCorpus(r, c) PROVE PasFidele
      BY <1>2, <1>5, <1>6 DEF PublishCorpus
<1>7. ASSUME ArchiveCorpus(r, c) PROVE PasFidele
      BY <1>2, <1>5, <1>7 DEF ArchiveCorpus
<1> QED  BY <1>0, <1>3, <1>4, <1>6, <1>7

LEMMA CycleCorpus ==
    ASSUME ReqOK(requete), InvCycle, CorpusNext
    PROVE  PasFidele
<1>0. UNCHANGED <<noeuds, regles, fiches, abonnements, catalogues, articles, offres, grilles>>
      BY DEF CorpusNext, engineVars, tablesEngine, referentielVars, orgVars, catalogueVars
<1>1. ASSUME UNCHANGED corpus PROVE Immobile
      BY <1>0, <1>1, CycleImmobile DEF tablesCycle
<1>2. ASSUME NEW r \in Requetes, Edition(r), UNCHANGED corpus PROVE PasFidele
      BY <1>1, <1>2, CycleEdition DEF Cadre
<1>3. "element" \notin TablesCycle /\ "corpus" \in TablesCycle
      BY DEF TablesCycle
<1>4. ASSUME NEW r \in Requetes, Arborescence(r), UNCHANGED corpus PROVE PasFidele
  <2>1. Nul \notin Annonces
      BY AnnoncesAssumption
  <2>2. "CORPUS_ELEMENT_CREATED" \notin Annonces
      BY DEF Annonces
  <2>3. Immobile
      BY <1>1, <1>4
  <2> QED  BY <1>3, <1>4, <2>1, <2>2, <2>3, CycleAutre
           DEF Arborescence, AttachCorpusElement, ReattachCorpusElement, UpdateCorpusElement
<1>5. ASSUME NEW r \in Requetes, saveCorpus(r) PROVE PasFidele
  <2>1. Immobile
      BY <1>1, <1>5 DEF saveCorpus, corpusVars
  <2> QED  BY <1>3, <1>5, <2>1, LignesCas, CycleSave DEF saveCorpus
<1>6. ASSUME NEW r \in Requetes, commitElement(r) PROVE PasFidele
      BY <1>1, <1>3, <1>6, CycleValider DEF commitElement
<1>7. ASSUME NEW r \in Requetes, commitCorpus(r) PROVE PasFidele
  <2>1. SeuleChange("corpus")
      BY <1>0, CycleImmobile
  <2> QED  BY <1>3, <1>7, <2>1, LignesCas, CycleCommit DEF commitCorpus, PasFidele
<1> QED  BY <1>2, <1>4, <1>5, <1>6, <1>7 DEF CorpusNext, corpusVars

LEMMA CycleRegistre ==
    ASSUME ReqOK(requete), InvCycle, RegistreNext
    PROVE  PasFidele
<1>0. UNCHANGED tablesCycle
      BY DEF RegistreNext, engineVars, tablesEngine, corpusVars, referentielVars, orgVars,
             catalogueVars, tablesCycle
<1>1. Immobile
      BY <1>0, CycleImmobile
<1>2. "produit" \notin TablesCycle /\ "deploiement" \notin TablesCycle
      BY DEF TablesCycle
<1>3. /\ "PRODUIT_PORTEFEUILLE_CREATED" \notin Annonces
      /\ "PRODUIT_PORTEFEUILLE_DEACTIVATED" \notin Annonces
      /\ "PRODUIT_PAYS_DEPLOIEMENT_CHANGED" \notin Annonces
      BY DEF Annonces
<1>4. Nul \notin Annonces
      BY AnnoncesAssumption
<1>5. ASSUME NEW r \in Requetes, NEW nom \in {"produit", "deploiement"}, NEW t, NEW i, NEW k,
             NEW type, Traiter(r, nom, t, i, k, type), type \notin Annonces
      PROVE  PasFidele
      BY <1>1, <1>2, <1>5, CycleAutre
<1>6. ASSUME NEW r \in Requetes, NEW p, NEW a \in BOOLEAN, SetProduitActivation(r, p, a)
      PROVE  PasFidele
      BY <1>3, <1>4, <1>5, <1>6 DEF SetProduitActivation
<1>7. ASSUME NEW r \in Requetes, Registre(r) PROVE PasFidele
  <2>1. ASSUME NEW p, CreateProduitPortefeuille(r, p) \/ UpdateProduitPortefeuille(r, p)
        PROVE  PasFidele
      BY <1>3, <1>4, <1>5, <2>1 DEF CreateProduitPortefeuille, UpdateProduitPortefeuille
  <2>2. ASSUME NEW p, NEW t, SetDeploiementStatut(r, p, p1, t) PROVE PasFidele
      BY <1>3, <1>5, <2>2 DEF SetDeploiementStatut
  <2> QED  BY <1>6, <1>7, <2>1, <2>2 DEF Registre
<1>8. ASSUME NEW r \in Requetes, saveRegistre(r) PROVE PasFidele
      BY <1>1, <1>2, <1>8, CycleSave DEF saveRegistre
<1>9. ASSUME NEW r \in Requetes, commitProduit(r) \/ commitDeploiement(r) PROVE PasFidele
      BY <1>1, <1>2, <1>9, CycleValider DEF commitProduit, commitDeploiement
<1> QED  BY <1>6, <1>7, <1>8, <1>9 DEF RegistreNext

LEMMA CycleSouscription ==
    ASSUME Cadre, NEW r \in Requetes, Souscription(r)
    PROVE  PasFidele
<1>0. PICK x \in Abonnements :
          SubscribeToProduit(r, x, o1, a1)
          \/ \E s \in {"actif", "suspendu", "resilie"} : TransitionAbonnement(r, x, s)
      BY DEF Souscription
<1>1. /\ "abonnement" \in TablesCycle /\ abonnements = Lignes("abonnement")
      /\ x \in IdsDe("abonnement")
      BY LignesCas, IdsCas DEF TablesCycle
<1>2. ASSUME SubscribeToProduit(r, x, o1, a1) PROVE PasFidele
  <2> DEFINE k == [organisation |-> o1, produit |-> a1, statut |-> "actif"]
  <2>1. abonnements[x] = {} /\ Traiter(r, "abonnement", abonnements, x, k, "ABONNEMENT_CREATED")
      BY <1>2 DEF SubscribeToProduit, Neuf
  <2>2. "statut" \in DOMAIN k /\ k.statut = "actif"
      OBVIOUS
  <2>3. "ABONNEMENT_CREATED" \notin Annonces
      BY DEF Annonces
  <2> HIDE DEF k
  <2> QED  BY <1>1, <2>1, <2>2, <2>3, CycleCree DEF Cadre
<1>3. ASSUME NEW s \in {"actif", "suspendu", "resilie"}, TransitionAbonnement(r, x, s)
      PROVE  PasFidele
  <2> DEFINE type == AbonnementEvenement[s]
  <2>1. PICK l \in abonnements[x] :
            /\ l.statut \in AbonnementTransitions[s]
            /\ Traiter(r, "abonnement", abonnements, x, [l EXCEPT !.statut = s], type)
      BY <1>3 DEF TransitionAbonnement
  <2>2. type \in Annonces
      BY DEF AbonnementEvenement, Annonces
  <2> HIDE DEF type
  <2>3. <<l.statut, s>> \in FlechesNoyau(<<"abonnement", x>>)
      BY <2>1 DEF FlechesNoyau, AbonnementTransitions
  <2>4. NotoireNoyau(<<"abonnement", x>>, s)
      BY DEF NotoireNoyau
  <2> QED  BY <1>1, <2>1, <2>2, <2>3, <2>4, StatutsCas, CycleFleche DEF Cadre
<1> QED  BY <1>0, <1>2, <1>3

LEMMA CycleOrg ==
    ASSUME ReqOK(requete), InvCycle, OrgNext
    PROVE  PasFidele
<1>0. UNCHANGED <<noeuds, regles, corpus, fiches, catalogues, articles, offres, grilles>>
      BY DEF OrgNext, engineVars, tablesEngine, corpusVars, referentielVars, catalogueVars
<1>1. ASSUME UNCHANGED abonnements PROVE Immobile
      BY <1>0, <1>1, CycleImmobile DEF tablesCycle
<1>2. /\ "organisation" \notin TablesCycle /\ "unite" \notin TablesCycle
      /\ "abonnement" \in TablesCycle
      BY DEF TablesCycle
<1>3. /\ "ORGANISATION_CREATED" \notin Annonces /\ "ORGANISATION_DEACTIVATED" \notin Annonces
      /\ "ORGANISATION_REFERENTIEL_UPDATED" \notin Annonces
      /\ "ORGANISATION_REATTACHED" \notin Annonces
      /\ "UNITE_OPERATIONNELLE_CREATED" \notin Annonces
      BY DEF Annonces
<1>4. Nul \notin Annonces
      BY AnnoncesAssumption
<1>5. ASSUME UNCHANGED abonnements, NEW r \in Requetes, NEW nom \in {"organisation", "unite"},
             NEW t, NEW i, NEW k, NEW type, Traiter(r, nom, t, i, k, type), type \notin Annonces
      PROVE  PasFidele
      BY <1>1, <1>2, <1>5, CycleAutre
<1>6. ASSUME UNCHANGED abonnements, NEW r \in Requetes, NEW o, NEW a \in BOOLEAN,
             SetOrganisationActivation(r, o, a)
      PROVE  PasFidele
      BY <1>3, <1>4, <1>5, <1>6 DEF SetOrganisationActivation
<1>7. ASSUME UNCHANGED abonnements, NEW r \in Requetes, Filiation(r) PROVE PasFidele
      BY <1>3, <1>4, <1>5, <1>7
         DEF Filiation, CreateOrganisation, ReattachOrganisation, UpdateOrganisation,
             UpdateOrganisationReferentiel
<1>8. ASSUME UNCHANGED abonnements, NEW r \in Requetes, Equipement(r) PROVE PasFidele
  <2>1. ASSUME NEW u, \/ CreateUniteOperationnelle(r, u, o1)
                      \/ UpdateUniteOperationnelleReferentiel(r, u)
                      \/ \E a \in BOOLEAN : SetUniteOperationnelleActivation(r, u, a)
        PROVE  PasFidele
      BY <1>3, <1>4, <1>5, <1>8, <2>1
         DEF CreateUniteOperationnelle, UpdateUniteOperationnelleReferentiel,
             SetUniteOperationnelleActivation
  <2> QED  BY <1>6, <1>8, <2>1 DEF Equipement
<1>9. ASSUME UNCHANGED abonnements, NEW r \in Requetes, Souscription(r) PROVE PasFidele
      BY <1>1, <1>9, CycleSouscription DEF Cadre
<1>10. ASSUME NEW r \in Requetes, saveOrg(r) PROVE PasFidele
  <2>1. Immobile
      BY <1>1, <1>10 DEF saveOrg, orgVars
  <2> QED  BY <1>2, <1>10, <2>1, LignesCas, CycleSave DEF saveOrg
<1>11. ASSUME NEW r \in Requetes, commitOrganisation(r) \/ commitUnite(r) PROVE PasFidele
      BY <1>1, <1>2, <1>11, CycleValider DEF commitOrganisation, commitUnite
<1>12. ASSUME NEW r \in Requetes, commitAbonnement(r) PROVE PasFidele
  <2>1. SeuleChange("abonnement")
      BY <1>0, CycleImmobile
  <2> QED  BY <1>2, <1>12, <2>1, LignesCas, CycleCommit DEF commitAbonnement, PasFidele
<1> QED  BY <1>6, <1>7, <1>8, <1>9, <1>10, <1>11, <1>12 DEF OrgNext, orgVars

LEMMA CycleLot ==
    ASSUME Cadre, NEW r \in Requetes, NEW E, TraiterTout(r, E), CleUnique(E),
           \A q \in E : Neuve(q) /\ q.table \notin TablesCycle /\ q.type \notin Annonces
    PROVE  PasFidele
<1>1. emission' = {}
      BY DEF TraiterTout
<1> QED  BY <1>1, TraiterToutDebute, CycleAutres DEF Cadre

(* The rows of referential that have a workflow, under their kind and code.*)
LEMMA CycleFiche ==
    ASSUME Cadre, NEW r \in Requetes, NEW k \in CodesFiches,
           \/ \E type : Creer(r, k, type) /\ type \notin Annonces
           \/ \E s \in Statuts : \E type : Transition(r, k, s, type) /\ type \in Annonces
           \/ \E l \in fiches[k] : \E type : Traiter(r, "fiche", fiches, k, l, type) /\ type \notin Annonces
           \/ \E l \in fiches[k] : \E type, a :
                 Traiter(r, "fiche", fiches, k, [l EXCEPT !.actif = a], type) /\ type \notin Annonces
    PROVE  PasFidele
<1>1. "fiche" \in TablesCycle /\ fiches = Lignes("fiche") /\ k \in IdsDe("fiche")
      BY LignesCas, IdsCas DEF TablesCycle
<1>2. ASSUME NEW type, Creer(r, k, type), type \notin Annonces PROVE PasFidele
  <2> DEFINE m == [actif |-> TRUE, statut |-> "brouillon"]
  <2>1. fiches[k] = {} /\ Traiter(r, "fiche", fiches, k, m, type)
      BY <1>2 DEF Creer, existe
  <2>2. "statut" \in DOMAIN m /\ m.statut = "brouillon"
      OBVIOUS
  <2> HIDE DEF m
  <2> QED  BY <1>1, <1>2, <2>1, <2>2, CycleCree DEF Cadre
<1>3. ASSUME NEW l \in fiches[k], NEW m, NEW type, type \notin Annonces,
             Traiter(r, "fiche", fiches, k, m, type), Conserve(l, m)
      PROVE  PasFidele
      BY <1>1, <1>3, CycleModifie
<1>4. ASSUME NEW s \in Statuts, NEW annonce \in Annonces, Transition(r, k, s, annonce)
      PROVE  PasFidele
  <2> DEFINE type == IF s = "publie" THEN annonce ELSE Nul
  <2>1. PICK l \in fiches[k] : /\ assertTransitionAllowed(l.statut, s)
                               /\ Traiter(r, "fiche", fiches, k, [l EXCEPT !.statut = s], type)
      BY <1>4 DEF Transition
  <2>2. type \in Annonces <=> s = "publie"
      BY AnnoncesAssumption
  <2> HIDE DEF type
  <2>3. l.statut \in Statuts
      BY <1>1, CycleLigne, StatutsCas DEF Cadre
  <2>4. <<l.statut, s>> \in FlechesNoyau(<<"fiche", k>>)
      BY <2>1, <2>3 DEF FlechesNoyau, EditorialNoyau, assertTransitionAllowed,
             TransitionsReferentiel, Statuts
  <2>5. NotoireNoyau(<<"fiche", k>>, s) <=> s = "publie"
      BY DEF NotoireNoyau, Statuts
  <2> QED  BY <1>1, <2>1, <2>2, <2>4, <2>5, StatutsCas, CycleFleche DEF Cadre
<1>5. ASSUME NEW l \in fiches[k], NEW type, NEW a, type \notin Annonces,
             Traiter(r, "fiche", fiches, k, [l EXCEPT !.actif = a], type)
      PROVE  PasFidele
      BY <1>3, <1>5, ConserveCas
<1>6. ASSUME NEW l \in fiches[k], NEW type, type \notin Annonces,
             Traiter(r, "fiche", fiches, k, l, type)
      PROVE  PasFidele
      BY <1>3, <1>6, ConserveCas
<1> QED  BY <1>2, <1>4, <1>5, <1>6

LEMMA CycleFiches ==
    ASSUME Cadre, NEW r \in Requetes, Fiches(r)
    PROVE  PasFidele
<1>1. /\ "PAYS_CREATED" \notin Annonces /\ "DEVISE_CREATED" \notin Annonces
      /\ "LANGUE_CREATED" \notin Annonces /\ "BLOC_REGIONAL_CREATED" \notin Annonces
      /\ "PAYS_DEACTIVATED" \notin Annonces
      /\ "PAYS_PUBLISHED" \in Annonces /\ "DEVISE_PUBLISHED" \in Annonces
      /\ "LANGUE_PUBLISHED" \in Annonces /\ "BLOC_REGIONAL_PUBLISHED" \in Annonces
      BY DEF Annonces
<1>2. Nul \notin Annonces
      BY AnnoncesAssumption
<1>3. StatutsFiche = Statuts
      BY DEF StatutsFiche, Statuts
<1>4. /\ \A p \in Pays : <<"pays", p>> \in CodesFiches
      /\ \A d \in Devises : <<"devise", d>> \in CodesFiches
      /\ \A l \in Langues : <<"langue", l>> \in CodesFiches
      /\ \A b \in Blocs : <<"bloc", b>> \in CodesFiches
      BY DEF CodesFiches
<1>5. ASSUME NEW p \in Pays, \/ CreatePays(r, p) \/ UpdatePays(r, p)
                             \/ \E s \in StatutsFiche : TransitionPays(r, p, s)
                             \/ \E a \in BOOLEAN : SetPaysActivation(r, p, a)
      PROVE  PasFidele
  <2> DEFINE k == <<"pays", p>>
  <2>0. k \in CodesFiches
      BY <1>4
  <2>1. ASSUME CreatePays(r, p) PROVE PasFidele
    <3>1. Creer(r, k, "PAYS_CREATED")
        BY <2>1 DEF CreatePays
    <3> HIDE DEF k
    <3> QED  BY <1>1, <2>0, <3>1, CycleFiche
  <2>2. ASSUME UpdatePays(r, p) PROVE PasFidele
    <3>1. \E l \in fiches[k] : Traiter(r, "fiche", fiches, k, l, Nul)
        BY <2>2 DEF UpdatePays
    <3> HIDE DEF k
    <3> QED  BY <1>2, <2>0, <3>1, CycleFiche
  <2>3. ASSUME NEW s \in StatutsFiche, TransitionPays(r, p, s) PROVE PasFidele
    <3>1. Transition(r, k, s, "PAYS_PUBLISHED")
        BY <2>3 DEF TransitionPays
    <3> HIDE DEF k
    <3> QED  BY <1>1, <1>3, <2>0, <3>1, CycleFiche
  <2>4. ASSUME NEW a \in BOOLEAN, SetPaysActivation(r, p, a) PROVE PasFidele
    <3> DEFINE type == IF a THEN Nul ELSE "PAYS_DEACTIVATED"
    <3>1. \E l \in fiches[k] : Traiter(r, "fiche", fiches, k, [l EXCEPT !.actif = a], type)
        BY <2>4 DEF SetPaysActivation
    <3>2. type \notin Annonces
        BY <1>1, <1>2
    <3> HIDE DEF k, type
    <3> QED  BY <2>0, <3>1, <3>2, CycleFiche
  <2> QED  BY <1>5, <2>1, <2>2, <2>3, <2>4
<1>6. ASSUME NEW k \in CodesFiches,
             \/ \E type : Creer(r, k, type) /\ type \notin Annonces
             \/ \E s \in StatutsFiche : \E type : Transition(r, k, s, type) /\ type \in Annonces
      PROVE  PasFidele
      BY <1>3, <1>6, CycleFiche
<1>7. ASSUME NEW d \in Devises,
             CreateDevise(r, d) \/ \E s \in StatutsFiche : TransitionDevise(r, d, s)
      PROVE  PasFidele
      BY <1>1, <1>4, <1>6, <1>7 DEF CreateDevise, TransitionDevise
<1>8. ASSUME NEW l \in Langues,
             CreateLangue(r, l) \/ \E s \in StatutsFiche : TransitionLangue(r, l, s)
      PROVE  PasFidele
      BY <1>1, <1>4, <1>6, <1>8 DEF CreateLangue, TransitionLangue
<1>9. ASSUME NEW b \in Blocs,
             CreateBlocRegional(r, b) \/ \E s \in StatutsFiche : TransitionBlocRegional(r, b, s)
      PROVE  PasFidele
      BY <1>1, <1>4, <1>6, <1>9 DEF CreateBlocRegional, TransitionBlocRegional
<1> QED  BY <1>5, <1>7, <1>8, <1>9 DEF Fiches

TablesTues == {"circulation", "langue_pays", "adhesion", "taux", "locale", "traduction"}

(* The relations of the countries, the locales and the translations.       *)
LEMMA CycleRelations ==
    ASSUME Socle, Cadre, NEW r \in Requetes, Liaisons(r) \/ Traduction(r) \/ Circulation(r)
    PROVE  PasFidele
<1>1. \A nom \in TablesTues : nom \notin TablesCycle
      BY DEF TablesTues, TablesCycle
<1>2. /\ "PAYS_BLOC_REGIONAL_ADHESION" \notin Annonces
      /\ "PAYS_BLOC_REGIONAL_RETRAIT" \notin Annonces /\ "TAUX_CHANGE_SET" \notin Annonces
      /\ "LOCALE_CREATED" \notin Annonces /\ "TRADUCTION_CREATED" \notin Annonces
      BY DEF Annonces
<1>3. Nul \notin Annonces
      BY AnnoncesAssumption
<1>4. ASSUME NEW nom \in TablesTues, NEW t, NEW i, NEW k, NEW type,
             Traiter(r, nom, t, i, k, type), type \notin Annonces
      PROVE  PasFidele
      BY <1>1, <1>4, CycleAutre DEF Cadre
<1>5. /\ "circulation" \in TablesTues /\ "langue_pays" \in TablesTues /\ "adhesion" \in TablesTues
      /\ "taux" \in TablesTues /\ "locale" \in TablesTues /\ "traduction" \in TablesTues
      BY DEF TablesTues
<1>6. CASE Liaisons(r)
      BY <1>2, <1>3, <1>4, <1>5, <1>6
         DEF Liaisons, AttachLangueToPays, AddPaysToBlocRegional, WithdrawPaysFromBlocRegional,
             SetTauxChange
<1>7. ASSUME NEW E, TraiterTout(r, E), CleUnique(E),
             \A q \in E : Neuve(q) /\ q.table \in TablesTues /\ q.type = Nul
      PROVE  PasFidele
      BY <1>1, <1>3, <1>7, CycleLot
<1>8. CASE Traduction(r)
  <2>1. ASSUME NEW x \in Locales, SetLocaleParDefaut(r, x) PROVE PasFidele
    <3>1. CleUnique(Defauts(x)) /\ \A q \in Defauts(x) : Neuve(q) /\ q.table = "locale"
        BY SocleSansDouble, DefautsNeuves
    <3>2. \A q \in Defauts(x) : q.type = Nul
        BY DefautsDe DEF Defaut, Ecriture
    <3> QED  BY <1>5, <1>7, <2>1, <3>1, <3>2, SetLocaleEcritures
  <2>2. ASSUME NEW x \in Locales,
               \/ CreateLocale(r, x) \/ UpdateLocale(r, x)
               \/ \E a \in BOOLEAN : SetLocaleActivation(r, x, a)
               \/ \E c \in Cles : CreateTraduction(r, x, c) \/ UpdateTraduction(r, x, c)
        PROVE  PasFidele
      BY <1>2, <1>3, <1>4, <1>5, <2>2
         DEF CreateLocale, UpdateLocale, SetLocaleActivation, CreateTraduction, UpdateTraduction
  <2> QED  BY <1>8, <2>1, <2>2 DEF Traduction
<1>9. CASE Circulation(r)
  <2>1. PICK x \in Relations, v \in {d1, d2}, d \in Dates, f \in Dates \union {Nul}, b \in BOOLEAN :
            AttachDeviseToPays(r, x, p1, v, d, f, b)
      BY <1>9 DEF Circulation
  <2>2. PICK l : l = [pays |-> p1, devise |-> v, debut |-> d, fin |-> f, principale |-> b]
      OBVIOUS
  <2>3. Attachement(r, x, p1, d, b, l)
      BY <2>1, <2>2, AttachDeviseEcritures
  <2>4. \/ TraiterTout(r, {Ecriture("circulation", x, l, TRUE, Nul)})
        \/ \E a, m : a # x /\ TraiterTout(r, Circulations(x, l, a, m))
      BY <2>3 DEF Attachement
  <2>5. CASE TraiterTout(r, {Ecriture("circulation", x, l, TRUE, Nul)})
    <3> DEFINE E == {Ecriture("circulation", x, l, TRUE, Nul)}
    <3>1. CleUnique(E) /\ \A q \in E : Neuve(q) /\ q.table = "circulation" /\ q.type = Nul
        BY DEF Ecriture, Neuve, EcritureOK, Champs, CleUnique
    <3> HIDE DEF E
    <3> QED  BY <1>5, <1>7, <2>5, <3>1 DEF E
  <2>6. ASSUME NEW a, NEW m, a # x, TraiterTout(r, Circulations(x, l, a, m)) PROVE PasFidele
    <3>1. /\ CleUnique(Circulations(x, l, a, m))
          /\ \A q \in Circulations(x, l, a, m) : Neuve(q) /\ q.table = "circulation"
        BY <2>6, CirculationsNeuves
    <3>2. \A q \in Circulations(x, l, a, m) : q.type = Nul
        BY DEF Circulations, Ecriture
    <3> QED  BY <1>5, <1>7, <2>6, <3>1, <3>2
  <2> QED  BY <2>4, <2>5, <2>6
<1> QED  BY <1>6, <1>8, <1>9

LEMMA CycleReferentiel ==
    ASSUME Socle, InvCycle, ReferentielNext
    PROVE  PasFidele
<1>0. UNCHANGED <<noeuds, regles, corpus, abonnements, catalogues, articles, offres, grilles>>
      BY DEF ReferentielNext, engineVars, tablesEngine, corpusVars, orgVars, catalogueVars
<1>1. ASSUME UNCHANGED fiches PROVE Immobile /\ Cadre
      BY <1>0, <1>1, CycleImmobile DEF tablesCycle, Cadre, Socle
<1>2. /\ "circulation" \notin TablesCycle /\ "langue_pays" \notin TablesCycle
      /\ "adhesion" \notin TablesCycle /\ "taux" \notin TablesCycle
      /\ "locale" \notin TablesCycle /\ "traduction" \notin TablesCycle
      /\ "fiche" \in TablesCycle
      BY DEF TablesCycle
<1>3. ASSUME NEW r \in Requetes, UNCHANGED fiches,
             Fiches(r) \/ Liaisons(r) \/ Traduction(r) \/ Circulation(r)
      PROVE  PasFidele
      BY <1>1, <1>3, CycleFiches, CycleRelations
<1>4. ASSUME NEW r \in Requetes, saveReferentiel(r) PROVE PasFidele
  <2>1. Immobile
      BY <1>1, <1>4 DEF saveReferentiel, referentielVars
  <2> QED  BY <1>2, <1>4, <2>1, LignesCas, CycleSave DEF saveReferentiel, Socle
<1>5. ASSUME NEW r \in Requetes, commitFiche(r) PROVE PasFidele
  <2>1. SeuleChange("fiche")
      BY <1>0, CycleImmobile
  <2> QED  BY <1>2, <1>5, <2>1, LignesCas, CycleCommit DEF commitFiche, PasFidele, Socle
<1>6. ASSUME NEW r \in Requetes, commitRelation(r) \/ commitLocale(r) \/ commitTraduction(r)
      PROVE  PasFidele
  <2>1. Immobile
      BY <1>1, <1>6 DEF commitRelation, commitLocale, commitTraduction
  <2> QED  BY <1>2, <1>6, <2>1, CycleValider DEF commitRelation, commitLocale, commitTraduction, Socle
<1> QED  BY <1>3, <1>4, <1>5, <1>6 DEF ReferentielNext

LEMMA CycleConfig ==
    ASSUME ReqOK(requete), InvCycle, ConfigNext
    PROVE  PasFidele
<1>0. UNCHANGED tablesCycle
      BY DEF ConfigNext, engineVars, tablesEngine, corpusVars, referentielVars, orgVars,
             catalogueVars, tablesCycle
<1>1. Immobile
      BY <1>0, CycleImmobile
<1>2. "configuration" \notin TablesCycle /\ Nul \notin Annonces
      BY AnnoncesAssumption DEF TablesCycle
<1>3. ASSUME NEW r \in Requetes, Reglage(r) PROVE PasFidele
      BY <1>1, <1>2, <1>3, CycleAutre DEF Reglage, UpdateConfigurationGlobale
<1>4. ASSUME NEW r \in Requetes, saveConfiguration(r) PROVE PasFidele
      BY <1>1, <1>2, <1>4, CycleSave DEF saveConfiguration
<1>5. ASSUME NEW r \in Requetes, commitConfiguration(r) PROVE PasFidele
      BY <1>1, <1>2, <1>5, CycleValider DEF commitConfiguration
<1> QED  BY <1>3, <1>4, <1>5 DEF ConfigNext

(* The four tables of the product catalog that share one workflow.         *)
LEMMA CycleCatalogues ==
    ASSUME Cadre, NEW r \in Requetes, NEW nom \in {"catalogue", "article", "offre", "grille"},
           NEW t, t = Lignes(nom), NEW i \in IdsDe(nom),
           \/ \E l \in t[i] : Traiter(r, nom, t, i, l, Nul)
           \/ \E s \in StatutsCatalogue : \E p, a \in Annonces :
                 TransitionCatalog(r, nom, t, i, s, Annonce(s, p, a))
    PROVE  PasFidele
<1>1. nom \in TablesCycle /\ StatutsDe(nom) = StatutsCatalogue
      BY StatutsCas DEF TablesCycle
<1>2. ASSUME NEW l \in t[i], Traiter(r, nom, t, i, l, Nul) PROVE PasFidele
  <2>1. Conserve(l, l) /\ Nul \notin Annonces
      BY ConserveCas, AnnoncesAssumption
  <2> QED  BY <1>1, <1>2, <2>1, CycleModifie
<1>3. ASSUME NEW s \in StatutsCatalogue, NEW p \in Annonces, NEW a \in Annonces,
             TransitionCatalog(r, nom, t, i, s, Annonce(s, p, a))
      PROVE  PasFidele
  <2> DEFINE type == Annonce(s, p, a)
  <2>1. PICK l \in t[i] : /\ assertCatalogTransitionAllowed(l.statut, s)
                          /\ Traiter(r, nom, t, i, [l EXCEPT !.statut = s], type)
      BY <1>3 DEF TransitionCatalog
  <2>2. type \in Annonces <=> s \in {"publie", "archive"}
      BY AnnoncesAssumption DEF Annonce
  <2> HIDE DEF type
  <2>3. l.statut \in StatutsCatalogue
      BY <1>1, CycleLigne DEF Cadre
  <2>4. FlechesNoyau(<<nom, i>>) = CatalogueNoyau
      BY DEF FlechesNoyau
  <2>5. <<l.statut, s>> \in CatalogueNoyau
      BY <2>1, <2>3 DEF CatalogueNoyau, assertCatalogTransitionAllowed, TransitionsCatalogue,
             StatutsCatalogue
  <2>6. NotoireNoyau(<<nom, i>>, s) <=> s \in {"publie", "archive"}
      BY DEF NotoireNoyau
  <2> QED  BY <1>1, <2>1, <2>2, <2>4, <2>5, <2>6, CycleFleche DEF Cadre
<1> QED  BY <1>2, <1>3

LEMMA CycleCreeBrouillon ==
    ASSUME Cadre, NEW r \in Requetes, NEW nom \in {"catalogue", "article", "offre", "grille"},
           NEW t, t = Lignes(nom), NEW i \in IdsDe(nom), NEW k, NEW type,
           t[i] = {}, Traiter(r, nom, t, i, k, type), type \notin Annonces,
           "statut" \in DOMAIN k, k.statut = "brouillon"
    PROVE  PasFidele
<1>1. nom \in TablesCycle /\ nom # "abonnement"
      BY DEF TablesCycle
<1> QED  BY <1>1, CycleCree DEF Cadre

LEMMA CycleCatalogueLecture ==
    ASSUME Cadre, NEW r \in Requetes,
           Diffusion(r) \/ Assortiment(r) \/ Offre(r) \/ Droits(r) \/ Tarif(r)
    PROVE  PasFidele
<1>1. /\ "CATALOGUE_CREATED" \notin Annonces /\ "PRODUCT_CREATED" \notin Annonces
      /\ "OFFER_CREATED" \notin Annonces /\ "FEATURE_CREATED" \notin Annonces
      /\ "ENTITLEMENT_ATTACHED" \notin Annonces /\ "PRICING_GRID_CREATED" \notin Annonces
      BY DEF Annonces
<1>2. /\ "CATALOGUE_PUBLISHED" \in Annonces /\ "CATALOGUE_ARCHIVED" \in Annonces
      /\ "PRODUCT_PUBLISHED" \in Annonces /\ "PRODUCT_ARCHIVED" \in Annonces
      /\ "OFFER_PUBLISHED" \in Annonces /\ "OFFER_ARCHIVED" \in Annonces
      /\ "PRICING_GRID_PUBLISHED" \in Annonces /\ "PRICING_GRID_ARCHIVED" \in Annonces
      BY DEF Annonces
<1>3. CASE Diffusion(r)
  <2>1. PICK c \in Catalogues \ {k1} :
            \/ \E m \in {o1, Nul} : CreateCatalogue(r, c, a1, m)
            \/ UpdateCatalogue(r, c)
            \/ \E s \in StatutsCatalogue : TransitionCatalogueWorkflow(r, c, s)
      BY <1>3 DEF Diffusion
  <2>2. catalogues = Lignes("catalogue") /\ c \in IdsDe("catalogue")
      BY LignesCas, IdsCas
  <2>3. ASSUME NEW m, CreateCatalogue(r, c, a1, m) PROVE PasFidele
    <3> DEFINE k == [produit |-> a1, cible |-> m, statut |-> "brouillon"]
    <3>1. catalogues[c] = {} /\ Traiter(r, "catalogue", catalogues, c, k, "CATALOGUE_CREATED")
        BY <2>3 DEF CreateCatalogue, Neuf
    <3>2. "statut" \in DOMAIN k /\ k.statut = "brouillon"
        OBVIOUS
    <3> HIDE DEF k
    <3> QED  BY <1>1, <2>2, <3>1, <3>2, CycleCreeBrouillon
  <2>4. ASSUME UpdateCatalogue(r, c) PROVE PasFidele
      BY <2>2, <2>4, CycleCatalogues DEF UpdateCatalogue
  <2>5. ASSUME NEW s \in StatutsCatalogue, TransitionCatalogueWorkflow(r, c, s) PROVE PasFidele
      BY <1>2, <2>2, <2>5, CycleCatalogues DEF TransitionCatalogueWorkflow
  <2> QED  BY <2>1, <2>3, <2>4, <2>5
<1>4. CASE Assortiment(r)
  <2>1. PICK x \in Articles \ {z1} :
            \/ CreateProduit(r, x, k1) \/ UpdateProduit(r, x)
            \/ \E s \in StatutsCatalogue : TransitionProduit(r, x, s)
      BY <1>4 DEF Assortiment
  <2>2. articles = Lignes("article") /\ x \in IdsDe("article")
      BY LignesCas, IdsCas
  <2>3. ASSUME CreateProduit(r, x, k1) PROVE PasFidele
    <3> DEFINE k == [catalogue |-> k1, statut |-> "brouillon"]
    <3>1. articles[x] = {} /\ Traiter(r, "article", articles, x, k, "PRODUCT_CREATED")
        BY <2>3 DEF CreateProduit
    <3>2. "statut" \in DOMAIN k /\ k.statut = "brouillon"
        OBVIOUS
    <3> HIDE DEF k
    <3> QED  BY <1>1, <2>2, <3>1, <3>2, CycleCreeBrouillon
  <2>4. ASSUME UpdateProduit(r, x) PROVE PasFidele
      BY <2>2, <2>4, CycleCatalogues DEF UpdateProduit
  <2>5. ASSUME NEW s \in StatutsCatalogue, TransitionProduit(r, x, s) PROVE PasFidele
      BY <1>2, <2>2, <2>5, CycleCatalogues DEF TransitionProduit
  <2> QED  BY <2>1, <2>3, <2>4, <2>5
<1>5. CASE Offre(r)
  <2>1. PICK o \in Offres \ {f1} :
            \/ \E b \in BOOLEAN, u \in BOOLEAN : CreateOffre(r, o, z1, b, u)
            \/ UpdateOffre(r, o)
            \/ \E s \in StatutsCatalogue : TransitionOffre(r, o, s)
      BY <1>5 DEF Offre
  <2>2. offres = Lignes("offre") /\ o \in IdsDe("offre")
      BY LignesCas, IdsCas
  <2>3. ASSUME NEW b, NEW u, CreateOffre(r, o, z1, b, u) PROVE PasFidele
    <3> DEFINE k == [article |-> z1, ponctuelle |-> b, statut |-> "brouillon"]
    <3>1. offres[o] = {} /\ Traiter(r, "offre", offres, o, k, "OFFER_CREATED")
        BY <2>3 DEF CreateOffre
    <3>2. "statut" \in DOMAIN k /\ k.statut = "brouillon"
        OBVIOUS
    <3> HIDE DEF k
    <3> QED  BY <1>1, <2>2, <3>1, <3>2, CycleCreeBrouillon
  <2>4. ASSUME UpdateOffre(r, o) PROVE PasFidele
      BY <2>2, <2>4, CycleCatalogues DEF UpdateOffre
  <2>5. ASSUME NEW s \in StatutsCatalogue, TransitionOffre(r, o, s) PROVE PasFidele
      BY <1>2, <2>2, <2>5, CycleCatalogues DEF TransitionOffre
  <2> QED  BY <2>1, <2>3, <2>4, <2>5
<1>6. CASE Droits(r)
  <2>1. "feature" \notin TablesCycle /\ "droit" \notin TablesCycle
      BY DEF TablesCycle
  <2> QED  BY <1>1, <1>6, <2>1, CycleAutre DEF Droits, CreateFeature, AttachEntitlementToOffre, Cadre
<1>7. CASE Tarif(r)
  <2>1. PICK g \in Grilles :
            \/ \E debut \in Dates, fin \in Dates \union {Nul} :
                  CreateGrilleTarifaire(r, g, f1, d2, debut, fin)
            \/ \E s \in StatutsCatalogue : TransitionGrille(r, g, s)
      BY <1>7 DEF Tarif
  <2>2. grilles = Lignes("grille") /\ g \in IdsDe("grille")
      BY LignesCas, IdsCas
  <2>3. ASSUME NEW debut, NEW fin, CreateGrilleTarifaire(r, g, f1, d2, debut, fin) PROVE PasFidele
    <3> DEFINE k == [offre |-> f1, devise |-> d2, version |-> findLatestVersion(f1) + 1,
                     debut |-> debut, fin |-> fin, statut |-> "brouillon"]
    <3>1. grilles[g] = {} /\ Traiter(r, "grille", grilles, g, k, "PRICING_GRID_CREATED")
        BY <2>3 DEF CreateGrilleTarifaire, Neuf
    <3>2. "statut" \in DOMAIN k /\ k.statut = "brouillon"
        OBVIOUS
    <3> HIDE DEF k
    <3> QED  BY <1>1, <2>2, <3>1, <3>2, CycleCreeBrouillon
  <2>4. ASSUME NEW s \in StatutsCatalogue, TransitionGrille(r, g, s) PROVE PasFidele
      BY <1>2, <2>2, <2>4, CycleCatalogues DEF TransitionGrille
  <2> QED  BY <2>1, <2>3, <2>4
<1> QED  BY <1>3, <1>4, <1>5, <1>6, <1>7

LEMMA CycleCatalogue ==
    ASSUME ReqOK(requete), InvCycle, CatalogueNext
    PROVE  PasFidele
<1>0. UNCHANGED <<noeuds, regles, corpus, fiches, abonnements>>
      BY DEF CatalogueNext, engineVars, tablesEngine, corpusVars, orgVars, referentielVars
<1>1. ASSUME UNCHANGED <<catalogues, articles, offres, grilles>> PROVE Immobile /\ Cadre
      BY <1>0, <1>1, CycleImmobile DEF tablesCycle, Cadre
<1>2. /\ "feature" \notin TablesCycle /\ "droit" \notin TablesCycle
      /\ "catalogue" \in TablesCycle /\ "article" \in TablesCycle /\ "offre" \in TablesCycle
      /\ "grille" \in TablesCycle
      BY DEF TablesCycle
<1>3. ASSUME NEW r \in Requetes, UNCHANGED catalogueVars,
             Diffusion(r) \/ Assortiment(r) \/ Offre(r) \/ Droits(r) \/ Tarif(r)
      PROVE  PasFidele
      BY <1>1, <1>3, CycleCatalogueLecture DEF catalogueVars
<1>4. ASSUME NEW r \in Requetes, saveCatalogue(r) PROVE PasFidele
  <2>1. Immobile
      BY <1>1, <1>4 DEF saveCatalogue, catalogueVars
  <2> QED  BY <1>2, <1>4, <2>1, LignesCas, CycleSave DEF saveCatalogue
<1>5. ASSUME NEW r \in Requetes, commitFeature(r) PROVE PasFidele
      BY <1>1, <1>2, <1>5, CycleValider DEF commitFeature
<1>6. ASSUME NEW r \in Requetes, commitCatalogue(r) PROVE PasFidele
  <2>1. SeuleChange("catalogue")
      BY <1>0, <1>6, CycleImmobile DEF commitCatalogue
  <2> QED  BY <1>2, <1>6, <2>1, LignesCas, CycleCommit DEF commitCatalogue, PasFidele
<1>7. ASSUME NEW r \in Requetes, commitArticle(r) PROVE PasFidele
  <2>1. SeuleChange("article")
      BY <1>0, <1>7, CycleImmobile DEF commitArticle
  <2> QED  BY <1>2, <1>7, <2>1, LignesCas, CycleCommit DEF commitArticle, PasFidele
<1>8. ASSUME NEW r \in Requetes, commitOffre(r) PROVE PasFidele
  <2>1. SeuleChange("offre")
      BY <1>0, <1>8, CycleImmobile DEF commitOffre
  <2> QED  BY <1>2, <1>8, <2>1, LignesCas, CycleCommit DEF commitOffre, PasFidele
<1>9. ASSUME NEW r \in Requetes, commitGrille(r) PROVE PasFidele
  <2>1. SeuleChange("grille")
      BY <1>0, <1>9, CycleImmobile DEF commitGrille
  <2> QED  BY <1>2, <1>9, <2>1, LignesCas, CycleCommit DEF commitGrille, PasFidele
<1> QED  BY <1>3, <1>4, <1>5, <1>6, <1>7, <1>8, <1>9 DEF CatalogueNext

LEMMA CycleIdentite ==
    ASSUME ReqOK(requete), InvCycle, IdentiteNext
    PROVE  PasFidele
<1>0. UNCHANGED tablesCycle
      BY DEF IdentiteNext, engineVars, tablesEngine, corpusVars, referentielVars, orgVars,
             catalogueVars, tablesCycle
<1>1. Cadre /\ Immobile
      BY <1>0, CycleImmobile DEF Cadre
<1>2. /\ "compte" \notin TablesCycle /\ "lien" \notin TablesCycle
      /\ "affectation" \notin TablesCycle
      BY DEF TablesCycle
<1>3. /\ "USER_REGISTERED" \notin Annonces /\ "SUPABASE_SESSION_EXCHANGED" \notin Annonces
      /\ "EXTERNAL_IDENTITY_LINKED" \notin Annonces /\ "ROLE_ASSIGNED" \notin Annonces
      BY DEF Annonces
<1>4. Nul \notin Annonces
      BY AnnoncesAssumption
<1>5. ASSUME NEW r \in Requetes, NEW g, NEW e, NEW t, RegisterUser(r, g, e, t) PROVE PasFidele
      BY <1>1, <1>2, <1>3, <1>5, CycleAutre DEF RegisterUser, Cadre
<1>6. ASSUME NEW r \in Requetes, NEW a, NEW x, NEW o, AssignRole(r, a, g1, x, o) PROVE PasFidele
      BY <1>1, <1>2, <1>3, <1>6, CycleAutre DEF AssignRole, Cadre
<1>7. ASSUME NEW r \in Requetes, NEW x, NEW g, NEW type, type \notin Annonces,
             TraiterTout(r, {NouveauLien(x, g, type)})
      PROVE  PasFidele
  <2> DEFINE E == {NouveauLien(x, g, type)}
  <2>1. CleUnique(E) /\ \A q \in E : Neuve(q) /\ q.table = "lien"
      BY DEF NouveauLien, Ecriture, Neuve, EcritureOK, Champs, CleUnique
  <2>2. \A q \in E : q.type = type
      BY DEF NouveauLien, Ecriture
  <2>3. TraiterTout(r, E)
      BY <1>7
  <2> HIDE DEF E
  <2> QED  BY <1>1, <1>2, <1>7, <2>1, <2>2, <2>3, CycleLot
<1>8. ASSUME NEW r \in Requetes, NEW x, NEW g, NEW l, TraiterTout(r, Ouverture(x, g, l))
      PROVE  PasFidele
  <2>1. \A q \in Ouverture(x, g, l) : q.type \notin Annonces
      BY <1>3, <1>4 DEF Ouverture, NouveauLien, Ecriture
  <2> QED  BY <1>1, <1>2, <1>8, <2>1, OuvertureNeuve, CycleLot
<1>9. ASSUME NEW r \in Requetes, NEW x, NEW g, NEW e, NEW t, ExchangeSupabaseSession(r, x, g, e, t)
      PROVE  PasFidele
  <2> DEFINE l == [email |-> e, phone |-> t, motDePasse |-> FALSE]
  <2>1. TraiterTout(r, Ouverture(x, g, l)) => PasFidele
      BY <1>8
  <2> QED  BY <1>3, <1>7, <1>9, <2>1 DEF ExchangeSupabaseSession, Ouverture
<1>10. ASSUME NEW r \in Requetes, NEW x, NEW g, LinkExternalIdentity(r, x, g) PROVE PasFidele
      BY <1>3, <1>7, <1>10 DEF LinkExternalIdentity
<1>11. ASSUME NEW r \in Requetes, saveIdentite(r) PROVE PasFidele
      BY <1>1, <1>2, <1>11, CycleSave DEF saveIdentite, Cadre
<1>12. ASSUME NEW r \in Requetes, commitAffectation(r) PROVE PasFidele
      BY <1>1, <1>2, <1>12, CycleValider DEF commitAffectation, Cadre
<1>13. ASSUME NEW r \in Requetes, commitCompte(r) PROVE PasFidele
  <2>1. Terminer(r) /\ \A q \in requete[r] : q.table \in {"compte", "lien"}
      BY <1>13 DEF commitCompte, Vers
  <2>2. \A q \in requete[r] : q.table \notin TablesCycle
      BY <1>2, <2>1
  <2> QED  BY <1>1, <2>1, <2>2, CycleCommitAilleurs DEF Cadre, PasFidele
<1> QED  BY <1>5, <1>6, <1>9, <1>10, <1>11, <1>12, <1>13 DEF IdentiteNext, Inscription

LEMMA CycleEtape ==
    ASSUME Socle, InvCycle, [Next]_vars
    PROVE  PasFidele
<1>1. ReqOK(requete)
      BY DEF Socle
<1>2. CASE Refus
  <2>1. PICK r \in Requetes : rollback(r)
      BY <1>2 DEF Refus
  <2>2. UNCHANGED tablesCycle
      BY <1>2 DEF Refus, metierVars, engineVars, tablesEngine, corpusVars, orgVars,
                  referentielVars, catalogueVars, tablesCycle
  <2> QED  BY <1>1, <2>1, <2>2, CycleImmobile, CycleRefus
<1>3. CASE UNCHANGED <<uniteVars, metierVars>>
  <2>1. UNCHANGED tablesCycle
      BY <1>3 DEF metierVars, engineVars, tablesEngine, corpusVars, orgVars, referentielVars,
                  catalogueVars, tablesCycle
  <2>2. UNCHANGED <<requete, emission>>
      BY <1>3 DEF uniteVars
  <2> QED  BY <2>1, <2>2, CycleImmobile, CycleInerte
<1> QED  BY <1>1, <1>2, <1>3, NextContextes, CycleEngine, CycleCorpus, CycleRegistre, CycleOrg,
            CycleReferentiel, CycleConfig, CycleCatalogue, CycleIdentite

LEMMA TableCycleDepart ==
    ASSUME NEW nom, NEW f,
           \A i \in DOMAIN f : "statut" \in DOMAIN f[i] /\ f[i].statut \in StatutsDe(nom)
    PROVE  TableCycle(nom, Table(IdsDe(nom), f))
<1> DEFINE t == Table(IdsDe(nom), f)
<1>1. DOMAIN t = IdsDe(nom) /\ \A i \in IdsDe(nom) : t[i] = IF i \in DOMAIN f THEN {f[i]} ELSE {}
      BY DEF Table
<1> HIDE DEF t
<1>2. TableCycle(nom, t)
      BY <1>1 DEF TableCycle
<1> QED  BY <1>2 DEF t

LEMMA TableCycleType ==
    ASSUME NEW nom, NEW t, NEW row, Table1(t, IdsDe(nom), row),
           \A l \in row : "statut" \in DOMAIN l /\ l.statut \in StatutsDe(nom)
    PROVE  TableCycle(nom, t)
<1>1. DOMAIN t = IdsDe(nom) /\ \A i \in IdsDe(nom) : t[i] \subseteq row
      BY DEF Table1
<1> QED  BY <1>1 DEF Table1, TableCycle

LEMMA CycleInit == Init => InvCycle
<1> SUFFICES ASSUME Init PROVE InvCycle
    OBVIOUS
<1>1. requete = [r \in Requetes |-> {}]
      BY DEF Init, InitUnite
<1>2. DOMAIN Aucune = {}
      BY DEF Aucune
<1>3. TableCycle("noeud", noeuds)
  <2>1. Table1(noeuds, IdsDe("noeud"), NoeudRow)
      BY NoeudInit, IdsCas DEF InvNoeuds
  <2>2. \A l \in NoeudRow : "statut" \in DOMAIN l /\ l.statut \in StatutsDe("noeud")
      BY StatutsCas DEF NoeudRow
  <2> QED  BY <2>1, <2>2, TableCycleType
<1>4. TableCycle("fiche", fiches)
  <2>1. Table1(fiches, IdsDe("fiche"), FicheRow)
      BY TarifInit, IdsCas DEF InvTarif, FichesSuivies, TableSuivie
  <2>2. \A l \in FicheRow : "statut" \in DOMAIN l /\ l.statut \in StatutsDe("fiche")
      BY StatutsCas DEF FicheRow, StatutsFiche, Statuts
  <2> QED  BY <2>1, <2>2, TableCycleType
<1>5. TableCycle("regle", regles) /\ TableCycle("abonnement", abonnements)
      /\ TableCycle("grille", grilles)
  <2>1. /\ regles = Table(IdsDe("regle"), Aucune) /\ abonnements = Table(IdsDe("abonnement"), Aucune)
        /\ grilles = Table(IdsDe("grille"), Aucune)
      BY IdsCas DEF Init, Demarrage
  <2> QED  BY <1>2, <2>1, TableCycleDepart
<1>6. TableCycle("corpus", corpus)
  <2> DEFINE f == [c \in {c1} \union (IF perimetre = "elements" THEN {c2} ELSE {}) |->
                      [confiance |-> "VERIFIE", statut |-> "brouillon"]]
  <2>1. corpus = Table(IdsDe("corpus"), f)
      BY IdsCas DEF Init, Demarrage
  <2>2. \A i \in DOMAIN f : "statut" \in DOMAIN f[i] /\ f[i].statut \in StatutsDe("corpus")
      BY StatutsCas DEF StatutsCorpus
  <2> HIDE DEF f
  <2> QED  BY <2>1, <2>2, TableCycleDepart
<1>7. TableCycle("catalogue", catalogues)
  <2> DEFINE f == [c \in {k1} |-> [produit |-> a1, cible |-> o1, statut |-> "publie"]]
  <2>1. catalogues = Table(IdsDe("catalogue"), f)
      BY IdsCas DEF Init, Demarrage
  <2>2. \A i \in DOMAIN f : "statut" \in DOMAIN f[i] /\ f[i].statut \in StatutsDe("catalogue")
      BY StatutsCas DEF StatutsCatalogue
  <2> HIDE DEF f
  <2> QED  BY <2>1, <2>2, TableCycleDepart
<1>8. TableCycle("article", articles)
  <2> DEFINE f == [x \in {z1} |-> [catalogue |-> k1, statut |-> "publie"]]
  <2>1. articles = Table(IdsDe("article"), f)
      BY IdsCas DEF Init, Demarrage
  <2>2. \A i \in DOMAIN f : "statut" \in DOMAIN f[i] /\ f[i].statut \in StatutsDe("article")
      BY StatutsCas DEF StatutsCatalogue
  <2> HIDE DEF f
  <2> QED  BY <2>1, <2>2, TableCycleDepart
<1>9. TableCycle("offre", offres)
  <2> DEFINE f == [o \in {f1} |-> [article |-> z1, ponctuelle |-> FALSE, statut |-> "publie"]]
  <2>1. offres = Table(IdsDe("offre"), f)
      BY IdsCas DEF Init, Demarrage
  <2>2. \A i \in DOMAIN f : "statut" \in DOMAIN f[i] /\ f[i].statut \in StatutsDe("offre")
      BY StatutsCas DEF StatutsCatalogue
  <2> HIDE DEF f
  <2> QED  BY <2>1, <2>2, TableCycleDepart
<1>10. \A nom \in TablesCycle : TableCycle(nom, Lignes(nom))
      BY <1>3, <1>4, <1>5, <1>6, <1>7, <1>8, <1>9, LignesCas DEF TablesCycle
<1> QED  BY <1>1, <1>10 DEF InvCycle

(***************************************************************************)
(* The nine contexts implement the abstract life cycle (CycleDeVie): as    *)
(* long as no two requests have overlapped, whatever has a workflow moves  *)
(* one object at a time along the arrows of its workflow, and the other    *)
(* products are told of exactly the moves they must know of, in the same   *)
(* commit.  A step of the nine contexts is a step of the life cycle or     *)
(* leaves the objects and the announcements as they are.                   *)
(***************************************************************************)
THEOREM ImplementsCycleCorrect == Spec => ImplementsCycle
<1>1. Init => Annoncees = {}
      BY DEF Init, InitUnite, Annoncees
<1>2. Socle /\ InvCycle /\ [Next]_vars => CyclePas
      BY CycleEtape DEF PasFidele
<1>3. Init => InvCycle
      BY CycleInit
<1>4. Socle /\ InvCycle /\ [Next]_vars => (Socle /\ InvCycle)'
  <2>1. Socle /\ InvCycle /\ [Next]_vars => Socle'
      BY SocleEtape
  <2>2. Socle /\ InvCycle /\ [Next]_vars => InvCycle'
      BY CycleEtape DEF PasFidele
  <2> QED  BY <2>1, <2>2
<1>5. ImplementsCycle <=> Annoncees = {} /\ [][CyclePas]_<<EtatsNoyau, Annoncees>>
      BY PTL DEF ImplementsCycle, Cycle!Spec, CyclePas, Annoncees
<1> QED  BY SocleInit, <1>1, <1>2, <1>3, <1>4, <1>5, PTL DEF Spec
=============================================================================
