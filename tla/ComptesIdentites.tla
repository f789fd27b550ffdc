---------------------------- MODULE ComptesIdentites ----------------------------
(***************************************************************************)
(* The accounts of identity (one per person, found by email, phone or      *)
(* external identity), the correspondence between the identities of a      *)
(* product's own authentication and the accounts, and the roles.  What a   *)
(* login writes is modelled by Session, how a token of Supabase is         *)
(* verified by CacheJwks.                                                  *)
(***************************************************************************)
EXTENDS Organisations

CONSTANTS
    Comptes,
    Courriels, Telephones,
    Identites,      \* <<produit, external user id>>
    Roles,
    Affectations    \* ids of the rows of attribution_role_utilisateur

ASSUME IdentiteAssumption == Nul \notin Courriels /\ Nul \notin Telephones

VARIABLES comptes, liens, affectations

identiteVars == <<comptes, liens, affectations>>

CompteRow ==
    [email : Courriels \union {Nul}, phone : Telephones \union {Nul}, motDePasse : BOOLEAN]
LienRow == [compte : Comptes]
AffectationRow == [compte : Comptes, role : Roles, organisation : Orgs \union {Nul}]

IdentiteTypeOK ==
    /\ \A g \in Comptes : comptes[g] \subseteq CompteRow
    /\ \A x \in Identites : liens[x] \subseteq LienRow
    /\ \A a \in Affectations : affectations[a] \subseteq AffectationRow

-----------------------------------------------------------------------------
findByEmail(e) == {g \in Comptes : \E l \in comptes[g] : l.email = e /\ e # Nul}
findByPhone(t) == {g \in Comptes : \E l \in comptes[g] : l.phone = t /\ t # Nul}
findByProduitAndExternalId(x) == liens[x]

(* The phone, if given, is not looked up: its unique constraint decides.   *)
RegisterUser(r, g, e, t) ==
    /\ Neuf("compte", comptes, g)
    /\ e # Nul /\ findByEmail(e) = {}
    /\ Traiter(r, "compte", comptes, g, [email |-> e, phone |-> t, motDePasse |-> TRUE],
               "USER_REGISTERED")

(* The account of the email, failing that of the phone.                    *)
resolveUser(e, t) == IF findByEmail(e) # {} THEN findByEmail(e) ELSE findByPhone(t)

NouveauLien(x, g, type) == Ecriture("lien", x, [compte |-> g], TRUE, type)

(* First login of external identity x, whose token carries e and t: a new  *)
(* account g if none is found, and the correspondence, in one transaction. *)
ExchangeSupabaseSession(r, x, g, e, t) ==
    /\ findByProduitAndExternalId(x) = {}
    /\ \/ /\ resolveUser(e, t) = {}
          /\ Neuf("compte", comptes, g)
          /\ TraiterTout(r,
                {Ecriture("compte", g, [email |-> e, phone |-> t, motDePasse |-> FALSE], TRUE, Nul),
                 NouveauLien(x, g, "SUPABASE_SESSION_EXCHANGED")})
       \/ /\ g \in resolveUser(e, t)
          /\ TraiterTout(r, {NouveauLien(x, g, "SUPABASE_SESSION_EXCHANGED")})

(* Linking again to the same account passes the check and is then refused  *)
(* by the unique constraint: the correspondence is always a new row.       *)
LinkExternalIdentity(r, x, g) ==
    /\ comptes[g] # {}
    /\ \A l \in findByProduitAndExternalId(x) : l.compte = g
    /\ TraiterTout(r, {NouveauLien(x, g, "EXTERNAL_IDENTITY_LINKED")})

AssignRole(r, a, g, role, o) ==
    /\ Neuf("affectation", affectations, a)
    /\ comptes[g] # {}
    /\ o # Nul => organisationActive(o)
    /\ Traiter(r, "affectation", affectations, a, [compte |-> g, role |-> role, organisation |-> o],
               "ROLE_ASSIGNED")

-----------------------------------------------------------------------------
saveIdentite(r) ==
    /\ \/ save(r, "compte", comptes)
       \/ save(r, "lien", liens)
       \/ save(r, "affectation", affectations)
    /\ UNCHANGED identiteVars

Vers(r, t) == {q \in requete[r] : q.table = t}

(* The unique constraints on utilisateur.email and utilisateur.phone.      *)
SansDoublon(lignes) ==
    \A g, h \in Comptes : \A l \in lignes[g], m \in lignes[h] :
        g # h => /\ l.email = Nul \/ l.email # m.email
                 /\ l.phone = Nul \/ l.phone # m.phone

(* Mutant: ON CONFLICT DO NOTHING for the correspondence.                  *)
commitCompteSansConflit(r) ==
    /\ Terminer(r)
    /\ requete[r] = Vers(r, "compte") \union Vers(r, "lien")
    /\ ClesLibres(Vers(r, "compte"), comptes)
    /\ comptes' = ApresDe(Vers(r, "compte"), comptes)
    /\ SansDoublon(comptes')
    /\ liens' = ApresDe({q \in Vers(r, "lien") : liens[q.id] = {}}, liens)
    /\ UNCHANGED affectations

(* ... and on (produit_id, external_user_id): all or nothing.              *)
commitCompte(r) ==
    /\ Terminer(r)
    /\ requete[r] = Vers(r, "compte") \union Vers(r, "lien")
    /\ ClesLibres(Vers(r, "compte"), comptes) /\ ClesLibres(Vers(r, "lien"), liens)
    /\ comptes' = ApresDe(Vers(r, "compte"), comptes)
    /\ SansDoublon(comptes')
    /\ liens' = ApresDe(Vers(r, "lien"), liens)
    /\ UNCHANGED affectations

commitAffectation(r) ==
    /\ Valider(r, "affectation", affectations)
    /\ affectations' = ApresTout(r, affectations)
    /\ UNCHANGED <<comptes, liens>>

-----------------------------------------------------------------------------
(* KER-ID-01, KER-ID-02: however the first logins of one identity overlap, *)
(* an account opened by one is never left without an identity that leads   *)
(* to it, a correspondence never leads to a missing account, and no two    *)
(* accounts share an email or a phone.                                     *)
CompteUnique ==
    /\ SansDoublon(comptes)
    /\ \A x \in Identites : \A l \in liens[x] : comptes[l.compte] # {}
    /\ \A g \in Comptes : \A l \in comptes[g] :
          l.motDePasse \/ \E x \in Identites : \E m \in liens[x] : m.compte = g
=============================================================================
