----------------------------- MODULE Referentiels -----------------------------
(***************************************************************************)
(* GSG Referential: countries, currencies, languages and regional blocs,   *)
(* each under its unique code and with its editorial workflow; the dated   *)
(* circulation of currencies, the languages and the blocs of a country;    *)
(* exchange rates; locales, one of them the default, and translations.     *)
(* The villes are in NoeudsHierarchiques, with the nodes they refer to.    *)
(***************************************************************************)
EXTENDS UniteDeTravail

CONSTANTS
    Devises, Langues, Blocs, Locales,
    Cles,           \* translation keys
    Relations,      \* ids of the rows of pays_devise, pays_bloc_regional, taux_change
    Dates           \* the dates that callers give

ASSUME ReferentielAssumption == Dates \subseteq Nat /\ Nul \notin Dates /\ Nul \notin Locales

VARIABLES
    fiches,         \* <<kind, code>> |-> the row of a country, currency, ...
    circulations, languesPays, adhesions, taux, locales, traductions,
    desordre        \* a main currency was given to a country with a date that
                    \* is not after that of the ones before

relationVars == <<circulations, languesPays, adhesions, taux>>
referentielVars == <<fiches, relationVars, locales, traductions, desordre>>

StatutsFiche == {"brouillon", "en_revision", "valide", "publie"}

CodesFiches ==
    ({"pays"} \X Pays) \union ({"devise"} \X Devises)
        \union ({"langue"} \X Langues) \union ({"bloc"} \X Blocs)

FicheRow == [actif : BOOLEAN, statut : StatutsFiche]

PaysDeviseRow ==
    [pays : Pays, devise : Devises, debut : Dates, fin : Dates \union {Nul}, principale : BOOLEAN]

PaysLangueRow ==
    [pays : Pays, langue : Langues,
     statut : {"officielle", "nationale", "enseignement_initial", "vehiculaire"}]

PaysBlocRegionalRow ==
    [pays : Pays, bloc : Blocs, retrait : Dates \union {Nul}, statut : {"membre", "retire"}]

TauxChangeRow == [base : Devises, cible : Devises, du : Dates, au : Dates \union {Nul}]

LocaleRow == [actif : BOOLEAN, defaut : BOOLEAN]

ReferentielTypeOK ==
    /\ \A k \in CodesFiches : fiches[k] \subseteq FicheRow
    /\ \A x \in Relations :
          /\ circulations[x] \subseteq PaysDeviseRow
          /\ languesPays[x] \subseteq PaysLangueRow
          /\ adhesions[x] \subseteq PaysBlocRegionalRow
          /\ taux[x] \subseteq TauxChangeRow
    /\ \A x \in Locales : locales[x] \subseteq LocaleRow
    /\ \A k \in Locales \X Cles : traductions[k] \subseteq {[valeur |-> Nul]}
    /\ desordre \in BOOLEAN

-----------------------------------------------------------------------------
(* The editorial workflow, and what the four kinds of rows have in common. *)
TransitionsReferentiel ==
    [brouillon |-> {"en_revision"}, en_revision |-> {"valide", "brouillon"},
     valide |-> {"publie", "en_revision"}, publie |-> {}]

assertTransitionAllowed(de, vers) == vers \in TransitionsReferentiel[de]

existe(k) == fiches[k] # {}

Creer(r, k, type) == ~existe(k) /\ Traiter(r, "fiche", fiches, k, [actif |-> TRUE, statut |-> "brouillon"], type)

Transition(r, k, s, type) ==
    \E l \in fiches[k] :
        /\ assertTransitionAllowed(l.statut, s)
        /\ Traiter(r, "fiche", fiches, k, [l EXCEPT !.statut = s], IF s = "publie" THEN type ELSE Nul)

-----------------------------------------------------------------------------
(* Countries.                                                              *)
CreatePays(r, p) == Creer(r, <<"pays", p>>, "PAYS_CREATED")

UpdatePays(r, p) == \E l \in fiches[<<"pays", p>>] : Traiter(r, "fiche", fiches, <<"pays", p>>, l, Nul)

TransitionPays(r, p, s) == Transition(r, <<"pays", p>>, s, "PAYS_PUBLISHED")

SetPaysActivation(r, p, a) ==
    \E l \in fiches[<<"pays", p>>] :
        Traiter(r, "fiche", fiches, <<"pays", p>>, [l EXCEPT !.actif = a],
                IF a THEN Nul ELSE "PAYS_DEACTIVATED")

(* Currencies, languages, blocs: no use-case rejects or deactivates them.  *)
CreateDevise(r, d) == Creer(r, <<"devise", d>>, "DEVISE_CREATED")

TransitionDevise(r, d, s) ==
    s # "brouillon" /\ Transition(r, <<"devise", d>>, s, "DEVISE_PUBLISHED")

CreateLangue(r, l) == Creer(r, <<"langue", l>>, "LANGUE_CREATED")

TransitionLangue(r, l, s) ==
    s # "brouillon" /\ Transition(r, <<"langue", l>>, s, "LANGUE_PUBLISHED")

CreateBlocRegional(r, b) == Creer(r, <<"bloc", b>>, "BLOC_REGIONAL_CREATED")

TransitionBlocRegional(r, b, s) ==
    s # "brouillon" /\ Transition(r, <<"bloc", b>>, s, "BLOC_REGIONAL_PUBLISHED")

(* CurrencyValidationPort: what the product catalogue asks.                *)
isCertified(d) == \E l \in fiches[<<"devise", d>>] : l.statut = "publie" /\ l.actif

-----------------------------------------------------------------------------
(* The relations of a country.                                             *)
findPrincipaleActive(p, d) ==
    {x \in Relations : \E l \in circulations[x] :
        l.pays = p /\ l.principale /\ l.debut <= d /\ (l.fin = Nul \/ l.fin >= d)}

(* Mutant: the one in force is not ended.                                  *)
AttachDeviseSansFin(r, x, p, v, d, f, principale) ==
    /\ Neuf("circulation", circulations, x)
    /\ existe(<<"pays", p>>) /\ existe(<<"devise", v>>)
    /\ f # Nul => f > d
    /\ Traiter(r, "circulation", circulations, x,
               [pays |-> p, devise |-> v, debut |-> d, fin |-> f, principale |-> principale], Nul)
    /\ desordre' = (desordre \/ (principale /\ \E y \in Relations : \E l \in circulations[y] :
                                    l.pays = p /\ l.principale /\ l.debut >= d))

(* KER-REF-03: a new main currency ends the one, any if several, that is   *)
(* in force at its date; both rows are saved by the same request.          *)
AttachDeviseToPays(r, x, p, v, d, f, principale) ==
    LET nouvelle == Ecriture("circulation", x,
            [pays |-> p, devise |-> v, debut |-> d, fin |-> f, principale |-> principale], TRUE, Nul)
        actives == IF principale THEN findPrincipaleActive(p, d) ELSE {}
    IN  /\ Neuf("circulation", circulations, x)
        /\ existe(<<"pays", p>>) /\ existe(<<"devise", v>>)
        /\ f # Nul => f > d
        /\ \/ actives = {} /\ TraiterTout(r, {nouvelle})
           \/ \E a \in actives : \E l \in circulations[a] :
                 TraiterTout(r, {Ecriture("circulation", a, [l EXCEPT !.fin = d], FALSE, Nul), nouvelle})
        /\ desordre' = (desordre \/ (principale /\ \E y \in Relations : \E l \in circulations[y] :
                                        l.pays = p /\ l.principale /\ l.debut >= d))

AttachLangueToPays(r, x, p, v, s) ==
    /\ Neuf("langue_pays", languesPays, x)
    /\ existe(<<"pays", p>>) /\ existe(<<"langue", v>>)
    /\ Traiter(r, "langue_pays", languesPays, x, [pays |-> p, langue |-> v, statut |-> s], Nul)

AddPaysToBlocRegional(r, x, p, b) ==
    /\ Neuf("adhesion", adhesions, x)
    /\ existe(<<"pays", p>>) /\ existe(<<"bloc", b>>)
    /\ Traiter(r, "adhesion", adhesions, x,
               [pays |-> p, bloc |-> b, retrait |-> Nul, statut |-> "membre"],
               "PAYS_BLOC_REGIONAL_ADHESION")

(* Mutant: a status that the column does not know.                         *)
WithdrawPaysStatutInconnu(r, x, d) ==
    \E l \in adhesions[x] :
        Traiter(r, "adhesion", adhesions, x, [l EXCEPT !.retrait = d, !.statut = "inactif"],
                "PAYS_BLOC_REGIONAL_RETRAIT")

WithdrawPaysFromBlocRegional(r, x, d) ==
    \E l \in adhesions[x] :
        Traiter(r, "adhesion", adhesions, x, [l EXCEPT !.retrait = d, !.statut = "retire"],
                "PAYS_BLOC_REGIONAL_RETRAIT")

(* A rate is added beside those of before, none of which is ended.         *)
SetTauxChange(r, x, b, c, d, f) ==
    /\ Neuf("taux", taux, x)
    /\ existe(<<"devise", b>>) /\ existe(<<"devise", c>>)
    /\ f # Nul => f > d
    /\ Traiter(r, "taux", taux, x, [base |-> b, cible |-> c, du |-> d, au |-> f], "TAUX_CHANGE_SET")

-----------------------------------------------------------------------------
(* Locales and translations.                                               *)
findParDefaut == {x \in Locales : \E l \in locales[x] : l.defaut}

CreateLocale(r, x) ==
    /\ locales[x] = {}
    /\ Traiter(r, "locale", locales, x, [actif |-> TRUE, defaut |-> FALSE], "LOCALE_CREATED")

UpdateLocale(r, x) == \E l \in locales[x] : Traiter(r, "locale", locales, x, l, Nul)

SetLocaleActivation(r, x, a) ==
    \E l \in locales[x] : Traiter(r, "locale", locales, x, [l EXCEPT !.actif = a], Nul)

(* Mutant: the old default is withdrawn, the new one not marked.           *)
SetLocaleSansMarquer(r, x) ==
    /\ locales[x] # {}
    /\ TraiterTout(r,
          UNION {{Ecriture("locale", a, [l EXCEPT !.defaut = (a = x /\ l.defaut)], FALSE, Nul) : l \in locales[a]} :
                 a \in findParDefaut \union {x}})

(* KER-INH-02: the old default withdrawn and the new one marked together.  *)
SetLocaleParDefaut(r, x) ==
    /\ locales[x] # {}
    /\ TraiterTout(r,
          UNION {{Ecriture("locale", a, [l EXCEPT !.defaut = (a = x)], FALSE, Nul) : l \in locales[a]} :
                 a \in findParDefaut \union {x}})

CreateTraduction(r, x, c) ==
    /\ locales[x] # {} /\ traductions[<<x, c>>] = {}
    /\ Traiter(r, "traduction", traductions, <<x, c>>, [valeur |-> Nul], "TRADUCTION_CREATED")

UpdateTraduction(r, x, c) ==
    \E l \in traductions[<<x, c>>] : Traiter(r, "traduction", traductions, <<x, c>>, l, Nul)

-----------------------------------------------------------------------------
saveReferentiel(r) ==
    /\ \/ save(r, "fiche", fiches)
       \/ save(r, "circulation", circulations)
       \/ save(r, "langue_pays", languesPays)
       \/ save(r, "adhesion", adhesions)
       \/ save(r, "taux", taux)
       \/ save(r, "locale", locales)
       \/ save(r, "traduction", traductions)
    /\ UNCHANGED referentielVars

commitFiche(r) ==
    /\ Valider(r, "fiche", fiches)
    /\ fiches' = ApresTout(r, fiches)
    /\ UNCHANGED <<relationVars, locales, traductions, desordre>>

commitRelation(r) ==
    /\ \/ /\ Valider(r, "circulation", circulations)
          /\ circulations' = ApresTout(r, circulations)
          /\ UNCHANGED <<languesPays, adhesions, taux>>
       \/ /\ Valider(r, "langue_pays", languesPays)
          /\ languesPays' = ApresTout(r, languesPays)
          /\ UNCHANGED <<circulations, adhesions, taux>>
       \/ /\ Valider(r, "adhesion", adhesions)
          /\ adhesions' = ApresTout(r, adhesions)
          /\ UNCHANGED <<circulations, languesPays, taux>>
       \/ /\ Valider(r, "taux", taux)
          /\ taux' = ApresTout(r, taux)
          /\ UNCHANGED <<circulations, languesPays, adhesions>>
    /\ UNCHANGED <<fiches, locales, traductions, desordre>>

(* UQ_locale_une_seule_par_defaut: a second default row is refused.        *)
commitLocale(r) ==
    /\ Valider(r, "locale", locales)
    /\ locales' = ApresTout(r, locales)
    /\ Cardinality(findParDefaut') <= 1
    /\ UNCHANGED <<fiches, relationVars, traductions, desordre>>

commitTraduction(r) ==
    /\ Valider(r, "traduction", traductions)
    /\ traductions' = ApresTout(r, traductions)
    /\ UNCHANGED <<fiches, relationVars, locales, desordre>>

-----------------------------------------------------------------------------
(* x ends on the day d on which y begins.                                  *)
Releve(x, y, d) == \E l \in circulations[x], m \in circulations[y] : l.fin = d /\ m.debut = d

(* KER-REF-03: the main currencies of a country follow each other.  The    *)
(* last day of one is the first of the next and both are active on it, as  *)
(* findPrincipaleActive reads them, but on no other day are there two,     *)
(* unless two attachments overlapped or one came with a date not after     *)
(* those before: only what is active at the new date is ended, not what    *)
(* begins later.                                                           *)
DevisePrincipaleUnique ==
    ~recouvrement /\ ~desordre =>
        \A p \in Pays, d \in Dates : \A x, y \in findPrincipaleActive(p, d) :
            x = y \/ Releve(x, y, d) \/ Releve(y, x, d)

(* KER-INH-02: once there is a default locale there always is one, unless  *)
(* requests overlapped: a rename saved from a copy read before a change of *)
(* default takes the default back.                                         *)
DefautConserve == [][findParDefaut # {} => recouvrement' \/ findParDefaut' # {}]_<<locales, recouvrement>>
=============================================================================
