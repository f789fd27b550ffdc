------------------------------ MODULE AppConfig ------------------------------
(***************************************************************************)
(* The configuration of an application: the global row that an operator    *)
(* edits, and the resolution of the regional parameters along the chain    *)
(* user, unit, organisation, country, global.                              *)
(***************************************************************************)
EXTENDS Referentiels, Organisations

CONSTANT
    Appelants       \* what callers set: <<user, unit, organisation>>

(* What a level sets, Nul for what it does not.                            *)
NiveauReferentielPartiel ==
    [pays : Pays \union {Nul}, devise : Devises \union {Nul}, langue : Langues \union {Nul}]

ASSUME AppelantAssumption ==
    Appelants \subseteq NiveauReferentielPartiel \X NiveauReferentielPartiel \X NiveauReferentielPartiel

VARIABLE configuration

ConfigurationRow == [devise : Devises \union {Nul}, langue : Langues \union {Nul}]

(* The migration inserts the row: there always is one.                     *)
ConfigTypeOK == configuration["globale"] \subseteq ConfigurationRow

(* The fields of the command c, the others as they were read.              *)
UpdateConfigurationGlobale(r, c) ==
    \E l \in configuration["globale"] :
        Traiter(r, "configuration", configuration, "globale",
                [x \in DOMAIN l |-> IF x \in DOMAIN c THEN c[x] ELSE l[x]], Nul)

saveConfiguration(r) == save(r, "configuration", configuration) /\ UNCHANGED configuration

commitConfiguration(r) ==
    /\ Valider(r, "configuration", configuration)
    /\ configuration' = ApresTout(r, configuration)

-----------------------------------------------------------------------------
(* Mutant: the loop runs from the other end, the least specific level wins. *)
resolveDernier(niveaux, champ) ==
    LET jusque[k \in 0..Len(niveaux)] ==
            IF k = 0 THEN Nul
            ELSE IF niveaux[k][champ] # Nul THEN niveaux[k][champ]
            ELSE jusque[k - 1]
    IN  jusque[Len(niveaux)]

(* The loop over the levels, the most specific first: what it returns when *)
(* it comes to the k-th.                                                   *)
resolveChamp(niveaux, champ) ==
    LET depuis[k \in 1..(Len(niveaux) + 1)] ==
            IF k > Len(niveaux) THEN Nul
            ELSE IF niveaux[k][champ] # Nul THEN niveaux[k][champ]
            ELSE depuis[k + 1]
    IN  depuis[1]

(* The language of the best status, any of them if several.                *)
Priorites == <<"officielle", "nationale", "enseignement_initial", "vehiculaire">>

LanguesDuPays(p) ==
    LET lignes == {l \in UNION {languesPays[x] : x \in Relations} : l.pays = p}
        rang(l) == CHOOSE k \in 1..4 : Priorites[k] = l.statut
    IN  {l.langue : l \in {m \in lignes : \A n \in lignes : rang(m) <= rang(n)}}

(* What findOne or a sort may return: one of the set, Nul if it is empty.  *)
UnDe(S) == IF S = {} THEN {Nul} ELSE S

getPaysDefaults(p, d) ==
    IF p = Nul \/ ~existe(<<"pays", p>>) THEN {[devise |-> Nul, langue |-> Nul]}
    ELSE [devise : UnDe({l.devise : l \in UNION {circulations[x] : x \in findPrincipaleActive(p, d)}}),
          langue : UnDe(LanguesDuPays(p))]

(* The code of a row, Nul if there is no such row.                         *)
enrichCodes(type, x) == IF x # Nul /\ existe(<<type, x>>) THEN x ELSE Nul

localeActive(x) == x \in Locales /\ \E l \in locales[x] : l.actif

(* In three steps, a locale that is not active is passed over.             *)
resolveLocale(l, p) ==
    IF l # Nul /\ localeActive(<<l, p>>) THEN {<<l, p>>}
    ELSE IF l # Nul /\ localeActive(<<l, Nul>>) THEN {<<l, Nul>>}
    ELSE UnDe({x \in findParDefaut : localeActive(x)})

(* The answers that a caller of organisation o, unit u if any, may get.    *)
resolveAppConfig(o, u, appelant, d) ==
    LET p == resolveChamp(appelant, "pays")
        chaine(n, g) == appelant \o <<n, g>>
        reponse(n, g) ==
            LET devise == resolveChamp(chaine(n, g), "devise")
                langue == resolveChamp(chaine(n, g), "langue")
            IN  {[pays |-> p, devise |-> devise, langue |-> langue, locale |-> x] :
                    x \in resolveLocale(enrichCodes("langue", langue), enrichCodes("pays", p))}
    IN  IF organisationActive(o) /\ (u = Nul \/ referentielDeUnite(u, o))
        THEN UNION {reponse(n, g) : n \in getPaysDefaults(p, d), g \in configuration["globale"]}
        ELSE {}

-----------------------------------------------------------------------------
(* KER-INH-01, KER-INH-02, KER-NOM-04: whatever the caller and the date, a *)
(* parameter has the value of the most specific level that sets it, the    *)
(* country and the global row included, and is null only if none does; the *)
(* locale is active, and of the resolved language as soon as that language *)
(* has one of its own.                                                     *)
HeritageStrict ==
    \A o \in Orgs, a \in Appelants, d \in Dates : \A c \in resolveAppConfig(o, Nul, a, d) :
        /\ \A champ \in {"pays", "devise", "langue"} :
              LET poses == {k \in 1..3 : a[k][champ] # Nul}
              IN  \/ \E k \in poses : (\A j \in poses : k <= j) /\ c[champ] = a[k][champ]
                  \/ poses = {} /\ champ = "pays" /\ c.pays = Nul
                  \/ /\ poses = {} /\ champ # "pays"
                     /\ \E n \in getPaysDefaults(c.pays, d), g \in configuration["globale"] :
                           c[champ] = IF n[champ] # Nul THEN n[champ] ELSE g[champ]
        /\ c.locale # Nul => localeActive(c.locale)
        /\ c.langue # Nul /\ existe(<<"langue", c.langue>>) /\ localeActive(<<c.langue, Nul>>)
              => c.locale # Nul /\ c.locale[1] = c.langue
=============================================================================
