CONSTANTS
    Nul = Nul
    n1 = n1  n2 = n2  n3 = n3  n4 = n4  p1 = p1  p2 = p2  d1 = d1  d2 = d2  l1 = l1  o1 = o1  a1 = a1
    c1 = c1  c2 = c2  k1 = k1  z1 = z1  f1 = f1  g1 = g1  m1 = m1  m2 = m2
    Perimetres = {"arbre", "publication", "revision", "villes", "regles", "corpus", "elements",
                  "registre", "filiation", "unites", "abonnements", "pays", "devises",
                  "langues", "blocs", "adhesions", "taux", "circulations", "locales",
                  "traductions", "configuration", "catalogues", "articles", "offres",
                  "droits", "grilles", "comptes", "roles", "clefs"}
    Requetes = {q1, q2}
    Pays = {p1, p2}
    Noeuds = {n1, n2, n3, n4}
    Regles = {x1}
    Villes = {y1}
    MaxChemin = 3
    MaxCompte = 1
    Corpus = {c1, c2}
    Elements = {b1, b2, b3}
    Produits = {a1, a2}
    Trajectoires = {s1, s2}
    Orgs = {o1, o2, o3}
    Unites = {u1}
    Abonnements = {x1, x2}
    Devises = {d1, d2}
    Langues = {l1}
    Blocs = {b1}
    Locales <- MCLocales
    Cles = {x1}
    Relations = {r1, r2}
    Dates = {1, 2}
    Appelants <- MCAppelants
    Catalogues = {k1, k2}
    Articles = {z1, z2}
    Offres = {f1, f2}
    Features = {x1}
    Grilles = {x1, x2}
    Comptes = {g1, g2, g3}
    Courriels = {m1, m2}
    Telephones = {t1}
    Identites <- MCIdentites
    Roles = {x1}
    Affectations = {x1}
    Verifications = {e1, e2}
    Ttl = 2
    Cooldown = 2
    Delai = 1
    MaxTemps = 3
    MaxRotations = 1
SYMMETRY NoyauSymmetry
SPECIFICATION Spec
CHECK_DEADLOCK FALSE
INVARIANTS
    NoyauTypeOK
    CheminFidele
    VilleSurNoeudActif
    ElementsEnArbre
    FiliationSansCycle
    AbonnementUnique
    DevisePrincipaleUnique
    HeritageStrict
    PrixUnique
    CompteUnique
    JetonCourantAccepte
PROPERTIES
    BrancheProtegee
    CycleParCheminPerime
    DefautConserve
    ImplementsCycle
