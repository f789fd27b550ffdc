--------------------------- MODULE CorpusVersionnes ---------------------------
(***************************************************************************)
(* The versioned corpora of referential-engine: the versions with their    *)
(* three-state workflow, and their elements, each attached to a node and   *)
(* to a parent element of the same corpus.                                 *)
(***************************************************************************)
EXTENDS NoeudsHierarchiques

CONSTANTS Corpus, Elements

ASSUME CorpusAssumption == Nul \notin Elements /\ IsFiniteSet(Elements)

VARIABLES corpus, elements

corpusVars == <<corpus, elements>>

StatutsCorpus == {"brouillon", "publie", "archive"}

CorpusRow == [confiance : {"VERIFIE", "A_VERIFIER"}, statut : StatutsCorpus]
ElementRow == [corpus : Corpus, noeud : Noeuds, parent : Elements \union {Nul}]

CorpusTypeOK ==
    /\ \A c \in Corpus : corpus[c] \subseteq CorpusRow
    /\ \A e \in Elements : elements[e] \subseteq ElementRow

-----------------------------------------------------------------------------
CorpusTransitions ==
    [brouillon |-> {"publie"}, publie |-> {"archive"}, archive |-> {}]

assertCorpusTransitionAllowed(de, vers) == vers \in CorpusTransitions[de]

findByCorpusVersionne(c) == {e \in Elements : \E l \in elements[e] : l.corpus = c}

Parents(plats) == [x \in plats |-> {l.parent : l \in elements[x]} \ {Nul}]

wouldCreateCycleInCorpus(plats, e, p) == e \in Lignee(Parents(plats), p)

-----------------------------------------------------------------------------
(* The use-cases of the versions.                                          *)
CreateCorpusVersionne(r, c, f) ==
    /\ Neuf("corpus", corpus, c)
    /\ Traiter(r, "corpus", corpus, c, [confiance |-> f, statut |-> "brouillon"],
               "CORPUS_VERSIONNE_CREATED")

(* updateDetails leaves the row as read, updateGouvernance sets f.         *)
UpdateCorpusVersionne(r, c, f) ==
    \E l \in corpus[c] : Traiter(r, "corpus", corpus, c, [l EXCEPT !.confiance = f], Nul)

PublishCorpus(r, c) ==
    \E l \in corpus[c] :
        /\ assertCorpusTransitionAllowed(l.statut, "publie")
        /\ Traiter(r, "corpus", corpus, c, [l EXCEPT !.statut = "publie"],
                   "CORPUS_VERSIONNE_PUBLISHED")

ArchiveCorpus(r, c) ==
    \E l \in corpus[c] :
        /\ assertCorpusTransitionAllowed(l.statut, "archive")
        /\ Traiter(r, "corpus", corpus, c, [l EXCEPT !.statut = "archive"],
                   "CORPUS_VERSIONNE_ARCHIVED")

-----------------------------------------------------------------------------
(* The use-cases of the elements, whatever the state of their corpus.      *)
ParentDuCorpus(p, c) == p # Nul => \E l \in elements[p] : l.corpus = c

AttachCorpusElement(r, e, c, n, p) ==
    /\ Neuf("element", elements, e)
    /\ corpus[c] # {} /\ noeuds[n] # {}
    /\ ParentDuCorpus(p, c)
    /\ Traiter(r, "element", elements, e, [corpus |-> c, noeud |-> n, parent |-> p],
               "CORPUS_ELEMENT_CREATED")

UpdateCorpusElement(r, e) ==
    \E l \in elements[e] : Traiter(r, "element", elements, e, l, Nul)

(* Mutant: the new parent may be of another corpus.                        *)
ReattachAutreCorpus(r, e, p) ==
    \E l \in elements[e] :
        /\ p # Nul => elements[p] # {} /\ ~wouldCreateCycleInCorpus(findByCorpusVersionne(l.corpus), e, p)
        /\ Traiter(r, "element", elements, e, [l EXCEPT !.parent = p], Nul)

ReattachCorpusElement(r, e, p) ==
    \E l \in elements[e] :
        /\ ParentDuCorpus(p, l.corpus)
        /\ p # Nul => ~wouldCreateCycleInCorpus(findByCorpusVersionne(l.corpus), e, p)
        /\ Traiter(r, "element", elements, e, [l EXCEPT !.parent = p], Nul)

-----------------------------------------------------------------------------
saveCorpus(r) ==
    /\ save(r, "corpus", corpus) \/ save(r, "element", elements)
    /\ UNCHANGED corpusVars

commitCorpus(r) ==
    /\ Valider(r, "corpus", corpus)
    /\ corpus' = ApresTout(r, corpus)
    /\ UNCHANGED elements

commitElement(r) ==
    /\ Valider(r, "element", elements)
    /\ elements' = ApresTout(r, elements)
    /\ UNCHANGED corpus

-----------------------------------------------------------------------------
(* An element and its parent belong to one corpus, whatever overlaps, and  *)
(* no element is above itself unless two requests overlapped: the tree is  *)
(* read without a lock.                                                    *)
ElementsEnArbre ==
    /\ \A e \in Elements : \A l \in elements[e] : ParentDuCorpus(l.parent, l.corpus)
    /\ ~recouvrement => SansBoucle(Parents(Elements))
=============================================================================
