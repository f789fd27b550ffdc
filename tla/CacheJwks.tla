------------------------------ MODULE CacheJwks ------------------------------
(***************************************************************************)
(* The cache of a Supabase project's public keys in one kernel instance    *)
(* (JoseSupabaseSessionVerifier): keys kept for a time, one fetch at a     *)
(* time, stale keys used when a fetch fails, and one forced refresh per    *)
(* cooldown for tokens that the keys do not verify.  Keys are numbered in  *)
(* the order in which the project adopts them, and it serves the last one. *)
(* A request runs up to its next await in one step.                        *)
(***************************************************************************)
EXTENDS Integers

CONSTANTS
    Verifications,  \* calls of verify that may be in progress together
    Ttl,            \* jwksCacheTtlSeconds
    Cooldown,       \* jwksForcedRefreshCooldownSeconds
    Delai,          \* jwksFetchTimeoutMs
    MaxTemps,       \* bound: where the clock stops
    MaxRotations    \* bound: rotations of the project's key

ASSUME JwksAssumption ==
    /\ Ttl \in Nat \ {0} /\ Cooldown \in Nat \ {0} /\ Delai \in Nat
    /\ MaxTemps \in Nat /\ MaxRotations \in Nat

VARIABLES
    clef,           \* the key with which the project signs
    horloge,
    cache,          \* the keys and when they were fetched, {} before the first
    inFlight,       \* the fetch in flight, if any, and its answer once given
    forcage,        \* lastForcedRefreshAtMs
    verification    \* call |-> where it stands

jwksVars == <<clef, horloge, cache, inFlight, forcage, verification>>

Clefs == 0..MaxRotations
Instants == 0..MaxTemps
Faux == -1          \* what signs a token that no key of the project signed

Etapes == {"libre", "getKeys", "essai", "forceRefresh", "dernierEssai", "accepte", "refuse"}

JwksTypeOK ==
    /\ clef \in Clefs /\ horloge \in Instants
    /\ cache \subseteq [clef : Clefs, date : Instants]
    /\ inFlight \subseteq [debut : Instants, reponse : SUBSET Clefs]
    /\ forcage \in (-Cooldown)..MaxTemps
    /\ verification \in [Verifications ->
          [etape : Etapes, jeton : Clefs \union {Faux}, clefs : SUBSET Clefs,
           connue : BOOLEAN, motif : {"aucun", "cooldown", "panne"}]]

JwksInit ==
    /\ clef = 0 /\ horloge = 0
    /\ cache = {} /\ inFlight = {}
    /\ forcage = -Cooldown
    /\ verification = [v \in Verifications |->
          [etape |-> "libre", jeton |-> Faux, clefs |-> {}, connue |-> FALSE, motif |-> "aucun"]]

EnCache == {c.clef : c \in cache}

Poser(v, a) == verification' = [verification EXCEPT ![v] = a]

(* The fetch in flight is joined, a new one is begun otherwise.            *)
fetchAndCache ==
    inFlight' = IF inFlight # {} THEN inFlight ELSE {[debut |-> horloge, reponse |-> {}]}

-----------------------------------------------------------------------------
(* A call with a token signed by j: the keys of the cache are used if they *)
(* are recent; if not they are kept aside, in case the fetch fails.        *)
verify(v, j) ==
    LET a == [etape |-> "getKeys", jeton |-> j, clefs |-> EnCache, connue |-> j \in EnCache,
              motif |-> "aucun"]
    IN  /\ verification[v].etape \in {"libre", "accepte", "refuse"}
        /\ IF \E c \in cache : horloge - c.date < Ttl
           THEN Poser(v, [a EXCEPT !.etape = "essai"]) /\ UNCHANGED inFlight
           ELSE Poser(v, a) /\ fetchAndCache
    /\ UNCHANGED <<clef, horloge, cache, forcage>>

tryVerifyWithKeys(a) == a.jeton \in a.clefs

(* First try; on failure a forced refresh, if the last one is not recent.  *)
forceRefreshIfAllowed(v) ==
    LET a == verification[v]
    IN  IF horloge - forcage < Cooldown
        THEN /\ Poser(v, [a EXCEPT !.etape = "refuse", !.motif = "cooldown"])
             /\ UNCHANGED <<inFlight, forcage>>
        ELSE /\ Poser(v, [a EXCEPT !.etape = "forceRefresh"])
             /\ forcage' = horloge
             /\ fetchAndCache

essayer(v) ==
    /\ verification[v].etape = "essai"
    /\ IF tryVerifyWithKeys(verification[v])
       THEN Poser(v, [verification[v] EXCEPT !.etape = "accepte"]) /\ UNCHANGED <<inFlight, forcage>>
       ELSE forceRefreshIfAllowed(v)
    /\ UNCHANGED <<clef, horloge, cache>>

reessayer(v) ==
    /\ verification[v].etape = "dernierEssai"
    /\ Poser(v, [verification[v] EXCEPT
                    !.etape = IF tryVerifyWithKeys(verification[v]) THEN "accepte" ELSE "refuse"])
    /\ UNCHANGED <<clef, horloge, cache, inFlight, forcage>>

-----------------------------------------------------------------------------
(* doFetch: Supabase answers with its key of the moment...                 *)
repondre ==
    /\ \E f \in inFlight : f.reponse = {} /\ inFlight' = {[f EXCEPT !.reponse = {clef}]}
    /\ UNCHANGED <<clef, horloge, cache, forcage, verification>>

(* ... the answer arrives, is cached, and wakes all those who wait for it. *)
recevoir ==
    /\ \E f \in inFlight : f.reponse # {} /\
          /\ cache' = {[clef |-> k, date |-> horloge] : k \in f.reponse}
          /\ verification' = [v \in Verifications |->
                LET a == verification[v]
                IN  IF a.etape = "getKeys" THEN [a EXCEPT !.etape = "essai", !.clefs = f.reponse]
                    ELSE IF a.etape = "forceRefresh" THEN [a EXCEPT !.etape = "dernierEssai", !.clefs = f.reponse]
                    ELSE a]
    /\ inFlight' = {}
    /\ UNCHANGED <<clef, horloge, forcage>>

(* Mutant: without the fallback on the stale keys.                         *)
getKeysSansRepli(a) == [a EXCEPT !.etape = "refuse", !.motif = "panne"]

(* The stale keys, if there ever were any.                                 *)
getKeysEchoue(a) ==
    IF a.clefs # {} THEN [a EXCEPT !.etape = "essai"]
                    ELSE [a EXCEPT !.etape = "refuse", !.motif = "panne"]

(* An error, a malformed answer, or the timeout.                           *)
echouer ==
    /\ inFlight # {}
    /\ verification' = [v \in Verifications |->
          LET a == verification[v]
          IN  IF a.etape = "getKeys" THEN getKeysEchoue(a)
              ELSE IF a.etape = "forceRefresh" THEN [a EXCEPT !.etape = "refuse", !.motif = "panne"]
              ELSE a]
    /\ inFlight' = {}
    /\ UNCHANGED <<clef, horloge, cache, forcage>>

(* Time passes, but a fetch is aborted after Delai.                        *)
tic ==
    /\ horloge < MaxTemps
    /\ \A f \in inFlight : horloge < f.debut + Delai
    /\ horloge' = horloge + 1
    /\ UNCHANGED <<clef, cache, inFlight, forcage, verification>>

rotation ==
    /\ clef < MaxRotations
    /\ clef' = clef + 1
    /\ UNCHANGED <<horloge, cache, inFlight, forcage, verification>>

JwksNext ==
    \/ \E v \in Verifications :
          \/ \E j \in {Faux} \union 0..clef : verify(v, j)
          \/ essayer(v) \/ reessayer(v)
    \/ repondre \/ recevoir \/ echouer
    \/ tic \/ rotation

JwksSpec == JwksInit /\ [][JwksNext]_jwksVars

-----------------------------------------------------------------------------
(* A token signed with the project's key is refused only if the instance   *)
(* did not have that key and could not ask for it: a forced refresh failed *)
(* or was made a moment ago, or the first fetch failed.  An outage takes   *)
(* nothing from a key already cached, and the fetch that a refresh joins   *)
(* is never one answered before the rotation, provided that the cooldown   *)
(* exceeds the timeout, as it does by default.                             *)
JetonCourantAccepte ==
    Cooldown > Delai =>
        \A v \in Verifications :
            verification[v].etape = "refuse" /\ verification[v].jeton = clef =>
                ~verification[v].connue /\ verification[v].motif \in {"cooldown", "panne"}
=============================================================================
