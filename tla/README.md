# Core Kernel: TLA+ models, model checking and proofs

This directory holds TLA+ models of the GSG Core Kernel (`src/`, a NestJS
service over Postgres and Redis), the TLC configurations that check them on
small instances, and proofs that TLAPS checks for every instance. Definitions
keep the names of the methods they translate; `PROJECT.json` gives, for each
one, the file and lines it stands for.

To check a model: `tlc -config MCNoyau.cfg MCNoyau`. To check proofs:
`tlapm M.tla` for `M` each of `OutboxRelayProofs`, `RequestTransactionProofs`,
`AuditConsumerProofs`, `SessionProofs`, `EventPipelineProofs`,
`VilleCounterProofs`, `NoyauProofs` (about twelve minutes) and
`NoyauTypesProofs` (about six; one or two for each of the others).

## 1. The system

| Component | State | Operations | What is hard | What makes it correct | Module |
|---|---|---|---|---|---|
| Request transaction (`common/interceptors`, `TransactionalRepository`, `TypeOrmTransactionManager`) | one Postgres transaction per write request, the pool | begin, the use-case's saves, publish, the un-awaited audit INSERT, commit, rollback | an error swallowed inside a transaction that Postgres has aborted; a call nobody awaits | mutation and event committed together; a rejected request leaves nothing; connections always come back | `RequestTransaction` |
| Transactional outbox (`common/kernel-infrastructure/outbox`) | `evenement_outbox`: `statut`, `tentatives`, `creeLe` | insert, `runCycle`, `relayOne`, `markPublished`, `markFailedAttempt`, `sweepPermanentFailures`, stop | several instances without locks, failures between the XADD and the UPDATE, a sweep during a cycle | at-least-once, no event before its commit, bounded duplicates, no starvation | `OutboxRelay` |
| Audit consumer (`audit/`) | Redis consumer group, `audit_evenement`, `evenement_en_echec` | read loop, claim cycles, dead-letter archive, replay | check-then-insert races, stale delivery counts, overlapping cycles, crashes, an archive that fails | one line per event, no silent loss, bounded deliveries | `AuditConsumer` |
| Ville counter (`referential-engine/infrastructure/messaging`) | `compteur_villes_rattachees`, its own group | decrement, increment, acknowledge | a handler of three calls that is not idempotent, copies from the relay, one read loop per instance | exact when undisturbed and in order; shortage bounded by the disturbances | `VilleCounter` |
| Identity: sessions, MFA (`identity/`) | `utilisateur`, `facteur_mfa`, `jeton_rafraichissement` | login, SSO exchange, verification, enrolment, refresh, profile | rows written back from a copy read earlier; saves undone by the error that follows | one usable token per lineage, single-use codes, coherent `mfaActive` | `Session` |
| Identity: registration, roles, external identities | users, mappings, role assignments | register, resolve-or-create, link, assign | first logins that overlap, deduplication without lock | one account per identity, email and phone | `ComptesIdentites` |
| Identity: Supabase key cache | cached keys, fetch in flight, cooldown | verify, forced refresh, fallback | single flight, a fetch older than the rotation it is meant to see | the current key is refused only when it cannot be had | `CacheJwks` |
| Nodes, levels, villes (`referential-engine/`, `referential/` villes) | parent and materialised path, governance status | create, submit, validate, publish, reattach, deactivate, attach a ville | guards on a lagging counter and unlocked children; paths of a moved branch | path = ancestors; nothing hangs from a node withdrawn | `NoeudsHierarchiques` |
| Rules and versioned corpora | rules of terminal nodes, versions, element tree | create, update, publish, archive, reattach | cycle check by read-then-write | a tree within one corpus | `NoeudsHierarchiques`, `CorpusVersionnes` |
| Organisations (`org/`) | tree, units, subscriptions | create, reattach, deactivate, subscribe, suspend, terminate | two reattachments, each acyclic | a forest; one living subscription per product | `Organisations` |
| Product registry (`product-registry/`) | products, deployments | create, activate, set a deployment's status | upsert by read-then-write | one row per product and country | `ProduitsPortefeuille` |
| Referential data (`referential/`) | countries, currencies, languages, blocs, dated relations, rates, locales | the editorial workflow, main currency, rates, default locale | "exactly one" rules by read-then-write | one main currency in force; a default locale | `Referentiels` |
| Product catalogue (`product/`) | catalogues, offers, entitlements, tariff grids | publication workflow, versions, price lookup | grids whose periods overlap, a currency that stops being certified | one price at a date | `CatalogueProduits` |
| App config (`app-config/`) | one global row | update, resolve by inheritance | absent values at any level | the nearest level wins | `AppConfig` |
| Controllers | none | the writing routes | - | - | perimeters of `Noyau` |
| Guards, filters, value objects, DTOs, configuration | none | checks of one request | - | - | not modelled |

How they interact: a write request runs in one transaction
(`TransactionInterceptor`) in which the use-case reads the rows it needs,
consults other contexts through lookup ports (a catalogue asks for an active
product and organisation, a grid for a certified currency, a ville for a
published node), saves its rows and inserts its event in `evenement_outbox`. The
relay of each instance polls that table and adds the rows to one Redis stream.
Two consumer groups read the stream: the audit consumer writes the audit trail,
and the ville consumer maintains the counter that `referential-engine` consults
before it moves or deactivates a node. Identity runs under the same interceptor,
which is why an error undoes what its use-cases had saved.

## 2. The modules

### The event pipeline

**`RequestTransaction`** models one write request from BEGIN to the end. A
request has a `phase`; `ecritures` is what its open transaction has written and
`base` what the database has committed of it. The rows of all use-cases are
abstracted to a business row, an event row and an audit row. `avortee` is the
server's rule: after a failed statement, COMMIT succeeds and rolls back.
`publishEchoue` is the catch block of `OutboxEventPublisherService.publish`;
`auditAvantCommit` / `auditApresCommit` are the two places where the INSERT that
`AuditInterceptor` does not await may land. `arret` is a process stop.

**`OutboxRelay`** models the relay of several instances. A row is known by its
event. `lot[r]` is the rest of the batch of instance `r`; `aMarquer[r]` and
`aCompter[r]` are the two awaits inside `relayOne` (before `markPublished`,
before `markFailedAttempt`). `Poison` holds the events whose XADD is always
refused. `creeLe` is set before the commit by the clock of the instance, so it
is chosen freely in `Init`. A failed call may or may not have been applied.

**`AuditConsumer`** models the consumer group of the audit. A stream entry is
its position. The workers are, for each instance, the read loop and several
claim cycles (`setInterval` starts one without waiting for the other). `lot`,
`trop` and `etape` are the variables a worker keeps across its awaits: the
entries still to handle, those whose count was over the limit *when it was
read*, and the await the next entry has reached. `replay` / `replayCommit` are an
operator's replay of a dead letter, in its own transaction. `Illisibles` are
events whose handler always throws; `SansId` are events the tables refuse.
`claimIdleMs` is the set `idle`: any pending entry may become idle at any time.

**`EventLedger`** is the abstract specification of the bus: engaged, broadcast,
audited once, archived, never forgotten. **`EventPipeline`** composes
`OutboxRelay` and `AuditConsumer` over the shared `stream` and maps their
tables to the ledger.

**`VilleCounter`** models `CreateVille` / `MoveVille` (a move reads the old node
and commits later, without lock), the relay as a channel, and the group that
updates the counter. The channel may add a younger event first and may add an
event again, as `OutboxRelay` shows it can. Each instance registers a consumer
name of its own, so each has its read loop, and claim cycles besides.
`perturbations` counts what may disturb the count: a failed call, a copy of an
event, an interrupted worker, an entry claimed while it is being handled, a move
of a ville that another move has overtaken. `desordre` records that an event has
overtaken an older one, in the relay or between two instances; no failure is
needed for that, and it is not bounded.

### The business contexts

**`UniteDeTravail`** is what their use-cases have in common. A table is a
function from ids to sets of at most one row. A request takes three steps, which
those of other requests may separate:

1. the use-case reads, checks its guards and changes a copy of a row in memory
   (`Traiter`, called by one operator per use-case);
2. TypeORM's `save` reads the row again and writes the columns in which the copy
   differs (`save`, `Modifiees`);
3. COMMIT (`Terminer`, `Valider`): the written columns become visible
   (`Apres`, `Fusion`), the unique constraints are checked, and the event goes
   to the Outbox (`emission`).

The transactions are READ COMMITTED, no row is locked and none has a version, so
a guard may be stale at the commit. `recouvrement` records that it could be: a
request has committed after another one changed rows since it read them.
Properties that the code cannot keep under such an overlap say `~recouvrement`;
what a unique constraint or a single save guarantees is stated without it.

- **`NoeudsHierarchiques`**: levels, nodes (`parent`, `chemin`, `rang`), their
  workflow, KER-ADM-04 before a move or a deactivation (`Deplacable`), rules,
  and villes. `compteur` is the count as the engine sees it: `Compter` is any step
  of the interface **`CompteurVilles`** (one ville in or out of one node, never
  below zero), early, late, twice or never, and `retard` records a guard that
  read a wrong count.
  `deplace` records what has been moved (leaves, or branches).
- **`CorpusVersionnes`**: versions (`brouillon`, `publie`, `archive`) and their
  elements; the cycle check reads the whole corpus.
- **`Organisations`** over **`ProduitsPortefeuille`**: the tree with
  `isDescendantOf`, units, subscriptions; the registry and its deployments.
- **`Referentiels`**: the four kinds of governed rows (`fiches`), the dated
  relations, the change of main currency, which ends the one in force, rates,
  locales, translations. `findPrincipaleActive`
  counts the last day of a relation as the code's query does. `desordre` records a
  main currency attached with a date that is not after those before it.
- **`AppConfig`**: the global row, `resolveChamp`, `resolveLocale` and
  `resolveAppConfig` as operators over the current tables. `resolveChamp` is the
  loop over the levels, a recursive function of the position.
- **`CatalogueProduits`**: catalogues, products, offers, entitlements, and grids
  with their versions, `findOverlapping` and `resolveActivePrice`.
- **`ComptesIdentites`**: registration, the first login through the Supabase
  bridge (deduplicated by email, then phone, and written together with the
  mapping), linking, role assignment.
- **`CacheJwks`**: one verification is a call that goes through `getKeys`, a
  try, a forced refresh and a last try. A fetch in flight is shared
  (`inFlight`); `repondre` is the moment Supabase answers and `recevoir` the
  moment the answer arrives, so that a rotation may fall in between. `echouer`
  covers errors, malformed answers and the timeout.

**`CycleDeVie`** is the abstract specification of everything that has a
workflow: an object is created in its first state, moves along its arrows, one
object per step, and the moves other products must know of are announced by that
step and no other. **`Noyau`** composes all the contexts over one database and
maps nine of its tables to `CycleDeVie`. Each behaviour exercises one perimeter:
a group of use-cases that share rows. The perimeter is chosen in `Init`, and the
database starts with the rows of `Demarrage`: a chain of nodes `n1`-`n2` in
country `p1` (with `n3` below `n2` in two perimeters: all drafts where any node
moves, all published where nodes are moved, deactivated and reactivated under
KER-ADM-04), a root `n4` in `p2`, one active product, organisation and account,
a draft corpus (two where elements are created and reattached), a published
catalogue, article and offer, published country, currency and language, a second
currency still to be published, and a default locale. Those are rows that the
use-cases themselves can produce. `VilleCounter` is composed through the
interface: it implements `CompteurVilles`, and the guards of the nodes are
checked under any behaviour of that interface, the wrong counts of
`ville_converge` included.

**`Session`** models one account. A request reads its rows, compares its copies
with the rows when it saves, then commits, as above. Rejected requests are
rolled back and have no action, except the replayed refresh token (`rejeu`).
Failed logins are such requests: their counter is undone with them, so it stays
at 0.

The `MC*` modules add symmetry sets and the values of structured constants only.

## 3. What the runs check

`outbox_relay` (3 events of which two are poison, 2 instances, batches of 2, 2
retries, at most 2 attempts counted, 2 dates, 1 fault, fair scheduling) -
`PublieDansFlux`: a row is crossed off only if its event is in the stream;
`CopiesBornees`: the copies of an event never exceed one per instance and one
per fault; `PublieFinal`: no sweep and no second instance takes back a published
row; `AucuneLigneBloquee`: every pending row is published or given up, even when
the poison rows fill a whole batch ahead of it. Two instances and a batch of two
are enough for a cycle to hold a row another one has marked, and for the sweep to
run in between.

`audit_consumer` (2 entries over 3 events, 1 instance with 2 overlapping claim
cycles, 1 operator, limit 1, 1 fault) - `AuditUnique`; `PertesComptees`: an
unaudited entry leaves the group only with an archive, or through a failed
archive; `ArchiveApresEssais`; `ReprisesBornees`: cycles that decide on stale
counts add a bounded number of deliveries and of archives; `RejoueAudite`. One
instance with two cycles and a read loop already gives three concurrent workers;
a second instance adds no step that a third worker does not have.

`audit_live` - `ToujoursTraitee`: every entry added after the group's creation
ends up acknowledged with its event audited or archived, in spite of a crash or
failed call; the one exception is an archive that failed.

`request_transaction` (3 requests, 2 connections, 2 faults) - `Atomicite`,
`RejetSansTrace`, `AuditDeMutation`, and `TouteRequeteFinit`: with fewer
connections than requests, all of them end.

`ville_counter` (1 ville and 1 node, 1 move in progress, up to 4 events in the
stream, 2 instances of which one has a claim cycle, batches of 2, 1 perturbation;
3 661 934 distinct states) - `CompteExactOuCourt`: when all is handled, the node is
counted short by at most one ville per perturbation, in whatever order the two
instances handle the events, and exactly if nothing disturbed the counter and no
event overtook another. Without failure the counter may still be too high: the
decrement of a younger event meets a counter that the older one has not yet
incremented, and `GREATEST` drops it. That is why the exact half excludes
`desordre`, and why too high has no bound. Four events let a ville be created,
moved away and moved back while the event of its leaving is added twice, which is
how a copy makes a node short. Several villes and nodes, overlapping moves of one ville and several
perturbations are covered by the proof.

`event_pipeline` (2 events of which one is unreadable, 3 entries, 1 fault of the
relay) - `ImplementsLedger`: relay and consumer implement the ledger, duplicates
included; `BoutEnBout`: once the group exists a committed event ends up audited,
archived, or given up where operators see it. The failures of the consumer are
those of `audit_consumer` and `audit_live`; here they are turned off to keep the
product small, and crashes and failed calls of the relay stay.

`session` (2 requests, 3 tokens, 2 factors, 2 codes) - `RotationSansFourche`: one
usable token per lineage, and one more only for two refreshes of the same token
that overlap; `CodesUsageUnique`: a recovery code comes back or serves twice only
when a stale list is written back; `MfaCoherente`: the second factor is demanded
only of an account that has one, and is not dropped unless a request read the
account before the activation and wrote it back after. Three tokens allow a fork
and two sessions; two requests allow every overlap of two. `MaxRelectures`
bounds the activations that write back a stale list.

`noyau` (every writing use-case of the seven business contexts, 2 concurrent
requests, 29 perimeters; 377 776 distinct states) checks, besides the types:

- `CheminFidele`: path, rank and country follow the parent's, as long as only
  leaves have been moved. `CycleParCheminPerime`: no move puts a node below
  itself, with the same condition. A move rewrites the path of the moved node
  only, so after the move of a branch the paths below it are out of date, the
  cycle check by paths reads them, and it can accept a cycle. The repository
  records the limit (`noeud-hierarchique.entity.ts`, `reattachToParent`); the
  two properties say exactly what survives it.
- `VilleSurNoeudActif` and `BrancheProtegee` (KER-ADM-04): villes hang from
  active, published nodes unless requests overlapped or a guard trusted a wrong
  count (`retard`), whatever the consumer counts; a node with a published, active child is neither moved nor
  deactivated unless requests overlapped. The nodes `n2` and `n3` of a published
  chain are moved, deactivated and reactivated, so that `n2` has a published
  child, active or not, when it is to be moved.
- `ElementsEnArbre`, `FiliationSansCycle`: elements and organisations stay
  forests unless requests overlapped; an element and its parent share a corpus
  whatever overlaps (elements are created and reattached in two corpora).
- `AbonnementUnique`: one living subscription per organisation and product, as
  long as none of the pair has been terminated: `findOne` has no order and may
  then return the terminated row, hiding the living one.
- `DevisePrincipaleUnique`: two main currencies of a country are active at one
  date only if one ends and the other begins on it, unless one was attached out
  of date order or requests overlapped; active is what `findPrincipaleActive`
  finds, the last day included. `DefautConserve`: a default locale never
  disappears unless requests overlapped.
- `PrixUnique`: versions of an offer's grids without gap or double whatever
  overlaps; one price per offer, currency and date, and only certified
  currencies, unless requests overlapped.
- `HeritageStrict`: the resolved configuration against a definition that looks
  for the first level that sets the field, country included, over every reachable
  table; the locale is active, and of the resolved language if that language has
  an active one of its own.
- `CompteUnique`: overlapping first logins leave no account without an identity,
  no mapping to a missing account, no shared email or phone.
- `JetonCourantAccepte` (2 calls, 1 rotation, clock up to 3): a token signed with
  the current key is refused only by an instance that does not have that key and
  whose fetch failed or whose refresh is in its cooldown.
- `ImplementsCycle`: all nine tables implement `CycleDeVie` as long as no request
  has overlapped another.

Bounds of `noyau`: two requests are what one stale read needs, and no request
begins once two have overlapped, because from there on the properties with
`~recouvrement` say nothing and the others are about the commit of those two; in
the perimeter of moves, the move of a branch is the last one (`CheminFidele` says
nothing afterwards). `MaxChemin` 3 is the longest path of the nodes at hand and
also reaches the refusal by the column's width. `MaxCompte` 1 is the count of the
one ville there is, or one too many; only the node that has villes where a guard
reads counts is counted. Perimeters keep unrelated
use-cases out of one behaviour: requests that touch no common row commute.
Requests are symmetric. `CHECK_DEADLOCK FALSE` is set where a bounded system really stops
(here, in the runs of the audit consumer, the pipeline, the request transactions
and the counter): all ids are used, all requests have ended, everything has been
handled.

Four runs show where the code departs from what the repository says of it
(`PROJECT.json`, `findings`, quotes the lines):

- `audit_perte`: the `finally` block acknowledges an entry whose archive failed,
  so the event is neither audited nor kept.
- `request_publication`: a failed outbox INSERT is only logged, but it has
  aborted the transaction: the client gets a success for a mutation that is lost.
- `ville_converge`: one failed call before the XACK makes the redelivery count
  the ville twice, and nothing corrects it.
- `session_famille`: `revokeFamily` is rolled back by the error thrown next.

Divergences met without a run of their own. An outage of `maxRetries` polls
gives every waiting row up (`echec`), where the publisher's comment promises that
events wait for Redis: `BoutEnBout` counts `echec` among its outcomes for that
reason. The failed-login counter is rolled back like the family's revocation, so
five failures do not lock an account. And `JetonCourantAccepte` needs the
cooldown of forced refreshes to exceed the timeout of a fetch: the defaults do
(10 s and 4 s), but the two values are read from the environment separately and
nothing compares them. The comment of `AttachDeviseToPaysUseCase`
(`devise.use-cases.ts:97-103`) says that a country never has two active main
currencies: on the day of a change it has two, since the one that ends is closed
at the date on which the other begins and the look-up counts that day for both;
and a relation dated before those already recorded leaves two for good. Finally,
`ville_converge` needs a failure, but two instances are enough to leave the
counter too high.

## 4. Fairness

Weak fairness only, on what the code schedules by itself: `setInterval` keeps
calling `runCycle`, `sweepPermanentFailures` and `runClaimCycle`; the read loop
polls for ever; an awaited call settles, with success or an error (`RelayStep`,
`WorkerStep`, `Etape` are fair as a disjunction, so the environment may choose
the error as long as its budget lasts); time passes (`Vieillir`). Nothing is
assumed of clients or operators: `insert`, `xadd`, `replay` are not fair. The
pool gives a connection to every waiting request (`begin`): `pg-pool` serves its
waiters in order. `Noyau` has no liveness property: nothing obliges a client to
call, and a request in progress ends by the argument of `TouteRequeteFinit`.

## 5. What is proved

`OutboxRelayProofs` proves, for every finite set of events and instances, every
batch size, number of retries and of faults, under `RelayAssumption` only:

- `TypeCorrect`: `Spec => []TypeOK`.
- `RelaisSur`: `PublieDansFlux`, `FluxDepuisOutbox` and `EchecApresTentatives` are
  invariants. None is inductive alone: `markPublished` preserves `PublieDansFlux`
  only because the row in `aMarquer` was added to the stream, and `relayOne`
  preserves `FluxDepuisOutbox` only because batches hold committed rows. The
  inductive invariant `InvRelais` adds `InvAppels(r)`, which says so, together
  with the fact that a relay has at most one call in flight and that it concerns
  a row of its batch. `StreamStep` (a step only appends to the stream) carries
  the argument from one step to the next.
- `PublicationFinale`: `Spec => PublieFinal`. Only the sweep may write another
  status, and it reads `en_attente`.
- `DoublonsBornes`: `Spec => []CopiesBornees`, by the accounting invariant
  `InvCopies`: `Copies(e) + Cardinality(Peut(e)) <= Cardinality(Relays) + fautes`,
  where `Peut(e)` is the set of instances that may still add a copy without a
  fault. Adding a copy takes the instance out of `Peut(e)`; only a fault puts it
  back. `CopiesAppend` and `CompteDesCopies` are the lemmas on cardinalities.

`RequestTransactionProofs` proves, for every finite set of requests, every pool
and number of failures, under `RequeteAssumption`:

- `TypeCorrect`: `Spec => []TypeOK`, which includes that no connection returns to
  the pool with an aborted transaction.
- `TransactionSure`: `Spec => []Atomicite`, and `AuditFonde`:
  `Spec => []AuditDeMutation`. Both speak of committed rows only; the inductive
  invariant `InvRequetes` says what the open transaction holds at each phase as
  long as it is not aborted, that nothing of a request is committed before it
  ends, and why a transaction under a resolved handler was aborted.
- `RejetAnnule`: `Spec => RejetSansTrace`, from the same invariant.

`AuditConsumerProofs` proves every invariant of the audit consumer that the runs
check, for all finite sets of instances, cycles and operators, all events, limits
and numbers of failures, under `ConsumerAssumption`:

- `TypeCorrect`: `Spec => []TypeOK`, from `Types`, which adds the finiteness of
  the dead-letter table.
- `AuditUniqueCorrect`, `ArchiveApresEssaisCorrect`, `RejoueAuditeCorrect`: they
  need `Inv`. `Poste(w)` says what a worker may rely on at the await it has
  reached: an entry is acknowledged only once its event is audited, an entry of
  `trop` has a count over the limit even if that count was read long ago (counts
  never decrease, `Croissance`), and one at `dlq_xack` has its archive.
  `InvRejeu` says the same of a replay that found its event already audited.
- `PertesCompteesCorrect`: the accounting invariant `InvPertes` is
  `Cardinality(Perdues) + Cardinality(Condamnes) <= fautesArchive`, where
  `Condamnes` are the workers in the `finally` block behind a failed archive: the
  failure is paid when the archive fails, the loss appears at the XACK.
- `ReprisesBorneesCorrect`: `InvReprises` bounds the deliveries of an entry plus
  the cycles that may still deliver it (`Encours`); `InvLignes` bounds its
  archives plus the cycles that may still archive it (`Archivables`), with the
  credit that each failure gives back.

`SessionProofs` proves every invariant of `Session` that the runs check, under
`SessionAssumption`:

- `TypeCorrect`: `Spec => []TypeOK`, from `Types`.
- `RotationSansFourcheCorrect`: a rotation of a token that another one consumed
  adds a usable token and a `fourches`; any other one trades a token for one.
- `MfaCoherenteCorrect`: `InvMfa` adds, for each request in progress, what it
  will write of `mfaActive` (`ReqMfa`): a column set to true is written only by a
  request whose own activation, or an earlier one, is saved.
- `CodesUsageUniqueCorrect`: `InvCodes` keeps for each code the account `Bilan`:
  its uses, plus one if it can still serve, never exceed one plus the stale
  lists written back. `ReqCodes` says that a request which no commit has
  overtaken holds the list of the row.

`EventPipelineProofs` proves the refinement of the bus:

- `PipelineImplementsLedger`: `Spec => ImplementsLedger`. `InvPipeline` says that
  a relay holds committed events only, and that whatever names an entry (batches,
  pending list, archives, replays) names one that was added to the stream, so
  that appending to the stream does not change what the rest means. Each handler
  is then one step of the ledger or a stutter: a duplicate XADD, a second
  INSERT refused by the constraint, an archive of an event already archived.
- `AucunFantome`: `Spec => []Livre`, obtained through the ledger: an event is
  audited once at most, what is audited or archived was on the bus, what is on
  the bus was committed.

`VilleCounterProofs` proves both invariants of the counter of attached villes, and
what the nodes assume of it, under `VilleAssumption`:

- `TypeCorrect`: `Spec => []TypeOK`.
- `CompteExactOuCourtCorrect`: `Spec => []CompteExactOuCourt`. The error of a
  node's counter is split at the journal (`flux` followed by `outbox`): `Amont(n)`
  compares the villes of the node with the events that join and leave it, and
  `Aval(n)` the events handled so far, or half handled by a worker, with the
  counter. `InvBorne` is `Amont(n) + Aval(n) + Surplus <= perturbations`, where
  `Surplus` counts the holders of a pending entry beyond the one that handles it:
  each may subtract the event once more. None of it depends on the order of the events,
nor on how many workers there are. A step raises one of the terms only by
  raising `perturbations` as much (`EcartStep`); a second holder that finds its
  entry already acknowledged moves one unit from `Surplus` to `Aval`. When all is
  handled `Surplus` is zero and the two other terms are the error (`EcartFinal`).
- The exact half of `CompteExactOuCourt` needs `InvExact`: undisturbed and with
  nothing overtaken (`~desordre`), no entry is held twice and the events half
  handled are the oldest pending ones (`Ordre`), so the instances handle in the
  order of the stream, and an event leaves
  a node only if the events before it joined it more often than they left it
  (`Fonde`), so that no subtraction meets an empty counter and `GREATEST` drops
  nothing.
- `ImplementeCompteur`: `Spec => ImplementsCompteur`, the refinement of
  `CompteurVilles`, which is what `NoeudsHierarchiques` assumes of its counter. The
  event of a move takes two of its steps; a decrement at zero is a stutter.

`NoyauProofs` proves twelve properties of the business contexts, for every set of
requests and rows, under the assumptions of the modules that declare the
constants (`NoyauAssumption`, `NoeudAssumption`, `CorpusAssumption`,
`OrgAssumption`, `ReferentielAssumption`, `IdentiteAssumption`, `AnnoncesAssumption`):
`Nul` is neither an id nor a type of event, the ids that a climb or a count
ranges over are finite, and the rows of `Demarrage` are distinct. The perimeters
and their choice play no part: a proof goes through every use-case.

The argument is the same for each table. What a use-case checked is true of the
row it will write *in the state it read*; `Suivi(requete, nom, t, A, B)` says that
every write in progress to table `nom` is in `A`, and in `B` as well when its
request has not been overtaken (`depasse`) and its copy still is the row
(`AJour`). A commit that changes the table sets `depasse` for the others, a
commit by a request that was overtaken sets `recouvrement` (or a constraint
refuses it), so as long as `~recouvrement` the write that commits is in `B`, which
says that the table stays good once it is applied. `PasDe`, `Acte` and
`Ailleurs` reduce the hundred or so actions of `Noyau` to "a request begins with
these writes", "saves", "commits", "is refused", "touches another table".
`TableSuivie` packages it for a set `G` of good tables: `t \in G` and every write
in progress leads into `G`. On top of that:

- `FiliationSansCycleCorrect`, `ElementsEnArbreCorrect`: no cycle. The code climbs
  from parent to parent and stops after as many steps as there are rows.
  `LigneeClose` shows that such a climb has reached everything it ever would
  (from finiteness, by a minimal counterexample, `PlusPetit`); `SansBoucle` of the
  table with the new parent then follows from the check of the use-case.
- `AbonnementUniqueCorrect`: the good tables are those in which a pair none of
  whose rows is terminated has one row.
- `CompteUniqueCorrect`: no `~recouvrement`; the account and the mapping of a
  first login are writes of one transaction (`LotComptes`: each has the other
  beside it or in the table), and the unique constraints decide at the commit.
- `CheminFideleCorrect`, `CycleParCheminPerimeCorrect`, `BrancheProtegeeCorrect`:
  one invariant, `InvNoeuds`, in three parts. Whatever overlaps, the rows are
  rows. Without overlap, no write in progress exposes a published active child
  (`Protegees`). As long as only leaves move, every row has the path of its
  parent plus itself, every write keeps it so (`CheminsBons`), a write that is
  not a move keeps the place of the node (`SansDeplacement`), and the test "my
  path is a prefix of the target's" finds every cycle because the ascendants of
  a node are those of its path (`SansCycle`).
- `VilleSurNoeudActifCorrect`: `InvVilles` relates two tables. Writes to villes
  name admitted nodes (`Admises`) and writes to nodes that have villes leave them
  admitted (`Hospitalieres`): a commit to either table must preserve the promise
  of the writes in progress to the other one.
- `PrixUniqueCorrect`: `InvVersions` needs no `~recouvrement`: a request numbers
  its grid after the ones it has seen, and of two requests that took the same
  number the constraint refuses one, so versions stay `1..n`. `InvTarif` adds that
  writes to currencies take no certification back (`Certifiant`) and that
  published grids of an offer in one currency are disjoint in time, in certified
  currencies (`GrillesBonnes`).
- `DefautConserveCorrect`, `DevisePrincipaleUniqueCorrect`: two use-cases write two
  rows in one transaction (the locale that loses the default and the one that gets
  it; the currency that ends and the one that begins), and neither write alone
  keeps the table good. `LotsSuivis(requete, nom, t, ids, G)` therefore speaks of
  the table with all the writes of a request applied (`Applique`), which must be in
  `G` for every request that has not been overtaken; `LotValider` shows that the
  commit produces that table. For the locales `G` is "a default if there was one";
  for the currencies it is `CoursUniques`, of any two one is over when the other
  begins (`Succede`), and the lot is good because everything that was active at
  the new date is over by then (`CoursAcheve`, `CoursNouveau`) as long as the dates
  come in order (`~desordre`). Two relations of which one is over when the other
  begins share at most the day of the change.
- `ImplementsCycleCorrect`: `Spec => ImplementsCycle`, the refinement of
  `CycleDeVie` by the nine tables together. `InvCycle` is what a step needs: the
  row of an object has one state of its workflow, and a write in progress that
  has not been overtaken is a `Coup` on the row as it now is (it creates the
  object in its initial state, keeps the state, or moves it along one arrow and
  carries an event of `Annonces` exactly when the abstract state is `Notoire`);
  a write to any other table carries none. `CycleUneEcriture` shows that a request
  writes one object of the cycle at most, so its commit is one `Creer`, `Avancer` or
  `Silence` (`PasCoup`); the commit of a request that was overtaken sets
  `recouvrement`, which is `Perturber`. Every other step, a read, a save or a
  refusal, leaves the nine tables alone and announces nothing.

`NoyauTypesProofs` proves the types of the twenty-eight tables, what the cache of
keys promises and the answers of the resolution of the configuration, under the
same assumptions, `CatalogueAssumption` (the grids are finitely many),
`JwksAssumption` and `AppelantAssumption` (a caller sets three levels):

- `NoyauTypeOKCorrect`: `Spec => []NoyauTypeOK`. A table holds what requests have
  written, so `InvTypes` adds that each write in progress is in the `Espace` of its
  table, an id and a row, from the read on; the rows are closed under the merge of
  columns that a commit does (`Colonnes`), so a copy that went stale does no harm.
  The version of a grid is bounded because it counts the grids of its offer, which
  takes `InvVersions`.
- `JetonAccepte`: `JwksSpec => []JetonCourantAccepte`, with `JwksTypeCorrect` for its
  types. The inductive invariant `JwksInv` conjoins the types with `Horaires` (a
  fetch in flight lasts at most `Delai`, and was forced or is due to an expired
  cache), `Ages` (the cache and an answer hold one key each, an answer is not older
  than the cache, none is newer than the project's key) and `Appels` (what a call
  knows at each of its steps). The hard case is a forced refresh that joins a fetch
  answered before the rotation: that fetch was then itself a forced one, begun less
  than `Delai` ago, and the cooldown forbids to force another. Without the cooldown
  exceeding the timeout the argument fails, and so does the property. The lemmas
  `AppelVerify` to `AppelEchouer` treat one handler each.
- `JetonCourantAccepteCorrect`: the same of `Noyau`, whose steps are steps of the
  cache or leave it alone (`ImplementeJwks`).
- `ResolvePremier`: over a chain of any length, `resolveChamp` returns what the
  first level that sets the field sets, and `Nul` if there is none. That the
  recursive function of the loop exists is `ParcoursExiste` (the closed form
  satisfies the equation of the loop); its value is carried from the first level
  that is set down to position 1 by a minimal counterexample.
- `HeritageStrictCorrect`: `Spec => []HeritageStrict`. It is a property of the
  resolution alone: it holds in every state, whatever the rows, so that no
  invariant of the tables is needed. What it rests on is `ResolvePremier` for a
  chain of five levels and, for the locale, that each of the three steps asks for
  an active row and that a language with an active locale of its own never falls
  through to the default one (`LocaleChoisie`, from `Nul \notin Locales`).

Every invariant and action property that a run expects to hold is proved. Only
model-checked are the liveness properties (`AucuneLigneBloquee`, `ToujoursTraitee`,
`TouteRequeteFinit`, `BoutEnBout`): liveness under fairness is beyond the proof
system used here.

## 6. What is not modelled, and the plan

- Redis is taken to keep its data; the loss of the stream or of the group is
  left out (`hazards` lists the line: after it, the read loop fails until a
  restart).
- Guards, DTO validation, filters, value objects: stateless checks of one
  request. Payloads, labels, redaction, the audit trail's query and its scope
  check, the lookup of an exchange rate: reads and data. Access tokens and expiry
  of refresh tokens: no row changes when time passes.
- Configuration and bootstrap: read once; the values are CONSTANTS.

Next, in this order: the loss of the stream and of its groups, in `AuditConsumer`;
the scope check of the audit trail; the five reads of the resolution of the
configuration as five steps.
