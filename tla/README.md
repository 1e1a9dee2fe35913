# A verification development for ThalassaOps

ThalassaOps is a local-first operations desktop application: a Tauri shell, a
React interface, and a Rust core that keeps its state in one SQLite file and its
credentials in the keychain of the operating system.  This directory holds TLA+
modules translated from that code, TLC configurations that check them on small
instances, and TLAPS proofs of the properties that matter most.  Paths below are
relative to the repository's `src-tauri/src/` unless they begin with `crates/`,
`ui/` or `docs/`; `PROJECT.json` maps every definition to the lines it stands for.

## 1. Inventory

| Component | State it keeps | Operations | Talks to |
| --- | --- | --- | --- |
| Incident aggregate (`crates/thalassa-domain`) | none; a value: version, status, severities, disposition, roles | create, transition, set severity, dispose, assign roles, comment | called by the service |
| Incident store and service (`incident/`) | rows, roles, timeline events in SQLite | six writes, get, list, timeline, replay lookup | one connection per command |
| Incident workspace (`ui/src/incident/`) | selection, pages, tickets, marks of calls under way | select, load more, reload, act, comment | the commands, by IPC |
| AI gateway and commands (`crates/thalassa-ai`, `app/ai.rs`, `ai/store.rs`) | cancellation tokens, audit tables | complete with failover, cancel, read the usage window, record | providers, policy |
| AI providers (`ai/config.rs`) | providers and their order, in memory | configure, order, probe, remove | keychain |
| Connectors (`connectors.rs`, `app/connectors.rs`) | rows and test logs | add, enable, remove, test; reads of cloud, observability and Kubernetes go through them | keychain, policy |
| Application state (`app/mod.rs`) | migrations, the first launch's documents, the policy document | open | every command |
| Authorization and policy (`thalassa-ipc`, `thalassa-policy`) | immutable once loaded | authorize, evaluate egress | every command |
| Source ledger (`correlation/source_records.rs`, `change/records.rs`) | source records and their evidence in SQLite | open and load, retain, persist | correlation, change, incident triggers |
| Correlation (`correlation/`) | none between commands but the window handed in | adapters, windows, identity, grouping, suppression, snapshot | ledger, topology |
| Topology (`topology/`) | none | derivation, ownership, walks, filters, snapshot | sources, correlation |
| Change intelligence (`change/`) | change rows of the ledger | admit, normalize, timeline, associate, evidence | ledger, correlation |
| Operations console (`operations/`) | none that outlives a command | health checks, anomaly rules, statuses, summary, evidence | sources |

### What is hard here

* **Overlap.**  Every command opens its own connection.  Two windows, two
  processes or a command inside another one meet in SQLite, and most reads are
  made outside the transaction that later writes.
* **Two stores without a common transaction.**  A credential and the row that
  refers to it are written one after the other.
* **Awaited calls.**  Tests, probes and completions read state, wait for the
  network and write what they read back.
* **Delivery.**  A client whose answer was lost repeats its request, under the
  same identifier; identifiers are also reused with other content.  In the
  window answers arrive after the selection has moved on.
* **Stops.**  A process ends between two steps; a first launch ends half-way.
* **Order.**  Records of several sources contradict each other, and what is
  derived must not depend on which came first.
* **All or nothing.**  One row, signal or record that fails a validation can
  fail a whole snapshot.

### What makes each component correct

* Incidents: no path of accepted commands reaches an inconsistent row, the
  timeline explains the row, and a request takes effect once, or is answered
  by an error that is true.
* Workspace: what is shown belongs to the selected incident, has no gaps, and
  the window ends neither loading nor with a disabled panel (the code falls short
  of the first in one way, see `SelectionLoads`).
* AI: a request identifier runs once at a time, goes to a second provider only
  when that is permitted, and is recorded before it is answered.
* Configuration: no row without its credential, no credential left unnoticed.
* Launch: a launch that is alone succeeds; what it loads belongs together.
* Ledger: it can always be loaded, and references given out stay usable.
* Correlation, topology, change: the answer is what its definition says,
  whatever the order of the evaluations before and, but for paths that contradict
  one another, of the records.
* Console: what is sound is shown, a snapshot fails as a whole in no more than the
  cases that are named, and nothing doubtful counts as health.

The hazards, each at its line, are in `PROJECT.json` with the properties that
would catch them.

## 2. Modules

| Modules | What they model |
| --- | --- |
| `IncidentAggregate` | the aggregate: commands, rows and events, as pure operators |
| `IncidentLog` | the abstract write model: each accepted request takes effect once, in one step |
| `IncidentStore` | service and repository as they run: preflight, torn read, transactions, contention, retries, crashes |
| `IncidentTimelineView`, `IncidentWorkspace` | the timeline hook of one window; the shell around it with queue, commands, conflict reload and comments |
| `Policy` | the policy document and what an egress request is answered |
| `AiGateway`, `AiRequests` | one request's model, provider, budget and failover; concurrent calls with tokens, window, deadline, audit and restart |
| `AiAudit` | what the AI commands promise of their audit |
| `Keychain`, `Connectors`, `Providers`, `Configuration` | the credential store and the state of a command; the two sets of commands over it; both together, with a restart |
| `Authorization`, `Bootstrap` | scopes, roles and the check before every command; launches that overlap on one file |
| `SourceLedger` | the ledger, statement by statement, with overlapping stores |
| `SignalIdentity`, `SignalGrouping`, `SignalAdapters`, `Correlation` | logical identity and suppression; components over targets and topology paths; fixtures to signals; event-time windows, lateness, and evaluation after evaluation of a range |
| `TopologyGraph`, `TopologyWalk`, `Topology` | what each record does to the graph, and owners; bounded walks; one request from records to answer |
| `ChangeRecords`, `ChangeAssociation`, `Change` | one payload through admission and normalization; timeline and associations; the commands over the ledger |
| `ConsoleSignals`, `ConsoleSources`, `Operations` | health checks and anomaly rules; evidence and statuses; one snapshot, record by record |
| `MC...` | request sets, inputs and constant values for TLC |
| `...Proofs` | theorems and their proofs, one module for each part |

`IncidentStore` extends `IncidentLog` and shares its variables `incident` and
`timeline`, so the refinement mapping is the identity and `LogSpec` itself is a
property of the store.  `AiRequests` implements `AiAudit` under the mapping in
its definition `Audit`: the ledger is the audit tables, and a call is new, open,
or ended by content, an error or a stop.  `IncidentWorkspace` extends the hook
and takes from the store what it promises: a committed write appends events and,
unless it is a comment, advances the version; a stale command is refused.
`Configuration` composes `Connectors` and `Providers` over the one `Keychain`;
`Correlation` composes the modules of its row.  Change intelligence takes
candidates and paths as correlation and topology may give them, and the ledger as
a set of records with a busy file; that the ledger itself keeps its rows is
`SourceLedger`.

### State and code

**Incidents.**  `incident[i]` is a row with its active roles, `NoIncident` a missing
one; `createdBy` is `create_request_id` with the fingerprint.  `timeline[i]` maps
`sequence` to event.  `updatedAt` is the column, `clock` what `Utc::now()` reads,
`lock` SQLite's reserved lock.  `pc`, `req`, `snap`, `tries`, `reply` are a
running command.

| Action | Code |
| --- | --- |
| `Deliver`, `DeliverCreate`, `RefuseCreate` | the write commands of `app/incident.rs` up to the service |
| `Begin`, `BeginBusy`, `CommitBusy`, `ReadBusy` | transaction boundaries, `write_lock_error`, `with_sequence_retry` |
| `Preflight` | `replay_if_matching`, `replay_mutation` |
| `LoadRow`, `LoadRoles` | `load_incident`, `hydrate_incident`, the version check and the aggregate's verdict |
| `ApplyMutation`, `AppendComment`, `CreateIncident` | the three write transactions |
| `Crash`, `Tick` | process death, passing time |

**The window.**  `selected`, `view`, `ticket`, `inFlight` are the hook's argument,
its keyed state, `ticketRef` and `inFlightRef`; `mail` holds the requests under way: sent,
answered, landed (`then` or `catch` has run, `finally` not yet).  `listed`,
`override`, `timelineOverride`, `conflict`, `actionRequest`, `actionPending` are
the shell's; `action`, `comment`, `displayed`, `optimistic` the panel's and the
thread's, with the incident they are of, which the code does not record.
`Select`, `FirstFetch`, `LoadMore`, `Reload`, `Serve`, `Drop`, `Land`, `Settle`
are the hook's; `SelectIncident`, `LoadQueue`, the `Start...`, `Serve...` and
`Return...` actions the shell's, the panel's and the thread's promise chains;
`OtherResponder` is everybody else.

**AI requests.**  `tokens` is `ai_cancellations`, `audit` the two tables, `queue` the
selections not yet tried.  `Complete` takes the token, `ReadWindow` reads usage,
`Enter` is `Gateway::complete` up to its loop, `Check` and `Send` one attempt,
`Reply` the provider's answer in time or late, `Unregister` and `Record` the end.
`Cancel` is `ai_cancel`; `Expire` a deadline passing; `Restart` a stop.

**Configuration.** `secrets` is the keychain by reference; `rows` and `logs` the
connectors and their test logs; `providers` and `order` the memory of
`ProviderConfigStore`; `undone` is history: the references and the log entries a
failed or a cut step left. A log is a set, its order that of its stamps. A
connector command is one action per statement (`AddSet`, `AddInsert`, `AddUndo`,
`RemoveRead`, `RemoveDelete`, `RemoveForget`, `TestLoad`, `TestAttempt`,
`TestProbe`, `TestUpdate`, `TestInsert`, `TestTrim`); the reads of cloud,
observability and Kubernetes are `ReadConnector`, `ReadSecret`, `Ask`. A provider
command holds a mutex and is one action, except the probe (`ProbeLoad`,
`ProbeReply`).

**Launches.**  `schema` and `versions` are the migrations whose batch has run and
those recorded, `rows` the first launch's five tables in order of insertion,
`usage` whether the audit's columns were converted.  `Batch`, `Select`, `Insert`
are a migration; `FindPrincipal`, `Create`, `LoadOne` the bootstrap;
`FindPolicy`, `SeedPolicy` the policy; `FindUsage`, `Rebuild` the audit.

**The ledger.**  `rows` maps the identity columns to a row, `evidence` is
`source_record_evidence`, `store[s]` what an open store holds and the statement it
is at.  `Open` and `LoadRows` load; `Retain`, `CheckNative`, `CheckScope`,
`Write`, `PersistBody` admit one record; `Busy` is another connection in the way,
`Close` the end of the command.  `references` and `raced` are history: what was
returned, and whether a store wrote over a row it had not seen.

**Correlation.**  `Evaluate` is one `build_correlation_snapshot` at the present
tick, with the window before it or none; `TakeIn` is a fixture that the catalog
gains meanwhile, and `Tick` passing time.  **Topology**,
**Change** and **Operations** take their records in the order of the code, one
step each, then answer; of a topology what contains what is taken edge by edge as
well (`Holdings`, the two loops of `derive_kubernetes_containment`).  `Change` adds the replay into the ledger, a busy file and
an end of the process between two fixtures.

### Abstractions

Texts, layouts, masking and formatting are left out, or are an injective
naming: identifiers are tuples where the code formats strings.  What a validator
asks of texts, numbers or scope is a flag (`complete`, `wellFormed`, `valid`,
`sound`, `bounded`), and impact is a value with the severity `DeriveSeverity`
gives it.  A digest, a rank of opaque keys and a topology path are values the instance
supplies, also unfavourable ones.  Prices are micros per `Scale` tokens, rounded
up; saturation at 2^64 lies outside every instance.

Assumed of the platform: SQLite's commit and rollback are atomic; in
rollback-journal mode, which the code leaves in place, a committing writer may
meet readers' locks (`CommitBusy`); `ON DELETE CASCADE` works, as in the bundled
SQLite whose foreign keys are on by default; a mutex excludes.  `main.rs` registers
the `ai_*` commands as synchronous ones, which Tauri runs one after the other;
the model takes the methods of `AppState`, which take no exclusive reference, as
callable side by side.

## 3. Runs

Every run passes.  State counts are TLC's distinct states.

| Run | Question | Instance | States |
| --- | --- | --- | --- |
| `IncidentLog` | does a row stay consistent, and explained by its timeline, along every order of commands? | two incidents; 14 requests for a lifecycle with one reopening, or 13 for roles and duplicates with three principals of whom one is no member | 36,930 |
| `IncidentStore` | does the concurrent store implement the log, do its answers tell the truth, does it answer? | two callers, two identifiers to mint and one of another workspace, seven requests over four identifiers of which two are shared, retry budget 3, a clock of two values | 120,316 |
| `TimelineView` | is the mark of a request the current one's, is a last page the last, does a selection load, and if not, why? | two incidents, three events each, pages of one, 5 tickets; a comment on either incident may end with its reload at any time | 360,645 |
| `Workspace` | is a gapless beginning of the selected timeline shown, do late answers touch the wrong incident, does a command end with the panel enabled? | two incidents, two events each, pages of two, 3 tickets, 3 clicks and commands | 662,957 |
| `AiRequests` | does one identifier run once, go on only where permitted, count what was answered, get recorded and answered? | two calls, two providers, two identifiers, eight requests of which five are refused by one check each, three kinds of failure | 166,186 |
| `Configuration` | do rows, credentials, health and order stay together through overlap, failure and restart, and does every command end? | one stored connector, one being added, one provider; three calls with the commands that can meet; a log of one entry, two attempts | 186,889 |
| `Bootstrap` | does a launch fail only for another one's sake, and belong together what it loads? | three launches over a new file or one left by the first or the last version | 345,488 |
| `SourceLedger` | can the ledger always be loaded, and do references stay usable? | two stores, two workspaces, six records, a row of an earlier version, three opens and three records | 210,474 |
| `Correlation` | are candidates classes, do late signals stay marked, does a finalized range change openly? | four records, and three more that may arrive at any tick of five; a path with two contents, one cut short, and one that joins two pairs | 149,920 |
| `Topology` | is exactly what nobody disputes shown, owned and selected? | two environments with a cycle of services, and every pair, and every triple of one part, of further records; ten requests | 69,947 |
| `Change` | are associations exact, answers repeatable and evidence found again? | any three of fifteen payloads, three requests, three commands, one fault | 2,965,927 |
| `Operations` | is what is sound shown, what alone fails the whole, and is doubt never health? | any three of sixty-two records beside known good statuses, or any two beside none; two source names that begin with "changes" | 899,590 |

Why the bounds are enough.  Two callers, stores or calls make every race between
two; in `IncidentStore` a third would add only contention, which the retry budget
already exhausts with two.  Requests stay in their set, so that each may be
delivered again at any point of its own first delivery.  In `MCIncidentLog` an
identifier belongs to one command and the constraint `OneStory` keeps a behaviour
to one of the two request sets.  `Bootstrap` has three launches so that the first row
of a table may be that of neither of two that race.  In the window two incidents let
a selection move away under an answer; pages of one make three events two
`loadMore`s; a request the window makes by itself is never cut off by a bound.
`MCConfiguration` gives each call the commands that meet in one pair of
statements: add against remove, two tests of one connector, a read against a
removal, an order against a removal.  `MaxOpens` and `MaxRetains` are the opens
and retained records of a behaviour of the ledger: two stores that overlap and a
third load that sees what they left.  Time in `Correlation` covers before, at and
after the end, the lateness and a reopening.  The record sets of `Topology`,
`Change` and `Operations` hold, for every check of the code, a record that fails it alone,
and the combinations of two or three meet in every source.

Deadlock is checked for `IncidentStore`, `Topology`, `Change` and `Operations`,
which have a step to take in every state (the latter three a stutter once they
have answered).  It is off where a finite set of requests is used up
(`IncidentLog`, `AiRequests`, `Configuration`, `Bootstrap`, `SourceLedger`,
`Correlation`), and in the window, where nothing need happen once answers are in
and users have stopped.

### What the properties say

* `LogSpec`, `AuditKept` are refinements: the store does what the log says, the
  AI commands what `AiAudit` says, whatever happens in between.
* `SnapshotFresh`, `AcknowledgedIsApplied`, `ConflictOnlyIfStale`: an aggregate
  read in two statements and then written is one some commit stored; `Ok` and
  `VersionConflict` are true when given.
* `OneRunning`, `FailoverPermitted`, `AnsweredIsCounted`: between calls that
  overlap, and across a restart, over what was recorded before a call began.
* `OwnedWithoutDispute`, `ShownIsUndisputed`,
  `AssociationsExact` compare a result computed step by step with a definition
  over the set of all records, in which no order occurs.
* `CandidatesAreClasses` compares what union-find, lists and a map of paths make of
  the answers, one after the other, with the smallest sets that no relation leads
  out of.  An order occurs in one place only: what overrules a path (`Overrules`).
* `LateStaysMarked`, `FinalizedChangesOpenly` relate an evaluation to the one before.
* `LedgerOpens`, `CredentialKept`, `CredentialsOwned`, `OwnerAuthorized` relate
  what several processes wrote to what the next one will need.
* `SelectionLoads`: a selection that awaits its page stops loading, or the reload of a
  comment on an incident left before takes its ticket.  The action `ReloadAfterComment`
  is that reload, so that the run reaches the fault; the formula names it
  (`Superseded`) as the only one.
* `HealthyRecordsRender`: a broken record takes a sound one with it in three cases only,
  `SayTheSame`, `Nameless` and `Namesakes`, all of which the run reaches.  They are stated
  over what was handed over: the evidence each record in order brings (`Pieces`), and
  the names of alerts.  `NoFalseHealthy`: no record makes the posture better.

### Where code and documents part

What the models reach, and the properties therefore leave open.

Incidents.
* `apply_mutation` stores the `updated_at` its caller computed, so a write that
  overlaps a comment moves it back (`incident/repository.rs` 365), which the
  comment at 463 says must not happen to the order of the queue.
* Two deliveries may both pass the preflight; the second is then answered
  `VersionConflict` for a request that is applied (`incident/service.rs` 221,
  against `incident/repository.rs` 489).
* `create` stores `initial_roles` without the membership lookup
  (`incident/service.rs` 173, against `docs/design/sprint-15-incident-domain-lifecycle.md` 308).
* Two incidents may be declared duplicates of one another.
* The window: a comment that returns after the selection has moved reloads the
  incident it captured, takes a new ticket and lets the selected one's page drop, after
  which that one stays "loading" (`IncidentWorkspace.tsx` 318); the panel and the thread are mounted without a
  key, so that a status and optimistic entries appear under the next incident
  (`IncidentActions.tsx` 407, `IncidentCommentThread.tsx` 100); after a conflict the notice names
  the newest event of the first page only.

AI.
* A refused call with an identifier in flight has already replaced the first
  one's token (`app/ai.rs` 239): an acknowledged cancellation may then miss.
* Calls that overlap do not see each other's usage (`app/ai.rs` 392), so that
  together they may exceed the window; no production path sets a window today.
* An answer past the deadline is dropped and not recorded, against
  `docs/superpowers/reports/2026-09-06-sprint-17-verification.md` 81-84.
* A cost window over a store without records refuses everything, because the sum
  of no rows is NULL and counts as unpriced.

Configuration and launch.
* Of two overlapping tests the later update may be the older finding.
* A connector's list fails when one lookup in the keychain fails.
* Two launches racing on a new file may both bootstrap; later launches
  take the first row of each table.  The loser of an insert fails to open.

Ledger and correlation.
* A store that writes over a row it loaded before another one's replay drops the
  other's evidence identifiers, against `correlation/source_records.rs` 442;
  `ReferencesUsable` excludes that by `raced`.  Production fixtures
  are deterministic, so that their evidence does not differ today.
* Evidence of a topology path is never among the records' evidence, so any
  accepted relation would fail the closure of the snapshot (latent: no resolver
  of production accepts one); the change snapshot has the same fault.
* A candidate's identifier changes when a late signal has a smaller key, against
  `docs/design/sprint-13-signal-correlation.md` 638; the deduplication index is
  built and not consulted by grouping, against 671 there.
* An answer of the topology resolver is held against those accepted before it
  (`grouping.rs` 195).  One that is refused by itself (cut short, without its ends)
  is not remembered, and another content of its identifier that follows is accepted;
  had it come later, the path would have been taken away.  So which signals belong
  together does depend on the order of their identifiers (`Overrules`).
* A path given for pairs that end up in different components makes one reason that
  names them all, which lies in none of these components (`grouping.rs` 274): they are
  left out of the candidates although it joins them, and where a shared target keeps
  one, the path is not among its reasons and a signal that it alone joins fails the
  closure of the whole snapshot (`Explained`).
* One signal whose identity looks like a secret, or a record admitted twice,
  fails the whole snapshot; a signal ingested at the very instant of
  finalization, or without that instant, changes a finalized result silently.
  No production path hands over a prior window.

Topology, change, console.
* An edge merged from two observation times of one source fails the whole
  snapshot, against `docs/design/sprint-12-resource-topology.md` 434.
* Evidence of a change is looked up in a rebuild of the default request, and its
  correlation context is always that of the default request.
* Two change records that mask to one content, or share a status key, fail
  everything; a record that is refused as a change stays in the ledger.
* The doc of `AggregationError` (`operations/aggregate.rs` 57-62) says that malformed
  data of a source is never an error of the whole snapshot.  Three things are, and hide
  every sound record: a check result with a blank evidence identifier; two
  records whose evidence differs only in its identifier; and two active alerts whose
  fingerprints are "x" and "alert-x" (`Nameless`, `SayTheSame`, `Namesakes`).
* A malformed schedule makes health checks unverified and hides an unavailable
  one: the posture is unknown where the design
  (`docs/design/sprint-11-operations-console.md` 403) says critical.

## 4. Fairness

`IncidentStore!FairSpec`, and the specifications of `AiRequests` and
`Configuration`, ask weak fairness of each caller's `Step`: a command runs on a
thread or task of its own, a wait for a lock is bounded by the busy timeout, and a
provider or probe by the deadline it was handed.  `FairViewSpec` asks it of the passive
effect, which React runs after every commit, and of the promise chain;
`FairActionsSpec` of the command under way.  Nothing is asked of clients, users,
the clock, other responders, failures or restarts.  Launches, the ledger and the
snapshots have no liveness property: they are sequential and end by their length.

## 5. Proofs

The theorems hold for every value of the constants that satisfies the named
assumptions of the modules: any number of callers, requests, incidents, stores,
connectors and retries.  Of finiteness only that of the signals retained at the start is
assumed, and that the order of targets is a list (`FixturesAssumption`).

* `IncidentProofs`, of the store and of the window.  Of the store in three parts.  The aggregate: each accepted command maps
  a sound row to a sound row and appends well-typed events; one lemma per form of
  command (`MembersAssumption`, `DeriveAssumption`).  The log: `LogInv`, types and
  soundness of every row, is inductive (`RequestsAssumption`), and
  `ExclusiveRolesHeldOnce` and `OverrideIsDisagreement` follow; `DuplicateTargetStored`
  is inductive over it, because no step removes a row.  The store
  (`ForeignAssumption`, `FreeAssumption`, `BudgetAssumption`): `TypeOK` is not
  inductive, because a caller in phase `apply` writes what it loaded.  `IInv` adds what
  the phases know: a loaded row is no newer than the stored one and equal to it when
  the versions are; a caller past the aggregate was accepted on that row; creations
  in flight hold distinct fresh identifiers.
  `StoreImplementsLog`: with `IInv`, a step that commits is the log's step for its
  request and any other leaves rows and timelines alone; `StoreKeepsRowsSound`
  carries the invariants of the log over.
  `ConflictsAreStale` adds `ExpectedInv`: what a sender expects is no newer than
  the row read, nor that than the stored one, whose version never goes back.
  `TimelinesExplain`: a fold over a timeline exists and agrees on equal beginnings, by
  the least-number principle, so one command adds to what is told what its own
  events tell, one lemma per field and form of command.  `AcknowledgedAreApplied`:
  a replay is answered Ok only after the stored events matched it, and what a commit
  writes would match its own command; no step removes either.
  Of the window (`NoneAssumption`, `PageAssumption`): `ShownIsPrefix` needs
  `MailSound`: a request under way asks from within its timeline, an answered page is
  what the timeline held there, and a request of the current ticket that appends
  starts at the end of what is shown.  Tickets and timelines only grow, which is why
  both stay true.  `LastPageIsLast` is a property of steps over the same invariant.
  Both are proved of the hook alone and of the hook inside the shell, whose steps are
  the hook's or leave its variables alone.  `ResultsBelong` needs to know of whom
  each request of the panel and the thread is that is still to answer; that the panel is
  disabled only for a command it awaits is its by-product (`PanelFollowsAction`).
* `AiRequestsProofs` (`NoneAssumption`, `RecordAssumption`: an absent value is no
  caller, usage or record; `RequestsAssumption`, `WindowAssumption`, `UsagesAssumption`:
  amounts are natural numbers; `ModelsAssumption`): `OneRunning` from `TableInv`, that an identifier has a token
  exactly while a call of it is in flight, which holds although a refused call
  leaves its own token in the other's place.  `FailoverPermitted` from `RequestInv`:
  the candidates not yet tried are distinct from each other and from those tried,
  and a second is tried only with the caller's permission; every provider sent to has its
  attempt on record, the last one perhaps not yet.  `AuditKept` is
  the refinement, step by step: only `Record` writes the ledger, and only under an
  identifier it finds free.  `AnsweredIsCounted` from `CountInv`: every request that
  was answered has a record whose last attempt has usage, records do not change, and
  what a call reads of the window is at least the sum over the requests answered
  before it.  It rests on lemmas about sums over finite sets: a sum may take its elements
  in any order (`SumTakes`) and is no smaller than one matched into it (`SumFits`).
* `CorrelationProofs`: `CorrelationInv` ties the chain of snapshots of a range to
  the fixtures they were built from.  A late mark is passed from snapshot to
  snapshot and by then the range is reopened, so that no window is active again
  (`LateStaysMarked`); an intake closes at its finalization time
  (`FinalizedChangesOpenly`, which speaks of a snapshot and the fixtures handed in
  when it was built).  Neither needs to know how signals are grouped.
  `CandidatesAreGroups` does, in three steps, for any signals, targets and answers.
  `Recorded`: after any part of the questions, taken from the last backwards, the paths,
  links and ambiguous identifiers are those the definition gives for that part, by
  induction over finite sets (`AllRecorded`).  `Classed`: joining one set after another
  keeps the classes disjoint and whole, and each of them is the smallest such set
  (`AllClassed`, `ClassesAreSmallest`).  And a class holds a reason exactly when
  something explains it (`ReasonsExplain`).  The invariant `ClassesInv` adds that
  the signals are finitely many, of listed targets, and that a snapshot is
  compared with the fixtures it was built from.
  Of the ledger that correlation reads, `LedgerStaysOpen` needs, beside the soundness of
  every row, what an open store carries: its copy was loaded or admitted, its pending
  row and evidence passed its checks.  Three facts make it inductive: stored
  evidence never changes its kind, every write is of a row whose evidence was compared
  with what is stored, and no row changes its identity or scope.
  `ReferencesStayUsable` adds, for ledgers that have not raced, that an open
  store's copy lists what the row lists.  `LegacyAssumption` says that an input that
  names evidence of a row of migration 0003 is of its kind: the adapters
  name evidence so; no check of the code does.
* `ChangeProofs` (`CatalogsAssumption`, `RequestsAssumption`, `CandidatesAssumption`),
  in two parts.  The projection: `AssociationsExact` from `LedgerInv`, that what the ledger holds was recorded from
  fixtures, and `ProjectionInv`, that what a command builds and returns is the
  projection of the events it read over the candidates it has visited.  The work is in three lemmas: the timeline kept
  is the newest of its window, the oldest of the eligible changes precedes every
  other, and a pair is listed when and only when the definition says so.
  They rest on a strict order of the events that have an identity, and on the least
  element of a set of naturals.  The answers: what becomes of a fixture depends on the
  ledger, and the ledger grows under the reader.  But a fixture that was replayed
  without a fault is `Settled`: refused for what it is, in the ledger, or barred by the
  identity of another record, and no later record changes which (`SettledStays`).  A
  command that met no fault has settled every fixture, so that what it shows is a
  function of the ledger that no later replay changes.  `ReplayInv` keeps this for the
  command under way, its fixtures replayed so far as a sequence of positions
  (`Traces`), and for all answers given; `SameAnswer` and `EvidenceResolves` follow.
  That positions determine the sequence is proved by a least counterexample.
* `ConfigurationProofs`: `CredentialsAreKept` and `CredentialsAreOwned` from
  `CredentialInv`.  Its core is that the command that adds a connector is the only
  one that knows its name before the row exists (`UnbornInv`), that between
  the deletion of a row and that of its secret nobody can bring the row back
  (`RemovalInv`), and that a finished removal is final.  `NamesAssumption`: added
  connectors have fresh names; `CommandsAssumption`: what a command consists of.
  `OrdersAreUsable` rests on `ListInv` and `OrderingInv`: an order that passed the check
  names what was configured then, and no removal can pass between the
  check and the write, which one lock holds together (`HealthsAssumption`).
  `HealthsAreOnRecord` from `HealthInv` (`LimitAssumption`: the limit of a log is a
  number).  Stamps of pending findings and of entries are of the past and distinct
  (`StampInv`, `LogInv`), so that an entry the trim drops has strictly newer ones only
  above it; and the health a row shows is never lost track of (`RecordInv`): its test is
  at the entry, the entry is there, was left out, or newer ones have filled the log.  That
  the trim's choice exists for a log of any size is `NewestExist`, by a least counterexample.
* `BootstrapProofs` (`VersionAssumption`): `OpensAlone` and `OwnersAuthorized`
  from an invariant whose core is that two launches that are opening know of
  each other, that what a launch read can turn stale only then, and that the
  five tables always hold the same launches in the same order.  A first row,
  once there, stays first, so that five reads at five times agree.
* `OperationsProofs` (`InputsAssumption`: sources hand over lists, times are natural
  numbers, states and healths of their types; `NowAssumption`; `ChangeSourcesAssumption`:
  which of the names the code gives begin with "changes"): `FineRecordsRender` and
  `DoubtIsShown` from `ReadInv`, which says of every record read so far what has become
  of it: it is shown, or its source is in doubt, and then stays so.  It is inductive
  because nothing is taken back: statuses only get worse (`MergedIsWorse`), what was
  shown stays, and once the evidence is read what is rejected is exactly what was
  supplied unverified or twice (`Sifted`).  A doubt is first a flag of the source being
  read and then its status, which is why the invariant names both (`Unusable`).  When
  all is read, `Posture` is calm only over statuses that are not in doubt.
  That a snapshot fails for the three reasons only needs the converse, `ShownInv`:
  whatever was accepted is a piece that some record in order brings, and every item
  of the queue is that of one record read.  So two pieces or items that the validation
  refuses lead back to what was handed over (`FailedFor`).

* `TopologyProofs`, in two parts.  The derivation (`InputsAssumption`: an environment
  has one inventory, inventories are taken in the order of their names, fixture edges
  have the fields of an edge): `TInv` says after every single
  record that the nodes of the graph, and those refused for good, are those on
  which the records taken so far agree and disagree (`DerivedFromAll`).  It must name the refused
  ones as well, because a node that was removed would otherwise come back with the next record that
  describes it, and it must say which records are taken in every phase (`Underway`):
  those of an inventory count only when its environment stands.  Edges come and
  go with their nodes; what an added edge may do is bounded once (`Changes`,
  `WebFields`) and used for every source of edges.  `ShownWithoutDispute` follows when all is read, and
  `OwnersStand` from the one step that resolves owners (`OwnersUndisputed`).
  The request (`RequestsAssumption`: a depth is a natural number, a direction one of
  three): `SelectedExactly` compares depth-first walks, which keep a stack, turn back
  at a cycle and stop at a limit, with plain reach.  `SInv` has two halves.  What is on
  the stack and on the paths are ways of edges from the roots no longer than the depth
  (`Walking`), so nothing else is shown.  And every simple way that long is still
  ahead of a state on the stack or inside a path given out (`AllCovered`), so nothing is missed
  once the stack is empty.  A shortest way to a node that is near is
  simple, which is shown by the least-number principle; and the second walk, over
  what is shown, stays within what is shown.  `SInv` quantifies over all
  sequences, so that of this half TLC evaluates `SelectionExact` alone.

Checked by TLC only: liveness (`Answered`, `SelectionLoads`, `ActionEnds`,
`CallsAnswered`, `CommandsAnswered`), which is beyond the prover.  The sums of
`AnsweredIsCounted`, the logs of `TimelinesExplain` and `HealthsAreOnRecord`, the ways of
`SelectedExactly` and the folds of `CandidatesAreGroups` carry inductions done by hand
over recursive functions.

## 6. Not modelled

* AI provider adapters, the HTTP clients of clouds and observability, the
  Kubernetes client: stateless conversions of what a remote system returns.  The
  commands in front of them are modelled with their gates and their answers.
* Reads that change nothing and promise nothing across calls: the paged list of
  the queue, lists of connectors, diagnosis.
* The IPC types other than authorization; window shell, forms, tabs and the workspaces of the
  interface other than the incidents'.
* Trigger resolution, beyond its verdict; scores and texts of candidates.
* The refusal of an answer by egress policy after a committed write: the policy
  is immutable while the application runs and never refuses the interface under a
  document it can open with.
* The scheduler's in-flight set of health checks, which no two commands share.
