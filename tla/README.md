# BudgetLens in TLA+

Formal models of BudgetLens, a budget-versus-actuals service: a FastAPI
application over PostgreSQL and an object storage, with a watchdog and a
retention command beside it. Two kinds of modules: the parts where several
requests meet over shared rows are state machines whose steps interleave; the
calculations (amounts, files, reports, tools, pages, gate checks) are operators
checked on every bounded input. TLC checks them on small instances, TLAPS proves
their safety properties for every value of the constants.

Paths below are relative to `src/apps/api/src/budgetlens/` unless they start
with `docs/` or `scripts/`.

## The system

The API is a synchronous Python process with a pool of threads. Each request
runs in one SQLAlchemy session and one PostgreSQL transaction
(`presentation/deps.py`, `get_db_session`) at READ COMMITTED: commit when the
handler returns, rollback when it raises. Services read rows into frozen domain
objects, decide on those objects and give them to `repository.save`, which reads
the row again and overwrites it. Nothing is read with a lock
(`SELECT ... FOR UPDATE` does not occur) and the UPDATE has no condition beyond
the id. What protects concurrent requests is therefore

- the row lock that an UPDATE takes at the flush and keeps until the commit,
- unique indexes: job fingerprints, idempotency records, names and active
  versions of a fiscal year,
- checks on objects that were read earlier, which a concurrent commit may have
  made stale.

The session does not flush before queries (`autoflush=False`, `adapters/db.py`),
so where a service calls `flush` matters and is modelled.

### Inventory

| Component | State | Operations | Interacts with | What is hard | What makes it correct |
|---|---|---|---|---|---|
| Import jobs (`application/imports.py`, `domain/importing.py`) | `import_jobs`, `import_errors`, `financial_entries` | create, upload, validate, commit, cancel | versions (accepting entries), objects, idempotency records | overlapping requests on stale copies, two jobs with one file, failures half way | rows inserted once and together with the status; one live job per fingerprint; final statuses stay |
| Watchdog (`application/watchdog.py`, loop in `cli.py`) | none of its own | fail jobs PROCESSING for too long | `import_jobs` rows of open requests | a late request against the timeout | every PROCESSING job ends; applied jobs keep their rows |
| Retention (`application/retention.py`) | none of its own | delete expired originals, error rows, exports, conversations | rows and objects | objects deleted outside the transaction | files of open jobs stay |
| Idempotency records (`application/idempotency_keys.py`) | `idempotency_records` | replay or reserve | every POST with a key | the duplicate racing the first call | a key stands for what it did, once |
| Budget versions (`application/budget_versions.py`, `domain/budget_version.py`) | `budget_versions` | create, rename, publish, activate, archive | imports, idempotency records | activations against archivals, renames against publications, flush in the middle | one active version per year, unique names, one-way life cycle, counter per change |
| Object storage (`adapters/storage.py`) | objects | put, get, delete, presign | imports, exports, retention | not transactional | no row points to a missing file while the file is needed |
| Memberships (`application/memberships.py`) | `memberships` | create, update | permissions of every request | each of two requests relies on the other's administrator | an active administrator remains |
| Organizations (`application/organizations.py`) | `organizations` | create, update | first membership, tenancy | expected version compared with an old read | no lost update |
| Dimensions (`application/dimensions.py`) | accounts, departments, cost centers | create, update | imports that create missing ones | two re-parentings at once | codes unique, hierarchy acyclic |
| Scenarios (`application/scenarios.py`, `domain/scenario.py`) | `scenarios` | create, update, archive, preview, compare | entries, versions | update against archive | rules of one request, archived stays archived; the preview is what is saved |
| Copilot (`application/ai.py`) | conversations, messages, runs | ask, delete | rate limits, resilience, provider | slot release on every path, tool limit, deletion during a call | slots returned, limits kept, deleted stays deleted |
| Rate limits, resilience (`application/rate_limit.py`, `application/resilience.py`) | counters and circuit state in memory | acquire/release, check, call, retry | copilot, storage | threads around a state read before the call | counters match running calls; an open circuit stays open long enough |
| Analytics and exports (`application/analytics.py`) | `export_jobs`, objects | reports, export, download | storage, retention | object before row, sweeps overlapping; many reports of one ledger | a ready export has its object, only a failed post leaves an orphan; reports agree |
| Pagination (`application/pagination.py`, repositories) | none | list pages by cursor | lists that change | cursor and order disagree | every row listed once |
| Row normalization and parsing (`application/row_normalization.py`, `adapters/parsing.py`) | none | pure | imports | the file is read again at each step; one bad row among good ones | what was validated is applied; every row accounted for |
| Release gates (`scripts/record_gate.py`, `deploy_preflight.py`, `portfolio_release.py`) | files in `var/gates` | record, review, check, tag | deployment | files written one by one, for several environments | what passes rests on a recorded decision, for a protected gate on a person's |
| Money, variance, fiscal calendar (`domain/`) | none | pure | imports, scenarios, analytics | rounding, signs, boundaries | agreement with a reference definition |

Permissions and tenancy guard each of these; audit records ride in the same
transaction. Schemas, OpenAPI, the web client, identity providers,
seed, evaluation and infrastructure hold no state the properties depend on.

## Modules

| Module | Content |
|---|---|
| `ImportJobs` | jobs, idempotency records of commits, entries, objects, draft versions; requests, watchdog and retention as interleaved steps |
| `ImportLedger` | what a commit promises a caller that retries; `ImportJobs` implements it |
| `ImportJobsInvariant`, `ImportJobsProofs` | the inductive invariant of `ImportJobs`, its theorems |
| `BudgetVersions`, `BudgetVersionsProofs` | versions, their idempotency records and the requests on them; its theorems |
| `Organizations`, `OrganizationsProofs` | organizations and members: authentication, authorization, the rule of the last administrator; its theorems |
| `Catalog`, `CatalogProofs` | accounts in a hierarchy, departments, cost centers, and the import that creates missing ones; its theorems |
| `Scenarios`, `ScenariosProofs` | the rows of one scenario under overlapping saves and archivings; its theorems |
| `Copilot`, `CopilotProofs` | questions of a user: limits, circuit, tool loop, grounding, deletion and retention of conversations; its theorems |
| `Exports`, `ExportsProofs` | exports, downloads, the retention command, the life cycle rules of the bucket; its theorems |
| `Money` | amounts, ratios, variances, fiscal months |
| `ImportRows` | the rows of a file: normalization, issues, duplicates, preview, application |
| `Workbook` | from bytes to a table: kinds of files, limits, sheets, delimiters, headers; and what a preview and an application read again |
| `Analytics` | reports over the ledger, and scenario rules applied to it |
| `Tools` | the five tools of the copilot: schemas, arguments, results (extends `Analytics`) |
| `Pages` | lists read page by page while they change |
| `Gates` | records of manual gates and the checks that read them |
| `Ordering` | a list of the elements of a set in a given order: what ORDER BY and `sorted` return |
| `CalculationsProofs` | the theorems about `Money`, `Workbook`, `ImportRows`, `Analytics`, `Tools`, `Pages` and `Gates` |
| `MC*` | instances for TLC; `MCRules` composes the six modules of calculations |

### ImportJobs

| Variable | Code |
|---|---|
| `jobs` | committed `import_jobs` rows: status, object key, fingerprint |
| `idem` | committed `idempotency_records` of operation `import.commit` |
| `entries` | committed batches in `financial_entries`, per job and key |
| `objects` | keys present in the object storage |
| `draft` | budget versions in draft; `CloseVersion` is a publication or archival |
| `tx[s]` | the request thread `s` runs: its step `pc`, the object first read (`seen`), the object to be saved (`work`), the columns of the pending UPDATE (`cols`), the row version it holds uncommitted (`held`), its uncommitted record and entries |
| `sweep` | the pass of the watchdog or of `retain-files` in progress |

A step of a request is one database or storage call with the code up to the
next one. `Create`, `Upload`, `Validate`, `Commit` and `Cancel` are the first
reads with the checks made on them; `PutObject` the write to the storage;
`Reserve` and `Replay` the two outcomes of `replay_or_reserve`; `Save` the
second read in `repository.save`; `Flush` the UPDATE of `_persist_processing`;
`LoadTable`, `ReturnExisting`, `CheckRows`, `WriteValidated` the body of
`validate`; `MatchNone`, `MatchApplied`, `LoadTable`, `Apply` the body of
`commit`; `CommitTx` and `Rollback` the end of `get_db_session`. An error of
any kind (a failed check, an IntegrityError, a missing object, a deadlock that
the database breaks, the death of the process) is `Rollback`: the uncommitted
state goes, objects stay. `Flush`, `WriteValidated` and `CommitTx` are not
enabled while another transaction holds the row or an index entry they need:
that is the wait at the lock.

The rows of a file, their parsing and normalization are abstracted to the
outcome of `_collect_rows` (errors or none); the fingerprint is the pair of a
content (file hash, type and version) and a mapping, which is what the hash
covers. A row keeps the columns the properties tell apart; a PROCESSING flush
always writes (`started_at` changes), so `Flush` takes the row lock even when
the status does not change.

### BudgetVersions

`rows` are the committed `budget_versions` rows, `idem` the committed records of
the three operations that take a key, `tx[s]` the request of thread `s`. Here
the record is only added to the session, so it is inserted at the next flush or
at the commit (`Inserts`, `Flushable`), unlike in `ImportJobs`. `Create`, `Update`
and `Transition` are the first reads; `Reserve` and `Replay` the lookup of the
record; `GetActive`, `Deactivate`, `Flush`, `Activate`, `Flush` the steps of
`activate`; `Publish` and `Archive` leave their UPDATE to `CommitTx`. `Admits` is
what PostgreSQL does with the two unique indexes, the check constraint and the
row lock: refuse a row that clashes with a committed one, wait for one that
clashes with an uncommitted one. A scope (operation and key) also stands for the
time of the request that used it, which is the value of `published_at`. `seen`
keeps the committed copies of each row that the request has worked from, at the
first read and again when `save` re-reads the row (`Having`); no guard looks at it,
it only lets the properties say whose copy was outdated (`CommitsOutdated`).

`ImportJobs` sees versions through `draft` only, and `BudgetVersions` does not see
imports: a commit reads a version once and writes nothing to it.

### The other requests

`Organizations`, `Catalog`, `Scenarios` and `Copilot` follow the same pattern as the
two modules above: the committed rows, and `tx[s]`, the request of thread `s`,
which reads, decides on what it read, reads again in `save`, and commits only the
columns that differ from the second read; where the properties need them, these are
`seen`, `work` and `cols`. A slot that is "off" is a thread the
instance does not have: one initial state is the pool of one thread
(`Sequential`), so one run says both what holds without overlaps and what an
overlap needs to break it.

- `Organizations`: `authenticate` and `Enter` are `get_current_user` and
  `get_tenant_context`; `ReadMembership`, `RequireActiveAdminRemains`,
  `SaveMembership`, `CommitMembership` are `MembershipService.update`. `relied` keeps
  the administrators the check counted on. `CreateOrganization` writes the
  organization and its first administrator in one transaction. `Sees` is the row
  level policy.
- `Catalog`: a row is the parent and the status of an account, or the status of a
  department or a cost center. `UpdateAccount` takes the body of a PATCH; what it sets
  decides whether it is `structural`, that is for an administrator only. The status also
  stands for `account_type`, which `structural` treats alike and nothing else here reads.
  `Walk` is one SELECT of `ancestor_ids`, so a re-parenting reads its
  ancestors one at a time; `chain` keeps what it saw. An import resolves the codes
  of its rows in file order; an INSERT waits for the index entry of another
  transaction, and two that wait for each other are a deadlock the database
  breaks (`Rollback`).
- `Scenarios`: `DeleteRules` is the DELETE statement with the rows it can see,
  `RulesDeleted` its end once the locks of another DELETE are free; rows carry the number of the save that inserted
  them, which is what the property compares.
- `Copilot`: `AcquireSlot` to `OpenConversation` is the part of `ask` before its `try`,
  `Scope` to `SaveQuestion` the part in it. `CallProvider`, `ProviderAnswers`,
  `ProviderRequests`, `ProviderFails` are the external model: any answer, any tool
  requests, any failure. Figures are the amounts in texts and tool results. `Forget`,
  `CoolDown`, `Expire` are the passing of time; `OthersCall` the questions of other
  users, which share the process-wide breaker.
- `Exports`: `Put`, `CommitExport`, `RollbackExport` are `POST /exports`; `List`, `Purge`,
  `SweepCommit`, `SweepAbort` a run of `retain-files`, of which several may overlap;
  `Lifecycle` the rule of the bucket, enabled for keys that match its prefix
  (`LifecycleMatches`).

### The calculations

`ImportRows`, `Workbook`, `Analytics`, `Tools`, `Pages` and `Gates` have small state
machines that build inputs (a row, a line, an entry or a rule, an argument, a
change of the list, a record at a time), so the states are the bounded inputs and
the invariants compare the operators with definitions that do not use them.
Amounts are integers of quanta (`MoneyUnit` to the unit), ratios integers of
1/`RatioUnit`, decimals as written fractions: rounding is done where the code does
it. Text is a token with a form (`Number`, `Date`, "long"), since the code only tells
forms apart. `Tools` takes JSON as typed values. `Gates` knows deliverables by the
form of their value.

`validate_closed_schema` recurs into the values inside a value; the schemas of the five
tools have six levels, so the operator of that name goes through them level by level
(`Below`): the values of a level that fit their schemas give those of the next.
What the code returns is the value itself, since a property no schema names is refused.

## Runs

`CHECK_DEADLOCK FALSE` stands only where the system may come to a stop: every
version closed before a job was created for it, every export expired and removed,
every counter at its bound.

| Run | Question | Result |
|---|---|---|
| `requests` | two jobs with the same file, two threads, two keys, three mappings, files uploaded: what survives every interleaving of requests and failures | `AppliedHasEntries`, `KeyInsertsOnce`, `KeyRecordsApply`, `LiveFingerprintUnique`, `MutualWaitNeedsStaleCopy`, and `ImplementsLedger` hold |
| `sequential` | two jobs of one version, one thread, sweeps and a closing version between its steps | `AppliesOnce`, `EntriesMeanApplied`, `OpenJobHasFile` hold |
| `watchdog` | does every PROCESSING job end, with requests and watchdog racing | `ProcessingEnds` and the inductive invariant `IInv` hold |
| `activations` | two versions of one year, two threads, two keys, two names | `OneActivePerYear`, `NamesUnique` hold; a year loses its active version to none only by an outdated copy (`ActiveLossNeedsStaleCopy`) |
| `versions` | one version, two threads, renames, failures anywhere | a stray activation, a reopened or renamed published version and a repeated counter each take a request that commits over a copy another one has outdated (`StrayActivationNeedsStaleCopy`, `ReopeningNeedsStaleCopy`, `MiscountNeedsStaleCopy`) |
| `organizations` | two organizations, two users, one or two threads | losing the last administrator takes an overlap with a stale count (`AdminLossNeedsOverlap`); memberships change only by a request whose role on entry was admin, who still is one unless requests overlap (`ChangedByAdminOnEntry`); a number is given to two contents only by an update whose number was taken by then (`OrganizationVersionCounts`) |
| `catalog` | three accounts, a department, re-parenting and importing at once | a cycle takes a stale walk (`CycleNeedsStaleWalk`), and so does a move beyond the depth (`MovedWithinDepth`); the structure changes by administrators only, but that an analyst's overlapping request may put back the row it read (`StructureByAdmin`) |
| `copilot` | a question beside another request of its user, calls of other users, a provider that may do anything | `AsksWithinLimit`, `AnswersGrounded`, `CircuitFollowsFailures`, `QuestionsEnd`; a deleted conversation returns only by a question that had opened it (`ReturnsOnlyByStaleQuestion`) |
| `scenarios` | one to three threads save and archive one scenario | `MixNeedsUnseenSave`, `ArchivedReopensOnlyStale` |
| `exports` | three exports, a download, two overlapping sweeps, failures anywhere | no listed export without its object (`ReadyHasObject`); an object nothing will ever remove is that of a failed post (`OrphansAreOfFailedPosts`) |
| `rules` | every bounded input of the calculations | `AppliesWhatWasValidated`, `RowsAccounted`, `StaysApplicable`, `ReportsAddUp`, `PreviewMatchesSave`, `ToolsTellTheReports`, `PagesComplete`, `GatesStandForDecisions` |
| `apply_twice` | "Valid import applies once" (`docs/TRACEABILITY.md`) | violated |

The properties split along what the code can guarantee. What a lock or an index
backs holds under every interleaving. What a check on an earlier read backs holds
only while requests do not overlap; the run then either has one thread, or the
property says which stale read the exception takes. The second form is the
stronger one: it fails as soon as the check is wrong, and names the shortest
overlap.

### What the code does not keep

`PROJECT.json` lists these as findings, with the line and the sentence they
disagree with. The ones with a definition below are violated on the instance of the
run of their component (two threads); to see the trace, give that definition to the
configuration.

- Imports: two commits of one READY job under different keys insert its rows twice
  (`apply_twice`; the existing test of the race sends one key twice, which
  `KeyInsertsOnce` shows to be safe). A cancellation overwrites APPLIED
  (`AppliedNotCancelled`). A version published between the check and the insertion
  receives entries (`ClosedVersionFrozen`, with `VersionOf <- SameVersion`).
- Versions: a stale `expected_version` is accepted (`VersionCounts`), a PATCH renames
  a published version (`PublishedStaysClosed`), an archived version becomes active
  (`ActiveIsPublished`), each on the instance of `versions`, where the checked
  properties show that an outdated copy is the only way.
- Organizations: two administrators demote each other (`OrganizationKeepsAdmin`).
- Dimensions: two moves make a cycle; a move of an account with children exceeds the
  depth without any overlap (`HierarchyWithinDepth`).
- Scenarios: two saves leave rules of both; an archived scenario is saved again
  (`ArchivedStays`).
- Copilot: a slot is not given back when the conversation is gone or the question
  empty (`SlotsReturned`); an answer without evidence is not checked
  (`FiguresHaveEvidence`); the audit of a failed answer is rolled back with it.
- Exports: keys start with the tenant, the bucket's rules select `uploads/`,
  `errors/`, `exports/`; without `retain-files`, and for exports whose
  transaction failed, objects stay (the latter is all that `OrphansAreOfFailedPosts`
  leaves possible).
- Calculations: one over-long cost center or one number beyond the decimal
  precision ends the whole validation; a formula in an unmapped column rejects the
  row; two sheets of one workbook are one import; pages of errors continue by
  another key than they are sorted by; a rule value finer than six decimals is
  previewed and saved differently; the default comparison range is February of the
  calendar year. The properties of `rules` state these exceptions in their premises.
- Gates: the reviewed image digest is not compared with the deployed one, a waived M-04 allows
  Bedrock, a record of another environment counts by its file name. `deploy_preflight.py`
  passes no environment on, so its `--from-env` has no effect.

A condition on the version or the status in the UPDATE, or `FOR UPDATE` in the
first read, would close the races.

### Bounds

Two threads are enough for every race the code can lose by one stale read: each
check reads one row written by one other transaction. `scenarios` has three, since a
mix of rules can be repaired or worsened by a third save. In the import runs, two
jobs with one content and one or three mappings make fingerprints collide or not (a
mutual wait of two requests shows up from three on); two
keys separate a retry from a second commit; three object keys in `sequential` allow
one orphan of a failed upload. `requests` and `watchdog` start with both files
uploaded, a state that two uploads reach. `MaxVersion` bounds renames and
organization updates, `MaxSaves` the saves of a scenario, `MaxWrites` the records of
gates, `MaxChanges` the changes of a list, `MaxArguments`, `MaxRows`, `MaxEntries`,
`MaxRules`, `MaxLines` the inputs built one by one.

`ACCOUNT_HIERARCHY_MAX_DEPTH` is 2 in `catalog` (5 in the code), so that three accounts
reach and exceed it; requests may change the status of one account only (`Restated`),
since none of the properties relates the statuses of two. `copilot` allows one question at a time per user and two tool calls
of at most two per round, so that the limit falls inside a round and at its end; the
breaker opens at two failures. `exports` has a third export so that two sweeps can
have listed different ones. In `rules` the limits of files are 2 or 3 so that each can
be met and exceeded; amounts are in whole units and rules have halves, twentieths and
values beyond the limits so that ties and refusals occur; months lie on both sides
of the start of a fiscal year in February; each kind of row, argument and record
that some check refuses is among the inputs. Two entries, two rules, two rows, two
arguments: every property relates at most two of them.

Symmetry is used for sets of model values that no definition tells apart, and never
with a liveness property.

### Fairness

`ProcessingEnds` is checked under `WatchdogFairness`. A request that can continue
does, or is rolled back: the thread pool schedules it and the database ends
transactions of dead connections. The loop of `run_worker_loop` lists every
PROCESSING job again and again (weak fairness on listing all of them: the timeout
passes for each), handles each listed job, and its commit gets the row locks it
waits for (strong fairness: PostgreSQL queues lock requests, while the holder may
change). Finally the database does not fail every pass for ever
(`<>[][~SweepAbort]_vars`). No fairness is assumed of new requests.

`QuestionsEnd` assumes weak fairness of a running question only: a thread runs, and
a call of the provider ends, by its timeout if need be. Nothing is assumed of the
answers.

No fairness is assumed of `retain-files`: `cli.py` loops the watchdog only, the task of
the deployment runs the watchdog, and nothing in the repository calls the retention
command. That an expired export goes away is therefore no liveness property of the code.
What the runs of that command leave behind when they do come is a safety property
(`OrphansAreOfFailedPosts`).

## Proofs

The theorems hold for any sets of jobs, threads, keys, versions, names, accounts,
users, figures and so on, for any limits, and for inputs of any size: ledgers, files,
lists of rules, arguments. What is assumed of the constants is named in an `ASSUME` of
the module that declares them, and TLC evaluates it in every run:

- maps have the right domains, limits are naturals, and `None` and other placeholders
  are none of the values they stand beside;
- `Catalog`: the code for unassigned rows exists, the rows of an import are sequences of
  known codes, the depth limit is positive, requests carry bodies the route accepts;
- the calculations: inputs are what they are called. Entries have the columns of an
  entry, months and amounts are integers, rules have the columns of a rule, arrays of
  JSON are sequences, settings map fields to columns, a cell's formula is one of
  finitely many, who records a gate is a person the file can name.

What only holds while requests do not overlap is proved from that: `OneThread` in
`ImportJobsProofs` and `BudgetVersionsProofs` (any two elements of `Slot` are equal),
`Sequential` in the others (all slots but one are off, an initial state of the
specification). Sweeps of the watchdog and of retention still interleave.

| Module | Theorems (the property, where the name differs) |
|---|---|
| `ImportJobsProofs` | `TypeCorrect`, `Invariance` (`IInv`), `AppliedJobsHaveEntries` (`AppliedHasEntries`), `KeysInsertOnce`, `KeysRecordApplies`, `LiveFingerprintsUnique`, `LedgerImplemented` (`ImplementsLedger`), `MutualWaitsNeedStaleCopies` (`MutualWaitNeedsStaleCopy`), `FilesNotShared`; with one thread `AloneInvariance`, `AloneAppliesOnce`, `AloneEntriesMeanApplied`, `AloneOpenJobsHaveFiles` (`OpenJobHasFile`) |
| `BudgetVersionsProofs` | `TypeCorrect`, `Invariance`, `OneActive` (`OneActivePerYear`), `UniqueNames`, `FinalRecords` (`RecordsAreFinal`), `SeenInvariance`, `StrayActivations` (`StrayActivationNeedsStaleCopy`), `Reopenings` (`ReopeningNeedsStaleCopy`), `Miscounts` (`MiscountNeedsStaleCopy`), `ActiveLosses` (`ActiveLossNeedsStaleCopy`), all with overlaps; with one thread `AloneLifeCycle` (`ActiveIsPublished`, `PublishedStaysClosed`, `VersionCounts` outright) |
| `OrganizationsProofs` | `Invariance`, `TypeCorrect`, `LossNeedsStaleAdmins` (`AdminLossNeedsOverlap`), `AdminsChange` (`ChangedByAdminOnEntry`), `VersionsCount` (`OrganizationVersionCounts`), with and without overlaps; with one thread `AloneKeepsAdmin` (`OrganizationKeepsAdmin`) |
| `CatalogProofs` | `Invariance`, `TypeCorrect`, `CyclesNeedStaleWalks` (`CycleNeedsStaleWalk`), `MovesWithinDepth` (`MovedWithinDepth`), `AdminsRestructure` (`StructureByAdmin`), with and without overlaps; with one thread `AloneAcyclic` |
| `ScenariosProofs` | `Invariance`, `TypeCorrect`, `MixesNeedUnseenSaves`, `ReopeningIsStale` (`ArchivedReopensOnlyStale`); with one thread `AloneRulesAreWhole` (`Whole`) |
| `CopilotProofs` | `Invariance`, `TypeCorrect`, `LimitKept` (`AsksWithinLimit`), `GroundedAnswers` (`AnswersGrounded`), `CircuitCounts` (`CircuitFollowsFailures`), `DeletionsStay` (`ReturnsOnlyByStaleQuestion`) |
| `ExportsProofs` | `Invariance`, `TypeCorrect`, `DownloadsAreThere` (`ReadyHasObject`), `ExpiredAreGone` (`ExpiredHasNoObject`), `OrphansNeedFailedPosts` (`OrphansAreOfFailedPosts`) |
| `CalculationsProofs` | `RoundingIsFair`, `FiscalYearsPartitionMonths`, `ValidatedIsApplied` (`AppliesWhatWasValidated`), `EveryRowAccounted` (`RowsAccounted`), `ValidFilesStayApplicable` (`StaysApplicable`), `ReportsAgree` (`ReportsAddUp`), `PreviewsMatchSaves` (`PreviewMatchesSave`), `ToolsAnswerTruly` (`ToolsTellTheReports`), `ListsAreComplete` (`PagesComplete`), `DecisionsStandBehindGates` (`GatesStandForDecisions`) |

**Import jobs.** The properties speak of committed rows, and are not inductive: a
stale copy in some transaction could break them at its commit. `IInv` states the
same facts of every copy. *AppliedCopies*: no copy of a job that reads APPLIED
exists (in `seen`, `work`, `held` or a sweep) unless its entries are committed or
are in the same transaction. *Reservations*: a reserved key is unused and reserved
by nobody else. *FingerprintsDeclared* and *Answers*: a fingerprint belongs to the
content of its job, so a commit about to answer with another job has found entries
of the same content. *IndexUnique*: no live fingerprint twice among committed and
uncommitted rows. *RequestShape* ties each step of a request to what its record
holds. The proof takes one step per action; sweeps write PROCESSING or terminal
copies and never APPLIED ones that were not APPLIED when read. The refinement maps
`answered` to `idem` and `ledger` to `entries`: a commit that reserved a key is
`Apply` or `AlreadyApplied`, every other step stutters.

Three invariants are beside it. *LockInv* (`RowsExist` and `SlotLocks`): a job has one
transaction that holds a version of its row, and of two requests about to write a
validated fingerprint, the second saw the row that the first has locked; so two requests
wait for each other only if one writes back a fingerprint its committed row does not
carry. *KeysApart*: no file key belongs to two jobs, counting committed rows and every
copy. *AloneInv*, with one thread: the copies of the running request agree with the
committed row, and since no job is left PROCESSING, sweeps only work on jobs that have ended.

**Budget versions.** `Unclashed` says of two different versions that they do not
clash as committed rows, as one transaction sees them, and as two transactions
hold them, and that a row is held once. `RecordsHeld` says the same of idempotency
records. The argument needs no fact about statuses: stale copies may be written,
but no write passes `Admits` that would clash. That is why these properties
survive the races which break `ActiveIsPublished` and `VersionCounts`. What can be
said of statuses and counters rests on `SeenInv`: what a request is about to write is
one legal step (*Follows*) from a copy it has seen (*FromSeen*), rows are written late
and the deactivation first (*WritingOrder*), and what it has written of a row nobody
has changed since is what it saved (*Written*), since a row somebody holds is written
by nobody else. So a COMMIT that breaks the life cycle replaces a row its request has
not seen, or has seen with another content too. With one thread no copy is ever outdated (`AllFresh`), and the
promises hold outright (`AloneLifeCycle`).

**Organizations.** Reads change nothing but the record of their slot; three commits
write. `IInv` therefore says what each record holds at each step (*RequestShape*), that
the rows it found are still there (*RowsStay*), that the id of an organization being
created is nobody else's (*NewIds*), and, while `Sequential`, that what a request
has read is what is committed (*FreshRequest*). The last administrator is lost only
in `CommitMembership`, by a request whose `relied` holds nobody who still is an active
administrator; with one thread there is no such request. The other two properties are read
off the shape of the request that commits: past the permission check its `role` is admin,
and an update writes the number after the one it first read, which is the next one of the
row, or was taken by a commit since.

**Catalog.** `Ancestors` is the least set that contains the parents of the account and
of its own members, so a bound on it needs a closed set and no induction. A move makes a cycle
only if the account is above its new parent; `chain` does not hold it, because the move
was checked (*HierarchyChecked*), so the walk has missed an ancestor. With one thread the
walked chain is closed (*FreshWhenAlone*), hence covers everything above the new parent:
no cycle, and no more levels than were counted. With overlaps the same count bounds what is
above the new parent unless the walk has missed some of it (*WalkOutdated*). An analyst's
request past `structural` has decided nothing (`work` is `seen`), so all it can do is put
that back. *HeldApart* says that a code is held by one
transaction and then no row has it yet, *ParentsKnown* that a parent that was read
exists.

**Scenarios.** Only `Commit` writes what other requests read. *FirstRulesHit*: a
DELETE has seen the rules the scenario was created with, so rows that survive a commit
come from a save it could not see. *FreshWhenAlone*: with one thread a DELETE has seen
every committed row, which gives `Whole`.

**Copilot.** *SlotsCounted*: `taken` is at least the number of questions that hold a
slot (more where a slot was never given back) and at most the limit. *RequestShape*:
figures of an answer that is to be recorded are among the evidence of its question.
*CircuitFollowsFailures* is inductive: every outcome of a call updates counter and state
in one step, whatever calls began while the circuit was in another state. *FreshRequest*:
with one thread, an opened conversation is not deleted under its question.

**Exports.** An export is ready only if its object was put and its day has not come,
or a sweep is about to say so. The invariant adds to the two properties: a row exists
exactly for a committed post; a post about to commit has its object, or its day has
passed and the bucket may have dropped it (*Posted*); what a sweep has listed was committed and past
its day, and what it has marked it has deleted (*Listed*). Overlapping sweeps keep it:
a deletion never comes back, so a late sweep marks what is gone already. `due` never
shrinks, which makes `ReadyHasObject` inductive once sweeps list only what is due. An
object without a ready row then has no row (its post is not committed) or an expired one,
which *ExpiredHasNoObject* excludes.

**The calculations.** Their invariants are not about steps: a state is an input, the
invariant of the specification is that the input is one (`FileInv`, `LedgerInv`, `KeysetInv`,
`OffsetInv`, `RecordersKnown`, `ToolsInv`: a request's values are values a provider may send), and
the theorem is about operators. Three devices replace induction over data.
A fold of the library is unfolded to a run, a function that holds each intermediate
result; a statement about the run follows from the least index at which it fails, which
exists by the library's theorem that the naturals are well-founded. Sums over sets and
sequences are treated once (`Total`, `SumsSubsets`, grouped sums); what the breakdowns,
ranges, months and shares add up to are instances. A sorted list is the only enumeration of
its set in which each pair is in order (`Ordering`).

- *Amounts*: facts about integer division, each case a leaf of linear arithmetic.
- *Files*: the header is the first row that has the required columns; every line after it
  is a row, and the preview and the application compute the same header from the same
  bytes, since the settings they read are those that validation stored.
- *Rows*: a row is normalized, has an error, or is blank, unless the reading of one row
  ends the validation; more dimensions turn no normalized row into an error, because the
  checks ask only for what is missing.
- *Reports and previews*: grouping splits the ledger, so the groups' sums make up the
  whole. A rule hits entries by month and account only, so a preview may add up by the
  grain and apply the rules to each; saved rules are the same in the same order when
  their values fit the column.
- *Tools*: arguments that pass `validate_closed_schema` have the fields, types and
  bounds of their schema, so each handler meets its precondition; ranges that pass the
  check on overlap share no row; each share is off by half a quantum at most, and these
  errors add up to at most half a quantum per share.
- *Pages*: with a cursor by the sort key, what has been shown comes before the cursor and
  the rest comes after it, whatever changes between pages; with an offset, what has been shown is a
  prefix while the list stays.
- *Gates*: each check validates again what it loads, so a gate it counts has a file of
  that environment; who recorded it is known (`RecordersKnown`), hence a person where an
  agent is refused, which is at the protected gates only.

Corrections that the proofs led to. `MutualWaitNeedsStaleCopy` first blamed one
kind of stale copy only; TLC refuted that with three mappings in 32 steps. `Favorability` follows the profit only
for revenues and expenses, the types entries have. A preview and the
saved scenario agree also when two rules are equal. A file may hold text beyond its
last column before the header, which the table has to leave out. `Ancestors`, sorting,
merging of payloads and the closed schemas were restated so that they can be reasoned
about; the runs cover the new forms.

Only model-checked: liveness under fairness (`ProcessingEnds`, `QuestionsEnd`), which is
outside the prover. Every safety property of a
passing run is a theorem, and so are the type invariants of the seven modules of
requests.

## Not modelled

- The presigned upload (S3): `create` saves a replaced object while its row is
  pending in a session without autoflush, and the job never leaves CREATED. The
  models follow the proxy upload.
- Audit records, metrics: they ride in the modelled transactions, and no modelled
  state depends on them. That is also why the audit of a failed answer or a failed
  validation, added before the exception, is never stored.
- Two sweeps at once over import jobs: `ImportJobs` has one pass of the watchdog or of
  `retain-files` in progress at a time, which requests overlap in every order. The
  processes are separate, so two may overlap; `Exports` has that for retention.
- `purge_expired_error_reports`: one DELETE of rows nothing else refers to.
- Policies of the other tables (`20260831_0007_tenant_rls.py` repeats one expression),
  token verification, and the provisioning of users at their first request: no state
  shared between requests beyond one row.
- Character sets, Unicode normalization, the XLSX container, CSV quoting and escaping:
  conversions of text, not of state. A file that is no UTF-8 raises before any of it.
- The language model, its prompts and the wording of answers: external; the model of
  the provider may do anything.
- Retries with jitter: they delay a call and repeat it inside one call of the breaker.
- The web client, seed, evaluation, infrastructure: their requests are the inputs of
  the modules.

## What is left

1. A composition of `ImportJobs` and `BudgetVersions` in which `draft` is computed from
   version rows, to replace `CloseVersion`; then the theorem that it implements both.
2. The presigned upload, with its pending row, as a variant of `Create`.
3. An abstract specification of `Exports` (an object is there from the commit until its day) and
   of the limits of `Copilot`, to be refined as `ImportLedger` is.
4. `AppliesOnce` and `EntriesMeanApplied` in the form of the properties of `versions`: with
   the copies a request and a sweep have worked from kept in `tx` and `sweep`, only the
   COMMIT of an outdated copy breaks them.

## Running

```sh
tlc -workers 2 -config requests.cfg MCImportJobs.tla
tlc -workers 2 -config rules.cfg MCRules.tla
tlapm ImportJobsProofs.tla
```

Each configuration names its run; `PROJECT.json` lists its module. The proofs are in
the eight modules named `*Proofs`.
