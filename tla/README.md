# Formal model of the Gestao de Predios API

TLA+ modules, TLC configurations and TLAPS proofs for the core of the API under
`src/apps/api`: the life of a work order (ordem de servico), the money that follows
from it (commitments, measurements, contracts and budgets), its deadlines, the
notifications it causes and the preventive plans that create it; then who may sign in, who
pays, and the references and projects of the product OrcaPro Infraestrutura. The API is a NestJS server over MySQL 8.4 (Prisma); several
processes may serve the same database, so what makes it hard is not the handlers but
their interleaving: rows read before a transaction and used in it, snapshots older than
locks, workers that crash, steps that fail half-way.

`PROJECT.json` is the index: components, runs, the map from definitions to source lines,
the findings, the hazards and the theorems.

## 1. Inventory

| component (apps/api/src/modules) | state | operations | what is hard | what must hold |
|---|---|---|---|---|
| work-orders | WorkOrder, pendencies, status history, checklist, attachments, satisfaction | create, update, transition, add/resolvePendency, respondChecklist, uploadAttachment, close, reopen, archive, submitSatisfaction | reads before the lock, optimistic version, two sources of the suspended state | status, flag and pendencies agree; history is a chain; conclusion keeps its evidence; no lost update |
| finance: commitments | Commitment, CommitmentMovement | create, edit, archive, move; liquidation and payment by a measurement | four writers, two kinds of lock, snapshot reads | committed <= contract, liquidated <= committed, paid <= liquidated |
| finance: measurements | Measurement, MeasurementItem, totals on Contract | create, consolidate, decide, archive, KPI adjustment | checks outside the transaction, two aggregates | totals match, contract not exceeded, no order measured twice |
| finance: reconciliation | none (a report) | recompute and compare | - | its critical rules are invariants of the two above |
| notifications | NotificationOutbox, Notification, worker timers | enqueue, scan, claim, deliver, complete, fail | several workers, leases, crashes, lost answers | sent means delivered, settled is final, all settle |
| maintenance | MaintenancePlan, MaintenancePlanGeneration | plans, generate | three transactions per occurrence, concurrent runs, retries | one order per occurrence, none passed over |
| maintenance recurrence | none | nextOccurrence | month ends, leap years | matches a closed form |
| contracts | Contract and its instruments | amendments, adjustments, apostilles, edit, archive | recomputed sums under concurrent edits | current value = original + instruments |
| budgets | contract budgets, work-order budgets, catalogues | import, edit, activate, save, approve | ceiling without a lock, ACTIVE against a moving value | ACTIVE = contract value, approved <= ceiling |
| kpis | definitions, measurements, adjustments | calculate, adjust a draft | late write to a measurement | (with measurements) |
| auth, members | RefreshSession, TenantMembership, TenantInvitation | login, refresh, logout, invite, accept, suspend, revoke | rotation races revocation, invitation races acceptance | one live session per login; a member is not made a guest again |
| billing | TenantSubscription, StripeWebhookEvent, Tenant.status | webhooks | repeated, late, out of order, statements that commit one by one | the tenant has the status of its subscription |
| orcapro subscriptions | OrcaproSubscription, OrcaproStripeEvent | checkout, webhooks, administrator's actions | calls to the provider inside a transaction, answers already old | the licence follows the provider, a manual decision stands |
| operations | SlaCalendar, SlaPolicy, catalogues, teams | CRUD, resolve, calculateSla | validation before the transaction; time zones, holidays, walks backwards | one policy answers; deadlines are worked time |
| infraestrutura | InfraCycle and its chunks, InfraProject and its versions, a named lock | upload, import, seed, publish, delete; save, restore, migrate, trash, purge | importers that die or lose their lock; tabs that are behind | what passed stays passed, all queued end, history can be restored |
| buildings, suppliers, inspectors, geocoding, dashboard, reports, pilot, health, web | CRUD, caches, reports, user interface | - | - | - |

Interactions. Maintenance creates orders through `WorkOrdersService.create`. Finance reads
orders and links them to measurements; `close` and `reopen` look at those links.
A measurement posts liquidations and payments on the ledger of a commitment and keeps two
totals on the contract. An approved work-order budget writes the order's costs. Every
event of an order is enqueued in the outbox in the order's own transaction. The deadlines
of an order are computed by the policy that its priority, contract and category select; the
archiving of a contract deactivates its policies. The value of a contract decides whether
its budget may be ACTIVE, and that budget is the ceiling of the budgets of its orders. A
project of Infraestrutura is priced with a published cycle and keeps versions that name
older ones. Two products, the tenant's plan and the OrcaPro licence, are paid through one
provider, with tables and webhooks of their own.

## 2. Modules

| module | models | role |
|---|---|---|
| `WorkOrderLifecycle` | work-order-state-machine.ts | abstract specification of an order's status |
| `WorkOrders` | work-orders.service.ts | the aggregate and its concurrent requests; implements the former |
| `Commitments` | finance.service.ts 36-146, 300-377; finance-rules.ts | ledgers and ceilings |
| `Measurements` | finance.service.ts 186-342; kpis.service.ts 554-599 | measurements and totals |
| `NotificationOutbox` | notification-outbox.service.ts, .processor.ts | outbox and workers |
| `MaintenanceGeneration` | maintenance.service.ts 148-240 | reservations and generations |
| `MaintenanceRecurrence` | maintenance-recurrence.ts | the arithmetic of due dates |
| `SlaCalculator` | sla-calculator.ts | deadlines over a calendar, against a definition |
| `SlaPolicies` | operations.service.ts, sla-policy-resolver.ts, contracts archive | policies, their scopes and references |
| `ContractValue` | contracts.service.ts, contract budgets of budgets.service.ts | the recomputed value, the ACTIVE budget |
| `OrderBudgets` | work-order budgets of budgets.service.ts | stages and ceiling |
| `Members` | members.service.ts, auth.service.ts | one membership, its invitation and sessions |
| `Stripe` | external | the provider: subscriptions, events, redelivery |
| `OrcaproBilling` | orcapro-stripe.service.ts, orcapro-saas.service.ts | the licence; extends `Stripe` |
| `TenantBilling` | billing.service.ts | the subscription of a tenant; extends `Stripe` |
| `InfraCycles` | infra.service.ts 327-391, infraestrutura-import-lib.mjs | references and their importers |
| `InfraProjects` | infra.service.ts 33-287, infraestrutura-purge.mjs | projects; extends `InfraCycles` |
| `WorkOrdersProofs`, `MeasurementsProofs`, `NotificationOutboxProofs` | - | theorems about the module of that name |
| `ContractProofs` | - | theorems about `ContractValue`, `OrderBudgets` and `Commitments` |
| `OperationsProofs` | - | theorems about `SlaPolicies`, `SlaCalculator`, `MaintenanceGeneration` and `MaintenanceRecurrence` |
| `AccountsProofs` | - | theorems about `Members`, `OrcaproBilling` and `TenantBilling` |
| `InfraProofs` | - | theorems about `InfraCycles` and `InfraProjects` |
| `SumLemmas` | - | what sums over sets do, for the proofs about money |
| `MC...` | - | the same modules with symmetry sets and constant values for TLC |

A composed MC module (`MCMaintenance`, `MCSla`, `MCContracts`, `MCBilling`, `MCInfra`) holds
two modules that share a plan, a policy, a contract, a provider or the references. Where the two
share no row that either decides on, a variable `part` says which of them runs while the
other rests: the properties of each are about its own variables, so the product of the two
state spaces would show nothing more.

### How code becomes actions

*Transactions.* MySQL's default isolation is REPEATABLE READ: `SELECT ... FOR UPDATE`
locks and sees the newest row, and the plain reads of a transaction see the database as
it was at the FIRST of them. A handler whose first statement is the lock of the only row
it decides on is one action (`AddPendency`, `CreateCommitment`, `Transition` of a
measurement). A handler that reads first and locks later is two: `...Read`/`...Commit`
where the read is outside the transaction, `...Start`/`...Commit` where it is inside but
older than a lock it needs. Between the two any other request may run. The work-order
transactions are SERIALIZABLE, which makes their plain reads locking ones, so each is one
action after its lock; `archive` is not, and needs nothing but the locked row.

*Failure.* A failed check, a deadlock, a timeout and a dead process all leave the database
as it was: `Abandon`. Where a handler is a sequence of transactions (generate, the
worker) `Crash` and `Throw` leave what the earlier ones wrote.

*Data.* Amounts are small integers, names and texts are dropped, a due date is the number
of its occurrence. A ledger of movements is the sum per type, the only thing the code
computes from it. `updatedAt`, as a version, is a counter. Rights, tenants and formats
are left out: every query is tenant-scoped, so the model is one tenant.

### WorkOrders

`wo`, `pend`, `history` are the tables; `ready[w]` says that the evidence the category
requires (checklist answers, photographs) is present; `rated` and `measured` stand for the
rows of SatisfactionResponse and of MeasurementItem; `req[s]` is what request `s` has read.
An edition of the category's criteria by the operations module is not modelled: `ready`
takes them as they are.

`WorkOrderLifecycle` has two variables, the status and the place where a suspended order
continues. The refinement maps the second to the origin of the newest history row while
the order is PENDING: resolving the last pendency must bring the order back there, by
whichever of its pendencies.

### Commitments and Measurements

The two modules split `transitionMeasurement`: `Measurements` has the decision, the
contract's totals and the orders; `Commitments` has the two settlements as writers of the
ledger, and takes an approved measurement as given (`Approve`). The value of the contract
is a constant in both: neither service locks it against an amendment, which only lowers or
raises the number compared with, and `ContractValue` says how it moves.

In `Measurements` a decision is one action, because its lock and its snapshot coincide,
except the approval, which reads the contract it has not locked. In `Commitments`,
`MovementStart` has the snapshot, taken when the commitment is read and so before the
lock of the contract a reinforcement waits for.

### NotificationOutbox

`row[e]` is the outbox row, `inbox` and `mailed` the two channels, keyed by event as the
code keys them, `worker[k]` the worker of a process. The clock of a row is one Boolean:
its availability, or its lease, has come. `fail` writes the attempts of its own claim and
`complete` only checks PROCESSING, so a worker that outlived its lease may settle the
claim of another one: the lease may run out while a worker is still on its event.

### MaintenanceGeneration and MaintenanceRecurrence

A generation is a program counter over the loop of `generate`: reserve, or look at the
existing reservation, create, link, advance. Occurrences are numbers; that the dates
behind them never collide or skip a month is what `MaintenanceRecurrence` checks, with
the calendar of JavaScript's Date as external definitions. An edit that moves the plan
off its own dates starts another chain of occurrences and is not modelled.

A reservation that is PENDING is skipped by every other generation, so the one that made it
must complete it or write FAILED. `OnlyCrashesStrand` counts those that no generation has
any more: at most one for each that died, also when two retry one reservation or a step
fails. That the loop ends needs no property: it counts to 24 whatever its body does.

### SlaCalculator and SlaPolicies

`SlaCalculator` walks as the code does, a shift or a day per step, with the search for the
UTC instant of a local time as its own function (`ToUtc`). `Worked` is the definition it
is checked against: a tick is worked when its own local clock is within a shift of its own
date. The two agree where the bounds of the shifts exist exactly once around the change of
the clock (`BoundsExistOnce`); for a shift that begins in an hour skipped or repeated there
is no instant to agree on. A zone changes its clock once, back by at most a day, or forward
within one local date (`ZonesAreValid`): see the proofs for a change that crosses midnight.

In `SlaPolicies` the transactions are SERIALIZABLE behind the lock of the tenant: one
step, after a `...Read` step for what was validated before them. `request.outdated` is
the comparison of `updatedAt`.

### ContractValue and OrderBudgets

A snapshot is taken at the first read of a transaction, so an edition of an instrument,
which recomputes the value with no lock of the contract, is a `Start` with all it will
write, and a `Commit`. `overtaken` remembers that another transaction has committed what
it had read. An import is two steps as well: what it saw of the lines is older than
the lock it takes on the budget.

`OrderBudgets` has several contracts and, of each, only the ceiling, which any step of
`ContractValue` may move, so that it moves freely (`MoveCeiling`). `links` are the contracts
of each order, the primary one first. An approval is checked against one of them, the
primary one unless it is archived, or against none, and counts every order linked to it; an
update of the order replaces its links and looks at no budget (`Relink`). So what is
approved for a contract passes its ceiling in four ways, and `CeilingHolds` says that there
is no other: the ceiling comes down, an order is linked to the contract, an approval was
checked against another contract of its order, or a request commits after another
committed what it had not read. The third is the run `OrderCeilings`.

### Members

One person, one organisation. `req[r]` is what a request has read before its transaction;
a refresh has three steps, because its session is revoked in one statement and the next is
inserted in another. A login is named by its first token, which its successors inherit.

### Stripe, OrcaproBilling, TenantBilling

`Stripe` is written from how the two services use the provider: a subscription has a
status, each change is an event with the status of that moment, and an event is delivered
again, at any time, until it is answered. `OrcaproBilling` retrieves the subscription
under the lock of the licence and ignores the status in the event; `TenantBilling` writes
the status in the event, in statements that commit one by one. `disordered` is history:
the order of the events was broken before the service saw them.

### InfraCycles and InfraProjects

The importers hold a named lock of MySQL, which lives as long as an idle connection of
theirs, not as long as their work: `LoseLock` takes it from a process that goes on. Reading
a payload is one verdict. A transaction of theirs is committed, perhaps with its answer
lost, or rolled back for any error in it, and both errors reach the catch block.

The catch block writes FAILED on whatever the row has become. `doubtful` is history: the
cycles whose process lost its lock or the answer of a commit, and the seeded ones whose
publication was rolled back. The last takes no race: the seed's first transaction
leaves the cycle PASSED, an administrator may publish it, an error in the second one (a lock
wait, a deadlock, the connection) then writes FAILED on a published cycle, and no version
that names it can be restored. `PassedStaysPassed` says that nothing else undoes what was
checked.

Every write of a project locks its row first; what is stale is what a tab shows, the
version it loaded and the comparison it is about to confirm. `history` keeps the newest
`Retention` versions, none of which holds its cycle by a foreign key. A save or a copy may
keep a cycle that is no longer published when the owner is an administrator; the role is
an input of each request (`UsableKept`), since a grant may change it between any two.

### What holds when the reads are fresh

Most of the races in finance, contracts and policies are in the code. In finance a reinforcement, an edition, an approval and
an archiving each decide on something read before the lock that would keep it so. The
balances are therefore not invariants of the concurrent system, and stating them for one
request at a time would hide every interleaving. Instead each request remembers what it
read, `Fresh(s)` says that it is still so, and the properties `...KeptWhenFresh` say that
a step breaks a balance only by ending a request that is not fresh. They hold over all
interleavings, fail for any wrong check, transfer, sign or order of the operations, and
point at the reads that would have to move under a lock. `OnlyOvertakenEditsDiverge`,
`CeilingHolds`, `ReferencesKeptWhenFresh` and `MemberStaysWhenFresh` have the same form.

## 3. Runs

| run | instance | states | shows |
|---|---|---|---|
| WorkOrders | 1 order, 2 requests, 5 writes, 2 pendencies | 492 000 | five invariants, no lost update, the life cycle |
| Commitments | 2 commitments, 2 contracts, 2 measurements, 2 requests | 706 000 | the ceiling, the liquidated and the paid share |
| CommitmentsPaid | 1 commitment, 1 measurement, 2 requests | - | a violation, see below |
| Measurements | 2 orders, 2 measurements, 2 requests, KPIs | 706 000 | totals, ceiling, no duplicate by creation |
| NotificationOutbox | 1 event, 2 slow workers, 1 crash | 6 400 | sent, settled, leases; every event settles |
| Maintenance | 2 generations, 3 occurrences, a failure, 2 crashes, an edit; 2024 to 2026, five start days | 475 000 | one order, none passed over, only crashes strand; closed form of the due dates |
| Sla | 2 priorities, 1 policy more, 2 calendars, 1 contract, 2 requests; 6 calendars, 12 zones, 4 policies | 313 000 | one policy answers, a fallback stays, references; deadlines and warnings are worked time |
| Contracts | 2 instruments, 1 line, 2 transactions; 3 budgets of 2 orders, 2 contracts, 2 requests, 1 change of a contract | 300 000 | ACTIVE equals the value, the value is its sum, the ceiling |
| OrderCeilings | the same | - | a violation, see below |
| Billing | 3 subscriptions (1 plan), 2 handlers, 3 or 4 events | 1 674 000 | licence, manual decisions, tenant |
| Members | 3 requests, 4 tokens | 50 000 | rotation, invitations, membership |
| Infra | 2 importers, 2 cycles of 2 chunks, 2 faults; 2 tabs, 2 projects, 3 writes, 2 beside a seed | 699 000 | versions, history, checks; queued cycles end |

*Why these bounds.* Orders never touch one another's rows, so one order is every order;
two requests are enough for each read-commit race, and five writes reach a conclusion and
its reopening with a third party in between, or a suspension with two pendencies; longer
lives are the matter of the proofs. Two commitments of two contracts are the smallest
instance with a transfer; a contract of value 3 is filled by one issue of 3, or by parts of
1, one of them a reinforcement or an edition. Movements reach a liquidation, a payment and
a second one, or a cancellation and two liquidations (`MaxMoved`); `MaxMovedTogether`
bounds them when both commitments have some. Two measurements over two orders share an
order or split them, and at 2 units each, one more or one less by KPIs, a contract of 3
takes one of them, or both after a penalty. Three occurrences have a first, a middle and a
last one, and a limit per generation of two falls inside the horizon; two crashes can
strand two of them. Three years contain
the leap February, both turns of a year and a whole cycle of every frequency; 1, 28, 29, 30
and 31 are the days on which months differ. The SLA week has days of six ticks, enough for
one shift, two with a pause between, and two that touch; its zones shift the clock either
way, or not, inside and outside of working hours, and orders open before, in and after a
shift, on a day off and around the change. One policy beside the defaults can take any
scope and priority that two requests give it, and with it each of the two has something to
find in its way. Two instruments and one line are the smallest contract in which one
transaction overtakes another and a budget matches the value in two ways; an order with two
stages and one with one are enough for a stage that replaces another and a total over
orders, and a second contract, that an order may come to or have as its primary one, is
enough for a link after an approval and for a contract that is not checked (in this part
each order has one stage). A licence may see a subscription replaced twice, with three
events about each; a
tenant has one plan with four. Three requests, two of one refresh and a third party, and
four tokens, two logins with a rotation each. Two importers and two cycles have an
exclusion and an order, two faults a crash of the process that took over; three writes give
a project three versions, one more than it keeps (`Retention` 2), or two beside another
project. Where a seed is about to publish, two writes bind its cycle and leave it again, so
that a kept version names a cycle in doubt.

Symmetry is used only where identifiers are interchangeable and no liveness is checked. The
bounds on writes, movements, edits, failures and crashes are in guards and named in
CONSTANTS; the one on the writes of an outbox row (`MaxWrites`) never binds. CHECK_DEADLOCK
is off because the bounds stop the system, and because a finished calendar, a computed
deadline or an outbox without events has nothing to do.

*Fairness.* `NotificationOutbox` assumes weak fairness of each worker (`schedule` calls
itself after every batch, `sendEmail` aborts after a timeout, a dead process is
restarted) and of the clock. `EveryEventSettles` is checked with one crash: a claim that
dies on each of its attempts stays PROCESSING with `maxAttempts + 1` for ever.
`InfraCycles` assumes that cron starts an importer again
(weak fairness of `Acquire`: a process ends only by giving the lock back or dying, so the
lock comes free for good until one takes it) and that a process that runs keeps running.
Nothing is assumed of administrators, of faults or of the seed command.

### Where the code and its documents disagree

Two runs expect a violation.

* `CommitmentsPaid`: the payment of a measurement does not lock the commitment, so it and a
  manual payment spend one liquidated balance
  (docs/28-v019-conciliacao-financeira-e-homologacao.md:23).
* `OrderCeilings`: an approval is checked against the primary contract of its order, and
  passes the ceiling of another one, that counts the order as well
  (budgets.service.ts:823-841; docs/28, line 41: "A API valida o teto dentro da transacao ao
  [...] aprovar orcamento de OS").

Others were met on the way; the properties of the passing runs are stated around them.

* REJECTED to DRAFT does not look at the orders again (docs/03-regras-ordens-de-servico.md:237
  lets an order into one measurement only): `OnlyResumptionsDuplicate` names it as the only way.
* A failed link leaves an order, and the retry creates another; so do two generations that
  retry one reservation (docs/13-plano-inicial-de-issues-codex.md:200, "sem duplicidade"):
  `OneOrderUnlessAStepFailed`. A failed occurrence is passed over by the next success.
* Jan 31, Feb 28, Mar 28 (maintenance-recurrence.spec.ts:5, "preserva o fim do mes"): the
  closed form has the drift.
* Archiving cancels a CLOSED order, which the diagram of docs/03 leaves out: `Cancel` of the
  life cycle allows it.
* docs/28, invariants 1 and 6: the value of a contract differs from the sum of its
  instruments, and approved budgets exceed the ceiling, when one transaction overtakes
  another: `OnlyOvertakenEditsDiverge`, `CeilingHolds`. An order that is linked to another
  contract after its approval (work-orders.service.ts:672-711) takes that one past its
  ceiling with no race at all.
* A generation that dies leaves its reservation PENDING, and maintenance.service.ts:199 skips
  it from then on: `OnlyCrashesStrand` counts these occurrences, that never get an order.
* docs/adr/0005-stripe-fonte-cobranca.md asks the webhook to tolerate repetition and any
  order; billing.service.ts:202-230 writes the status the event carries, so the last event
  handled stays, however old: `TenantFollowsInOrder` is about events handled in order.
* orcapro-stripe.service.ts:79 lets an `incomplete_expired` subscription be replaced, and
  line 167 ignores the events of the new one unless the old is `canceled`: "aguarde a
  confirmacao do Stripe" (line 85) then never comes true. `LicenceFollowsProvider` is about
  the subscription the licence is linked to.
* infraestrutura-import-lib.mjs:149-151 says that an interrupted import is taken up "without
  processing it concurrently"; the named lock is lost with an idle connection while its
  holder goes on, and its catch block writes FAILED whatever the row has become:
  `PassedStaysPassed` leaves these cycles out (`doubtful`), and with them a seed whose
  publishing transaction is rolled back: lines 207-208 mark its checked cycle as FAILED.

## 4. Proofs

tlapm checks that every invariant and every action property of the passing runs, and the
refinement of the life cycle, hold for every value of the constants. Only the two
liveness properties are left to TLC. A theorem assumes what the modules state of their
constants (`ASSUME`), which TLC evaluates in the runs. Each follows from an inductive
invariant, described here by the part that the stated property lacks. The liveness
properties (`EveryEventSettles`, `QueuedEnds`) rest on fairness, and so on
ENABLED, which is out of the prover's reach.

### Orders and notifications

*The invariant of the work orders* (`WorkOrdersProofs`). `PendencyCoherence` alone is not
inductive: resolving the last pendency restores the status it remembers, which must not be
PENDING, so `PendenciesAgree` is needed; that compares with the newest history row, so the
history must end in the current status; closing needs the evidence, and a committed
transition needs its target to have been admissible for the status it read. `IInv` is the
conjunction of types, of the targets of pending requests (`RequestOK`), and for each order
of `OrderInv`: coherent, agreeing, chained, conclusive, rated, and archived orders
CANCELED. `RestoredStatus` never falls back to IN_PROGRESS in a reachable state. Each
action owes the invariant of the one order it touches (`...Owes` lemmas); `OwesSuffices`
and `FrameKeeps` give the others theirs; `Inductive` collects them. `NoUpdateIsLost` needs
a second fact: every write of a row raises `updatedAt`, so a row with the version that was
read is the row that was read (`Versioned`, `ReadsKept`). `ImplementsLifecycle` has one
lemma per action that says which abstract step it is.

*Outbox* (`NotificationOutboxProofs`). `SentMeansDelivered` needs that a worker past a
channel has filled it (`PastMeansDelivered`), and that the candidate it read is a version
of the row (`CandidateIsVersion`), without which a claim that finds the row unchanged would
say nothing about its lease. `SettledIsFinal` and `LeaseIsRespected` are steps of it.

### Money

*Sums* (`SumLemmas`). What a contract has committed, measured or paid is a sum over rows,
a fold of the community modules. Its recursion is unfolded once and for all: the function
that the fold chooses exists on the subsets of up to n elements for every n (`SumsUpToAll`,
by the least n for which it would not), so a sum can be split at any of its elements
(`SumFunctionSplit`) and moves with one of them (`SumFunctionUpdate`). With this the
balances need no induction of their own. A sum of what is not negative grows with its set
(`SumSubset`).

*Contract value* (`ContractProofs`). An activation in progress has read the current value,
because it holds the contract; and every editor whose snapshot no other has overtaken will
write the sum of what is in the database (`EditsAreSound`). So an edition that is not
overtaken leaves the value the sum of its instruments, and a budget the sum of its lines.

*Budgets of orders* (`ContractProofs`). A save that nothing overtook has read the status
that is still there, and an approval that nothing overtook still fits (`ApprovalsFit`): what
it adds is the difference between its own stage and the one it replaces (`OfficialIsByLatest`),
by the split of the sum at its order. This is said of the contract that the approval was
checked against; for every other contract the theorem needs that the order is not linked to
it, or names the step (`CommitsFit`, `CeilingKept`). Steps that only take orders away from a
contract lower its sum, because no total is negative (`FewerOrders`, `ContractsStayWithin`).

*Commitments* (`ContractProofs`). Whatever moves on a commitment has its row
(`RowsComeFirst`); an edition that goes on has read a ledger with no later movement
(`UpdatesComeFirst`); a movement is alone on its commitment, by its lock, and a settlement
alone on its measurement (`MovementsHold`, `SettlementsHold`). What each commit writes is
one lemma (`...Writes`), what it does to the balances another (`...Balances`).

*Measurements* (`MeasurementsProofs`). An approval in progress is alone on its measurement,
which stays under review (`ApprovalsHold`), so that its commit resumes nothing, and adds
its own value to the total once.

### Plans, policies and deadlines (`OperationsProofs`)

*Generation.* Without failures, an order belongs to the one run that reserved its
occurrence (`Reserved`); without edits, no plan or run is beyond an occurrence with no
reservation (`NoGaps`). A step leaves no occurrence stranded that was not, except `Crash`,
which lets go of the one its run is at: the set grows by one at most.

*Recurrence.* The date after n steps is n units of days after the start, or n steps of
months after it with the day of the start cut by the months on the way (`DayIsCut`): that
is the drift which the closed form states, and the reason why it is not the n-th
multiple of the unit. `DaysBefore`, recursive over the months, is unfolded like the sums, by
the least month at which it would fail.

*Policies.* Active policies differ in their scopes (`ScopesDiffer`), and then the rank of a
policy determines its scope (`RankDeterminesScope`), so that the best is one. The clash
error of the resolver is unreachable, and `OrdersResolve` says the same of "no policy"
while references hold.

*Deadlines.* The walk counts worked time up to an instant p that no variable holds
(`ForwardTo`): what was worked since the start until p, and what remains, make up the
duration; the shifts already taken end before p, and those to come begin after it or have
begun at the start. Taking the first of the remaining shifts moves p to its end, over time
that is not worked and then time that is (`NextShiftForward`); the answer is a p at which
nothing remains. The walk backward is its mirror image, and a warning is not before the order because
from there more time would be worked than the order has (`EarlierWorksMore`). Between the
walk and the clock stand the lemmas about the zone: a local time that exists once is found
by `zonedDateTimeToUtc` and divides the instants in two (`InstantIs`); bounds of shifts that
exist once around the change do so on every date (`AllBoundsExistOnce`); and the edge of a
day by which the walk enters it is outside its shifts (`EdgesOfDate`). The last lemma is
false for a clock that is put forward over midnight from before it: local 23:30 to 00:30,
as in some places a century ago. The candidates for 00:00 then miss the change, the walk
enters the day too late, or leaves one too early, and TLC finds the wrong deadline in a
zone that jumps so. `ZonesAreValid` leaves such zones out; it holds of the changes at
midnight (00:00 to 01:00), up to midnight and of a whole day.

### Accounts and licences (`AccountsProofs`)

*Members.* Sessions of a login begin with its first token (`LoginsStarted`), so that a new
login never meets an old chain.

*Provider.* The newest event about a subscription carries its status (`LogIs`), and a
change of it leaves an event that is still to be delivered (`Tells`).

*Licence.* While something about a subscription is still to be told (`StillToTell`), the
licence may lag; once nothing is, a handler at work has retrieved the status that the
subscription has now, or its event is still pending (`WorkInv`), and the row has it
(`RowInv`).

*Tenant.* Under in-order, one-at-a-time processing, the row has the status of the last
event processed, or that of the one being processed after its statement (`RowFollows`): a handler
that dies between two statements leaves the event to a later one that writes the same.

### Infraestrutura (`InfraProofs`)

A process that works on a cycle not in doubt is alone on it, and the cycle is PROCESSING
(`WorkIsExclusive`), so that a process which fails after its cycle has PASSED is on one in
doubt: it lost its lock or an answer, or is a seed whose publication was rolled back. A tab
never
shows a version ahead of its project (`TabsAreBehind`). A step of the importers can only
move a cycle along (`Advances`), which is all that the projects need of them.

## 5. Not modelled

Comments, downloads, listings and reports (no state), the SLA instants stored on an
order, the files behind attachments, rights and tenants, the SINAPI catalogues and the
import of spreadsheets, the recovery of passwords, and the components marked so in
`PROJECT.json`, each with its reason there.

Most of the repository's lines are not programs with state of their own to model: the
browser code of the two legacy products under `orcapro/legacy` and `apps/infraestrutura`
(calculation and formatting of one user's document, examples and tables of data), pages of
the web client, seeds, migrations and DTOs. The definitions here stand for the services
that decide something under concurrency or failure; modelling more of those lines would
restate formatting and CRUD.

## 6. Plan

Done: work orders, commitments, measurements, outbox, maintenance, calendars, policies,
contract value, budgets, members, billing, infraestrutura, with the proofs above: no safety
property that a run checks is without its theorem. What could follow, in this order:

1. The receipts of bulletins and the own records of Infraestrutura, and its login throttling.
2. The rule that a tenant keeps an owner, over several memberships of `Members`.
3. The attachments: a file written before its row, and the crash between the two.
4. The value of `ContractValue` as the ceiling that `Commitments` and `Measurements` read.
