# Verification of the MSP PSA core

MSP PSA is a professional services application for managed service providers: a
Next.js server (`src/server`), a workflow engine shared by the server and a
worker service (`src/shared/workflow`, `src/services/workflow-worker`), Postgres
and Redis. This directory holds TLA+ models of the parts whose state is changed
by several processes, or over several steps, and in which a mistake costs money
or events; the configurations with which TLC checks them; and proofs that TLAPS
checks for every value of the constants.

## 1. Inventory

| component | state | operations | interacts with |
|---|---|---|---|
| Credit ledger (`creditActions.ts`, `clientBilling.ts`, `expiredCreditsHandler.ts`) | `companies.credit_balance`, `transactions`, `credit_tracking`, `credit_allocations` | issue (prepayment, negative invoice), apply, expire, transfer, change the date | invoices, expiration job, reconciliation |
| Invoices (`invoiceModification.ts`, `invoiceGeneration.ts`, `manualInvoiceActions.ts`) | `invoices`, items | generate, edit, finalize, reopen, delete | credit ledger |
| Credit reconciliation (`creditReconciliation*.ts`) | `credit_reconciliation_reports` | validate, resolve, four fixes | credit ledger |
| Redis stream client (`redisStreamClient.ts`) | stream, consumer group with its pending entries, dead letter stream | publish, read, acknowledge, claim, bury, publish again | workflow worker, server |
| Distributed lock (`distributedLock.ts`, `distributedTransaction.ts`) | one Redis key per lock | acquire with retries, extend, release, run a transaction | workflow runtime |
| Workflow worker (`WorkflowWorker.ts`) | none of its own | process a global event: look up attached workflows, start each, submit the event | stream client, runtime |
| Workflow runtime (`workflowRuntime.ts`, `workflowEventSourcing.ts`) | executions, events, snapshots; per process a state cache and the running functions | start, submit, enqueue, replay | worker, actions |
| Event bus (`eventBus/index.ts`) | streams by event type | publish, subscribe, process | subscribers |
| Jobs (`jobScheduler.ts`, `job.service.ts`) | pg-boss queues, `jobs`, `job_details` | schedule once, at a time, recurring; run | credit expiration, reconciliation, invoices |
| Billing cycles (`createBillingCycles.ts`, `billingCycleActions.ts`) | `company_billing_cycles`, the company's frequency | create the first and the next ones (job, user), change the frequency, remove, delete | generation of invoices |
| Invoice generation, billing engine (`invoiceGeneration.ts`, `billingEngine.ts`) | `invoices`, items | look for an invoice, compute the charges, insert, persist the items, roll unapproved time over | cycles, time entries, invoices |
| Time sheets (`timeSheetActions.ts`, `timeSheetOperations.ts`, `timeEntryCrudActions.ts`) | `time_sheets`, `time_entries` | enter, edit, delete, submit, approve, ask for changes, reverse | billing engine |
| Schedule entries (`scheduleEntry.ts`, `recurrenceUtils.ts`, `scheduleActions.ts`, calendar and popup) | `schedule_entries` with `recurrence_pattern` | create; update or delete one occurrence, it and the later ones, or all | calendar |
| Bucket usage (`bucketUsageService.ts`) | minutes used per period | add minutes, recompute | time entries |

What is hard: `finalizeInvoice` is three transactions with reads in between, and
two of them may run at a time on one invoice; credits are spent, transferred and
expired by users and a job in any order; the stream client's processes crash,
outlast time-outs and lose replies; the lock expires while its holder works;
an invoice is generated in five steps, between which time is entered, approved
and reversed and cycles come and go; and an update of a recurring entry writes
back a pattern that it has read before, for a page that was loaded earlier still.

Correctness, by component:

* ledger - the balance can be explained at every moment; no invoice is allocated
  more credit than its amount, unless its totals were written again after its row
  (which section 5 is about); a prepayment reaches the balance once; no credit is
  left less than nothing, and an expired one is empty and stays as it is;
* stream client - no event is lost, whatever dies or fails; retries are
  counted; each event is settled in the end; what is pending is bounded;
* lock - no two functions run that are in time; a late release takes nobody's
  lock; nobody waits forever;
* worker - an event that counts as handled has started every workflow attached
  to it, except where a command is known to have failed; what is left half
  started has a cause; a workflow that waits is answered;
* reconciliation - a discrepancy is corrected once per user at most, and no
  correction lets an invoice be covered beyond its amount;
* billing - the cycles of a company do not overlap; time is billed by the
  invoices of one cycle only; a second invoice of a cycle comes of calls that
  overlap;
* schedule - what has been taken out of a series stays out of it; splitting a
  series by its own rule (without a new pattern, although the popup normally sends
  one) loses no day and adds none.

`PROJECT.json` lists every component (those left out with the reason), the
hazards at their lines with the properties that watch them, the source lines of
every definition, and for each property a plausible bug that makes it fail.

## 2. Modules and what they stand for

```
CreditLedger <--EXTENDS-- CreditReconciliation          WorkQueue (abstract)
     ^                          ^                        ^           ^
CreditLedger_proofs      CreditReconciliation_proofs     | refines   | INSTANCE
     ^                          ^                    ConsumerGroup  WorkflowWorker
CreditBilling_proofs -----------+                        ^           ^
                                             ConsumerGroup_proofs  WorkflowWorker_proofs
DistributedLock <-- DistributedLock_proofs

BillingCycles <--+
                 +--EXTENDS-- InvoiceGeneration <-- InvoiceGeneration_proofs
TimeSheets <-----+
ScheduleEntries <-- ScheduleEntries_proofs
```

Each `MC*` module instantiates its namesake for TLC. An operator commented
"Variant" is a wrong version of the definition that follows it; replacing the
definition by it must make a run fail.

### CreditLedger

| model | code |
|---|---|
| `balance` | `companies.credit_balance` |
| `invoice` | `invoices`: `subtotal`, `tax`, `total` (= `total_amount`), `applied` (= `credit_applied`), `allocated` (= the sum of its `credit_allocations`), `finalized` (= `finalized_at` is set), `filled` (the totals have been written); `offered` is history: the loosest total that a page still open may have been loaded with, 0 where the form asks for no more than a credit has, and `rewritten` says that the totals were written again after the row, by an editor or by the second half of `generateInvoice` |
| `credit` | `credit_tracking` with what the code reads of `transactions` for a row: `used`, the applications that name it, and `expirationTx` |
| `txSum` | the sum of a company's transactions of the six credit types |
| `job` | the local variables of a `finalizeInvoice` that is under way |
| `moved` | history: what `updateCompanyCredit` added for an invoice with no tracking row changed along with it |
| `CreatePrepaymentInvoice`, `GenerateInvoice`, `InsertCycleInvoice` + `FillCycleInvoice`, `EditInvoice` | `createPrepaymentInvoice`, `generateInvoice` / `generateManualInvoice`, the two halves of `generateInvoice` when something comes between, the editors of manual items |
| `FinalizeMark`, then `FinalizePrepayment`, `FinalizeNegative`, or `FinalizeReadCredit`, `FinalizeReadInvoice`, `FinalizeApply` | `finalizeInvoice` / `finalizeInvoiceWithKnex`: the mark is one transaction; what follows depends on the row it read |
| `ApplyCreditToInvoice` | `applyCreditToInvoice`, called from a credit form, whose page may be as old as the invoice: the form caps the amount by the total of its page, the action by what is left of the invoice once something has been allocated |
| `UnfinalizeInvoice`, `HardDeleteInvoice` | `unfinalizeInvoice`, `hardDeleteInvoice` |
| `ExpireCredits`, `ManuallyExpireCredit`, `TransferCredit`, `UpdateCreditExpiration` | `expiredCreditsHandler` with `processExpiredCredit`, `manuallyExpireCredit`, `transferCredit`, `updateCreditExpiration` |
| `Crash` | the end of the process, or an exception, between two stages of a finalization |

An action is one database transaction. Which credits an application takes from
(`Draws`) is the code's order: the earliest expiration date first, no date last,
then age; credits that have lapsed on the clock are passed over even before the
job has marked them. Dates are ticks of a clock that the environment moves.

### CreditReconciliation

Extends the ledger: each of its steps is a step here (`LedgerStep`), so that
validations, reports and corrections meet every state of the ledger.

| model | code |
|---|---|
| `report` | `credit_reconciliation_reports`; `corrected` is history |
| `checking` | the companies whose balance has been validated by the job run that is under way |
| `clerk` | what a request of a user has read, between the last read of the report and the transaction that acts on it |
| `twin` | a tracking row made for a transaction that has one already |
| `ValidateCreditBalanceWithoutCorrection`, `ValidateAllCreditTracking` | the functions of those names |
| `ReadReport` | the last `getById` of a request, on a connection of its own |
| `ResolveReconciliationReport`, `CreateMissingCreditTrackingEntry`, `UpdateCreditTrackingRemainingAmount`, `ApplyCustomCreditAdjustment`, `MarkReportAsResolvedNoAction` | the actions of those names |

`Legacy` is a company's credit from before tracking rows existed (the tables
were added by a migration of February 2025 that made none), which is what a
"missing tracking row" report is about. `Passed` is `FALSE`: the code compares a
`Date` with an ISO string (`creditReconciliationActions.ts:86`), which is never
true, so the branch that is meant to record expirations while validating is never
taken (section 5).

### WorkQueue and ConsumerGroup

`WorkQueue` is what the engine needs of a stream, whoever reads it: a published
event stays open until a handler has returned for it, it is a dead letter, a
copy of it has been published, or the stream, whose length is limited, has
dropped it. `ConsumerGroup` is `RedisStreamClient` with the consumer loops of the
workers over one stream and one group, and implements it (`IsQueue`).

| model | code |
|---|---|
| `stream`, `delivered`, `owner`, `idle`, `deliveries` | Redis: the entries, the last delivered id, the pending list with owners, what has been idle for `claimTimeout`, the delivery counters |
| `phase` | where the `processEvents` loop of `startConsumer` is: look for pending entries, read own, read new, work, claim, work on claimed |
| `work` | where the handling of each entry of the batch is (they run concurrently) |
| `dlq`, `copyOf` | the dead letter stream; the entry a republished one comes from |
| `Publish` | `publishEvent`, with the trimming `XADD MAXLEN` does |
| `Look`, `ReadOwn`, `ReadNew`, `ReadOwnFails`, `EndBatch`, `Claim`, `LoopError` | the loop and `readGroupMessages`, `claimPendingMessages`; a failed command |
| `Succeed`, `Fail`, `Ack`, `AckError`, `Inspect`, `Bury`, `GiveUp` | the handling of one entry, its `XACK`, the look at its counter, `moveToDeadLetterQueue`, and what happens when one of those commands fails |
| `Reprocess` | `reprocessDeadLetterQueueMessage` |
| `BecomeIdle`, `Crash` | time, and the end of a process with a restart under another name |

One action is one Redis command, so that other workers act between any two. The
exception is `Reprocess`, an `XRANGE`, an `XADD` and an `XDEL`: no worker reads the
dead letters, and a second run that finds the letter before the first deletes it
leaves what a failed `XDEL` and another run leave, which the model has.
What Redis does with a command is external and modelled as the client uses it.

### WorkflowWorker

The worker over `WorkQueue` (instantiated, with `WorkflowWorker`'s `open`,
`handled`, `dropped`): `Publish`, `Settle` and `Drop` are the queue's.

| model | code |
|---|---|
| `run` | a `processGlobalEvent` under way: its next command, the workflows it has still to start, the one it is about |
| `exec` | an execution: its row and log (`started`, `submitted`, `recorded`), the workflow function in the worker's memory (`fn`), and the state object the listeners are looked up in (`object`) |
| `failed` | history: the workflows of an event for which a command has failed |
| `Begin`, `FindAttachedWorkflows`, `FindError`, `Next1`, `Return` | the handler from its call to its return, the look-up answering "none" when it fails (`WorkflowWorker.ts:581`) |
| `Create`, `Start`, `Load`, `Persist`, `Record`, `StepError` | `startWorkflowByVersionId` and `submitEvent`, command by command |
| `Function` | `executeWorkflow`: the function up to its first `waitFor`, or its end |

The handler returns normally whatever fails in it, so no event of it is ever
buried. A test event, which names its workflow, is the case of one attached
workflow; an invalid event, or one without a tenant, returns at once.

### DistributedLock

| model | code |
|---|---|
| `lock`, `ttl` | the key (its value is the owner id of a call) and its `PX` time |
| `pc`, `age`, `waited` | a `withLock` or `executeTransaction`: where it is, the time since Redis set the key, the time spent waiting |
| `Start`, `Acquire`, `GiveUp`, `Extend`, `End`, `Release` | `acquire` with its retries, `extend`, the function, `release` (a script that compares the owner id) |
| `AcquireError`, `ReleaseError`, `Crash` | a command whose answer is lost or that fails; the end of the process |
| `Tick`, `ExpireKey` | time, in steps of at least the retry interval |

### BillingCycles

| model | code |
|---|---|
| `now`, `frequency`, `cycles` | today, `companies.billing_cycle`, `company_billing_cycles` (`effective` and `end` are the period's dates, `active` is `is_active`) |
| `creator` | what a `createCompanyBillingCycles` under way has read: the frequency, and where the next cycle begins |
| `CreateCompanyBillingCycles`, `CreateBillingCycle`, `EndCreation` | its reads; one insertion, which is refused (`IsDuplicate`) where a row with that date is; its end |
| `UpdateBillingCycle` | `updateBillingCycle` |
| `DeactivateCycle`, `DeleteCycleRow` | the last statements of `removeBillingCycle` and `hardDeleteBillingCycle` |

What the calendar does with a date are the operators `StartOfCycle` and
`NextCycleDate`. `CalendarAligned` states what monthly, quarterly, semi-annual
and annual cycles have in common: a cycle begins at a start and ends no later
than the next. Weekly and bi-weekly cycles begin wherever the last one ended.

### TimeSheets

| model | code |
|---|---|
| `sheet`, `entry` | `time_sheets.approval_status`; per entry its start and status |
| `SaveTimeEntry`, `DeleteTimeEntry` | `saveTimeEntry`, `deleteTimeEntry` |
| `SubmitTimeSheet`, `ApproveTimeSheet`, `BulkApproveTimeSheets`, `RequestChangesForTimeSheet`, `ReverseTimeSheetApproval` | the actions of those names, each with what it does to the entries of the sheet |
| `MarkedInvoiced` | the entries with `invoiced`: none, as no statement sets the column |

### InvoiceGeneration

| model | code |
|---|---|
| `invoices` | `invoices` with their items; `lines` says of which entries, at which time, an item is (the code does not record it) |
| `generator` | a `generateInvoice` under way, by what it has read and still uses |
| `removal` | a removal of a cycle, between the deletion of an invoice and the change of the cycle |
| `GenerateInvoice` | the reads of `generateInvoice` up to the look for an invoice of the cycle |
| `CalculateBilling` | `calculateBilling`, `calculateTimeBasedCharges`, and what an invoice of nothing becomes |
| `InsertInvoice`, `PersistInvoiceItems` | the two writes of `createInvoiceFromBillingResult` |
| `ReadUnapproved`, `MoveEntry` | `rolloverUnapprovedTime`: the look-up, and one update per entry |
| `RemoveInvoiceOf`, `RemoveCycle`, `HardDeleteInvoice` | `removeBillingCycle` and `hardDeleteBillingCycle`, `hardDeleteInvoice` |
| `FailGeneration`, `FailRemoval` | an error, or the end of the process, between two steps |

### ScheduleEntries

| model | code |
|---|---|
| `rows` | `schedule_entries`: the day, and the pattern (`rule` is frequency, interval, weekdays and count; `end`; `exceptions`) |
| `popup` | the event a page shows, and what the transaction for it has read (`row`) |
| `VirtualDays` | the occurrences the calendar shows beside the row's own day: `getRecurringEntriesWithAssignments` with `generateOccurrences` |
| `Create`, `Open`, `Read` | `create`, the page, the `SELECT` at the beginning of `update` and `delete` |
| `UpdateSingle`, `UpdateFuture`, `UpdateAll`, `UpdateRow` | `update` by scope: a new row and an exception; the old series ended and a new one begun; the row changed; no recurrence |
| `DeleteSingle`, `DeleteFuture`, `DeleteRow` | `delete` by scope |
| `hidden`, `raced` | history: the days users have taken out of a row's series (an occurrence given another day is not taken out: the code leaves it), and those of which a transaction did not know when it wrote the pattern |

## 3. Runs

`tlc -workers 2 -config <Name>.cfg <Module>`, each below five minutes.

| run | states | instance | question |
|---|---|---|---|
| `LedgerAll` | 1,070,108 | 2 companies, 2 invoices, 2 credits, subtotals 3 and -1, one process, every rare operation once | Is a balance explained by credits, prepayments and finalizations wherever a process stops, and after reopening, editing and deleting? Is an expired credit empty, and no credit overdrawn? Is an invoice covered beyond its amount when it is reopened or its finalization dies? |
| `LedgerBilling` | 354,258 | 2 companies, one billed, 2 processes, amounts 1 and 3, tax 0 and 1, something once between the halves of `generateInvoice` | Do the transactions add up? Do two finalizations and credit forms of any age allocate more to an invoice than its amount? Is a prepayment added once, and in the end? Do expired rows stay? |
| `Reconcile` | 602,560 | one company with an old credit of 2, an invoice, 2 credit ids, 2 users, 2 reports | Are corrections bounded by the users that read the report open, and does an invoice stay within its amount whatever is corrected? |
| `GroupFaults` | 723,875 | 2 workers, 2 events, a stream that keeps one, a crash, 2 failing handlers, a failed command, a dead letter republished | Is an event ever lost? Are retries counted? What bounds the pending list? Is it a `WorkQueue`? |
| `GroupLive` | 149,121 | 2 workers, batches of 2, a crash, a failing handler | Is every event settled in the end? |
| `Lock` | 1,745 | 3 calls, time to live 2, waiting time 2, functions up to 3 | Do two functions that are in time run? Does a late release harm another call? Does the key go, does waiting end? |
| `Worker` | 361,259 | an event with 2 of 3 workflows attached, 2 workers, given twice; a crash, a failed command, a trimmed stream | Is a start ever lost? What can be left half started? Are all workflows started in the end? |
| `ClaimWaitAnswered` | violation | one run, no fault | A waiting workflow goes on when its event is submitted |
| `TimeBilling` | 1,738,252 | one frequency with cycles of two units, 2 cycles, one entry at 0 or 2, one generation at a time, 2 invoices, the clock to 3 | Do cycles overlap? Is time, edited, reversed, rolled over and billed again in any order, billed by the invoices of two cycles? |
| `GenerationRaces` | 1,140,212 | one cycle, one entry, two generations at once, 2 invoices | Are two invoices of a cycle there only because the calls overlapped? |
| `ClaimOverlap` | violation | two frequencies, no time entries | "Prevention of overlapping billing periods" |
| `Schedule` | 224,067 | 2 users, a daily rule, three days, one of them a holiday, 2 rows, 3 popups | Does a day that was taken out of a series come back? Does a split without a pattern keep the other days? |

What each property means and the code it is about is said above its definition.
A run that is to find a violation states what a document, a comment or a test
says; `PROJECT.json` "findings" quotes the line and tells what the run shows:

* a workflow that waits never hears of an event that is submitted to it: the
  state its listeners are in has been replaced by one that is replayed from the
  log (`workflowRuntime.ts:182`);
* after a company's frequency has been changed to a shorter one, the next cycle
  begins within the last one: it is placed one cycle of the present frequency
  after the start of the last cycle, wherever that ends
  (`createBillingCycles.ts:404`).

### Bounds, and why they are enough

* Ledger: two companies (transfers, and two wallets for one job), two invoices
  (two applications that draw from the same credits, a prepayment with an
  invoice that uses it), two credits (the order of drawing, one that covers only
  part). Totals are larger and smaller than a credit, and negative. One tick
  separates dates that have passed from those that have not. `Limit` allows each
  of the operations that multiply states (reopen, edit, delete, crash, something
  between the halves of `generateInvoice`) once in `LedgerAll`, where one process
  finalizes; the last alone in `LedgerBilling` (`Windowed`), where two do, and none
  in `Reconcile` (`Quiet`). `FundedOnce` is stated for an invoice that is not
  reopened, which makes a prepayment count twice. `NeverOverApplied` is checked
  with all of them, for the invoices whose totals are not written again after
  their row: where they are, the code may cover an invoice beyond its amount
  (section 5). A credit of 3 is more than the invoice of 2 and one of 1 is less, so
  that a first application is capped by its page, a second by the server, and
  something of a credit is left over when the invoice is covered.
* Reconciliation: a report of each kind, the report of an earlier validation
  beside that of a later one, and two users upon one report all fit in two
  reports and two users. Adjustments are of 0 or of the difference. Nothing rare
  happens to the invoice (`Quiet`): the theorem has the rest.
* Consumer group: with two workers one can abandon what the other claims. Two
  events with a stream of one entry give trimming of an undelivered, a pending
  and a claimed entry. `MaxRetries` 2 gives a retry and a burial. Deliveries are
  bounded (`MaxDeliveries`) only for an entry that cannot be read at all.
* Lock: three calls, so that one can hold the lock after another's has expired
  while a third waits; a function may run one tick longer than the key lives.
* Worker: two deliveries of one event, at once and one after the other, and two
  attached workflows, so that one is started when the other is not.
* Billing: two cycles of two units, and an entry that may be in either (`EntryTimes`
  0 and 2) and that a rollover moves to the cycle after; a clock to 3 lets the second
  cycle begin and be billed. Two invoices are one for each cycle, or two for one;
  when the first is deleted the cycle can be billed again. `Decisions` are the
  statuses that pages send with an entry. With two frequencies, no time: overlap
  needs none.
* Schedule: three days, so that one is before, at and after a split, with a
  holiday; two users, so that one reads a row, or has its page, before the other
  writes; two rows, a series and what is split off it; three popups, so that a
  day is taken out, the row is written again, and a third writes what it read
  before. `Given` are the days a popup gives an entry or a series.

`CHECK_DEADLOCK FALSE` is set where the instance really ends: all ids are used,
all rare operations spent, the clock at its last tick.

### Fairness

* `LedgerBilling`: a process goes on with a finalization it has begun
  (`FinalizeStep`). No user action, job or tick of the clock is fair. Crashes
  are not in this run: nothing in the code resumes a finalization that stopped.
* `GroupLive`: a worker goes round its loop (its `catch` blocks schedule the next
  round: `redisStreamClient.ts:604-615`), handlers end, and an entry in nobody's
  care becomes idle in the end. Each worker is restarted when it crashes.
* `Lock`: time passes, a call tries again, its function ends. A call that tries
  is not promised the lock: `WaitEnds` is satisfied by giving up.
* `Worker`: a handler goes on; an event that is open is given to a worker again,
  which `GroupLive` checks of the stream client; a function that does not wait
  goes on. `MaxRuns` 2 with one crash leaves a run for the second delivery.
* Billing and schedules: none. A generation or a creation that fails is not
  tried again by the code, and each further step is a request of a user.

## 4. Proofs

`tlapm <Module>.tla`. The theorems hold for every value of the constants that
satisfies the assumptions `LedgerAssumption`, `ReconciliationAssumption`,
`GroupAssumption`, `WorkerAssumption`, `LockAssumption`, `CalendarAssumption`,
`EntriesAssumption`, `GenerationAssumption` and `ScheduleAssumption` (which TLC
evaluates on the instances); further hypotheses are in the theorem.

| module | theorem | argument |
|---|---|---|
| `CreditLedger_proofs` | `TypeCorrect`, `ExpiredEmpty`, `ExpiredFinal` | First what the proofs need of sums over rows (below). `TypeOK` is inductive. Every step does to a tracking row one of the things `RowChange` lists: nothing, drawing on it or moving its date while it is not expired, or expiring it, which empties it; new rows are full, rows that go were full. `ExpiredEmpty` follows from that, the types and `Draws`, which takes no more than a row has; `ExpiredFinal` from both: a row that is deleted is full, an expired one empty. |
| `CreditBilling_proofs` | `NeverOver`, without a further hypothesis | `NeverOverApplied` is not inductive: `FinalizeApply` asks for an amount that an earlier stage has read, and a credit form for one that its page has shown. `BillingInv` adds that the former was bounded by the full amount of the invoice (`RequestBounded`); that what is applied is what is allocated (`AllocatedIsApplied`); and that a page shows at most the full amount, or 0, which the form takes for no bound, only when the invoice has been covered (`OfferedWithin`): the server then refuses. Each holds of an invoice until its totals are written again (`rewritten`), which marks it for good. |
| | `BalanceIsExplained`, `TransactionsAreExplained`, without a further hypothesis | `Books` = `TypeOK`, `Owned` and both equations (`Explained`). `Owned` says whose an invoice, a credit and a finalization under way are: the company that the id of the invoice was issued to (`moved` remembers it after a deletion), so that both sides of an equation speak of the same rows. For each operation one lemma says by how much it shifts each sum (`ApplySums`, `ExpireSums`, `TransferSums`, `DeleteSums`, `RedateSums`), and `BooksStep` that the shifts cancel, also where a finalization stops half way. |
| | `FundedExactlyOnce`, where nothing is reopened, edited or deleted and no process dies (something may come between the halves of `generateInvoice`) | `FundedOnce` is not inductive: a process adds an amount that it has read before, after deciding by the row of that time. `FundInv` adds that no two processes finalize one invoice, that the invoice is marked and its process goes to the balance exactly if it has no billing cycle, with its subtotal (`JobsFund`), and that only invoices of cycles are inserted before their totals (`CyclesUnfilled`). |
| `CreditReconciliation_proofs` | `CorrectedOnce` | Every step is one of five changes to reports and users (nothing, a new report, a report taken, acted upon, given up). `ReportInv` counts, per report, the actions on it and the users who hold it: a report can be taken only while open, when no action has been counted, and an action trades a holder for a count. |
| | `ReportsTyped` | `ReconciledInv`: the types of the ledger and of the reports, that a report of a missing row is about a legacy credit, that a user who creates a row has such a report, and that the ids of the legacy credits stay reserved (`issued`), from which a further row gets an id that is no credit's. |
| | `NeverOverCorrected`, without a further hypothesis | `ReconciledInv` and `BillingInv` together: the corrections change balances and rows, at any moment of a finalization, but no invoice and no request. |
| `ConsumerGroup_proofs` | `TypeCorrect`, `NoEventLost`, `RunsCounted`, `PendingIsBounded`, `ImplementsQueue` | `NothingLost` is not inductive: an entry is acknowledged because of what a worker believes. `Known` says what each status in `work` has left behind (handled: a handler has returned; buried: a dead letter or a copy exists). `IInv` = `TypeOK`, `Known`, `NothingLost`; the other three use it. The refinement maps each action to a step of `WorkQueue` or a stutter. |
| `WorkflowWorker_proofs` | `TypeCorrect`, `StartsKept`, `NoHalfStart` | `RunOK` says, of each run and each attached workflow, whether it is still to do, under way, failed or submitted, and what each step has left in the database; `OwnRuns` that two runs never share an execution. |
| `DistributedLock_proofs` | `TypeCorrect`, `MutualExclusion`, `ReleaseOwn`, where owner ids differ | `Holding`: a call that has run for less than the time to live owns the key, and the key has at least the rest of that time left. |
| `InvoiceGeneration_proofs` | `GenerationTypes`; `CyclesDisjoint` and `BilledOnce`, where `CalendarAligned` holds and there is one frequency; `DuplicatesAreRaced` | Disjointness: `OnTheGrid` says that each cycle, and whatever a call of the job has read to begin one at, begins at a start of the frequency, that a cycle that is not removed ends one length later, and that no two begin at one time; it needs the refusal of duplicates. `BilledByOneCycle` is not inductive, since lines are computed long before they are written: `LinesInv` says of the lines of an invoice, and of those a call still holds, that they are within the period of their cycle (`Within`) for as long as the cycle is not removed; lines of two such cycles then differ in time. `RaceInv` says of each call what had been issued when it looked for an invoice (`Began`): every invoice of its cycle that is there came later. |
| `ScheduleEntries_proofs` | `ScheduleTypes`, `HiddenStays`, `SplitKeeps` | `Shut`: the pattern of each row shuts out (as an exception, or by its end) what has been taken out of it with the knowledge of those who wrote it, and so does the row each transaction has read, for what was known then. Every write is of a pattern made from that row (`PatternsWritten`), so what it shuts out and what the transaction takes out stay shut (`WritesKnown`). An occurrence that is given another day takes nothing out, and the exception for the new day only shuts out more. `SplitKeeps` is shown day by day, under `RulesGoOn`, for a split without a pattern. |

Sums. The balance equations need that the sum over a set of rows is a number, and
what it becomes when a row is added, dropped, changed or moved to another
company, for any number of rows. The induction theorems of the library take a
predicate as a parameter, which none of the installed provers instantiates; but
that the natural numbers and the subsets of a finite set are well ordered is
said of sets, and serves as well. `LeastNat` and `SmallestSubset` give the first
counterexample of a statement about sums, and the definition of the sum
(`SumFunctionOnSet` of the community modules, which picks one element at a time)
refutes it. The ledger therefore adds up with the function form of the sum.

Model-checked only: liveness (`PrepaymentArrives`, `EventuallySettled`, `KeyGoes`,
`WaitEnds`, `EventuallyStarted`), which is out of the prover's reach, and the two
violations. Every other property of the runs is a theorem. `FundedExactlyOnce`
holds under limits of 0, as its run has them, because the code breaks it otherwise:
reopening, a crash, or a deletion that stops half way moves a balance twice, never,
or back (section 5). What a
calendar or a recurrence rule computes is a constant operator of which only what
the assumptions say is used.

## 5. Observed, without a run

Where code, documents and comments disagree, or a state is reached that looks
unintended, and no property is stated for it:

* An application of credit is recorded as two transactions of the full amount,
  so the balance is not the sum of the transactions (`creditActions.ts:518`;
  `creditReconciliation.test.ts:346` computes it as that sum).
* Credit can cover an invoice beyond its amount. "Get the invoice total to ensure
  we don't apply more credit than the invoice amount" (`creditActions.ts:413`) is
  reached only when something is allocated already (`:410`); before that, the
  amount is capped by the page it is submitted from, "Ensure amount doesn't exceed
  remaining credit or invoice amount" (`CreditApplicationUI.tsx:94`), by the total
  the page was loaded with, and not at all if that is 0 (`:95-97`), as it is between
  the insertion of a cycle's invoice and the transaction that writes its totals
  (`invoiceGeneration.ts:505-553`). What was allocated before that transaction
  stays, while `credit_applied` is set to 0. The ledger does these steps, and those
  of a form older than an edit; `NeverOverApplied` is not stated for these invoices.
* A validation records no expiration. "We still create expiration transactions even
  in the 'without correction' mode because expiration is a business rule, not a
  correction" (`creditReconciliationActions.ts:101-102`) is in a branch that is
  taken when a `Date` is less than a string (`:86`), which is never.
* A correction is not what its transaction says: "Create a transaction to record
  the correction" (`:764`; "All corrections create transaction records for financial
  traceability", `src/docs/credits_and_reconciliation.md:219`) is of the difference
  of the report (`:769`), while the balance is set to what the report expected when it
  was made (`:782`), whatever the ledger has done since: a credit that expired in
  between comes back, with no transaction for it.
* "Only this event" (`EntryPopup.tsx:634`) does not take an occurrence that is given
  another day out of its series: the exception that is written is for the new day
  (`scheduleEntry.ts:562`). The occurrence stays shown on its old day, beside its new
  entry, and the series loses its occurrence on the new day.
* Finalized invoices can be edited (`invoiceModification.ts:333`, against
  `src/docs/invoice_finalization.md:25`).
* An event that ends each process that handles it is delivered without end: its
  counter is compared with `maxRetries` after a handler has failed, never when
  an entry is claimed (`redisStreamClient.ts:524`, against `:44`).
* Resolving a report about one credit sets the balance of the company to that
  credit's figure, 0 or its remaining amount (`creditReconciliationActions.ts:782`).
* Nothing resumes a finalization that has stopped between its transactions
  (`invoiceModification.ts:107`), and deleting an invoice takes back what its
  transactions say, whether or not it ever reached the balance (`:640`).
* A database error while the workflows of an event are looked up is answered with
  none, and the event is acknowledged (`WorkflowWorker.ts:581`).
* Every invoice without a billing cycle counts as a prepayment when it is
  finalized (`invoiceModification.ts:110`), manual ones included: `FundedOnce`
  states what the code does. Finalizing a reopened prepayment adds it again (`:252`).
* The tracking row of a draft prepayment is usable before the balance holds its
  amount, so the balance can fall below zero (`creditActions.ts:442`).
* `src/docs/workflow/workflow-system.md:376` promises "exactly once"; the stream
  client delivers at least once, and a redelivered event starts its workflows
  again (`redisStreamClient.ts:497`).
* A dead letter published again is wrapped once more and no longer parses as the
  event it was (`redisStreamClient.ts:805`): `Poisoned` in `ConsumerGroup`.
* A lock may be shorter than the transaction it guards
  (`distributedTransaction.ts:71`, `:128`): `Exclusive` speaks of functions in time.
* Reconciliation: two reports about one missing row, both resolved, make two rows
  for one transaction; an application over two credits names only the last row,
  so the others are reported as inconsistent and the fix gives back what was
  spent; the fix can make a remaining amount negative, or leave an expired row
  with something left; two users at once correct a report twice; resolving a
  balance report at once moves the sum of the transactions by as much as the balance, so
  that the next validation reports the same difference.
* Billing: nothing sets `invoiced`, so the approval of time that is on an invoice
  can be reversed and the time edited and billed again (`timeSheetActions.ts:506`).
  When the transaction of the items fails, the invoice stays, without items
  (`invoiceGeneration.ts:553`); a call that finds an invoice of its cycle by the
  time it computes inserts a second one of nothing, unless these are suppressed.
  An entry that is billed while a rollover is
  about to move it is moved all the same, and can be billed again where it goes.
  Unapproved time moves to the cycle after the next (`billingEngine.ts:1955`;
  `src/docs/billing_cycles.md:74` says the next), and an entry that ends with
  a period is billed in none (`:1113-1114`). A user's request for the next cycle
  of a company that has cycles is always refused as a duplicate.
* Schedule: "Only this event" deletes the whole series
  when the event is the first (`EntryPopup.tsx:614`); "this and future events"
  sent with a pattern starts the rest without the exceptions, and a series with a
  number of occurrences begins with the full number again; two transactions on
  one series overwrite each other's exceptions; "All events" moves the row's day
  but not the pattern's first day, so that a split before the row's day shows
  that day twice; an out-of-date page can give a series that has been ended a
  later end; an update of an occurrence whose row recurs no longer leaves its
  transaction open.
* Elsewhere: `scheduleRecurringJob` sends one job; the job that generates invoices
  has no session and always fails; `enqueueEvent` of the workflow runtime inserts
  ids that are no UUIDs into UUID columns; the event bus reads streams to which
  nothing is published; bucket usage can become negative, and its recomputation
  selects columns that do not exist.

## 6. Limits of the models

* Database transactions are serial. READ COMMITTED lets two of them overwrite
  each other's balances and remaining amounts (two applications to two invoices
  of one company, `creditActions.ts:463`); that is not in `CreditLedger`.
* Invoices are their amounts: items, tax rules, numbering and currencies are left
  out, and so are notifications of expiring credits.
* `validateCreditBalance` with automatic correction has no caller that reaches
  the correction, and is not modelled. `LedgerStep` leaves out one case: the
  expiration job meeting a lapsed row whose twin has been expired.
* Streams are one stream with one group; `ReadOwnFails` stalls a worker that is
  left with trimmed entries only, which is why `EventuallySettled` is checked
  where the stream drops nothing.
* Workflow functions are the place where they first give up control; what they
  do after that, and everything that depends on the replayed state, is the
  runtime's. The worker's loop over the `workflow_event_processing` table ends in
  `processQueuedEvent`, which the deployed service does not reach.
* Billing: reads that follow one another with nothing but reads in between (the
  company and its last cycle; those of `calculateBilling`; the invoice and its
  deletion in a removal) are one step. The loop that inserts cycles compares with
  the clock at that moment instead of the one at the call's start. A company has
  one billing plan; entries last one unit; charges other than time are there or
  not. The cycle of 2023 that `getBillingCycle` falls back to is left out, and
  `MaxTime` bounds the ends for which unapproved time is looked up.
* With one frequency, `UpdateBillingCycle` changes nothing.
* Schedule: days instead of times; assignees, work items and the hours summed up
  on a task are left out; the calendar shows all days of the instance. The rule
  is an operator, so that frequencies, weekdays and counts are any rule of that
  kind.
* Redis and Postgres do what the code relies on; Redis does not lose writes.

Not modelled, with reasons in `PROJECT.json`: the workflow runtime beyond what the
worker needs of it, the event bus and the jobs' records (plan, below), bucket usage
(its recomputation cannot run), the charges of the billing engine other than time,
storage, e-mail, zip jobs, registration and keys, numbering, interval tracking,
tenant provisioning, tickets, projects, assets, documents and master data (rows
that are written in one request), user interface and routes. These are most of the
lines of the repository and little of its concurrent state.

## 7. Plan

The order puts money first, then events, then the rest; written are the ledger,
reconciliation, the stream client, the worker over it, the lock, the billing of
time by cycle, and schedules.

| module | models | abstract specification and properties | worth proving |
|---|---|---|---|
| `CreditLedger` (done) | credit and finalization | sums and caps | done |
| `CreditReconciliation` (done) | validations and fixes | counting of corrections | done |
| `ConsumerGroup` over `WorkQueue` (done) | stream client | refinement | done |
| `WorkflowWorker` over `WorkQueue` (done) | global events | no start lost | done |
| `DistributedLock` (done) | lock, transaction | mutual exclusion | done |
| `WorkflowRuntime` | caches of several processes, event log, replay, snapshots versioned by `Date.now()` | the state is the replay of the log; a cached state is a prefix | a snapshot followed by the later events is a replay |
| `JobScheduler` | recurring jobs over pg-boss, job records | a recurring job runs again; a record ends completed or failed | the life cycle of a record |
| `BillingCycles` (done) | creation, change of frequency, removal | cycles do not overlap | done |
| `InvoiceGeneration` over both (done) | generation, rollover, removal | time is billed by one cycle; duplicates come of overlap | done; the same for several frequencies, without `CyclesDisjoint` |
| `ScheduleEntries` (done) | recurring entries | what is hidden stays hidden; a split keeps days | done |
| `TimeSheets` (done) | submit, approve, request changes, reverse | in `InvoiceGeneration` | - |
| `ProjectTasks` | numbering of tasks when they are moved | the order of a column is the one asked for | - |
| `CreditRaces` | two ledger transactions statement by statement under READ COMMITTED | what of `CreditLedger` survives | - |

Runs to come are bounded as those here: two processes, two records, one fault of
each kind. The disagreements of section 5 that the models already reach (credit
beyond the amount, corrections, moved occurrences) can each be shown by a run that
states what the comment says.
