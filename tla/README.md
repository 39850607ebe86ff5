# saas_erp: models, checks and proofs

TLA+ models of the parts of saas_erp in which several requests, workers or
machines change the same state, with the TLC runs that check them on small
instances and TLAPS proofs for every size.  The repository is a NestJS backend
over MySQL 8 (Prisma), a Next.js front end and a browser extension; paths below
are relative to `src/`, and `src/backend/src/modules/` is written `modules/`.

## 1. The system

| Component | State it keeps | Operations | Talks to |
|---|---|---|---|
| Document numbering (`common/documents/document-number.service.ts`) | `company_settings`: `nextInvoiceNumber`, and a JSON bag with `docSequences` for the other kinds of document | `nextInvoiceNumber`, `nextSequence`, inside the caller's transaction or outside one | every module that creates a document; the row is also written by the company, POS and CRM settings |
| Sales (`modules/sales/sales.service.ts`) | invoices (status, total, balance), payments, credit notes, quotes | create, issue, pay, credit, edit, cancel; quote conversion; channel orders | numbering, loyalty (store credit), GL, automation |
| POS terminal (`pos-terminal.service.ts`) | its part of the settings bag | baskets, returns; sells through Sales | sales, inventory |
| Finance (`modules/finance`) | bank accounts, gateway charges, cashier shifts, the general ledger | charge and record a payment; open, close, approve, hand over a shift; post journals | sales, external gateways |
| Inventory (`modules/inventory`) | stock balances, movements, transfers, reservations, counts | move, ship, receive, reserve, release, approve | purchasing, sales |
| Purchasing (`modules/purchasing`) | orders, goods receipts, bills, supplier payments | order, receive, bill, pay | inventory, numbering, GL |
| CRM and loyalty (`modules/crm`) | contacts, points, store credit, coupons, tickets | earn, redeem, credit, debit | sales, numbering (settings) |
| Integrations: sync (`modules/integrations/sync`) | `integration_jobs`, `project_sync_states`, the BullMQ queue | request a sync, run it page by page, retry it | provider adapters, mirrors |
| Integrations: operations and webhooks | `provider_operation_requests`, `webhook_events` | create or invoke an operation, ingest an event | sync runner, queue |
| Integrations: extension channel (`modules/integrations/extension`, `extension/background.js`) | one socket and a map of pending calls per channel | connect, reconnect, send a command, answer | provider clients; the user's browser |
| Automation (`modules/automation`) | rules, runs | dispatch events; scan for overdue invoices | sales, messaging |
| Subscriptions (`modules/plans`) | subscriptions with a unique marker of the active one | change, renew, suspend, expire | companies |
| Companies, HR, governance, auth, users, work, reports, notifications, messaging, AI, platform, storage, audit | tables of their own | mostly CRUD, aggregation, I/O | |
| Front end (`frontend/`) | none shared | client of the API | backend |

The requests of one company run concurrently, in one Node process and in
several: everything between two `await`s of two handlers interleaves.  What
they share is the database.  MySQL runs transactions at REPEATABLE READ, where
a plain SELECT reads the transaction's snapshot and takes no lock, an UPDATE
works on the latest committed row, and a transaction sees its own writes.  The
code never takes a lock and never retries a refused insert (`P2002`), so its
safety rests on unique indexes - or on nothing.

### What is hard, and what should hold

* **Numbers** are read and then written: two requests may read the same one.
  Documents numbered in a transaction should be gapless and never blocked.
* **Balances** are tested in a snapshot, or before the transaction, and written
  as absolute values: an invoice should not be settled twice, its status should
  say what its balance says, a settled or cancelled one should stay so.
* **The extension channel** survives lost sockets, two browsers, late answers
  and restarts: each call should be settled once and in time, and the channel
  should come back.
* **Sync jobs, operations and events** are retried after any statement of a run
  has failed or a worker has died: keys should be released, the cursor should
  claim no page that was not mirrored, a row should not claim success that did
  not happen, an event should be handled once, and nothing should be run for ever.
* **Stock** is moved in one transaction and the document that caused it is
  updated in another: a status should never claim a movement that was not made.
* **Contracts, wallets and shifts** are decided on a row read earlier: the
  workflow should not be left, a voucher not debited twice, a sale not be part of
  two shifts.

`PROJECT.json` lists the hazards at their lines.

## 2. Modules

| Module | Models | Composes |
|---|---|---|
| `CompanySettings` | The settings row as a function from kinds of document to next numbers, and what each writer does to it. `BumpInvoice` touches one column; `BumpSequence` writes the whole bag the writer has read; `PutBagBack` and `DropSequences` are the settings endpoints | |
| `NumberSeries` | Abstract: one document after the other gets the next number | |
| `DocumentNumbers` | Requests that number documents in a transaction (`Read` takes the snapshot, `CommitTx` commits, `RefuseTx` is the unique index, `Abort` any other failure) or outside one (`BumpAuto`, `InsertAuto`), and the writers of settings | `CompanySettings`, `NumberSeries` |
| `SalesInvoice` | Every request that changes an invoice. A handler is one action per step that other requests can come between: what it reads and tests before its transaction (`...Load`), the snapshot (`Open`, `PayOpen`), and the commit (`...Commit`); a handler that throws ends in `Fail` | `CompanySettings` |
| `MCSalesInvoice` | Symmetry of requests, for TLC | `SalesInvoice` |
| `RemoteCall` | Abstract: what a command to the extension promises | |
| `ExtensionBridge` | One channel. `server[s]` and `client` are the two ends of a socket; `Connect` is `handleConnection` with `attach`, `Disconnect` is `handleDisconnect` with `detach`; `SendCommand`, `Result`, `Timeout` are the service; `Dispatch`, `SendResult`, `ClientClosed` are `background.js` | `RemoteCall` |
| `SyncJobs` | The jobs of one project and entity type: a step for each statement of `enqueueSync`, `runSync` and `failJob`, and the queue's retries and stall recovery | |
| `ProviderWork` | Operations and webhook events: a row with a unique key, its job, and a run with a step for each statement of `executeOperation` and `processWebhook`; `Execute` is the provider, `Apply` the mirror's upsert | |
| `StockLedger` | One item in several warehouses: `ReadBalance` and `WriteBalance` are `createMovement`; `ShipTransfer`, `ReceiveTransfer`, `ApproveAdjustment` and `ReleaseReservation` go through them to `SetStatus`; counts and goods receipts write the balance themselves | |
| `QiwaContract` | One employee's contracts: `Load` is the read and the guards of a handler, `Write` or `WriteRefused` its `updateMany`, `UpdateEmployee` the statement after it | |
| `EmployeeWallet` | One employee's wallet: vouchers are asked for (`Ask`, `CreateVoucher`) and decided on (`Decide`, `WriteStatus`), and move the wallet by `DebitEmployeeWallet`, `ApplyEwalletDelta`, `WriteWallet`; `UpsertEwallet` sets it by hand | |
| `PosShifts` | The till: opening and closing shifts, the sales that a Z-report counts, held sales, and quotes that become sales | |
| `MCStockLedger`, `MCPosShifts` | Symmetry, and what is counted (a cfg holds no negative number), for TLC | the modules they are named for |
| `MCHumanResources` | One employee's contracts or wallet: a behaviour moves one of them | `QiwaContract`, `EmployeeWallet` |
| `*Proofs` | The theorems of section 6 | |

Operators whose comment begins "Mutant:" are variants of the definition after
them with a plausible bug; they are not part of the specification.  Each
property is shown to fail of one.

### Abstractions

* A number is its serial; the prefix is left out.  (`invoicePrefix` is editable,
  and invoices under two prefixes would no longer compete for one string.)
* Amounts are small integers in the smallest unit.  Where the code allows a
  tolerance - the splits of a mixed sale - it is the constant `SplitSlack`.
* One company; in `SalesInvoice` one customer; in `SyncJobs` one project and
  entity type; in `ExtensionBridge` one channel.  They share nothing else.
* A request is made once and is named by the document it creates.
* GL postings, notifications, automation events and PDF are side effects that
  no modelled state depends on.
* `ExtensionBridge`: `isConnected`'s ten minutes and half-open TCP connections
  are left out (the server is on the loopback interface).  The gateways of the
  individual providers repeat the channel gateway.
* `SyncJobs`: BullMQ is external: it delivers each job to one worker at a time,
  counts attempts, and gives a stalled job to another worker `MaxStalls` times.
  A worker that has lost its lock and goes on beside its successor is left out.
  The inline driver is `MaxAttempts = 1`, `MaxStalls = 0`.

* `ProviderWork`: the members of `Work` are keys; a request or delivery whose key
  is taken answers with the existing row and changes nothing.  One operation and
  one event touch the same order.
* `StockLedger`: one item without batches; a document has one line.  `other` and
  `serial` are ghosts: what was moved by other means than documents, and whether
  requests have overlapped or failed half way so far.
* `QiwaContract`: `reference` stands for the reference and the PDF, which every
  handler sets and tests together.
* `EmployeeWallet`: one employee; amounts are small numbers.  `total` is a ghost:
  what the entries add up to.
* `PosShifts`: sales have no amounts; a Z-report is the set of sales it counts.
  Time is the order in which rows were created.  `ended` and `owed` are ghosts.

## 3. Runs

| Run | Question | Bounds |
|---|---|---|
| `document_numbers` | Are numbers gapless and free, whatever overlaps? | 3 requests, one settings writer of each kind, an invoice, one key numbered in and one outside transactions, CRM settings saved |
| `sales_invoice` | All requests on one invoice: receipts gapless, payments serial | 4 requests, 3 at a time; amounts 1, 2; every operation and tender |
| `sales_payments` | Does the ledger balance under payments and charges? | 4 requests, 3 at a time, 2 invoices |
| `sales_serial` | Can legal calls, one after the other, break an invoice? | 5 requests, one at a time; amounts 1 to 3 |
| `extension_bridge` | Are calls settled once and in time, and does the channel come back? | 2 calls, 3 sockets, 2 browsers |
| `sync_jobs` | Do jobs come to rest, by steps that use up what is left of them, and is the cursor honest? | 2 jobs, 2 attempts, 1 stall, 3 pages, 2 pages a run, every fault |
| `human_resources` | Does a contract leave its workflow, or is an employee approved without one? Is a voucher debited once, does the balance agree with its entries? | 2 contracts, 2 requests at a time, 2 references; 2 vouchers of any kind, 2 calls at a time, amount 1, balance at most 2 |
| `provider_work` | Do rows and mirror tell the truth, is an event handled once, does work settle, by steps that use up its attempts? | an operation and an event, 3 attempts each, 1 stall, every fault |
| `stock_ledger` | Do statuses and stock agree; is a warehouse counted once at a time; what overdraws a balance? | 2 warehouses, 2 documents of any kind, 2 requests at a time, quantity 1, counts of -1, 0 and 1 |
| `pos_shifts` | Do successive shifts share a sale; is a quote invoiced once per acceptance? | 2 shifts, 2 sales, a quote, 2 requests at a time |
| `sync_retried` | finding 1 | 2 full syncs, one provider failure |
| `stock_miscount` | finding 2 | a warehouse, a count, a request at a time |

The largest are `stock_ledger` and `human_resources` (about two million distinct
states each); every run ends within five minutes on two workers.  `human_resources`
checks two modules that share neither state nor properties: each of its behaviours
moves the contracts or the wallet, so it has the states of the one and of the other
and not their product.

Why the bounds are enough: the races here are between two requests; where a run
has a third it lets something happen between them, and a fourth creates what
they work on.  Amounts 1 and 2 (or 3) make a payment partial, exact and too
large; in the wallet and the stock an amount of 1 against a balance of at most 2
is refused, exact or leaves a rest.  Two documents are one and another to overlap
with, each of any kind.  Three
sockets are one more than the calls in flight, so that a new socket can always
be opened while a command still runs on a lost one; two browsers take the
channel from each other.  With three pages and two per run an incremental sync
stops and resumes; attempts and stalls put each failure before a retry
and at the end of the retries.  Two shifts follow each other or are open
together; with one user and one terminal the second begins while the first is
being closed.  The constants that cap otherwise unbounded
behaviour are `MaxActive` (requests at a time), `MaxInvoices`, `MaxAttempts`,
`OperationAttempts`, `EventAttempts`, `MaxStalls`, `PageCap` (the last five are
the code's, made smaller), `MaxStock`, `MaxBalance`, `MaxEntries`, `MaxOwed` and
the sets of requests, calls, jobs, documents, papers and vouchers.  Deadlock is checked where a request can always be made
again (`human_resources`, `stock_ledger`); elsewhere requests,
calls and jobs are made once, and the system may stop when all have ended.

`sales_payments` and `sales_serial` leave operations out on purpose.
`LedgerBalanced` counts payments and not credit notes, so it is stated where
there are none.  `StatusAgrees` and `PaidIsFinal` are false of the code as soon
as an edit, store credit, a note or the overdue scan overlaps a payment (an edit
also leaves a cash sale PAID with a balance due), and `NeverOverpaid`,
`BalanceInRange` and `CancelledIsFinal` as soon as notes are cancelled or
requests overlap.  For the same reason `BooksAgree`, `DebitedOnce`,
`WalletAgrees` and `InvoicedAsAccepted` speak of behaviours in which requests
have not overlapped; all overlaps are in the runs, and the other properties of
these modules hold throughout.  So does the type invariant of the wallet, which
says that its balance is never negative.  A stock balance can be: `OverdrawnByCount`
says that nothing but the approval of a count takes it there (finding 2).

## 4. Findings

1. **Full syncs** (`sync_retried`).  A retry runs without the key that keeps a
   second full sync out.
2. **Negative counts** (`stock_miscount`).  A counted quantity is any numeric string;
   approving the count makes it the balance, which the specification of the
   database lets be negative only where a company setting allows it.  There is no
   such setting, and no overlap is needed.

The following are behaviours of the models as well, seen while writing the
properties and the reason for the conditions in them; no run states them.

* `nextSequence` writes the whole bag: outside a transaction, two kinds numbered at the
  same time take one counter back to a number in use, and every later document of
  that kind is refused.  The CRM settings endpoint (`crm-ops.service.ts:81-98`)
  does so with nothing running beside it.
* The credit limit is tested before the transaction: two credit sales pass it
  together.  Two requests issue the same held invoice.
* A credit note puts a payment made in the meantime back on the balance.
  Cancelling the note of a cancelled invoice makes that payable again, and
  cancelling one larger than the balance takes the balance above the total.
* A job whose row was inserted but not enqueued keeps its key for ever
  (`jobs.service.ts:107-113`); an operation or event stored and not enqueued is
  never run, and a redelivery finds it stored (`webhooks.service.ts:107-123`).
  Two events with one payload are one event.
* A full sync always starts at page 1 and stops after 20 pages.  Calls on a
  replaced socket wait for their timer.  The HungerStation client falls back to a
  direct call when the extension did not answer in time, though it may have run
  the command.
* Two overlapping movements of one item lose one; a transfer whose shipping
  fails before its status is written is shipped twice; an approved count undoes
  the movements made since it was opened; a received order can be set back to
  APPROVED and received again.
* An approval that fails, or a contract renewed meanwhile, leaves the employee
  with another reference than the contract's.
* An advance that is approved, rejected and approved again is credited twice.  A
  payroll deduction is never entered: its reference, two UUIDs and a colon, does
  not fit `CHAR(36)` (`hr.service.ts:1875`, `hr.prisma:196`).
* A user can get two open shifts, and two users with open shifts on one terminal
  both post its sales.  A sale made between the count and the close of a shift,
  or attributed to its terminal after it, is in no Z-report.  Two conversions of
  a quote that overlap make two invoices.

## 5. Fairness

`DocumentNumbers`, `SalesInvoice`, `StockLedger`, `QiwaContract`,
`EmployeeWallet` and `PosShifts` state safety only and assume none: any request
may stop anywhere.

`ExtensionBridge` (`FairSpec`): timers fire (Node's event loop runs), an end
that is closed is noticed at the other (TCP on the loopback), and the extension
tries to connect while it can: `onclose` arms a five-second timer and the
`keepalive` alarm reconnects if the browser has discarded it
(`background.js:204-206`, `1247-1256`).  Nothing is assumed of commands: they may
run for ever, which is what the timers are for.

`SyncJobs`: the workers keep taking and running jobs, each database statement
ends by succeeding or by throwing, and a request that has inserted a job goes on
to enqueue it or fails.  Failures and crashes are never forced.

`ProviderWork`: the same, of the request that has inserted a row (`Handover`) and
of the runs (`RunStep`).  What may go wrong (`Throw`, `CatchThrows`, `Crash`), a
refusal and an ignored event are never forced.

## 6. Proofs

All for every value of the constants, from the named assumptions of the modules
(`...Assumption`); TLC evaluates these in the runs.

* `DocumentNumbersProofs`: `TypeInvariant`, `NoGaps`, `InvoiceNeverBlocks`,
  `FirstCommitter`, `Refinement` (of `NumberSeries`); between them every property
  the run checks, after lemmas about what each writer of the settings row leaves
  alone.  The properties are not
  inductive: that a commit leaves no gap depends on what the committing
  transaction read.  The invariant adds that every number a row was ever seen to
  hand out is 1 or follows an issued one (`ReadsFollow`), and what an open
  transaction knows of the documents of its kind (`SeenOK`, `HandedFree`).  A
  number that is free - which the unique index makes sure of - and follows an
  issued one is the next one, so stale transactions cannot commit.
* `SalesInvoiceProofs`: `TypeInvariant`, `ReceiptsNumbered`, `PaymentsSerial`; for
  `Ops` of creations and payments only (`OnlyPayments`, as in `sales_payments`),
  `Ledger`, `StatusFollows`, `Overpaid`, `Balances` and `PaidForGood`; and for requests
  served one by one that edit and cancel no notes (`OneByOne`, as in `sales_serial`),
  `OverpaidSerially`, `BalancesSerially` and `CancelledForGood`.
  The invariant ties each open payment to its snapshot: as long as the receipt
  number it holds is free, no receipt has been issued since, and whatever adds
  to an invoice's `received` issues a receipt - so `received` is still what the
  payment saw.  This is why the code, which locks nothing, does not take a
  balance twice, and why a receipt series that was not gapless would be unsafe
  and not merely untidy.  Where nothing but payments touches an invoice after its
  creation, the free number says that the whole invoice is as the payment saw it
  (`SeenAt`), so a payment always takes a sound invoice to a sound one (`Sound`).
  With notes, edits or cancellations in between the five fail (section 4): that is
  what the first hypothesis is for.  Under the second, a request is taken up only
  when no other is active (`TakenAlone`), so what it has read is what it will
  overwrite (`Knows`), and every operation keeps an invoice in order (`Tidy`); a
  charge of a cancelled invoice, whose status the gateway does not look at, is
  stopped by its balance alone.  Both hypotheses are about which requests are made;
  neither bounds their number, the amounts or the invoices.
* `ExtensionBridgeProofs`: `TypeInvariant`, `CallsAccounted`, `NoCallCutOff`,
  `Refinement` (of `RemoteCall`): all of the run's safety properties.  The
  invariant relates a call's outcome to how
  far its message has got, and says that an open socket is the channel's.  Hence
  the socket whose close rejects the pending calls is never one that has been
  replaced, and a result counts only of a command that ran.
* `SyncJobsProofs`: `TypeInvariant`, `KeysOfActiveJobs`, `CursorHonest`, `Exhausts`.  The
  invariant says of every run what the property says of the saved cursor - the
  pages before the cursor in its hand are mirrored, from where it reads the saved
  one to where it saves its own - and ties the queue's record of a job to where
  its run is.  `Exhausts` is the half of `JobsComeToRest` that needs no fairness: a
  step by anyone makes less of what is left of one job (`Again`, the attempts and
  stalls not spent; then `Ahead`, pages and statements to the end of the run) and
  takes nothing from the others, so finitely many jobs make finitely many steps.
* `ProviderWorkProofs`: `TypeInvariant`, `Bounded`, `Real`, `HandledOnce`, `Exhausts`
  (the same measure, of operations and events): all of
  the run's safety properties, and a bound that no run states (`WorkBounded`).
  The bound is inductive with what is left of it: effects, attempts left and
  stalls left never add up to more than the limit, and one more only while a run
  that has had its effect is still to be accounted for.
* `StockLedgerProofs`: `TypeInvariant`, `SingleCount`, `Movements`, `Books`,
  `Overdrawn`: every property of the run.  The invariant
  says what a request knows of its document although others work on it: its kind
  never changes, and a movement that was made stays made.  For `Books` it says in
  addition, while requests have not overlapped, by how much the books are off
  because of what the only active request has already moved and not yet entered in
  its document, or the reverse (`Pending`, `Withheld`), and what it has read
  (`Holds`).  What documents add up to is a fold over a finite set; that changing one
  document changes the sum by the difference (`SumUpdate`) is proved by taking
  a smallest subset for which a statement about sums fails (`SmallestSubset`, from
  the well-foundedness of strict inclusion).  `Overdrawn` rests on all of it
  (`CountInv`): a count stays where it is and, once approved, approved; a request
  that approves it knows where; and alone, what it has read of the line is still so
  and nobody rewrites a line whose count was approved meanwhile.
* `HumanResourcesProofs`, about `QiwaContract`: `TypeInvariant`, `Approval`,
  `Workflow`: every property of it that the run checks.  The invariant says that a request's write
  leads along `ALLOWED` from the status its where clause names, whatever has become
  of the row.  About `EmployeeWallet`: `WalletTypeInvariant`, `SingleDebit`,
  `WalletAgreement`: likewise.  `WalletInv` says what a call holds,
  however calls overlap; the balance is not negative because what is written was
  tested, not because it is still right.  While calls do not overlap, `WalletKept`
  says of the only call being served what is settled and what it still owes
  (`Settled`): that the voucher it debits has no debit yet, that what it will write is
  the balance plus its amount, that an advance whose credit is missing is the one it
  is about to pay.
* `PosShiftsProofs`: `TypeInvariant`, `ShiftsDisjoint`, `Invoices`: every property
  of the run.  Shifts share no sale because of the order in `closeShift`: sales
  are counted before the shift is seen to be open, so what it counts is older
  than any shift opened after it has ended.

Every safety and action property that a passing run checks is stated by a theorem,
`NeverOverpaid`, `BalanceInRange`, `CancelledIsFinal`, `LedgerBalanced`, `StatusAgrees`
and `PaidIsFinal` under the hypotheses named above, which are those of the runs that
check them.  Only model-checked are the liveness properties (`CallsEnd`, `Reconnects`,
`JobsComeToRest`, `WorkSettles`): fairness and `ENABLED` are out of the prover's reach.
Of the last two, what remains for TLC after the theorems `Exhausts` is that the fair
workers do not stop before a job is at rest.  The types of `SyncJobs` and
`ProviderWork` are the other way round: `TypeInvariant` proves them for every value of
the constants, and the runs check the bounds in them as part of `WorkRunsOut` and
`AttemptsRunOut`, which ask that what is left stays a natural number.  Those of
`StockLedger` are proved as well and in no run: what they say of signs, the run
checks as `OverdrawnByCount`.

## 7. Not modelled

* The provider adapters, the mirrors' field translation, storage, PDF, messaging,
  AI: I/O and renaming.
* Reports, dashboards, seeds, scripts and the front end: they read, or run alone.
* Line totals, taxes, payroll, leave and attendance arithmetic: computed by one function from
  its inputs, and decimal; tests reach them.
* CRUD over companies, users, roles, plans, projects, contacts, employees and
  configuration: one statement a request.
* Loyalty points, coupons, subscriptions and refresh tokens: two or three statements each,
  with races that are plain from the code (two redemptions compare one balance and
  then both decrement it, `loyalty.service.ts:161`); `PROJECT.json` lists those of
  subscriptions and tokens as hazards without a property.
* In the modelled parts: batches and serial numbers, supplier bills and returns,
  POS returns and exchanges, commissions, ZATCA, the posting of journals.
