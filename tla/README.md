# Sandbox console: specifications, model checking and proofs

TLA+ specifications of the control-plane slices under `scripts/` of this
repository and of the browser demo, written from the Python and JavaScript source. They
state what those parts have to keep true when callers, workers, leases, providers, tabs
and crashes interleave. TLC checks the statements on small instances; the TLA+ proof
system (TLAPS) proves every safety property among them for every value of the constants. Liveness stays with TLC.

Run `tlc -config X.cfg M` on a module `M` from the table of runs, and `tlapm M.tla`
on a module whose name ends in `Proofs`, and on `SumLemmas`. `PROJECT.json` lists the runs,
which lines of the source every definition stands for, for each property a plausible
bug it would catch, the hazards of the code and what covers them.

Contents: 1 the system, 2 the modules, 3 the runs, 4 bounds, 5 fairness, 6 proofs,
7 where code and documents disagree, 8 what is not modelled, 9 the plan.

## 1. The system

The repository is a console for agent sandboxes: a browser demo, and a set of Python
slices that settle, one by one, what the control plane must guarantee. They share
conventions rather than a process: state is persisted before an effect, every effect
has an idempotency key, a sandbox carries a fencing generation, and uncertainty is
never turned into a verdict.

### Core components

**Operation log** (`operation_reconcile.py`, `OperationLog`, `RuntimeDouble`).
*State:* a row per sandbox (observed and desired state, generation, version, pending
operation, reconciled and uncertain flags, reservation), a row per operation, a map from
idempotency keys to operations, the event ledger and outbox it shares. *Operations:*
`request`, `dispatch`, `runtime_outcome`, `emit_terminal`, `mark_timeout`, `mark_lost`,
`mark_reconciled`, `mark_uncertain`, `apply_event`, `replay`. *Interactions:* clients
and the reconciler request; workers run the pipeline dispatch, execute, verdict,
emit; runners deliver evidence; a restart replays. *Hard:* every method takes one lock,
but a pipeline is several methods, so leases, verdicts and timeouts get in between; a
crash may fall between any two; the runtime's answer may arrive late or twice.
*Correct:* one open operation per sandbox, one outcome per operation, published
exactly once, and nothing written by a fenced generation.

**Reconciler** (same file, `Reconciler.diff`, `apply`). *State:* none but the list it has
decided; the isolation alerts. *Operations:* `diff` compares a copy of the rows with the runner's
inventory, `apply` drives the actions through the log. *Hard:* nothing locks the log between the two
readings, between `diff` and `apply`, or between an action's read of a row and its request.
*Correct:* the instance of the row that was read is not isolated, a recreation rests on evidence about
the generation it replaces, and a failed sandbox that should run is recreated in the end.

**Stripe outbox** (`stripe_bridge.py`, `OutboxRecorder`, `ProviderDouble`). *State:* entries
pending, sent or confirmed with their receipts, and the image of them on disk.
*Operations:* `record`, `send`, `confirm`, `recover`, `to_dict`. *Hard:* a request or its
answer is lost, or the request arrives after its sender gave up; a crash falls back to
an older image. *Correct:* every intention is billed once and settled with that receipt.

**Stripe webhooks and eligibility** (same file, `WebhookProcessor`, `BillingEligibility`).
*State:* receipts by event id, invoice and subscription states, owners, last failures,
errors. *Operations:* `deliver`, `customer_state`, `last_failure`, `evaluate`. *Hard:*
events come in any order, repeatedly, after a restart from an older image, or forged.
*Correct:* states do not depend on the order, and new capacity is paid for.

**Budget enforcer** (`budget_gates.py`, `BudgetEnforcer`). *State:* one durable record: phase,
planned, issued and confirmed stops, alert. *Operations:* `enforce` at the limit, with its
loop `_issue_stops`. *Hard:* calls run concurrently, the stop is called outside the lock and may
time out or raise, the process dies between mark and call. *Correct:* no stop is called
twice or unmarked, and `blocked_stopped`, which ends the compute bill, is honest.

### Metering

**Resource-event ledger** (`resource_events.py`). *State:* append-only envelopes, quarantine, the
projection into usage segments, superseded segments, flags for a human, outbox.
*Operations:* `append`, `apply_correction`, `commit_with_outbox`, `mark_delivered`, save and load. *Hard:*
envelopes come late, repeatedly, under a new id or with other content; a lost lease has no certain end;
a sealed period must not be restated. *Correct:* usage is a function of the events and not of their arrival.

**Watchdog lease** (`watchdog_lease.py`). *State:* epoch and deadline; the caller keeps `detected_at`.
*Operations:* `issue`, `renew`, `expired_at`, `evaluate`. *Hard:* expiry against renewal, reports about an older
instance, unreachable runners. *Correct:* a bill is closed only on proof of a stop, and a loss is escalated.

**Usage engine and rate card** (`usage_engine.py`). *State:* rate rows. *Operations:* `upsert`,
`sync_from_provider`, `lookup`, `price`. *Hard:* rows that cut one another, sealed periods, months,
rounding. *Correct:* every instant is priced once, at the rate in effect, or reported as unpriced.

### Billing

**Billing reconciliation** (`billing_reconcile.py`). *State:* corrections by id. *Operations:* `reconcile`,
`apply`. *Hard:* lost acknowledgements, a restored backup, credits that change the next gap, an
invoice that already shows them. *Correct:* the ledger holds what the provider took, and a correction settles its gap.

**Metering client** (`stripe_bridge.py`, `MeteringClient`). *State:* none but the reports made.
*Operations:* `report`, `poll_status`, `reconcile`. *Hard:* repeated reports, delayed aggregation, the end of
a month. *Correct:* usage is counted once, in the month it happened in.

**Eligibility gate, overrun window, storage terms** (`budget_gates.py`). *State:* committed spend, account state.
*Operations:* `check`, `admit`, `release`, `new_period`, `overrun_window`, storage accrual. *Hard:*
callers act on account states they read earlier. *Correct:* admitted work fits the budget, and paying is not bypassed.

### Around the workspace

| component | state and operations | why it is hard |
|---|---|---|
| Control-plane double (`control_plane_double.py`) | sandboxes, operations, idempotency records; create, change, destroy, `advance`, `confirm`, `expire_lease`, `mark_reconciled` | any operation may be confirmed late, after a destroy overtook it |
| Automatic policy (`auto_policy.py`) | the caller's busy claim and last demotion; `decide`, `countdown` | late, repeated and foreign reports of work |
| Tenancy (`tenant_authz.py`) | quota use, create windows, tickets | check-then-commit under threads |
| Files (`files_policy.py`) | reserved bytes | the same |
| Egress (`network_policy.py`) | tunnels; `decide_after_dns`, `decide`, `revoke` | a name that answers differently from one lookup to the next |
| Own keys (`byok_policy.py`) | keys, injections, generations; plan, confirm, rotate, revoke, clear | revocation and new generations between plan and confirmation |
| Operations (`ops_alerting.py`) | alert deduplication, disk reservation, retention, data directory | alerts that clear and fire again, set-up run twice |
| Browser demo: clock (`lifecycle.js`) | seconds per state | late ticks, reloads |
| Browser demo: tabs and files (`tab-sync.js`, `file-upload.js`, `file-deletion.js`, handlers of `src.js`) | one localStorage key, files in IndexedDB | two tabs, a fork that still fills its sandbox, state read before an await |
| Contract verifiers, gVisor tools, runner configuration, page and blog, image and CI, documents | none | no protocol |

Interactions among them are calls and shared values: the log appends to the event ledger
and fills its outbox; the ledger's segments feed the usage engine, whose totals the outbox
reports and billing reconciliation compares; the watchdog's confirmed stop is evidence for
the reconciler and the ledger; the webhook's state feeds eligibility, and eligibility and
budget feed admission; `ops_alerting` and `files_policy` reuse the same gate. In the repository they
share no memory: each slice is tested against doubles of the others, and each module models the others
by what it is given from them, in any order.

## 2. The modules

| module | models | extends |
|---|---|---|
| `OperationLog` | the log, the runtime's memo, workers, crash, restart and replay | |
| `IntentionLog` | what the log promises, abstractly | |
| `Reconciler` | `diff` and `apply`, composed with the whole log | `OperationLog` |
| `StripeOutbox` | recorder, transport and provider | |
| `BilledOnce` | what the outbox promises, abstractly | |
| `BudgetEnforcer` | concurrent enforcements around the durable record | |
| `EventLedger` | one resource's envelopes, fold, archive, corrections, outbox | |
| `WatchdogLease` | lease, instances, evidence and the evaluating caller | |
| `RateCard` | rate rows over time, and pricing against a definition instant by instant | |
| `StripeWebhook` | intake, states, eligibility | |
| `Corrections` | one line of the month: passes, provider, invoices, ledger and backup | |
| `MeterReports` | reports, asynchronous aggregation, polls and verdicts | |
| `BudgetAdmission` | the gate and its callers; the overrun window; storage accrual | |
| `AdmissionGates` | quota, upload, disk, create-rate and ticket gates under threads | |
| `ControlPlane` | the double with idempotency, versions, capacity and late evidence | |
| `AutoPolicy` | `decide` and `countdown` in the loop of their caller | |
| `KeyInjection` | keys, injections, mounts; egress decisions and tunnels | |
| `OpsPolicies` | alerts, retention, data directory | |
| `BrowserDemo` | the clock and the shared key, in two tabs | |
| `FileOps` | uploads, deletions and a fork across their awaits, in several tabs | |
| `MC...` | finite instances for TLC | the modules named in it |
| `OperationLogProofs`, `ReconcilerProofs`, `StripeOutboxProofs`, `BudgetEnforcerProofs` | theorems of one component | that component, `TLAPS` |
| `MeteringProofs`, `BillingProofs`, `WorkspaceProofs` | theorems of several components that share no state (`BillingProofs` has the admission gates, whose counters are sums like the budget's) | those components, `TLAPS` |
| `SumLemmas` | lemmas on `SumFunction` that three of these need | `Functions`, `TLAPS` |

`MCMetering`, `MCBilling` and `MCWorkspace` each hold several components that share no state. A variable
`component` picks the one a behaviour exercises and the others stay as they began, so a run
costs the sum of its components and not their product.

Some modules hold, before a definition, a variant that no action uses (`AnyBody` before
`SameBody`, `OnlyRequested` before `FirstStep`): each is a bug the definition might
have had, and `PROJECT.json` names the property that is violated when it takes its place.

### `OperationLog`

A method of the log is one atomic action, since it holds the lock from its first read to
its last write, and the persisted image is what it leaves behind. A request is four
actions, one for each of its answers: `RequestReplayed` (remembered key),
`RequestDestroyed` (repeated destroy), `RequestPending` (the same change is pending) and
`RequestAccepted`. A request that is refused changes nothing and is not an action;
the caller's expected version is taken to be the current one, because any other is refused.
`DispatchOp`, `ExecuteOp`, `OutcomeOp`, `EmitOp` and `TimeoutOp` are the handlers; the
worker (`WorkerDispatch` to `WorkerEmit`), the replay (`ReplayDispatch` to `ReplayEmit`),
`Redeliver` and `MarkTimeout` call them. A replay holds the lock throughout: while
`cursor` is not 0, `Serving` is false and only a crash gets in. `Crash` keeps the
log and loses the workers; `Restart` begins a replay, which walks all rows.

Abstracted: times, event payloads, error texts, and the id of an event, which the code
derives from operation and type (so a second append of a pair is a quarantine). `answered`
and `writer` are auxiliary: what a key was answered with, and whose evidence or command
last set a row's observed state.

`IntentionLog` knows only owner, outcome, effect and publication of an operation. The
refinement maps requested, dispatched and timed-out operations to *open*, the
runtime's memo to the *effect*, and a terminal event in the outbox to *published*.

### `Reconciler`

`diff` is given two readings, and nothing says they are of one moment: `ReadRows` copies the rows
into `view`, everybody goes on, and `Diff` compares the copy with any inventory. An instance may be
missing, listed twice, of an older generation, of a newer one than the copy knows, or under the id of a sandbox
that had no row when the copy was made; stop evidence exists for instances that stopped (`InstanceStops`).
`Assessments` says, for one sandbox and every listing of it, which isolations and which action follow.
An action remembers the generation it was decided on (`asOf`, auxiliary), and of the flags raised for a human the
model keeps the last, since each stands for itself.
`apply` is a program over the head of the plan: `ApplyIsolate`, `ApplyKeep`, `ReadRow`,
`GiveVerdict`, `ApplyRequest`. To recreate a row without a verdict is to read it, call
`mark_reconciled`, read it again and request, and each is a step of its own; the version
read is the version sent, and a refusal raises and drops the rest of the plan. The log's own
actions go on in between, less three that lead nowhere new here: a call of `replay` without a restart, a timeout or
a repeated outcome of an operation that is closed, and flagging usage, which `apply` itself does.

### `StripeOutbox`

The recorder takes no lock: its methods are atomic except where they call the
transport, so a call is a state (`call`), and meanwhile only the network, a timeout or a
crash moves. `Send` and `RecoverSend` begin it, `ProviderAnswers` is the provider taking
the request, `Response` its return, `Timeout` the error; a request whose caller
gave up before it arrived stays in `strays` and may arrive at any later time. `recover` is
a loop with a `cursor`. `Save` is `to_dict`; an unconfirmed receipt is not part of it.
`BilledOnce` sees an entry as intended when it is on disk and as settled when it is
confirmed on disk.

### `StripeWebhook`

`Deliver` is the whole handler: signature, seen id, then one of invoice, subscription,
meter error or unknown type. Events are records with an id, type, object, customer and
time; amounts, payloads and the signature scheme are left out (a signature is good or not).
`CustomerState`, `LastFailure` and `Allowed` are operators on the processor's memory.
`Tick` is the clock eligibility is evaluated at.

### `BudgetEnforcer`

`AtLimit` saves the blocked record or resumes the one there is. `Mark` is the critical
section in the loop of `_issue_stops`: reload, skip what somebody else marked, save the
mark. `StopCall` is the call outside the lock with its three ends (returns, times out with
or without effect, raises), and `TimedOut`, `Returned` and `Report` are the following
critical sections. Amounts are abstracted to "at or over the limit", the case in
which anything is written. `NewPeriod` and `Starts` are its surroundings: other code resets the
account, and users start what the record does not keep blocked.

### `EventLedger`, `WatchdogLease`, `RateCard`

An envelope is its identity, source key, effective time and the part its type plays in the fold.
`AppendEvent`, `Correct` and `Commit` are the three ways in; each ends in a fold of the
whole log in (time, order of precedence, sequence) order, and segments that are no longer
projected go to the archive. `Fold` is a function on the sets of positions in the log, which folds the latest
event of a set last; on the whole log that is the sorted loop of `_fold`. `ProjectionRight` compares the fold with a definition that reads usage off
the set of events. `Reload` is `to_dict` and `from_dict`.

The lease's times are ages, capped at the limits they are compared with, so no clock runs
out. `Evaluate` is `evaluate` and the caller that records the decision: what
a runner says is true when it can be reached and anything when not, what the
host says is true. A report may name no epoch (`Unnamed`), and then passes the fence.

`Upsert` and `SyncRow` are the two ways into the card, with the truncation and replacement rules
of `_insert`. `Line` is `price` for one interval, cut at every boundary;
`Reference` adds up single instants.

### `Corrections`, `MeterReports`, `BudgetAdmission`

A pass of the reconciler is one action on a snapshot that may be stale (`Fetch` is a step of its
own); in it a lost answer leaves a receipt without an entry, and `Restore` falls back to a
backup. One unit costs one minor unit, so the local units are also the amount due.

A meter event occurs in a month and may be sent in a later one; the request or its acknowledgement is lost;
the provider keeps one event per id and month and aggregates later; a poll reads, and only a
ready record is judged.

A worker reads the account (`ReadAccount`) and later admits on that state. Beside it,
`burn` is spend that is looked at only every `CheckInterval` and stopped only after
`StopDuration`, followed by storage that accrues up to its cleanup.

### `AdmissionGates`, `ControlPlane`, `AutoPolicy`, `KeyInjection`, `OpsPolicies`

The gates take their lock for check and commit, and a caller is a thread that asks, holds the lock, commits and
later releases. A thread reads the clock before it gets its turn, so creates are
served in another order than their times. Where a lock could be missing, a mutant takes it away.

The double is single-threaded, and its difficulty is the order of calls: `Confirm`, `ConfirmError` and
`Advance` apply to any open operation, also one a destroy has overtaken. Its capacity is not
stored but derived from the observed states.

`AutoPolicy` has reports in circulation (`busyReports`) that survive the instance they are from. A hook names the
generation or does not (`hookNames`, chosen anew per instance), and `decide` may be handed a state without one; either is
compared with nothing (`Unfenced`). History says where a report was really sent from (`sentFrom`) and whether one of
an earlier instance was admitted for that reason (`misled`).
`KeyInjection` has the runtime's mounts beside the store's records. `OpsPolicies` keeps what was sent,
which the code does not, to compare it with what fires.

### `BrowserDemo`, `FileOps`

A save is two steps, the check for a newer revision and the write, because another tab runs
between them; `Leaves` is what becomes of the page afterwards (it stays, goes to the page cache or closes). An event that
announces a write is delivered to each other page on its own and at any later time (`events`). History records what is
needed to judge the copies: `written` and `raced`, what reached the storage and whether a tab wrote between another's
check and write; `shown`, for how many seconds some page was open; `skipped`, how many of those a copy has not
counted because `restoreClock` took them for time with the page closed; and `overlap`, whether two pages were ever open at
once, or a second passed within a save.

In `FileOps` a step is what happens between two awaits: the dialog, the reading of the keys, the transaction. A
sandbox that a fork has just made is filled file by file (`ForkPuts`, `ForkFails`), with no look at what is there.
Uploads are made in pages, and one in the same page is in the way (`SamePage`). Deletions and a switch of state
come in between. History records per upload what a fork or another page wrote since it read its keys (`arrived`).

## 3. The runs

| run | question |
|---|---|
| `operation_log` | Do rows, operations, ledger and fences stay consistent under every interleaving of workers, clients, leases, verdicts, evidence and a crash, and does the log implement `IntentionLog`? |
| `operation_log_live` | Does every accepted operation end in a published outcome if crashes end? Are keys honoured? Also the refinement with fairness |
| `reconciler` | Are isolations and recreations justified when the rows move between the readings `diff` compares and between plan and apply, and is a failed sandbox recreated? |
| `stripe_outbox` | Is every intention billed once, with a genuine receipt, and billed and confirmed in the end? |
| `budget_enforcer` | Are stops marked before they are called, called once, honestly reported, kept and issued in the end? |
| `metering` | Is usage what the events stand for, is a bill closed only on proof, is every interval priced right, is a loss escalated? |
| `billing` | Do webhook states converge, do corrections settle, is usage counted once, is the budget held? |
| `workspace` | Do the gates, the control plane, keys, alerts, automatic demotion and the demo's tabs and files keep what they promise? |
| `destroyed_revived`, `stops_next_period`, `sealed_restated`, `history_repriced` | Each refutes a sentence of a contract or comment: section 7 |

What the deeper properties say:

* `Serialized` relates three things the code updates separately: an operation's state, its
  sandbox's `pending`, and both generations.
* `LedgerAgrees` says rows, ledger and outbox tell one story: a worker, a replay and a
  reconciliation may all publish one outcome, and none is ever quarantined as a conflict.
* `RowsConsistent` says what may be believed of a row. In transit it has somebody responsible for it;
  its capacity comes back only by a removal the runtime confirmed; whoever last set its state belongs to
  its current generation, and a generation is started by one resume; no timeout
  or lost lease ever became a verdict, and no verdict of the runtime disappears.
* `VersionFences` justifies optimistic concurrency: with an unchanged version nothing the acceptance
  rules look at has changed. `KeysHonoured` says a key that stands for an operation is answered with it for good.
* `IsolatedSuperseded` says what was handed to a human as an orphan is not the instance its row stands for, then
  or later, unless that instance was started after the rows were copied (section 7). `PlannedFromCurrent`
  says that for as long as a recreation waits and its row is of the generation it was decided on, the row has a
  verdict or the instance was seen to stop.
* `BilledAtMostOnce` and `ReceiptGenuine` hold although memory falls back to an older
  image and requests arrive after their sender has forgotten them.
* `StoppedIsStopped` says the phase that ends the bill implies that every planned stop was answered
  and, in that period, that nothing planned runs. `NothingUndone` says no call takes
  back what another saved from a newer record.
* `LedgerSound` equates the fold with a definition that knows no order, counts no instant twice, and drops
  nothing: every envelope is logged, quarantined or flagged, every segment ever shown is
  shown or archived. `UsagePriced` equates `price` with a sum over instants. `PastRowsStand` says no sequence of
  legal changes takes an effective row's past away.
* `ReleaseIsProven` says a release means an expired lease and a stopped instance, with the one exception the
  code makes (evidence without an epoch). `LossEscalates` is its liveness: an instance that died is proven
  stopped, replaced, or put before a human, although an older instance goes on heartbeating.
* `WebhookSound` makes the two state machines joins: the state is the highest-ranked of the applied
  events; it relates provisioning to the events behind it, and each event to one mark. `TimeOnlyCloses`
  says waiting never widens a permission.
* `EntriesBacked` survives a lost answer and an older backup. `EffectSettles` says a correction made from a
  complete ledger on a current snapshot leaves no gap in its own column, whatever was corrected before, and a match is
  judged where there is none; for a line whose draft was amended it says how far off both are (section 7). `MeteredOnce`
  ties accepted usage to the month it happened in and a verdict to one count.
* `BudgetHeld` says the gate's counter is what the callers hold, no admission brings it to the limit, and an early
  stop at limit less overshoot is early enough. `UnpaidStaysOut` says a new period reopens nothing unpaid.
* `GatesHold`: no reservation is lost or doubled, no window exceeds its limit whatever order times are named
  in, and a ticket attaches once. `ControlSound`: what runs fits the host, a pending operation is open and its
  own sandbox's, and any other that is open was overtaken by a destroy, which is neither a resume nor a destroy itself. That
  a destroy may overtake it at all is against the contracts (section 7).
* `WorkProtected`: a demotion means that the work claimed has really ended, however late reports of earlier
  instances come, unless one of them was admitted for want of a generation (section 7); that the cooldown is over
  and the countdown shown has run out. `InjectionCurrent`: no live injection of a revoked key or an
  older instance, no tunnel to a name that ever answered with a denied address. `OperatorInformed`: what fires is
  covered by an alert at least as severe and recent.
* `DemoSound`: up to its last accounting, each copy has counted the seconds in which a page was open, each once, and no
  others. What it lacks is exactly what was skipped when a page was loaded or shown beside another that had not saved
  yet, and with one page open at a time that is nothing. Late ticks end where punctual ones do, and a stored edit
  stays, but for a write in the gap the code's own comment names.
* `OverwriteSeen`: an upload replaces only what its user was shown, whatever appears, is deleted or suspended meanwhile, except
  for what a fork or another page's upload put there after it read its keys (section 7).

## 4. Bounds, and why they are enough

| constant | value | why |
|---|---|---|
| `MaxOps` | 2 (1 where one operation refutes) | The interesting pair is an operation and its successor on the same sandbox: a fenced one and its replacement, a repeated destroy, a forgotten key. A third adds another pair. |
| `MaxVersion` | 2 to 5 | Outsiders act on a row only up to this version; work in progress is never held back. 5 allows creation, loss, verdict, request and one more interference before and after it. In `reconciler` 3 lets others move a row twice after its creation: between the readings, and between plan and apply. |
| `MaxCrashes` | 0 to 2 | A second crash hits the replay that follows the first. The next would repeat it from a reachable state. |
| `UserOps` | 1 | The reconciler and one other caller compete; the rest of `MaxOps` is the reconciler's. |
| `InitialRows`, `EvidenceStates`, `InventoryStates` | one or two rows; Active, Suspend, Destroyed; Active, Error | One representative of each class the guards tell apart. |
| `MaxEntries` | 3 | `recover` needs an entry before and one after the one that fails. |
| `Call`, `Resource`, `MaxPeriod` | 2, 2, 1 | Two enforcements with different lists, and one change of period. |
| `MaxEvents`, `LedgerEvent` | 4 of 9 envelopes | Start, resize, stop and loss at one instant, a loss with and without an observation, a repeated id with other content, a repeated source key: any four of them, in any order, repeated. |
| `SealedPeriod` | 2 to 3 | One that a gap can touch, straddle or miss. |
| `Ttl`, `ConfirmTimeout`, `MaxEpoch` | 2, 2, 3 | Ages reach their limits exactly; an instance, its replacement and the replacement's. |
| `Version`, `LastRateTime`, `MaxNumerator`, `Denominator`, `MonthStart` | 3, 3, 2, 2, 2 | A row before, at and after another; a price that rounds; usage across a month and the sealed period. |
| `Event` | 8 events | A failing and a later paid invoice, a second one, both ends of a subscription, a body without an object, a meter error and an unknown type. |
| `Grace`, `MaxNow` | 1, 1 | The clock reaches the deadline of a failure at 0 exactly. |
| `MaxUnits` | 2 | Local and provider's units differ in both directions, and by more than one. |
| `MeterEvent`, `LastMonth` | 2, 1 | Two events across one end of month. |
| `Worker`, `Limit`, `BlockNewPct` | 2, 9, 80 | Two callers whose costs (1 to 3) fit one by one and not together, below and above the threshold. |
| `TopRate`, `CheckInterval`, `StopDuration`, `CleanupAfter` | 1, 3, 2, 3 | An overshoot smaller than the limit, checks that just miss it. |
| `Caller`, `Quota`, `UploadCap`, `DiskCap`, `HighWaterPct` | 2, 2, 3, 3, 80 | One place left, two who want it. |
| `CreateLimit`, `CreateWindow`, `LastGateTime` | 2, 3, 6 | Two windows, and times served out of order within both. |
| `Box`, `RequestKey`, `Compute`, `Volume`, `MaxOperations` | 2, 4, 1, 2, 4 | A host full with one, and create, change, destroy and a late confirmation of one sandbox. |
| `Work`, `BusyTtl`, `Cooldown`, `LastPolicyTime`, `LastInstance`, `MaxReports` | 2, 2, 2, 3, 2, 2 | Two pieces of work, a claim that expires, a cooldown that ends, a report of the first instance that arrives in the second. |
| `CustomerKey`, `LastGeneration`, `MaxTunnels` | 2, 2, 2 | A rotation from one key to another and one restart. |
| `DedupWindow`, `Notice`, `VolumeRetention`, `LastOpsTime` | 2, 2, 3, 4 | An alert inside, at and past its window; a deletion asked for early and late. |
| `Tab`, `LastNow`, `MaxRevision` | 2, 2, 2 | Both tabs write one revision; a tick that spans both transitions; a page loaded beside one with unsaved seconds. Each tab's user acts once, before the last time. |
| `Path`, `Upload`, `Page` | 2, 2, 2 | Two uploads that share a file, in one page or in two; an upload that reads its keys between two puts of a fork. |

Tabs, work, sandboxes, pages and paths are interchangeable, and no definition of those modules chooses among them. `MCWorkspace` therefore
follows behaviours only in which their names are first used in one order (`InOrder`): every other is one of these with
names exchanged. `Bounds` there says that the hook of the last instance names its generation, since what
it sends can mislead no later one, and that one upload meets the fork. The files have a part of the run with a fork and one without.
Deadlock is not checked in `metering`, `billing`, `workspace` and the two violation runs of `metering`: there
events, tokens and clocks run out, or everything may be at rest for good. It is checked in the others.

## 5. Fairness

*Log:* `WF(Restart)`, as the process is started again; `WF(Replay)`, the loop that holds the
lock; `WF(Worker(o))` per operation, a thread that keeps running. Nobody has to send a request, give a
verdict, time out or crash. With `MaxCrashes`, `EventuallyPublished` reads "if
crashes end".

*Reconciler:* besides those, `WF(ReadRows)` and `WF(Apply)`: the loop keeps running. `SF(Informed(s))`: it
runs periodically, and not every one of its inventories is forever incomplete about a sandbox; weak fairness of
that would not imply `Recreated`, since every plan made from an incomplete one disables it.

*Outbox:* `WF` of the three steps of `recover`, because it is called while anything is
unconfirmed; `SF(ProviderAnswers(o))` and `SF(Response(o))` per entry, because the calls of one
entry do not all fail for ever. It has to be per entry: `recover` goes in order and stops at the
first failure, so an entry that always fails holds up all behind it.

*Budget:* `WF(CallStep(c))` for calls under way, and `WF(Enforce)` because the
check is periodic; it is what resumes after a crash.

*Lease:* `WF(Tick)` and `WF(Evaluate)`: time passes and the watchdog's caller keeps
evaluating. Nothing is assumed of the instances, the runner or the host.

## 6. Proofs

Assumed is only what the modules' `ASSUME`s say and what a theorem names as its own assumption. The
`ASSUME`s say that bounds are natural numbers and `None` is not one of the ids; that the sandboxes, workers and
callers which something in the code counts, adds up or walks one by one are finitely many (`ReconcilerAssumption`,
`BudgetAdmissionAssumption`, `GateAssumption`, `ControlAssumption`, `BudgetAssumption`); and, for the ledger,
that an observation reported with a loss was made before the loss (`EnvelopeAssumption`). The last is what
`last_observed_at_ms` means, and the tests keep to it, but `_validate` does not look: an observation "later" than
its loss would confirm usage past it. Nothing else is taken on trust.

Everywhere the argument is an inductive invariant, stronger than the property. What follows names
what it adds and why.

**Operation log.** `OperationLogProofs` proves in layers:

1. `TypeCorrect`. `TypeOK` is not inductive: that a replay
   reads a well-typed row needs to know which operation rows are in use and that workers and cursor
   only touch those (`RowsInUse`, `WorkInUse`).
2. `VerdictReady`: at the verdict step, of a worker or of the replay, the runtime has
   answered. With it every step of the system is one of a few *effects* (the `StepCases`
   lemma): nothing on the rows, an entry in the history, a non-terminal move, a settlement,
   a publication, a row action, an acceptance. Later proofs split on these and not on twenty actions.
   They are about `AnyNext`, which is `Next` without its version bound and with any caller, so that the reconciler
   can use them again.
3. `SerializedAlways`, from `Serialized` and `Fresh` (an unknown sandbox has nothing
   pending).
4. `TerminalStableAlways`, an action property: only an open operation is ever settled.
5. `LedgerAgreesAlways`: every append is guarded by the row's own event set, which
   the invariant equates with the ledger.
6. `ImplementsIntentionLog`: every effect is a step of the abstract log or a stutter;
   "one open operation per sandbox" is where `Serialized` is used.
7. `VersionFencesAlways`: `RowCases` leaves the effects that touch a row, and each of those that changes what the
   acceptance rules read raises the version. That a row which never was is blank (`Blank`) is needed for creation.
8. `RowsConsistentAlways`, one lemma per conjunct. Beyond `Serialized` they need that generations only grow and an
   accepted operation is of a generation its sandbox has reached (`AcceptedRows`): a resume then
   starts a generation no operation has, and what was written last was written by the row's own.
9. `KeysHonouredAlways`: only a request answers, and the four replies agree on what a key stands for.

**Reconciler.** `ReconcilerProofs` reuses all of it: a step of the composition is a step of `AnyNext`
(`RecStepIsLogStep`), so `ReconciledLogSafe` carries five of the log's properties over to it.
The rest is about copies that age: what was read of a row was true of it, and the row has only moved forward since
(`ViewTrue`, `Forward`), so its generation grew or its verdict still stands. What `diff` makes of such a copy is
`Sensible`: an isolated instance is of another generation than the row read, whose generation the row has reached,
and a recreation rests on the row's verdict or stop evidence if the row is still of that generation. Both survive
every step, because generations only grow and a verdict lasts until the next (`VerdictStays`), and give
`IsolatedSupersededAlways` and `PlannedFromCurrentAlways`.

**Stripe outbox.** `StripeOutboxProofs` proves `BilledAtMostOnceAlways`, `ReceiptGenuineAlways` and
`ImplementsBilledOnce`. The invariant adds to `TypeOK` that a request on its way carries its
entry's key (`OwnKey`), that an entry is charged once exactly when the provider has a charge under that
key (`ChargedAsReceipted`), that whatever was sent or is being sent is on disk (`SentIsRecorded`),
and that a recover stands at an open entry (`CursorOpen`). The first two carry the
argument: with a key derived from the entry, a late request finds the charge that was
made.

**Budget enforcer.** `BudgetEnforcerProofs` proves `OneMarkedCallAlways`, `StoppedIsStoppedAlways` and
`NothingUndoneAlways`. Its invariant adds that a call in flight is marked and is the only one for
that resource (`OwnStop`), that recorded confirmations are answers the runner gave
(`Answered`), and that the phase agrees with the record (`Honest`).

**Sums.** `SumFunction` is a recursive function over subsets, so the lemmas of `SumLemmas` are proved by
induction on a set's size, stated as sets of numbers (`AllNumbers`), since the library's induction theorems
take an operator the provers cannot instantiate. They say what changing one term does
to a sum, that the order of its terms does not matter, that equal terms over an interval add up to a product, and
so that a sum over instants is the sum over the pieces they are cut into (`SumByIntervals`).

**Metering.** `MeteringProofs` proves

* `ReleaseIsProvenAlways`. A proof of a stop names an epoch, and could come true for an instance still to be issued
  unless no report in circulation names one: `ReportsTrue`, which with the property itself is the invariant.
* `PastRowsStandAlways`. It is enough that what is kept are rows (`CardInv`); the step is by the kinds
  of insertion, and a row that is cut keeps what lies before the new one (`CutRow`).
* `UsagePricedAlways`. The rows of one price key never overlap (`RowsApart`, the invariant). The cuts of an
  interval then partition it (`CutsAre`, `PiecesAre`); between two neighbouring cuts no row begins or ends, no
  month turns and the sealed period neither begins nor ends, so every instant of a piece is priced as its first
  (`PieceIsEven`), and `SumByIntervals` does the rest.
* `LedgerSoundAlways`. The order of folding is total, so a set of positions has a last one (`LastExists`) and the
  fold unfolds there (`FoldUnfolds`). `ProjectionOf` says what folding a set has come to: its segments are the
  usage its events stand for, none overlaps another or reaches past the last end, the open segment is the one the
  last end opened, and the heartbeat is the latest. One more event adds to the expected usage only what the
  last switch contributes up to it (`ExpectedGrows`), and that is what the fold adds (`FoldsEnd`). Around it the
  archive is what a replay would archive, which is why a reload changes nothing.
* `ArrivalOrderIrrelevant`: two logs of the same envelopes in another order of arrival project the same segments,
  unless two of them have one effective time and certainty, which is the tie `fold_key` breaks by arrival.
  No run can ask this, since it compares two behaviours; it follows from what `LedgerSoundAlways` rests on, because
  the expected usage reads nothing of the log but its order of folding.

**Billing.** `BillingProofs` proves

* `WebhookSoundAlways` and `TimeOnlyClosesAlways`. The invariant says of the memory and of
  the image on disk alike (`Good`) that every state is the maximum over the applied events about
  its object, every owner was named by one of them, and every event left one mark. It needs that an event's
  object is of its type's kind (`ObjectsTyped`); that provisioning is paid for needs also that the events of one
  object name one customer (`OneCustomer`), because a later event changes the owner. That time
  only closes needs a latest failure to exist, hence bounded event times (`EventsBounded`), and the
  least-number principle.
* `EntriesBackedAlways` (the backup is backed as the ledger is) and `EffectSettlesAlways` (with every
  receipt on record, the credits of `credits_for` are the gap already closed, column by column, but for an amendment
  that the invoice shows too: `CountedTwice`).
* `MeteredOnceAlways` (what was polled as ready, or called a match, had been aggregated: `Aggregated`).
* `UnpaidStaysOutAlways` and `BudgetHeldAlways`. The gate's part is inductive once an unseeded gate has handed out
  nothing (`GateInv`). For the burn, spend since the last look is bounded by the rate and the time since, and
  after the early stop by the time it takes (`BurnInv`, `SpendBound`).
* `GatesHoldAlways`. A thread in a lock is alone in it and what it read there is still so (`LockInv`), whence the
  counters. For creates, the window is the end of the list of all creates and what was dropped before it is too
  old for any time named later (`WindowFrom` in `RateInv`).

**Workspace.** `WorkspaceProofs` proves

* `OverwriteSeenAlways`: in a page at most one upload is pending (`OnePending`), so between its reading of the keys and
  its write nothing joins the files but what another page or a fork puts there (`Compared`);
* `WorkProtectedAlways`: a completion report sent from the current instance is about work that is over
  (`ReportsTrue`), and the claim is a report of this instance unless one that is not fenced misled the policy (`ClaimCurrent`);
* `InjectionCurrentAlways`: an injection given up while mounted is listed for teardown (`GivenUp`);
* `OperatorInformedAlways`: what the deduplication remembers was sent (`Remembered`);
* `ControlSoundAlways`: the capacity bound is not inductive, because a sandbox that is lost while it resumes
  runs again when the resume is confirmed. The invariant therefore counts also those (`Holders`), and adds that a
  resume or a destroy under way is overtaken by nothing (`NotOvertaken`), and that a reconciled
  sandbox has nothing pending (`ReconciledIsFree`);
* `DemoSoundAlways`: settling a box up to a time is at most two turns of its state (`TurnsAre`), and a tick on the way
  stops in the same turn (`LateTick`). Every copy there is, in a page, stored or on its way in an event, has counted what was
  shown but for what it skipped (`Sound`). For a settlement to keep that, what an open page has or may still adopt must have
  been accounted when the page was already open and some page has been ever since (`Unbroken`, in `GoodTab`). As long as
  nobody raced, whoever is at the storage's revision has what it holds, and everything written is there (`UpToDate`); and
  as long as pages were open one at a time, what is stored has all that was shown when the last one is gone (`OneByOne`).

*Model-checked only:* liveness, which is beyond the prover (`Recreated`, `EventuallyPublished`,
`EventuallyIssued`, `LossEscalates`), and the refinements with fairness (`AbstractFairSpec`), whose safety part
`ImplementsIntentionLog` and `ImplementsBilledOnce` prove; and that each of the four refuted sentences fails.

## 7. Where code and documents disagree

| run | the code | the sentence |
|---|---|---|
| `destroyed_revived` | `apply_event` sets any observed state of the current generation, also on a Destroyed row; evidence sent before a removal and delivered after it revives the row | `runner-lifecycle.json`: "No transition leaves Destroyed" |
| `stops_next_period` | nothing clears the enforcer's record: at the limit of a later period it resumes the old one and stops nothing it was given | comment of `BudgetEnforcer`: "only new_period() or settlement clears it" |
| `sealed_restated` | `_sealed_period_hit` tests the end points of a gap, so one that spans a sealed period is appended and restates it | comment there: "a gap STRADDLING a seal boundary must not restate sealed-window totals even when effective_at lands outside the window" |
| `history_repriced` | a row for one state that starts in the past cuts no row of its own price key, is accepted, and is preferred to the row for every state | `usage_engine.py`: "History is immutable once effective" |

Seen while modelling, without a run of its own:

* `operation_reconcile.py:325`: the outcome of a destroy that was pending when the lease expired takes the row from Lost
  to Destroyed, which `runner-lifecycle.json:586` excludes.
* `:150`, `:432`: only an accepted resume clears `reconciled`, so a row lost again is open for changes at once, where
  `operation-reconcile.md:25` asks for the verdict first.
* `:243`: a request answered with a pending operation returns before its key is recorded, and its retry
  creates another (`operation-reconcile.md:21`).
* `apply` gives its verdict to whatever generation the row has by then, so the stop evidence
  behind a plan may be of an earlier one; and as the version is read just before the request, a
  stale recreation can resume a sandbox somebody has just suspended.
* `operation_reconcile.py:667`: `diff` is given rows and inventory separately. An instance that a resume starts after the
  rows were copied is of a generation the copy does not know, and is flagged `unknown_instance` although it is the current
  one; `operation-reconcile.md:26` speaks of instances that are observed and have no desired record.
* Evidence of `Destroyed` sets the observed state but never releases the reservation, and a later
  destroy is answered without an operation. Each `diff` flags a rogue instance again.
* `recover` stops at the first entry that fails, so one bad entry holds up the rest. The recorder has no lock;
  nothing runs one from two threads, and if something did, a late response could set a confirmed entry back.
* A second `invoice.payment_failed` overwrites the time of the failure with its own, in delivery
  order: delivered late, an older failure moves the end of the grace window back. `last_failure` also counts
  failures of invoices that were paid since.
* `budget_gates.py:382`: `new_period` renews the account state, but the gate's committed spend, read once,
  stays what it was.
* `billing_reconcile.py:404`: `credits_for` counts the amendment of a draft, which is made in place (`:511`), so the next
  snapshot shows it as well. The line is then judged a mismatch by that amount, and once the invoice is final
  a credit note takes the amendment back. The class promises "no duplicate credits/refunds, ever" (`:492`); its tests
  keep the invoice amount as it was.
* `billing_reconcile.py:536`: a second gap of one kind on a line finds the id of the first and is never corrected;
  a correction recovered after its answer was lost is recorded with the amount of the new gap.
* A future rate row that is replaced by one that starts later leaves the instants between without a rate; they
  are reported as unpriced.
* `byok_policy.py:323`: a rotation moves the mounted injection to the history, so a later revocation of the
  old key lists no teardown for it.
* `auto_policy.py`: the caller holds one busy claim; a completion of the work it names ends the protection of other work.
* In the control-plane double a resume that is confirmed while its sandbox is Lost takes it out of Lost with
  no operation pending.
* `control_plane_double.py:252`: a destroy is accepted while another change of the sandbox is open, and leaves that one
  open and confirmable. `control-plane-api.json:170` says "at most one change operation per sandbox at a time; conflicts answer
  409", and so does `single_change_operation` in `runner-lifecycle.json:598`. `ControlSound` states it as an exception
  (`OvertakenByDestroy`) and shows that it goes no further: no resume or destroy is overtaken, and capacity and
  pointers hold.
* `auto_policy.py:181`: a report without a generation, or any report when the state has none, is not compared, so a late
  completion from an earlier instance can end the protection of current work. `auto-policy.md:52` says it "lifts protection ONLY
  when it matches the current generation and the claimed `work_id`". `WorkProtected` states this exception (`misled`).
* `file-upload.js:32`: "a file that appeared after confirmation cannot be overwritten unseen", and `README.md:33` asks again
  when the target changed. Between the reading of the keys and the commit this rests on the pending set, which is per page
  and per sandbox and does not know of `fork` (`src.js:63`). So what a second tab's upload, or the fork that
  still fills the sandbox, puts there in that window is overwritten unseen. `OverwriteSeen` states both exceptions
  (`arrived`). A fork in its turn replaces what an upload put there, with no look at it.
* `src.js:26`: `restoreClock` takes all time since the stored accounting for time with the page closed. A page loaded, or brought
  back (`:193`), beside one that has not saved since counts from then on without those seconds; when it writes first, the other
  adopts its copy, and the seconds since its last save (it saves every five) are lost, although a page was open. `README.md:24` and `:58`
  except only the time with the page closed (the latter adds that synchronising several tabs is not implemented). `DemoSound` keeps
  those seconds apart (`skipped`) and shows that no others are lost and none is counted twice.
* `tab-sync.js:25`: the race between check and write that the comment admits loses an edit; `StoredEditsStay` excepts it (`raced`).

## 8. What is not modelled

* `simulate_crash` and `converged_view` are test drivers; the model crashes at every step, of which
  their crash points are some.
* Estimates, uncertain totals, adjustment lines and the view of the usage engine read the priced lines.
* The token registry, `Authorize` and the invite list of `tenant_authz.py` are table lookups; path
  resolution, upload hashes and tar members in `files_policy.py` are checks of strings against a file system.
* In the browser demo: a `localStorage` that is full (the change stays in the page), and a page that ends without `pagehide`, which
  loses what it had not saved (`README.md:24` says about five seconds).
* The runbook registry and drill reports of `ops_alerting.py`; the cgroup values of `watchdog_lease.py`.
* Runner configuration and experiment plans, contract verifiers, gVisor measurement tools, the page with its data source, blog
  and styling, image, CI and packaging, documents: no state that two actors share.
* Text, times and amounts, where no guard looks at them; JSON schemas; signatures (good or not).

## 9. The plan

Every safety property the runs check is proved. What would say more, most important first:

1. Compositions: the lease's confirmed stop as the reconciler's evidence; the ledger's segments priced by the
   card; the webhook's state as the account state of the gate.
2. The safety half of the liveness arguments, as lemmas of their own: an open operation always has a worker or
   a replay that will reach it, a stop that is planned and not issued is still there for the next enforcement to mark.
