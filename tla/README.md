# FogMoe Telegram bot: models, checks and proofs

A verification development of the bot. Its centre is the durable message
pipeline: the components that decide whether a user's message is answered, once,
completely and in order, although the process crashes, workers are slow and
Telegram's answers get lost. Around it stand the services whose mistakes cost
something: tool calls with effects, money, tokens, members' permissions, and
what a user asked to be forgotten. TLC checks small instances of every model;
TLAPS proves safety properties for every value of the constants.

Paths begin with `src/`, the root of the repository; the bot's code is under
`src/src/fogmoe_bot/`, abbreviated `…/` below.

## 1. The system

```
Telegram ──getUpdates──> listener ──> inbound_updates ──> InboxWorker ──> IngressRouter
                                                                              │ KeyedMailboxRuntime
                                                                              v
                    accept / steer (one transaction) <── Assistant ingress, other routes
                                   │                         (billing, economy, verification,
                                   v                          profile, announcements)
             conversation_turns + inference_activities ──> InferenceWorker ──> agent loop ──> LLM, tools
                         ^         │ commit of a reply               │ progress blocks
             schedules ──┘         v                                 v
                            outbound_messages (one stream per chat) ──> OutboxWorker ──> Telegram
```

One process runs everything as asyncio tasks under a supervisor; PostgreSQL
(READ COMMITTED) holds what must survive. The job tables share a protocol: a
producer loop claims due rows with a fresh `LeaseToken` and a new version, a
consumer works on the claim without a transaction, and a settlement is an UPDATE
fenced by version and token; a sweep returns rows whose lease elapsed to their
queue. A restart needs no recovery step: the rows and their leases are the
state. The commands that move money or tokens are single transactions under
advisory and row locks, with a receipt per idempotency key.

### Inventory

| Component | State it keeps | Operations | What is hard, and what makes it correct |
|---|---|---|---|
| Telegram ingress and inbox (`…/presentation/telegram/listener.py`, `…/application/conversation/inbox_worker.py`, `…/infrastructure/database/conversation_workflow/inbox.py`) | listener offset; rows with status, version, attempt, token, lease | poll, persist, advance, claim, route, complete, retry, dead-letter, recover, phased stop | Telegram forgets by offset while storing fails half way; leases elapse under slow handlers. No update lost, order per conversation, only the last claim settles, everything settles |
| Turn and inference (`…/domain/conversation/turn.py`, `_inference_activity.py`, `…/conversation_workflow/inference.py`, `…/application/conversation/inference_worker.py`) | turn state; activity status, version, budget, input revision, token; messages | open, steer, claim a batch, read the context, commit a reply, retry, fail, recover, reset | six transactions write the same pair; steers race commits. Turn and activity agree, a reply answers all inputs of its turn, what ended is final |
| Acceptance and steering (`…/infrastructure/database/assistant_turn_acceptance.py`, `…/application/conversation/assistant_ingress.py`) | none of its own | replay, steer, open | updates are routed again; the clock is read before the transaction. Every input is stored once |
| Reset (`…/infrastructure/database/conversation_reset.py`) | reset floor of a conversation | `/clear` | a reply is under way from the history being closed |
| Context window and attachments (`…/application/context_window/`, `…/infrastructure/database/context_window.py`, `…/application/assistant/workspace_attachment_*.py`, `…/infrastructure/database/workspace_attachment_*.py`) | message rows with their marks, resets, compactions with leases, a cache, intents, receipts | project, cache, plan and enqueue a compaction, summarize, import a file, publish its row | reads that are not one snapshot, summaries that finish and files that appear meanwhile. The model is shown everything visible, once; a row shows a file exactly if it is there |
| Outbox and delivery (`…/application/conversation/outbox_worker.py`, `…/conversation_workflow/outbox.py`, `…/infrastructure/telegram/outbox_delivery.py`) | rows with stream sequence, status, attempts, lease; delivery state of turns | enqueue, publish progress, commit a plan, claim, deliver, complete, retry, dead-letter, recover, sweep abandoned plans | ambiguous deliveries, order per chat across retries, plans that fail half way |
| Keyed mailbox runtime (`…/application/runtime/keyed_mailbox.py`) | mailboxes, ready heap, pending count, events, worker tasks | start, submit, take, finish, reap, drain, cancel | lost wake-ups, stale heap entries, counters kept by hand, two concurrent shutdowns. One serial mailbox per key |
| Ingress router (`…/application/conversation/router.py`) | none | guards, primary, observers | a later observer fails after the primary is done |
| Agent loop and tool effects (`…/application/assistant/agent_loop.py`, `…/application/assistant/inference/service.py`, `…/infrastructure/database/assistant_tool_effects.py`) | step checkpoints, receipts with leases | walk the routes, plan a step, call tools, resume | a call that outlives its lease, a replay after a crash or on another route. Each effect at most once, in order, in the current generation |
| Failure circuit, rate limits (`…/application/runtime/failure_circuit.py`) | failures, permits, probe of each route | acquire, report, cool down | late reports of earlier attempts, a probe that is cancelled. Only the probe closes a circuit |
| Process lifecycle (`…/application/runtime/bot_runtime.py`) | service tasks, stop events, phase | start, supervise, stop by phases, abort | a service fails, a second caller cancels, a start is interrupted. Phases end in order |
| Schedules (`…/infrastructure/scheduling/`, `…/application/scheduling/`) | schedules, occurrences, leases | create, replace, cancel, claim, materialise, skip, recover | clocks read before transactions. An occurrence becomes a turn once, in order |
| Billing (`…/infrastructure/database/billing.py`, `…/domain/billing/`, `account_plan.py`) | orders, payments, refunds, grants, subscriptions | place, record an event, fulfil, renew, refund, charge back, cancel | events repeated and out of order, refunds that meet chargebacks. Nothing for money that went back, periods that do not overlap |
| Bank, economy, chance, town (`…/infrastructure/database/banking.py`, `economy/`, `chance.py`, `town.py`) | balances, ledger, receipts, rounds, treasury | register, refer, check in, draw, reward, give, contribute, commit and bind a round, request, issue | locks taken call by call, commands repeated at several connections. No overdraft, each fact paid once, both treasuries agree |
| Member verification (`…/presentation/telegram/verification_handlers.py`, `…/infrastructure/database/moderation/verification.py`) | a task per group and member | join, mute, post the button, answer, leave, expire, deliver, recover | the answer races the deadline, Telegram's calls are slow. What is done to a member is what the row decided |
| User profile and dreams (`…/infrastructure/database/user_profile/`, `…/application/user_profile/`) | evidence, watermark, revision, dream jobs | project turns, enqueue, claim, complete, retry, forget | a dream finishes on a profile that was reset. What was forgotten stays so, each event is considered once |
| Announcements (`…/infrastructure/admin/announcements.py`, `…/application/admin/runtime.py`) | the frozen audience, a row per recipient | accept, expand, retry, settle, report | a crash in the middle of the expansion. The report counts everybody, once |
| Retrieval and vector jobs, moderation, RPG and games | job and feature tables | single transactions, and the job protocol above | |
| LLM, workspace, media, crypto and translation clients; dashboard; configuration; `fogmoe_dbctl`; `wspctl` | external or offline | | I/O, exports, build and migration |

`PROJECT.json` lists every component with its sources and what is or is not
modelled, and every hazard of the code at its line.

## 2. Modules

| Module | Models | Checked by | Theorems |
|---|---|---|---|
| `Inbox` | listener, inbox table, InboxWorker, the ingress phases of a stop, crash and restart | `MCInbox` | `InboxProofs` |
| `TurnInference` | turns, activities, acceptance, steering, reset, inference workers | `MCTurnInference` | `TurnInferenceProofs` |
| `Outbox` | writers of a chat, OutboxWorker, one delivery attempt, delivery states of a turn | `MCOutbox` | `OutboxProofs` |
| `KeyedMailbox` | the keyed mailbox runtime | `MCKeyedMailbox` | `MailboxProofs` |
| `SerialMailboxes` | what the runtime promises: the abstract specification `KeyedMailbox` implements | through `Serial` | `MailboxProofs` |
| `FailureCircuit` | the circuit of each provider route | through `AssistantAgent` | `AgentProofs` |
| `AssistantAgent` | the agent loop over the circuits, its checkpoints and receipts | `MCAssistantAgent`, `MCServices` | `AgentProofs` |
| `EffectLedger` | what the loop promises of effects: the abstract specification `AssistantAgent` implements | through `EffectsOnce` | `AgentProofs` |
| `Billing` | orders, payments, refunds, subscriptions, the plan | `MCServices`, itself | `MoneyProofs` |
| `Verification` | one member's verification in one group | `MCServices`, itself | `ServicesProofs` |
| `UserProfile` | one user's evidence, profile and dreams | `MCServices` | `ServicesProofs` |
| `Announcement` | one announcement, its audience and its report | `MCServices` | `ServicesProofs` |
| `Schedules` | the schedules of one conversation | `MCServices` | `ServicesProofs` |
| `Supervisor` | BotRuntime: start, phased stop, failures | `MCServices` | `ServicesProofs` |
| `Bank` | accounts, locks, entries, receipts: one transaction of the ledger | through `Economy` | `MoneyProofs` |
| `Economy` | every command that moves free tokens, as transactions of `Bank` | `MCEconomy`, `MCServices` | `MoneyProofs` |
| `ContextWindow` | what a conversation shows the model: projection, cache, compactions, the import of a turn's file | `MCServices` | `ContextProofs` |
| `Services` | the services above from `AssistantAgent` on, side by side | `MCServices` | `ServicesProofs` |

An action is one transaction, one call to the outside, or the code between two
`await`s. Every module ends with its properties. Definitions with a comment
"Mutant of X" are plausible wrong versions of X; each property has one that
violates it, so that no property holds by the shape of the model.

Common abstractions:

- **Time.** A delay or a lease has elapsed or has not; a lease may elapse at any
  moment, so every race between a slow worker and the recovery sweep is there.
  Only `TurnInference`, `Schedules`, `Billing` and `UserProfile` have a clock,
  because there the code compares instants; `Verification` has the three phases
  of a row's deadlines.
- **Tokens.** A `LeaseToken` is a fresh UUID that is only compared; the ordinal
  of the claim that drew it stands for it. In `Outbox` the attempt number also
  stands for the version: both move with every claim.
- **Payloads.** Messages are numbers; rendering, media and wording are left out.
- **Faults.** `faults` (in the services a variable of each module) counts
  crashes, stops, failing calls, settlements that raise, and leases that elapse
  under a worker that still works; an outage of several models and routes counts
  once (`Outage`). `MaxFaults` and its kin bound it; the theorems
  hold for every bound.
- **Batches.** Claims of different conversations or chats are independent, so a
  batch is a sequence of single claims in `Inbox`, `Outbox` and the services. It
  is one action in `TurnInference`, where one row can abort the whole batch.

### Inbox

`sent`, `forgotten` are Telegram's side; `offset`, `batch` the listener's loop;
`status`, `version`, `attempts`, `token`, `elapsed` the columns of a row;
`held` the claim each consumer slot works on; `phase` what BotRuntime does.
`accepted` and `settledBy` are history that the properties read.

`GetUpdates`, `AddInbound`, `AdvanceOffset` are the listener's loop, one row per
step as the code inserts them, and `ListenerFails` leaves it anywhere.
`ClaimInbound` takes only the head of a conversation. `RouteReturns` is the
router's outcome: accepted, transient or permanent. `CompleteInbound`,
`ScheduleInboundRetry`, `DeadLetterInbound` settle through the fence, `StaleClaim` is
the fence refusing, `FinalizationFails` a settlement that raises.
`RecoverExpired` is the whole sweep. `Stop`, `IngressStopped`,
`AcceptanceStopped`, `Crash`, `Start` are the process.

Not in it: an update whose content changes under its id (the listener would
retry that batch for ever), and the polling cadence.

### TurnInference

A turn and its activity are named by the input that opened them. `log` is
`conversation_messages` of a conversation; `floors` are its resets; `held` the
claims in the worker with what each has read; `answered` the context of each
committed reply; `stamp` is `accepted_at`, read in `Observe` before the
transaction of `Accept` (replay, steer, refused steer or open). `ClaimActivities` is one
batch under the constraint that a conversation has one processing activity.
`ReadContext` and `InferReturns` are the worker between claim and settlement;
`CompleteActivity`, `RetryActivity`, `FailActivity` settle behind the fence of
version, token and input revision.

`waiting_delivery` stands for all later states of a turn, which are `Outbox`'s.
`cancel_turn` (`…/conversation_workflow/turn.py:441`) has no caller and is not
modelled. What happens inside an attempt is `AssistantAgent`'s.

### Outbox

`EnqueueStandalone`, `PublishProgress` and `EnqueuePlan` are the writers; a
transaction-level advisory lock per stream makes each one step. `ClaimOutbound`
includes the sweep of abandoned plans every claim begins with, and the rule that
a reply waits until its turn is `waiting_delivery`. `Deliver` is one attempt:
shown, transient (a rate limit, or a timeout after which the message may have
been shown), permanent, or a replacement refused because its source is not
delivered. `CompleteOutbound` and `DeadLetterOutbound` also move the turn.

Delivery is at-least-once, as `src/docs/runtime-architecture.md` says: after an
ambiguous outcome a message may be shown twice. `ReceiptsDecide` states what is
still promised. Two things are left out: a request that Telegram executes after
its timeout and after the retry, and the graceful stop, which is the inbox
worker's protocol and is modelled there.

### KeyedMailbox and SerialMailboxes

One event loop, so control moves only at an `await`. A worker is gone, runnable,
waiting for the wake-up event, or busy; `interrupted` are cancellations the loop
has not delivered; `caller` is where each shutdown caller is, and the one that
is closing holds the lock. Finishing an item and taking the next happen without
an `await` in the code and are two steps here, which only adds interleavings.
Items of a key are numbered in the order they are accepted. A heap entry is
named by its item, which fixes priority and sequence.

`SerialMailboxes` has no heap, worker, event or lock: one line of work per key,
the set of running work, and the tickets. `Serial` is its specification under
`line <- queue`, `active <- ` the jobs of busy workers, `ticket <- completion`,
`phase <- state`.

Not in it: cancelling a caller that already waits in the task group's exit. An
operation that cancels itself counts as finished. Low priority work is never
starved here because the items are finite; an endless flow of high priority
work would starve it in the code.

### FailureCircuit, AssistantAgent and EffectLedger

One turn. `status`, `token`, `claims`, `budget`, `revision` are columns of its
activity; `checkpoint` the checkpoints by generation and step, with the route,
the model and the results they were made from; `receipt` the effects' receipts, leased and
fenced by token and generation. Each worker walks from `"begin"` through the
routes that its circuits admit, plans a step, saves it, and runs its calls in
one of three modes: a read without a receipt, an atomic effect in the
transaction of its receipt, an outside effect between a claim and a
finalisation. Before anything was done, a failing model gives way to the next one of
its route (`NextModel`), the last one to the next route, and a context with images
is offered to all of them once more as text (`TryFrom`). Workers lose their claim, crash, get steered, answer late.
`EffectLedger` knows only plans and effects: a step is planned once and after
the effects before it, each planned effect happens at most once, in order, in
the current generation. `EffectsOnce` is the refinement.

What counts as an effect of an outside call is what its finalisation commits,
its messages and its receipt. The remote operation itself may be repeated when
its worker dies in between, as the code's header says.

### Billing

`order`, `grant`, `subscription`, `refund`, `payment` are the tables, with the
statuses of `domain/billing`. Every transaction of `billing.py` that writes is
an action. `events` counts what the provider sent; any event the verifier lets
through may arrive at any time and late, since commands and events carry the
instant at which they were made. The plan is what
`account_plan.py` derives from the subscription at `now`.

### Verification

A member joins, the handler mutes, posts, activates; the member answers or
leaves; the workers claim what is due and tell Telegram. The row's version and
token fence each of these. The slow calls of the handler are steps of their own,
so a recovery may come between any two.

### UserProfile

Completed turns become evidence, in the order the coordinator reads them, a
frozen batch becomes a dream, a claim of the dream a model call, its answer the
next revision if the claim is still the last one and the profile still has the
revision and the watermark the dream was made for.
`/resetprofile` deletes and sets the boundary before which nothing counts.

### Announcement

`recipient` are the rows of an audience frozen when the command is accepted.
Expansion reads a page, enqueues and settles in separate transactions, which is
where a crash can come. The report is enqueued when no recipient is unsettled.

### Schedules

`schedule` is a row per schedule with its `run`, attempts and token, `fired` the
occurrences that became turns. The clock is read in `ObserveOccurrence` before
the transaction of `AcceptOccurrence`, so a replacement, a cancellation or a
recovery can come in between.

### Supervisor

BotRuntime at the granularity of awaits: each service's task, its stop event,
the supervisor's place in the phase loop, `_failure`, and two callers of
`shutdown` that drain or cancel. The keyed mailboxes are one step.

### Bank and Economy

A transaction of `Bank` takes the locks of its command, looks at balances under
their accounts' locks in key order, decides, posts its entries one after the
other, each under the locks of its two accounts, and commits or aborts. Nothing
it writes is visible before. `Economy` gives each command its locks, its decision
and its entries. An agenda is a set of commands that one behaviour is about;
`MCEconomy` has ten of them, chosen so that the commands of an agenda share
accounts, rows or idempotency keys. Each command may run any number of times and
at both tellers at once, which is how a redelivered update reaches the code.

### ContextWindow

`transcript` are the rows of one conversation with the mark of a file's row
(`pending`, `imported`, `unavailable`), `clears` its resets, `inferring` the
activities, `imports` the intent and receipt tables and wspctl's file,
`compactions` the jobs under the identity that the code derives from their range
(`CompactionId.for_range`), `windowCache` the cache's slot. `projecting` are the
attempts of inference workers with the local variables of `project`; `at` says
which await comes next: bounds, checkpoint with the cache, rows, the active
compaction, the enqueue. Then the import: `FindIntent`, `PrepareIntent`,
`ImportFile`, `RecordImport`. `TryLater` and `FailTurn` are the worker's policy,
with the trigger that refuses to hide a row whose file has an intent (`MayHide`).
`ClaimCompaction`, `CompleteCompaction`, `SummaryFails`, `RecoverCompaction` are
the compaction worker; after its last attempt the summary is an extract. What ends
a compaction for good is only that the rows are not those of its plan
(`FailCompaction`).

A translation (`Translations`) is a turn whose rows are marked `excluded`: its
attempt reads from its own row on and no summary, is shown nothing of the history,
and waits for no compaction, but its read may sit in the cache's slot. Turns come
in their order. At most `MaxOpened` of the `MaxContextTurns` come, and a translation
may be left out, so one run has conversations with and without it: two
different plans meet only in those without.

Rows stand for tokens in every budget. Left out: steers (`TurnInference`),
a transcript of more than one page, and statements that read while one page is
fetched. The tables are those of
`TurnInference` again; here the question is what an attempt reads.

### Services

The services from `AssistantAgent` on use disjoint tables and no common state, as
far as their modules go, so a behaviour of the whole is an interleaving of
behaviours of the parts and what holds of a part holds of the whole (the lemma
`EveryServiceKept`, which says nothing of the code). `running` says which part a behaviour is about; the others
stay as they began. The state space is then the sum of the parts' and not their
product.

## 3. Runs

| Run | Question | Instance | Distinct states |
|---|---|---|---|
| `inbox` | no update lost, order, fencing; every update settles, a stop ends | 2 updates of one conversation, 2 slots, 2 attempts, 2 faults | 153 088 |
| `turn` | agreement, complete answers, stored once, resets; every turn ends | 2 messages and a scheduled input of one conversation, 1 claim at a time, budget 1, 1 reset, 1 fault | 289 276 |
| `outbox` | order of a chat, outcome of plans, receipts, progress; every message settles | 4 of: a block, its replacement, a reply of two, a standalone message; 2 attempts, 1 fault | 124 899 |
| `mailbox` | refinement, wake-ups; accepted work and shutdown end | 5 items, 2 keys, 2 workers, 2 shutdown callers, capacities 2 and 3 | 28 067 |
| `services` | the promises of the services, see below | see below | 806 359 |
| `inbox_attempts` | *violated:* attempts stay within `max_attempts` | 2 updates, 1 attempt, 2 faults | |
| `turn_steer` | *violated:* a steer is never turned away | 2 messages | |
| `turn_batch` | *violated:* conversations do not delay each other | 3 inputs, 2 conversations | |
| `agent_resume` | *violated:* an interrupted run resumes | 2 routes, 1 call, 2 faults | |
| `billing_plan` | *violated:* who paid has the plan | 1 user, 2 orders | |
| `verification_muted` | *violated:* nobody stays muted without a task | 1 join, no fault | |
| `lock_order` | *violated:* accounts are locked in one order | 2 connections | |

What `services` asks of each part, and how large the part is:

| Part | Properties | Instance | Distinct states |
|---|---|---|---|
| agent | `EffectsOnce` (refinement), `CircuitsRecover` | 2 workers and a foreign caller, 2 routes, the first of 2 models of which one accepts images, a turn with images, a plan of a read, an atomic and an outside call, 2 steps, 1 steer, 1 fault or outage | 238 236 |
| billing | `NothingForReturnedMoney`, `PeriodsDisjoint`, `RefundsInStep` | 1 user, 2 offers, 2 orders, 2 payments, 1 refund, 3 events, 2 instants | 141 336 |
| verification | `AnswerOrDeadline` | 2 joins, 2 runs of the handler, 1 fault | 91 199 |
| schedules | `FiresInOrder` | a one-shot and an interval that skips misfires, 4 instants, 2 attempts, 1 replacement, 1 fault | 52 406 |
| announcement | `ReportComplete` | 2 recipients, 2 attempts, 2 faults | 52 123 |
| profile | `ForgottenStays`, `EachEventOnce` | 2 turns, 2 attempts, 2 commands, 1 fault | 24 902 |
| economy | `PaidOnce`, `BooksAgree` | 2 connections, 3 users, the ten agendas | 20 668 |
| lifecycle | `StopInOrder` | 3 services in 2 phases, 2 callers | 1 554 |
| context | `ContextIsWhole`, `FilesAreAccounted` | a plain turn, then a translation or one with a file, then one with a file; a warning above 2 rows and a limit of 3, summaries of 2, 1 fault or reset | 183 935 |

What each property says stands above it in its module, with the code it is
about; `PROJECT.json` names for each a mutant of the code's translation that
violates it.

Why the bounds are enough to be interesting: two consumers are what fencing
needs (an owner and a stale one), two updates or messages of one queue are what
order needs. With two attempts there is a retry and a last attempt. One fault is
a lost lease with a stale worker; two are a stale worker and a crash. In the
mailbox both capacities refuse work in reachable states, three items of a key
with different priorities re-sort the heap, and two callers are what the lock is
for. In billing two orders are a purchase and its renewal, or two purchases that
compete; three events are a payment, its repetition under another id and a
chargeback. In the economy the wallets hold less than an agenda's commands may
spend together. In the context three turns are what it takes
to use a summary and to make the next one on top of it. In the agent the other
turns of the process call only the first route (`GuestRoutes`). What larger
instances could show for the safety properties the theorems settle.

Deadlock checking is on in `inbox` alone. Elsewhere the system really
stops: users may stop sending, every input is handled, everything is settled,
or the runtime is closed. In `inbox` the listener polls for ever.

### What the violated runs say

- `inbox_attempts`: the recovery sweep makes an expired row due again without
  comparing its attempts to the maximum
  (`…/infrastructure/database/conversation_workflow/inbox.py:313`). An update
  whose worker dies, or outlives its lease, each time is attempted for ever.
- `turn_steer`: `accepted_at` is read before the transaction; when a worker
  claims the activity in between, the steer is earlier than the activity's last
  change, the domain object raises `ValueError`, and the inbox takes that for a
  permanent error: the message is dead-lettered unanswered.
- `turn_batch`: a scheduled activity carries a `created_at` from before its
  transaction, may become its conversation's head while another is processing,
  and then makes the unique index abort the whole claim batch, heads of other
  conversations included.
- `agent_resume`: an attempt that fell back to the second route saves its
  checkpoint there. Its retry begins with the first route again, and the
  checkpoint then does not match the route
  (`…/application/assistant/agent_loop.py:1407`): a conflict, which is permanent,
  so the turn fails instead of resuming.
- `billing_plan`: fulfilling a renewal before the current period ends moves the
  only subscription row on to the next period; until that begins the buyer has no
  plan although the period under way is paid for.
- `verification_muted`: the mute is a call between two transactions. If it takes
  longer than `recover_at`, the recovery cancels the task and unmutes first, the
  mute lands afterwards, and the handler's compensation is refused because the
  task is not in creation any more.
- `lock_order`: the accounts of one call are locked in key order, but a
  transaction makes several calls. A gift with a fee holds wallets and wants the
  burn account, an omikuji holds the burn account and wants a wallet; the
  database ends the wait by aborting one of them.

### Fairness

Every fairness condition is weak, and none is on a fault, a user, a new message
or a shutdown. Only `Inbox`, `TurnInference`, `Outbox` and `KeyedMailbox` state
fairness; the services are checked for safety.

- Producer and consumer loops go on: each is a supervised task whose errors are
  logged and retried; the claim of a particular row is fair because the queue
  orders by age and nothing can overtake the head of a conversation or chat.
- A handler ends: routing and delivery are under attempt timeouts, inference
  under the agent loop's limits.
- A lease that nobody is going to settle elapses: it has a deadline.
- `Inbox` also has the process started again: the container restarts
  (`src/docker-compose.yml:47`). In the other models a crash keeps the process
  running, with all claims forgotten.
- `KeyedMailbox` has the event loop run each runnable task, and every operation
  end. Nothing makes work be submitted or a shutdown begin.

Faults are finite in the liveness properties: with endless crashes nothing ends,
and with endless lease losses attempts repeat for ever, as `inbox_attempts` shows.

## 4. Theorems

Eight modules hold theorems, for arbitrary constants under the named assumptions
of the modules: the kinds of the constants, finiteness where something is
counted, and positivity of capacities, periods, attempts and limits. Two say
more. `AgentAssumption` lets a plan have at least one call. `EconomyAssumption`
has the agendas made of commands as the callers make them, with another citizen
where the operation is between two, and one request for each user, because the
model's row of a request is named by its user.

Every safety property of the passing runs is proved: each invariant, the action
properties and the refinements (`ImplementsSerial`, `AgentKeepsLedger`).

The properties are not inductive by themselves; each proof module builds them in
layers, every layer using those before it.

**InboxProofs.** Types; then `RowInv`, the arithmetic that ties version,
attempts and token of a row together; then `ClaimInv`: a held claim was granted,
and an owned claim is the last one granted, because the version it carries fixes
its ordinal (lemma `OwnerIsLast`). From these follow `LastClaimDecides`,
`ClaimsAlternate` (every claim is closed before the next) and
`RowsOnlyMoveForward`. `StoreInv` (what is stored is a
prefix of what Telegram numbers, and the offset and the batch stay behind it)
gives `NothingLost`, and with the claim rule `OrderKept`.

**TurnInferenceProofs.** Types; `TurnsAgree`, which is inductive over types;
`Fenced` (held claims are of activities that exist and no newer generation);
`BudgetBounded` and `EndedStays`. What is in the log: `LogGrows` says what any
step can append, from which follow that stored messages belong to turns that
exist and are distinct (`OnceStored`). `Counted`: an activity's input revision
counts the steers of its turn. `Floored`: every row of an active turn is behind
every reset of its conversation. On both rests `Read`, what a claim that is
still current has read: all inputs of its turn, and nothing that was reset.
Hence a worker whose history does not match its claim has lost it
(`MismatchesAreStale`), and a commit answers every input (`EveryInputAnswered`)
from nothing that was reset (`ResetsForget`).

**OutboxProofs.** `Base` (types, and a reply exists only for a turn that
committed it), `Rows` (sequence and status), `Ordered` (sequences of a stream
are distinct and follow the plan), `NoneAbandoned`, `Plans`, `Claims` (an owner
is unique), `Refusals`, `Receipts`. `ChatsReadInOrder` comes from the claim rule
and the order of sequences; with `Ordered` it makes whatever precedes a claimed
message in its plan delivered and what follows it untouched, which is `PlansEnd`,
and settles the blocks before the reply, which is `ProgressFirst`.

**MailboxProofs.** `Shape` is inductive: types, items lined up under their key,
a busy worker for every running key and only one, jobs and queued items
disjoint, ready keys, and what is empty before the start, under a cancellation
and after the end. It gives
`NothingRaises`. On it rest `Heap` (the entries are the heads of the ready keys,
and nobody waits while there are any: `NoneForgotten`), `Counts` (`pending` is a
cardinality: `CountsAreRight`) and `Tickets` (an open ticket is of
an item that waits or runs, and what the lock's holder may rely on).
`ImplementsSerial` maps each step: submit to Accept, take to Begin, finish to End,
drain, cancel and close to their namesakes, everything else to a stutter.
`SerialMailboxes` counts with a `Cardinality` of its own instance, which lemma
`SameCardinality` identifies.

**AgentProofs.** `AgentInv` has two layers. `CircuitsTell` and `PermitsTell`: a
probe is one of the active permits of an open circuit whose cooldown is over,
and every permit belongs to a run that is calling that route. `TablesTell` and
`RunTells`: a receipt has succeeded exactly when its effect was committed, once;
a run that works on a call of its generation has carried out all before it, and
its plan is the one in the checkpoint. A step of one run keeps what the other
runs rely on because checkpoints and effects only grow (`DoneStays`). From the
same step lemmas come both action properties: an open circuit is closed only by
its probe (`CircuitsAlwaysRecover`), and each step is one of `EffectLedger` or a
stutter (`AgentKeepsLedger`).

**ContextProofs.** `ContextInv` says of every table what an attempt may conclude
from it later. `TranscriptTells` and `ActivitiesTell` are the conversation: turns
open in order, a turn under way has one row and was not reset, and while one is
processed every earlier one has ended. `SummariesTell`: a summary covers every
visible row from its floor to its end, and none of them waits for a file, so none
can become visible later. `Agree`: marks that were read are behind the transcript
in one way only, a file that was waited for has come or never will; this is the
invariant of the cache and of what an attempt has read, whichever statements read
it. `AttemptTells` adds, by the stage of an attempt, where its rows begin and end,
and, while its lease is kept, that nothing before its own row is pending.
`ContextIsWhole` follows at the stage of inference, `FilesAreAccounted` is part of
the invariant. A turn's first row and the last reset before it are the least and
the greatest of sets of numbers; that there is a least one is `WFMin` on the
naturals.

**MoneyProofs, billing.** Four layers, because each needs the one before: `Rows`,
the types with what refers to what; `Together`, the status of an order and of its
refund as one state machine, which is `RefundsStayInStep`; `PaidBack`, an order
whose money went back has no grant and no subscription that is in force, which
gives `NothingForMoneyBack` since an order that left its status never returns;
and `Periods`, a renewal follows the order it renews and begins where that one's
period ends, for all orders that were fulfilled (`PeriodsNeverOverlap`).

**MoneyProofs, economy.** `EconomyInv` has the committed state and the
transactions. Committed: `LedgerTells`, the rows with their kinds; `TreasuryTells`,
the row of the town against the bank's account and the stage of its project;
`PaidTells`, a fact that was paid for left its mark in a row, and facts that may be
paid once have a mark that refuses a second payment. A transaction: `TellerTells`.
While it decides, it holds the keys of its command and looks at the accounts it
asked for; when it posts, its `Draft` is still true: whatever it takes is `Covered`
by the balances of accounts that it holds, the row it writes is under its keys or,
for gifts and omikuji, under the lock of the user's account (`Writable`), what it
pays for is not yet marked or counted (`Payable`), and its entries and its row
change both books alike (`BothBooks`). `Apart`: no two transactions hold the same
lock. The heart of the proof is `Steady`: the commit of another transaction leaves
every row and balance alone that this one's locks guard, and a mark, once made,
stays. So the deciding steps prove a draft from
the rows they have locked, and only commits change the books. Without the locks in
the invariant `PaidOnce` and `BooksAgree` are not inductive, and this is the
argument on which the code's row locks and advisory locks rest. No command posts
more than two entries, so the sum of a transaction is unfolded (`SumsOf`); a
statement on sums of any length would need an induction over data.

**ServicesProofs, lifecycle.** `Lifecycle` says where the supervisor can be in
each state of the runtime and what that means for the tasks: before the phase loop
nobody was told, in the loop exactly the services of the phases up to the current
one were told and those of the earlier phases have returned, and after an abort all
are over. `LifecycleStops` reads `StopInOrder` off it.

**ServicesProofs, schedules.** `InTime` relates a claim to its row and both to what
fired: the occurrence of a row that waits is later than every occurrence that
became a turn, and a claim that still owns its row has the row's occurrence. Moving
on is always to a later instant (`MovedOnIsLater`), which is all a cadence has to
satisfy. An acceptance that passes the fence then appends something later
(`OccurrencesInOrder`).

**ServicesProofs, profiles.** `DreamInv`: besides the two properties, a turn has at
most one event, a dream begins no earlier than its baseline and ends at an event
that exists. A completion passes the fence only if the profile is at the watermark
that the dream was made from, so its batch is disjoint from all that was considered
(`ConsolidatedOnce`), and only if the sources that it read are still those of the
row, all of them evidence, so nothing forgotten is considered (`ForgottenForGood`).

**ServicesProofs, announcements.** `ReportInv` ties the announcement's stage to its
recipients (`StagesTell`), an expanded receipt to its message (`Enqueued`), and every
claim of the report to the same counts (`Reported`). With the finiteness of the
audience the two counts then add up to it (`ReportIsComplete`).

**ServicesProofs, verification.** `VersionsTell`: every version of the row belongs
to one creation, and what a creation was given stays below the row's version from
the moment anything else happened. Hence requests and claims whose version or token
is still the row's know its status (`RequestsTell`, `ClaimsTell`), and an answer and
the deadline exclude each other for the creation in the row and every earlier one
(`Decided`). `AnswerExcludesDeadline` follows.

**ServicesProofs, all together.** Each step of `Services` is a step of one part and
a stutter of the others, which is the shape of `Services` and no more (the lemma
`EveryServiceKept`). The content is that of the parts: their theorems give
`ServicesTypesCorrect` and `ServicesKeepTheirWord`, which are what the run
`services` checks.

The inductive invariants of the agent, the context and the economy were checked by
TLC on the instances of section 3 before they were proved.

Model-checked only: the liveness properties (`EveryUpdateSettles`, `StopEnds`,
`EveryTurnEnds`, `EveryMessageSettles`, `AcceptedWorkEnds`, `ShutdownEnds`),
because fairness and ENABLED are out of the prover's reach; and the violated
properties, which are false.

## 5. How the project is laid out

The pipeline has a module, a run and a proof module per component, and liveness.
The services have a module each, are put side by side in `Services`, and are
checked together in one run. A new service is a module with its own variables,
a disjunct of `ServicesNext`, a conjunct of `ServicesTypeOK` and constants in
`Services.cfg`; names must be distinct over all of them. `AssistantAgent`,
`Billing`, `Verification` and `Economy` also stand alone, for the violated runs.

What would come next: the vector jobs of retrieval, which differ from dreams in
their data; an abstract `Conversation` over `Inbox`, `TurnInference` and `Outbox`
together, and the proof that they implement it.

## 6. Seen while modelling, and not a run

Places where the code does something its reader may not expect. No run is about
them, either because the model leaves the detail out or because no statement of
the repository speaks of it.

- A turn queued behind another one is answered from a history that ends at its
  own message, which was stored before the other's reply
  (`…/infrastructure/database/context_window.py:62`).
- The day of a check-in is `date.today()` before its transaction
  (`…/presentation/telegram/economy_handlers.py:102`); one that waits past
  midnight behind the next day's moves `last_checkin_date` back.
- A redelivered `/billing_order` or `/refund` draws a new identifier, so its
  fingerprint differs and the repetition is refused as a conflict
  (`…/presentation/telegram/billing_handlers.py:143`, `:171`).
- A refund requested for a fulfilled renewal while another renewal is open
  violates a unique index that nothing catches (`billing.py:521`). A paid renewal
  whose subscription ended can be neither fulfilled nor refunded
  (`billing.py:999`). An event that comes too early is refused and its refusal
  stays under the idempotency key. After a chargeback a requested or approved
  refund can be neither rejected nor settled.
- An announcement whose enqueue was committed and whose settlement then failed
  for good is reported as failed although it is delivered
  (`…/application/admin/runtime.py:229`).
- A caller that drains the mailboxes is cancelled when another one cancels them.
- A compaction's identity is its range, but the stored plan also carries
  `created_at` and the turn that asked. Planning the same range again, from a read
  that missed the first one, is refused as changed
  (`…/infrastructure/database/context_window.py:618`), which costs the turn an
  attempt of its budget (`…/application/assistant/durable_inference.py:338`).
- A compaction that ended as `failed_final` stays in the way of its range: planning
  it again is refused as changed, before `project` could return the failure that it
  has for this case (`…/application/context_window/projection.py:437`). The turn
  uses up its budget and fails as one that may be tried again.
- Once an import's intent is stored, whatever goes wrong with the import is a
  dependency to be waited for, without a limit
  (`…/application/assistant/workspace_attachment_preprocessor.py:287`). A file that
  can never be imported keeps its turn, and every later one of the conversation,
  waiting until a reset; `src/docs/wspctl.md` speaks of a `partial_effect` instead.
- A turn that fails for good for another reason while its file has an intent and no
  receipt cannot be marked failed: the trigger
  (`src/src/fogmoe_dbctl/schema.sql:2331`) refuses to hide the row, the
  transaction rolls back, and the turn is claimed again after its lease.

## 7. Not modelled, and why

The reasons stand per component in `PROJECT.json`. In short: rendering,
streaming drafts, clients of external services, the dashboard, configuration and
migrations change no state that the properties rely on, or are I/O. RPG and games
are single transactions over their own tables. The job tables of retrieval repeat
the protocol of `UserProfile`'s dreams.
Moderation decides over one message. `wspctl` is a C++ service of its own, mostly
operating system calls. Calendar cadences are date arithmetic. SQL isolation is
not modelled below the transaction, except in `Bank`: what the code protects by
row locks, advisory locks or unique indexes is one step elsewhere.
