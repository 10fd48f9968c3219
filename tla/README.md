# TLA+ for the Engineering Depth Lab

Models, model-checking runs and proofs for the programs of this repository, a
course of ten layers whose topics are small real programs: services, workers,
pools, protocols and simulators in Python, Go, JavaScript, Rust, Java and C++.
The repository's own README calls layer 4, topic 5 (Raft) the spine of the
course; it is modelled first and in most detail here. Around it stand the other
protocols of layer 4, and a bench of smaller programs from layers 2, 3, 5 and 8.

## 1. Inventory

Every part below is listed in `PROJECT.json` under `components` with its sources,
the modules that model it and, where it is not modelled, the reason.

### Layer 4, distributed systems

| Component | State it keeps | Operations | Interaction | What is hard |
|---|---|---|---|---|
| Raft peer (`05-*/golang/raft/raft.go`) | term, vote, log; role, commit index, last applied; `nextIndex`, `matchIndex` | `ticker`/`startElection`, `RequestVote`, `AppendEntries`, `Start`, `replicateTo`, `advanceCommitIndex`, `applier`, `Make`, `Kill` | calls to every other peer, each on its own goroutine; `applyCh` to the state machine; `persist` | calls lost, delayed and reordered; replies handled after the role has changed; a crash between any two steps |
| Persister (`persister.go`) | one saved byte string | `Save`, `Read`, encode, decode | outlives the peer, shared by the peer and its successor | what is saved before which reply |
| Network (`network.go`) | reachability, reliability, who is down | `Call`, `Partition`, `Connect`, `Disconnect`, `setDown` | between all peers | drops requests and replies, delays, cuts |
| Test harness (`config_test.go`) | the peers, what each applied | `crash`, `restart`, `one`, `nCommitted`, checks | kills a peer, makes a new one over the same persister | a killed peer's goroutines live on |
| Lease and fencing (`07-*/python/fencing_demo.py`, `docker/services/app/relay7.py`) | lease row (holder, epoch, expiry), payout rows (status, fence) | acquire, renew, payout | two workers over one database | a pause longer than the lease, at any point |
| Idempotency keys (`02-*/python/idempotency_race.py`, `payments2.py`) | key rows, charges | three handlers (A, B, C) | concurrent requests with one key | check-then-act, crash between the key and the effect |
| Outbox (`06-*/python/hwm_skip.py`, `outbox_relay.py`, `relay6.py`, `payments6.py`) | outbox rows, cursor, broker | write, poll, publish, mark | writers, relay, consumer | ids allocated before they are visible; crash between publish and mark |
| Ambiguous results (`01-*`, `payments1.py`, `ledger.py`) | payments, ledger charges | charge, time out, retry, reconcile | client, payment service, ledger | a reply that is lost after the effect |
| Session guarantees (`04-*`, `api4.py`) | primary and replica positions, session tokens | write, read, route | client, primary, lagging replica | stale reads after one's own write |
| Clocks (`03-*`) | rows with a wall-clock version | last-writer-wins merge | writers with skewed clocks | an older write with a newer stamp |
| Pause audits (`07-*/*/pause_audit.*`) | timing histograms | measurement only | none | none to model: they measure a runtime |

### The other layers

| Layer | Parts with protocol logic | Left out |
|---|---|---|
| 1 machine | the races of topic 4 (lost update, check-then-act, cache stampede), the CFS quota simulator of topic 7 | locality, syscall cost and descriptor benchmarks: they measure the machine |
| 2 network | the pool of topic 2, timeouts of topic 3, keep-alive race of topic 4, DNS cache of topic 5 | packet captures, handshake timing |
| 3 data | isolation anomalies of topic 1, locking and deadlocks of topic 5, the pool of topic 7, replica routing of topic 8 | planner, index and vacuum measurements: the behaviour is PostgreSQL's |
| 5 failure | `lab/app`: `shed.py`, `retry.py`, `deadline.py`, `idempotency.py`, `fanout.py`, `cache.py`, `db.py` | the plotters and load generators |
| 6 observability | `lab/api/worker.py`, burn-rate arithmetic of topic 6 | dashboards, log shipping, histograms |
| 7 security | token revocation of topic 4, PKCE of topic 5, the rate limiters of topic 8 | injection, XSS and SSRF exercises: input handling, no state |
| 8 craft | `lab/api/app`: `core/resilience.py`, `core/pagination.py`, `core/money.py`, `services/idempotency.py`, order creation | naming audit, coverage tooling, the shallow and deep module pairs |
| 9 writing | none | prose and templates |
| 10 edge | continuous batching and paged KV of topic 2, cancellation through the gateway | kernels, quantization, interpretability: numeric code |

### What makes each modelled component correct

| Component | It is correct if |
|---|---|
| Raft | a term has one leader whatever crashes; what a vote or an acknowledgement promises is on disk first; a committed entry is in every later leader's log; the state machines are fed one log in order; a diverged follower is brought back |
| Lease and fencing | an epoch has one holder, whatever a worker missed during a pause; with the fence, a key is not paid again by an older epoch or by another worker of the same epoch; work goes on when a holder stops |
| Idempotency keys | a key is charged exactly when it is recorded; the loser of a race gets the winner's outcome; no answer is false; nobody waits for ever |
| Outbox relays | two relays never hold the same row; a row is delivered once; no committed row is left behind by the relays that claim, and the high-water-mark relay delivers what it could see |
| Outbox pipeline | what is marked as published is in the topic; every outbox row gets there; a redelivered event takes effect once |
| Payment and ledger | what the client calls safe never reaches the ledger, however late; a client that retries only that charges once at most |
| Sessions | a read that carries a token sees the write that was answered before, on a standby that lags |
| Admission and work of the layer 5 service | every way out of a handler gives its slot and its connection back once; no free slot goes unannounced; reports do not take what a checkout waits for |
| Retry storm | the load on the database is bounded by what was offered and what the budgets granted |
| Hedged calls | hedges are at most their share of the calls, and the loser of a pair does not go on |
| Retries of the service | retries are paid for by results that were no failures, however requests overlap |
| POST /charge and orders | one charge per key, and one more at most for each live holder that was robbed; an answer is about the body that was sent |
| Connection pool | a connection is in one place; no waiter sleeps beside an idle one |
| Work queue | a job runs once; an empty claim is followed by an empty queue |
| Retry budget | over all time retries stay within the fraction of the requests |
| Keyset pagination | a walk delivers every row once |

`PROJECT.json` lists under `hazards` the lines where each of these can go wrong,
with the properties that would show it.

## 2. Raft

`Raft.tla` models `raft.go`, `persister.go` and `network.go`. Every RPC handler,
and the code a caller runs after its call returned, holds `rf.mu` throughout, so
each is one action; between actions any interleaving is possible.

| Code | Action or operator |
|---|---|
| `ticker` (timeout branch), `startElection` up to the calls | `startElection` |
| `RequestVote`, its election restriction | `RequestVote`, `UpToDate` |
| `startElection`, after the call | `VoteReply`, `InElection`, `becomeLeader` |
| `Start` | `Start` |
| `broadcastAppendEntries`, `replicateTo` up to the call | `replicateTo`, `AppendArgs` |
| `AppendEntries` | `AppendEntriesStale`, `AppendEntriesReject`, `AppendEntriesAccept`, with `AcceptTerm`, `Matches`, `ConflictStart`, `MergeLog`, `FollowerCommit` |
| `replicateTo`, after the call | `AppendReplyNewerTerm`, `AppendReplyIgnored`, `AppendReplySuccess`, `AppendReplyBackup`, with `InCharge`, `BackupTo`, `advanceCommitIndex` |
| `applier` | `applier` |
| `persist`, `becomeFollower`, `majority` | operators of the same names (`Majority`) |
| `Network.Call` | the four sets of calls and replies, `Lose` |
| a process crash, `Make` | `Crash`, `Make` |

The network is four sets of calls and replies under way. A call that is delayed is
served late, one that is lost is never served (or removed by `Lose`, which makes
room under `MaxCalls`), and nothing orders them. `KeepCalls = TRUE` leaves a served
AppendEntries call under way, so that one element stands for the equal calls that
every heartbeat repeats; `FALSE` removes it. `Crash` is the death of a process: its
memory and the goroutines that wait for its calls are gone, its persister is not.
`RaftKill.tla` is the crash that `config_test.go` performs instead: `Kill` sets a
flag and the goroutines of the killed peer live on.

Simplifications: timers are nondeterminism (any peer of `Electable` may time out at
any moment, which includes the unlocked gap between the ticker's decision and
`startElection`, raft.go:354-356); `log[0]`, the sentinel, is implicit; the gob
encoding of the persister is the record it carries. `elected`, `termLog`, `acked`, `chosen`,
`chosenTerm` and `applied` record what happened; no action reads them. `acked[p][t]` is the
highest index that p has confirmed to the leader of term t: the proof needs to say what a
majority has confirmed after the replies are gone. It follows from the steps and no property
mentions it, so `MCRaft` gives `raft_crash` and `raft_figure8` the view `Seen`, the state
without it, and their state spaces are those of the code's variables.

`ReplicatedLog.tla` is the abstract specification: a log that only grows, and state
machines that are fed from it in order, restarting empty. `Raft!ImplementsReplicatedLog`
is `INSTANCE ReplicatedLog` with `chosen` and `applied` of the same names.

`RaftCatchUp.tla` starts from the moment after an election that left two peers with
diverged logs (every pair of logs up to `MaxOld` that elections could have left, see
`Compatible`) and follows the fast backup of `replicateTo`.

## 3. Lease and fencing

`Leases.tla` holds the tables that both programs share (`t7_leases`, `t7_payouts`,
and of `t7_payout_attempts` the highest epoch) and the properties. An action is one
SQL statement; every statement is its own transaction (autocommit).

| `relay7.py` | `FencedRelay.tla` |
|---|---|
| `do_payout`: UPDATE, INSERT of the attempt | `payout` (`Accepts` is the WHERE clause), `record` |
| the RENEW timer in `main` | `timer` |
| `acquire_or_renew(c, epoch)`: renewal, then acquisition | `renew`, `take` |
| `acquire_or_renew(c, None)` | `retake` |
| `except Exception` | `fail` (before the statement took effect), `Raises` (after it) |
| SIGSTOP | any worker may be slow for as long as it likes; `stop` for good |
| `expires_at` | `expire`, at any moment |

| `fencing_demo.py` | `FencingDemo.tla` |
|---|---|
| `worker_loop`: acquire, renew, select, pay, sleep | `loop`, `tryAcquire`, `renew`, `select`, `update`, `recordSent`, `sleep` |
| the pause and the replay of the batch | `pause`, `resume`, `update` at "replay", `recordReplayed` |
| an exception ends the thread | `die` |

The stop event of `main`, which ends the threads after the measured time, is left out:
a thread that is stopped takes no more steps, and no property of the demo is about
liveness.

Both programs keep `EpochInv`. What the fence gives beyond it differs: `PaidOncePerEpoch` for
the relay, which reads the guard `<=`; for the demo, whose `<` makes that formula trivial,
`ZeroRowsMeanStale`: what a worker may conclude from the refusal on which it exits.

## 4. Idempotency keys

`Idempotency.tla`: an action is one statement of one request under READ COMMITTED.
`impl` (handler A, B or C) and `compare` (whether C compares fingerprints:
`payments2.py` does, `idempotency_race.py` does not) are chosen by `Init` and never
change, so that one run covers the deployments.

| Code | Action |
|---|---|
| `handle_a`: SELECT, INSERT charge, INSERT key | `selectA`, `chargeA`, `recordA` |
| `handle_b`: INSERT ... ON CONFLICT, the SELECT of the loser | `insertB` (waits for an open claim), `lookupB` |
| `handle_c`: advisory lock, SELECT, INSERT | `lockC`, `selectC`, `insertC` |
| the charge, the UPDATE of the key row and COMMIT of B and C | `commit` (nobody sees the statements of an open transaction) |
| an exception, a lost connection | `cut` |
| the client | `loseAnswer`, `retry` (external) |

Keys may collide under `hashtext`: `LockOf` maps keys to locks and TLC is given two keys
with one lock.

## 5. Outbox

`OutboxRelays.tla` puts the writers and both relays of `hwm_skip.py` and the poller and
the listener of `outbox_relay.py` over one table: `insert` takes the sequence value,
`stamp` writes `committed_at`, `commit` makes the row visible; `poll`/`wake` claim with
SKIP LOCKED, `miss` is a notification that finds nothing or is dropped, `publish` delivers
and marks in the claiming transaction; `hwmSelect`/`hwmPublish` is the relay with the
mark; `die` ends a thread at any statement.

`OutboxPipeline.tla` is the container version: `payments6.py` in both modes (`mode` is
chosen by `Init`), `relay6.py` with its relay and its consumer thread, and a broker
that may lose a message, or have it and not acknowledge it. A flush sends what was
selected in the order of the ids (`InOrder`, the ORDER BY). `autoCommit` is
librdkafka's timer (`kafka.py`). Not modelled: after an exception the relay's pooled
connection goes back with autocommit off.

## 6. The bench

Twelve programs that share nothing with one another. Each has a module with its own state,
`...Init`, `...Next` and `...Spec`; `MCBench.tla` puts one of them on the bench (`bench`,
with its policy or mode, is chosen by `Init`), and the others stay as they are. One run
therefore covers them all, and their state spaces are added, not multiplied.

| Program | Module | Code and actions |
|---|---|---|
| `05-failure/lab/app/shed.py` | `Shedder` | `allowance` and `Room` for the four modes, `admit`, `wait`, `giveUp`, `observe` (the adaptive limit), `release` with its `Notify` |
| `lab/app/main.py` (`run_handler`), `deadline.py`, `db.py` | `LabService` (extends `Shedder`) | `reject` (deadline), `acquireSlot`, `wake`, `shed`, `fault` (injected errors, dropped answers), `startWork`, `connect` and `poolTimeout` (the engine's pool, or the report pool), `slept`, `counted`, `queryError`, `tick` (time eats the budget, in pg_sleep too unless the statement_timeout comes from it: `FromBudget`), `post_config` |
| `05-failure/03-*/python/retry_storm.py` | `RetryStorm` | `with_retries` at three hops: `gateway`, `attempt`, `answered`, `timeout` (the outer timer cancels what is below), `expired`, `retry` with `Withdrawn`, `giveIn`; `turn` opens and closes the window in which the database is bad |
| `lab/app/fanout.py` (`hedged_call`, `HedgeBudget`), `/fanout` | `Hedging` | `hedged_call`, `backendAnswers`, `awaitFirst`, `inTime`, `refuseHedge`, `sendSecond`, `takeWinner` with `Cancelled` |
| `lab/app/retry.py`, `cache.py`, `/chain`, `/cached` | `LabRetry` | `arrive` (Redis first), `attemptReturns` with `Deposits`, `again`, `denied`, `fill`, `flushall` |
| `lab/app/idempotency.py`, `05-failure/07-*/python/idempotency.py`, `08-craft/.../services/idempotency.py` | `Charge` | naive: `lookup`, `insertCharge`; with a claim: `claim` (and take over), `work`, `crash`, `replay`, `ttlOver`; one transaction: `chargeSingle`, `loseSingle`; orders: `selectKey`, `orderAndCharge`, `commitKey` |
| `payments1.py`, `ledger.py` | `PayLedger` | `beginAttempt`, `connectFails`, `send`, `callFails`, `refused500`, `succeed`, all failures through `Except` and `classify`; the ledger's `charge` and `chargeLate` |
| `api4.py` | `Sessions` | `write`, `flushLsn`, `remember`; `route`, `pollReached`, `fallBack`, `read`; `replayWal`, `stickyOver` |
| `02-network/02-*/cpp/hand_rolled_pool.cpp` | `HandPool` | `takeConn`, `overflowConn`, `refuse`, `block`, `look`, `waitLimit`, `spurious`; `release` is `pushIdle` and `notifyOne`, since it lets go of the mutex in between |
| `03-data/05-*/python/skip_locked_queue.py` | `JobQueue` | `scanRow` (one row of the claim), `claimed`, `commitBatch`, `raise`, `ceiling` |
| `08-craft/lab/api/app/core/resilience.py` | `RetryWindow` | `record_request`, `unavailable` (`try_spend`), `giveUpCall`, `callAgain`, `ends`, `stats` (GET /_stats trims too), `passTime`; `trim` with `Recent`, the popleft loop |
| `core/pagination.py` | `Paging` | `InOrder` (`page` and `page_inclusive` are promised the order of `created_at` only, so ties come in any order), `After`, `Rest` and `NextPage` for the three cursors, `nextPage` of `walk_pages` |
| `fencing_demo.py` | `FencingDemo` | section 3 |

What they abstract: a deadline is where it stands relative to zero and to
DEADLINE_SLACK_MS; a statement_timeout is whether it is derived from that (then the slack
covers BEGIN and SET LOCAL) or not (then it may come at any time, or never); a budget counts in units of BUDGET_RATIO, so that it stays whole; a
database transaction is what its COMMIT makes visible, except where its locks matter
(`JobQueue` takes them row by row); the LSN is the number of the write.

## 7. Runs

Three peers, two workers, two or three keys, rows or requests: the smallest sets in
which a majority is not everybody, a loser meets a winner and a second party takes
over. Every bound is a named constant that appears in a guard.

| Run | Asks | Bounds, and why they are enough |
|---|---|---|
| `raft_crash` | elections and acknowledgements across a crash | 2 terms, 1 entry, 1 crash, 2 calls under way: a double vote needs one crash and two candidates of one term; a lost acknowledgement needs one entry and one crash |
| `raft_figure8` | commit rule, election restriction, refinement | 4 terms, logs of one entry, 2 alternating leaders: the shortest instance of Figure 8 (two rival entries, the older one replicated by a later term, the other leader elected again) |
| `raft_catchup` | fast backup, reordering, liveness | logs of up to 3 old entries of up to 3 terms, so that the conflict term is absent, at the start or in the middle of the leader's log, plus new commands up to length 4 |
| `raft_kill` | the harness's crash (violation) | 2 terms, 2 kills |
| `relay_fencing` | epochs, fence, failover | 3 keys and batches of 2, so that a batch wraps around; 3 epochs; 2 exceptions; one worker stopped for good |
| `idem` | the three handlers | 3 requests of one key (one with another body), 1 of a key with the same lock, 2 failures |
| `outbox_relays` | claims, marks, delivery | 3 rows, batches of 2, a poller, a listener, the mark, anybody may die |
| `pipeline` | marks, effects, delivery | 2 charges, batches of 2, 3 failures of whatever kind |
| `pipeline_effects` | "effect count equals the charge count exactly" (violation) | 1 charge, 1 failure |
| `bench` | the programs of section 6, and the demo of section 3 | below |
| `lab5_priority` | "tier 0 (/checkout) may use all of it" (violation) | 4 requests to /checkout and /search, limit 2: two in flight, one waiter of each tier |
| `storm_edge` | "turns the worst case from 3**3 back into 3" (violation) | 1 request, 3 attempts as in the code |

Bounds of `bench`:

* layer 5 service: 3 requests of 2 endpoints, limits 1 and 2, one patch of the
  configuration, pools of one connection: a holder, a waiter that is told and one that
  is not. An explicit STATEMENT_TIMEOUT_MS is tried under propagation (nothing else looks
  at it) and without BULKHEAD (nothing reads the budget once the pool has been asked).
* storm: 2 requests, 2 attempts per hop (up to 8 database calls each), a budget that
  starts with one retry per hop and earns another with two successes.
* hedging: 4 calls, two deposits per hedge, one sample for a threshold: a call without a
  threshold, two that pay in and one that is hedged.
* retries: 3 requests of 2 attempts, two results per retry: two pay in, the third spends.
* charge: 3 callers with 2 bodies: a slow holder, its robber and one that replays.
* payment: 3 attempts, the default of the code.
* sessions: 3 visits: two writes that overlap and a read.
* pool: 4 threads over 2 connections: both are out and two wait.
* queue: 3 workers, 3 jobs, batches of 2: one full batch, one that is not, and a worker
  that finds nothing.
* retry window: 4 calls of up to 2 retries, 50 percent, a window of 1 on a clock up to
  3: requests leave the window before the retries they paid for, twice.
* pages: every table of up to 4 rows with 3 timestamps, pages of 1 to 3, 6 pages: ties
  across a page boundary, and a walk that does not end.
* fencing demo: 3 keys, 3 epochs, one pause.

Deadlock is not checked where the bounds or the program end the behaviour (all requests
answered, all rows delivered, no term left, every program of the bench). It is checked for
the relay, whose `main` loops for ever. Symmetry is used for the requests of the layer 5
service only, and only in the run without liveness.

Each property has a mutant in `PROJECT.json`: an operator named `<definition>_<what is
wrong>`, defined just before the definition it replaces, with which TLC finds the
property violated.

### Fairness

* `RaftCatchUp`: weak fairness of the heartbeat, of serving and answering calls and of
  the applier. The ticker broadcasts every 100 ms, the election timeout is at least
  400 ms, and the two peers that are up can reach each other. Only stated for the phase
  after the last election: Raft cannot promise that one comes.
* `FencedRelay`: a worker that is not stopped takes its next step; its RENEW timer comes
  due again and again (strong fairness of `Due`, since the wall clock goes on whatever the
  worker does); a lease that nobody renews runs out. A lease that is being renewed need not.
* `Idempotency`: a request takes its next statement, and one that waits for a lock is
  granted it at some point while it is freed again and again (PostgreSQL queues its waiters).
  Clients retry after an error, failures are finite.
* `OutboxRelays`: pollers poll, relays finish their batch unless they die. Nothing makes a
  writer commit, nor a listener hear.
* `OutboxPipeline`: both threads loop for ever and failures are finite (the broker comes
  back). Nothing makes the API or the offset commit go on.
* The bench states no fairness: all its properties are about safety. Where a client could
  be left waiting, they say so as a state: a free slot or connection that nobody was told of.

## 8. What the runs show

All safety, action and liveness properties of the passing runs hold. Four documented
statements do not:

1. `raft_kill` (code, raft.go:398). A goroutine of a killed peer that gets its reply after
   the peer was restarted runs `becomeFollower` and `persist` over the persister that the
   new peer shares: the vote that the new peer saved is overwritten, and after another
   restart a term has two leaders. The code after a call does not look at `killed()`.
   With a real process crash (`raft_crash`, and for any size the proof) it cannot happen.
2. `pipeline_effects` (relay6.py:105). The consumer swallows an exception, polls on, and
   the offset is committed behind it: a published charge never takes effect.
3. `lab5_priority` (shed.py:168). A release wakes the first of the queue, of whatever tier.
   If that is a tier whose share of the limit is still taken, it goes back to waiting and
   nobody else is told: a /checkout behind it sits beside a free slot until SHED_WAIT_MS is
   over and it is shed. In mode static, with one tier, `NoLostWakeup` holds.
4. `storm_edge` (retry_storm.py:215). NonRetryable is raised only by a service_c that has used
   up its attempts. When the database hangs, the gateway's own timer is the first to run out,
   and a TimeoutError is retryable: a request makes up to 7 database calls, not 3.
   `AmplificationBound` says what the variant does guarantee.

Observations met while modelling that have no run of their own. Of layer 4:

* relay7.py:96: the fence is per payout row, so a stale worker is refused only where the new
  leader has already been; topic7_duplicate_payouts.sql:68 asks for every stale attempt to be
  rejected. `PaidOncePerEpoch` is what the fence does give.
* hwm_skip.py:126: `committed_at` is stamped before COMMIT, so a row can be skipped although
  the column shows no inversion.
* payments1.py:78: the success is recorded inside the try, so a payment whose record fails is
  classified as ambiguous, and sent again under RETRY_POLICY=any. Under that policy the answer
  is the verdict on the last attempt: it can be "safe" though an earlier one was charged.
* api4.py:79: when two writes of a session overlap, the slower handler puts its older LSN over
  the newer one, and a read may then miss a write that was answered. `ReadsOwnWrites` holds as
  long as that has not happened (`wentBack`).
* relay7.py:145: `acquire_or_renew` goes on to acquire when the renewal fails, so a deposed
  worker that finds the lease expired gets a new epoch silently; the comment at 147-149 says
  that it drops its epoch. `RelayInv` shows that the new epoch is a proper one.
* fencing_demo.py:127 uses `fence < epoch`, which refuses the holder's own second write;
  lines 11-12 take zero rows to mean stale. relay7.py:88-93 uses `<=` and says why. What
  zero rows do mean under `<` is `ZeroRowsMeanStale`: a newer epoch, or only payouts of its own
  under this one, as after a pause in which nobody took the lease over.
* `handle_b`'s 409 branch is unreachable (`LosersFindTheWinner`): a row that is committed
  says "succeeded".
* payments2.py's C locks `hashtext(key)` without the tenant, so tenants share locks; keys
  are only delayed by it (`Alone` and `EveryoneIsServed` hold under collisions).
* The messages of mode v0 carry no `outbox_id`; the consumer takes them all for event 0,
  and only the first of them takes effect.
* raft.go: `min(leaderCommit, lastNew)` always equals `leaderCommit`, since a leader never
  sends a commit index above its `prev` plus entries; a follower keeps a longer tail that
  no entry contradicts; a late rejection may set `nextIndex` below `matchIndex`, which costs
  a repeated call; a cluster of one peer never elects, because votes are counted in replies.

Of the other layers:

* main.py:312 (layer 5): with BULKHEAD=1 the reports have a pool of their own but share the
  admission limit; in mode static they can fill it, so `BulkheadHolds` is stated for the
  modes without a limit and with tiers.
* shed.py: growth of the adaptive limit and a new limit from /admin/config wake nobody that
  waits; the gradient rule cannot take the limit below 4.
* fanout.py:177: an error is an answer, so a hedge that fails at once cancels a first copy
  that was only slow; the copies go to the same address; and a cancelled copy leaves no
  sample, so hedging lowers the p95 that it hedges at.
* retry.py:121: every result below 500 pays into the budget, a 4xx too, where the comment at
  line 25 says successes.
* services/idempotency.py:69 (layer 8): the loser of the fixed version gets an IntegrityError,
  not the winner's order; the next retry gets that.
* db.py: statement_timeout is per statement, so the count can outlive the deadline that
  the sleep before it was given. And deadline.py:97-99 lets an explicit STATEMENT_TIMEOUT_MS win
  over what is left, which db.py:191 then uses: under PROPAGATE_DEADLINE the sleep can outlive
  the deadline too. `NoSlotForTheDead` in `LabInv` is stated for the derived timeout.
* lab/app/idempotency.py:97-111: a claim that expires is taken over from a slow holder as
  from a dead one, both charge, and another body may take it over and overwrite the
  fingerprint: a caller then gets the stored answer of the other body. `OneChargePerClaim`
  counts exactly those (`robbed`).
* retry_storm.py and resilience.py:145-152 spend the budget before they look at the deadline:
  a retry can be paid for and not made.
* resilience.py:185: "exactly one call" may probe a half-open breaker, but all go through until
  `min_samples` results are in. `with_retries` and the budget of layer 8 are not wired into its
  main.py.
* skip_locked_queue.py:108: "queue drained" is true only if no holder of a batch raises
  after the others have left; its branch for deadlocks is not reachable, since rows are
  locked in one order.

## 9. Proofs

TLAPS proves for every value of the constants, under the assumptions named in the
modules that declare them (finite sets of peers, sentinel values that are no members,
bounds that are numbers, at least one worker in `JobQueue`); 13815 obligations in eight
modules. Every inductive invariant of the bench was first checked by TLC on the `bench`
instance. Every invariant and every action property of the passing runs is a theorem; what
is left to TLC is the seven liveness properties listed at the end. (For `raft_catchup`
that means a theorem about `Spec` of `Raft`; the run starts in the middle of a behaviour.)

| Module (obligations) | Theorems | Argument |
|---|---|---|
| `RaftProofs` (1365) | `TypeCorrect`: `Spec => []TypeOK`; `ElectionInvariant`, `OneLeader`, `DurableVotes` | below |
| `RaftLogProofs` (3836) | `LogInvariant`: `Spec => []RaftInv`; `LogsMatch`, `DurableAcks`, `LeadersAreComplete`, `StateMachinesAgree`; `CommittedStaysFinal` and `LeadersNeverOverwrite` (action properties); `RaftImplementsReplicatedLog` (refinement) | below |
| `LeasesProofs` (61) | lemmas only | what each statement on the lease and the payouts does to `EpochInv`, whichever program issues it; used by the relay and by the demo |
| `FencedRelayProofs` (450) | `RelayInvariant`: `Spec => [](TypeOK /\ RelayInv)`; `FencedPayouts`: `FENCING /\ Spec => PaidOncePerEpoch` | what a worker believes is a past epoch or the lease row itself; every fence is an epoch that was handed out to the worker its row names; so two beliefs of one epoch are one worker's, and a write that passes the fence is of a newer epoch or of the same worker |
| `IdempotencyProofs` (270) | `ChargedOnce`: `KeyAndEffectTogether`, `LosersFindTheWinner` and `AnswersAreTrue` always hold; `AnswersTellTheTruth`: the last alone | `IInv` adds to the three the type invariant, which statements belong to which handler, `Alone` (who is past the check owns the key by claim or lock) and, for A, that a key is charged before it is recorded |
| `OutboxRelaysProofs` (128) | `NoDuplicates`: `DisjointBatches` and `DeliveredOnce`; `NeverBack`: `NeverLooksBack` | a claim takes only rows that are unlocked and unmarked, so batches stay disjoint; the mark is at least the id of whatever it delivered |
| `OutboxPipelineProofs` (462) | `PipelineInvariant`; `PublishedEventsExist`, `EffectsHappenOnce` | `PipelineInv` adds what the processes hold in memory: what the relay's callbacks reported, and what an answer is about to say, is in the topic; the consumer's position is in the topic; an effect is tried only after its delivery is on record |
| `BenchProofs` (7243) | all programs of section 6, below | one inductive invariant each |

### Elections

One leader per term is not inductive: nothing in it says why a second candidate cannot
find a majority. `ElectionInv` does, in five parts. `Claim(p, t, c)` says that c has got
hold of p's vote of term t: in a reply under way, in its running count, or in the votes it
won with. Every claim is backed by the voter's persister (`ClaimsSaved`), no vote is claimed
by two (`ClaimsAgree`), winners hold majorities (`WonByMajority`); `SavedIsCurrent` (a running
peer's memory is what it saved) carries the first two over crashes and grants, and
`RunningRoles` keeps crashed peers out. Two majorities of a finite set meet
(from `FiniteSetTheorems`), and the peer in both would have its vote claimed by two.

### The log

`RaftInv` is the type invariant, `ElectionInv` and five layers, each kept by every action
given the ones above it:

1. `LeadInv`: a term has one log, `termLog[t]`, that of its leader, and it only grows.
2. `RootInv`: every log, in memory, on disk or in a call, is up to each of its entries the log
   of that entry's term. `LogMatching` follows; it is not inductive on its own because a
   call under way may bring an entry into any log.
3. `AckInv`: what a peer has confirmed (`acked`) is in its persister as long as it is in
   that term; replies under way and `matchIndex` claim no more than that. This is
   `AcksAreDurable`, and it is where persisting before replying is used.
4. `SafeInv`: an entry n of its own term s that a majority may still confirm is in the
   log of every later term. `Dead(s, n)` says that no majority can confirm it any more:
   a majority is past term s without having done so. So whoever holds (s, n) and votes
   in a later term either votes for a candidate whose log is at least as new
   (`VotedBetter`, from `UpToDate`) or (s, n) is dead; the call that asks for the vote
   describes the candidate's log (`Described`), followers keep what they hold while it is not dead
   (`Kept`), and a new leader has it (`Inherited`). `Committed(s, n)` and `Dead(s, n)`
   exclude each other, again by two majorities.
5. `CommitInv`: a commit index, at a peer or in a call, stands for the first entries of a
   log that some term has committed; the check for the current term in `advanceCommitIndex`
   is used here and nowhere else. `chosen` is such a log, and state machines were fed the
   beginning of their peer's log.

`LeaderCompleteness`, `StateMachineSafety` and `CommittedIsFinal` follow from layers 4
and 5. For the refinement, `Init` maps to `Init` of `ReplicatedLog`, `advanceCommitIndex`
to `Choose` or a stutter, `applier` to `Apply`, `Crash` to `Restart`, and every other action
leaves `chosen` and `applied` alone.

`LeadersOnlyAppend` completes the five properties of Raft's paper (Figure 3): a leader that
runs on in its term goes on leading it, and its log changes at the end only. No line of
`AppendEntries` says so: the handler makes a follower of whoever it runs on, a leader of the
same term too, and may cut its log. `CallsFromLeaders` (a call under way is from another peer,
which was elected in its term) makes it inductive: such a call would need a second leader of
the term. TLC checked both on the instances of `raft_crash` and `raft_figure8`.

### The bench

| Theorem | Inductive invariant, and why it is needed |
|---|---|
| `QueueRunsEveryJobOnce` | `QueueInv`: a row is done, in one batch, or neither (`RowsHaveOneOwner`); what a scan has passed is done or in somebody's batch, unless a worker raised (`PassedIsTaken`); who left was at the end of the table with empty hands |
| `RetriesStayWithinTheBudget` | `RetryInv`: adds to the property, which already counts the tokens in the bucket, that a request under way has no result yet and that the cache is filled by successes only |
| `HedgesStayWithinTheBudget` | `HedgingInv`: hedges and the tokens left together are paid for by calls that are over or go on alone; there is a second copy only of a call that was hedged |
| `ChargeInvariant`, `ClaimsChargeOnce`, `AnswersFitTheRequest` | `ChargeInv`: those that have charged or still may, other than the row's holder, are no more than the takeovers (`ClaimsAreCounted`); nobody has charged while the row has no answer; with one transaction the holder alone has charged; a takeover by another body is the lab's version only |
| `SessionsReadTheirWrites` | `SessionsInv`: nobody is ahead of the primary; the session's token covers every write that was answered, unless an older one replaced it (`TokenCoversWrites`); a read that left the poll for the standby is owed no more than it has replayed (`ReadsWait`) |
| `PoolInvariant`, `PoolHandsEveryConnOn` | `PoolInv`: the property's own count does not follow from itself, since a woken thread that takes a connection spends it; `WaitersAreTold` (if anybody waits, as many are coming as connections are idle) does |
| `StormInvariant`, `RequestsAmplifyNoFurther` | `StormInv`: what a request has cost so far in terms of the attempts of the three loops that are under way; under edge only, which of them can have been cut off by which timer |
| `TheBudgetBoundsTheLoad` | `LoadInv`: database calls and sleepers together are at most first calls and counted retries (`EveryCallIsCounted`); retries and what is in the three buckets come from floors and successes (`RetriesAreDrawn`) |
| `ServiceInvariant`, `SlotsAreReturned`, `FreeSlotsAreTold`, `ReportsDoNotDrownCheckout` | `ServiceInv`: the counter is the number of the admitted, the queue has each waiter once, and with the tiers the admitted reports fit their own allowance (`ReportsFit`), which is less than the limit; so when a /checkout finds no room somebody else is in. That nobody sleeps past its deadline needs both halves of do_work, the look at the deadline after the checkout and the timeout derived from it (`FromBudget`) |
| `SafeIsSafe` | `PayInv`: a call is open exactly while the client waits for it, a client that retries only what is safe has nothing doubtful behind it when it goes on, and an error after the request was sent is never called safe |
| `BudgetHoldsOverAllTime` | `WindowInv`: the total says nothing of when the requests came, and a trim drops requests. `EveryPastIsPaidFor` cuts the history at any instant the two queues still tell apart: the retries granted before it are paid for by the requests before it. `_trim` trims both queues at one instant and so removes one such cut; `try_spend` adds a retry that the whole window pays for |
| `WalksAreComplete` | `PagingInv`: a walk that goes on is at the m-th row, the one its cursor names, and has delivered, or shares a timestamp with what it delivered, everything up to it (`WalkIsAt`, `Covers`). That the rows which pass the WHERE clause are a final part of the table needs the sort order, the precondition of each implementation |
| `DemoEpochs`, `RefusedOnlyWhenStale` | `DemoInv`: `EpochInv` of `Leases`, and no attempt carries an epoch above the lease's (`AttemptsArePast`): a worker that wakes from its pause replays with an epoch that was its own. With `RefusedAreOutrun`: a fence that refuses it is an epoch of the lease row, so a newer one, or its own; if that payout is made again later, then under a newer epoch (`OutrunLasts`). `FencesArePast` says whose the payouts of its own epoch are |

Some definitions had to change for the proofs. `Above` of `RetryStorm` had a CASE with two
guards that are true at once, which TLC resolves by taking the first and TLA+ leaves open;
they exclude each other now. `Left` and `Notify` of `Shedder`, `flush` of `OutboxPipeline`,
`Recent` of `RetryWindow` and `Rest` of `Paging` are stated by index and by order instead of
with `SelectSeq` and `SetToSortSeq`, about which the provers know nothing; `Recent` is now
the popleft loop as coded, which stops at the first young entry. Two proofs showed the
model to be narrower than the code: /_stats trims the window too (`stats`), and the tables
given to `page` and `page_inclusive` may have their ties in any order (`InOrder`).

### Only model-checked

- Liveness, which needs fairness and ENABLED: `CommandsAreApplied`, `CatchesUp`, `EveryKeyIsPaid`,
  `EveryoneIsServed`, `EveryRowIsDelivered`, `WhatItSeesItDelivers`, `EveryChargeIsPublished`.
- The four runs that expect a violation: TLC's counterexamples are their result.

No module uses RECURSIVE.

## 10. Not modelled, and the plan

Layer 4 comes first because it is the repository's distributed core; within it Raft, then
the leases, the idempotency keys and the outbox. After it come the programs elsewhere with
the most control in the fewest lines: the bench. Done: sections 2 to 6, and the safety proofs of
section 9. In order, what is left:

1. The rest of layer 4: `idempotent_consumer.js` as a consumer of the pipeline,
   last-writer-wins (`03-*`).
2. The rest of the layer 5 files: the breaker and the degradation ladder of topic 7; of layer 8: the
   latency breaker; the rate limiters of layer 7, cancellation of
   layer 10, the quota simulator of layer 1, the burn rate of layer 6.
3. The safety half of the liveness properties, where it can be said as an action property
   (what a step towards delivery never undoes).

The share of the repository's lines that the models stand for is small, and will stay so.
Most of its code is not a system: benchmarks that measure a machine, a runtime or a
database, simulators that sample distributions, load generators, plots, reports and
argument parsing around each exercise, the same program once more in another language, and
numeric kernels. They keep no protocol state that two actors could disagree about, and stay
out; `PROJECT.json` gives the reason for each component. Of the files that are modelled, the
parts left out are the same: measuring, printing and setting up.
