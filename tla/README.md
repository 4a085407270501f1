# GoKafka: formal models

TLA+ models of the GoKafka client, checked by TLC on small instances, with proofs by TLAPS of what holds for every
instance. `src/` is the reference: every definition is translated from the code, and `PROJECT.json` names the lines
each one stands for.

## The system and its modules

GoKafka is a Go client for Kafka. An application uses its producers, consumers and transactions from several
goroutines at once; all of them send requests through one `Cluster`, which keeps a connection per broker and cached
metadata. The hard parts are what several goroutines do to shared state between two lock sections, and what is left
after a request or its answer is lost.

| Part | Code | Module |
| --- | --- | --- |
| Synchronous, idempotent producer | `producer.go`, `internal/produce` | `Producer` |
| Asynchronous producer | `async_producer.go` | `AsyncProducer` |
| Batching producer | `batch_producer.go` | `BatchProducer` |
| Transactions | `transaction.go` | `Transaction` |
| Connection pool and transport | `internal/broker/cluster.go`, `internal/transport/conn.go` | `Connection` |
| Seed connection, metadata refresh | `internal/broker/cluster.go` | `SeedConnection` |
| Classic consumer group member | `consumer*.go`, `offset.go` | `Consumer` |
| KIP-848 group member | `consumer848.go`, `consumer_runner.go` | `NextGenMember` |
| Share group member | `share_consumer.go` | `ShareConsumer` |
| Fetched batches, read_committed, poll limit | `internal/protocol/fetch.go`, `consumer.go` | `FetchPath` |
| Group assignors | `internal/protocol/group_assign.go` | `Assignors` |
| Version negotiation, call sites | `internal/protocol/{api_versions,versions,keys,flex}.go`, `cluster.go` | `Versions`, `Negotiation`, `CallSites` |
| Request and response layouts | `internal/protocol`, `internal/wire` | `Wire`, `LayoutsCore`, `LayoutsGroups`, `LayoutsAdmin`, `LayoutsCluster` |
| Admin client | `admin*.go` | `Admin`, `CallSites` |
| In-memory fake broker | `kfake` | `FakeBroker`, `KfakeLayouts` |

Brokers and coordinators are not code of this repository. Each module models as much of them as its client relies on,
and the map marks those definitions external.

### How state and actions correspond to the code

A variable stands for a field of the Go struct of the same name, or for the locals of a goroutine (`pc`, `th`,
`caller`, `call`, ...). An action is what a goroutine does between two points at which another one can intervene: a
lock section, a channel operation, a request. Consequences of that choice:

* A request, the broker's handling of it and its answer are one step in `Consumer`, `NextGenMember`, `ShareConsumer`
  and `Transaction`, because `transport.Conn` holds a mutex for the whole round trip; a lost request and a lost answer
  are steps of their own. In `Producer` and `Connection`, where the network itself matters, writing, executing and
  reading are separate steps, and a late request may be executed after its caller gave up.
* A coordinator lookup and the store of its result are one step; a lookup that fails is one way for the request after
  it to fail.
* `Run` and its handlers appear as the calls they make (Poll, Commit or Acknowledge of any part of the records, Leave).
* In the layout modules a body is the sequence of its fields' wire types at a version. An encoder and the decoder of
  the other side are compared as such sequences; values are left out.
* An admin operation is a route (any broker, every leader, a coordinator per item, ...) with a treatment of error codes;
  `CallSites` says for every operation which one it is, and at which version it encodes its body.
* `Consumer` takes each record to be a batch of its own. `FetchPath` has batches of several records, and leaves the
  rest of the consumer out.
* Record contents, topics' names, timestamps, logging and metrics are left out. A partition's log is fixed while a
  consumer reads it; static membership and time are not modelled: a timer may fire whenever it is set.

## Runs

Configurations that ask the same question of one component share a run: the module `MC...` has a variable `situation`
that is chosen in the initial state and never changes, and each situation is the component with other constants.

| Run | What it shows |
| --- | --- |
| `producer_sequential` | One caller that stops after an error, two partitions on two brokers, every fault: an acknowledged record is stored where it says (`AckedIsStored`), nothing is stored twice, out of order or in two partitions (`NoDuplicates`, `InOrder`, `OnePartitionPerRecord`). |
| `producer_shared` | Two callers, shared sequence table, no lost answers: rollbacks never misattribute or lose a record (`SharedAckedIsStored`, `SharedSequencesAgree`). With idempotence off, a partial failure re-sends only what nobody acknowledged (`PlainNoDuplicates`). |
| `transaction` | Before and under transaction version 2, with lost requests and answers and a coordinator that moves: committed transactions are complete, aborted ones invisible (`CommittedIsComplete`, `AbortedIsInvisible`, `AllOrNothing`), epochs are never shared (`OwnEpoch`), every partition is registered before its records (`RegisteredFirst`). Handles may be dropped without Commit or Abort before version 2. |
| `front_ends` | Asynchronous producer (one worker, a pool, without Close) and batching producer: nothing is stored twice (`StoredOnce`), reports are true (`ReportsAreTrue`), one worker keeps the order of the Sends (`StoredInSendOrder`), everything accepted is reported while the producer is open (`AcceptedIsReported`), Run ends, a batch is flushed by its timer (`EverythingIsFlushed`). |
| `connections` | Pooled connection and seed connection: no request is executed twice (`ExecutedAtMostOnce`), a refresh beside another one is not answered with an error when a seed dies and another is up (`RefreshIsAnswered`), every call on a pooled connection returns (`EveryCallReturns`), and every call on the seed connection ends (`EverySeedCallEnds`), be it in the panic of the next row but one. |
| `connection_stale` | A counterexample: the response of an earlier request is taken for one's own (`OwnResponse`). |
| `seed_race` | A counterexample: of two refreshes that meet a dead seed one goes on with a nil connection (`RefreshSurvives`). |
| `consumer_liveness` | Calls return, every record is delivered while the application polls, a fenced KIP-848 member is back in the group. |
| `members` | Five situations of a classic member: no position and no commit is ever ahead of what Poll returned (`PositionsWereDelivered`, `CommitsWereDelivered`). Five of a share consumer: a reported acknowledgement stays (`WordsAreKept`), nothing is accepted that was not returned (`AcceptedWereDelivered`). Two of a KIP-848 member: nothing is kept that was granted to others (`KeptOwnsWhatItWasGranted`). In all of them at most one live heartbeat goroutine (`OneLiveBeat`). |
| `protocol` | Every call site against brokers of every range of versions, upgraded at any time: where the site's code and the broker have a version in common, body and header are sent at one (`SentAtCommonVersion`) and the body has the form its header announces (`BodiesHaveTheirForm`); what is refused before anything is sent could not have worked (`RefusedOnlyIfUnsupported`), and kfake reads what the client writes (`FakeBrokerUnderstands`). Every shape of admin operation, while requests and answers are lost and leaders move, reports what was done (`AdminReportsAreTrue`). |
| `log` | kfake under concurrent Produce requests, injected faults and deleted topics answers what it did (`KeepsItsWord`); a read_committed consumer reads exactly the committed records, each once and in order, however transactions interleave and wherever a fetch starts (`PollReadsExactly`), and all of them in the end (`VisibleIsRead`); the leader's assignors give every partition one owner and fair shares (`AssignedOnce`). |
| `poll_cut` | A counterexample: records that a poll limit cuts off in the middle of a batch are never delivered (`CutRecordsAreRead`). |

The runs `transaction`, `members`, `front_ends`, `connections`, `protocol` and `log` have several situations
each; a situation excludes what a row of "Deviations" is about where the property does not hold with it (for example
`producer_shared` loses no answers, and `log` polls batches no longer than the limit). `TypeOK` of a module documents
its state; the producer's is also proved.

Bounds. Every bound is a constant and is named in its module (`MaxCalls`, `MaxFaults`, `MaxAttempts`, `MaxGen`,
`MaxEpoch`, ...). Two partitions, two brokers and two callers suffice for the interesting cases, because every
interaction in the code is between two holders of one resource (two callers and a sequence counter, a Poll and a
heartbeat, an old leader and a new one); two or three calls and one or two faults allow an error, its retry and a call
after it. The code's retry counts (10, 20, 30, 60) are 2 in the runs: what a retry does depends on whether it is the
last one, not on how many came before. A log of six offsets and two
transactional producers allow two interleaved transactions with their markers and a third one; three members, two topics
and up to four partitions allow every remainder of a division of partitions among members. Symmetry is used only for interchangeable partitions, brokers or callers.

Fairness. A goroutine that can take a step takes it (weak fairness per goroutine): Go's scheduler is preemptive. A
broker handles what reached it. A linger timer that is set fires. Strong fairness is assumed in one place, the end of
a heartbeat goroutine whose context was cancelled: its select may see a tick and the cancellation together, and
chooses at random. No fairness is assumed of faults, of the application's calls (except Poll, where the property is
about an application that keeps polling), or of the group's changes.

## Proofs

What is proved holds for every value of the constants: any number of callers, workers, partitions, brokers, records,
calls, retries and faults. Eight modules hold the proofs; each has one inductive invariant (or a tower of them), one
lemma per action or group of actions, and theorems that name the property of the run.

| Theorem | Property | Module |
| --- | --- | --- |
| `TypeCorrect` | `TypeOK` of `Producer` | `ProducerProofs` |
| `RetriesKeepThePartition` | `OnePartitionPerRecord` | `ProducerProofs` |
| `ReportedIsStored`, `RetriesStoreOnce`, `RetriesKeepTheOrder` | `AckedIsStored`, `NoDuplicates`, `InOrder` | `ProducerOnce` (on `ProducerAttempts`) |
| `StoresOnce`, `ReportsTellTheTruth` | `StoredOnce`, `ReportsAreTrue` | `AsyncProducerProofs` |
| `SingleWorkerKeepsOrder` | `StoredInSendOrder` | `AsyncProducerProofs` |
| `RequestsRunOnce`, `ResponsesArePaired` | `ExecutedAtMostOnce`, `OwnResponse` | `ConnectionProofs` |
| `CommonVersion`, `Refusals` | `SentAtCommonVersion`, `RefusedOnlyIfUnsupported` | `WireProofs` |
| `BrokerKeepsItsWord` | `KeepsItsWord` | `WireProofs` |
| `EpochsAreHandedOutOnce` | `OwnEpoch` | `TransactionOutcomes` |
| `TransactionsAreAtomic`, `AbortsHold` | `AllOrNothing`, `AbortedIsInvisible` | `TransactionOutcomes` |
| `CommitsAreComplete` | `CommittedIsComplete` | `TransactionRecords` |
| `ProducesToRegistered` | `SentIsRegistered`, which `RegisteredFirst` checks | `TransactionRecords` |

Producer. `TypeInv` adds to `TypeOK` what types alone do not give: a sequence block is reserved before it is rolled back
(so a rollback never goes below zero) and the freeze of a partition is set before a request is built. `PartitionInv` says
where a record may be - in the caller's frozen partition, in the requests on the network, in the logs - and that these
agree; it is needed because a late request is executed long after its caller has moved on, and only the network's
content then ties it to the partition chosen at first.

Idempotent producer. `AckedIsStored`, `NoDuplicates` and `InOrder` are proved for a `Sequential` caller: one goroutine,
idempotence on, no call after an error. These are the conditions of the run `producer_sequential`; without the last two
TLC has counterexamples (a caller that goes on after an error reuses the sequences of a batch that may be stored), and
the sharing of a producer is the subject of `producer_shared`. The number of partitions, brokers, records, calls,
attempts and elections is arbitrary, and so is the set of faults. None of the three is inductive. `OnceInv` adds:

* `CallInv`, `AttemptInv`: the records of one call for one partition are a batch that is acknowledged as a whole or not
  at all, every attempt's batch has the same base sequence (the block that a rollback gives back is the one the next
  attempt reserves), and a partition is marked failed exactly when its batch has no answer;
* `AgreeInv`: if a batch is settled the client's next sequence is the broker's; if it is not, the broker either has
  nothing of the call or has the whole batch at the sequences the retry will carry. This is the fact the three
  properties rest on: a retry is appended in the first case and recognised in the second;
* `RequestInv`: a request in the network, however old, carries the current batch with its sequences, or sequences the
  broker is past already. Hence a late request never appends anything but what its caller still waits for;
* `RoundTripInv`: one request or one reply per broker and attempt, and a reply without an error code names the offset
  the batch is stored at;
* `StoredInv`: what the log holds of this call and of earlier ones, once and in order.

`ProducerAttempts` defines them and has the steps of an attempt; `ProducerOnce` has the steps between attempts and
between calls, the brokers (`HandleOnce`) and the theorems.

Asynchronous producer. A record is in one place only: the input channel, one worker's batch, or what was stored and
reported. `IInv` says so (`Channel`, `Held`, `Logged`), and that a batch which a failed call may have stored in part is
never given to ProduceSync again (`Unstored`), that each report is true when it is made (`Truthful`), and which of its
batch a worker still has to report (`Accounted`). It needs the last two because reports leave one at a time and a
cancelled flush stops between two of them. For a single worker `OrderInv` adds that the log, the batch and the channel
each keep the order of the Sends and that what is stored was queued before what is in the batch, and both before what
is in the channel. The batch is excepted once it can no longer be stored (`MayStore`): a cancelled flush leaves records
in it that are stored already, and only because a call under a cancelled context stores nothing is the order kept.

Connection. `IInv` says that a request is on its way at most once over all connections (`QueuedOnce`), and that one
whose caller may still send it is on none of them and was not executed (`UnsentIsNowhere`): Cluster.Request sends a
request again only if the write was refused. `ResponsesArePaired` has a second invariant, `Paired`: the frames that are on
their way on a connection are those its lock holder waits for. It assumes `NoReaderGivesUp` - no deadline expires in a
read and no broker goes away while connections are refused, dialled and closed; the run `connection_stale` shows that
without it the property fails.

Wire. `VersionInv` records what the ranges were when they were negotiated and that a broker's ranges only grow since;
without the latter a clamped version could have disappeared. Both theorems speak of `Common`, the versions at which the
site's code has the form that the version calls for and that the broker advertised; `CommonVersion` also says that with
no such version only a site that holds on to a version of its own sends it, and under a lower header. For the fake broker `KeepsItsWord` speaks of what was
answered and is not inductive: `IInv` adds that the results a request has collected are true already, that no batch of a
request is in a partition's log before its turn, and that ids of requests and topics are new when they are given.

Transactions, in three layers.

1. `Epochs`: what the client knows of epochs (the cached one, the handle's, those in requests on the wire and in answers
   not yet read) is never newer than the coordinator's, epochs grow with the transactions, and a cached epoch belongs to
   no transaction yet. `EpochsAreHandedOutOnce` assumes `TV2 => ~Abandon`: under TV2 no handle is dropped without Commit
   or Abort (see `src/transaction.go:60` below).
2. `Outcomes`: a record that is not decided belongs to the coordinator's present epoch and to a partition it has added,
   so that one decision covers all of a transaction (`DecisionInv`); a positive answer to EndTxn tells what was decided
   (`EndInv`). Before TV2 an epoch outlives its transaction, so that this also needs `SealedInv`: no request of a decided
   transaction is still to come. `Careful` is the assumption it rests on: before TV2, the application aborts after an
   error and no request that was given up arrives later. TLC has counterexamples to `AllOrNothing` without either; under
   TV2 nothing is assumed of them.
3. `StorageInv`: what was acknowledged is stored, a sequence below the one a partition expects is that of a stored
   record, and the partition expects at most the sequence the handle will use next (one more while a produce call is
   under way). A duplicate that the partition acknowledges is therefore one it has. The sequence of a failed call is
   used again by the next one, hence the assumption `AbortOnError` of `CommitsAreComplete`.

`ProducesToRegistered` stands on `Epochs` and on `RegisterInv`, which ties the handle's set of registered partitions to
the coordinator's: outside a call that is adding some, what the handle takes for registered the coordinator has, unless
a call has failed. It assumes `Orderly`: the application aborts after an error, or every leader is known and nothing is
lost or late (see `src/transaction.go:276` below).

All assumptions other than these are those named in the components (`ASSUME`), which TLC evaluates in every run of them,
and that `None`, the absence of a call, is not a call. The inductive invariants were themselves checked by TLC on small
instances, under TV2 and before it.

Model-checked only:

* liveness (`AcceptedIsReported`, `RunEnds`, `EverythingIsFlushed`, `EveryCallReturns`, `EverySeedCallEnds`,
  `VisibleIsRead` and the run `consumer_liveness`): the prover does not reason about fairness;
* what recursive definitions compute (`FetchPath`, `Assignors`, the layouts: `PollReadsExactly`, `AssignedOnce`,
  `BodiesHaveTheirForm`, `FakeBrokerUnderstands`): it has no induction over data;
* the safety properties of a producer that several callers share (`SharedAckedIsStored`, `SharedSequencesAgree`,
  `PlainNoDuplicates`) and those of the consumers, the seed connection and the admin client. They hold in the
  situations of their runs and not in others (see "Deviations"); an inductive invariant for each has not been worked out.

## Deviations

Where the code does less than a document, a comment or a test of the repository says. The first three rows are the
runs `poll_cut`, `connection_stale` and `seed_race`. The others were met while modelling, many of them as counterexamples of these models
in a configuration that the runs leave out, the rest by comparing a definition with its lines.

| Where | What happens |
| --- | --- |
| `src/consumer.go:165` | A poll limit that cuts inside a batch moves the cursor to the middle of the batch. A broker answers a fetch from there with the whole batch, nothing drops the records before the fetch offset, and so Poll returns the batch's first records again and never those past the cut. src/consumer.go:145: they are "re-fetched next Poll rather than silently skipped". kfake answers only with batches that start at the offset or later, so there the rest of the batch is skipped. |
| `src/internal/transport/conn.go:144` | The response's correlation id is never compared with the request's. A caller whose read timed out unlocks the connection before Cluster.Request invalidates it, so the next caller can write its request there and read the late response as its own. src/internal/transport/conn.go:113-114 says "Request sends a Kafka request and returns the full response frame. Conn serializes requests; one in-flight RPC per TCP connection." |
| `src/internal/broker/cluster.go:379` | seed tests seedConn under the read lock, unlocks and reads it again; dropSeed or invalidateSeed in between makes it return a nil connection with a nil error, and the caller's conn.Request dereferences it. src/internal/broker/cluster.go:155-156 says "drop it and re-dial another seed so metadata refresh survives losing the bootstrap broker", 192-193 that dropSeed clears the connection "so the next seed() call re-dials a (possibly different, live) broker". |
| `src/async_producer.go:130` | On Close each worker may take the closed case, flush its own batch and return while records are still in the input channel; those records are neither produced nor reported. examples/asyncproducer/main.go:62 says "Every produced record yields exactly one ProduceResult", :90 that the acknowledgement of a Send "arrives later on Results()", and the example itself calls Close right after 1000 Sends. |
| `src/async_producer.go:116` | When the context ends in the middle of the reports, flush returns without emptying the batch; the worker's last flush then reports the same records again, the stored ones with an error. examples/asyncproducer/main.go:62: "Every produced record yields exactly one ProduceResult". |
| `src/async_producer.go:173` | After Close both the closed case and the send on the closed input channel are ready in Send's select, which picks at random; picking the send panics. src/async_producer.go:158 says "Close stops accepting new records.", and the select's own closed case answers ErrClosed. |
| `src/batch_producer.go:48` | The linger timer's goroutine discards the error of Flush, so a failed batch is reported by no call. examples/asyncproducer/main.go:118: "Send/Flush return the produce error directly instead of reporting it on a channel". |
| `src/internal/broker/cluster.go:113` | Cluster.Close empties the pool and leaves no mark, so a request already under way dials and pools a new connection that nothing closes. src/client.go:100: "Close releases broker connections." |
| `src/internal/broker/cluster.go:625` | invalidateSeed closes whatever connection is cached, so a seed request that failed on an old connection closes the fresh one a refresh has just dialled; with a late store of a dead connection this uses up the refresh's attempts although a seed broker is up. src/internal/broker/cluster.go:155-156: "drop it and re-dial another seed so metadata refresh survives losing the bootstrap broker". |
| `src/consumer.go:552` | applyAssignment publishes every partition at offset 0 under c.mu and loadCommittedOffsets replaces the 0 in later steps; a Poll that copies the assignment in between fetches from 0. The comment at src/consumer.go:647-648 says the loop retries until every partition is resolved and shall "never fall back to 0". A failing loadCommittedOffsets leaves the zeros in place too. |
| `src/consumer.go:441` | JoinGroup with an expired member id is answered UNKNOWN_MEMBER_ID, which joinAndAssign returns without clearing c.memberID; every later rejoin and Poll sends the same id. CHANGELOG.md:574 says heartbeat failures "log warnings and trigger rejoin instead of silently dropping group membership". |
| `src/consumer.go:802` | rejoin sets c.assignments to nil before joinAndAssign, so notifyRevokedLocked finds nothing to report; src/consumer_rebalance.go:9 says "OnPartitionsRevoked is called before partitions are reassigned away from this consumer". |
| `src/consumer_rebalance.go:77` | OnPartitionsRevoked runs with c.mu held and Commit takes c.mu: a listener that commits never returns. examples/rebalancelistener/main.go:16 says "In OnPartitionsRevoked you typically commit offsets"; README.md:473 says "commit or flush before revocation". |
| `src/consumer_runner.go:189` | Leave cancels the registered heartbeat; if that goroutine is in the middle of a rejoin, its joinAndAssign finds hbCancel nil and starts a new heartbeat under a background context after Leave has returned. docs/CONFORMANCE.md:202 says "consumer/share heartbeat goroutines cancelled via context". |
| `src/consumer.go:813` | Rebalance and cooperativeRejoin report the whole assignment revoked although the partitions are kept, and the incremental assignment does not report kept partitions as assigned again. examples/rebalancelistener/main.go:27-28 says "OnPartitionsRevoked reports just the partitions you are genuinely losing"; CHANGELOG.md:628 says "cooperative assignors revoke/assign only changed partitions during rebalance". |
| `src/offset.go:23` | Seek writes without c.mu, so it can fall between the comparison and the store of advanceDelivered (src/consumer.go:197-198) and be overwritten. src/offset.go:14-16 says the compare-and-set "keeps a concurrent Seek from being clobbered". |
| `src/consumer.go:514` | Nothing orders two joinAndAssign calls of one consumer: the one that received the older assignment may apply it last, under the generation the newer one stored. src/offset.go:99 says "AssignedPartitions returns the current group assignment". |
| `src/consumer.go:563` | An empty assignment makes the member take every partition of its topics, also after 20 rounds of JoinGroup that were redirected or refused (413), and when the group has other members who own them. The comment at src/consumer.go:562 says this is a "Fallback for single-member dev clusters when coordinator returns empty assignment". |
| `src/consumer.go:371` | After a rejoin Commit without records collects the positions again, which the rejoin has reset to the committed offsets; it then succeeds without having committed what it was called for. src/consumer.go:290-291 says "With no records it commits the last offset Poll RETURNED for each partition". |
| `src/consumer.go:675` | loadCommittedOffsets runs for kept partitions too and moves them back to their committed offset: delivered records are delivered again. docs/CONFORMANCE.md:204 lists "cooperative incremental revoke/assign" as the guard against "Stale-message replay after rebalance". |
| `src/producer.go:390` | A failed round trip rolls its sequence block back although the broker may have appended the batch. If the call then ends in an error (attempts or context used up), the next record of the partition is sent with the same sequence and length, the broker answers it as a duplicate, and ProduceSync reports it stored at the other record's offset. README.md:461 promises "exactly-once per partition, no duplicates or reordering on retry". |
| `src/internal/produce/state.go:60` | RollbackBlock subtracts from a counter another caller has advanced in the meantime, so after a lost reply the retried batch is sent under a sequence the broker has not seen and is stored twice. docs/CAPABILITIES.md:51 says of the idempotent default "No duplicate sequences on retry", README.md:461 "exactly-once per partition, no duplicates or reordering on retry". |
| `src/producer.go:442` | resolvePartition reads the cached leader once per record; when another caller refreshes metadata in between, one partition's records go to two brokers, and the first success fills the result of every record of inputByKey[p], also the ones the old leader refuses. The call returns nil with a record stored nowhere. The comment at src/producer.go:397-398 says it "writes results[idx] for every partition the broker acknowledged"; README.md:461 promises "exactly-once per partition". |
| `src/producer.go:511` | Metadata decoding keeps partitions whose leader is -1, so during an election LeaderNodeID returns -1 and Cluster.Request fails with a non-retriable "unknown node" error. docs/PERFORMANCE.md:65 says "coordinator-not-ready, and leader-epoch changes are retried (default `RetryConfig`: 10 attempts, ~13 s) — enough to ride out a leader election or broker restart." |
| `src/producer.go:308` | Reserving a sequence block and writing the request are not one atomic step, so of two concurrent callers the later block may reach the broker first; it is rejected with OUT_OF_ORDER_SEQUENCE, which is not retriable. docs/PERFORMANCE.md:80 says "reuse `client.Producer()` (it's safe for concurrent use)". |
| `src/transaction.go:206` | SendOffsetsToTxn sends TxnOffsetCommit to the transaction coordinator; the group coordinator serves it, so whenever the two are different brokers the call gets NOT_COORDINATOR until its attempts end. README.md:480 says "`SendOffsetsToTxn` folds the output records **and** the consumed input offsets into one atomic transaction". |
| `src/transaction.go:60` | Under TV2 BeginTransaction reuses the cached epoch and does not invalidate it, so after a handle was dropped without Commit or Abort the next transaction runs under the same epoch. The comment at src/transaction.go:32 says "GoKafka re-initializes the producer id on each BeginTransaction, so it always acquires a fresh, valid epoch without EndTxn v5 epoch adoption". |
| `src/transaction.go:276` | ensurePartitions enters a partition in registered before the next record is resolved, and returns without removing it when that record's leader is unknown; no AddPartitionsToTxn is sent, and the next call skips it. The comment at src/transaction.go:129 says the freeze is there "so the partition AddPartitionsToTxn registers is exactly the one the send uses". |
| `src/internal/protocol/fetch.go:436` | "the list is ordered by first offset" is assumed of the broker and not established; an entry out of order delays the ones behind it, and records of an aborted transaction are delivered. `FetchPath` assumes the order. |
| `src/internal/wire/buffer.go` | ReadUvarint refuses a fifth byte above 1, so a zigzag value of 2^28 or more that WriteVarint wrote (a timestamp delta of some three days) cannot be read back. README.md:106 lists "Record headers and timestamps". |
| `src/internal/protocol/group_assign.go:137` | The sticky assignor counts per topic, so the first member gets the remainder of every topic. |
| `src/internal/broker/cluster.go:334` | Request lowers the version of the header and not the body it was given. A site that is pinned to a version, or raises the negotiated one to a minimum, therefore sends that body under a lower header to a broker that does not support it: TxnOffsetCommit v3 under 1 or 2 (src/transaction.go:202), DescribeGroups v5 under 1 to 4, ListGroups v2 under 1. requestAny refuses only an API that is not advertised at all, so the operations of Admin among these are sent, and so are versions for which their code has no proper form (DeleteTopics 1 to 3, DescribeLogDirs 1, the quotas' 0). A negotiated version of 0 is not honoured at all: the clamp wants a positive one. src/admin.go:20-23 says of an unsupported API that the operation fails with a "clear error instead of letting the broker reset the connection". Versions are negotiated once, with one seed broker. |
| `src/admin_acl.go:66` | The body of DeleteACLs has another form than its header announces. The elements of Produce's record errors and ShareGroupDescribe's assignments are read without their tags. `protocol` leaves out DeleteACLs and the form of these two answers. Further differences that `BodiesHaveTheirForm` does not reach, because no supported version meets them or because they are fields and not forms: the response of DeleteTopics has no topic id, per-topic tags are missing in flexible ListOffsets and OffsetDelete, and delegation-token and reassignment responses are read without their last tags. |
| `src/admin.go`, `src/admin_offsets.go` | ListConsumerGroups asks one broker and ignores the error code of its answer; DescribeGroups and OffsetDelete go to any broker, not to the coordinator; FetchOffsets discards the group's error code; RequestAny sends a request again whose answer was lost, so that CreateTopics reports "exists". |
| `src/share_consumer.go:153` | An implicit acceptance is forgotten before its acknowledgement succeeded. A Poll that copies the assignment while the heartbeat goroutine has cleared it fetches nothing (168), and a change of leader never reaches the assignment. The decoder returns every record of a fetched batch, acquired or not, so that an implicit acknowledgement may name records of another member; the leader refuses it and the Poll fails. Error codes of partitions are wrapped as text, so that Poll's branch for NOT_LEADER (204-208) sees those of the whole answer only. |
| `src/consumer848.go:238` | Of two goroutines that send heartbeats one reports partitions it read before the other's join was applied; a member whose answer with the assignment was lost joins with a positive epoch and no subscription (CHANGELOG.md:539). The assignment in the answer to a later heartbeat is not applied (170): a member reads on what it was granted at its join until it is fenced. |

## Not modelled

* Compression codecs (`internal/compress`): transformations of bytes without state or concurrency; useful sizes are
  out of TLC's reach.
* Authentication (`internal/auth`): exchanges whose point is cryptographic.
* Schema registry and serdes (`schema`, `internal/avro`, `internal/schema`): an HTTP client with a cache and encodings
  of payloads, independent of the messaging core.
* Partitioners (`partitioner.go`): hashing and counters. The producer's model lets any partition be picked.
* The client handle, configuration, observability: static values, a closed flag that acts in the connection pool, and
  output nothing reads.
* The values in requests and responses, and how decoders reject malformed ones: the layouts are modelled, and the error
  codes where they steer a caller. The repository's golden and fuzz tests cover the bytes.
* The group handlers of kfake beyond their layouts: they keep one member and overwrite its state unconditionally.
* Static group membership, rack awareness, time.
