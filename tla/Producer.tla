------------------------------ MODULE Producer ------------------------------
(***************************************************************************)
(* The synchronous producer: Producer.ProduceSyncResult and everything it  *)
(* calls, run by several goroutines (Callers) that share one Producer and  *)
(* therefore one producer id and one table of sequence numbers             *)
(* (Client.Producer hands out a single shared instance).                   *)
(*                                                                         *)
(* One call goes through                                                   *)
(*   Produce -> EnsureProducerID -> (BeginAttempt -> ResolvePartition* ->  *)
(*   ReserveBlock* -> StartFanOut -> Send/Receive per broker -> Collect -> *)
(*   RollbackBlock* -> FinishAttempt -> Backoff)*                          *)
(* The broker side (Handle, LeaderMoves) is external: it is modelled from  *)
(* the protocol the code relies on, namely deduplication by producer id    *)
(* and sequence number, NOT_LEADER for a stale route, OUT_OF_ORDER for a   *)
(* gap.                                                                    *)
(*                                                                         *)
(* Sequence numbers are int32 in the code; the model's bounds keep them    *)
(* far below 2^31, so they are naturals here.                              *)
(***************************************************************************)
EXTENDS Integers, FiniteSets

CONSTANTS
    Callers,      \* goroutines calling ProduceSyncResult on the shared producer
    Partitions,   \* topic partitions
    Brokers,      \* node ids
    NoLeader,     \* node id -1: metadata knows the partition but no leader
    Missing,      \* metadata has no entry for the partition
    None,         \* "no value yet"
    Idempotent,   \* ProducerConfig.Idempotent
    Faults,       \* which failures the network and the brokers may show
    MetaFaults,   \* subset of {NoLeader, Missing}: what a refresh may report
    StopOnError,  \* the application drops the producer after an error
    MaxAttempts,  \* RetryConfig.MaxAttempts
    MaxCalls,     \* bound: calls per caller
    MaxRecords,   \* bound: records per call
    MaxMoves,     \* bound: leader elections in a behaviour
    LogStart      \* offset of the first record this producer appends

(* lostRequest: the request fails before the broker sees it;               *)
(* lostReply:   the broker handled it, the client's read fails;            *)
(* lateRequest: the client gave up on it, the broker handles it later;     *)
(* afterAppend: appended, but answered with a retriable code               *)
(*              (REQUEST_TIMED_OUT, NOT_ENOUGH_REPLICAS_AFTER_APPEND);     *)
(* refused:     not appended, retriable code (NOT_ENOUGH_REPLICAS);        *)
(* undecodable: the request fails with an error IsRetriable rejects        *)
(*              (encoding, oversized or undecodable response).             *)
FaultKinds == {"lostRequest", "lostReply", "lateRequest", "afterAppend", "refused", "undecodable"}

ASSUME ConstantsAssumption ==
    /\ IsFiniteSet(Callers) /\ IsFiniteSet(Partitions) /\ IsFiniteSet(Brokers)
    /\ NoLeader \notin Brokers /\ Missing \notin Brokers \cup {NoLeader}
    /\ None \notin Brokers \cup {NoLeader, Missing} /\ None \notin Partitions /\ None \notin Nat
    /\ Idempotent \in BOOLEAN /\ StopOnError \in BOOLEAN
    /\ Faults \subseteq FaultKinds /\ MetaFaults \subseteq {NoLeader, Missing}
    /\ MaxAttempts \in Nat \ {0} /\ MaxCalls \in Nat /\ MaxRecords \in Nat \ {0}
    /\ MaxMoves \in Nat /\ LogStart \in Nat

Idx == 1 .. MaxRecords
Nodes == Brokers \cup {NoLeader}

(* The k-th call of caller c sends records <<c, k, 1>>, <<c, k, 2>>, ...   *)
Records == Callers \X Nat \X Idx

VARIABLES
    \* the shared Producer
    pidReady,     \* Producer.pidReady
    sequences,    \* produce.State.sequences, by partition
    \* Cluster metadata, as the client caches it
    meta,         \* leaderIndex: Partitions -> Nodes, or Missing
    \* one ProduceSyncResult call per caller
    pc, calls, size, attempt,
    frozen,       \* partition of each record, None until freezePartitions
    acked,        \* acked[i], the indices already acknowledged
    route,        \* leader each pending record was resolved to in this attempt
    cursor,       \* seqCursor: next sequence of a reserved block, None if none
    request,      \* per node: "none", "todo", "waiting" or "done"
    got,          \* results[i].Offset written by produceToBroker in this attempt
    failed,       \* partitions markFailed has collected
    err,          \* sendErr: "none", "retriable" or "fatal"
    \* the brokers and the network
    leader, moves, log, leo, nextSeq, appended, net, replies,
    \* history: every acknowledgement handed to the application
    delivered

producerVars == <<pidReady, sequences>>
callVars == <<calls, size>>
attemptVars == <<route, cursor, request, got, failed, err>>
brokerVars == <<log, leo, nextSeq, appended>>
netVars == <<net, replies>>
vars == <<pidReady, sequences, meta, pc, calls, size, attempt, frozen, acked,
          route, cursor, request, got, failed, err,
          leader, moves, log, leo, nextSeq, appended, net, replies, delivered>>

Returned == {"idle", "ok", "error"}

-----------------------------------------------------------------------------
(* Pure helpers of the send path.                                          *)

(* Grouping that loses the order of the records.                           *)
RankReversed(S, i) == Cardinality({j \in S : j > i})

(* Position of i among the members of S: groupByPartition keeps the order. *)
Rank(S, i) == Cardinality({j \in S : j < i})

(* A retry of the whole call (the behaviour before 0.26.27).               *)
PendingRecordsAll(c) == 1 .. size[c]

(* pendingRecords: the records of the call no broker has acknowledged yet. *)
PendingRecords(c) == {i \in 1 .. size[c] : i \notin acked[c]}

(* inputByKey[p]: the pending records of partition p, in index order.      *)
InputByKey(c, p) == {i \in PendingRecords(c) : frozen[c][i] = p}

(* The partitions that get a batch in this attempt (partBatches).          *)
PartBatches(c) == {p \in Partitions : InputByKey(c, p) # {}}

(* byBroker[n], one partition's share of it: a partition whose records     *)
(* resolved to two leaders has a share at both.                            *)
SentTo(c, n, p) == {i \in InputByKey(c, p) : route[c][i] = n}
BrokerPartKeys(c, n) == {p \in Partitions : SentTo(c, n, p) # {}}

(* One sequence per batch (the behaviour before 0.26.23).                  *)
BlockLengthOne(c, p) == 1

(* The sequence block of a batch is as long as the batch.                  *)
BlockLength(c, p) == Cardinality(InputByKey(c, p))

(* markFailed: a fatal error wins over a retriable one.                    *)
WorseError(e, f) == IF "fatal" \in {e, f} THEN "fatal"
                    ELSE IF "retriable" \in {e, f} THEN "retriable" ELSE "none"

(* How a failed round trip is classified by IsRetriable.                   *)
RoundTripErrors == {"retriable"} \cup (IF "undecodable" \in Faults THEN {"fatal"} ELSE {})

(* What a metadata refresh may leave in leaderIndex.                       *)
Refreshed == {m \in [Partitions -> Nodes \cup {Missing}] :
                \A p \in Partitions : m[p] \in {leader[p]} \cup MetaFaults}

-----------------------------------------------------------------------------
Init ==
    /\ pidReady = FALSE
    /\ sequences = [p \in Partitions |-> 0]
    /\ leader \in [Partitions -> Brokers]
    /\ meta = leader
    /\ pc = [c \in Callers |-> "idle"]
    /\ calls = [c \in Callers |-> 0]
    /\ size = [c \in Callers |-> 0]
    /\ attempt = [c \in Callers |-> 0]
    /\ frozen = [c \in Callers |-> [i \in Idx |-> None]]
    /\ acked = [c \in Callers |-> {}]
    /\ route = [c \in Callers |-> [i \in Idx |-> None]]
    /\ cursor = [c \in Callers |-> [p \in Partitions |-> None]]
    /\ request = [c \in Callers |-> [n \in Nodes |-> "none"]]
    /\ got = [c \in Callers |-> [i \in Idx |-> None]]
    /\ failed = [c \in Callers |-> {}]
    /\ err = [c \in Callers |-> "none"]
    /\ moves = 0
    /\ log = [p \in Partitions |-> {}]
    /\ leo = [p \in Partitions |-> LogStart]
    /\ nextSeq = [p \in Partitions |-> 0]
    /\ appended = [p \in Partitions |-> {}]
    /\ net = {}
    /\ replies = {}
    /\ delivered = {}

-----------------------------------------------------------------------------
(* The caller's side.                                                      *)

(* ProduceSyncResult is called with n records.  (A closed client returns   *)
(* ErrClosed here and an empty call returns nil: both change nothing.)     *)
Produce(c) ==
    /\ pc[c] \in Returned
    /\ calls[c] < MaxCalls
    /\ StopOnError => \A d \in Callers : pc[d] # "error"
    /\ \E n \in Idx : size' = [size EXCEPT ![c] = n]
    /\ calls' = [calls EXCEPT ![c] = @ + 1]
    /\ attempt' = [attempt EXCEPT ![c] = 0]
    /\ frozen' = [frozen EXCEPT ![c] = [i \in Idx |-> None]]
    /\ acked' = [acked EXCEPT ![c] = {}]
    /\ pc' = [pc EXCEPT ![c] = "init"]
    /\ UNCHANGED <<producerVars, meta, attemptVars, leader, moves, brokerVars, netVars, delivered>>

(* ensureProducerID runs under pidMu: only the first caller asks for a     *)
(* producer id; a failed InitProducerID leaves pidReady false.             *)
EnsureProducerID(c) ==
    /\ pc[c] = "init"
    /\ \/ /\ ~Idempotent \/ pidReady
          /\ pc' = [pc EXCEPT ![c] = "attempt"]
          /\ UNCHANGED producerVars
       \/ /\ Idempotent /\ ~pidReady
          /\ pidReady' = TRUE
          /\ sequences' = [p \in Partitions |-> 0]
          /\ pc' = [pc EXCEPT ![c] = "attempt"]
       \/ /\ Idempotent /\ ~pidReady
          /\ pc' = [pc EXCEPT ![c] = "error"]
          /\ UNCHANGED producerVars
    /\ UNCHANGED <<meta, callVars, attempt, frozen, acked, attemptVars, leader, moves,
                   brokerVars, netVars, delivered>>

(* The partitioner runs again on a retry (the behaviour before 0.26.25).   *)
FreezePartitionsAgain(c) ==
    \E f \in [1 .. size[c] -> Partitions] :
        frozen' = [frozen EXCEPT ![c] =
                     [i \in Idx |-> IF i \in 1 .. size[c] THEN f[i] ELSE None]]

(* freezePartitions: the first attempt fixes every record's partition (the *)
(* partitioner, or the record's own Partition, may pick any); later        *)
(* attempts reuse the choice.                                              *)
FreezePartitions(c) ==
    IF frozen[c][1] # None
    THEN UNCHANGED frozen
    ELSE \E f \in [1 .. size[c] -> Partitions] :
            frozen' = [frozen EXCEPT ![c] =
                         [i \in Idx |-> IF i \in 1 .. size[c] THEN f[i] ELSE None]]

(* An attempt that fails before sendOnce: RefreshIfStale or the freeze     *)
(* returned an error.                                                      *)
AttemptRefused(c) ==
    \E e \in {"retriable", "fatal"} :
        pc' = [pc EXCEPT ![c] =
                 IF e = "retriable" /\ attempt[c] + 1 < MaxAttempts THEN "backoff" ELSE "error"]

(* One turn of the retryRetriable loop begins: RefreshIfStale (the cached  *)
(* metadata is fresh, or is reloaded, or cannot be) and the freeze.        *)
BeginAttempt(c) ==
    /\ pc[c] = "attempt"
    /\ attempt' = [attempt EXCEPT ![c] = @ + 1]
    /\ route' = [route EXCEPT ![c] = [i \in Idx |-> None]]
    /\ cursor' = [cursor EXCEPT ![c] = [p \in Partitions |-> None]]
    /\ request' = [request EXCEPT ![c] = [n \in Nodes |-> "none"]]
    /\ got' = [got EXCEPT ![c] = [i \in Idx |-> None]]
    /\ failed' = [failed EXCEPT ![c] = {}]
    /\ err' = [err EXCEPT ![c] = "none"]
    /\ \/ /\ meta' \in {meta} \cup Refreshed
          /\ FreezePartitions(c)
          /\ pc' = [pc EXCEPT ![c] = IF PendingRecords(c) = {} THEN "reserve" ELSE "resolve"]
       \/ /\ AttemptRefused(c)
          /\ UNCHANGED <<meta, frozen>>
    /\ UNCHANGED <<producerVars, callVars, acked, leader, moves, brokerVars, netVars, delivered>>

(* resolvePartition of the next pending record, which reads the cached     *)
(* metadata anew: a partition without an entry ends the attempt with       *)
(* LEADER_NOT_AVAILABLE before anything is reserved.                       *)
ResolvePartition(c) ==
    /\ pc[c] = "resolve"
    /\ \E i \in PendingRecords(c) :
        /\ route[c][i] = None
        /\ \A j \in PendingRecords(c) : j < i => route[c][j] # None
        /\ IF meta[frozen[c][i]] = Missing
           THEN /\ err' = [err EXCEPT ![c] = "retriable"]
                /\ pc' = [pc EXCEPT ![c] = "finish"]
                /\ UNCHANGED route
           ELSE /\ route' = [route EXCEPT ![c][i] = meta[frozen[c][i]]]
                /\ pc' = [pc EXCEPT ![c] =
                            IF \E j \in PendingRecords(c) : j > i THEN "resolve" ELSE "reserve"]
                /\ UNCHANGED err
    /\ UNCHANGED <<producerVars, meta, callVars, attempt, frozen, acked, cursor, request, got,
                   failed, leader, moves, brokerVars, netVars, delivered>>

(* State.ReserveBlock: one block per partition, as long as the batch.      *)
ReserveBlock(c, p) ==
    /\ pc[c] = "reserve"
    /\ Idempotent
    /\ p \in PartBatches(c)
    /\ cursor[c][p] = None
    /\ cursor' = [cursor EXCEPT ![c][p] = sequences[p]]
    /\ sequences' = [sequences EXCEPT ![p] = @ + BlockLength(c, p)]
    /\ UNCHANGED <<pidReady, meta, pc, callVars, attempt, frozen, acked, route, request, got,
                   failed, err, leader, moves, brokerVars, netVars, delivered>>

(* Every block is reserved: one goroutine per broker starts.               *)
StartFanOut(c) ==
    /\ pc[c] = "reserve"
    /\ Idempotent => \A p \in PartBatches(c) : cursor[c][p] # None
    /\ request' = [request EXCEPT ![c] =
                     [n \in Nodes |-> IF BrokerPartKeys(c, n) # {} THEN "todo" ELSE "none"]]
    /\ pc' = [pc EXCEPT ![c] = "send"]
    /\ UNCHANGED <<producerVars, meta, callVars, attempt, frozen, acked, route, cursor, got,
                   failed, err, leader, moves, brokerVars, netVars, delivered>>

(* EncodeProduceRequest takes one number of seqCursor per batch (nextSeq); *)
(* Cluster.Request writes the frame.  The message carries, per partition,  *)
(* the base sequence and the indices of the records.                       *)
Send(c, b) ==
    /\ pc[c] = "send"
    /\ b \in Brokers
    /\ request[c][b] = "todo"
    /\ net' = net \cup {[c |-> c, k |-> calls[c], a |-> attempt[c], b |-> b,
                         batch |-> [p \in BrokerPartKeys(c, b) |->
                                     [seq |-> cursor[c][p], recs |-> SentTo(c, b, p)]]]}
    /\ cursor' = [cursor EXCEPT ![c] =
                    [p \in Partitions |->
                       IF Idempotent /\ p \in BrokerPartKeys(c, b)
                       THEN cursor[c][p] + 1 ELSE cursor[c][p]]]
    /\ request' = [request EXCEPT ![c][b] = "waiting"]
    /\ UNCHANGED <<producerVars, meta, pc, callVars, attempt, frozen, acked, route, got,
                   failed, err, leader, moves, brokerVars, replies, delivered>>

(* A failed request rolls back the partitions of every broker (before      *)
(* 0.26.27), none at all, or never ends its goroutine.                     *)
RequestFailedAll(c, n, e) ==
    /\ failed' = [failed EXCEPT ![c] = PartBatches(c)]
    /\ err' = [err EXCEPT ![c] = WorseError(@, e)]
    /\ request' = [request EXCEPT ![c][n] = "done"]

(* brokerPartKeys: the whole request failed, so every partition in it did. *)
RequestFailed(c, n, e) ==
    /\ failed' = [failed EXCEPT ![c] = @ \cup BrokerPartKeys(c, n)]
    /\ err' = [err EXCEPT ![c] = WorseError(@, e)]
    /\ request' = [request EXCEPT ![c][n] = "done"]

(* The request never leaves the client: encoding failed or the node is     *)
(* unknown (not retriable: node -1 always is), or the dial or the write    *)
(* failed (retriable).                                                     *)
SendFails(c, n) ==
    /\ pc[c] = "send"
    /\ request[c][n] = "todo"
    /\ \/ n = NoLeader /\ RequestFailed(c, n, "fatal")
       \/ /\ n # NoLeader /\ "lostRequest" \in Faults
          /\ \E e \in RoundTripErrors : RequestFailed(c, n, e)
    /\ UNCHANGED <<producerVars, meta, pc, callVars, attempt, frozen, acked, route, cursor, got,
                   leader, moves, brokerVars, netVars, delivered>>

MyRequest(c, b) == {m \in net : m.c = c /\ m.k = calls[c] /\ m.a = attempt[c] /\ m.b = b}
MyReply(c, b) == {r \in replies : r.c = c /\ r.b = b}

(* The offset of one record of a batch acknowledged at base offset off.    *)
FirstOffset(S, i, off) == off
RecordOffset(S, i, off) == off + Rank(S, i)

(* produceToBroker reads the response: an acknowledged partition fills the *)
(* result of every record of inputByKey[p], a failed one is collected.     *)
Receive(c, b) ==
    /\ pc[c] = "send"
    /\ request[c][b] = "waiting"
    /\ \E r \in MyReply(c, b) :
        LET bad == {p \in DOMAIN r.res : r.res[p].code # "none"}
            codes == {r.res[p].code : p \in bad}
        IN  /\ got' = [got EXCEPT ![c] =
                         [i \in Idx |->
                            IF i \in PendingRecords(c) /\ frozen[c][i] \in DOMAIN r.res \ bad
                            THEN RecordOffset(InputByKey(c, frozen[c][i]), i, r.res[frozen[c][i]].off)
                            ELSE got[c][i]]]
            /\ failed' = [failed EXCEPT ![c] = @ \cup bad]
            /\ err' = [err EXCEPT ![c] =
                         IF "fatal" \in codes THEN "fatal"
                         ELSE IF codes # {} THEN WorseError(@, "retriable") ELSE @]
            /\ replies' = replies \ {r}
    /\ request' = [request EXCEPT ![c][b] = "done"]
    /\ UNCHANGED <<producerVars, meta, pc, callVars, attempt, frozen, acked, route, cursor,
                   leader, moves, brokerVars, net, delivered>>

(* The write or the read of the round trip fails (timeout, EOF, a response *)
(* that does not decode): the client cannot tell whether the broker saw    *)
(* the request.                                                            *)
RequestFails(c, b) ==
    /\ pc[c] = "send"
    /\ b \in Brokers
    /\ request[c][b] = "waiting"
    /\ \/ /\ "lostRequest" \in Faults /\ MyRequest(c, b) # {}
          /\ net' = net \ MyRequest(c, b)
       \/ /\ "lateRequest" \in Faults /\ MyRequest(c, b) # {}
          /\ UNCHANGED net
       \/ /\ "lostReply" \in Faults /\ MyReply(c, b) # {}
          /\ UNCHANGED net
    /\ replies' = replies \ MyReply(c, b)
    /\ \E e \in RoundTripErrors : RequestFailed(c, b, e)
    /\ UNCHANGED <<producerVars, meta, pc, callVars, attempt, frozen, acked, route, cursor, got,
                   leader, moves, brokerVars, delivered>>

(* wg.Wait: every broker's goroutine is done.                              *)
Collect(c) ==
    /\ pc[c] = "send"
    /\ \A n \in Nodes : request[c][n] \in {"none", "done"}
    /\ pc' = [pc EXCEPT ![c] = "rollback"]
    /\ UNCHANGED <<producerVars, meta, callVars, attempt, frozen, acked, attemptVars, leader,
                   moves, brokerVars, netVars, delivered>>

(* RollbackBlock on one entry of the table, which never goes below zero.   *)
RolledBack(s, n) == IF s - n < 0 THEN 0 ELSE s - n

(* rollbackPartitions, one State.RollbackBlock per failed partition.       *)
RollbackBlock(c, p) ==
    /\ pc[c] = "rollback"
    /\ p \in failed[c]
    /\ sequences' = IF Idempotent
                    THEN [sequences EXCEPT ![p] = RolledBack(@, BlockLength(c, p))]
                    ELSE sequences
    /\ failed' = [failed EXCEPT ![c] = @ \ {p}]
    /\ UNCHANGED <<pidReady, meta, pc, callVars, attempt, frozen, acked, route, cursor, request,
                   got, err, leader, moves, brokerVars, netVars, delivered>>

(* mergeAcked, and what retryRetriable makes of the error: success, give   *)
(* up (fatal, or the attempts are used up), or a refresh and another turn. *)
FinishAttempt(c) ==
    /\ \/ pc[c] = "rollback" /\ failed[c] = {}
       \/ pc[c] = "finish"
    /\ LET fresh == {i \in PendingRecords(c) : got[c][i] # None}
       IN  /\ acked' = [acked EXCEPT ![c] = @ \cup fresh]
           /\ delivered' = delivered \cup
                {[rec |-> <<c, calls[c], i>>, part |-> frozen[c][i], off |-> got[c][i]] : i \in fresh}
    /\ \/ /\ err[c] = "none"
          /\ pc' = [pc EXCEPT ![c] = "ok"]
          /\ UNCHANGED meta
       \/ /\ err[c] = "fatal"
          /\ pc' = [pc EXCEPT ![c] = "error"]
          /\ UNCHANGED meta
       \/ /\ err[c] = "retriable"
          /\ meta' \in {meta} \cup Refreshed
          /\ pc' = [pc EXCEPT ![c] = IF attempt[c] < MaxAttempts THEN "backoff" ELSE "error"]
    /\ UNCHANGED <<producerVars, callVars, attempt, frozen, attemptVars, leader, moves,
                   brokerVars, netVars>>

(* The backoff timer fires, or the context ends first.                     *)
Backoff(c) ==
    /\ pc[c] = "backoff"
    /\ pc' \in {[pc EXCEPT ![c] = "attempt"], [pc EXCEPT ![c] = "error"]}
    /\ UNCHANGED <<producerVars, meta, callVars, attempt, frozen, acked, attemptVars, leader,
                   moves, brokerVars, netVars, delivered>>

-----------------------------------------------------------------------------
(* The brokers' side (external).                                           *)

(* A batch the broker still remembers: it keeps the last five per producer.*)
Remembered(p, s, n) == {e \in appended[p] :
    /\ e.seq = s /\ e.n = n
    /\ Cardinality({f \in appended[p] : f.off > e.off}) < 5}

(* The leader of p appends batch m.batch[p] exactly when it may.           *)
Appends(m, refused) == {p \in DOMAIN m.batch :
    /\ p \notin refused
    /\ leader[p] = m.b
    /\ Idempotent => /\ Remembered(p, m.batch[p].seq, Cardinality(m.batch[p].recs)) = {}
                     /\ m.batch[p].seq = nextSeq[p]}

Answer(m, p, app, refused, unsure) ==
    LET n == Cardinality(m.batch[p].recs)
        known == Remembered(p, m.batch[p].seq, n)
    IN  IF p \in app
        THEN IF p \in unsure THEN [code |-> "retriable", off |-> None]
             ELSE [code |-> "none", off |-> leo[p]]
        ELSE IF p \in refused \/ leader[p] # m.b THEN [code |-> "retriable", off |-> None]
        ELSE IF known # {} THEN [code |-> "none", off |-> (CHOOSE e \in known : TRUE).off]
        ELSE [code |-> "fatal", off |-> None]

(* A broker handles a request: appends what it may, answers the client if  *)
(* it still waits on this round trip.                                      *)
Handle(m) ==
    /\ \E refused \in SUBSET (IF "refused" \in Faults THEN DOMAIN m.batch ELSE {}),
          unsure \in SUBSET (IF "afterAppend" \in Faults THEN DOMAIN m.batch ELSE {}) :
        LET app == Appends(m, refused)
            len(p) == Cardinality(m.batch[p].recs)
        IN  /\ unsure \subseteq app
            /\ log' = [p \in Partitions |-> IF p \in app
                 THEN log[p] \cup {[off |-> leo[p] + Rank(m.batch[p].recs, i),
                                    rec |-> <<m.c, m.k, i>>] : i \in m.batch[p].recs}
                 ELSE log[p]]
            /\ leo' = [p \in Partitions |-> IF p \in app THEN leo[p] + len(p) ELSE leo[p]]
            /\ nextSeq' = [p \in Partitions |->
                 IF p \in app /\ Idempotent THEN nextSeq[p] + len(p) ELSE nextSeq[p]]
            /\ appended' = [p \in Partitions |-> IF p \in app /\ Idempotent
                 THEN appended[p] \cup {[seq |-> m.batch[p].seq, n |-> len(p), off |-> leo[p]]}
                 ELSE appended[p]]
            /\ replies' = IF m.k = calls[m.c] /\ m.a = attempt[m.c] /\ request[m.c][m.b] = "waiting"
                 THEN replies \cup {[c |-> m.c, b |-> m.b,
                        res |-> [p \in DOMAIN m.batch |-> Answer(m, p, app, refused, unsure)]]}
                 ELSE replies
    /\ net' = net \ {m}
    /\ UNCHANGED <<producerVars, meta, pc, callVars, attempt, frozen, acked, attemptVars,
                   leader, moves, delivered>>

(* An election moves a partition to another broker; acks=all, so the log   *)
(* and the producer state move with it.                                    *)
LeaderMoves(p) ==
    /\ moves < MaxMoves
    /\ moves' = moves + 1
    /\ \E b \in Brokers \ {leader[p]} : leader' = [leader EXCEPT ![p] = b]
    /\ UNCHANGED <<producerVars, meta, pc, callVars, attempt, frozen, acked, attemptVars,
                   brokerVars, netVars, delivered>>

-----------------------------------------------------------------------------
Step(c) ==
    \/ EnsureProducerID(c) \/ BeginAttempt(c) \/ ResolvePartition(c) \/ StartFanOut(c)
    \/ Collect(c) \/ FinishAttempt(c) \/ Backoff(c)
    \/ \E p \in Partitions : ReserveBlock(c, p) \/ RollbackBlock(c, p)
    \/ \E n \in Nodes : Send(c, n) \/ SendFails(c, n) \/ Receive(c, n) \/ RequestFails(c, n)

Next ==
    \/ \E c \in Callers : Produce(c) \/ Step(c)
    \/ \E m \in net : Handle(m)
    \/ \E p \in Partitions : LeaderMoves(p)

Spec == Init /\ [][Next]_vars

-----------------------------------------------------------------------------
IsMessage(m) ==
    /\ m.c \in Callers /\ m.k \in Nat /\ m.a \in Nat /\ m.b \in Brokers
    /\ DOMAIN m.batch \subseteq Partitions
    /\ \A p \in DOMAIN m.batch :
        m.batch[p].seq \in Nat \cup {None} /\ m.batch[p].recs \in SUBSET Idx
IsReply(r) ==
    /\ r.c \in Callers /\ r.b \in Brokers
    /\ DOMAIN r.res \subseteq Partitions
    /\ \A p \in DOMAIN r.res :
        \/ r.res[p].code \in {"retriable", "fatal"}
        \/ r.res[p].code = "none" /\ r.res[p].off \in Nat

TypeClient ==
    /\ pidReady \in BOOLEAN
    /\ sequences \in [Partitions -> Nat]
    /\ meta \in [Partitions -> Nodes \cup {Missing}]
TypeCall ==
    /\ pc \in [Callers -> Returned \cup {"init", "attempt", "resolve", "reserve", "send",
                                         "rollback", "finish", "backoff"}]
    /\ calls \in [Callers -> Nat]
    /\ size \in [Callers -> 0 .. MaxRecords]
    /\ attempt \in [Callers -> Nat]
    /\ frozen \in [Callers -> [Idx -> Partitions \cup {None}]]
    /\ acked \in [Callers -> SUBSET Idx]
TypeAttempt ==
    /\ route \in [Callers -> [Idx -> Nodes \cup {None}]]
    /\ cursor \in [Callers -> [Partitions -> Nat \cup {None}]]
    /\ request \in [Callers -> [Nodes -> {"none", "todo", "waiting", "done"}]]
    /\ got \in [Callers -> [Idx -> Nat \cup {None}]]
    /\ failed \in [Callers -> SUBSET Partitions]
    /\ err \in [Callers -> {"none", "retriable", "fatal"}]
TypeBroker ==
    /\ leader \in [Partitions -> Brokers]
    /\ moves \in Nat
    /\ log \in [Partitions -> SUBSET [off : Nat, rec : Records]]
    /\ leo \in [Partitions -> Nat]
    /\ nextSeq \in [Partitions -> Nat]
    /\ appended \in [Partitions -> SUBSET [seq : Nat \cup {None}, n : Nat, off : Nat]]
TypeNet ==
    /\ \A m \in net : IsMessage(m)
    /\ \A r \in replies : IsReply(r)
    /\ delivered \subseteq [rec : Records, part : Partitions, off : Nat]

(* Every variable keeps its type; in particular a rollback never takes the *)
(* sequence table below zero and a result is only read where one is.       *)
TypeOK == TypeClient /\ TypeCall /\ TypeAttempt /\ TypeBroker /\ TypeNet

-----------------------------------------------------------------------------
(* What the producer promises.                                             *)

(* A record the application was told is at offset o of partition p is      *)
(* stored there, and a call that returned nil stored every one of its      *)
(* records: a result filled by produceToBroker never names a record the    *)
(* broker took for a duplicate of another one.                             *)
AckedIsStored ==
    /\ \A d \in delivered : [off |-> d.off, rec |-> d.rec] \in log[d.part]
    /\ \A c \in Callers : pc[c] = "ok" =>
          \A i \in 1 .. size[c] : \E p \in DOMAIN log : \E e \in log[p] :
              e.rec = <<c, calls[c], i>>

(* However often a send is retried, a record is stored at most once.       *)
NoDuplicates ==
    \A p, q \in Partitions : \A e \in log[p], f \in log[q] :
        e.rec = f.rec => p = q /\ e = f

(* A retry never moves a record to another partition (freezePartitions).   *)
OnePartitionPerRecord ==
    \A p, q \in Partitions : \A e \in log[p], f \in log[q] :
        e.rec = f.rec => p = q

(* Within a partition a caller's records keep the order it sent them in,   *)
(* across calls and within one.                                            *)
InOrder ==
    \A p \in Partitions : \A e, f \in log[p] :
        /\ e.rec[1] = f.rec[1]
        /\ e.rec[2] < f.rec[2] \/ (e.rec[2] = f.rec[2] /\ e.rec[3] < f.rec[3])
        => e.off < f.off

(* Once nobody holds a reserved block, the client's table agrees with the  *)
(* brokers' next expected sequence.                                        *)
HoldsBlock(c) == pc[c] \in {"reserve", "send", "rollback"}
SequencesAgree ==
    (Idempotent /\ \A c \in Callers : ~HoldsBlock(c)) => sequences = nextSeq
=============================================================================
