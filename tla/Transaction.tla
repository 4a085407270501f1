----------------------------- MODULE Transaction -----------------------------
(***************************************************************************)
(* The transactional producer (transaction.go): BeginTransaction,          *)
(* ProduceWithinTxn, SendOffsetsToTxn, Commit and Abort, for one client    *)
(* whose application works through the transactions 1, 2, ... of one       *)
(* transactional id.  The transaction coordinator, the partition leaders   *)
(* and the group coordinator are external.                                 *)
(*                                                                         *)
(* The handle's mutex allows one API call at a time; a produce call has    *)
(* one request per partition in flight, every other call has one.  A       *)
(* request the client gave up on may still be handled later (late).  A     *)
(* produce call carries one record for each of its partitions: how a call  *)
(* splits records into batches is the subject of Producer.                 *)
(***************************************************************************)
EXTENDS Integers

CONSTANTS
    Partitions,     \* data partitions
    Offsets,        \* the consumer group's offsets, the other participant
    Brokers,        \* possible coordinators
    None,
    TV2,            \* transaction.version >= 2 (KIP-890)
    Faults,         \* subset of FaultKinds
    AbortOnError,   \* the application only aborts once a call has failed
    Abandon,        \* the application may begin anew without Commit or Abort
    MaxTxns,        \* bound: BeginTransaction calls
    MaxCalls,       \* bound: produce and offset calls in a transaction
    MaxEnds,        \* bound: further Commit and Abort calls
    MaxAttempts,    \* attempts of retryRetriable
    MaxDisturbances \* bound: faults altogether

(* lostRequest, lostReply, lateRequest: a request does not arrive, its     *)
(* answer does not, or it arrives after the client gave up on it;          *)
(* busy: a broker answers with a retriable code;                           *)
(* noLeader: the cached metadata has no leader for a partition;            *)
(* move: the transaction coordinator moves to another broker;              *)
(* rival: another instance of the transactional id initialises;            *)
(* timeout: the coordinator aborts a transaction that took too long;       *)
(* crash: the client process dies and restarts.                            *)
FaultKinds == {"lostRequest", "lostReply", "lateRequest", "busy", "noLeader",
               "move", "rival", "timeout", "crash"}

ASSUME ConstantsAssumption ==
    /\ Offsets \notin Partitions /\ None \notin Nat
    /\ {TV2, AbortOnError, Abandon} \subseteq BOOLEAN
    /\ Faults \subseteq FaultKinds
    /\ {MaxTxns, MaxCalls, MaxEnds, MaxDisturbances} \subseteq Nat
    /\ MaxAttempts \in Nat \ {0}

Txns == 1 .. MaxTxns

VARIABLES
    cache,        \* Producer.txnPID's epoch while txnPIDValid, else None
    txn,          \* number of the current TransactionalProducer
    open, epoch, seqs, registered, coordinator,   \* its fields
    count,        \* API calls made on it
    broken,       \* a produce or offsets call on it failed
    endFailed,    \* a Commit or Abort on it failed
    call,         \* the API call in progress with what its requests got, or None
    late,         \* requests the client gave up on, still on their way
    txnCoordinator, groupCoordinator,             \* brokers
    cEpoch, cState, cParts,   \* the coordinator's entry for the transactional id
    pState,       \* per partition: the producer's epoch and next sequence
    undecided, committed, aborted,   \* stored records <<txn, call, place>>
    disturbances,
    acked,        \* history: records and offsets whose call acknowledged them
    ended,        \* history: what Commit or Abort reported, per transaction
    epochOf,      \* history: the epoch BeginTransaction gave each transaction
    commitCalled  \* history: transactions whose Commit was called

handleVars == <<txn, open, epoch, seqs, registered, coordinator, count, broken, endFailed>>
clientVars == <<cache, handleVars>>
placeVars == <<txnCoordinator, groupCoordinator>>
outcomeVars == <<undecided, committed, aborted>>
brokerVars == <<cEpoch, cState, cParts, pState, outcomeVars>>
historyVars == <<acked, ended, epochOf, commitCalled>>
vars == <<clientVars, call, late, placeVars, brokerVars, disturbances, historyVars>>

Init ==
    /\ cache = None
    /\ txn = 0 /\ open = FALSE /\ epoch = 0 /\ seqs = [p \in Partitions |-> 0]
    /\ registered = {} /\ count = 0 /\ broken = FALSE /\ endFailed = FALSE
    /\ call = None /\ late = {}
    /\ txnCoordinator \in Brokers /\ groupCoordinator \in Brokers
    /\ coordinator = txnCoordinator
    /\ cEpoch = 0 /\ cState = "Empty" /\ cParts = {}
    /\ pState = [p \in Partitions |-> [epoch |-> 0, next |-> 0]]
    /\ undecided = {} /\ committed = {} /\ aborted = {}
    /\ disturbances = 0
    /\ acked = {} /\ commitCalled = {}
    /\ ended = [t \in Txns |-> "none"] /\ epochOf = [t \in Txns |-> None]

-----------------------------------------------------------------------------
(* Requests.                                                               *)
Pending == [code |-> "pending", epoch |-> None]

(* One request of attempt a of the n-th call of transaction t.             *)
Message(t, n, a, kind, e, places, seq, commit, target) ==
    [txn |-> t, call |-> n, attempt |-> a, kind |-> kind, epoch |-> e,
     places |-> places, seq |-> seq, commit |-> commit, target |-> target]

(* sendRecords: one request per partition, with the next sequence.         *)
ProduceRequests(n, a, ps) ==
    {Message(txn, n, a, "produce", epoch, {p}, seqs[p], FALSE, None) : p \in ps}

(* txnCoordRequest and endTxn: one request, to the handle's coordinator.   *)
CoordinatorRequest(n, a, kind, places, commit, target) ==
    {Message(txn, n, a, kind, epoch, places, 0, commit, target)}

(* ps: the partitions the call produces to (empty for the other calls).    *)
Call(kind, n, a, ps, requests) ==
    [kind |-> kind, n |-> n, attempt |-> a, ps |-> ps,
     got |-> [q \in requests |-> Pending]]

Idle == call = None
Got(code) == {q \in DOMAIN call.got : call.got[q].code = code}
Answered == ~Idle /\ Got("pending") = {}
AllOk == Answered /\ Got("ok") = DOMAIN call.got
TheRequest == CHOOSE q \in DOMAIN call.got : TRUE

Disturb(kind) ==
    /\ kind \in Faults /\ disturbances < MaxDisturbances
    /\ disturbances' = disturbances + 1

-----------------------------------------------------------------------------
(* BeginTransaction.                                                       *)

(* A new handle; under TV2 a cached producer id is reused, otherwise init  *)
(* asks the coordinator for an epoch.                                      *)
ReuseCached == TV2 /\ cache # None

Begin ==
    /\ Idle /\ txn < MaxTxns
    /\ ~open \/ endFailed \/ Abandon
    /\ txn' = txn + 1
    /\ seqs' = [p \in Partitions |-> 0]
    /\ registered' = {} /\ count' = 0 /\ broken' = FALSE /\ endFailed' = FALSE
    /\ coordinator' = txnCoordinator
    /\ open' = ReuseCached
    /\ \/ /\ ReuseCached
          /\ epoch' = cache
          /\ epochOf' = [epochOf EXCEPT ![txn + 1] = cache]
          /\ UNCHANGED call
       \/ /\ ~ReuseCached
          /\ call' = Call("init", 0, 1, {},
                          {Message(txn + 1, 0, 1, "init", 0, {}, 0, FALSE, txnCoordinator)})
          /\ UNCHANGED <<epoch, epochOf>>
    /\ UNCHANGED <<cache, late, placeVars, brokerVars, disturbances, acked, ended, commitCalled>>

InitDone ==
    /\ AllOk /\ call.kind = "init"
    /\ epoch' = call.got[TheRequest].epoch /\ open' = TRUE
    /\ epochOf' = [epochOf EXCEPT ![txn] = epoch']
    /\ call' = None
    /\ UNCHANGED <<cache, txn, seqs, registered, coordinator, count, broken, endFailed, late,
                   placeVars, brokerVars, disturbances, acked, ended, commitCalled>>

-----------------------------------------------------------------------------
(* ProduceWithinTxn and SendOffsetsToTxn.                                  *)
(* Every call on the handle checks open first; the mutant does not.        *)
UsableClosed == Idle /\ txn > 0
Usable == Idle /\ open

MayWork == Usable /\ ~(AbortOnError /\ (broken \/ endFailed)) /\ count < MaxCalls

(* ensurePartitions: under TV2 the leader registers a partition itself.    *)
ToRegister(ps) == IF TV2 THEN {} ELSE ps \ registered

ProduceWithinTxn(ps) ==
    LET new == ToRegister(ps)
        n == count + 1
    IN  /\ MayWork
        /\ count' = n
        /\ registered' = registered \cup new
        /\ call' = IF new = {}
                   THEN Call("produce", n, 1, ps, ProduceRequests(n, 1, ps))
                   ELSE Call("add", n, 1, ps,
                             CoordinatorRequest(n, 1, "add", new, FALSE, coordinator))
        /\ UNCHANGED <<cache, txn, open, epoch, seqs, coordinator, broken, endFailed, late,
                       placeVars, brokerVars, disturbances, historyVars>>

(* ensurePartitions returns at the first record whose leader is unknown;   *)
(* the partitions before it stay in registered.                            *)
ProduceUnresolved(before) ==
    /\ MayWork /\ ~TV2
    /\ Disturb("noLeader")
    /\ count' = count + 1
    /\ registered' = registered \cup before
    /\ broken' = TRUE
    /\ UNCHANGED <<cache, txn, open, epoch, seqs, coordinator, endFailed, call, late, placeVars,
                   brokerVars, historyVars>>

SendOffsetsToTxn ==
    LET kind == IF Offsets \in registered THEN "offsets" ELSE "add"
        n == count + 1
    IN  /\ MayWork
        /\ count' = n
        /\ call' = Call(kind, n, 1, {},
                        CoordinatorRequest(n, 1, kind, {Offsets}, FALSE, coordinator))
        /\ UNCHANGED <<cache, txn, open, epoch, seqs, registered, coordinator, broken,
                       endFailed, late, placeVars, brokerVars, disturbances, historyVars>>

(* AddPartitionsToTxn or AddOffsetsToTxn succeeded: the data follows.      *)
AddDone ==
    /\ AllOk /\ call.kind = "add"
    /\ registered' = registered \cup TheRequest.places
    /\ call' = IF call.ps = {}
               THEN Call("offsets", call.n, 1, {},
                         CoordinatorRequest(call.n, 1, "offsets", {Offsets}, FALSE, coordinator))
               ELSE Call("produce", call.n, 1, call.ps, ProduceRequests(call.n, 1, call.ps))
    /\ UNCHANGED <<cache, txn, open, epoch, seqs, coordinator, count, broken, endFailed, late,
                   placeVars, brokerVars, disturbances, historyVars>>

(* What a data request stores.                                             *)
Records(q) == {<<q.txn, q.call, pl>> : pl \in q.places}
IsData == call.kind \in {"produce", "offsets"}

(* A partition keeps its sequence block only when it was acknowledged; the *)
(* blocks of failed partitions are rolled back.                            *)
SeqsAfterNone == seqs
SeqsAfter ==
    [p \in Partitions |->
        IF call.kind = "produce" /\ \E q \in Got("ok") : q.places = {p}
        THEN seqs[p] + 1 ELSE seqs[p]]
AckedAfter == acked \cup (IF IsData THEN UNION {Records(q) : q \in Got("ok")} ELSE {})

DataDone ==
    /\ AllOk /\ IsData
    /\ acked' = AckedAfter
    /\ seqs' = SeqsAfter
    /\ call' = None
    /\ UNCHANGED <<cache, txn, open, epoch, registered, coordinator, count, broken, endFailed,
                   late, placeVars, brokerVars, disturbances, ended, epochOf, commitCalled>>

-----------------------------------------------------------------------------
(* Commit and Abort.                                                       *)
CommitFlagLost(commit) == TRUE
CommitFlag(commit) == commit

EndTxn(commit) ==
    LET n == count + 1
    IN  /\ Usable /\ count < MaxCalls + MaxEnds
        /\ AbortOnError /\ (broken \/ endFailed) => ~commit
        /\ count' = n
        /\ call' = Call(IF commit THEN "commit" ELSE "abort", n, 1, {},
                        CoordinatorRequest(n, 1, "end", {}, CommitFlag(commit), coordinator))
        /\ commitCalled' = IF commit THEN commitCalled \cup {txn} ELSE commitCalled
        /\ UNCHANGED <<cache, txn, open, epoch, seqs, registered, coordinator, broken,
                       endFailed, late, placeVars, brokerVars, disturbances, acked, ended,
                       epochOf>>

IsEnd == call.kind \in {"commit", "abort"}

(* Under TV2 the handle adopts the bumped epoch, which is cached for the   *)
(* next BeginTransaction; otherwise the cache is cleared.                  *)
CacheAfterEnd == IF TV2 THEN call.got[TheRequest].epoch ELSE None

EndDone ==
    /\ AllOk /\ IsEnd
    /\ open' = FALSE
    /\ cache' = CacheAfterEnd
    /\ epoch' = IF TV2 THEN call.got[TheRequest].epoch ELSE epoch
    /\ ended' = [ended EXCEPT ![txn] = IF call.kind = "commit" THEN "committed" ELSE "aborted"]
    /\ call' = None
    /\ UNCHANGED <<txn, seqs, registered, coordinator, count, broken, endFailed, late, placeVars,
                   brokerVars, disturbances, acked, epochOf, commitCalled>>

-----------------------------------------------------------------------------
(* Failed attempts.                                                        *)
RetriableCodes == {"lost", "busy", "notCoordinator"}
Failed == {q \in DOMAIN call.got : call.got[q].code # "ok"}
MayRetry == \A q \in Failed : call.got[q].code \in RetriableCodes

(* A coordinator-retriable code looks the coordinator up again at once;    *)
(* init looks it up before every attempt.                                  *)
CoordinatorAfter ==
    IF Got("notCoordinator") # {} \/ call.kind = "init" THEN txnCoordinator ELSE coordinator

(* retryRetriable counts its attempts; one mutant forgets to, the other    *)
(* runs one attempt too many.                                              *)
NextAttempt == call.attempt + 1
AttemptsLeft == call.attempt < MaxAttempts

(* The failed requests are sent again: for a produce call those of the     *)
(* partitions not yet acknowledged, with the sequences rolled back to.     *)
Again(q) == [q EXCEPT !.attempt = NextAttempt,
                      !.target = IF call.kind = "produce" THEN None ELSE CoordinatorAfter]

Retry ==
    /\ Answered /\ Failed # {} /\ MayRetry /\ AttemptsLeft
    /\ acked' = AckedAfter
    /\ seqs' = SeqsAfter
    /\ coordinator' = CoordinatorAfter
    /\ call' = [call EXCEPT !.attempt = NextAttempt,
                            !.got = [q \in {Again(f) : f \in Failed} |-> Pending]]
    /\ UNCHANGED <<cache, txn, open, epoch, registered, count, broken, endFailed, late,
                   placeVars, brokerVars, disturbances, ended, epochOf, commitCalled>>

(* The call returns an error: a fatal code, the attempts used up, or the   *)
(* caller's context done.  A failed AddPartitionsToTxn is forgotten; a     *)
(* failed endTxn drops the cached producer id and leaves the handle open.  *)
RegisteredAfterFailKept == registered
RegisteredAfterFail ==
    IF call.kind = "add" THEN registered \ TheRequest.places ELSE registered
CacheAfterFailKept == cache
CacheAfterFail == IF IsEnd THEN None ELSE cache

CallFails ==
    /\ Answered /\ Failed # {}
    /\ acked' = AckedAfter
    /\ seqs' = SeqsAfter
    /\ coordinator' = CoordinatorAfter
    /\ registered' = RegisteredAfterFail
    /\ cache' = CacheAfterFail
    /\ endFailed' = (endFailed \/ IsEnd)
    /\ broken' = (broken \/ ~(IsEnd \/ call.kind = "init"))
    /\ call' = None
    /\ UNCHANGED <<txn, open, epoch, count, late, placeVars, brokerVars, disturbances, ended,
                   epochOf, commitCalled>>

-----------------------------------------------------------------------------
(* The brokers (external).                                                 *)
Answer(q, code, e) ==
    /\ call' = IF ~Idle /\ q \in Got("pending")
               THEN [call EXCEPT !.got[q] = [code |-> code, epoch |-> e]] ELSE call
    /\ late' = late \ {q}

(* The markers decide the records of the transaction's participants.       *)
Decide(commit) ==
    LET mine == {x \in undecided : x[3] \in cParts}
    IN  /\ undecided' = undecided \ mine
        /\ committed' = IF commit THEN committed \cup mine ELSE committed
        /\ aborted' = IF commit THEN aborted ELSE aborted \cup mine

(* InitProducerId and the coordinator's timeout: abort and a new epoch.    *)
AbortAndFence ==
    /\ Decide(FALSE)
    /\ cEpoch' = cEpoch + 1 /\ cState' = "Empty" /\ cParts' = {}

HandleInit(q) ==
    /\ q.kind = "init"
    /\ AbortAndFence
    /\ Answer(q, "ok", cEpoch')
    /\ UNCHANGED pState

Participate(places) ==
    /\ cState' = "Ongoing"
    /\ cParts' = cParts \cup places

HandleAdd(q) ==
    /\ q.kind = "add"
    /\ \/ q.epoch = cEpoch /\ Participate(q.places) /\ Answer(q, "ok", None)
       \/ q.epoch # cEpoch /\ Answer(q, "fenced", None) /\ UNCHANGED <<cState, cParts>>
    /\ UNCHANGED <<cEpoch, pState, outcomeVars>>

(* EndTxn on an ongoing transaction, or under TV2 an abort of nothing;     *)
(* a retry of what was done; everything else is refused.                   *)
HandleEnd(q) ==
    LET done == IF q.commit THEN "CommitDone" ELSE "AbortDone"
        now == q.epoch = cEpoch /\ (cState = "Ongoing" \/ (TV2 /\ ~q.commit))
        again == cState = done /\ q.epoch = (IF TV2 THEN cEpoch - 1 ELSE cEpoch)
    IN  /\ q.kind = "end"
        /\ \/ /\ now
              /\ Decide(q.commit)
              /\ cState' = done /\ cParts' = {}
              /\ cEpoch' = IF TV2 THEN cEpoch + 1 ELSE cEpoch
              /\ Answer(q, "ok", cEpoch')
           \/ /\ ~now
              /\ Answer(q, CASE again -> "ok"
                             [] ~again /\ q.epoch = cEpoch -> "invalidState"
                             [] OTHER -> "fenced", cEpoch)
              /\ UNCHANGED <<cEpoch, cState, cParts, outcomeVars>>
        /\ UNCHANGED pState

(* The leader asks the coordinator whether the partition takes part, or    *)
(* under TV2 adds it, and then checks the sequence (KIP-890).              *)
HandleProduce(q) ==
    LET p == CHOOSE pl \in q.places : TRUE
        next == IF pState[p].epoch = q.epoch THEN pState[p].next ELSE 0
        current == q.epoch = cEpoch
        verified == current /\ (TV2 \/ (cState = "Ongoing" /\ p \in cParts))
        append == verified /\ q.seq = next
    IN  /\ q.kind = "produce"
        /\ undecided' = IF append THEN undecided \cup Records(q) ELSE undecided
        /\ pState' = IF append
                     THEN [pState EXCEPT ![p] = [epoch |-> q.epoch, next |-> next + 1]]
                     ELSE pState
        /\ IF verified THEN Participate(q.places) ELSE UNCHANGED <<cState, cParts>>
        /\ Answer(q, CASE ~current -> "fenced"
                       [] current /\ ~verified -> "invalidState"
                       [] verified /\ q.seq > next -> "outOfOrder"
                       [] OTHER -> "ok", None)
        /\ UNCHANGED <<cEpoch, committed, aborted>>

(* TxnOffsetCommit, at the group coordinator.                              *)
HandleOffsets(q) ==
    LET verified == q.epoch = cEpoch /\ cState = "Ongoing" /\ Offsets \in cParts
    IN  /\ q.kind = "offsets"
        /\ undecided' = IF verified THEN undecided \cup Records(q) ELSE undecided
        /\ Answer(q, CASE verified -> "ok"
                       [] ~verified /\ q.epoch = cEpoch -> "invalidState"
                       [] OTHER -> "fenced", None)
        /\ UNCHANGED <<cEpoch, cState, cParts, pState, committed, aborted>>

Serves(q) == CASE q.kind = "offsets" -> q.target = groupCoordinator
               [] q.kind = "produce" -> TRUE
               [] OTHER -> q.target = txnCoordinator

OnTheWire == late \cup (IF Idle THEN {} ELSE Got("pending"))

Handle(q) ==
    /\ \/ /\ Serves(q)
          /\ HandleInit(q) \/ HandleAdd(q) \/ HandleEnd(q) \/ HandleProduce(q) \/ HandleOffsets(q)
       \/ ~Serves(q) /\ Answer(q, "notCoordinator", None) /\ UNCHANGED brokerVars
    /\ UNCHANGED <<clientVars, placeVars, disturbances, historyVars>>

-----------------------------------------------------------------------------
(* Faults.                                                                 *)
RefuseBusy(q) ==
    /\ Disturb("busy")
    /\ Answer(q, "busy", None)
    /\ UNCHANGED <<clientVars, placeVars, brokerVars, historyVars>>

LoseRequest(q) ==
    /\ ~Idle /\ q \in Got("pending")
    /\ \/ Disturb("lostRequest") /\ UNCHANGED late
       \/ Disturb("lateRequest") /\ late' = late \cup {q}
    /\ call' = [call EXCEPT !.got[q] = [code |-> "lost", epoch |-> None]]
    /\ UNCHANGED <<clientVars, placeVars, brokerVars, historyVars>>

LoseReply ==
    /\ ~Idle /\ Disturb("lostReply")
    /\ \E q \in DOMAIN call.got :
          /\ call.got[q].code \notin {"pending", "lost"}
          /\ call' = [call EXCEPT !.got[q] = [code |-> "lost", epoch |-> None]]
    /\ UNCHANGED <<clientVars, late, placeVars, brokerVars, historyVars>>

CoordinatorMoves ==
    /\ Disturb("move")
    /\ txnCoordinator' \in Brokers \ {txnCoordinator}
    /\ UNCHANGED <<clientVars, call, late, groupCoordinator, brokerVars, historyVars>>

Fence ==
    /\ Disturb("rival") \/ (Disturb("timeout") /\ cState = "Ongoing")
    /\ AbortAndFence
    /\ UNCHANGED <<clientVars, call, late, placeVars, pState, historyVars>>

(* The process dies with its requests on the wire, and starts again.       *)
Crash ==
    /\ open \/ ~Idle
    /\ Disturb("crash")
    /\ late' = OnTheWire
    /\ call' = None /\ cache' = None /\ open' = FALSE
    /\ UNCHANGED <<txn, epoch, seqs, registered, coordinator, count, broken, endFailed,
                   placeVars, brokerVars, historyVars>>

-----------------------------------------------------------------------------
Client == InitDone \/ AddDone \/ DataDone \/ EndDone \/ Retry \/ CallFails

Application ==
    \/ Begin \/ SendOffsetsToTxn
    \/ \E ps \in (SUBSET Partitions) \ {{}} : ProduceWithinTxn(ps)
    \/ \E before \in (SUBSET Partitions) \ {Partitions} : ProduceUnresolved(before)
    \/ \E commit \in BOOLEAN : EndTxn(commit)

Brokering == \E q \in OnTheWire : Handle(q)

Next ==
    \/ Application \/ Client \/ Brokering
    \/ \E q \in OnTheWire : RefuseBusy(q) \/ LoseRequest(q)
    \/ LoseReply \/ CoordinatorMoves \/ Fence \/ Crash

Spec == Init /\ [][Next]_vars

-----------------------------------------------------------------------------
Codes == {"pending", "ok", "fenced", "invalidState", "outOfOrder"} \cup RetriableCodes
Places == Partitions \cup {Offsets}
StoredRecords == Txns \X (0 .. MaxCalls + MaxEnds) \X Places

(* The fields of the handle, the call in progress, the coordinator's entry *)
(* and the stored records have the types the code declares.                *)
TypeOK ==
    /\ cache \in Nat \cup {None} /\ epoch \in Nat /\ cEpoch \in Nat
    /\ txn \in 0 .. MaxTxns /\ count \in 0 .. MaxCalls + MaxEnds
    /\ {open, broken, endFailed} \subseteq BOOLEAN
    /\ seqs \in [Partitions -> Nat] /\ registered \subseteq Places
    /\ {coordinator, txnCoordinator, groupCoordinator} \subseteq Brokers
    /\ cState \in {"Empty", "Ongoing", "CommitDone", "AbortDone"} /\ cParts \subseteq Places
    /\ pState \in [Partitions -> [epoch : Nat, next : Nat]]
    /\ undecided \cup committed \cup aborted \cup acked \subseteq StoredRecords
    /\ ended \in [Txns -> {"none", "committed", "aborted"}]
    /\ epochOf \in [Txns -> Nat \cup {None}] /\ commitCalled \subseteq Txns
    /\ disturbances \in 0 .. MaxDisturbances
    /\ ~Idle => /\ call.ps \subseteq Partitions
                /\ call.attempt \in 1 .. MaxAttempts
                /\ \A q \in DOMAIN call.got : call.got[q].code \in Codes

(* When Commit returned nil, every record ProduceWithinTxn acknowledged    *)
(* and every offset SendOffsetsToTxn acknowledged in that transaction is   *)
(* committed: retries, lost answers, moved coordinators, crashes and       *)
(* rivals never shrink a committed transaction (ProduceWithinTxnResult,    *)
(* endTxn).                                                                *)
CommittedIsComplete ==
    \A x \in acked : ended[x[1]] = "committed" => x \in committed

(* When Abort reported the transaction aborted, nothing of it becomes      *)
(* visible to read_committed consumers, not even by a request that was     *)
(* given up and arrives later (endTxn).                                    *)
AbortedIsInvisible ==
    \A x \in committed : ended[x[1]] # "aborted"

(* A transaction's records and offsets are never committed in part and     *)
(* aborted in part (the open check of every call on the handle).           *)
AllOrNothing ==
    \A x \in committed : \A y \in aborted : x[1] # y[1]

(* No two transactions work under the same producer epoch                  *)
(* (BeginTransaction: cached epoch or a new one).                          *)
OwnEpoch ==
    \A s, t \in DOMAIN epochOf : s # t /\ epochOf[s] # None => epochOf[s] # epochOf[t]

(* A transactional produce request under the current epoch goes only to    *)
(* partitions the coordinator has in the transaction, before TV2           *)
(* (ensurePartitions and its registered set).                              *)
SentIsRegistered ==
    \A q \in OnTheWire :
        ~TV2 /\ q.kind = "produce" /\ q.epoch = cEpoch /\ q \notin late => q.places \subseteq cParts
=============================================================================
