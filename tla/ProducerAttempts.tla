-------------------------- MODULE ProducerAttempts --------------------------
(***************************************************************************)
(* One goroutine that uses an idempotent producer and stops at the first   *)
(* error: the inductive invariant of its calls, its attempts, the requests *)
(* on their way and the logs, for every number of partitions, brokers,     *)
(* records and retries, and the steps of one attempt that keep it.         *)
(***************************************************************************)
EXTENDS ProducerProofs

(* One goroutine calls the producer, and stops at the first error: the     *)
(* configuration a shared idempotent producer is safe in.                  *)
Sequential(c) == Callers = {c} /\ Idempotent /\ StopOnError

(* The records of the current call that are for partition p.  They travel  *)
(* in one batch: all are acknowledged (to the application, or in this      *)
(* attempt), or none is.                                                   *)
Batch(c, p) == {i \in 1 .. size[c] : frozen[c][i] = p}
Count(c, p) == Cardinality(Batch(c, p))
Settled(c, p) == \A i \in Batch(c, p) : i \in acked[c] \/ got[c][i] # None
Untouched(c, p) == \A i \in Batch(c, p) : i \notin acked[c] /\ got[c][i] = None

(* Their block of sequences is reserved and not rolled back; the base      *)
(* sequence their batch has in every attempt.                              *)
Held(c, p) ==
    \/ pc[c] = "reserve" /\ cursor[c][p] # None
    \/ pc[c] = "send"
    \/ pc[c] = "rollback" /\ p \in failed[c]
BaseSeq(c, p) == IF Held(c, p) THEN sequences[p] - Count(c, p) ELSE sequences[p]

Entry(c, i, off) == [off |-> off, rec |-> <<c, calls[c], i>>]
StoredAt(c, p, off) == \A i \in Batch(c, p) : Entry(c, i, off + Rank(Batch(c, p), i)) \in log[p]

(* The call: what its place says of its records.                           *)
CallInv(c) ==
    /\ pc[c] \in {"idle", "ok"} => 1 .. size[c] \subseteq acked[c]
    /\ frozen[c][1] = None => acked[c] = {}
    /\ pc[c] = "init" => frozen[c][1] = None
    /\ ~pidReady => /\ pc[c] \in {"idle", "init", "error"} /\ frozen[c][1] = None
                    /\ net = {} /\ \A p \in Partitions : nextSeq[p] = 0
    /\ \A p \in Partitions : Settled(c, p) \/ Untouched(c, p)
    /\ pc[c] \notin {"send", "rollback"} =>
          \A p \in Partitions : \A i \in Batch(c, p) : got[c][i] # None => i \in acked[c]

(* The attempt: where records are routed, and which partitions it has      *)
(* still to hear about.                                                    *)
Routed(c) == \A i \in PendingRecords(c) : route[c][i] = meta[frozen[c][i]]
FanOut(c, p) ==
    /\ request[c][meta[p]] = "todo" => cursor[c][p] = BaseSeq(c, p)
    /\ request[c][meta[p]] \in {"todo", "waiting"} => p \notin failed[c] /\ ~Settled(c, p)
    /\ request[c][meta[p]] = "done" => (p \in failed[c] <=> ~Settled(c, p))
    /\ request[c][meta[p]] # "none"
AttemptInv(c) ==
    /\ pc[c] = "resolve" =>
          /\ \A i \in PendingRecords(c) : route[c][i] \in {None, meta[frozen[c][i]]}
          /\ \A p \in Partitions : cursor[c][p] = None
    /\ pc[c] = "reserve" =>
          /\ Routed(c)
          /\ \A p \in PartBatches(c) : cursor[c][p] # None => cursor[c][p] = BaseSeq(c, p)
    /\ pc[c] \in {"resolve", "reserve"} => failed[c] = {} /\ err[c] = "none"
    /\ pc[c] = "send" =>
          /\ Routed(c)
          /\ \A p \in PartBatches(c) : FanOut(c, p)
          /\ failed[c] \subseteq PartBatches(c)
          /\ err[c] = "none" => failed[c] = {}
    /\ pc[c] = "rollback" =>
          /\ \A p \in failed[c] : ~Settled(c, p)
          /\ err[c] = "none" => \A p \in PartBatches(c) : Settled(c, p)
    /\ pc[c] = "finish" => err[c] # "none"
    /\ \A n \in Nodes : request[c][n] \in {"todo", "waiting"} => pc[c] = "send"

(* The client's table and the broker's next sequence: a batch that is not  *)
(* settled is not stored yet, or stored by an attempt whose outcome the    *)
(* client does not know.                                                   *)
AgreeInv(c) ==
    \A p \in Partitions :
       /\ Settled(c, p) => sequences[p] = nextSeq[p]
       /\ ~Settled(c, p) => BaseSeq(c, p) \in Nat
       /\ ~Settled(c, p) =>
             \/ nextSeq[p] = BaseSeq(c, p) /\ \A e \in log[p] : e.rec[2] < calls[c]
             \/ /\ nextSeq[p] = BaseSeq(c, p) + Count(c, p)
                /\ \A e \in appended[p] : e.seq = BaseSeq(c, p) => StoredAt(c, p, e.off)
       /\ \A e \in appended[p] : e.seq \in Nat /\ e.n > 0 /\ e.seq + e.n <= nextSeq[p]

(* A request in the network, however late: it can only append the batch it *)
(* was made for.                                                           *)
Current(m) == m.k = calls[m.c] /\ m.a = attempt[m.c]
RequestFor(c, m) ==
    /\ m.k <= calls[c] /\ (m.k = calls[c] => m.a <= attempt[c] /\ frozen[c][1] # None)
    /\ \A p \in DOMAIN m.batch :
          /\ m.batch[p].seq \in Nat
          /\ m.k = calls[c] /\ ~Settled(c, p) =>
                m.batch[p].recs = Batch(c, p) /\ m.batch[p].seq = BaseSeq(c, p)
          /\ m.k # calls[c] \/ Settled(c, p) => m.batch[p].seq < nextSeq[p]
RequestInv(c) == \A m \in net : RequestFor(c, m)

(* One round trip per broker and attempt: a request or its reply.          *)
RequestOut(c, m) ==
    /\ pc[c] \notin {"resolve", "reserve"}
    /\ pc[c] = "send" => /\ request[c][m.b] \in {"waiting", "done"}
                         /\ DOMAIN m.batch = BrokerPartKeys(c, m.b)
    /\ \A n \in net : Current(n) /\ n.b = m.b => n = m
ReplyBack(c, r) ==
    /\ pc[c] = "send" /\ request[c][r.b] = "waiting"
    /\ DOMAIN r.res = BrokerPartKeys(c, r.b)
    /\ \A p \in DOMAIN r.res : r.res[p].code = "none" =>
          nextSeq[p] = BaseSeq(c, p) + Count(c, p) /\ StoredAt(c, p, r.res[p].off)
    /\ \A s \in replies : s.b = r.b => s = r
    /\ \A m \in net : Current(m) => m.b # r.b
RoundTripInv(c) ==
    /\ \A m \in net : Current(m) => RequestOut(c, m)
    /\ \A r \in replies : ReplyBack(c, r)

(* The log: what is stored, once and in order.                             *)
StoredInv(c) ==
    /\ \A p \in Partitions : \A e \in log[p] :
          /\ e.off < leo[p] /\ e.rec[2] <= calls[c]
          /\ e.rec[2] = calls[c] => e.rec[3] \in Batch(c, p)
    /\ \A p \in Partitions : \A i \in Batch(c, p) :
          /\ got[c][i] # None => Entry(c, i, got[c][i]) \in log[p]
          /\ i \in acked[c] => \E e \in log[p] : e.rec = <<c, calls[c], i>>
    /\ \A d \in delivered : [off |-> d.off, rec |-> d.rec] \in log[d.part]
    /\ \A p \in Partitions : \A e, f \in log[p] : e.rec = f.rec => e = f
    /\ InOrder

OnceInv(c) ==
    CallInv(c) /\ AttemptInv(c) /\ AgreeInv(c) /\ RequestInv(c) /\ RoundTripInv(c) /\ StoredInv(c)

-----------------------------------------------------------------------------
(* Lemmas on the derived sets.                                             *)

(* One caller's share of the types.                                        *)
LEMMA CallTypes ==
    ASSUME TypeInv, NEW c \in Callers
    PROVE  /\ calls[c] \in Nat /\ attempt[c] \in Nat /\ acked[c] \in SUBSET Idx
           /\ \A i \in Idx : route[c][i] \in Nodes \cup {None} /\ got[c][i] \in Nat \cup {None}
           /\ \A p \in Partitions : meta[p] \in Nodes \cup {Missing} /\ cursor[c][p] \in Nat \cup {None}
           /\ \A n \in Nodes : request[c][n] \in {"none", "todo", "waiting", "done"}
           /\ 1 .. size[c] \subseteq Idx /\ 1 \in Idx
<1>1. TypeClient /\ TypeCall /\ TypeAttempt
  BY Zenon DEF TypeInv, TypeOK
<1>2. calls[c] \in Nat /\ attempt[c] \in Nat /\ acked[c] \in SUBSET Idx /\ size[c] \in 0 .. MaxRecords
  BY <1>1, Zenon DEF TypeCall
<1>3. route[c] \in [Idx -> Nodes \cup {None}]
  BY <1>1, Zenon DEF TypeAttempt
<1>4. got[c] \in [Idx -> Nat \cup {None}]
  BY <1>1, Zenon DEF TypeAttempt
<1>5. cursor[c] \in [Partitions -> Nat \cup {None}]
  BY <1>1, Zenon DEF TypeAttempt
<1>6. request[c] \in [Nodes -> {"none", "todo", "waiting", "done"}]
  BY <1>1, Zenon DEF TypeAttempt
<1>7. \A p \in Partitions : meta[p] \in Nodes \cup {Missing}
  BY <1>1, Zenon DEF TypeClient
<1>8. 1 .. size[c] \subseteq Idx /\ 1 \in Idx
  BY <1>2, ConstantsAssumption DEF Idx
<1> QED
  BY <1>2, <1>3, <1>4, <1>5, <1>6, <1>7, <1>8, Zenon

(* Positions in a batch follow the order of its records.                   *)
LEMMA RankOrder ==
    ASSUME NEW S \in SUBSET Idx, NEW i \in S
    PROVE  /\ Rank(S, i) \in Nat /\ Cardinality(S) \in Nat /\ Rank(S, i) < Cardinality(S)
           /\ \A j \in S : i < j => Rank(S, i) < Rank(S, j)
<1>1. IsFiniteSet(S)
  <2>1. IsFiniteSet(Idx)
    BY FS_Interval, ConstantsAssumption DEF Idx
  <2> QED
    BY <2>1, FS_Subset, Zenon
<1>2. \A T \in SUBSET S : \A U \in SUBSET T :
        /\ Cardinality(U) \in Nat /\ Cardinality(T) \in Nat /\ Cardinality(U) <= Cardinality(T)
        /\ Cardinality(U) = Cardinality(T) => U = T
  BY <1>1, FS_Subset, FS_CardinalityType, Zenon
<1>3. \A k \in Idx : {j \in S : j < k} \in SUBSET S
  BY Zenon
<1>4. i \in Idx /\ ~(i < i) /\ \A j \in S : j \in Int
  BY DEF Idx
<1>5. i \notin {j \in S : j < i}
  BY <1>4, Zenon
<1>6. Rank(S, i) \in Nat /\ Cardinality(S) \in Nat /\ Rank(S, i) < Cardinality(S)
  <2>1. /\ Rank(S, i) \in Nat /\ Cardinality(S) \in Nat
        /\ Rank(S, i) <= Cardinality(S) /\ Rank(S, i) # Cardinality(S)
    BY <1>2, <1>3, <1>4, <1>5, Zenon DEF Rank
  <2> QED
    BY <2>1
<1>7. ASSUME NEW j \in S, i < j
      PROVE  Rank(S, i) < Rank(S, j)
  <2>1. {k \in S : k < i} \in SUBSET {k \in S : k < j}
    BY <1>4, <1>7
  <2>2. i \in {k \in S : k < j} /\ {k \in S : k < j} \in SUBSET S
    BY <1>7, Zenon
  <2>3. /\ Rank(S, i) \in Nat /\ Rank(S, j) \in Nat
        /\ Rank(S, i) <= Rank(S, j) /\ Rank(S, i) # Rank(S, j)
    BY <1>2, <1>5, <2>1, <2>2, Zenon DEF Rank
  <2> QED
    BY <2>3
<1> QED
  BY <1>6, <1>7, Zenon

LEMMA BatchFacts ==
    ASSUME TypeInv, NEW c \in Callers
    PROVE  /\ \A p : Batch(c, p) \in SUBSET Idx /\ Count(c, p) \in Nat
           /\ \A p : Batch(c, p) # {} => Count(c, p) > 0
           /\ \A p \in Partitions : sequences[p] \in Nat /\ nextSeq[p] \in Nat /\ BaseSeq(c, p) \in Int
<1>1. \A p : Batch(c, p) \in SUBSET Idx
  BY CallTypes, Zenon DEF Batch
<1>2. \A p : Count(c, p) \in Nat
  BY <1>1, IdxSubsets, Zenon DEF Count
<1>3. ASSUME NEW p, Batch(c, p) # {}
      PROVE  Count(c, p) > 0
  <2>1. PICK i \in Batch(c, p) : TRUE
    BY <1>3, Zenon
  <2>2. Rank(Batch(c, p), i) \in Nat /\ Rank(Batch(c, p), i) < Count(c, p)
    BY <1>1, RankOrder, Zenon DEF Count
  <2> QED
    BY <1>2, <2>2
<1>4. \A p \in Partitions : sequences[p] \in Nat /\ nextSeq[p] \in Nat
  BY Zenon DEF TypeInv, TypeOK, TypeClient, TypeBroker
<1>5. \A p \in Partitions : BaseSeq(c, p) \in Int
  <2> TAKE p \in Partitions
  <2>1. sequences[p] - Count(c, p) \in Int /\ sequences[p] \in Int
    BY <1>2, <1>4
  <2> QED
    BY <2>1, Zenon DEF BaseSeq
<1> QED
  BY <1>1, <1>2, <1>3, <1>4, <1>5, Zenon

(* A partition that is not settled gets its whole batch in every attempt.  *)
LEMMA UnsettledBatch ==
    ASSUME TypeInv, NEW c \in Callers, CallInv(c), NEW p \in Partitions, ~Settled(c, p)
    PROVE  /\ InputByKey(c, p) = Batch(c, p) /\ BlockLength(c, p) = Count(c, p)
           /\ p \in PartBatches(c) /\ Batch(c, p) # {} /\ Count(c, p) > 0 /\ Count(c, p) \in Nat
<1>1. Untouched(c, p) /\ Batch(c, p) # {}
  BY Zenon DEF CallInv, Settled
<1>2. InputByKey(c, p) = Batch(c, p)
  BY <1>1, Zenon DEF Untouched, InputByKey, PendingRecords, Batch
<1> QED
  BY <1>1, <1>2, BatchFacts, Zenon DEF PartBatches, BlockLength, Count

(* Before and after the fan-out, the partitions to send to are the         *)
(* unsettled ones.                                                         *)
LEMMA PartBatchesUnsettled ==
    ASSUME TypeInv, NEW c \in Callers, CallInv(c), pc[c] \notin {"send", "rollback"}
    PROVE  \A p \in Partitions : p \in PartBatches(c) <=> ~Settled(c, p)
<1> TAKE p \in Partitions
<1>1. ASSUME p \in PartBatches(c), Settled(c, p)
      PROVE  FALSE
  <2>1. PICK i : i \in Batch(c, p) /\ i \notin acked[c]
    BY <1>1, Zenon DEF PartBatches, InputByKey, PendingRecords, Batch
  <2> QED
    BY <1>1, <2>1, Zenon DEF CallInv, Settled
<1> QED
  BY <1>1, UnsettledBatch, Zenon

(* The records of a partition are routed together.                         *)
LEMMA RoutedTogether ==
    ASSUME TypeInv, NEW c \in Callers, Routed(c)
    PROVE  /\ \A p \in PartBatches(c) : meta[p] \in Nodes /\ SentTo(c, meta[p], p) = InputByKey(c, p)
           /\ \A n, p : p \in BrokerPartKeys(c, n) <=> p \in PartBatches(c) /\ n = meta[p]
<1>1. \A p : \A i \in InputByKey(c, p) : route[c][i] = meta[p] /\ i \in Idx
  BY DerivedTypes, Zenon DEF Routed, InputByKey, TypeInv
<1>2. \A p \in PartBatches(c) : meta[p] \in Nodes
  <2> TAKE p \in PartBatches(c)
  <2>1. PICK i \in Idx : route[c][i] = meta[p]
    BY <1>1, Zenon DEF PartBatches
  <2>2. p \in Partitions
    BY Zenon DEF PartBatches
  <2>3. route[c][i] \in Nodes \cup {None} /\ meta[p] \in Nodes \cup {Missing}
    BY <2>2, CallTypes, Zenon
  <2> QED
    BY <2>1, <2>3, ConstantsAssumption, Zenon DEF Nodes
<1>3. \A p : SentTo(c, meta[p], p) = InputByKey(c, p) /\ \A n : n # meta[p] => SentTo(c, n, p) = {}
  BY <1>1, Zenon DEF SentTo
<1> QED
  BY <1>2, <1>3, Zenon DEF BrokerPartKeys, PartBatches

-----------------------------------------------------------------------------
(* What a step leaves alone.                                               *)

(* The step keeps the call's batches, and what is known about them.        *)
SameBatches(c) ==
    /\ calls' = calls
    /\ \A p \in Partitions : /\ Batch(c, p)' = Batch(c, p)
                             /\ Settled(c, p)' <=> Settled(c, p)
                             /\ Untouched(c, p)' <=> Untouched(c, p)
Kept(c) ==
    /\ SameBatches(c) /\ UNCHANGED brokerVars
    /\ \A p \in Partitions : /\ Settled(c, p) => sequences'[p] = sequences[p]
                             /\ ~Settled(c, p) => BaseSeq(c, p)' = BaseSeq(c, p)

LEMMA BatchesKept ==
    ASSUME TypeInv, NEW c \in Callers, calls' = calls,
           UNCHANGED <<size, frozen, acked>>,
           \A p \in Partitions : \A i \in Batch(c, p) : got'[c][i] = got[c][i] \/ i \in acked[c]
    PROVE  SameBatches(c) /\ PendingRecords(c)' = PendingRecords(c) /\ PartBatches(c)' = PartBatches(c)
<1>1. \A p \in Partitions : Batch(c, p)' = Batch(c, p)
  BY Zenon DEF Batch
<1>2. \A p \in Partitions : Settled(c, p)' <=> Settled(c, p)
  BY <1>1, Zenon DEF Settled
<1>3. \A p \in Partitions : Untouched(c, p)' <=> Untouched(c, p)
  BY <1>1 DEF Untouched
<1>4. PendingRecords(c)' = PendingRecords(c) /\ PartBatches(c)' = PartBatches(c)
  BY Zenon DEF PendingRecords, PartBatches, InputByKey
<1> QED
  BY <1>1, <1>2, <1>3, <1>4, Zenon DEF SameBatches

LEMMA KeptAgree ==
    ASSUME NEW c \in Callers, AgreeInv(c), Kept(c)
    PROVE  AgreeInv(c)'
<1>0. /\ calls' = calls /\ nextSeq' = nextSeq /\ log' = log /\ appended' = appended
      /\ \A p \in Partitions :
           /\ Batch(c, p)' = Batch(c, p) /\ (Settled(c, p)' <=> Settled(c, p))
           /\ Settled(c, p) => sequences'[p] = sequences[p]
           /\ ~Settled(c, p) => BaseSeq(c, p)' = BaseSeq(c, p)
  BY Zenon DEF Kept, SameBatches, brokerVars
<1>1. \A p \in Partitions : /\ Count(c, p)' = Count(c, p)
                            /\ \A o : StoredAt(c, p, o) => StoredAt(c, p, o)'
  BY <1>0, Zenon DEF Count, StoredAt, Entry
<1> SUFFICES ASSUME NEW p \in Partitions
             PROVE  /\ Settled(c, p)' => sequences'[p] = nextSeq'[p]
                    /\ ~Settled(c, p)' => BaseSeq(c, p)' \in Nat
                    /\ ~Settled(c, p)' =>
                          \/ nextSeq'[p] = BaseSeq(c, p)' /\ \A e \in log'[p] : e.rec[2] < calls'[c]
                          \/ /\ nextSeq'[p] = BaseSeq(c, p)' + Count(c, p)'
                             /\ \A e \in appended'[p] : e.seq = BaseSeq(c, p)' => StoredAt(c, p, e.off)'
                    /\ \A e \in appended'[p] : e.seq \in Nat /\ e.n > 0 /\ e.seq + e.n <= nextSeq'[p]
  BY Zenon DEF AgreeInv
<1>2. CASE Settled(c, p)
  BY <1>0, <1>2, Zenon DEF AgreeInv
<1>3. CASE ~Settled(c, p)
  BY <1>0, <1>1, <1>3, Zenon DEF AgreeInv
<1> QED
  BY <1>2, <1>3, Zenon

(* The requests under way keep their meaning.                              *)
LEMMA KeptRequests ==
    ASSUME TypeInv, NEW c \in Callers, RequestInv(c), Kept(c),
           attempt'[c] \in Nat, attempt[c] <= attempt'[c],
           frozen'[c][1] = None => frozen[c][1] = None
    PROVE  \A m \in net : RequestFor(c, m)'
<1>0. /\ calls' = calls /\ nextSeq' = nextSeq
      /\ \A p \in Partitions :
           /\ Batch(c, p)' = Batch(c, p) /\ (Settled(c, p)' <=> Settled(c, p))
           /\ ~Settled(c, p) => BaseSeq(c, p)' = BaseSeq(c, p)
  BY Zenon DEF Kept, SameBatches, brokerVars
<1> TAKE m \in net
<1>1. IsMessage(m)
  BY Zenon DEF TypeInv, TypeOK, TypeNet
<1>2. m.k <= calls[c] /\ (m.k = calls[c] => m.a <= attempt[c] /\ frozen[c][1] # None)
  BY Zenon DEF RequestInv, RequestFor
<1>3. m.a \in Nat /\ attempt[c] \in Nat /\ DOMAIN m.batch \subseteq Partitions
  BY <1>1, CallTypes, Zenon DEF IsMessage
<1>4. m.a <= attempt[c] => m.a <= attempt'[c]
  BY <1>3
<1>5. \A p \in DOMAIN m.batch :
        /\ m.batch[p].seq \in Nat
        /\ m.k = calls[c] /\ ~Settled(c, p) =>
              m.batch[p].recs = Batch(c, p) /\ m.batch[p].seq = BaseSeq(c, p)
        /\ m.k # calls[c] \/ Settled(c, p) => m.batch[p].seq < nextSeq[p]
  BY Zenon DEF RequestInv, RequestFor
<1> QED
  BY <1>0, <1>2, <1>3, <1>4, <1>5, Zenon DEF RequestFor

(* Nothing is stored, acknowledged or learnt.                              *)
LEMMA KeptStored ==
    ASSUME NEW c \in Callers, StoredInv(c), UNCHANGED <<calls, log, leo, delivered, acked>>,
           \A p \in Partitions : /\ Batch(c, p)' = Batch(c, p)
                                 /\ \A i \in Batch(c, p) : got'[c][i] \in {got[c][i], None}
    PROVE  StoredInv(c)'
<1>1. (\A p \in Partitions : \A e \in log[p] :
          /\ e.off < leo[p] /\ e.rec[2] <= calls[c]
          /\ e.rec[2] = calls[c] => e.rec[3] \in Batch(c, p))'
  BY DEF StoredInv
<1>2. (\A p \in Partitions : \A i \in Batch(c, p) :
          /\ got[c][i] # None => Entry(c, i, got[c][i]) \in log[p]
          /\ i \in acked[c] => \E e \in log[p] : e.rec = <<c, calls[c], i>>)'
  <2> SUFFICES ASSUME NEW p \in Partitions, NEW i \in Batch(c, p)
               PROVE  /\ got'[c][i] # None => Entry(c, i, got[c][i])' \in log[p]
                      /\ i \in acked[c] => \E e \in log[p] : e.rec = <<c, calls[c], i>>
    BY Zenon
  <2>1. /\ got[c][i] # None => Entry(c, i, got[c][i]) \in log[p]
        /\ i \in acked[c] => \E e \in log[p] : e.rec = <<c, calls[c], i>>
    BY Zenon DEF StoredInv
  <2> QED
    BY <2>1, Zenon DEF Entry
<1>3. InOrder'
  BY Zenon DEF StoredInv, InOrder
<1> QED
  BY <1>1, <1>2, <1>3, Zenon DEF StoredInv

(* Outside the fan-out there are no replies.                               *)
LEMMA NoRoundTrips ==
    ASSUME NEW c \in Callers, RoundTripInv(c), net' \subseteq net, replies' = replies,
           pc[c] # "send", pc'[c] # "send",
           pc'[c] \in {"resolve", "reserve"} => \A m \in net : ~Current(m)',
           \A m \in net : Current(m)' => Current(m)
    PROVE  RoundTripInv(c)'
BY Zenon DEF RoundTripInv, RequestOut, ReplyBack

(* A step that only moves the call from one place to the next, or changes  *)
(* the attempt's own bookkeeping.                                          *)
LEMMA QuietStep ==
    ASSUME TypeInv, NEW c \in Callers, OnceInv(c), net' \subseteq net,
           UNCHANGED <<sequences, calls, size, attempt, frozen, acked, got, brokerVars, delivered>>,
           \A p \in Partitions : ~Settled(c, p) => (Held(c, p)' <=> Held(c, p))
    PROVE  /\ Kept(c) /\ PendingRecords(c)' = PendingRecords(c) /\ PartBatches(c)' = PartBatches(c)
           /\ AgreeInv(c)' /\ RequestInv(c)' /\ StoredInv(c)'
<1>1. SameBatches(c) /\ PendingRecords(c)' = PendingRecords(c) /\ PartBatches(c)' = PartBatches(c)
  BY BatchesKept, Zenon
<1>2. \A p \in Partitions : Batch(c, p)' = Batch(c, p)
  BY <1>1, Zenon DEF SameBatches
<1>3. \A p \in Partitions : ~Settled(c, p) => BaseSeq(c, p)' = BaseSeq(c, p)
  BY <1>2, Zenon DEF BaseSeq, Count
<1>4. Kept(c)
  BY <1>1, <1>3, Zenon DEF Kept
<1>5. attempt'[c] \in Nat /\ attempt[c] <= attempt'[c]
  BY CallTypes
<1>6. AgreeInv(c)' /\ RequestInv(c)'
  BY <1>4, <1>5, KeptAgree, KeptRequests, Zenon DEF OnceInv, RequestInv
<1>7. StoredInv(c)'
  BY <1>2, KeptStored, Zenon DEF OnceInv, brokerVars
<1> QED
  BY <1>1, <1>4, <1>6, <1>7, Zenon

(* A step of the brokers leaves the client's side as it is.                *)
LEMMA ClientKept ==
    ASSUME TypeInv, NEW c \in Callers, AttemptInv(c),
           UNCHANGED <<sequences, meta, pc, calls, size, attempt, frozen, acked, route, cursor, request,
                       got, failed, err>>
    PROVE  /\ SameBatches(c) /\ AttemptInv(c)'
           /\ \A p \in Partitions : /\ BaseSeq(c, p)' = BaseSeq(c, p) /\ Count(c, p)' = Count(c, p)
                                    /\ (Settled(c, p)' <=> Settled(c, p)) /\ Batch(c, p)' = Batch(c, p)
           /\ \A n : BrokerPartKeys(c, n)' = BrokerPartKeys(c, n)
           /\ \A m : Current(m)' <=> Current(m)
<1>1. SameBatches(c) /\ PendingRecords(c)' = PendingRecords(c) /\ PartBatches(c)' = PartBatches(c)
  BY BatchesKept, Zenon
<1>2. \A p \in Partitions : /\ BaseSeq(c, p)' = BaseSeq(c, p) /\ Count(c, p)' = Count(c, p)
                            /\ (Settled(c, p)' <=> Settled(c, p)) /\ Batch(c, p)' = Batch(c, p)
  <2>1. \A p \in Partitions : Batch(c, p)' = Batch(c, p) /\ (Settled(c, p)' <=> Settled(c, p))
    BY <1>1, Zenon DEF SameBatches
  <2>2. \A p \in Partitions : Held(c, p)' <=> Held(c, p)
    BY Zenon DEF Held
  <2> QED
    BY <2>1, <2>2, Zenon DEF BaseSeq, Count
<1>3. PartBatches(c) \subseteq Partitions /\ failed[c] \subseteq Partitions
  BY Zenon DEF PartBatches, TypeInv, TypeOK, TypeAttempt
<1>4. AttemptInv(c)'
  <2>1. Routed(c)' <=> Routed(c)
    BY <1>1, Zenon DEF Routed
  <2>2. \A p \in Partitions : FanOut(c, p)' <=> FanOut(c, p)
    BY <1>2, Zenon DEF FanOut
  <2> QED
    BY <1>1, <1>2, <1>3, <2>1, <2>2, Zenon DEF AttemptInv
<1>5. \A n : BrokerPartKeys(c, n)' = BrokerPartKeys(c, n)
  BY Zenon DEF BrokerPartKeys, SentTo, InputByKey, PendingRecords
<1>6. \A m : Current(m)' <=> Current(m)
  BY Zenon DEF Current
<1> QED
  BY <1>1, <1>2, <1>4, <1>5, <1>6, Zenon

(* The end of the fan-out, the wait between attempts, and elections.       *)
LEMMA MovesOnce ==
    ASSUME TypeInv, NEW c \in Callers, OnceInv(c),
           Collect(c) \/ Backoff(c) \/ (\E p \in Partitions : LeaderMoves(p)) \/ UNCHANGED vars
    PROVE  OnceInv(c)'
<1>0. /\ CallInv(c) /\ AttemptInv(c) /\ RoundTripInv(c)
      /\ pc \in [Callers -> Returned \cup {"init", "attempt", "resolve", "reserve", "send",
                                           "rollback", "finish", "backoff"}]
  BY Zenon DEF OnceInv, TypeInv, TypeOK, TypeCall
<1>1. CASE Collect(c)
  <2>1. /\ pc[c] = "send" /\ pc'[c] = "rollback"
        /\ \A n \in Nodes : request[c][n] \in {"none", "done"}
    BY <1>0, <1>1, Zenon DEF Collect
  <2>2. UNCHANGED <<pidReady, sequences, meta, calls, size, attempt, frozen, acked, route, cursor, request,
                    got, failed, err, brokerVars, net, replies, delivered>>
    BY <1>1, Zenon DEF Collect, producerVars, callVars, attemptVars, netVars
  <2>3. \A p \in PartBatches(c) : p \in failed[c] <=> ~Settled(c, p)
    <3> TAKE p \in PartBatches(c)
    <3>1. FanOut(c, p) /\ meta[p] \in Nodes
      BY <1>0, <2>1, RoutedTogether, Zenon DEF AttemptInv
    <3> QED
      BY <2>1, <3>1, Zenon DEF FanOut
  <2>4. \A p \in Partitions : ~Settled(c, p) => (Held(c, p)' <=> Held(c, p))
    BY <1>0, <2>1, <2>2, <2>3, UnsettledBatch, Zenon DEF Held
  <2>5. /\ Kept(c) /\ PendingRecords(c)' = PendingRecords(c) /\ PartBatches(c)' = PartBatches(c)
        /\ AgreeInv(c)' /\ RequestInv(c)' /\ StoredInv(c)'
    BY <2>2, <2>4, QuietStep, Zenon
  <2>6. \A p \in Partitions : Settled(c, p)' <=> Settled(c, p)
    BY <2>5, Zenon DEF Kept, SameBatches
  <2>7. CallInv(c)'
    BY <1>0, <2>1, <2>2, <2>5, <2>6, Zenon DEF CallInv, Kept, SameBatches
  <2>8. AttemptInv(c)'
    <3>1. failed[c] \subseteq PartBatches(c) /\ (err[c] = "none" => failed[c] = {})
      BY <1>0, <2>1, Zenon DEF AttemptInv
    <3>2. PartBatches(c) \subseteq Partitions
      BY Zenon DEF PartBatches
    <3>3. (\A p \in failed[c] : ~Settled(c, p))'
      BY <2>2, <2>3, <2>6, <3>1, <3>2, Zenon
    <3>4. (err[c] = "none" => \A p \in PartBatches(c) : Settled(c, p))'
      BY <2>2, <2>3, <2>5, <2>6, <3>1, <3>2, Zenon
    <3>5. (\A n \in Nodes : request[c][n] \in {"todo", "waiting"} => pc[c] = "send")'
      BY <2>1, <2>2, Zenon
    <3> QED
      BY <2>1, <3>3, <3>4, <3>5, Zenon DEF AttemptInv
  <2>9. RoundTripInv(c)'
    <3>1. \A m \in net : Current(m)' <=> Current(m)
      BY <2>2, Zenon DEF Current
    <3>2. replies = {}
      <4> SUFFICES ASSUME NEW r \in replies PROVE FALSE
        BY Zenon
      <4>1. request[c][r.b] = "waiting" /\ r.b \in Nodes
        BY <1>0, Zenon DEF RoundTripInv, ReplyBack, TypeInv, TypeOK, TypeNet, IsReply, Nodes
      <4> QED
        BY <2>1, <4>1, Zenon
    <3> QED
      BY <1>0, <2>1, <2>2, <3>1, <3>2, Zenon DEF RoundTripInv, RequestOut
  <2> QED
    BY <2>5, <2>7, <2>8, <2>9, Zenon DEF OnceInv
<1>2. CASE Backoff(c)
  <2>1. pc[c] = "backoff" /\ pc'[c] \in {"attempt", "error"}
    BY <1>0, <1>2, Zenon DEF Backoff
  <2>2. UNCHANGED <<pidReady, sequences, meta, calls, size, attempt, frozen, acked, route, cursor, request,
                    got, failed, err, brokerVars, net, replies, delivered>>
    BY <1>2, Zenon DEF Backoff, producerVars, callVars, attemptVars, netVars
  <2>3. \A p \in Partitions : ~Settled(c, p) => (Held(c, p)' <=> Held(c, p))
    BY <2>1, Zenon DEF Held
  <2>4. Kept(c) /\ AgreeInv(c)' /\ RequestInv(c)' /\ StoredInv(c)'
    BY <2>2, <2>3, QuietStep, Zenon
  <2>5. CallInv(c)'
    BY <1>0, <2>1, <2>2, <2>4, Zenon DEF CallInv, Kept, SameBatches
  <2>6. AttemptInv(c)'
    BY <1>0, <2>1, <2>2, Zenon DEF AttemptInv
  <2>7. RoundTripInv(c)'
    <3>1. \A m \in net : Current(m)' <=> Current(m)
      BY <2>2, Zenon DEF Current
    <3> QED
      BY <1>0, <2>1, <2>2, <3>1, NoRoundTrips, Zenon
  <2> QED
    BY <2>4, <2>5, <2>6, <2>7, Zenon DEF OnceInv
<1>3. CASE (\E p \in Partitions : LeaderMoves(p)) \/ UNCHANGED vars
  <2>1. UNCHANGED <<pidReady, sequences, meta, pc, calls, size, attempt, frozen, acked, route, cursor, request,
                    got, failed, err, log, leo, nextSeq, appended, net, replies, delivered>>
    BY <1>3, Zenon DEF LeaderMoves, vars, producerVars, callVars, attemptVars, brokerVars, netVars
  <2>2. \A p \in Partitions : ~Settled(c, p) => (Held(c, p)' <=> Held(c, p))
    BY <2>1, Zenon DEF Held
  <2>3. Kept(c) /\ AgreeInv(c)' /\ RequestInv(c)' /\ StoredInv(c)'
    BY <2>1, <2>2, QuietStep, Zenon DEF brokerVars
  <2>4. CallInv(c)'
    BY <1>0, <2>1, <2>3, Zenon DEF CallInv, Kept, SameBatches
  <2>5. /\ AttemptInv(c)'
        /\ \A p \in Partitions : /\ BaseSeq(c, p)' = BaseSeq(c, p) /\ Count(c, p)' = Count(c, p)
                                 /\ Batch(c, p)' = Batch(c, p)
        /\ \A n : BrokerPartKeys(c, n)' = BrokerPartKeys(c, n)
        /\ \A m : Current(m)' <=> Current(m)
    BY <1>0, <2>1, ClientKept, Zenon
  <2>6. RoundTripInv(c)'
    <3>1. \A p \in Partitions : \A o : StoredAt(c, p, o) => StoredAt(c, p, o)'
      BY <2>1, <2>5, Zenon DEF StoredAt, Entry
    <3>2. \A r \in replies : DOMAIN r.res \subseteq Partitions
      BY Zenon DEF TypeInv, TypeOK, TypeNet, IsReply
    <3>3. \A m \in net : RequestOut(c, m) => RequestOut(c, m)'
      BY <2>1, <2>5, Zenon DEF RequestOut
    <3>4. \A r \in replies : ReplyBack(c, r) => ReplyBack(c, r)'
      BY <2>1, <2>5, <3>1, <3>2, Zenon DEF ReplyBack
    <3> QED
      BY <1>0, <2>1, <2>5, <3>3, <3>4, Zenon DEF RoundTripInv
  <2> QED
    BY <2>3, <2>4, <2>5, <2>6, Zenon DEF OnceInv
<1> QED
  BY <1>1, <1>2, <1>3, Zenon

(* A step in the same phase, or to the next, keeps what the call's place   *)
(* says of its records.                                                    *)
LEMMA KeptCall ==
    ASSUME TypeInv, NEW c \in Callers, CallInv(c), SameBatches(c), pc[c] \in InAttempt,
           pc'[c] \in InAttempt, pc[c] \in {"send", "rollback"} => pc'[c] \in {"send", "rollback"},
           UNCHANGED <<pidReady, frozen, acked, got>>
    PROVE  CallInv(c)'
<1>1. pidReady /\ frozen[c][1] # None
  BY Zenon DEF CallInv, InAttempt, TypeInv, FrozenAtOnce
<1> QED
  BY <1>1, Zenon DEF CallInv, SameBatches, InAttempt

LEMMA ResolveOnce ==
    ASSUME TypeInv, NEW c \in Callers, OnceInv(c), ResolvePartition(c)
    PROVE  OnceInv(c)'
<1>0. CallInv(c) /\ AttemptInv(c) /\ RoundTripInv(c) /\ TypeCall /\ TypeAttempt
  BY Zenon DEF OnceInv, TypeInv, TypeOK
<1>1. UNCHANGED <<pidReady, sequences, meta, calls, size, attempt, frozen, acked, cursor, request,
                  got, failed, log, leo, nextSeq, appended, net, replies, delivered>>
  BY Zenon DEF ResolvePartition, producerVars, callVars, brokerVars, netVars
<1>2. PICK i \in PendingRecords(c) :
        /\ \A j \in PendingRecords(c) : j < i => route[c][j] # None
        /\ IF meta[frozen[c][i]] = Missing
           THEN /\ err' = [err EXCEPT ![c] = "retriable"]
                /\ pc' = [pc EXCEPT ![c] = "finish"]
                /\ UNCHANGED route
           ELSE /\ route' = [route EXCEPT ![c][i] = meta[frozen[c][i]]]
                /\ pc' = [pc EXCEPT ![c] =
                            IF \E j \in PendingRecords(c) : j > i THEN "resolve" ELSE "reserve"]
                /\ UNCHANGED err
  BY Zenon DEF ResolvePartition
<1>3. /\ pc[c] = "resolve" /\ failed[c] = {} /\ err[c] = "none"
      /\ \A j \in PendingRecords(c) : route[c][j] \in {None, meta[frozen[c][j]]}
      /\ \A p \in Partitions : cursor[c][p] = None
      /\ \A n \in Nodes : request[c][n] \notin {"todo", "waiting"}
  BY <1>0, Zenon DEF ResolvePartition, AttemptInv
<1>4. \/ pc'[c] = "finish" /\ err'[c] = "retriable"
      \/ /\ pc'[c] \in {"resolve", "reserve"} /\ err' = err
         /\ route'[c][i] = meta[frozen[c][i]]
         /\ \A j \in Idx : j # i => route'[c][j] = route[c][j]
         /\ pc'[c] = "reserve" => ~\E j \in PendingRecords(c) : j > i
  <2>1. c \in DOMAIN pc /\ c \in DOMAIN err /\ c \in DOMAIN route /\ i \in Idx
    BY <1>0, DerivedTypes, Zenon DEF TypeCall, TypeAttempt, TypeInv
  <2>2. i \in DOMAIN route[c] /\ \A j \in Idx : j \in DOMAIN route[c]
    BY <1>0, <2>1, Zenon DEF TypeAttempt
  <2> QED
    BY <1>2, <2>1, <2>2, Zenon
<1>5. \A p \in Partitions : ~Settled(c, p) => (Held(c, p)' <=> Held(c, p))
  BY <1>1, <1>3, <1>4, Zenon DEF Held
<1>6. /\ Kept(c) /\ PendingRecords(c)' = PendingRecords(c) /\ PartBatches(c)' = PartBatches(c)
      /\ AgreeInv(c)' /\ RequestInv(c)' /\ StoredInv(c)'
  BY <1>1, <1>5, QuietStep, Zenon DEF brokerVars
<1>7. CallInv(c)'
  BY <1>0, <1>1, <1>3, <1>4, <1>6, KeptCall, Zenon DEF Kept, InAttempt
<1>8. AttemptInv(c)'
  <2>1. CASE pc'[c] = "finish" /\ err'[c] = "retriable"
    BY <1>1, <1>3, <2>1, Zenon DEF AttemptInv
  <2>2. CASE /\ pc'[c] \in {"resolve", "reserve"} /\ err' = err
             /\ route'[c][i] = meta[frozen[c][i]]
             /\ \A j \in Idx : j # i => route'[c][j] = route[c][j]
             /\ pc'[c] = "reserve" => ~\E j \in PendingRecords(c) : j > i
    <3>1. \A j \in PendingRecords(c) : route'[c][j] \in {None, meta[frozen[c][j]]}
      BY <1>3, <2>2, DerivedTypes, Zenon DEF TypeInv
    <3>2. pc'[c] = "reserve" => Routed(c)'
      <4>1. \A j \in PendingRecords(c) : j > i \/ j = i \/ j < i
        BY DerivedTypes DEF TypeInv, Idx
      <4> SUFFICES ASSUME pc'[c] = "reserve", NEW j \in PendingRecords(c)
                   PROVE  route'[c][j] = meta[frozen[c][j]]
        BY <1>1, <1>6, Zenon DEF Routed
      <4>2. CASE j = i
        BY <2>2, <4>2, Zenon
      <4>3. CASE j # i
        <5>1. j < i /\ j \in Idx
          BY <2>2, <4>1, <4>3, DerivedTypes, Zenon DEF TypeInv
        <5> QED
          BY <1>2, <1>3, <2>2, <4>3, <5>1, Zenon
      <4> QED
        BY <4>2, <4>3, Zenon
    <3> QED
      BY <1>1, <1>3, <1>6, <2>2, <3>1, <3>2, Zenon DEF AttemptInv, PartBatches
  <2> QED
    BY <1>4, <2>1, <2>2, Zenon
<1>9. RoundTripInv(c)'
  <2>1. \A m \in net : ~Current(m) /\ ~Current(m)'
    BY <1>0, <1>1, <1>3, Zenon DEF Current, RoundTripInv, RequestOut
  <2> QED
    BY <1>0, <1>1, <1>3, <1>4, <2>1, NoRoundTrips, Zenon
<1> QED
  BY <1>6, <1>7, <1>8, <1>9, Zenon DEF OnceInv

LEMMA ReserveOnce ==
    ASSUME TypeInv, NEW c \in Callers, Idempotent, OnceInv(c), NEW p \in Partitions, ReserveBlock(c, p)
    PROVE  OnceInv(c)'
<1>0. CallInv(c) /\ AttemptInv(c) /\ RoundTripInv(c) /\ TypeClient /\ TypeAttempt
  BY Zenon DEF OnceInv, TypeInv, TypeOK
<1>1. UNCHANGED <<pidReady, meta, pc, calls, size, attempt, frozen, acked, route, request,
                  got, failed, err, log, leo, nextSeq, appended, net, replies, delivered>>
  BY Zenon DEF ReserveBlock, callVars, brokerVars, netVars
<1>2. /\ pc[c] = "reserve" /\ p \in PartBatches(c) /\ cursor[c][p] = None
      /\ cursor' = [cursor EXCEPT ![c][p] = sequences[p]]
      /\ sequences' = [sequences EXCEPT ![p] = @ + BlockLength(c, p)]
  BY Zenon DEF ReserveBlock
<1>3. /\ cursor'[c][p] = sequences[p] /\ sequences'[p] = sequences[p] + BlockLength(c, p)
      /\ \A q \in Partitions \ {p} : cursor'[c][q] = cursor[c][q] /\ sequences'[q] = sequences[q]
  <2>1. cursor[c] \in [Partitions -> Nat \cup {None}] /\ c \in DOMAIN cursor
    BY <1>0, Zenon DEF TypeAttempt
  <2>2. sequences \in [Partitions -> Nat]
    BY <1>0, Zenon DEF TypeClient
  <2> QED
    BY <1>2, <2>1, <2>2, Zenon
<1>4. ~Settled(c, p)
  BY <1>0, <1>2, PartBatchesUnsettled, Zenon
<1>5. SameBatches(c) /\ PendingRecords(c)' = PendingRecords(c) /\ PartBatches(c)' = PartBatches(c)
  BY <1>1, BatchesKept, Zenon
<1>6. \A q \in Partitions : Batch(c, q)' = Batch(c, q) /\ Count(c, q)' = Count(c, q)
  BY <1>5, Zenon DEF SameBatches, Count
<1>7. /\ cursor'[c][p] = BaseSeq(c, p)' /\ BaseSeq(c, p)' = BaseSeq(c, p)
  <2>1. sequences[p] \in Nat /\ BlockLength(c, p) = Count(c, p) /\ Count(c, p) \in Nat
    BY <1>0, <1>4, BatchFacts, UnsettledBatch, Zenon
  <2>2. sequences'[p] - Count(c, p)' = sequences[p] /\ sequences[p] # None
    BY <1>3, <1>6, <2>1, ConstantsAssumption
  <2>3. Held(c, p)' /\ ~Held(c, p)
    BY <1>1, <1>2, <1>3, <2>2, Zenon DEF Held
  <2> QED
    BY <1>3, <2>2, <2>3, Zenon DEF BaseSeq
<1>8. \A q \in Partitions \ {p} : BaseSeq(c, q)' = BaseSeq(c, q)
  <2>1. \A q \in Partitions \ {p} : Held(c, q)' <=> Held(c, q)
    BY <1>1, <1>3, Zenon DEF Held
  <2> QED
    BY <1>3, <1>6, <2>1, Zenon DEF BaseSeq
<1>9. Kept(c)
  BY <1>1, <1>3, <1>4, <1>5, <1>7, <1>8, Zenon DEF Kept, brokerVars
<1>10. AgreeInv(c)' /\ RequestInv(c)' /\ StoredInv(c)'
  <2>1. attempt'[c] \in Nat /\ attempt[c] <= attempt'[c]
    BY <1>1, CallTypes
  <2> QED
    BY <1>1, <1>6, <1>9, <2>1, KeptAgree, KeptRequests, KeptStored, Zenon DEF OnceInv, RequestInv
<1>11. CallInv(c)'
  BY <1>0, <1>1, <1>2, <1>5, KeptCall, Zenon DEF InAttempt
<1>12. AttemptInv(c)'
  <2>1. Routed(c)' /\ failed[c] = {} /\ err[c] = "none" /\ \A n \in Nodes : request[c][n] \notin {"todo", "waiting"}
    BY <1>0, <1>1, <1>2, <1>5, Zenon DEF AttemptInv, Routed
  <2>2. \A q \in PartBatches(c) : cursor'[c][q] # None => cursor'[c][q] = BaseSeq(c, q)'
    <3>1. \A q \in PartBatches(c) : q \in Partitions /\ (cursor[c][q] # None => cursor[c][q] = BaseSeq(c, q))
      BY <1>0, <1>2, Zenon DEF AttemptInv, PartBatches
    <3> QED
      BY <1>3, <1>7, <1>8, <3>1, Zenon
  <2> QED
    BY <1>1, <1>2, <1>5, <2>1, <2>2, Zenon DEF AttemptInv
<1>13. RoundTripInv(c)'
  <2>1. \A m \in net : ~Current(m) /\ ~Current(m)'
    BY <1>0, <1>1, <1>2, Zenon DEF Current, RoundTripInv, RequestOut
  <2> QED
    BY <1>0, <1>1, <1>2, <2>1, NoRoundTrips, Zenon
<1> QED
  BY <1>10, <1>11, <1>12, <1>13, Zenon DEF OnceInv

LEMMA StartOnce ==
    ASSUME TypeInv, NEW c \in Callers, Idempotent, OnceInv(c), StartFanOut(c)
    PROVE  OnceInv(c)'
<1>0. CallInv(c) /\ AttemptInv(c) /\ RoundTripInv(c) /\ TypeCall /\ TypeAttempt
  BY Zenon DEF OnceInv, TypeInv, TypeOK
<1>1. UNCHANGED <<pidReady, sequences, meta, calls, size, attempt, frozen, acked, route, cursor,
                  got, failed, err, log, leo, nextSeq, appended, net, replies, delivered>>
  BY Zenon DEF StartFanOut, producerVars, callVars, brokerVars, netVars
<1>2. /\ pc[c] = "reserve" /\ pc'[c] = "send" /\ \A p \in PartBatches(c) : cursor[c][p] # None
      /\ \A n \in Nodes : request'[c][n] = IF BrokerPartKeys(c, n) # {} THEN "todo" ELSE "none"
  BY <1>0, Zenon DEF StartFanOut, TypeCall, TypeAttempt
<1>3. \A p \in Partitions : p \in PartBatches(c) <=> ~Settled(c, p)
  BY <1>0, <1>2, PartBatchesUnsettled, Zenon
<1>4. \A p \in Partitions : ~Settled(c, p) => (Held(c, p)' <=> Held(c, p))
  BY <1>2, <1>3, Zenon DEF Held
<1>5. /\ Kept(c) /\ PendingRecords(c)' = PendingRecords(c) /\ PartBatches(c)' = PartBatches(c)
      /\ AgreeInv(c)' /\ RequestInv(c)' /\ StoredInv(c)'
  BY <1>1, <1>4, QuietStep, Zenon DEF brokerVars
<1>6. CallInv(c)'
  BY <1>0, <1>1, <1>2, <1>5, KeptCall, Zenon DEF Kept, InAttempt
<1>7. AttemptInv(c)'
  <2>1. Routed(c) /\ Routed(c)' /\ failed[c] = {}
    BY <1>0, <1>1, <1>2, <1>5, Zenon DEF AttemptInv, Routed
  <2>2. ASSUME NEW p \in PartBatches(c)
        PROVE  FanOut(c, p)'
    <3>1. p \in Partitions /\ ~Settled(c, p)
      BY <1>3, Zenon DEF PartBatches
    <3>2. meta[p] \in Nodes /\ p \in BrokerPartKeys(c, meta[p])
      BY <2>1, RoutedTogether, Zenon
    <3>3. request'[c][meta[p]] = "todo"
      BY <1>2, <3>2, Zenon
    <3>4. cursor[c][p] = BaseSeq(c, p) /\ BaseSeq(c, p)' = BaseSeq(c, p) /\ ~Settled(c, p)'
      BY <1>0, <1>2, <1>5, <3>1, Zenon DEF AttemptInv, Kept, SameBatches
    <3> QED
      BY <1>1, <2>1, <3>3, <3>4, Zenon DEF FanOut
  <2> QED
    BY <1>1, <1>2, <1>5, <2>1, <2>2, Zenon DEF AttemptInv
<1>8. RoundTripInv(c)'
  <2>1. \A m \in net : ~Current(m)'
    BY <1>0, <1>1, <1>2, Zenon DEF Current, RoundTripInv, RequestOut
  <2>2. replies = {}
    BY <1>0, <1>2, Zenon DEF RoundTripInv, ReplyBack
  <2> QED
    BY <1>1, <2>1, <2>2, Zenon DEF RoundTripInv
<1> QED
  BY <1>5, <1>6, <1>7, <1>8, Zenon DEF OnceInv

(* During the fan-out the batches, their base sequences and their routes   *)
(* stay what they are.                                                     *)
LEMMA FanOutKept ==
    ASSUME TypeInv, NEW c \in Callers, OnceInv(c), pc[c] = "send",
           UNCHANGED <<sequences, meta, pc, calls, size, attempt, frozen, acked, route, got, brokerVars, delivered>>
    PROVE  /\ Kept(c) /\ PartBatches(c)' = PartBatches(c)
           /\ Routed(c) /\ Routed(c)' /\ AgreeInv(c)' /\ StoredInv(c)'
           /\ \A p \in Partitions : /\ BaseSeq(c, p)' = BaseSeq(c, p) /\ Count(c, p)' = Count(c, p)
                                    /\ (Settled(c, p)' <=> Settled(c, p))
                                    /\ \A o : StoredAt(c, p, o) => StoredAt(c, p, o)'
           /\ \A n : BrokerPartKeys(c, n)' = BrokerPartKeys(c, n)
           /\ \A m : Current(m)' <=> Current(m)
           /\ \A m \in net : RequestFor(c, m)'
<1>1. SameBatches(c) /\ PendingRecords(c)' = PendingRecords(c) /\ PartBatches(c)' = PartBatches(c)
  BY BatchesKept, Zenon
<1>2. \A p \in Partitions : /\ Batch(c, p)' = Batch(c, p) /\ Count(c, p)' = Count(c, p)
                            /\ (Settled(c, p)' <=> Settled(c, p))
  BY <1>1, Zenon DEF SameBatches, Count
<1>3. \A p \in Partitions : BaseSeq(c, p)' = BaseSeq(c, p)
  <2>1. \A p \in Partitions : Held(c, p) /\ Held(c, p)'
    BY Zenon DEF Held
  <2> QED
    BY <1>2, <2>1, Zenon DEF BaseSeq
<1>4. Kept(c)
  BY <1>1, <1>3, Zenon DEF Kept
<1>5. AgreeInv(c)' /\ StoredInv(c)'
  BY <1>2, <1>4, KeptAgree, KeptStored, Zenon DEF OnceInv, brokerVars
<1>6. \A p \in Partitions : \A o : StoredAt(c, p, o) => StoredAt(c, p, o)'
  BY <1>2, Zenon DEF StoredAt, Entry, brokerVars
<1>7. Routed(c) /\ Routed(c)'
  BY <1>1, Zenon DEF OnceInv, AttemptInv, Routed
<1>8. \A n : BrokerPartKeys(c, n)' = BrokerPartKeys(c, n)
  BY Zenon DEF BrokerPartKeys, SentTo, InputByKey, PendingRecords
<1>9. \A m : Current(m)' <=> Current(m)
  BY Zenon DEF Current
<1>10. \A m \in net : RequestFor(c, m)'
  <2>1. attempt'[c] \in Nat /\ attempt[c] <= attempt'[c]
    BY CallTypes
  <2> QED
    BY <1>4, <2>1, KeptRequests, Zenon DEF OnceInv
<1> QED
  BY <1>1, <1>2, <1>3, <1>4, <1>5, <1>6, <1>7, <1>8, <1>9, <1>10, Zenon

LEMMA SendOnce ==
    ASSUME TypeInv, NEW c \in Callers, Idempotent, OnceInv(c), NEW b \in Nodes, Send(c, b)
    PROVE  OnceInv(c)'
<1>0. CallInv(c) /\ AttemptInv(c) /\ RoundTripInv(c) /\ TypeAttempt /\ TypeNet
  BY Zenon DEF OnceInv, TypeInv, TypeOK
<1>1. UNCHANGED <<pidReady, sequences, meta, pc, calls, size, attempt, frozen, acked, route, got, failed,
                  err, log, leo, nextSeq, appended, brokerVars, replies, delivered>>
  BY Zenon DEF Send, producerVars, callVars, brokerVars
<1>m. PICK m : m = [c |-> c, k |-> calls[c], a |-> attempt[c], b |-> b,
                    batch |-> [p \in BrokerPartKeys(c, b) |->
                                 [seq |-> cursor[c][p], recs |-> SentTo(c, b, p)]]]
  BY Zenon
<1>2. pc[c] = "send" /\ request[c][b] = "todo" /\ net' = net \cup {m}
  BY <1>m, Zenon DEF Send
<1>3. /\ request'[c][b] = "waiting" /\ \A n \in Nodes \ {b} : request'[c][n] = request[c][n]
      /\ \A p \in Partitions : p \notin BrokerPartKeys(c, b) => cursor'[c][p] = cursor[c][p]
  <2>1. request[c] \in [Nodes -> {"none", "todo", "waiting", "done"}] /\ c \in DOMAIN request
    BY <1>0, Zenon DEF TypeAttempt
  <2>2. c \in DOMAIN cursor
    BY <1>0, Zenon DEF TypeAttempt
  <2> QED
    BY <2>1, <2>2, Zenon DEF Send
<1>4. /\ Kept(c) /\ PartBatches(c)' = PartBatches(c)
      /\ Routed(c) /\ Routed(c)' /\ AgreeInv(c)' /\ StoredInv(c)'
      /\ \A p \in Partitions : /\ BaseSeq(c, p)' = BaseSeq(c, p) /\ Count(c, p)' = Count(c, p)
                               /\ (Settled(c, p)' <=> Settled(c, p))
                               /\ \A o : StoredAt(c, p, o) => StoredAt(c, p, o)'
      /\ \A n : BrokerPartKeys(c, n)' = BrokerPartKeys(c, n)
      /\ \A r : Current(r)' <=> Current(r)
      /\ \A r \in net : RequestFor(c, r)'
  BY <1>1, <1>2, FanOutKept, Zenon
<1>5. CallInv(c)'
  BY <1>0, <1>1, <1>2, <1>4, KeptCall, Zenon DEF Kept, InAttempt
<1>6. /\ \A p \in PartBatches(c) : p \in Partitions /\ meta[p] \in Nodes /\ SentTo(c, meta[p], p) = InputByKey(c, p)
      /\ \A n, p : p \in BrokerPartKeys(c, n) <=> p \in PartBatches(c) /\ n = meta[p]
  BY <1>4, RoutedTogether, Zenon DEF PartBatches
<1>7. \A p \in PartBatches(c) : FanOut(c, p)
  BY <1>0, <1>2, Zenon DEF AttemptInv
<1>8. AttemptInv(c)'
  <2>1. ASSUME NEW p \in PartBatches(c)
        PROVE  FanOut(c, p)'
    <3>1. CASE meta[p] = b
      <4>1. FanOut(c, p)
        BY <1>7, Zenon
      <4>2. p \notin failed[c] /\ ~Settled(c, p)
        BY <1>2, <3>1, <4>1, Zenon DEF FanOut
      <4>3. request'[c][meta'[p]] = "waiting" /\ p \notin failed'[c] /\ ~Settled(c, p)'
        BY <1>1, <1>3, <1>4, <1>6, <3>1, <4>2, Zenon
      <4> QED
        BY <4>3, Zenon DEF FanOut
    <3>2. CASE meta[p] # b
      <4>1. request'[c][meta'[p]] = request[c][meta[p]] /\ cursor'[c][p] = cursor[c][p] /\ p \in Partitions
        BY <1>1, <1>3, <1>6, <3>2, Zenon
      <4> QED
        BY <1>1, <1>4, <1>7, <4>1, Zenon DEF FanOut
    <3> QED
      BY <3>1, <3>2, Zenon
  <2> QED
    BY <1>0, <1>1, <1>2, <1>4, <2>1, Zenon DEF AttemptInv
<1>9. RequestInv(c)'
  <2>1. RequestFor(c, m)'
    <3>1. m.k = calls[c] /\ m.a = attempt[c] /\ calls[c] <= calls[c] /\ attempt[c] <= attempt[c]
      BY <1>m, CallTypes
    <3>2. frozen[c][1] # None
      BY <1>2, Zenon DEF TypeInv, FrozenAtOnce, InAttempt
    <3>3. ASSUME NEW p \in DOMAIN m.batch
          PROVE  /\ m.batch[p].seq \in Nat /\ ~Settled(c, p)'
                 /\ m.batch[p].recs = Batch(c, p)' /\ m.batch[p].seq = BaseSeq(c, p)'
      <4>1. p \in BrokerPartKeys(c, b) /\ m.batch[p].seq = cursor[c][p] /\ m.batch[p].recs = SentTo(c, b, p)
        BY <1>m, Zenon
      <4>2. p \in PartBatches(c) /\ meta[p] = b /\ p \in Partitions
        BY <1>6, <4>1, Zenon
      <4>3. cursor[c][p] = BaseSeq(c, p) /\ ~Settled(c, p)
        BY <1>2, <1>7, <4>2, Zenon DEF FanOut
      <4>4. cursor[c][p] \in Nat
        BY <1>2, <4>2, Zenon DEF TypeInv, CursorsReserved
      <4>5. SentTo(c, b, p) = Batch(c, p)
        BY <1>0, <1>6, <4>2, <4>3, UnsettledBatch, Zenon
      <4>6. Batch(c, p)' = Batch(c, p)
        BY <1>4, <4>2, Zenon DEF Kept, SameBatches
      <4> QED
        BY <1>4, <4>1, <4>2, <4>3, <4>4, <4>5, <4>6, Zenon
    <3> QED
      BY <1>1, <3>1, <3>2, <3>3, Zenon DEF RequestFor
  <2> QED
    BY <1>2, <1>4, <2>1, Zenon DEF RequestInv
<1>10. RoundTripInv(c)'
  <2>1. m.b = b /\ DOMAIN m.batch = BrokerPartKeys(c, b)
    BY <1>m, Zenon
  <2>2. \A n \in net : Current(n) => n.b # b
    BY <1>0, <1>2, Zenon DEF RoundTripInv, RequestOut
  <2>3. \A r \in replies : r.b # b /\ r.b \in Nodes /\ DOMAIN r.res \subseteq Partitions
    BY <1>0, <1>2, Zenon DEF RoundTripInv, ReplyBack, TypeNet, IsReply, Nodes
  <2>4. \A n \in net : n.b \in Nodes
    BY <1>0, Zenon DEF TypeNet, IsMessage, Nodes
  <2>5. RequestOut(c, m)'
    BY <1>1, <1>2, <1>3, <1>4, <2>1, <2>2, Zenon DEF RequestOut
  <2>6. ASSUME NEW n \in net, Current(n)
        PROVE  RequestOut(c, n)'
    <3>1. RequestOut(c, n) /\ n.b # b /\ n.b \in Nodes
      BY <1>0, <2>2, <2>4, <2>6, Zenon DEF RoundTripInv
    <3> QED
      BY <1>1, <1>2, <1>3, <1>4, <2>1, <3>1, Zenon DEF RequestOut
  <2>7. ASSUME NEW r \in replies
        PROVE  ReplyBack(c, r)'
    <3>1. ReplyBack(c, r) /\ r.b # b /\ r.b \in Nodes /\ DOMAIN r.res \subseteq Partitions
      BY <1>0, <2>3, Zenon DEF RoundTripInv
    <3>2. \A p \in DOMAIN r.res : r.res[p].code = "none" =>
            nextSeq'[p] = BaseSeq(c, p)' + Count(c, p)' /\ StoredAt(c, p, r.res[p].off)'
      BY <1>1, <1>4, <3>1, Zenon DEF ReplyBack
    <3> QED
      BY <1>1, <1>2, <1>3, <1>4, <2>1, <3>1, <3>2, Zenon DEF ReplyBack
  <2> QED
    BY <1>1, <1>2, <1>4, <2>5, <2>6, <2>7, Zenon DEF RoundTripInv
<1> QED
  BY <1>4, <1>5, <1>8, <1>9, <1>10, Zenon DEF OnceInv

(* A request that fails, before it is written or after: its partitions are *)
(* collected for the rollback, and its reply, if any, is never read.       *)
LEMMA RequestFailedOnce ==
    ASSUME TypeInv, NEW c \in Callers, Sequential(c), OnceInv(c), NEW n \in Nodes,
           pc[c] = "send", request[c][n] \in {"todo", "waiting"},
           NEW e \in {"retriable", "fatal"}, RequestFailed(c, n, e),
           UNCHANGED <<pidReady, sequences, meta, pc, calls, size, attempt, frozen, acked, route, cursor, got,
                       brokerVars, delivered>>,
           net' \subseteq net, replies' \subseteq replies, \A r \in replies' : r.b # n
    PROVE  OnceInv(c)'
<1>0. CallInv(c) /\ AttemptInv(c) /\ RoundTripInv(c) /\ TypeAttempt /\ TypeNet
  BY Zenon DEF OnceInv, TypeInv, TypeOK
<1>1. /\ Kept(c) /\ PartBatches(c)' = PartBatches(c)
      /\ Routed(c) /\ Routed(c)' /\ AgreeInv(c)' /\ StoredInv(c)'
      /\ \A p \in Partitions : /\ BaseSeq(c, p)' = BaseSeq(c, p) /\ Count(c, p)' = Count(c, p)
                               /\ (Settled(c, p)' <=> Settled(c, p))
                               /\ \A o : StoredAt(c, p, o) => StoredAt(c, p, o)'
      /\ \A b : BrokerPartKeys(c, b)' = BrokerPartKeys(c, b)
      /\ \A m : Current(m)' <=> Current(m)
      /\ \A m \in net : RequestFor(c, m)'
  BY FanOutKept, Zenon
<1>2. /\ failed'[c] = failed[c] \cup BrokerPartKeys(c, n) /\ err'[c] \in {"retriable", "fatal"}
      /\ request'[c][n] = "done" /\ \A b \in Nodes \ {n} : request'[c][b] = request[c][b]
  <2>1. request[c] \in [Nodes -> {"none", "todo", "waiting", "done"}] /\ c \in DOMAIN request
    BY <1>0, Zenon DEF TypeAttempt
  <2>2. c \in DOMAIN failed /\ c \in DOMAIN err
    BY <1>0, Zenon DEF TypeAttempt
  <2> QED
    BY <2>1, <2>2, Zenon DEF RequestFailed, WorseError
<1>3. CallInv(c)'
  BY <1>0, <1>1, KeptCall, Zenon DEF Kept, InAttempt
<1>4. /\ \A p \in PartBatches(c) : p \in Partitions /\ meta[p] \in Nodes
      /\ \A b, p : p \in BrokerPartKeys(c, b) <=> p \in PartBatches(c) /\ b = meta[p]
  BY <1>1, RoutedTogether, Zenon DEF PartBatches
<1>5. AttemptInv(c)'
  <2>1. ASSUME NEW p \in PartBatches(c)
        PROVE  FanOut(c, p)'
    <3>0. FanOut(c, p) /\ p \in Partitions
      BY <1>0, <1>4, Zenon DEF AttemptInv
    <3>1. CASE meta[p] = n
      <4>1. ~Settled(c, p)
        BY <3>0, <3>1, Zenon DEF FanOut
      <4>2. request'[c][meta'[p]] = "done" /\ p \in failed'[c] /\ ~Settled(c, p)'
        BY <1>1, <1>2, <1>4, <3>0, <3>1, <4>1, Zenon
      <4> QED
        BY <4>2, Zenon DEF FanOut
    <3>2. CASE meta[p] # n
      <4>1. request'[c][meta'[p]] = request[c][meta[p]] /\ (p \in failed'[c] <=> p \in failed[c])
        BY <1>2, <1>4, <3>2, Zenon
      <4> QED
        BY <1>1, <3>0, <4>1, Zenon DEF FanOut
    <3> QED
      BY <3>1, <3>2, Zenon
  <2>2. failed'[c] \subseteq PartBatches(c) /\ err'[c] # "none"
    BY <1>0, <1>2, <1>4, Zenon DEF AttemptInv
  <2> QED
    BY <1>1, <2>1, <2>2, Zenon DEF AttemptInv
<1>6. RequestInv(c)'
  BY <1>1, Zenon DEF RequestInv
<1>7. RoundTripInv(c)'
  <2>1. ASSUME NEW m \in net, Current(m)
        PROVE  RequestOut(c, m)'
    <3>1. RequestOut(c, m) /\ m.b \in Nodes
      BY <1>0, <2>1, Zenon DEF RoundTripInv, TypeNet, IsMessage, Nodes
    <3>2. request'[c][m.b] \in {"waiting", "done"}
      BY <1>2, <3>1, Zenon DEF RequestOut
    <3> QED
      BY <1>1, <3>1, <3>2, Zenon DEF RequestOut
  <2>2. ASSUME NEW r \in replies'
        PROVE  ReplyBack(c, r)'
    <3>1. ReplyBack(c, r) /\ r.b \in Nodes \ {n} /\ DOMAIN r.res \subseteq Partitions
      BY <1>0, Zenon DEF RoundTripInv, TypeNet, IsReply, Nodes
    <3>2. \A p \in DOMAIN r.res : r.res[p].code = "none" =>
            nextSeq'[p] = BaseSeq(c, p)' + Count(c, p)' /\ StoredAt(c, p, r.res[p].off)'
      BY <1>1, <3>1, Zenon DEF ReplyBack, brokerVars
    <3> QED
      BY <1>1, <1>2, <3>1, <3>2, Zenon DEF ReplyBack
  <2> QED
    BY <1>1, <2>1, <2>2, Zenon DEF RoundTripInv
<1> QED
  BY <1>1, <1>3, <1>5, <1>6, <1>7, Zenon DEF OnceInv

LEMMA FailuresOnce ==
    ASSUME TypeInv, NEW c \in Callers, Sequential(c), OnceInv(c), NEW n \in Nodes,
           SendFails(c, n) \/ RequestFails(c, n)
    PROVE  OnceInv(c)'
<1>1. /\ pc[c] = "send" /\ net' \subseteq net /\ replies' \subseteq replies
      /\ UNCHANGED <<pidReady, sequences, meta, pc, calls, size, attempt, frozen, acked, route, cursor, got,
                     brokerVars, delivered>>
      /\ request[c][n] \in {"todo", "waiting"}
  BY Zenon DEF SendFails, RequestFails, producerVars, callVars, netVars
<1>2. PICK e \in {"retriable", "fatal"} : RequestFailed(c, n, e)
  BY Zenon DEF SendFails, RequestFails, RoundTripErrors
<1>3. \A r \in replies' : r.b # n
  <2>1. CASE SendFails(c, n)
    BY <2>1, Zenon DEF SendFails, netVars, OnceInv, RoundTripInv, ReplyBack
  <2>2. CASE RequestFails(c, n)
    <3>1. \A r \in replies : r.c = c
      BY Zenon DEF TypeInv, TypeOK, TypeNet, IsReply, Sequential
    <3> QED
      BY <2>2, <3>1, Zenon DEF RequestFails, MyReply
  <2> QED
    BY <2>1, <2>2, Zenon
<1> QED
  BY <1>1, <1>2, <1>3, RequestFailedOnce, Zenon

(* A response settles the partitions it acknowledges, collects the others, *)
(* and the acknowledged offsets are where the records are.                 *)
LEMMA ReceiveOnce ==
    ASSUME TypeInv, NEW c \in Callers, OnceInv(c), NEW b \in Nodes, Receive(c, b)
    PROVE  OnceInv(c)'
<1>0. /\ CallInv(c) /\ AttemptInv(c) /\ AgreeInv(c) /\ RequestInv(c) /\ RoundTripInv(c) /\ StoredInv(c)
      /\ TypeAttempt /\ TypeNet
  BY Zenon DEF OnceInv, TypeInv, TypeOK
<1>1. /\ pc[c] = "send" /\ request[c][b] = "waiting"
      /\ UNCHANGED <<pidReady, sequences, meta, pc, calls, size, attempt, frozen, acked, route, cursor,
                     log, leo, nextSeq, appended, net, delivered>>
  BY Zenon DEF Receive, producerVars, callVars, brokerVars
<1>2. PICK r \in replies : /\ r.b = b
        /\ LET bad == {p \in DOMAIN r.res : r.res[p].code # "none"}
               codes == {r.res[p].code : p \in bad}
           IN  /\ got' = [got EXCEPT ![c] =
                            [i \in Idx |->
                               IF i \in PendingRecords(c) /\ frozen[c][i] \in DOMAIN r.res \ bad
                               THEN RecordOffset(InputByKey(c, frozen[c][i]), i, r.res[frozen[c][i]].off)
                               ELSE got[c][i]]]
               /\ failed' = [failed EXCEPT ![c] = @ \cup bad]
               /\ err' = [err EXCEPT ![c] =
                            IF "fatal" \in codes THEN "fatal"
                            ELSE IF codes # {} THEN WorseError(@, "retriable") ELSE @]
               /\ replies' = replies \ {r}
  BY Zenon DEF Receive, MyReply
<1> DEFINE good == {p \in DOMAIN r.res : r.res[p].code = "none"}
           bad == {p \in DOMAIN r.res : r.res[p].code # "none"}
<1>3. /\ ReplyBack(c, r) /\ Routed(c) /\ DOMAIN r.res \subseteq Partitions
      /\ \A p \in good : r.res[p].off \in Nat
  <2>1. ReplyBack(c, r) /\ Routed(c)
    BY <1>0, <1>1, Zenon DEF RoundTripInv, AttemptInv
  <2>2. IsReply(r)
    BY <1>0, Zenon DEF TypeNet
  <2> QED
    BY <2>1, <2>2, Zenon DEF IsReply
<1>4. /\ \A p \in PartBatches(c) : p \in Partitions /\ meta[p] \in Nodes /\ FanOut(c, p)
      /\ \A p : p \in DOMAIN r.res <=> p \in PartBatches(c) /\ meta[p] = b
  <2>1. \A p \in PartBatches(c) : p \in Partitions /\ FanOut(c, p)
    BY <1>0, <1>1, Zenon DEF AttemptInv, PartBatches
  <2>2. /\ \A p \in PartBatches(c) : meta[p] \in Nodes
        /\ \A p : p \in BrokerPartKeys(c, b) <=> p \in PartBatches(c) /\ b = meta[p]
    BY <1>3, RoutedTogether, Zenon
  <2>3. DOMAIN r.res = BrokerPartKeys(c, b)
    BY <1>2, <1>3, Zenon DEF ReplyBack
  <2> QED
    BY <2>1, <2>2, <2>3, Zenon
<1>5. \A p \in DOMAIN r.res : ~Settled(c, p) /\ p \notin failed[c]
  BY <1>1, <1>4, Zenon DEF FanOut
<1>6. \A p \in Partitions : Batch(c, p)' = Batch(c, p) /\ Count(c, p)' = Count(c, p)
  BY <1>1, Zenon DEF Batch, Count
<1>7. \A p \in Partitions : \A i \in Batch(c, p) :
        /\ p \notin good => got'[c][i] = got[c][i]
        /\ p \in good => got'[c][i] = r.res[p].off + Rank(Batch(c, p), i) /\ got'[c][i] # None
  <2> TAKE p \in Partitions
  <2> TAKE i \in Batch(c, p)
  <2>1. i \in Idx /\ i \in 1 .. size[c] /\ frozen[c][i] = p
    BY CallTypes, Zenon DEF Batch
  <2>2. p \in good <=> p \in DOMAIN r.res \ bad
    BY Zenon
  <2>3. got'[c][i] = IF i \in PendingRecords(c) /\ p \in DOMAIN r.res \ bad
                     THEN RecordOffset(InputByKey(c, p), i, r.res[p].off) ELSE got[c][i]
    <3>1. c \in DOMAIN got
      BY <1>0, Zenon DEF TypeAttempt
    <3> QED
      BY <1>2, <2>1, <3>1, Zenon
  <2>4. ASSUME p \in good
        PROVE  got'[c][i] = r.res[p].off + Rank(Batch(c, p), i) /\ got'[c][i] # None
    <3>1. InputByKey(c, p) = Batch(c, p)
      BY <1>0, <1>5, <2>4, UnsettledBatch, Zenon
    <3>2. i \in PendingRecords(c)
      BY <3>1, Zenon DEF InputByKey
    <3>3. Rank(Batch(c, p), i) \in Nat /\ r.res[p].off \in Nat
      BY <1>3, <2>4, BatchFacts, RankOrder, Zenon
    <3>4. got'[c][i] = r.res[p].off + Rank(Batch(c, p), i)
      BY <2>2, <2>3, <2>4, <3>1, <3>2, Zenon DEF RecordOffset
    <3> QED
      BY <3>3, <3>4, ConstantsAssumption
  <2> QED
    BY <2>2, <2>3, <2>4, Zenon
<1>8. \A p \in Partitions :
        /\ p \in good => Settled(c, p)'
        /\ p \notin good => (Settled(c, p)' <=> Settled(c, p)) /\ (Untouched(c, p)' <=> Untouched(c, p))
  BY <1>1, <1>6, <1>7, Zenon DEF Settled, Untouched
<1>9. \A p \in Partitions : BaseSeq(c, p)' = BaseSeq(c, p) /\ BaseSeq(c, p) = sequences[p] - Count(c, p)
  BY <1>1, <1>6, Zenon DEF BaseSeq, Held
<1>10. \A p \in good : /\ nextSeq[p] = BaseSeq(c, p) + Count(c, p) /\ StoredAt(c, p, r.res[p].off)
                       /\ nextSeq[p] = sequences[p] /\ BaseSeq(c, p) < nextSeq[p]
  <2> SUFFICES ASSUME NEW p \in good
               PROVE  /\ nextSeq[p] = BaseSeq(c, p) + Count(c, p) /\ StoredAt(c, p, r.res[p].off)
                      /\ nextSeq[p] = sequences[p] /\ BaseSeq(c, p) < nextSeq[p]
    BY Zenon
  <2>1. nextSeq[p] = BaseSeq(c, p) + Count(c, p) /\ StoredAt(c, p, r.res[p].off)
    BY <1>3, Zenon DEF ReplyBack
  <2>2. p \in Partitions /\ sequences[p] \in Nat /\ Count(c, p) \in Nat /\ Count(c, p) > 0
    BY <1>0, <1>3, <1>5, BatchFacts, UnsettledBatch, Zenon
  <2>3. BaseSeq(c, p) = sequences[p] - Count(c, p)
    BY <1>9, <2>2, Zenon
  <2> QED
    BY <2>1, <2>2, <2>3
<1> HIDE DEF good, bad
<1>11. AgreeInv(c)'
  <2>1. \A p \in Partitions : \A o : StoredAt(c, p, o) => StoredAt(c, p, o)'
    BY <1>1, <1>6, Zenon DEF StoredAt, Entry
  <2> SUFFICES ASSUME NEW p \in Partitions
               PROVE  /\ Settled(c, p)' => sequences'[p] = nextSeq'[p]
                      /\ ~Settled(c, p)' => BaseSeq(c, p)' \in Nat
                      /\ ~Settled(c, p)' =>
                            \/ nextSeq'[p] = BaseSeq(c, p)' /\ \A e \in log'[p] : e.rec[2] < calls'[c]
                            \/ /\ nextSeq'[p] = BaseSeq(c, p)' + Count(c, p)'
                               /\ \A e \in appended'[p] : e.seq = BaseSeq(c, p)' => StoredAt(c, p, e.off)'
                      /\ \A e \in appended'[p] : e.seq \in Nat /\ e.n > 0 /\ e.seq + e.n <= nextSeq'[p]
    BY Zenon DEF AgreeInv
  <2>2. CASE p \in good
    BY <1>0, <1>1, <1>8, <1>10, <2>2, Zenon DEF AgreeInv
  <2>3. CASE p \notin good
    BY <1>0, <1>1, <1>6, <1>8, <1>9, <2>1, <2>3, Zenon DEF AgreeInv
  <2> QED
    BY <2>2, <2>3, Zenon
<1>12. CallInv(c)'
  <2>1. pidReady /\ frozen[c][1] # None
    BY <1>0, <1>1, Zenon DEF CallInv, TypeInv, FrozenAtOnce, InAttempt
  <2> QED
    BY <1>0, <1>1, <1>8, <2>1, Zenon DEF CallInv
<1>13. RequestInv(c)'
  <2> SUFFICES ASSUME NEW m \in net PROVE RequestFor(c, m)'
    BY <1>1, Zenon DEF RequestInv
  <2>1. RequestFor(c, m) /\ DOMAIN m.batch \subseteq Partitions
    BY <1>0, Zenon DEF RequestInv, TypeNet, IsMessage
  <2>2. ASSUME NEW p \in DOMAIN m.batch
        PROVE  /\ m.batch[p].seq \in Nat
               /\ m.k = calls[c] /\ ~Settled(c, p)' =>
                     m.batch[p].recs = Batch(c, p)' /\ m.batch[p].seq = BaseSeq(c, p)'
               /\ m.k # calls[c] \/ Settled(c, p)' => m.batch[p].seq < nextSeq[p]
    <3>0. p \in Partitions
      BY <2>1, Zenon
    <3>1. CASE p \in good
      <4>1. ~Settled(c, p) /\ Settled(c, p)' /\ BaseSeq(c, p) < nextSeq[p]
        BY <1>5, <1>8, <1>10, <3>0, <3>1, Zenon DEF good
      <4> QED
        BY <2>1, <4>1, Zenon DEF RequestFor
    <3>2. CASE p \notin good
      BY <1>6, <1>8, <1>9, <2>1, <3>0, <3>2, Zenon DEF RequestFor
    <3> QED
      BY <3>1, <3>2, Zenon
  <2> QED
    BY <1>1, <2>1, <2>2, Zenon DEF RequestFor
<1>14. StoredInv(c)'
  <2>1. (\A p \in Partitions : \A e \in log[p] :
            /\ e.off < leo[p] /\ e.rec[2] <= calls[c]
            /\ e.rec[2] = calls[c] => e.rec[3] \in Batch(c, p))'
    BY <1>0, <1>1, <1>6 DEF StoredInv
  <2>2. (\A p \in Partitions : \A i \in Batch(c, p) :
            /\ got[c][i] # None => Entry(c, i, got[c][i]) \in log[p]
            /\ i \in acked[c] => \E e \in log[p] : e.rec = <<c, calls[c], i>>)'
    <3> SUFFICES ASSUME NEW p \in Partitions, NEW i \in Batch(c, p)
                 PROVE  /\ got'[c][i] # None => Entry(c, i, got[c][i])' \in log[p]
                        /\ i \in acked[c] => \E e \in log[p] : e.rec = <<c, calls[c], i>>
      BY <1>1, <1>6, Zenon
    <3>1. /\ got[c][i] # None => Entry(c, i, got[c][i]) \in log[p]
          /\ i \in acked[c] => \E e \in log[p] : e.rec = <<c, calls[c], i>>
      BY <1>0, Zenon DEF StoredInv
    <3>2. p \in good => Entry(c, i, r.res[p].off + Rank(Batch(c, p), i)) \in log[p]
      BY <1>10, Zenon DEF StoredAt
    <3> QED
      BY <1>1, <1>7, <3>1, <3>2, Zenon DEF Entry
  <2>3. InOrder'
    BY <1>0, <1>1, Zenon DEF StoredInv, InOrder
  <2> QED
    BY <1>0, <1>1, <2>1, <2>2, <2>3, Zenon DEF StoredInv
<1>15. /\ failed'[c] = failed[c] \cup bad /\ (err'[c] = "none" => err[c] = "none" /\ bad = {})
       /\ request'[c][b] = "done" /\ \A n \in Nodes \ {b} : request'[c][n] = request[c][n]
       /\ replies' = replies \ {r}
  <2>1. request[c] \in [Nodes -> {"none", "todo", "waiting", "done"}] /\ c \in DOMAIN request
    BY <1>0, Zenon DEF TypeAttempt
  <2>2. c \in DOMAIN failed /\ c \in DOMAIN err
    BY <1>0, Zenon DEF TypeAttempt
  <2>3. request' = [request EXCEPT ![c][b] = "done"]
    BY Zenon DEF Receive
  <2>4. err'[c] = "none" => err[c] = "none" /\ {r.res[p].code : p \in bad} = {}
    BY <1>2, <2>2, Zenon DEF bad, WorseError
  <2>5. {r.res[p].code : p \in bad} = {} => bad = {}
    BY Zenon
  <2>6. failed'[c] = failed[c] \cup bad /\ replies' = replies \ {r}
    BY <1>2, <2>2, Zenon DEF bad
  <2> QED
    BY <2>1, <2>3, <2>4, <2>5, <2>6, Zenon
<1>16. PartBatches(c)' = PartBatches(c) /\ Routed(c)' /\ \A n : BrokerPartKeys(c, n)' = BrokerPartKeys(c, n)
  BY <1>1, <1>3, Zenon DEF PartBatches, Routed, BrokerPartKeys, SentTo, InputByKey, PendingRecords
<1>17. AttemptInv(c)'
  <2>1. ASSUME NEW p \in PartBatches(c)
        PROVE  FanOut(c, p)'
    <3>0. FanOut(c, p) /\ p \in Partitions /\ meta[p] \in Nodes
      BY <1>4, Zenon
    <3>1. CASE meta[p] = b
      <4>1. p \in DOMAIN r.res /\ ~Settled(c, p) /\ p \notin failed[c]
        BY <1>4, <1>5, <3>1, Zenon
      <4>2. p \in failed'[c] <=> ~Settled(c, p)'
        BY <1>8, <1>15, <3>0, <4>1, Zenon DEF good, bad
      <4>3. request'[c][meta'[p]] = "done"
        BY <1>1, <1>15, <3>1, Zenon
      <4> QED
        BY <4>2, <4>3, Zenon DEF FanOut
    <3>2. CASE meta[p] # b
      <4>1. p \notin DOMAIN r.res
        BY <1>4, <3>2, Zenon
      <4>2. p \notin good /\ (p \in failed'[c] <=> p \in failed[c])
        BY <1>15, <4>1, Zenon DEF good, bad
      <4>3. request'[c][meta'[p]] = request[c][meta[p]] /\ (Settled(c, p)' <=> Settled(c, p))
        BY <1>1, <1>8, <1>15, <3>0, <3>2, <4>2, Zenon
      <4> QED
        BY <1>1, <1>9, <3>0, <4>2, <4>3, Zenon DEF FanOut
    <3> QED
      BY <3>1, <3>2, Zenon
  <2>2. failed'[c] \subseteq PartBatches(c) /\ (err'[c] = "none" => failed'[c] = {})
    <3>1. failed[c] \subseteq PartBatches(c) /\ (err[c] = "none" => failed[c] = {})
      BY <1>0, <1>1, Zenon DEF AttemptInv
    <3>2. bad \subseteq PartBatches(c)
      BY <1>4, Zenon DEF bad
    <3> QED
      BY <1>15, <3>1, <3>2, Zenon
  <2> QED
    BY <1>1, <1>16, <2>1, <2>2, Zenon DEF AttemptInv
<1>18. RoundTripInv(c)'
  <2>0. \A m : Current(m)' <=> Current(m)
    BY <1>1, Zenon DEF Current
  <2>1. ASSUME NEW m \in net, Current(m)
        PROVE  RequestOut(c, m)'
    <3>1. RequestOut(c, m) /\ m.b \in Nodes
      BY <1>0, <2>1, Zenon DEF RoundTripInv, TypeNet, IsMessage, Nodes
    <3>2. request'[c][m.b] \in {"waiting", "done"}
      BY <1>1, <1>15, <3>1, Zenon DEF RequestOut
    <3> QED
      BY <1>1, <1>16, <2>0, <3>1, <3>2, Zenon DEF RequestOut
  <2>2. ASSUME NEW s \in replies'
        PROVE  ReplyBack(c, s)'
    <3>1. s \in replies /\ s # r /\ ReplyBack(c, s)
      BY <1>0, <1>15, Zenon DEF RoundTripInv
    <3>2. s.b \in Nodes \ {b} /\ DOMAIN s.res \subseteq Partitions
      BY <1>0, <1>2, <3>1, Zenon DEF ReplyBack, TypeNet, IsReply, Nodes
    <3>3. \A p \in DOMAIN s.res : s.res[p].code = "none" =>
            nextSeq'[p] = BaseSeq(c, p)' + Count(c, p)' /\ StoredAt(c, p, s.res[p].off)'
      <4>1. \A p \in Partitions : \A o : StoredAt(c, p, o) => StoredAt(c, p, o)'
        BY <1>1, <1>6, Zenon DEF StoredAt, Entry
      <4> QED
        BY <1>1, <1>6, <1>9, <3>1, <3>2, <4>1, Zenon DEF ReplyBack
    <3> QED
      BY <1>1, <1>15, <1>16, <2>0, <3>1, <3>2, <3>3, Zenon DEF ReplyBack
  <2> QED
    BY <1>1, <2>0, <2>1, <2>2, Zenon DEF RoundTripInv
<1> QED
  BY <1>11, <1>12, <1>13, <1>14, <1>17, <1>18, Zenon DEF OnceInv
=============================================================================
