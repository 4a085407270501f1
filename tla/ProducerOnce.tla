---------------------------- MODULE ProducerOnce ----------------------------
(***************************************************************************)
(* What ProduceSyncResult promises a sequential caller of an idempotent    *)
(* producer, for any partitions, brokers, faults and bounds: what it       *)
(* reports is stored, once, and in order.  The rest of a call, the         *)
(* brokers, and the theorems.                                              *)
(***************************************************************************)
EXTENDS ProducerAttempts

-----------------------------------------------------------------------------
(* A rolled back block is reserved again by the next attempt: the batch    *)
(* keeps its base sequence.                                                *)
LEMMA RollbackOnce ==
    ASSUME TypeInv, NEW c \in Callers, Idempotent, OnceInv(c), NEW p \in Partitions, RollbackBlock(c, p)
    PROVE  OnceInv(c)'
<1>0. CallInv(c) /\ AttemptInv(c) /\ AgreeInv(c) /\ RoundTripInv(c) /\ TypeClient /\ TypeAttempt
  BY Zenon DEF OnceInv, TypeInv, TypeOK
<1>1. UNCHANGED <<pidReady, meta, pc, calls, size, attempt, frozen, acked, route, cursor, request,
                  got, err, log, leo, nextSeq, appended, net, replies, delivered>>
  BY Zenon DEF RollbackBlock, callVars, brokerVars, netVars
<1>2. /\ pc[c] = "rollback" /\ p \in failed[c] /\ failed'[c] = failed[c] \ {p}
      /\ sequences'[p] = RolledBack(sequences[p], BlockLength(c, p))
      /\ \A q \in Partitions \ {p} : sequences'[q] = sequences[q]
  <2>1. sequences \in [Partitions -> Nat] /\ failed \in [Callers -> SUBSET Partitions]
    BY <1>0, Zenon DEF TypeClient, TypeAttempt
  <2> QED
    BY <2>1, Zenon DEF RollbackBlock
<1>3. ~Settled(c, p)
  BY <1>0, <1>2, Zenon DEF AttemptInv
<1>4. SameBatches(c) /\ PendingRecords(c)' = PendingRecords(c) /\ PartBatches(c)' = PartBatches(c)
  BY <1>1, BatchesKept, Zenon
<1>5. \A q \in Partitions : Batch(c, q)' = Batch(c, q) /\ Count(c, q)' = Count(c, q)
  BY <1>4, Zenon DEF SameBatches, Count
<1>6. BaseSeq(c, p)' = BaseSeq(c, p)
  <2>1. sequences[p] \in Nat /\ BlockLength(c, p) = Count(c, p) /\ Count(c, p) \in Nat
    BY <1>0, <1>3, BatchFacts, UnsettledBatch, Zenon
  <2>2. Held(c, p) /\ ~Held(c, p)'
    BY <1>1, <1>2, Zenon DEF Held
  <2>3. BaseSeq(c, p) = sequences[p] - Count(c, p) /\ BaseSeq(c, p)' = sequences'[p]
    BY <2>2, Zenon DEF BaseSeq
  <2>4. BaseSeq(c, p) \in Nat
    BY <1>0, <1>3, Zenon DEF AgreeInv
  <2> QED
    BY <1>2, <2>1, <2>3, <2>4 DEF RolledBack
<1>7. \A q \in Partitions \ {p} : BaseSeq(c, q)' = BaseSeq(c, q)
  <2>1. \A q \in Partitions \ {p} : Held(c, q)' <=> Held(c, q)
    BY <1>1, <1>2, Zenon DEF Held
  <2> QED
    BY <1>2, <1>5, <2>1, Zenon DEF BaseSeq
<1>8. Kept(c)
  BY <1>1, <1>2, <1>3, <1>4, <1>6, <1>7, Zenon DEF Kept, brokerVars
<1>9. AgreeInv(c)' /\ RequestInv(c)' /\ StoredInv(c)'
  <2>1. attempt'[c] \in Nat /\ attempt[c] <= attempt'[c]
    BY <1>1, CallTypes
  <2> QED
    BY <1>1, <1>5, <1>8, <2>1, KeptAgree, KeptRequests, KeptStored, Zenon DEF OnceInv, RequestInv
<1>10. CallInv(c)'
  BY <1>0, <1>1, <1>2, <1>4, KeptCall, Zenon DEF InAttempt
<1>11. AttemptInv(c)'
  <2>1. PartBatches(c) \subseteq Partitions /\ failed[c] \subseteq Partitions
    BY <1>0, Zenon DEF PartBatches, TypeAttempt
  <2>2. \A q \in Partitions : Settled(c, q)' <=> Settled(c, q)
    BY <1>4, Zenon DEF SameBatches
  <2> QED
    BY <1>0, <1>1, <1>2, <1>4, <2>1, <2>2, Zenon DEF AttemptInv
<1>12. RoundTripInv(c)'
  <2>1. \A m \in net : Current(m)' <=> Current(m)
    BY <1>1, Zenon DEF Current
  <2> QED
    BY <1>0, <1>1, <1>2, <2>1, NoRoundTrips, Zenon
<1> QED
  BY <1>9, <1>10, <1>11, <1>12, Zenon DEF OnceInv

(* The end of an attempt hands over what the attempt learnt; it reports    *)
(* success when it learnt everything.                                      *)
LEMMA FinishOnce ==
    ASSUME TypeInv, NEW c \in Callers, OnceInv(c), FinishAttempt(c)
    PROVE  OnceInv(c)'
<1>0. /\ CallInv(c) /\ AttemptInv(c) /\ AgreeInv(c) /\ RoundTripInv(c) /\ StoredInv(c)
      /\ TypeCall /\ FrozenAtOnce
  BY Zenon DEF OnceInv, TypeInv, TypeOK
<1>1. UNCHANGED <<pidReady, sequences, calls, size, attempt, frozen, route, cursor, request,
                  got, failed, err, log, leo, nextSeq, appended, net, replies>>
  BY Zenon DEF FinishAttempt, producerVars, callVars, attemptVars, brokerVars, netVars
<1> DEFINE fresh == {i \in PendingRecords(c) : got[c][i] # None}
<1>2. /\ acked'[c] = acked[c] \cup fresh
      /\ delivered' = delivered \cup
           {[rec |-> <<c, calls[c], i>>, part |-> frozen[c][i], off |-> got[c][i]] : i \in fresh}
      /\ \/ pc[c] = "rollback" /\ failed[c] = {}
         \/ pc[c] = "finish"
      /\ pc'[c] \in {"ok", "error", "backoff"} /\ (pc'[c] = "ok" => err[c] = "none")
  BY <1>0, Zenon DEF FinishAttempt, TypeCall
<1>3. pidReady /\ frozen[c][1] # None /\ \A i \in 1 .. size[c] : frozen[c][i] \in Partitions
  BY <1>0, <1>2, Zenon DEF CallInv, FrozenAtOnce, InAttempt
<1>4. \A p \in Partitions : /\ Batch(c, p)' = Batch(c, p)
                            /\ \A i \in Batch(c, p) : i \in acked'[c] <=> i \in acked[c] \/ got[c][i] # None
  BY <1>1, <1>2, Zenon DEF Batch, PendingRecords
<1> HIDE DEF fresh
<1>5. \A p \in Partitions : /\ Settled(c, p)' <=> Settled(c, p)
                            /\ Untouched(c, p)' <=> Untouched(c, p)
  BY <1>1, <1>4, Zenon DEF Settled, Untouched
<1>6. \A p \in Partitions : BaseSeq(c, p)' = BaseSeq(c, p)
  <2>1. \A p \in Partitions : ~Held(c, p) /\ ~Held(c, p)'
    BY <1>2, Zenon DEF Held
  <2> QED
    BY <1>1, <2>1, Zenon DEF BaseSeq
<1>7. Kept(c)
  BY <1>1, <1>4, <1>5, <1>6, Zenon DEF Kept, SameBatches, brokerVars
<1>8. AgreeInv(c)' /\ RequestInv(c)'
  <2>1. attempt'[c] \in Nat /\ attempt[c] <= attempt'[c]
    BY <1>1, CallTypes
  <2> QED
    BY <1>1, <1>7, <2>1, KeptAgree, KeptRequests, Zenon DEF OnceInv, RequestInv
<1>9. CallInv(c)'
  <2>1. pc'[c] = "ok" => 1 .. size[c] \subseteq acked'[c]
    <3> SUFFICES ASSUME pc'[c] = "ok", NEW i \in 1 .. size[c], i \notin acked[c]
                 PROVE  i \in acked'[c]
      BY <1>2, Zenon
    <3>1. PICK p \in Partitions : frozen[c][i] = p
      BY <1>3, Zenon
    <3>2. i \in Batch(c, p) /\ p \in PartBatches(c)
      BY <3>1, Zenon DEF Batch, PartBatches, InputByKey, PendingRecords
    <3>3. Settled(c, p)
      BY <1>0, <1>2, <3>2, Zenon DEF AttemptInv
    <3> QED
      BY <1>4, <3>2, <3>3, Zenon DEF Settled
  <2> QED
    BY <1>0, <1>1, <1>2, <1>3, <1>4, <1>5, <2>1, Zenon DEF CallInv
<1>10. AttemptInv(c)'
  BY <1>0, <1>1, <1>2, Zenon DEF AttemptInv
<1>11. RoundTripInv(c)'
  <2>1. \A m \in net : Current(m)' <=> Current(m)
    BY <1>1, Zenon DEF Current
  <2> QED
    BY <1>0, <1>1, <1>2, <2>1, NoRoundTrips, Zenon
<1>12. StoredInv(c)'
  <2>1. (\A p \in Partitions : \A e \in log[p] :
            /\ e.off < leo[p] /\ e.rec[2] <= calls[c]
            /\ e.rec[2] = calls[c] => e.rec[3] \in Batch(c, p))'
    <3> SUFFICES ASSUME NEW p \in Partitions, NEW e \in log[p]
                 PROVE  /\ e.off < leo[p] /\ e.rec[2] <= calls[c]
                        /\ e.rec[2] = calls[c] => e.rec[3] \in Batch(c, p)'
      BY <1>1, Zenon
    <3>1. StoredInv(c)!1!(p)!(e)
      BY <1>0, Zenon DEF StoredInv
    <3> QED
      BY <1>4, <3>1, Zenon
  <2>2. \A p \in Partitions : \A i \in Batch(c, p) : got[c][i] # None =>
          /\ Entry(c, i, got[c][i]) \in log[p] /\ Entry(c, i, got[c][i])' = Entry(c, i, got[c][i])
          /\ Entry(c, i, got[c][i]).rec = <<c, calls[c], i>>
    BY <1>0, <1>1, Zenon DEF StoredInv, Entry
  <2>3. (\A p \in Partitions : \A i \in Batch(c, p) :
            /\ got[c][i] # None => Entry(c, i, got[c][i]) \in log[p]
            /\ i \in acked[c] => \E e \in log[p] : e.rec = <<c, calls[c], i>>)'
    <3> SUFFICES ASSUME NEW p \in Partitions, NEW i \in Batch(c, p)
                 PROVE  /\ got[c][i] # None => Entry(c, i, got[c][i])' \in log[p]
                        /\ i \in acked'[c] => \E e \in log[p] : e.rec = <<c, calls[c], i>>
      BY <1>1, <1>4, Zenon
    <3>1. i \in acked[c] => \E e \in log[p] : e.rec = <<c, calls[c], i>>
      BY <1>0, Zenon DEF StoredInv
    <3> QED
      BY <1>4, <2>2, <3>1, Zenon
  <2>4. ASSUME NEW d \in delivered'
        PROVE  [off |-> d.off, rec |-> d.rec] \in log[d.part]
    <3>1. CASE d \in delivered
      BY <1>0, <3>1, Zenon DEF StoredInv
    <3>2. CASE d \notin delivered
      <4>1. PICK i \in fresh : d = [rec |-> <<c, calls[c], i>>, part |-> frozen[c][i], off |-> got[c][i]]
        BY <1>2, <3>2, Zenon
      <4>2. i \in 1 .. size[c] /\ got[c][i] # None
        BY Zenon DEF fresh, PendingRecords
      <4>3. PICK p \in Partitions : frozen[c][i] = p /\ i \in Batch(c, p)
        BY <1>3, <4>2, Zenon DEF Batch
      <4>4. Entry(c, i, got[c][i]) \in log[p]
        BY <2>2, <4>2, <4>3, Zenon
      <4> QED
        BY <4>1, <4>3, <4>4, Zenon DEF Entry
    <3> QED
      BY <3>1, <3>2, Zenon
  <2>5. InOrder'
    BY <1>0, <1>1, Zenon DEF StoredInv, InOrder
  <2> QED
    BY <1>0, <1>1, <2>1, <2>3, <2>4, <2>5, Zenon DEF StoredInv
<1> QED
  BY <1>8, <1>9, <1>10, <1>11, <1>12, Zenon DEF OnceInv

(* The next call starts when every record of the last one is acknowledged. *)
LEMMA ProduceOnce ==
    ASSUME TypeInv, NEW c \in Callers, StopOnError, OnceInv(c), Produce(c)
    PROVE  OnceInv(c)'
<1>0. /\ CallInv(c) /\ AttemptInv(c) /\ AgreeInv(c) /\ RequestInv(c) /\ RoundTripInv(c) /\ StoredInv(c)
      /\ TypeCall /\ TypeNet
  BY Zenon DEF OnceInv, TypeInv, TypeOK
<1>1. UNCHANGED <<pidReady, sequences, request, log, leo, nextSeq, appended, net, replies, delivered>>
  BY Zenon DEF Produce, producerVars, attemptVars, brokerVars, netVars
<1>2. /\ pc[c] \in {"idle", "ok"} /\ pc'[c] = "init" /\ calls'[c] = calls[c] + 1
      /\ acked'[c] = {} /\ \A i \in Idx : frozen'[c][i] = None
  BY <1>0, Zenon DEF Produce, TypeCall, Returned
<1>3. calls[c] \in Nat /\ calls[c] < calls'[c]
  BY <1>2, CallTypes
<1>4. \A p \in Partitions : Settled(c, p)
  BY <1>0, <1>2, Zenon DEF CallInv, Settled, Batch
<1>5. \A p \in Partitions : Batch(c, p)' = {}
  <2>1. \E n \in Idx : size'[c] = n
    BY <1>0, Zenon DEF Produce, TypeCall
  <2>2. 1 .. size'[c] \subseteq Idx /\ 1 \in Idx
    BY <2>1, ConstantsAssumption DEF Idx
  <2> QED
    BY <1>2, <2>2, ConstantsAssumption, Zenon DEF Batch
<1>6. \A p \in Partitions : Settled(c, p)' /\ Untouched(c, p)'
  BY <1>5, Zenon DEF Settled, Untouched
<1>7. CallInv(c)'
  <2>1. 1 \in Idx
    BY CallTypes, Zenon
  <2> QED
    BY <1>0, <1>1, <1>2, <1>5, <1>6, <2>1, Zenon DEF CallInv
<1>8. AttemptInv(c)'
  BY <1>0, <1>1, <1>2, Zenon DEF AttemptInv
<1>9. AgreeInv(c)'
  BY <1>0, <1>1, <1>4, <1>6, Zenon DEF AgreeInv
<1>10. \A m \in net : m.k < calls'[c] /\ m.k # calls'[c]
  <2>1. \A m \in net : m.k \in Nat /\ m.k <= calls[c]
    BY <1>0, Zenon DEF RequestInv, RequestFor, TypeNet, IsMessage
  <2> QED
    BY <1>2, <1>3, <2>1
<1>11. RequestInv(c)'
  <2> SUFFICES ASSUME NEW m \in net PROVE RequestFor(c, m)'
    BY <1>1, Zenon DEF RequestInv
  <2>1. m.k <= calls'[c] /\ m.k # calls'[c]
    <3>1. m.k < calls'[c] /\ m.k # calls'[c] /\ m.k \in Nat /\ calls'[c] \in Nat
      BY <1>0, <1>2, <1>3, <1>10 DEF TypeNet, IsMessage
    <3> QED
      BY <3>1
  <2>2. \A p \in DOMAIN m.batch : m.batch[p].seq \in Nat /\ m.batch[p].seq < nextSeq[p]
    BY <1>0, <1>4, Zenon DEF RequestInv, RequestFor, TypeNet, IsMessage
  <2> QED
    BY <1>1, <2>1, <2>2, Zenon DEF RequestFor
<1>12. RoundTripInv(c)'
  <2>1. \A m \in net : Current(m)' => Current(m)
    <3> SUFFICES ASSUME NEW m \in net, Current(m)' PROVE Current(m)
      BY Zenon
    <3>1. CASE m.c = c
      BY <1>10, <3>1, Zenon DEF Current
    <3>2. CASE m.c # c
      BY <1>0, <3>2, Zenon DEF Current, Produce, TypeCall, TypeNet, IsMessage
    <3> QED
      BY <3>1, <3>2, Zenon
  <2> QED
    BY <1>0, <1>1, <1>2, <2>1, NoRoundTrips, Zenon
<1>13. StoredInv(c)'
  <2>1. \A p \in Partitions : \A e \in log[p] : e.off < leo[p] /\ e.rec[2] <= calls'[c] /\ e.rec[2] # calls'[c]
    <3> SUFFICES ASSUME NEW p \in Partitions, NEW e \in log[p]
                 PROVE  e.off < leo[p] /\ e.rec[2] <= calls'[c] /\ e.rec[2] # calls'[c]
      BY Zenon
    <3>1. e.off < leo[p] /\ e.rec[2] <= calls[c]
      BY <1>0, Zenon DEF StoredInv
    <3>2. e.rec[2] \in Nat
      BY DEF TypeInv, TypeOK, TypeBroker, Records
    <3> QED
      BY <1>2, <1>3, <3>1, <3>2
  <2>2. InOrder'
    BY <1>0, <1>1, Zenon DEF StoredInv, InOrder
  <2> QED
    BY <1>0, <1>1, <1>5, <2>1, <2>2, Zenon DEF StoredInv
<1> QED
  BY <1>7, <1>8, <1>9, <1>11, <1>12, <1>13, Zenon DEF OnceInv

(* A producer id is obtained before anything is sent.                      *)
LEMMA EnsureOnce ==
    ASSUME TypeInv, NEW c \in Callers, Idempotent, OnceInv(c), EnsureProducerID(c)
    PROVE  OnceInv(c)'
<1>0. CallInv(c) /\ AttemptInv(c) /\ AgreeInv(c) /\ RoundTripInv(c) /\ TypeCall /\ FrozenAtOnce
  BY Zenon DEF OnceInv, TypeInv, TypeOK
<1>1. UNCHANGED <<meta, calls, size, attempt, frozen, acked, route, cursor, request,
                  got, failed, err, log, leo, nextSeq, appended, net, replies, delivered>>
  BY Zenon DEF EnsureProducerID, callVars, attemptVars, brokerVars, netVars
<1>2. /\ pc[c] = "init"
      /\ \/ pc'[c] = "attempt" /\ (pidReady \/ ~Idempotent) /\ UNCHANGED <<pidReady, sequences>>
         \/ pc'[c] = "attempt" /\ ~pidReady /\ pidReady' /\ sequences' = [p \in Partitions |-> 0]
         \/ pc'[c] = "error" /\ UNCHANGED <<pidReady, sequences>>
  BY <1>0, Zenon DEF EnsureProducerID, TypeCall, producerVars
<1>3. \A p \in Partitions : Settled(c, p)
  <2>1. \A i \in Idx : frozen[c][i] = None
    BY <1>0, <1>2, Zenon DEF CallInv, FrozenAtOnce
  <2> QED
    BY <2>1, CallTypes, ConstantsAssumption, Zenon DEF Settled, Batch
<1>4. \A p \in Partitions : sequences'[p] = sequences[p]
  BY <1>0, <1>2, <1>3, Zenon DEF AgreeInv, CallInv
<1>5. SameBatches(c)
  BY <1>1, BatchesKept, Zenon
<1>6. Kept(c)
  BY <1>1, <1>3, <1>4, <1>5, Zenon DEF Kept, brokerVars
<1>7. AgreeInv(c)' /\ RequestInv(c)' /\ StoredInv(c)'
  <2>1. attempt'[c] \in Nat /\ attempt[c] <= attempt'[c]
    BY <1>1, CallTypes
  <2>2. \A p \in Partitions : Batch(c, p)' = Batch(c, p)
    BY <1>5, Zenon DEF SameBatches
  <2> QED
    BY <1>1, <1>6, <2>1, <2>2, KeptAgree, KeptRequests, KeptStored, Zenon DEF OnceInv, RequestInv
<1>8. CallInv(c)'
  <2>1. pc'[c] \in {"attempt", "error"} /\ (~pidReady' => pc'[c] = "error" /\ ~pidReady)
    <3>1. CASE UNCHANGED <<pidReady, sequences>>
      BY <1>2, <3>1, Zenon
    <3>2. CASE pidReady'
      BY <1>2, <3>2, Zenon
    <3> QED
      BY <1>2, <3>1, <3>2, Zenon
  <2>2. frozen'[c][1] = None /\ acked'[c] = {}
    BY <1>0, <1>1, <1>2, Zenon DEF CallInv
  <2>3. (\A p \in Partitions : Settled(c, p) \/ Untouched(c, p))'
    BY <1>3, <1>5, Zenon DEF SameBatches
  <2>4. (\A p \in Partitions : \A i \in Batch(c, p) : got[c][i] # None => i \in acked[c])'
    BY <1>0, <1>1, <1>2, <1>5, Zenon DEF CallInv, SameBatches
  <2>5. ~pidReady' => net' = {} /\ \A p \in Partitions : nextSeq'[p] = 0
    BY <1>0, <1>1, <2>1, Zenon DEF CallInv
  <2> QED
    BY <2>1, <2>2, <2>3, <2>4, <2>5, Zenon DEF CallInv
<1>9. AttemptInv(c)'
  BY <1>0, <1>1, <1>2, Zenon DEF AttemptInv
<1>10. RoundTripInv(c)'
  <2>1. \A m \in net : Current(m)' <=> Current(m)
    BY <1>1, Zenon DEF Current
  <2> QED
    BY <1>0, <1>1, <1>2, <2>1, NoRoundTrips, Zenon
<1> QED
  BY <1>7, <1>8, <1>9, <1>10, Zenon DEF OnceInv

(* A new attempt starts from what is acknowledged; the first one fixes the *)
(* batches of the call.                                                    *)
LEMMA BeginOnce ==
    ASSUME TypeInv, TypeInv', NEW c \in Callers, Sequential(c), OnceInv(c), BeginAttempt(c)
    PROVE  OnceInv(c)'
<1>0. /\ CallInv(c) /\ AttemptInv(c) /\ AgreeInv(c) /\ RequestInv(c) /\ RoundTripInv(c) /\ StoredInv(c)
      /\ TypeCall /\ TypeAttempt /\ TypeNet /\ FrozenAtOnce /\ FrozenAtOnce'
  BY Zenon DEF OnceInv, TypeInv, TypeOK
<1>1. UNCHANGED <<pidReady, sequences, calls, size, acked, log, leo, nextSeq, appended, net, replies, delivered>>
  BY Zenon DEF BeginAttempt, producerVars, callVars, brokerVars, netVars
<1>2. /\ pc[c] = "attempt" /\ attempt'[c] = attempt[c] + 1
      /\ \A i \in Idx : route'[c][i] = None /\ got'[c][i] = None
      /\ \A p \in Partitions : cursor'[c][p] = None
      /\ \A n \in Nodes : request'[c][n] = "none"
      /\ failed'[c] = {} /\ err'[c] = "none"
  <2>1. /\ pc[c] = "attempt" /\ attempt'[c] = attempt[c] + 1
        /\ failed'[c] = {} /\ err'[c] = "none"
    BY <1>0, Zenon DEF BeginAttempt, TypeCall, TypeAttempt
  <2>2. /\ route'[c] = [i \in Idx |-> None] /\ got'[c] = [i \in Idx |-> None]
        /\ cursor'[c] = [p \in Partitions |-> None] /\ request'[c] = [n \in Nodes |-> "none"]
    BY <1>0, Zenon DEF BeginAttempt, TypeCall, TypeAttempt
  <2> QED
    BY <2>1, <2>2, Zenon
<1>3. \/ /\ FreezePartitions(c)
         /\ pc'[c] = IF PendingRecords(c) = {} THEN "reserve" ELSE "resolve"
      \/ frozen' = frozen /\ pc'[c] \in {"backoff", "error"}
  BY <1>0, Zenon DEF BeginAttempt, AttemptRefused, TypeCall
<1>4. pidReady /\ pc'[c] \in {"reserve", "resolve", "backoff", "error"}
  BY <1>0, <1>2, <1>3, Zenon DEF CallInv
<1>5. \A p \in Partitions : ~Held(c, p) /\ ~Held(c, p)' /\ BaseSeq(c, p) = sequences[p] /\ BaseSeq(c, p)' = sequences[p]
  <2>1. \A p \in Partitions : ~Held(c, p) /\ ~Held(c, p)'
    BY <1>2, <1>4, Zenon DEF Held
  <2> QED
    BY <1>1, <2>1, Zenon DEF BaseSeq
<1>6. attempt[c] \in Nat /\ attempt'[c] \in Nat /\ attempt[c] <= attempt'[c] /\ attempt[c] < attempt'[c]
  BY <1>2, CallTypes
<1>7. \A p : Batch(c, p)' \subseteq Idx /\ Batch(c, p) \subseteq Idx
  BY <1>1, CallTypes, Zenon DEF Batch
<1>8. AttemptInv(c)'
  <2>1. PendingRecords(c)' = PendingRecords(c) /\ PendingRecords(c) \subseteq Idx
    BY <1>1, DerivedTypes, Zenon DEF PendingRecords, TypeInv
  <2>2. pc'[c] = "reserve" => PendingRecords(c) = {}
    BY <1>3, Zenon
  <2>3. pc'[c] = "reserve" => Routed(c)'
    BY <2>1, <2>2, Zenon DEF Routed
  <2>4. \A p \in PartBatches(c)' : cursor'[c][p] = None
    BY <1>2, Zenon DEF PartBatches
  <2> QED
    BY <1>2, <1>4, <2>1, <2>3, <2>4, Zenon DEF AttemptInv
<1>9. RoundTripInv(c)'
  <2>1. \A m \in net : ~Current(m)'
    <3> SUFFICES ASSUME NEW m \in net, Current(m)' PROVE FALSE
      BY Zenon
    <3>1. m.c = c
      BY <1>0, Zenon DEF TypeNet, IsMessage, Sequential
    <3>2. m.k = calls[c] /\ m.a = attempt'[c]
      BY <1>1, <3>1, Zenon DEF Current
    <3>3. m.a <= attempt[c]
      BY <1>0, <3>2, Zenon DEF RequestInv, RequestFor
    <3> QED
      BY <1>6, <3>2, <3>3
  <2> QED
    BY <1>0, <1>1, <1>2, <1>4, <2>1, NoRoundTrips, Zenon
<1>10. CASE frozen' = frozen
  <2>1. \A p \in Partitions : \A i \in Batch(c, p) : got'[c][i] = got[c][i] \/ i \in acked[c]
    BY <1>0, <1>2, <1>7, Zenon DEF CallInv
  <2>2. SameBatches(c)
    BY <1>1, <1>10, <2>1, BatchesKept, Zenon
  <2>3. Kept(c)
    BY <1>1, <1>5, <2>2, Zenon DEF Kept, brokerVars
  <2>4. \A p \in Partitions : /\ Batch(c, p)' = Batch(c, p)
                              /\ \A i \in Batch(c, p) : got'[c][i] = None
    BY <1>2, <1>7, <2>2, Zenon DEF SameBatches
  <2>5. AgreeInv(c)' /\ RequestInv(c)' /\ StoredInv(c)'
    BY <1>0, <1>1, <1>6, <1>10, <2>3, <2>4, KeptAgree, KeptRequests, KeptStored, Zenon DEF RequestInv
  <2>6. CallInv(c)'
    BY <1>0, <1>1, <1>4, <1>10, <2>2, <2>4, Zenon DEF CallInv, SameBatches
  <2> QED
    BY <1>8, <1>9, <2>5, <2>6, Zenon DEF OnceInv
<1>11. CASE frozen[c][1] = None /\ frozen'[c][1] # None
  <2>1. acked[c] = {} /\ \A p \in Partitions : Batch(c, p) = {} /\ Settled(c, p)
    <3>1. \A i \in Idx : frozen[c][i] = None
      BY <1>0, <1>11, Zenon DEF FrozenAtOnce
    <3>2. \A p \in Partitions : Batch(c, p) = {}
      BY <3>1, CallTypes, ConstantsAssumption, Zenon DEF Batch
    <3> QED
      BY <1>0, <1>11, <3>2, Zenon DEF CallInv, Settled
  <2>2. \A p \in Partitions : Untouched(c, p)' /\ \A i \in Batch(c, p)' : got'[c][i] = None /\ i \notin acked'[c]
    BY <1>1, <1>2, <1>7, <2>1, Zenon DEF Untouched
  <2>3. CallInv(c)'
    BY <1>0, <1>1, <1>4, <1>11, <2>2, Zenon DEF CallInv
  <2>4. \A p \in Partitions : \A e \in log[p] : e.rec[2] < calls[c] /\ e.rec[2] <= calls[c] /\ e.rec[2] # calls[c]
    <3> SUFFICES ASSUME NEW p \in Partitions, NEW e \in log[p]
                 PROVE  e.rec[2] < calls[c] /\ e.rec[2] <= calls[c] /\ e.rec[2] # calls[c]
      BY Zenon
    <3>1. e.rec[2] <= calls[c] /\ e.rec[2] # calls[c]
      BY <1>0, <2>1, Zenon DEF StoredInv
    <3>2. e.rec[2] \in Nat /\ calls[c] \in Nat
      BY CallTypes DEF TypeInv, TypeOK, TypeBroker, Records
    <3> QED
      BY <3>1, <3>2
  <2>5. AgreeInv(c)'
    <3>1. \A p \in Partitions : /\ sequences[p] = nextSeq[p] /\ sequences[p] \in Nat
                                /\ \A e \in appended[p] : e.seq \in Nat /\ e.n > 0 /\ e.seq + e.n <= nextSeq[p]
      BY <1>0, <2>1, BatchFacts, Zenon DEF AgreeInv
    <3> QED
      BY <1>1, <1>5, <2>4, <3>1, Zenon DEF AgreeInv
  <2>6. RequestInv(c)'
    <3> SUFFICES ASSUME NEW m \in net PROVE RequestFor(c, m)'
      BY <1>1, Zenon DEF RequestInv
    <3>1. RequestFor(c, m)
      BY <1>0, Zenon DEF RequestInv
    <3>2. m.k # calls[c]
      BY <1>11, <3>1, Zenon DEF RequestFor
    <3> QED
      BY <1>1, <3>1, <3>2, Zenon DEF RequestFor
  <2>7. StoredInv(c)'
    <3>1. InOrder'
      BY <1>0, <1>1, Zenon DEF StoredInv, InOrder
    <3> QED
      BY <1>0, <1>1, <2>2, <2>4, <3>1, Zenon DEF StoredInv
  <2> QED
    BY <1>8, <1>9, <2>3, <2>5, <2>6, <2>7, Zenon DEF OnceInv
<1> QED
  <2>1. CASE FreezePartitions(c) /\ pc'[c] \in {"reserve", "resolve"}
    <3>1. frozen'[c][1] # None
      BY <1>0, <2>1, Zenon DEF FrozenAtOnce, InAttempt
    <3>2. frozen' = frozen \/ frozen[c][1] = None
      BY <2>1, Zenon DEF FreezePartitions
    <3> QED
      BY <1>10, <1>11, <3>1, <3>2, Zenon
  <2> QED
    BY <1>3, <1>10, <2>1, Zenon

-----------------------------------------------------------------------------
(* The brokers.                                                            *)

(* Only a request of the current call is ever appended, and only when      *)
(* nothing of its batch is stored yet.                                     *)
LEMMA AppendsFresh ==
    ASSUME TypeInv, NEW c \in Callers, Idempotent, OnceInv(c), NEW m \in net, NEW refused,
           NEW p \in Appends(m, refused)
    PROVE  /\ p \in Partitions /\ p \in DOMAIN m.batch /\ ~Settled(c, p)
           /\ m.k = calls[c] /\ m.batch[p].recs = Batch(c, p) /\ Batch(c, p) # {}
           /\ m.batch[p].seq = BaseSeq(c, p) /\ nextSeq[p] = BaseSeq(c, p)
           /\ Count(c, p) \in Nat /\ Count(c, p) > 0 /\ BaseSeq(c, p) \in Nat
           /\ \A e \in log[p] : e.rec[2] < calls[c]
<1>1. p \in DOMAIN m.batch /\ m.batch[p].seq = nextSeq[p]
  BY Zenon DEF Appends
<1>2. RequestFor(c, m) /\ DOMAIN m.batch \subseteq Partitions
  BY Zenon DEF OnceInv, RequestInv, TypeInv, TypeOK, TypeNet, IsMessage
<1>3. p \in Partitions /\ nextSeq[p] \in Nat
  BY <1>1, <1>2, BatchFacts, Zenon
<1>4. ~(m.batch[p].seq < nextSeq[p])
  BY <1>1, <1>3
<1>5. m.k = calls[c] /\ ~Settled(c, p) /\ m.batch[p].recs = Batch(c, p) /\ m.batch[p].seq = BaseSeq(c, p)
  BY <1>1, <1>2, <1>4, Zenon DEF RequestFor
<1>6. Batch(c, p) # {} /\ Count(c, p) \in Nat /\ Count(c, p) > 0
  BY <1>3, <1>5, UnsettledBatch, Zenon DEF OnceInv
<1>7. /\ BaseSeq(c, p) \in Nat
      /\ \/ \A e \in log[p] : e.rec[2] < calls[c]
         \/ nextSeq[p] = BaseSeq(c, p) + Count(c, p)
  BY <1>3, <1>5, Zenon DEF OnceInv, AgreeInv
<1>8. nextSeq[p] # BaseSeq(c, p) + Count(c, p)
  BY <1>1, <1>5, <1>6, <1>7
<1> QED
  BY <1>1, <1>3, <1>5, <1>6, <1>7, <1>8, Zenon

(* A batch that is appended keeps the log free of duplicates and in order. *)
Older(L, o, k) == \A e \in L : e.off \in Nat /\ e.off < o /\ e.rec[2] \in Nat /\ e.rec[2] < k
Newer(L, o, k, S) == \A e \in L :
    e.off < o + Cardinality(S) /\ e.rec[2] <= k /\ (e.rec[2] = k => e.rec[3] \in S)
NewEntries(c, k, S, o) == {[off |-> o + Rank(S, i), rec |-> <<c, k, i>>] : i \in S}
EachOnce(L) == \A e, f \in L : e.rec = f.rec => e = f
Sorted(L) == \A e, f \in L :
    /\ e.rec[1] = f.rec[1]
    /\ e.rec[2] < f.rec[2] \/ (e.rec[2] = f.rec[2] /\ e.rec[3] < f.rec[3])
    => e.off < f.off
LEMMA AppendStored ==
    ASSUME NEW c, NEW L, NEW o \in Nat, NEW S \in SUBSET Idx, NEW k \in Nat, NEW N,
           Older(L, o, k), EachOnce(L), Sorted(L), N = NewEntries(c, k, S, o)
    PROVE  EachOnce(L \cup N) /\ Sorted(L \cup N) /\ Newer(L \cup N, o, k, S)
<1> USE DEF Older, Newer, NewEntries, EachOnce, Sorted
<1>0. Cardinality(S) \in Nat
  BY IdxSubsets, Zenon
<1>1. \A e \in N : \E i \in S : e.off = o + Rank(S, i) /\ e.rec = <<c, k, i>>
  <2> TAKE e \in N
  <2>1. PICK i \in S : e = [off |-> o + Rank(S, i), rec |-> <<c, k, i>>]
    BY Zenon
  <2>2. e.off = o + Rank(S, i) /\ e.rec = <<c, k, i>>
    BY <2>1, Zenon
  <2> QED
    BY <2>2, Zenon
<1>2. \A e \in N : /\ e.rec[1] = c /\ e.rec[2] = k /\ e.rec[3] \in S
                   /\ e.off = o + Rank(S, e.rec[3]) /\ e.rec = <<c, k, e.rec[3]>>
  BY <1>1
<1>3. \A i \in S : /\ Rank(S, i) \in Nat /\ Rank(S, i) < Cardinality(S)
                   /\ \A j \in S : i < j => Rank(S, i) < Rank(S, j)
  BY RankOrder, Zenon
<1>4. \A e \in L \cup N : e.off < o + Cardinality(S) /\ e.rec[2] <= k
  <2> TAKE e \in L \cup N
  <2>1. CASE e \in L
    BY <1>0, <2>1
  <2>2. CASE e \in N
    <3>1. PICK i \in S : e.off = o + Rank(S, i) /\ e.rec[2] = k
      BY <1>2, <2>2, Zenon
    <3>2. Rank(S, i) \in Nat /\ Rank(S, i) < Cardinality(S)
      BY <1>3, Zenon
    <3> QED
      BY <1>0, <3>1, <3>2
  <2> QED
    BY <2>1, <2>2, Zenon
<1>5. \A e \in L \cup N : e.rec[2] = k => e.rec[3] \in S
  BY <1>2
<1>6. \A e \in L : e.rec[2] # k /\ ~(k < e.rec[2])
  OBVIOUS
<1>7. \A e \in L, f \in N : e.rec # f.rec
  BY <1>2, <1>6, Zenon
<1>8. \A e, f \in N : e.rec = f.rec => e = f
  <2> SUFFICES ASSUME NEW e \in N, NEW f \in N, e.rec = f.rec PROVE e = f
    BY Zenon
  <2>1. PICK i \in S : e = [off |-> o + Rank(S, i), rec |-> <<c, k, i>>]
    BY Zenon
  <2>2. PICK j \in S : f = [off |-> o + Rank(S, j), rec |-> <<c, k, j>>]
    BY Zenon
  <2> QED
    BY <2>1, <2>2, Zenon
<1>9. \A e, f \in L \cup N : e.rec = f.rec => e = f
  BY <1>7, <1>8, Zenon
<1>10. \A e \in L, f \in N : e.off < f.off
  <2> TAKE e \in L, f \in N
  <2>1. e.off \in Nat /\ e.off < o
    BY Zenon
  <2>2. PICK i \in S : f.off = o + Rank(S, i)
    BY <1>2, Zenon
  <2>3. Rank(S, i) \in Nat
    BY <1>3, Zenon
  <2> QED
    BY <2>1, <2>2, <2>3
<1>11. \A e, f \in N : e.rec[3] < f.rec[3] => e.off < f.off
  <2> SUFFICES ASSUME NEW e \in N, NEW f \in N, e.rec[3] < f.rec[3] PROVE e.off < f.off
    BY Zenon
  <2>1. PICK i \in S : e.off = o + Rank(S, i) /\ i = e.rec[3]
    BY <1>2, Zenon
  <2>2. PICK j \in S : f.off = o + Rank(S, j) /\ j = f.rec[3]
    BY <1>2, Zenon
  <2>3. Rank(S, i) \in Nat /\ Rank(S, j) \in Nat /\ Rank(S, i) < Rank(S, j)
    BY <1>3, <2>1, <2>2, Zenon
  <2> QED
    BY <2>1, <2>2, <2>3
<1>12. \A e \in N, f \in L : ~(e.rec[2] < f.rec[2]) /\ e.rec[2] # f.rec[2]
  BY <1>2, <1>6, Zenon
<1>13. \A e, f \in N : ~(e.rec[2] < f.rec[2])
  BY <1>2
<1>14. \A e, f \in L \cup N :
         /\ e.rec[1] = f.rec[1]
         /\ e.rec[2] < f.rec[2] \/ (e.rec[2] = f.rec[2] /\ e.rec[3] < f.rec[3])
         => e.off < f.off
  <2> SUFFICES ASSUME NEW e \in L \cup N, NEW f \in L \cup N,
                      e.rec[1] = f.rec[1],
                      e.rec[2] < f.rec[2] \/ (e.rec[2] = f.rec[2] /\ e.rec[3] < f.rec[3])
               PROVE  e.off < f.off
    BY Zenon
  <2>1. CASE e \in L /\ f \in L
    BY <2>1, Zenon
  <2>2. CASE e \in L /\ f \in N
    BY <1>10, <2>2, Zenon
  <2>3. CASE e \in N /\ f \in L
    BY <1>12, <2>3, Zenon
  <2>4. CASE e \in N /\ f \in N
    BY <1>11, <1>13, <2>4, Zenon
  <2> QED
    BY <2>1, <2>2, <2>3, <2>4, Zenon
<1> QED
  BY <1>4, <1>5, <1>9, <1>14, Zenon

(* A broker appends what is fresh, recognises what it has, and answers     *)
(* with the offset the batch is stored at.                                 *)
LEMMA HandleOnce ==
    ASSUME TypeInv, NEW c \in Callers, Sequential(c), OnceInv(c), NEW m \in net, Handle(m)
    PROVE  OnceInv(c)'
<1>0. /\ CallInv(c) /\ AttemptInv(c) /\ AgreeInv(c) /\ RequestInv(c) /\ RoundTripInv(c) /\ StoredInv(c)
      /\ TypeBroker /\ TypeNet /\ Idempotent
  BY Zenon DEF OnceInv, TypeInv, TypeOK, Sequential
<1>1. UNCHANGED <<pidReady, sequences, meta, pc, calls, size, attempt, frozen, acked, route, cursor, request,
                  got, failed, err, delivered>>
  BY Zenon DEF Handle, producerVars, callVars, attemptVars
<1>2. PICK refused \in SUBSET (IF "refused" \in Faults THEN DOMAIN m.batch ELSE {}),
           unsure \in SUBSET (IF "afterAppend" \in Faults THEN DOMAIN m.batch ELSE {}) :
        Handle(m)!1!(refused, unsure)
  BY Zenon DEF Handle
<1>3. PICK app : app = Appends(m, refused)
  BY Zenon
<1>4. /\ \A p \in app : /\ p \in Partitions /\ p \in DOMAIN m.batch /\ ~Settled(c, p)
                        /\ m.k = calls[c] /\ m.batch[p].recs = Batch(c, p)
                        /\ m.batch[p].seq = BaseSeq(c, p) /\ nextSeq[p] = BaseSeq(c, p)
                        /\ Count(c, p) \in Nat /\ Count(c, p) > 0 /\ BaseSeq(c, p) \in Nat
                        /\ \A e \in log[p] : e.rec[2] < calls[c]
      /\ m.c = c /\ net' = net \ {m}
  <2>1. m.c = c /\ net' = net \ {m}
    BY <1>0, Zenon DEF TypeNet, IsMessage, Sequential, Handle
  <2>2. ASSUME NEW p \in Appends(m, refused)
        PROVE  /\ p \in Partitions /\ p \in DOMAIN m.batch /\ ~Settled(c, p)
               /\ m.k = calls[c] /\ m.batch[p].recs = Batch(c, p)
               /\ m.batch[p].seq = BaseSeq(c, p) /\ nextSeq[p] = BaseSeq(c, p)
               /\ Count(c, p) \in Nat /\ Count(c, p) > 0 /\ BaseSeq(c, p) \in Nat
               /\ \A e \in log[p] : e.rec[2] < calls[c]
    BY <1>0, <2>2, AppendsFresh, Zenon
  <2> QED
    BY <1>3, <2>1, <2>2, Zenon
<1>5. \A p \in app :
        /\ log'[p] = log[p] \cup {[off |-> leo[p] + Rank(Batch(c, p), i), rec |-> <<c, calls[c], i>>] : i \in Batch(c, p)}
        /\ leo'[p] = leo[p] + Count(c, p) /\ nextSeq'[p] = nextSeq[p] + Count(c, p)
        /\ appended'[p] = appended[p] \cup {[seq |-> BaseSeq(c, p), n |-> Count(c, p), off |-> leo[p]]}
  <2> TAKE p \in app
  <2>1. /\ p \in Partitions /\ m.c = c /\ m.k = calls[c] /\ m.batch[p].recs = Batch(c, p)
        /\ m.batch[p].seq = BaseSeq(c, p) /\ Cardinality(Batch(c, p)) = Count(c, p)
    BY <1>4, Zenon DEF Count
  <2>2. /\ log'[p] = log[p] \cup {[off |-> leo[p] + Rank(m.batch[p].recs, i),
                                   rec |-> <<m.c, m.k, i>>] : i \in m.batch[p].recs}
        /\ leo'[p] = leo[p] + Cardinality(m.batch[p].recs)
        /\ nextSeq'[p] = nextSeq[p] + Cardinality(m.batch[p].recs)
        /\ appended'[p] = appended[p] \cup {[seq |-> m.batch[p].seq, n |-> Cardinality(m.batch[p].recs), off |-> leo[p]]}
    BY <1>0, <1>2, <1>3, <2>1, Zenon
  <2>3. PICK S : S = Batch(c, p)
    BY Zenon
  <2>4. m.batch[p].recs = S
    BY <2>1, <2>3, Zenon
  <2>5. log'[p] = log[p] \cup {[off |-> leo[p] + Rank(S, i), rec |-> <<c, calls[c], i>>] : i \in S}
    BY <2>1, <2>2, <2>4, Zenon
  <2> QED
    BY <2>1, <2>2, <2>3, <2>5, Zenon
<1>6. \A p \in Partitions \ app :
        log'[p] = log[p] /\ leo'[p] = leo[p] /\ nextSeq'[p] = nextSeq[p] /\ appended'[p] = appended[p]
  BY <1>2, <1>3, Zenon
<1>7. /\ SameBatches(c) /\ AttemptInv(c)'
      /\ \A p \in Partitions : /\ BaseSeq(c, p)' = BaseSeq(c, p) /\ Count(c, p)' = Count(c, p)
                               /\ (Settled(c, p)' <=> Settled(c, p)) /\ Batch(c, p)' = Batch(c, p)
      /\ \A n : BrokerPartKeys(c, n)' = BrokerPartKeys(c, n)
      /\ \A n : Current(n)' <=> Current(n)
  BY <1>0, <1>1, ClientKept, Zenon
<1>8. \A p \in Partitions : /\ log[p] \subseteq log'[p]
                            /\ \A o : StoredAt(c, p, o) => StoredAt(c, p, o)'
                            /\ \A o : p \in app /\ o = leo[p] => StoredAt(c, p, o)'
  <2>1. \A p \in Partitions : log[p] \subseteq log'[p]
    BY <1>5, <1>6, Zenon
  <2>2. \A p \in Partitions : \A o : StoredAt(c, p, o) => StoredAt(c, p, o)'
    BY <1>1, <1>7, <2>1, Zenon DEF StoredAt, Entry
  <2>3. ASSUME NEW p \in app, NEW o, o = leo[p]
        PROVE  StoredAt(c, p, o)'
    <3>1. \A i \in Batch(c, p) : [off |-> o + Rank(Batch(c, p), i), rec |-> <<c, calls[c], i>>] \in log'[p]
      <4> TAKE i \in Batch(c, p)
      <4>1. [off |-> leo[p] + Rank(Batch(c, p), i), rec |-> <<c, calls[c], i>>] \in log'[p]
        BY <1>5
      <4> QED
        BY <2>3, <4>1, Zenon
    <3> QED
      BY <1>1, <1>4, <1>7, <3>1, Zenon DEF StoredAt, Entry
  <2> QED
    BY <2>1, <2>2, <2>3, Zenon
<1>9. CallInv(c)'
  <2>1. pidReady
    BY <1>0, Zenon DEF CallInv
  <2> QED
    BY <1>0, <1>1, <1>7, <2>1, Zenon DEF CallInv, SameBatches
<1>10. AgreeInv(c)'
  <2> SUFFICES ASSUME NEW p \in Partitions
               PROVE  /\ Settled(c, p)' => sequences'[p] = nextSeq'[p]
                      /\ ~Settled(c, p)' => BaseSeq(c, p)' \in Nat
                      /\ ~Settled(c, p)' =>
                            \/ nextSeq'[p] = BaseSeq(c, p)' /\ \A e \in log'[p] : e.rec[2] < calls'[c]
                            \/ /\ nextSeq'[p] = BaseSeq(c, p)' + Count(c, p)'
                               /\ \A e \in appended'[p] : e.seq = BaseSeq(c, p)' => StoredAt(c, p, e.off)'
                      /\ \A e \in appended'[p] : e.seq \in Nat /\ e.n > 0 /\ e.seq + e.n <= nextSeq'[p]
    BY Zenon DEF AgreeInv
  <2>1. CASE p \notin app
    BY <1>0, <1>1, <1>6, <1>7, <1>8, <2>1, Zenon DEF AgreeInv
  <2>2. CASE p \in app
    <3>1. \A e \in appended[p] : /\ e.n \in Nat /\ e.seq \in Nat /\ e.n > 0 /\ e.seq + e.n <= nextSeq[p]
      BY <1>0 DEF AgreeInv, TypeBroker
    <3>2. \A e \in appended[p] : e.seq # BaseSeq(c, p) /\ e.seq + e.n <= nextSeq[p] + Count(c, p)
      BY <1>4, <2>2, <3>1
    <3>3. \A e \in appended'[p] : e \in appended[p] \/ (e.seq = BaseSeq(c, p) /\ e.n = Count(c, p) /\ e.off = leo[p])
      BY <1>5, <2>2
    <3>4. \A e \in appended'[p] : e.seq \in Nat /\ e.n > 0 /\ e.seq + e.n <= nextSeq'[p]
      BY <1>4, <1>5, <2>2, <3>1, <3>2, <3>3
    <3>5. \A e \in appended'[p] : e.seq = BaseSeq(c, p) => StoredAt(c, p, e.off)'
      <4> SUFFICES ASSUME NEW e \in appended'[p], e.seq = BaseSeq(c, p) PROVE StoredAt(c, p, e.off)'
        BY Zenon
      <4>1. e.off = leo[p]
        BY <3>2, <3>3, Zenon
      <4> QED
        BY <1>8, <2>2, <4>1, Zenon
    <3>6. nextSeq'[p] = BaseSeq(c, p) + Count(c, p) /\ BaseSeq(c, p) \in Nat /\ ~Settled(c, p)
      BY <1>4, <1>5, <2>2, Zenon
    <3> QED
      BY <1>7, <3>4, <3>5, <3>6, Zenon
  <2> QED
    BY <2>1, <2>2, Zenon
<1>11. RequestInv(c)'
  <2> SUFFICES ASSUME NEW n \in net PROVE RequestFor(c, n)'
    BY <1>4, Zenon DEF RequestInv
  <2>1. RequestFor(c, n) /\ DOMAIN n.batch \subseteq Partitions
    BY <1>0, Zenon DEF RequestInv, TypeNet, IsMessage
  <2>2. ASSUME NEW p \in DOMAIN n.batch, n.batch[p].seq \in Nat, n.batch[p].seq < nextSeq[p]
        PROVE  n.batch[p].seq < nextSeq'[p]
    <3>1. CASE p \in app
      BY <1>4, <1>5, <2>2, <3>1
    <3>2. CASE p \notin app
      BY <1>6, <2>1, <2>2, <3>2, Zenon
    <3> QED
      BY <3>1, <3>2, Zenon
  <2> QED
    BY <1>1, <1>7, <2>1, <2>2, Zenon DEF RequestFor
<1>12. StoredInv(c)'
  <2>0. calls[c] \in Nat /\ \A p : Batch(c, p) \in SUBSET Idx
    BY CallTypes, BatchFacts, Zenon
  <2>1. ASSUME NEW p \in Partitions
        PROVE  /\ \A e \in log'[p] : e.off < leo'[p] /\ e.rec[2] <= calls[c]
               /\ \A e \in log'[p] : e.rec[2] = calls[c] => e.rec[3] \in Batch(c, p)
               /\ EachOnce(log'[p]) /\ Sorted(log'[p])
    <3>1. /\ \A e \in log[p] : e.off < leo[p] /\ e.rec[2] <= calls[c]
          /\ \A e \in log[p] : e.rec[2] = calls[c] => e.rec[3] \in Batch(c, p)
          /\ EachOnce(log[p]) /\ Sorted(log[p])
      BY <1>0, Zenon DEF StoredInv, InOrder, EachOnce, Sorted
    <3>2. CASE p \notin app
      BY <1>6, <3>1, <3>2, Zenon
    <3>3. CASE p \in app
      <4>1. \A e \in log[p] : e.off \in Nat /\ e.off < leo[p] /\ e.rec[2] \in Nat /\ e.rec[2] < calls[c]
        <5>1. \A e \in log[p] : e.off \in Nat /\ e.rec[2] \in Nat
          BY <1>0 DEF TypeBroker, Records
        <5> QED
          BY <1>4, <3>1, <3>3, <5>1, Zenon
      <4>2. leo[p] \in Nat
        BY <1>0, Zenon DEF TypeBroker
      <4>3. PICK N : N = NewEntries(c, calls[c], Batch(c, p), leo[p])
        BY Zenon
      <4>4. log'[p] = log[p] \cup N /\ leo'[p] = leo[p] + Cardinality(Batch(c, p))
        BY <1>5, <3>3, <4>3, Zenon DEF Count, NewEntries
      <4>5. PICK L, o, S, k : L = log[p] /\ o = leo[p] /\ S = Batch(c, p) /\ k = calls[c]
        BY Zenon
      <4>6. EachOnce(L \cup N) /\ Sorted(L \cup N) /\ Newer(L \cup N, o, k, S)
        <5>1. o \in Nat /\ S \in SUBSET Idx /\ k \in Nat
          BY <2>0, <4>2, <4>5, Zenon
        <5>2. Older(L, o, k) /\ EachOnce(L) /\ Sorted(L)
          BY <3>1, <4>1, <4>5, Zenon DEF Older
        <5>3. N = NewEntries(c, k, S, o)
          BY <4>3, <4>5, Zenon
        <5> QED
          BY <5>1, <5>2, <5>3, AppendStored, Zenon
      <4> QED
        BY <4>4, <4>5, <4>6, Zenon DEF Newer
    <3> QED
      BY <3>2, <3>3, Zenon
  <2>2. (\A p \in Partitions : \A i \in Batch(c, p) :
            /\ got[c][i] # None => Entry(c, i, got[c][i]) \in log[p]
            /\ i \in acked[c] => \E e \in log[p] : e.rec = <<c, calls[c], i>>)'
    <3> SUFFICES ASSUME NEW p \in Partitions, NEW i \in Batch(c, p)
                 PROVE  /\ got[c][i] # None => Entry(c, i, got[c][i])' \in log'[p]
                        /\ i \in acked[c] => \E e \in log'[p] : e.rec = <<c, calls[c], i>>
      BY <1>1, <1>7, Zenon
    <3>1. /\ got[c][i] # None => Entry(c, i, got[c][i]) \in log[p]
          /\ i \in acked[c] => \E e \in log[p] : e.rec = <<c, calls[c], i>>
      BY <1>0, Zenon DEF StoredInv
    <3> QED
      BY <1>1, <1>8, <3>1, Zenon DEF Entry
  <2>3. \A d \in delivered : [off |-> d.off, rec |-> d.rec] \in log'[d.part]
    <3> SUFFICES ASSUME NEW d \in delivered PROVE [off |-> d.off, rec |-> d.rec] \in log'[d.part]
      BY Zenon
    <3>1. d.part \in Partitions
      BY <1>0, Zenon DEF TypeNet
    <3> QED
      BY <1>0, <1>8, <3>1, Zenon DEF StoredInv
  <2>4. InOrder'
    BY <2>1, Zenon DEF InOrder, Sorted
  <2>5. (\A p \in Partitions : \A e \in log[p] :
            /\ e.off < leo[p] /\ e.rec[2] <= calls[c]
            /\ e.rec[2] = calls[c] => e.rec[3] \in Batch(c, p))'
    <3> SUFFICES ASSUME NEW p \in Partitions, NEW e \in log'[p]
                 PROVE  /\ e.off < leo'[p] /\ e.rec[2] <= calls[c]
                        /\ e.rec[2] = calls[c] => e.rec[3] \in Batch(c, p)
      BY <1>1, <1>7, Zenon
    <3> QED
      BY <2>1, Zenon
  <2>6. \A p \in Partitions : \A e, f \in log'[p] : e.rec = f.rec => e = f
    BY <2>1, Zenon DEF EachOnce
  <2>7. \A d \in delivered' : [off |-> d.off, rec |-> d.rec] \in log'[d.part]
    BY <1>1, <2>3, Zenon
  <2> QED
    BY <2>2, <2>4, <2>5, <2>6, <2>7, Zenon DEF StoredInv
<1>13. RoundTripInv(c)'
  <2>1. ASSUME NEW n \in net', Current(n)
        PROVE  RequestOut(c, n)'
    <3>1. RequestOut(c, n)
      BY <1>0, <1>4, <2>1, Zenon DEF RoundTripInv
    <3> QED
      BY <1>1, <1>4, <1>7, <3>1, Zenon DEF RequestOut
  <2>2. ASSUME NEW s \in replies
        PROVE  /\ ReplyBack(c, s) /\ s.b \in Nodes
               /\ \A p \in DOMAIN s.res : s.res[p].code = "none" =>
                     nextSeq'[p] = BaseSeq(c, p)' + Count(c, p)' /\ StoredAt(c, p, s.res[p].off)'
    <3>1. ReplyBack(c, s) /\ s.b \in Nodes /\ DOMAIN s.res \subseteq Partitions
      BY <1>0, Zenon DEF RoundTripInv, TypeNet, IsReply, Nodes
    <3>2. ASSUME NEW p \in DOMAIN s.res, s.res[p].code = "none"
          PROVE  nextSeq'[p] = BaseSeq(c, p)' + Count(c, p)' /\ StoredAt(c, p, s.res[p].off)'
      <4>1. nextSeq[p] = BaseSeq(c, p) + Count(c, p) /\ StoredAt(c, p, s.res[p].off) /\ p \in Partitions
        BY <3>1, <3>2, Zenon DEF ReplyBack
      <4>2. p \notin app
        BY <1>4, <4>1
      <4> QED
        BY <1>6, <1>7, <1>8, <4>1, <4>2, Zenon
    <3> QED
      BY <3>1, <3>2, Zenon
  <2>3. CASE replies' = replies
    <3>1. \A s \in replies : ReplyBack(c, s)'
      BY <1>1, <1>4, <1>7, <2>2, <2>3, Zenon DEF ReplyBack
    <3> QED
      BY <1>7, <2>1, <2>3, <3>1, Zenon DEF RoundTripInv
  <2>4. CASE replies' # replies
    <3>1. /\ Current(m) /\ request[c][m.b] = "waiting"
          /\ replies' = replies \cup {[c |-> c, b |-> m.b,
                            res |-> [p \in DOMAIN m.batch |-> Answer(m, p, app, refused, unsure)]]}
      BY <1>2, <1>3, <1>4, <2>4, Zenon DEF Current
    <3>2. PICK r : r = [c |-> c, b |-> m.b,
                        res |-> [p \in DOMAIN m.batch |-> Answer(m, p, app, refused, unsure)]]
      BY Zenon
    <3>3. /\ replies' = replies \cup {r} /\ r.b = m.b /\ DOMAIN r.res = DOMAIN m.batch
          /\ \A p \in DOMAIN m.batch : r.res[p] = Answer(m, p, app, refused, unsure)
      BY <3>1, <3>2, Zenon
    <3>4. RequestOut(c, m) /\ m.b \in Nodes /\ pc[c] = "send" /\ DOMAIN m.batch \subseteq Partitions
      <4>1. RequestOut(c, m) /\ m.b \in Nodes /\ DOMAIN m.batch \subseteq Partitions
        BY <1>0, <3>1, Zenon DEF RoundTripInv, TypeNet, IsMessage, Nodes
      <4> QED
        BY <1>0, <3>1, <4>1, Zenon DEF AttemptInv
    <3>5. DOMAIN m.batch = BrokerPartKeys(c, m.b)
      BY <3>4, Zenon DEF RequestOut
    <3>6. ASSUME NEW p \in DOMAIN m.batch, r.res[p].code = "none"
          PROVE  nextSeq'[p] = BaseSeq(c, p)' + Count(c, p)' /\ StoredAt(c, p, r.res[p].off)'
      <4>0. p \in Partitions
        BY <3>4, Zenon
      <4>1. CASE p \in app
        <5>0. Answer(m, p, app, refused, unsure)
                = IF p \in unsure THEN [code |-> "retriable", off |-> None] ELSE [code |-> "none", off |-> leo[p]]
          BY <4>1, Zenon DEF Answer
        <5>1. r.res[p].off = leo[p]
          BY <3>3, <3>6, <5>0
        <5>2. nextSeq'[p] = BaseSeq(c, p) + Count(c, p)
          BY <1>4, <1>5, <4>1, Zenon
        <5> QED
          BY <1>7, <1>8, <4>0, <4>1, <5>1, <5>2, Zenon
      <4>2. CASE p \notin app
        <5>1. PICK known : known = Remembered(p, m.batch[p].seq, Cardinality(m.batch[p].recs))
          BY Zenon
        <5>2. known # {} /\ r.res[p].off = (CHOOSE e \in known : TRUE).off
          <6>1. Answer(m, p, app, refused, unsure)
                  = IF p \in refused \/ leader[p] # m.b THEN [code |-> "retriable", off |-> None]
                    ELSE IF known # {} THEN [code |-> "none", off |-> (CHOOSE e \in known : TRUE).off]
                    ELSE [code |-> "fatal", off |-> None]
            BY <4>2, <5>1, Zenon DEF Answer
          <6>2. PICK o : o = (CHOOSE e \in known : TRUE).off
            BY Zenon
          <6> QED
            BY <3>3, <3>6, <6>1, <6>2
        <5>3. PICK e \in known : r.res[p].off = e.off
          BY <5>2, Zenon
        <5>4. e \in appended[p] /\ e.seq = m.batch[p].seq
          BY <5>1, <5>3, Zenon DEF Remembered
        <5>5. ~Settled(c, p)
          <6>1. Routed(c) /\ \A q \in PartBatches(c) : FanOut(c, q)
            BY <1>0, <3>4, Zenon DEF AttemptInv
          <6>2. p \in PartBatches(c) /\ meta[p] = m.b
            BY <3>5, <6>1, RoutedTogether, Zenon
          <6> QED
            BY <3>1, <6>1, <6>2, Zenon DEF FanOut
        <5>6. m.batch[p].seq = BaseSeq(c, p)
          BY <1>0, <1>4, <3>1, <5>5, Zenon DEF RequestInv, RequestFor, Current
        <5>7. e.seq \in Nat /\ e.n \in Nat /\ e.n > 0 /\ e.seq + e.n <= nextSeq[p]
          BY <1>0, <4>0, <5>4 DEF AgreeInv, TypeBroker
        <5>8. nextSeq[p] # BaseSeq(c, p)
          BY <5>4, <5>6, <5>7
        <5>9. nextSeq[p] = BaseSeq(c, p) + Count(c, p) /\ StoredAt(c, p, e.off)
          BY <1>0, <4>0, <5>4, <5>5, <5>6, <5>8, Zenon DEF AgreeInv
        <5> QED
          BY <1>6, <1>7, <1>8, <4>0, <4>2, <5>3, <5>9, Zenon
      <4> QED
        BY <4>1, <4>2, Zenon
    <3>7. \A s \in replies : s.b # m.b
      BY <2>2, <3>1, Zenon DEF ReplyBack
    <3>8. ReplyBack(c, r)'
      <4>1. \A n \in net' : Current(n)' => n.b # r.b
        BY <1>4, <1>7, <3>1, <3>3, <3>4, Zenon DEF RequestOut
      <4> QED
        BY <1>1, <1>7, <3>1, <3>3, <3>4, <3>5, <3>6, <3>7, <4>1, Zenon DEF ReplyBack
    <3>9. ASSUME NEW s \in replies
          PROVE  ReplyBack(c, s)'
      <4>1. /\ pc'[c] = "send" /\ request'[c][s.b] = "waiting" /\ DOMAIN s.res = BrokerPartKeys(c, s.b)'
            /\ \A n \in net' : Current(n)' => n.b # s.b
        BY <1>1, <1>4, <1>7, <2>2, Zenon DEF ReplyBack
      <4>2. \A t \in replies' : t.b = s.b => t = s
        BY <2>2, <3>3, <3>7, Zenon DEF ReplyBack
      <4> QED
        BY <2>2, <4>1, <4>2, Zenon DEF ReplyBack
    <3> QED
      BY <1>7, <2>1, <3>3, <3>8, <3>9, Zenon DEF RoundTripInv
  <2> QED
    BY <2>3, <2>4, Zenon
<1> QED
  BY <1>7, <1>9, <1>10, <1>11, <1>12, <1>13, Zenon DEF OnceInv

-----------------------------------------------------------------------------
(* Nothing is sent and nothing is stored to begin with.                    *)
LEMMA InitOnce ==
    ASSUME NEW c \in Callers, Init
    PROVE  OnceInv(c)
<1>1. /\ pc[c] = "idle" /\ size[c] = 0 /\ acked[c] = {} /\ failed[c] = {} /\ calls[c] = 0
      /\ \A n \in Nodes : request[c][n] = "none"
      /\ \A p \in Partitions : /\ sequences[p] = 0 /\ nextSeq[p] = 0 /\ log[p] = {} /\ appended[p] = {}
      /\ net = {} /\ replies = {} /\ delivered = {}
  BY Zenon DEF Init
<1>2. \A i \in Idx : frozen[c][i] = None
  BY Zenon DEF Init
<1>3. 1 \in Idx
  BY ConstantsAssumption DEF Idx
<1>4. \A p : Batch(c, p) = {}
  BY <1>1 DEF Batch
<1>5. \A p : Settled(c, p)
  BY <1>4, Zenon DEF Settled
<1>6. 1 .. size[c] = {}
  BY <1>1
<1>7. CallInv(c)
  BY <1>1, <1>2, <1>3, <1>4, <1>5, <1>6, Zenon DEF CallInv
<1>8. AttemptInv(c)
  BY <1>1, Zenon DEF AttemptInv
<1>9. AgreeInv(c)
  BY <1>1, <1>5, Zenon DEF AgreeInv
<1>10. RequestInv(c) /\ RoundTripInv(c)
  BY <1>1, Zenon DEF RequestInv, RoundTripInv
<1>11. StoredInv(c)
  BY <1>1, <1>4, Zenon DEF StoredInv, InOrder
<1> QED
  BY <1>7, <1>8, <1>9, <1>10, <1>11, Zenon DEF OnceInv

LEMMA OnceStep ==
    ASSUME NEW c, Sequential(c)
    PROVE  TypeInv /\ OnceInv(c) /\ [Next]_vars => OnceInv(c)'
<1> SUFFICES ASSUME TypeInv, OnceInv(c), [Next]_vars PROVE OnceInv(c)'
  BY Zenon
<1>0. TypeInv' /\ c \in Callers /\ Callers = {c} /\ Idempotent /\ StopOnError
  BY TypeStep, Zenon DEF Sequential
<1>1. CASE Produce(c)
  BY <1>0, <1>1, ProduceOnce, Zenon
<1>2. CASE Step(c)
  <2>1. CASE EnsureProducerID(c)
    BY <1>0, <2>1, EnsureOnce, Zenon
  <2>2. CASE BeginAttempt(c)
    BY <1>0, <2>2, BeginOnce, Zenon
  <2>3. CASE ResolvePartition(c)
    BY <1>0, <2>3, ResolveOnce, Zenon
  <2>4. CASE StartFanOut(c)
    BY <1>0, <2>4, StartOnce, Zenon
  <2>5. CASE Collect(c) \/ Backoff(c)
    BY <1>0, <2>5, MovesOnce, Zenon
  <2>6. CASE FinishAttempt(c)
    BY <1>0, <2>6, FinishOnce, Zenon
  <2>7. CASE \E p \in Partitions : ReserveBlock(c, p)
    BY <1>0, <2>7, ReserveOnce, Zenon
  <2>8. CASE \E p \in Partitions : RollbackBlock(c, p)
    BY <1>0, <2>8, RollbackOnce, Zenon
  <2>9. CASE \E n \in Nodes : Send(c, n)
    BY <1>0, <2>9, SendOnce, Zenon
  <2>10. CASE \E n \in Nodes : SendFails(c, n) \/ RequestFails(c, n)
    BY <1>0, <2>10, FailuresOnce, Zenon
  <2>11. CASE \E n \in Nodes : Receive(c, n)
    BY <1>0, <2>11, ReceiveOnce, Zenon
  <2> QED
    BY <1>2, <2>1, <2>2, <2>3, <2>4, <2>5, <2>6, <2>7, <2>8, <2>9, <2>10, <2>11, Zenon DEF Step
<1>3. CASE \E m \in net : Handle(m)
  BY <1>0, <1>3, HandleOnce, Zenon
<1>4. CASE (\E p \in Partitions : LeaderMoves(p)) \/ UNCHANGED vars
  BY <1>0, <1>4, MovesOnce, Zenon
<1> QED
  <2>1. CASE Next
    BY <1>0, <1>1, <1>2, <1>3, <1>4, <2>1, Zenon DEF Next
  <2> QED
    BY <1>4, <2>1, Zenon

(* The invariant holds for a sequential caller.                            *)
LEMMA OnceHolds ==
    ASSUME NEW c, Sequential(c)
    PROVE  Spec => [](TypeInv /\ OnceInv(c))
<1>1. Init => TypeInv /\ OnceInv(c)
  BY InitTypeInv, InitOnce, Zenon DEF Sequential
<1>2. TypeInv /\ OnceInv(c) /\ [Next]_vars => (TypeInv /\ OnceInv(c))'
  BY TypeStep, OnceStep, Zenon
<1> QED
  BY <1>1, <1>2, PTL DEF Spec

-----------------------------------------------------------------------------
(* What ProduceSyncResult reports is stored: for one caller of an          *)
(* idempotent producer that stops at its first error, every result with an *)
(* offset is the record at that offset of that partition, and a call that  *)
(* returns without an error has each of its records in some log, whatever  *)
(* requests and replies were lost, late or refused on the way and however  *)
(* leaders moved.                                                          *)
THEOREM ReportedIsStored ==
    ASSUME NEW c, Sequential(c)
    PROVE  Spec => []AckedIsStored
<1>1. TypeInv /\ OnceInv(c) => AckedIsStored
  <2> SUFFICES ASSUME TypeInv, OnceInv(c) PROVE AckedIsStored
    BY Zenon
  <2>0. /\ CallInv(c) /\ StoredInv(c) /\ FrozenAtOnce /\ Callers = {c} /\ c \in Callers
        /\ DOMAIN log = Partitions
    BY Zenon DEF OnceInv, TypeInv, TypeOK, TypeBroker, Sequential
  <2>1. ASSUME pc[c] = "ok", NEW i \in 1 .. size[c]
        PROVE  \E p \in DOMAIN log : \E e \in log[p] : e.rec = <<c, calls[c], i>>
    <3>1. i \in acked[c]
      BY <2>0, <2>1, Zenon DEF CallInv
    <3>2. frozen[c][1] # None
      BY <2>0, <3>1, Zenon DEF CallInv
    <3>3. frozen[c][i] \in Partitions
      BY <2>0, <2>1, <3>2, Zenon DEF FrozenAtOnce
    <3>4. i \in Batch(c, frozen[c][i])
      BY <2>1, Zenon DEF Batch
    <3> QED
      BY <2>0, <3>1, <3>3, <3>4, Zenon DEF StoredInv
  <2> QED
    BY <2>0, <2>1, Zenon DEF AckedIsStored, StoredInv
<1> QED
  BY <1>1, OnceHolds, PTL

(* However often a send is retried, and however late a request that was    *)
(* given up on is handled, no record of such a caller is stored twice: the *)
(* sequences a retry carries are those of the first attempt.               *)
THEOREM RetriesStoreOnce ==
    ASSUME NEW c, Sequential(c)
    PROVE  Spec => []NoDuplicates
<1>1. TypeInv /\ OnceInv(c) /\ OnePartitionPerRecord => NoDuplicates
  <2> SUFFICES ASSUME OnceInv(c), OnePartitionPerRecord,
                      NEW p \in Partitions, NEW q \in Partitions,
                      NEW e \in log[p], NEW f \in log[q], e.rec = f.rec
               PROVE  p = q /\ e = f
    BY Zenon DEF NoDuplicates
  <2>1. p = q
    BY Zenon DEF OnePartitionPerRecord
  <2> QED
    BY <2>1, Zenon DEF OnceInv, StoredInv
<1> QED
  BY <1>1, OnceHolds, RetriesKeepThePartition, PTL

(* Such a caller's records are stored in the order it produced them,       *)
(* within a call and across calls, in each partition.                      *)
THEOREM RetriesKeepTheOrder ==
    ASSUME NEW c, Sequential(c)
    PROVE  Spec => []InOrder
<1>1. TypeInv /\ OnceInv(c) => InOrder
  BY Zenon DEF OnceInv, StoredInv
<1> QED
  BY <1>1, OnceHolds, PTL
=============================================================================
