--------------------------- MODULE ProducerProofs ---------------------------
(* Producer keeps its types, and a record keeps its partition through      *)
(* every retry, for every set of callers, partitions and brokers, every    *)
(* combination of faults and every bound.                                  *)
EXTENDS Producer, FiniteSetTheorems, TLAPS

(* Arithmetic on natural numbers, for leaves whose other terms are sets    *)
(* and functions.                                                          *)
LEMMA AddNat == ASSUME NEW a \in Nat, NEW b \in Nat PROVE a + b \in Nat
OBVIOUS

LEMMA RolledBackNat ==
    ASSUME NEW s \in Nat, NEW n \in Nat PROVE RolledBack(s, n) \in Nat
BY DEF RolledBack

(* Counting records of one call.                                           *)
LEMMA IdxSubsets ==
    ASSUME NEW S \in SUBSET Idx
    PROVE  /\ Cardinality(S) \in Nat
           /\ \A i : Rank(S, i) \in Nat
<1>1. IsFiniteSet(Idx)
  BY FS_Interval, ConstantsAssumption DEF Idx
<1>2. \A T \in SUBSET Idx : IsFiniteSet(T) /\ Cardinality(T) \in Nat
  BY <1>1, FS_Subset, FS_CardinalityType, Zenon
<1>3. \A i : {j \in S : j < i} \in SUBSET Idx
  BY Zenon
<1> QED
  BY <1>2, <1>3, Zenon DEF Rank

(* While a caller's requests are out, every batch has its block.           *)
CursorsReserved ==
    \A c \in Callers : Idempotent /\ pc[c] = "send" =>
        \A p \in PartBatches(c) : cursor[c][p] \in Nat

(* The partitions of a call are chosen all at once, and before any record  *)
(* of it is resolved.                                                      *)
InAttempt == {"resolve", "reserve", "send", "rollback", "finish"}
FrozenAtOnce ==
    \A c \in Callers :
        /\ pc[c] # "idle" => size[c] \in Idx
        /\ frozen[c][1] = None => \A i \in Idx : frozen[c][i] = None
        /\ frozen[c][1] # None => \A i \in 1 .. size[c] : frozen[c][i] \in Partitions
        /\ pc[c] \in InAttempt => frozen[c][1] # None

TypeInv == TypeOK /\ CursorsReserved /\ FrozenAtOnce

LEMMA InitTypeInv == Init => TypeInv
<1> SUFFICES ASSUME Init PROVE TypeInv
  BY Zenon
<1> USE ConstantsAssumption DEF Init
<1>1. TypeOK
  <2>1. TypeClient
    BY Zenon DEF TypeClient, Nodes
  <2>2. TypeCall
    BY DEF TypeCall, Returned
  <2>3. TypeAttempt
    BY Zenon DEF TypeAttempt
  <2>4. TypeBroker
    BY Zenon DEF TypeBroker
  <2>5. TypeNet
    BY Zenon DEF TypeNet
  <2> QED
    BY <2>1, <2>2, <2>3, <2>4, <2>5, Zenon DEF TypeOK
<1>2. CursorsReserved
  BY Zenon DEF CursorsReserved
<1>3. FrozenAtOnce
  BY DEF FrozenAtOnce, Idx, InAttempt
<1> QED
  BY <1>1, <1>2, <1>3, Zenon DEF TypeInv

(* Facts about the derived sets of one call.                               *)
LEMMA DerivedTypes ==
    ASSUME TypeOK, NEW c \in Callers
    PROVE  /\ PendingRecords(c) \in SUBSET Idx
           /\ \A p : InputByKey(c, p) \in SUBSET Idx
           /\ \A n, p : SentTo(c, n, p) \in SUBSET Idx
           /\ \A n : BrokerPartKeys(c, n) \in SUBSET PartBatches(c)
           /\ \A p : BlockLength(c, p) \in Nat
<1>1. PendingRecords(c) \in SUBSET Idx
  BY ConstantsAssumption DEF TypeOK, TypeCall, PendingRecords, Idx
<1>2. \A p : InputByKey(c, p) \in SUBSET Idx
  BY <1>1, Zenon DEF InputByKey
<1>3. \A n, p : SentTo(c, n, p) \in SUBSET Idx
  BY <1>2, Zenon DEF SentTo
<1>4. \A n : BrokerPartKeys(c, n) \in SUBSET PartBatches(c)
  BY Zenon DEF BrokerPartKeys, PartBatches, SentTo
<1>5. \A p : BlockLength(c, p) \in Nat
  BY <1>2, IdxSubsets, Zenon DEF BlockLength
<1> QED
  BY <1>1, <1>2, <1>3, <1>4, <1>5, Zenon

(* One caller's share of TypeAttempt.                                      *)
LEMMA AttemptTypes ==
    ASSUME TypeInv, NEW c \in Callers
    PROVE  /\ \A p \in Partitions : cursor[c][p] \in Nat \cup {None}
           /\ \A i \in Idx : got[c][i] \in Nat \cup {None}
<1>1. /\ cursor \in [Callers -> [Partitions -> Nat \cup {None}]]
      /\ got \in [Callers -> [Idx -> Nat \cup {None}]]
  BY Zenon DEF TypeInv, TypeOK, TypeAttempt
<1> QED
  BY <1>1, Zenon

(* What a step leaves alone keeps its type.                                *)
LEMMA UnchangedTypes ==
    ASSUME TypeInv
    PROVE  /\ UNCHANGED <<pidReady, sequences, meta>> => TypeClient'
           /\ UNCHANGED <<pc, calls, size, attempt, frozen, acked>> => TypeCall'
           /\ UNCHANGED attemptVars => TypeAttempt'
           /\ UNCHANGED <<leader, moves, brokerVars>> => TypeBroker'
           /\ UNCHANGED <<netVars, delivered>> => TypeNet'
<1> USE DEF TypeInv, TypeOK
<1>1. UNCHANGED <<pidReady, sequences, meta>> => TypeClient'
  BY Zenon DEF TypeClient
<1>2. UNCHANGED <<pc, calls, size, attempt, frozen, acked>> => TypeCall'
  BY Zenon DEF TypeCall
<1>3. UNCHANGED attemptVars => TypeAttempt'
  BY Zenon DEF TypeAttempt, attemptVars
<1>4. UNCHANGED <<leader, moves, brokerVars>> => TypeBroker'
  BY Zenon DEF TypeBroker, brokerVars
<1>5. UNCHANGED <<netVars, delivered>> => TypeNet'
  BY Zenon DEF TypeNet, netVars
<1> QED
  BY <1>1, <1>2, <1>3, <1>4, <1>5, Zenon

(* A step of c that leaves the other callers alone, and does not enter the *)
(* fan-out, keeps the reservations.                                        *)
OthersUnchanged(c) ==
    \A d \in Callers \ {c} :
        /\ pc'[d] = pc[d] /\ size'[d] = size[d] /\ acked'[d] = acked[d]
        /\ frozen'[d] = frozen[d] /\ cursor'[d] = cursor[d]

LEMMA UnchangedCursors ==
    ASSUME TypeInv, NEW c \in Callers, OthersUnchanged(c), pc'[c] # "send"
    PROVE  CursorsReserved'
BY DEF TypeInv, CursorsReserved, PartBatches, InputByKey, PendingRecords, OthersUnchanged

(* A step of c that keeps its frozen partitions and size keeps the freeze. *)
LEMMA UnchangedFreeze ==
    ASSUME TypeInv, NEW c \in Callers, OthersUnchanged(c),
           UNCHANGED <<size, frozen>>, pc[c] # "idle",
           pc'[c] \in InAttempt => pc[c] \in InAttempt
    PROVE  FrozenAtOnce'
BY Zenon DEF TypeInv, FrozenAtOnce, OthersUnchanged

(* A step that keeps every caller's place, batch and reservation.          *)
LEMMA UnchangedCalls ==
    ASSUME TypeInv, UNCHANGED <<pc, calls, size, attempt, frozen, acked>>
    PROVE  TypeCall' /\ FrozenAtOnce' /\ (UNCHANGED cursor => CursorsReserved')
<1>1. TypeCall'
  BY UnchangedTypes, Zenon
<1>2. FrozenAtOnce'
  BY Zenon DEF TypeInv, FrozenAtOnce
<1>3. UNCHANGED cursor => CursorsReserved'
  BY Zenon DEF TypeInv, CursorsReserved, PartBatches, InputByKey, PendingRecords
<1> QED
  BY <1>1, <1>2, <1>3, Zenon

(* A failed request is recorded in well-typed variables.                   *)
LEMMA RequestFailedTypes ==
    ASSUME TypeInv, NEW c \in Callers, NEW n \in Nodes, NEW e \in {"retriable", "fatal"},
           RequestFailed(c, n, e), UNCHANGED <<route, cursor, got>>
    PROVE  TypeAttempt'
<1>1. TypeAttempt /\ BrokerPartKeys(c, n) \in SUBSET Partitions
  BY Zenon DEF TypeInv, TypeOK, BrokerPartKeys
<1>2. failed' \in [Callers -> SUBSET Partitions]
  BY <1>1, Zenon DEF RequestFailed, TypeAttempt
<1>3. err' \in [Callers -> {"none", "retriable", "fatal"}]
  BY <1>1, Zenon DEF RequestFailed, TypeAttempt, WorseError
<1>4. request' \in [Callers -> [Nodes -> {"none", "todo", "waiting", "done"}]]
  BY <1>1, Zenon DEF RequestFailed, TypeAttempt
<1> QED
  BY <1>1, <1>2, <1>3, <1>4, Zenon DEF TypeAttempt

(* A step of c keeps the freeze if c's own batch is frozen as it should be. *)
LEMMA FreezeStep ==
    ASSUME FrozenAtOnce, NEW c \in Callers, OthersUnchanged(c),
           pc'[c] # "idle" => size'[c] \in Idx,
           frozen'[c][1] = None => \A i \in Idx : frozen'[c][i] = None,
           frozen'[c][1] # None => \A i \in 1 .. size'[c] : frozen'[c][i] \in Partitions,
           pc'[c] \in InAttempt => frozen'[c][1] # None
    PROVE  FrozenAtOnce'
<1> SUFFICES ASSUME NEW d \in Callers
             PROVE  /\ pc'[d] # "idle" => size'[d] \in Idx
                    /\ frozen'[d][1] = None => \A i \in Idx : frozen'[d][i] = None
                    /\ frozen'[d][1] # None => \A i \in 1 .. size'[d] : frozen'[d][i] \in Partitions
                    /\ pc'[d] \in InAttempt => frozen'[d][1] # None
  BY Zenon DEF FrozenAtOnce
<1>1. CASE d = c
  BY <1>1, Zenon
<1>2. CASE d # c
  BY <1>2 DEF FrozenAtOnce, OthersUnchanged
<1> QED
  BY <1>1, <1>2, Zenon

(* freezePartitions fixes a partition for every record, or keeps the one   *)
(* fixed before.                                                           *)
LEMMA FreezeTypes ==
    ASSUME TypeCall, FrozenAtOnce, NEW c \in Callers, size[c] \in Idx,
           FreezePartitions(c) \/ frozen' = frozen
    PROVE  /\ frozen' \in [Callers -> [Idx -> Partitions \cup {None}]]
           /\ \A d \in Callers \ {c} : frozen'[d] = frozen[d]
           /\ frozen'[c][1] = None => \A i \in Idx : frozen'[c][i] = None
           /\ frozen'[c][1] # None => \A i \in 1 .. size[c] : frozen'[c][i] \in Partitions
           /\ FreezePartitions(c) => frozen'[c][1] # None
<1>0. frozen \in [Callers -> [Idx -> Partitions \cup {None}]]
  BY Zenon DEF TypeCall
<1>1. CASE frozen' = frozen /\ (FreezePartitions(c) => frozen[c][1] # None)
  BY <1>0, <1>1, Zenon DEF FrozenAtOnce
<1>2. CASE FreezePartitions(c) /\ frozen[c][1] = None
  <2>1. PICK f \in [1 .. size[c] -> Partitions] :
          frozen' = [frozen EXCEPT ![c] =
                       [i \in Idx |-> IF i \in 1 .. size[c] THEN f[i] ELSE None]]
    BY <1>2, Zenon DEF FreezePartitions
  <2>2. 1 \in 1 .. size[c] /\ 1 .. size[c] \subseteq Idx
    BY ConstantsAssumption DEF Idx
  <2>3. frozen'[c] = [i \in Idx |-> IF i \in 1 .. size[c] THEN f[i] ELSE None]
    BY <1>0, <2>1, Zenon
  <2>4. frozen'[c] \in [Idx -> Partitions \cup {None}]
    BY <2>3, Zenon
  <2>5. \A d \in Callers \ {c} : frozen'[d] = frozen[d]
    BY <1>0, <2>1, Zenon
  <2>6. frozen' \in [Callers -> [Idx -> Partitions \cup {None}]]
    BY <1>0, <2>1, <2>4, <2>5, Zenon
  <2>7. \A i \in 1 .. size[c] : frozen'[c][i] \in Partitions
    BY <2>2, <2>3, Zenon
  <2>8. frozen'[c][1] # None
    BY <2>2, <2>7, ConstantsAssumption, Zenon
  <2> QED
    BY <2>5, <2>6, <2>7, <2>8, Zenon
<1> QED
  BY <1>1, <1>2, Zenon DEF FreezePartitions

(* The first half of a call: from Produce to the reservation.              *)
LEMMA EarlyTypeStep ==
    ASSUME TypeInv, NEW c \in Callers,
           Produce(c) \/ EnsureProducerID(c) \/ BeginAttempt(c) \/ ResolvePartition(c)
    PROVE  TypeInv'
<1>0. /\ TypeOK
      /\ TypeClient /\ TypeCall /\ TypeAttempt /\ TypeBroker /\ TypeNet
      /\ CursorsReserved /\ FrozenAtOnce
  BY Zenon DEF TypeInv, TypeOK
<1>1. CASE Produce(c)
  <2>1. TypeClient' /\ TypeAttempt' /\ TypeBroker' /\ TypeNet'
    BY <1>1, UnchangedTypes, Zenon DEF Produce, producerVars
  <2>2. TypeCall'
    BY <1>0, <1>1, ConstantsAssumption DEF Produce, TypeCall, Idx
  <2>3. OthersUnchanged(c) /\ pc'[c] = "init"
    BY <1>0, <1>1, Zenon DEF Produce, TypeCall, attemptVars, OthersUnchanged
  <2>4. CursorsReserved'
    BY <2>3, UnchangedCursors, Zenon
  <2>5. FrozenAtOnce'
    <3>1. size \in [Callers -> 0 .. MaxRecords] /\ frozen \in [Callers -> [Idx -> Partitions \cup {None}]]
      BY <1>0, Zenon DEF TypeCall
    <3>2. PICK n \in Idx : size' = [size EXCEPT ![c] = n]
      BY <1>1, Zenon DEF Produce
    <3>3. frozen' = [frozen EXCEPT ![c] = [i \in Idx |-> None]]
      BY <1>1, Zenon DEF Produce
    <3>4. 1 \in Idx
      BY ConstantsAssumption DEF Idx
    <3>5. size'[c] \in Idx /\ \A i \in Idx : frozen'[c][i] = None
      BY <3>1, <3>2, <3>3, Zenon
    <3> QED
      BY <1>0, <2>3, <3>4, <3>5, FreezeStep, Zenon DEF InAttempt
  <2> QED
    BY <2>1, <2>2, <2>4, <2>5, Zenon DEF TypeInv, TypeOK
<1>2. CASE EnsureProducerID(c)
  <2>1. TypeAttempt' /\ TypeBroker' /\ TypeNet'
    BY <1>2, UnchangedTypes, Zenon DEF EnsureProducerID
  <2>2. TypeClient'
    <3>1. pidReady' \in {pidReady, TRUE} /\ meta' = meta
      BY <1>2, Zenon DEF EnsureProducerID, producerVars
    <3>2. sequences' \in {sequences, [p \in Partitions |-> 0]}
      BY <1>2, Zenon DEF EnsureProducerID, producerVars
    <3>3. pidReady' \in BOOLEAN
      BY <1>0, <3>1, Zenon DEF TypeClient
    <3> QED
      BY <1>0, <3>1, <3>2, <3>3 DEF TypeClient
  <2>3. /\ \E l \in {"attempt", "error"} : pc' = [pc EXCEPT ![c] = l]
        /\ pc[c] # "idle" /\ UNCHANGED <<calls, size, attempt, frozen, acked, cursor>>
    BY <1>2, Zenon DEF EnsureProducerID, callVars, attemptVars
  <2>4. TypeCall'
    BY <1>0, <2>3, Zenon DEF TypeCall, Returned
  <2>5. OthersUnchanged(c) /\ pc'[c] \in {"attempt", "error"}
    BY <1>0, <2>3, Zenon DEF TypeCall, OthersUnchanged
  <2>6. CursorsReserved' /\ FrozenAtOnce'
    BY <2>3, <2>5, UnchangedCursors, UnchangedFreeze, Zenon DEF InAttempt
  <2> QED
    BY <2>1, <2>2, <2>4, <2>6, Zenon DEF TypeInv, TypeOK
<1>3. CASE BeginAttempt(c)
  <2>1. TypeBroker' /\ TypeNet'
    BY <1>3, UnchangedTypes, Zenon DEF BeginAttempt
  <2>2. TypeClient'
    BY <1>0, <1>3, Zenon DEF BeginAttempt, TypeClient, TypeBroker, producerVars, Refreshed
  <2>3. TypeAttempt'
    BY <1>0, <1>3, Zenon DEF BeginAttempt, TypeAttempt
  <2>4. /\ UNCHANGED <<calls, size, acked>>
        /\ \E l \in {"resolve", "reserve", "backoff", "error"} :
             /\ pc' = [pc EXCEPT ![c] = l]
             /\ l \in InAttempt => FreezePartitions(c)
        /\ FreezePartitions(c) \/ frozen' = frozen
    BY <1>3, Zenon DEF BeginAttempt, AttemptRefused, callVars, InAttempt
  <2>5. size[c] \in Idx
    BY <1>0, <1>3, Zenon DEF BeginAttempt, FrozenAtOnce
  <2>6. /\ frozen' \in [Callers -> [Idx -> Partitions \cup {None}]]
        /\ \A d \in Callers \ {c} : frozen'[d] = frozen[d]
        /\ frozen'[c][1] = None => \A i \in Idx : frozen'[c][i] = None
        /\ frozen'[c][1] # None => \A i \in 1 .. size[c] : frozen'[c][i] \in Partitions
        /\ FreezePartitions(c) => frozen'[c][1] # None
    BY <1>0, <2>4, <2>5, FreezeTypes, Zenon
  <2>7. TypeCall'
    <3>1. pc' \in [Callers -> Returned \cup {"init", "attempt", "resolve", "reserve", "send",
                                             "rollback", "finish", "backoff"}]
      BY <1>0, <2>4, Zenon DEF TypeCall, Returned
    <3>2. attempt' = [attempt EXCEPT ![c] = attempt[c] + 1]
      BY <1>3, Zenon DEF BeginAttempt
    <3>3. attempt \in [Callers -> Nat] /\ attempt[c] + 1 \in Nat
      BY <1>0, AddNat, Zenon DEF TypeCall
    <3>4. attempt' \in [Callers -> Nat]
      BY <3>2, <3>3, Zenon
    <3> QED
      BY <1>0, <2>4, <2>6, <3>1, <3>4, Zenon DEF TypeCall
  <2>8. OthersUnchanged(c) /\ pc'[c] # "send" /\ (pc'[c] \in InAttempt => frozen'[c][1] # None)
    <3>1. \A d \in Callers \ {c} : cursor'[d] = cursor[d]
      BY <1>0, <1>3, Zenon DEF BeginAttempt, TypeAttempt
    <3> QED
      BY <1>0, <2>4, <2>6, <3>1, Zenon DEF TypeCall, OthersUnchanged
  <2>9. CursorsReserved' /\ FrozenAtOnce'
    BY <1>0, <2>4, <2>5, <2>6, <2>8, UnchangedCursors, FreezeStep, Zenon
  <2> QED
    BY <2>1, <2>2, <2>3, <2>7, <2>9, Zenon DEF TypeInv, TypeOK
<1>4. CASE ResolvePartition(c)
  <2>1. TypeClient' /\ TypeBroker' /\ TypeNet'
    BY <1>4, UnchangedTypes, Zenon DEF ResolvePartition, producerVars
  <2>2. PICK i \in PendingRecords(c) :
          \/ err' = [err EXCEPT ![c] = "retriable"] /\ route' = route
          \/ /\ meta[frozen[c][i]] # Missing
             /\ route' = [route EXCEPT ![c][i] = meta[frozen[c][i]]] /\ err' = err
    BY <1>4, Zenon DEF ResolvePartition
  <2>3. i \in Idx /\ frozen[c][i] \in Partitions
    <3>1. i \in Idx /\ i \in 1 .. size[c]
      BY <1>0, <2>2, DerivedTypes, Zenon DEF TypeOK, PendingRecords
    <3>2. pc[c] \in InAttempt
      BY <1>4, Zenon DEF ResolvePartition, InAttempt
    <3> QED
      BY <1>0, <3>1, <3>2, Zenon DEF FrozenAtOnce
  <2>4. TypeAttempt'
    <3>1. route' \in [Callers -> [Idx -> Nodes \cup {None}]]
      <4>1. meta[frozen[c][i]] \in Nodes \cup {Missing}
        BY <1>0, <2>3, Zenon DEF TypeClient
      <4>2. CASE route' = route
        BY <1>0, <4>2, Zenon DEF TypeAttempt
      <4>3. CASE meta[frozen[c][i]] # Missing /\ route' = [route EXCEPT ![c][i] = meta[frozen[c][i]]]
        BY <1>0, <2>3, <4>1, <4>3, Zenon DEF TypeAttempt
      <4> QED
        BY <2>2, <4>2, <4>3, Zenon
    <3>2. err' \in [Callers -> {"none", "retriable", "fatal"}]
      BY <1>0, <2>2, Zenon DEF TypeAttempt
    <3>3. UNCHANGED <<cursor, request, got, failed>>
      BY <1>4, Zenon DEF ResolvePartition
    <3> QED
      BY <1>0, <3>1, <3>2, <3>3, Zenon DEF TypeAttempt
  <2>5. /\ pc[c] = "resolve"
        /\ \E l \in {"resolve", "reserve", "finish"} : pc' = [pc EXCEPT ![c] = l]
        /\ UNCHANGED <<calls, size, attempt, frozen, acked, cursor>>
    BY <1>4, Zenon DEF ResolvePartition, callVars
  <2>6. TypeCall'
    BY <1>0, <2>5, Zenon DEF TypeCall, Returned
  <2>7. OthersUnchanged(c) /\ pc'[c] \in {"resolve", "reserve", "finish"}
    BY <1>0, <2>5, Zenon DEF TypeCall, OthersUnchanged
  <2>8. CursorsReserved' /\ FrozenAtOnce'
    BY <2>5, <2>7, UnchangedCursors, UnchangedFreeze, Zenon DEF InAttempt
  <2> QED
    BY <2>1, <2>4, <2>6, <2>8, Zenon DEF TypeInv, TypeOK
<1> QED
  BY <1>1, <1>2, <1>3, <1>4, Zenon

(* The second half of a call, up to the end of the fan-out.                *)
LEMMA FanOutTypeStep ==
    ASSUME TypeInv, NEW c \in Callers,
           \/ \E p \in Partitions : ReserveBlock(c, p)
           \/ StartFanOut(c) \/ Collect(c)
           \/ \E n \in Nodes : Send(c, n) \/ SendFails(c, n)
    PROVE  TypeInv'
<1> USE ConstantsAssumption
<1>0. /\ TypeOK
      /\ TypeClient /\ TypeCall /\ TypeAttempt /\ TypeBroker /\ TypeNet
      /\ CursorsReserved /\ FrozenAtOnce
  BY Zenon DEF TypeInv, TypeOK
<1>1. ASSUME NEW p \in Partitions, ReserveBlock(c, p)
      PROVE  TypeInv'
  <2> USE <1>1 DEF ReserveBlock
  <2>1. TypeBroker' /\ TypeNet'
    BY UnchangedTypes, Zenon
  <2>2. TypeCall' /\ FrozenAtOnce'
    BY UnchangedCalls, Zenon DEF callVars
  <2>3. TypeClient'
    BY <1>0, DerivedTypes DEF TypeClient
  <2>4. TypeAttempt'
    BY <1>0, Zenon DEF TypeAttempt, TypeClient
  <2>5. OthersUnchanged(c) /\ pc'[c] # "send"
    BY <1>0, Zenon DEF OthersUnchanged, TypeAttempt, callVars
  <2>6. CursorsReserved'
    BY <2>5, UnchangedCursors, Zenon
  <2> QED
    BY <2>1, <2>2, <2>3, <2>4, <2>6, Zenon DEF TypeInv, TypeOK
<1>2. CASE StartFanOut(c)
  <2> USE <1>2 DEF StartFanOut
  <2>1. TypeClient' /\ TypeBroker' /\ TypeNet'
    BY UnchangedTypes, Zenon DEF producerVars
  <2>2. TypeCall'
    BY <1>0, Zenon DEF TypeCall, callVars
  <2>3. TypeAttempt'
    BY <1>0, Zenon DEF TypeAttempt
  <2>4. OthersUnchanged(c) /\ pc'[c] = "send" /\ UNCHANGED <<size, frozen, acked, cursor>>
    BY <1>0, Zenon DEF OthersUnchanged, TypeCall, callVars
  <2>5. FrozenAtOnce'
    BY <2>4, UnchangedFreeze, Zenon DEF InAttempt
  <2>6. CursorsReserved'
    <3>1. Idempotent => \A p \in PartBatches(c) : cursor[c][p] # None
      BY Zenon
    <3> HIDE <1>2 DEF StartFanOut
    <3>2. \A p \in Partitions : cursor[c][p] \in Nat \cup {None}
      BY AttemptTypes, Zenon
    <3>3. Idempotent => \A p \in PartBatches(c) : cursor[c][p] \in Nat
      BY <3>1, <3>2, Zenon DEF PartBatches
    <3>4. \A d \in Callers : PartBatches(d)' = PartBatches(d)
      BY <2>4, Zenon DEF PartBatches, InputByKey, PendingRecords
    <3> SUFFICES ASSUME NEW d \in Callers, Idempotent, pc'[d] = "send",
                        NEW p \in PartBatches(d)
                 PROVE  cursor[d][p] \in Nat
      BY <2>4, <3>4, Zenon DEF CursorsReserved
    <3>5. CASE d = c
      BY <3>3, <3>5, Zenon
    <3>6. CASE d # c
      BY <1>0, <2>4, <3>6, Zenon DEF CursorsReserved, OthersUnchanged
    <3> QED
      BY <3>5, <3>6, Zenon
  <2> QED
    BY <2>1, <2>2, <2>3, <2>5, <2>6, Zenon DEF TypeInv, TypeOK
<1>3. CASE Collect(c)
  <2> USE <1>3 DEF Collect
  <2>1. TypeClient' /\ TypeAttempt' /\ TypeBroker' /\ TypeNet'
    BY UnchangedTypes, Zenon DEF producerVars
  <2>2. TypeCall'
    BY <1>0, Zenon DEF TypeCall, callVars
  <2>3. OthersUnchanged(c) /\ pc'[c] = "rollback"
    BY <1>0, Zenon DEF OthersUnchanged, TypeCall, callVars, attemptVars
  <2>4. FrozenAtOnce' /\ CursorsReserved'
    BY <2>3, UnchangedFreeze, UnchangedCursors, Zenon DEF InAttempt, callVars
  <2> QED
    BY <2>1, <2>2, <2>4, Zenon DEF TypeInv, TypeOK
<1>4. ASSUME NEW n \in Nodes, Send(c, n)
      PROVE  TypeInv'
  <2> USE <1>4 DEF Send
  <2>1. TypeClient' /\ TypeBroker'
    BY UnchangedTypes, Zenon DEF producerVars
  <2>2. TypeCall' /\ FrozenAtOnce'
    BY UnchangedCalls, Zenon DEF callVars
  <2>3. \A p \in Partitions : cursor'[c][p] \in Nat \cup {None} /\ (cursor[c][p] \in Nat => cursor'[c][p] \in Nat)
    <3>1. \A p \in BrokerPartKeys(c, n) : Idempotent => cursor[c][p] \in Nat
      BY <1>0, DerivedTypes, Zenon DEF CursorsReserved
    <3>2. cursor \in [Callers -> [Partitions -> Nat \cup {None}]]
      BY <1>0, Zenon DEF TypeAttempt
    <3>3. cursor' = [cursor EXCEPT ![c] =
                       [p \in Partitions |->
                          IF Idempotent /\ p \in BrokerPartKeys(c, n)
                          THEN cursor[c][p] + 1 ELSE cursor[c][p]]]
      BY Zenon
    <3> HIDE <1>4 DEF Send
    <3> TAKE p \in Partitions
    <3>4. cursor'[c][p] = IF Idempotent /\ p \in BrokerPartKeys(c, n)
                          THEN cursor[c][p] + 1 ELSE cursor[c][p]
      BY <3>2, <3>3, Zenon
    <3>5. CASE Idempotent /\ p \in BrokerPartKeys(c, n)
      <4>1. cursor[c][p] \in Nat
        BY <3>1, <3>5, Zenon
      <4>2. cursor[c][p] + 1 \in Nat
        BY <4>1, AddNat, Zenon
      <4> QED
        BY <3>4, <3>5, <4>2, Zenon
    <3>6. CASE ~(Idempotent /\ p \in BrokerPartKeys(c, n))
      BY <3>2, <3>4, <3>6, Zenon
    <3> QED
      BY <3>5, <3>6, Zenon
  <2>4. TypeAttempt'
    BY <1>0, <2>3, Zenon DEF TypeAttempt
  <2>5. CursorsReserved'
    <3>1. UNCHANGED <<pc, size, frozen, acked>> /\ \A d \in Callers \ {c} : cursor'[d] = cursor[d]
      BY <1>0, Zenon DEF TypeAttempt, callVars
    <3> HIDE <1>4 DEF Send
    <3>2. \A d \in Callers : PartBatches(d)' = PartBatches(d) /\ PartBatches(d) \subseteq Partitions
      BY <3>1, Zenon DEF PartBatches, InputByKey, PendingRecords
    <3> SUFFICES ASSUME NEW d \in Callers, Idempotent, pc[d] = "send", NEW p \in PartBatches(d)
                 PROVE  cursor'[d][p] \in Nat
      BY <3>1, <3>2, Zenon DEF CursorsReserved
    <3>3. cursor[d][p] \in Nat
      BY <1>0, Zenon DEF CursorsReserved
    <3> QED
      BY <2>3, <3>1, <3>2, <3>3, Zenon
  <2>6. TypeNet'
    <3> DEFINE m == [c |-> c, k |-> calls[c], a |-> attempt[c], b |-> n,
                     batch |-> [p \in BrokerPartKeys(c, n) |->
                                  [seq |-> cursor[c][p], recs |-> SentTo(c, n, p)]]]
    <3>1. IsMessage(m)
      <4>1. BrokerPartKeys(c, n) \subseteq Partitions
        BY Zenon DEF BrokerPartKeys
      <4>2. \A p \in Partitions : cursor[c][p] \in Nat \cup {None} /\ SentTo(c, n, p) \in SUBSET Idx
        <5> HIDE <1>4 DEF Send
        <5>1. \A p \in Partitions : cursor[c][p] \in Nat \cup {None}
          BY <1>0 DEF TypeAttempt
        <5>2. \A p \in Partitions : SentTo(c, n, p) \in SUBSET Idx
          BY <1>0, DerivedTypes, Zenon
        <5> QED
          BY <5>1, <5>2, Zenon
      <4> QED
        BY <1>0, <4>1, <4>2, Zenon DEF IsMessage, TypeCall
    <3>2. net' = net \cup {m} /\ UNCHANGED <<replies, delivered>>
      BY Zenon
    <3> QED
      BY <1>0, <3>1, <3>2, Zenon DEF TypeNet
  <2> QED
    BY <2>1, <2>2, <2>4, <2>5, <2>6, Zenon DEF TypeInv, TypeOK
<1>5. ASSUME NEW n \in Nodes, SendFails(c, n)
      PROVE  TypeInv'
  <2> USE <1>5 DEF SendFails
  <2>1. TypeClient' /\ TypeBroker' /\ TypeNet'
    BY UnchangedTypes, Zenon DEF producerVars
  <2>2. TypeCall' /\ FrozenAtOnce' /\ CursorsReserved'
    BY UnchangedCalls, Zenon DEF callVars
  <2>3. \E e \in {"retriable", "fatal"} : RequestFailed(c, n, e)
    BY Zenon DEF RoundTripErrors
  <2>4. UNCHANGED <<route, cursor, got>>
    BY Zenon
  <2>5. TypeAttempt'
    <3> HIDE <1>5 DEF SendFails
    <3>1. PICK e \in {"retriable", "fatal"} : RequestFailed(c, n, e)
      BY <2>3, Zenon
    <3> QED
      BY <2>4, <3>1, RequestFailedTypes
  <2> QED
    BY <2>1, <2>2, <2>5, Zenon DEF TypeInv, TypeOK
<1> QED
  BY <1>1, <1>2, <1>3, <1>4, <1>5, Zenon

(* Replies, rollback, the end of an attempt.                               *)

(* The second half of a call, from the responses to the return.            *)
LEMMA LateTypeStep ==
    ASSUME TypeInv, NEW c \in Callers,
           \/ \E n \in Nodes : Receive(c, n) \/ RequestFails(c, n)
           \/ \E p \in Partitions : RollbackBlock(c, p)
           \/ FinishAttempt(c) \/ Backoff(c)
    PROVE  TypeInv'
<1>0. /\ TypeOK
      /\ TypeClient /\ TypeCall /\ TypeAttempt /\ TypeBroker /\ TypeNet
      /\ CursorsReserved /\ FrozenAtOnce
  BY Zenon DEF TypeInv, TypeOK
<1>1. ASSUME NEW n \in Nodes, Receive(c, n)
      PROVE  TypeInv'
  <2>0. UNCHANGED <<pidReady, sequences, meta, pc, calls, size, attempt, frozen, acked, route,
                    cursor, leader, moves, brokerVars, net, delivered>>
    BY <1>1, Zenon DEF Receive, producerVars, callVars
  <2>1. TypeClient' /\ TypeBroker'
    BY <2>0, UnchangedTypes, Zenon
  <2>2. TypeCall' /\ FrozenAtOnce' /\ CursorsReserved'
    BY <2>0, UnchangedCalls, Zenon
  <2>3. PICK r \in replies :
          LET bad == {p \in DOMAIN r.res : r.res[p].code # "none"}
              codes == {r.res[p].code : p \in bad}
          IN  /\ got' = [got EXCEPT ![c] =
                           [i \in Idx |->
                              IF i \in PendingRecords(c) /\ frozen[c][i] \in DOMAIN r.res \ bad
                              THEN RecordOffset(InputByKey(c, frozen[c][i]), i, r.res[frozen[c][i]].off)
                              ELSE got[c][i]]]
              /\ failed' = [failed EXCEPT ![c] = @ \cup bad]
              /\ err' = [err EXCEPT ![c] =
                           IF "fatal" \in codes THEN "fatal"
                           ELSE IF codes # {} THEN WorseError(@, "retriable") ELSE @]
              /\ replies' = replies \ {r}
    BY <1>1, Zenon DEF Receive, MyReply
  <2>4. TypeNet'
    BY <1>0, <2>0, <2>3, Zenon DEF TypeNet
  <2>5. TypeAttempt'
    <3> DEFINE bad == {p \in DOMAIN r.res : r.res[p].code # "none"}
    <3>1. \A p \in DOMAIN r.res \ bad : r.res[p].off \in Nat
      <4>1. IsReply(r)
        BY <1>0, <2>3, Zenon DEF TypeNet
      <4> QED
        BY <4>1, Zenon DEF IsReply
    <3>2. \A p, i : \A o \in Nat : RecordOffset(InputByKey(c, p), i, o) \in Nat
      <4>1. \A p, i : Rank(InputByKey(c, p), i) \in Nat
        BY <1>0, DerivedTypes, IdxSubsets, Zenon
      <4> QED
        BY <4>1 DEF RecordOffset
    <3>3. got' \in [Callers -> [Idx -> Nat \cup {None}]]
      <4> DEFINE new == [i \in Idx |->
                           IF i \in PendingRecords(c) /\ frozen[c][i] \in DOMAIN r.res \ bad
                           THEN RecordOffset(InputByKey(c, frozen[c][i]), i, r.res[frozen[c][i]].off)
                           ELSE got[c][i]]
      <4>1. got' = [got EXCEPT ![c] = new]
        BY <2>3, Zenon
      <4> HIDE DEF bad
      <4>2. new \in [Idx -> Nat \cup {None}]
        <5>1. \A i \in Idx : got[c][i] \in Nat \cup {None}
          BY AttemptTypes, Zenon
        <5>2. ASSUME NEW i \in Idx, frozen[c][i] \in DOMAIN r.res \ bad
              PROVE  RecordOffset(InputByKey(c, frozen[c][i]), i, r.res[frozen[c][i]].off) \in Nat
          BY <3>1, <3>2, <5>2, Zenon
        <5>3. \A i \in Idx : new[i] \in Nat \cup {None}
          BY <5>1, <5>2, Zenon
        <5> QED
          BY <5>3, Zenon
      <4> HIDE DEF new
      <4> QED
        BY <1>0, <4>1, <4>2, Zenon DEF TypeAttempt
    <3>4. failed' \in [Callers -> SUBSET Partitions]
      BY <1>0, <2>3, Zenon DEF TypeAttempt, TypeNet, IsReply
    <3>5. err' \in [Callers -> {"none", "retriable", "fatal"}]
      BY <1>0, <2>3, Zenon DEF TypeAttempt, WorseError
    <3>6. request' \in [Callers -> [Nodes -> {"none", "todo", "waiting", "done"}]]
      BY <1>0, <1>1, Zenon DEF TypeAttempt, Receive
    <3> QED
      BY <1>0, <2>0, <3>3, <3>4, <3>5, <3>6, Zenon DEF TypeAttempt
  <2> QED
    BY <2>1, <2>2, <2>4, <2>5, Zenon DEF TypeInv, TypeOK
<1>2. ASSUME NEW n \in Nodes, RequestFails(c, n)
      PROVE  TypeInv'
  <2>0. UNCHANGED <<pidReady, sequences, meta, pc, calls, size, attempt, frozen, acked, route,
                    cursor, got, leader, moves, brokerVars>>
    BY <1>2, Zenon DEF RequestFails, producerVars, callVars
  <2>1. TypeClient' /\ TypeBroker'
    BY <2>0, UnchangedTypes, Zenon
  <2>2. TypeCall' /\ FrozenAtOnce' /\ CursorsReserved'
    BY <2>0, UnchangedCalls, Zenon
  <2>3. \E e \in {"retriable", "fatal"} : RequestFailed(c, n, e)
    BY <1>2, Zenon DEF RequestFails, RoundTripErrors
  <2>4. TypeAttempt'
    BY <2>0, <2>3, RequestFailedTypes, Zenon
  <2>5. net' \subseteq net /\ replies' \subseteq replies /\ delivered' = delivered
    BY <1>2, Zenon DEF RequestFails
  <2>6. TypeNet'
    BY <1>0, <2>5, Zenon DEF TypeNet
  <2> QED
    BY <2>1, <2>2, <2>4, <2>6, Zenon DEF TypeInv, TypeOK
<1>3. ASSUME NEW p \in Partitions, RollbackBlock(c, p)
      PROVE  TypeInv'
  <2>1. TypeBroker' /\ TypeNet'
    BY <1>3, UnchangedTypes, Zenon DEF RollbackBlock
  <2>2. TypeCall' /\ FrozenAtOnce' /\ CursorsReserved'
    BY <1>3, UnchangedCalls, Zenon DEF RollbackBlock, callVars
  <2>3. RolledBack(sequences[p], BlockLength(c, p)) \in Nat
    <3>1. sequences[p] \in Nat /\ BlockLength(c, p) \in Nat
      BY <1>0, <1>3, DerivedTypes, Zenon DEF TypeClient
    <3> QED
      BY <3>1, RolledBackNat, Zenon
  <2>4. TypeClient'
    BY <1>0, <1>3, <2>3, Zenon DEF RollbackBlock, TypeClient
  <2>5. TypeAttempt'
    BY <1>0, <1>3, Zenon DEF RollbackBlock, TypeAttempt
  <2> QED
    BY <2>1, <2>2, <2>4, <2>5, Zenon DEF TypeInv, TypeOK
<1>4. CASE FinishAttempt(c)
  <2>0. UNCHANGED <<pidReady, sequences, calls, size, attempt, frozen, attemptVars, leader,
                    moves, brokerVars, netVars>>
    BY <1>4, Zenon DEF FinishAttempt, producerVars, callVars
  <2>1. TypeAttempt' /\ TypeBroker'
    BY <2>0, UnchangedTypes, Zenon
  <2>2. TypeClient'
    BY <1>0, <1>4, <2>0, Zenon DEF TypeClient, TypeBroker, Refreshed, FinishAttempt
  <2>3. \E l \in {"ok", "error", "backoff"} : pc' = [pc EXCEPT ![c] = l]
    BY <1>4, Zenon DEF FinishAttempt
  <2> DEFINE fresh == {i \in PendingRecords(c) : got[c][i] # None}
  <2>4. fresh \subseteq 1 .. size[c] /\ fresh \in SUBSET Idx
    BY <1>0, DerivedTypes, Zenon DEF PendingRecords
  <2>5. acked' = [acked EXCEPT ![c] = @ \cup fresh]
    BY <1>4, Zenon DEF FinishAttempt
  <2>6. TypeCall'
    <3> HIDE DEF fresh
    <3>1. acked' \in [Callers -> SUBSET Idx]
      BY <1>0, <2>4, <2>5, Zenon DEF TypeCall
    <3> QED
      BY <1>0, <2>0, <2>3, <3>1, Zenon DEF TypeCall, Returned
  <2>7. OthersUnchanged(c) /\ pc'[c] \in {"ok", "error", "backoff"}
    BY <1>0, <2>0, <2>3, <2>5, Zenon DEF TypeCall, attemptVars, OthersUnchanged
  <2>8. CursorsReserved' /\ FrozenAtOnce'
    <3>1. pc[c] \in {"rollback", "finish"}
      BY <1>4, Zenon DEF FinishAttempt
    <3> QED
      BY <2>0, <2>7, <3>1, UnchangedCursors, UnchangedFreeze, Zenon DEF InAttempt
  <2>9. TypeNet'
    <3>1. \A i \in fresh : /\ <<c, calls[c], i>> \in Records
                          /\ frozen[c][i] \in Partitions
                          /\ got[c][i] \in Nat
      <4>1. pc[c] \in InAttempt
        BY <1>4, Zenon DEF InAttempt, FinishAttempt
      <4>2. \A i \in 1 .. size[c] : frozen[c][i] \in Partitions
        BY <1>0, <4>1, Zenon DEF FrozenAtOnce
      <4>3. \A i \in fresh : <<c, calls[c], i>> \in Records
        BY <1>0, <2>4, Zenon DEF Records, TypeCall
      <4>4. \A i \in fresh : got[c][i] \in Nat
        BY <2>4, AttemptTypes, Zenon
      <4> QED
        BY <2>4, <4>2, <4>3, <4>4, Zenon
    <3>2. delivered' = delivered \cup
            {[rec |-> <<c, calls[c], i>>, part |-> frozen[c][i], off |-> got[c][i]] : i \in fresh}
      BY <1>4, Zenon DEF FinishAttempt
    <3>3. UNCHANGED <<net, replies>>
      BY <2>0, Zenon DEF netVars
    <3> HIDE DEF fresh
    <3>4. ASSUME NEW d \in delivered'
          PROVE  d \in [rec : Records, part : Partitions, off : Nat]
      <4>1. CASE d \in delivered
        BY <1>0, <4>1, Zenon DEF TypeNet
      <4>2. CASE d \notin delivered
        <5>1. PICK i \in fresh :
                d = [rec |-> <<c, calls[c], i>>, part |-> frozen[c][i], off |-> got[c][i]]
          BY <3>2, <3>4, <4>2, Zenon
        <5> QED
          BY <3>1, <5>1, Zenon
      <4> QED
        BY <4>1, <4>2, Zenon
    <3> QED
      BY <1>0, <3>3, <3>4, Zenon DEF TypeNet
  <2> QED
    BY <2>1, <2>2, <2>6, <2>8, <2>9, Zenon DEF TypeInv, TypeOK
<1>5. CASE Backoff(c)
  <2>1. TypeClient' /\ TypeAttempt' /\ TypeBroker' /\ TypeNet'
    BY <1>5, UnchangedTypes, Zenon DEF Backoff, producerVars
  <2>2. /\ pc[c] # "idle" /\ UNCHANGED <<calls, size, attempt, frozen, acked, cursor>>
        /\ \E l \in {"attempt", "error"} : pc' = [pc EXCEPT ![c] = l]
    BY <1>5, Zenon DEF Backoff, callVars, attemptVars
  <2>3. TypeCall'
    BY <1>0, <2>2, Zenon DEF TypeCall, Returned
  <2>4. OthersUnchanged(c) /\ pc'[c] \in {"attempt", "error"}
    BY <1>0, <2>2, Zenon DEF OthersUnchanged, TypeCall
  <2>5. FrozenAtOnce' /\ CursorsReserved'
    BY <2>2, <2>4, UnchangedFreeze, UnchangedCursors, Zenon DEF InAttempt
  <2> QED
    BY <2>1, <2>3, <2>5, Zenon DEF TypeInv, TypeOK
<1> QED
  BY <1>1, <1>2, <1>3, <1>4, <1>5, Zenon

-----------------------------------------------------------------------------
(* The broker, the network and the metadata; type correctness.             *)

(* A broker's step keeps every type.                                       *)
LEMMA BrokerTypeStep ==
    ASSUME TypeInv,
           (\E m \in net : Handle(m)) \/ (\E p \in Partitions : LeaderMoves(p))
    PROVE  TypeInv'
<1> USE ConstantsAssumption
<1>0. /\ TypeOK
      /\ TypeClient /\ TypeCall /\ TypeAttempt /\ TypeBroker /\ TypeNet
  BY Zenon DEF TypeInv, TypeOK
<1>1. ASSUME NEW p \in Partitions, LeaderMoves(p)
      PROVE  TypeInv'
  <2> USE <1>1 DEF LeaderMoves
  <2>1. TypeClient' /\ TypeAttempt' /\ TypeNet'
    BY UnchangedTypes, Zenon DEF producerVars
  <2>2. TypeCall' /\ FrozenAtOnce' /\ CursorsReserved'
    BY UnchangedCalls, Zenon DEF callVars, attemptVars
  <2>3. TypeBroker'
    <3>1. PICK b \in Brokers : leader' = [leader EXCEPT ![p] = b]
      BY Zenon
    <3>2. moves' = moves + 1 /\ UNCHANGED <<log, leo, nextSeq, appended>>
      BY Zenon DEF brokerVars
    <3> HIDE <1>1 DEF LeaderMoves
    <3>3. moves' \in Nat
      BY <1>0, <3>2, AddNat, Zenon DEF TypeBroker
    <3>4. leader' \in [Partitions -> Brokers]
      BY <1>0, <3>1, Zenon DEF TypeBroker
    <3> QED
      BY <1>0, <3>2, <3>3, <3>4, Zenon DEF TypeBroker
  <2> QED
    BY <2>1, <2>2, <2>3, Zenon DEF TypeInv, TypeOK
<1>2. ASSUME NEW m \in net, Handle(m)
      PROVE  TypeInv'
  <2>0. UNCHANGED <<pidReady, sequences, meta, pc, calls, size, attempt, frozen, acked,
                    attemptVars, leader, moves, delivered>>
    BY <1>2, Zenon DEF Handle, producerVars, callVars
  <2>1. TypeClient' /\ TypeAttempt'
    BY <2>0, UnchangedTypes, Zenon
  <2>2. TypeCall' /\ FrozenAtOnce' /\ CursorsReserved'
    BY <2>0, UnchangedCalls, Zenon DEF attemptVars
  <2>3. PICK refused \in SUBSET (IF "refused" \in Faults THEN DOMAIN m.batch ELSE {}),
             unsure \in SUBSET (IF "afterAppend" \in Faults THEN DOMAIN m.batch ELSE {}) :
          Handle(m)!1!(refused, unsure)
    BY <1>2, Zenon DEF Handle
  <2> DEFINE app == Appends(m, refused)
  <2>4. /\ app \subseteq DOMAIN m.batch
        /\ DOMAIN m.batch \subseteq Partitions
        /\ m.c \in Callers /\ m.k \in Nat /\ m.b \in Brokers
        /\ \A p \in DOMAIN m.batch :
             /\ m.batch[p].seq \in Nat \cup {None} /\ m.batch[p].recs \in SUBSET Idx
             /\ Cardinality(m.batch[p].recs) \in Nat
             /\ \A i : Rank(m.batch[p].recs, i) \in Nat
    BY <1>0, IdxSubsets, Zenon DEF TypeNet, IsMessage, Appends
  <2>5. TypeBroker'
    <3> HIDE DEF app
    <3>1. leader' = leader /\ moves' = moves
      BY <2>0, Zenon
    <3>2. log' \in [Partitions -> SUBSET [off : Nat, rec : Records]]
      <4>1. \A p \in app : \A i \in m.batch[p].recs :
              [off |-> leo[p] + Rank(m.batch[p].recs, i), rec |-> <<m.c, m.k, i>>]
                \in [off : Nat, rec : Records]
        <5> TAKE p \in app
        <5> TAKE i \in m.batch[p].recs
        <5>1. leo[p] \in Nat /\ Rank(m.batch[p].recs, i) \in Nat /\ i \in Idx
          BY <1>0, <2>4, Zenon DEF TypeBroker
        <5>2. leo[p] + Rank(m.batch[p].recs, i) \in Nat
          BY <5>1, AddNat, Zenon
        <5>3. <<m.c, m.k, i>> \in Records
          BY <2>4, <5>1, Zenon DEF Records
        <5> QED
          BY <5>2, <5>3, Zenon
      <4>2. log' = [p \in Partitions |-> IF p \in app
                      THEN log[p] \cup {[off |-> leo[p] + Rank(m.batch[p].recs, i),
                                         rec |-> <<m.c, m.k, i>>] : i \in m.batch[p].recs}
                      ELSE log[p]]
        BY <2>3, Zenon DEF app
      <4>3. \A p \in app : {[off |-> leo[p] + Rank(m.batch[p].recs, i),
                              rec |-> <<m.c, m.k, i>>] : i \in m.batch[p].recs}
                              \subseteq [off : Nat, rec : Records]
        <5> SUFFICES ASSUME NEW p \in app,
                            NEW x \in {[off |-> leo[p] + Rank(m.batch[p].recs, i),
                                        rec |-> <<m.c, m.k, i>>] : i \in m.batch[p].recs}
                     PROVE  x \in [off : Nat, rec : Records]
          BY Zenon
        <5>1. PICK i \in m.batch[p].recs :
                x = [off |-> leo[p] + Rank(m.batch[p].recs, i), rec |-> <<m.c, m.k, i>>]
          BY Zenon
        <5> QED
          BY <4>1, <5>1, Zenon
      <4>4. \A p \in Partitions : log[p] \subseteq [off : Nat, rec : Records]
        BY <1>0, Zenon DEF TypeBroker
      <4>5. \A p \in Partitions : log'[p] \subseteq [off : Nat, rec : Records]
        BY <4>2, <4>3, <4>4, Zenon
      <4> QED
        BY <4>2, <4>5, Zenon
    <3>3. leo' \in [Partitions -> Nat]
      <4>1. \A p \in app : leo[p] + Cardinality(m.batch[p].recs) \in Nat
        <5> TAKE p \in app
        <5>1. leo[p] \in Nat /\ Cardinality(m.batch[p].recs) \in Nat
          BY <1>0, <2>4, Zenon DEF TypeBroker
        <5> QED
          BY <5>1, AddNat, Zenon
      <4> QED
        BY <1>0, <2>3, <4>1, Zenon DEF TypeBroker, app
    <3>4. nextSeq' \in [Partitions -> Nat]
      <4>1. \A p \in app : nextSeq[p] + Cardinality(m.batch[p].recs) \in Nat
        <5> TAKE p \in app
        <5>1. nextSeq[p] \in Nat /\ Cardinality(m.batch[p].recs) \in Nat
          BY <1>0, <2>4, Zenon DEF TypeBroker
        <5> QED
          BY <5>1, AddNat, Zenon
      <4> QED
        BY <1>0, <2>3, <4>1, Zenon DEF TypeBroker, app
    <3>5. appended' \in [Partitions -> SUBSET [seq : Nat \cup {None}, n : Nat, off : Nat]]
      <4>1. \A p \in app : [seq |-> m.batch[p].seq, n |-> Cardinality(m.batch[p].recs), off |-> leo[p]]
              \in [seq : Nat \cup {None}, n : Nat, off : Nat]
        BY <1>0, <2>4, Zenon DEF TypeBroker
      <4> QED
        BY <1>0, <2>3, <4>1, Zenon DEF TypeBroker, app
    <3> QED
      BY <1>0, <3>1, <3>2, <3>3, <3>4, <3>5, Zenon DEF TypeBroker
  <2>6. TypeNet'
    <3> DEFINE r == [c |-> m.c, b |-> m.b,
                     res |-> [p \in DOMAIN m.batch |-> Answer(m, p, app, refused, unsure)]]
    <3>1. \A p \in DOMAIN m.batch :
            \/ Answer(m, p, app, refused, unsure).code \in {"retriable", "fatal"}
            \/ /\ Answer(m, p, app, refused, unsure).code = "none"
               /\ Answer(m, p, app, refused, unsure).off \in Nat
      <4> TAKE p \in DOMAIN m.batch
      <4> DEFINE known == Remembered(p, m.batch[p].seq, Cardinality(m.batch[p].recs))
      <4>1. leo[p] \in Nat /\ known \subseteq [seq : Nat \cup {None}, n : Nat, off : Nat]
        BY <1>0, <2>4, Zenon DEF TypeBroker, Remembered
      <4>2. known # {} => (CHOOSE e \in known : TRUE).off \in Nat
        BY <4>1, Zenon
      <4> HIDE DEF app, known
      <4> QED
        BY <4>1, <4>2, Zenon DEF Answer, known
    <3>2. IsReply(r)
      <4> HIDE DEF app
      <4> QED
        BY <2>4, <3>1, Zenon DEF IsReply
    <3>3. net' \subseteq net /\ replies' \subseteq replies \cup {r} /\ delivered' = delivered
      BY <1>2, <2>0, <2>3, Zenon DEF Handle
    <3> HIDE DEF r
    <3> QED
      BY <1>0, <3>2, <3>3, Zenon DEF TypeNet
  <2> QED
    BY <2>1, <2>2, <2>5, <2>6, Zenon DEF TypeInv, TypeOK
<1> QED
  BY <1>1, <1>2, Zenon

LEMMA TypeStep == TypeInv /\ [Next]_vars => TypeInv'
<1> SUFFICES ASSUME TypeInv, [Next]_vars PROVE TypeInv'
  BY Zenon
<1>1. CASE \E c \in Callers : Produce(c) \/ Step(c)
  BY <1>1, EarlyTypeStep, FanOutTypeStep, LateTypeStep, Zenon DEF Step
<1>2. CASE (\E m \in net : Handle(m)) \/ (\E p \in Partitions : LeaderMoves(p))
  BY <1>2, BrokerTypeStep, Zenon
<1>3. CASE UNCHANGED vars
  <2>1. TypeClient' /\ TypeAttempt' /\ TypeBroker' /\ TypeNet'
    BY <1>3, UnchangedTypes, Zenon DEF vars, attemptVars, brokerVars, netVars
  <2>2. TypeCall' /\ FrozenAtOnce' /\ CursorsReserved'
    BY <1>3, UnchangedCalls, Zenon DEF vars
  <2> QED
    BY <2>1, <2>2, Zenon DEF TypeInv, TypeOK
<1> QED
  BY <1>1, <1>2, <1>3, Zenon DEF Next

(* The producer, its broker and the network keep their types; the table of *)
(* sequences never goes below zero, and acknowledgements always carry the  *)
(* partition the record was frozen to.                                     *)
THEOREM TypeCorrect == Spec => []TypeOK
<1>1. Spec => []TypeInv
  BY InitTypeInv, TypeStep, PTL DEF Spec
<1>2. TypeInv => TypeOK
  BY Zenon DEF TypeInv
<1> QED
  BY <1>1, <1>2, PTL

-----------------------------------------------------------------------------

-----------------------------------------------------------------------------
(* Partitions.                                                             *)

(* A retry never moves a record.  The record is followed wherever it is:   *)
(* in a log, or in a request some broker may still handle.                 *)
Carried(r, p) ==
    \/ \E e \in log[p] : e.rec = r
    \/ \E m \in net : p \in DOMAIN m.batch /\ \E i \in m.batch[p].recs : r = <<m.c, m.k, i>>

(* Each record is carried towards one partition, no call is ahead of its   *)
(* caller, and the records of the current call go where they were frozen.  *)
CarriedOnce ==
    \A p, q \in Partitions, r \in Records : Carried(r, p) /\ Carried(r, q) => p = q
CarriedAsFrozen ==
    \A p \in Partitions, c \in Callers, k \in Nat, i \in Idx : Carried(<<c, k, i>>, p) =>
        k <= calls[c] /\ (k = calls[c] => frozen[c][i] = p)
PartitionInv == TypeInv /\ CarriedOnce /\ CarriedAsFrozen

(* A step that carries nothing new and at most freezes an unfrozen call.   *)
LEMMA NothingNew ==
    ASSUME PartitionInv, calls' = calls,
           \A p \in Partitions, r \in Records : Carried(r, p)' => Carried(r, p),
           \A c \in Callers : frozen'[c] = frozen[c] \/ frozen[c][1] = None
    PROVE  CarriedOnce' /\ CarriedAsFrozen'
<1>1. CarriedOnce'
  BY Zenon DEF PartitionInv, CarriedOnce
<1>2. CarriedAsFrozen'
  <2> SUFFICES ASSUME NEW p \in Partitions, NEW c \in Callers, NEW k \in Nat, NEW i \in Idx,
                      Carried(<<c, k, i>>, p)'
               PROVE  k <= calls'[c] /\ (k = calls'[c] => frozen'[c][i] = p)
    BY Zenon DEF CarriedAsFrozen
  <2>1. Carried(<<c, k, i>>, p)
    BY Zenon DEF Records
  <2>2. k <= calls[c] /\ (k = calls[c] => frozen[c][i] = p)
    BY <2>1 DEF PartitionInv, CarriedAsFrozen
  <2>3. frozen[c][1] = None => k # calls[c]
    BY <2>2, ConstantsAssumption, Zenon DEF PartitionInv, TypeInv, FrozenAtOnce
  <2> QED
    BY <2>2, <2>3, Zenon
<1> QED
  BY <1>1, <1>2, Zenon

(* Every step but Send carries nothing new; Send carries the frozen        *)
(* records of its caller's current call.                                   *)
LEMMA PartitionStep == PartitionInv /\ [Next]_vars => PartitionInv'
<1> SUFFICES ASSUME PartitionInv, [Next]_vars PROVE PartitionInv'
  BY Zenon
<1>0. TypeInv'
  BY TypeStep, Zenon DEF PartitionInv
<1>1. (net' \subseteq net /\ log' = log) =>
        \A p \in Partitions, r \in Records : Carried(r, p)' => Carried(r, p)
  BY Zenon DEF Carried
<1>2. ASSUME NEW c \in Callers, Produce(c)
      PROVE  CarriedOnce' /\ CarriedAsFrozen'
  <2>1. UNCHANGED <<net, log>> /\ calls' = [calls EXCEPT ![c] = @ + 1]
    BY <1>2, Zenon DEF Produce, netVars, brokerVars
  <2>2. \A d \in Callers \ {c} : frozen'[d] = frozen[d] /\ calls'[d] = calls[d]
    BY <1>2, Zenon DEF Produce, PartitionInv, TypeInv, TypeOK, TypeCall
  <2>3. calls[c] \in Nat /\ calls'[c] = calls[c] + 1
    BY <2>1, Zenon DEF PartitionInv, TypeInv, TypeOK, TypeCall
  <2>4. \A p \in Partitions, r \in Records : Carried(r, p)' => Carried(r, p)
    BY <1>1, <2>1, Zenon
  <2>5. CarriedOnce'
    BY <2>4, Zenon DEF PartitionInv, CarriedOnce
  <2>6. CarriedAsFrozen'
    <3> SUFFICES ASSUME NEW p \in Partitions, NEW d \in Callers, NEW k \in Nat, NEW i \in Idx,
                        Carried(<<d, k, i>>, p)'
                 PROVE  k <= calls'[d] /\ (k = calls'[d] => frozen'[d][i] = p)
      BY Zenon DEF CarriedAsFrozen
    <3>1. k <= calls[d] /\ (k = calls[d] => frozen[d][i] = p)
      BY <2>4, Zenon DEF PartitionInv, CarriedAsFrozen, Records
    <3> QED
      BY <2>2, <2>3, <3>1
  <2> QED
    BY <2>5, <2>6, Zenon
<1>3. ASSUME NEW c \in Callers,
             \/ EnsureProducerID(c) \/ BeginAttempt(c) \/ ResolvePartition(c) \/ StartFanOut(c)
             \/ Collect(c) \/ FinishAttempt(c) \/ Backoff(c)
             \/ \E p \in Partitions : ReserveBlock(c, p) \/ RollbackBlock(c, p)
             \/ \E n \in Nodes : SendFails(c, n) \/ Receive(c, n) \/ RequestFails(c, n)
      PROVE  CarriedOnce' /\ CarriedAsFrozen'
  <2>1. net' \subseteq net /\ log' = log /\ calls' = calls
    BY <1>3, Zenon DEF EnsureProducerID, BeginAttempt, ResolvePartition, StartFanOut, Collect,
       FinishAttempt, Backoff, ReserveBlock, RollbackBlock, SendFails, Receive, RequestFails,
       netVars, brokerVars, callVars
  <2>2. \A d \in Callers : frozen'[d] = frozen[d] \/ frozen[d][1] = None
    <3>1. CASE BeginAttempt(c)
      BY <3>1, Zenon DEF BeginAttempt, FreezePartitions, PartitionInv, TypeInv, TypeOK, TypeCall
    <3>2. CASE ~BeginAttempt(c)
      BY <1>3, <3>2, Zenon DEF EnsureProducerID, ResolvePartition, StartFanOut, Collect,
         FinishAttempt, Backoff, ReserveBlock, RollbackBlock, SendFails, Receive, RequestFails
    <3> QED
      BY <3>1, <3>2, Zenon
  <2> QED
    BY <1>1, <2>1, <2>2, NothingNew, Zenon
<1>4. ASSUME NEW c \in Callers, NEW b \in Nodes, Send(c, b)
      PROVE  CarriedOnce' /\ CarriedAsFrozen'
  <2>1. log' = log /\ calls' = calls /\ frozen' = frozen /\ calls[c] \in Nat
    BY <1>4, Zenon DEF Send, brokerVars, callVars, PartitionInv, TypeInv, TypeOK, TypeCall
  <2>2. \A p \in Partitions, r \in Records : Carried(r, p)' =>
          Carried(r, p) \/ \E i \in Idx : r = <<c, calls[c], i>> /\ frozen[c][i] = p
    <3> SUFFICES ASSUME NEW p \in Partitions, NEW r \in Records, Carried(r, p)', ~Carried(r, p)
                 PROVE  \E i \in Idx : r = <<c, calls[c], i>> /\ frozen[c][i] = p
      BY Zenon
    <3> DEFINE m == [c |-> c, k |-> calls[c], a |-> attempt[c], b |-> b,
                     batch |-> [q \in BrokerPartKeys(c, b) |->
                                  [seq |-> cursor[c][q], recs |-> SentTo(c, b, q)]]]
    <3>1. net' = net \cup {m}
      BY <1>4, Zenon DEF Send
    <3>2. p \in DOMAIN m.batch /\ \E i \in m.batch[p].recs : r = <<m.c, m.k, i>>
      BY <2>1, <3>1, Zenon DEF Carried
    <3>3. PICK i \in SentTo(c, b, p) : r = <<c, calls[c], i>>
      BY <3>2, Zenon
    <3>4. i \in Idx /\ frozen[c][i] = p
      BY <3>3, DerivedTypes, Zenon DEF PartitionInv, TypeInv, SentTo, InputByKey
    <3> QED
      BY <3>3, <3>4, Zenon
  <2>3. CarriedOnce'
    <3> SUFFICES ASSUME NEW p \in Partitions, NEW q \in Partitions, NEW r \in Records,
                        Carried(r, p)', Carried(r, q)'
                 PROVE  p = q
      BY Zenon DEF CarriedOnce
    <3>1. \A i \in Idx : r = <<c, calls[c], i>> =>
            /\ Carried(r, p) => frozen[c][i] = p
            /\ Carried(r, q) => frozen[c][i] = q
      BY <2>1 DEF PartitionInv, CarriedAsFrozen
    <3>2. Carried(r, p) /\ Carried(r, q) => p = q
      BY Zenon DEF PartitionInv, CarriedOnce
    <3>3. /\ Carried(r, p) \/ \E i \in Idx : r = <<c, calls[c], i>> /\ frozen[c][i] = p
          /\ Carried(r, q) \/ \E i \in Idx : r = <<c, calls[c], i>> /\ frozen[c][i] = q
      BY <2>2, Zenon
    <3>4. CASE Carried(r, p) /\ Carried(r, q)
      BY <3>2, <3>4, Zenon
    <3>5. CASE ~Carried(r, p)
      <4>1. PICK i \in Idx : r = <<c, calls[c], i>> /\ frozen[c][i] = p
        BY <3>3, <3>5, Zenon
      <4>2. \A j \in Idx : r = <<c, calls[c], j>> => j = i
        BY <4>1, Zenon
      <4> QED
        BY <3>1, <3>3, <4>1, <4>2, Zenon
    <3>6. CASE ~Carried(r, q)
      <4>1. PICK i \in Idx : r = <<c, calls[c], i>> /\ frozen[c][i] = q
        BY <3>3, <3>6, Zenon
      <4>2. \A j \in Idx : r = <<c, calls[c], j>> => j = i
        BY <4>1, Zenon
      <4> QED
        BY <3>1, <3>3, <4>1, <4>2, Zenon
    <3> QED
      BY <3>4, <3>5, <3>6, Zenon
  <2>4. CarriedAsFrozen'
    <3> SUFFICES ASSUME NEW p \in Partitions, NEW d \in Callers, NEW k \in Nat, NEW i \in Idx,
                        Carried(<<d, k, i>>, p)'
                 PROVE  k <= calls[d] /\ (k = calls[d] => frozen[d][i] = p)
      BY <2>1 DEF CarriedAsFrozen
    <3>1. <<d, k, i>> \in Records
      BY Zenon DEF Records
    <3>2. CASE Carried(<<d, k, i>>, p)
      BY <3>2, Zenon DEF PartitionInv, CarriedAsFrozen
    <3>3. CASE \E j \in Idx : <<d, k, i>> = <<c, calls[c], j>> /\ frozen[c][j] = p
      BY <2>1, <3>3
    <3> QED
      BY <2>2, <3>1, <3>2, <3>3, Zenon
  <2> QED
    BY <2>3, <2>4, Zenon
<1>5. ASSUME NEW m \in net, Handle(m)
      PROVE  CarriedOnce' /\ CarriedAsFrozen'
  <2>1. net' \subseteq net /\ calls' = calls /\ frozen' = frozen
    BY <1>5, Zenon DEF Handle, callVars
  <2>2. \A p \in Partitions : \A e \in log'[p] :
          e \in log[p] \/ (p \in DOMAIN m.batch /\ \E i \in m.batch[p].recs : e.rec = <<m.c, m.k, i>>)
    <3>1. PICK refused \in SUBSET (IF "refused" \in Faults THEN DOMAIN m.batch ELSE {}),
               unsure \in SUBSET (IF "afterAppend" \in Faults THEN DOMAIN m.batch ELSE {}) :
            Handle(m)!1!(refused, unsure)
      BY <1>5, Zenon DEF Handle
    <3> TAKE p \in Partitions
    <3> TAKE e \in log'[p]
    <3>2. CASE p \in Appends(m, refused)
      <4>1. log'[p] = log[p] \cup {[off |-> leo[p] + Rank(m.batch[p].recs, i),
                                   rec |-> <<m.c, m.k, i>>] : i \in m.batch[p].recs}
        BY <3>1, <3>2, Zenon
      <4>2. p \in DOMAIN m.batch
        BY <3>2, Zenon DEF Appends
      <4>3. CASE e \in log[p]
        BY <4>3, Zenon
      <4>4. CASE e \notin log[p]
        <5>1. PICK i \in m.batch[p].recs :
                e = [off |-> leo[p] + Rank(m.batch[p].recs, i), rec |-> <<m.c, m.k, i>>]
          BY <4>1, <4>4, Zenon
        <5>2. e.rec = <<m.c, m.k, i>>
          BY <5>1, Zenon
        <5> QED
          BY <4>2, <5>2, Zenon
      <4> QED
        BY <4>3, <4>4, Zenon
    <3>3. CASE p \notin Appends(m, refused)
      BY <3>1, <3>3, Zenon
    <3> QED
      BY <3>2, <3>3, Zenon
  <2>3. \A p \in Partitions, r \in Records : Carried(r, p)' => Carried(r, p)
    BY <1>5, <2>1, <2>2, Zenon DEF Carried
  <2> QED
    BY <2>1, <2>3, NothingNew, Zenon
<1>6. ASSUME NEW p \in Partitions, LeaderMoves(p)
      PROVE  CarriedOnce' /\ CarriedAsFrozen'
  BY <1>1, <1>6, NothingNew, Zenon DEF LeaderMoves, netVars, brokerVars, callVars
<1>7. ASSUME UNCHANGED vars
      PROVE  CarriedOnce' /\ CarriedAsFrozen'
  BY <1>1, <1>7, NothingNew, Zenon DEF vars
<1>8. ASSUME NEW c \in Callers, Step(c)
      PROVE  CarriedOnce' /\ CarriedAsFrozen'
  <2>1. CASE \E n \in Nodes : Send(c, n)
    BY <1>4, <2>1, Zenon
  <2>2. CASE ~\E n \in Nodes : Send(c, n)
    BY <1>3, <1>8, <2>2, Zenon DEF Step
  <2> QED
    BY <2>1, <2>2, Zenon
<1>9. CarriedOnce' /\ CarriedAsFrozen'
  BY <1>2, <1>5, <1>6, <1>7, <1>8, Zenon DEF Next
<1> QED
  BY <1>0, <1>9, Zenon DEF PartitionInv

(* However a call fails and is retried, whatever the network and the other *)
(* callers do, all copies of a record are in one partition: the partition  *)
(* freezePartitions chose in the first attempt.                            *)
THEOREM RetriesKeepThePartition == Spec => []OnePartitionPerRecord
<1>1. Init => PartitionInv
  <2> SUFFICES ASSUME Init PROVE PartitionInv
    BY Zenon
  <2>1. \A p \in Partitions, r \in Records : ~Carried(r, p)
    BY Zenon DEF Init, Carried
  <2>2. CarriedOnce /\ CarriedAsFrozen
    BY <2>1, Zenon DEF CarriedOnce, CarriedAsFrozen, Records
  <2> QED
    BY <2>2, InitTypeInv, Zenon DEF PartitionInv
<1>2. PartitionInv => OnePartitionPerRecord
  <2> SUFFICES ASSUME PartitionInv, NEW p \in Partitions, NEW q \in Partitions,
                      NEW e \in log[p], NEW f \in log[q], e.rec = f.rec
               PROVE  p = q
    BY Zenon DEF OnePartitionPerRecord
  <2>1. e.rec \in Records
    BY DEF PartitionInv, TypeInv, TypeOK, TypeBroker
  <2>2. Carried(e.rec, p) /\ Carried(e.rec, q)
    BY Zenon DEF Carried
  <2> QED
    BY <2>1, <2>2, Zenon DEF PartitionInv, CarriedOnce
<1> QED
  BY <1>1, <1>2, PartitionStep, PTL DEF Spec
=============================================================================
