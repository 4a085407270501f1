------------------------- MODULE TransactionRecords -------------------------
(***************************************************************************)
(* What Commit promises, for any partitions and coordinators, any number   *)
(* of transactions, calls, retries and faults: what the transaction's      *)
(* calls acknowledged is stored, in the order of its sequences, and        *)
(* decided with the transaction.  And what ensurePartitions promises: a    *)
(* partition is registered before it is produced to.                       *)
(***************************************************************************)
EXTENDS TransactionOutcomes

-----------------------------------------------------------------------------
(* What was acknowledged is stored.                                        *)

Stored == undecided \cup committed \cup aborted

InFlight(p) == ~Idle /\ call.kind = "produce" /\ \E r \in DOMAIN call.got : r.places = {p}

\* Partition p has taken no sequence of the transaction from here on.
Room(p) == seqs[p] + (IF InFlight(p) THEN 1 ELSE 0)

\* A sequence below the one a partition expects is that of a stored record.
SequenceInv ==
    /\ \A p \in Partitions : pState[p].next > 0 => \E t \in Began : epochOf[t] = pState[p].epoch
    /\ \A q \in Sent : \A p \in Partitions :
          q.kind = "produce" /\ q.places = {p} /\ q.seq < Upto(p, q.epoch) => Records(q) \subseteq Stored
    /\ \A q, r \in Sent :
          q.kind = "produce" /\ r.kind = "produce" /\ q.txn = r.txn /\ q.places = r.places /\ q.seq = r.seq
             => q.call = r.call

AckInv ==
    /\ acked \subseteq Stored
    /\ ~Idle /\ IsData => \A q \in Got("ok") : Records(q) \subseteq Stored

RoomInv ==
    open /\ ~broken =>
        \A p \in Partitions :
           /\ Upto(p, epoch) <= Room(p)
           /\ \A q \in late : q.kind = "produce" /\ q.txn = txn /\ q.places = {p} => q.seq < Room(p)

ProduceInv ==
    ~Idle =>
      /\ ~IsEnd => ~broken
      /\ call.kind = "produce" =>
            /\ \A q \in DOMAIN call.got : \A p \in Partitions :
                  q.places = {p} => q.seq = seqs[p] /\ q.call = call.n
            /\ \A q, r \in DOMAIN call.got : q.places = r.places => q = r

LEMMA RoomIsNat ==
    ASSUME Epochs, NEW p \in Partitions PROVE seqs[p] \in Nat /\ Room(p) \in Nat
<1>1. seqs[p] \in Nat
  BY Zenon DEF Epochs, TypeInv
<1> QED
  BY <1>1 DEF Room

LEMMA SameRecords ==
    ASSUME NEW q, NEW f, Same(q, f) PROVE Records(q) = Records(f)
BY Zenon DEF Same, Records

\* Requests that were sent before, or are sent again, bring no new sequence.
LEMMA SequencesKept ==
    ASSUME SequenceInv, \A q \in Sent' : q.kind = "produce" => \E f \in Sent : Same(q, f),
           Stored \subseteq Stored', UNCHANGED pState,
           Began \subseteq Began', \A s \in Began : epochOf'[s] = epochOf[s]
    PROVE  SequenceInv'
<1>1. \A p \in Partitions : pState'[p].next > 0 => \E t \in Began' : epochOf'[t] = pState'[p].epoch
  BY Zenon DEF SequenceInv
<1>2. ASSUME NEW q \in Sent', NEW p \in Partitions,
             q.kind = "produce", q.places = {p}, (q.seq < Upto(p, q.epoch))'
      PROVE  Records(q) \subseteq Stored'
  <2>1. PICK f \in Sent : Same(q, f)
    BY <1>2, Zenon
  <2>2. f.kind = "produce" /\ f.places = {p} /\ f.seq < Upto(p, f.epoch) /\ Records(q) = Records(f)
    BY <1>2, <2>1, SameRecords, Zenon DEF Same, Upto
  <2> QED
    BY <2>2, Zenon DEF SequenceInv
<1>3. ASSUME NEW q \in Sent', NEW r \in Sent', q.kind = "produce", r.kind = "produce",
             q.txn = r.txn, q.places = r.places, q.seq = r.seq
      PROVE  q.call = r.call
  <2>1. PICK f \in Sent : Same(q, f)
    BY <1>3, Zenon
  <2>2. PICK g \in Sent : Same(r, g)
    BY <1>3, Zenon
  <2>3. f.call = g.call
    <3>1. /\ f.kind = "produce" /\ g.kind = "produce" /\ f.txn = g.txn
          /\ f.places = g.places /\ f.seq = g.seq
      BY <1>3, <2>1, <2>2, Zenon DEF Same
    <3> QED
      BY <3>1, Zenon DEF SequenceInv
  <2> QED
    BY <2>1, <2>2, <2>3, Zenon DEF Same
<1> QED
  BY <1>1, <1>2, <1>3, Zenon DEF SequenceInv

\* A partition takes the next sequence.
LEMMA SequenceTaken ==
    ASSUME Epochs, SequenceInv, NEW q \in Sent, NEW p \in Partitions,
           q.kind = "produce", q.places = {p}, q.seq = Upto(p, q.epoch),
           pState' = [pState EXCEPT ![p] = [epoch |-> q.epoch, next |-> q.seq + 1]],
           Sent' \subseteq Sent, Stored' = Stored \cup Records(q), UNCHANGED epochOf
    PROVE  SequenceInv'
<1>1. q.txn \in Began /\ q.epoch = epochOf[q.txn] /\ Began' = Began /\ q.seq \in Nat
  BY SentIsGenuine, MessageFields, Zenon DEF Began
<1>2. /\ pState'[p].epoch = q.epoch /\ pState'[p].next = q.seq + 1
      /\ \A o \in Partitions : o # p => pState'[o] = pState[o]
  BY Zenon DEF Epochs, TypeInv
<1>3. \A o \in Partitions : pState'[o].next > 0 => \E t \in Began' : epochOf'[t] = pState'[o].epoch
  BY <1>1, <1>2, Zenon DEF SequenceInv
<1>4. ASSUME NEW r \in Sent', NEW o \in Partitions,
             r.kind = "produce", r.places = {o}, (r.seq < Upto(o, r.epoch))'
      PROVE  Records(r) \subseteq Stored'
  <2>1. r \in Sent /\ r.seq \in Nat /\ r.txn \in Began /\ r.epoch = epochOf[r.txn]
    BY <1>4, SentIsGenuine, MessageFields, Zenon
  <2>2. CASE r.seq < Upto(o, r.epoch)
    BY <1>4, <2>1, <2>2, Zenon DEF SequenceInv
  <2>3. CASE o # p
    BY <1>2, <1>4, <2>2, <2>3, Zenon DEF Upto
  <2>4. CASE o = p /\ ~(r.seq < Upto(o, r.epoch))
    <3>1. r.epoch = q.epoch /\ r.seq = q.seq
      BY <1>1, <1>2, <1>4, <2>1, <2>4 DEF Upto
    <3>2. r.txn = q.txn
      BY <1>1, <2>1, <3>1, EpochsDiffer, Zenon
    <3>3. r.call = q.call
      BY <1>4, <2>1, <2>4, <3>1, <3>2, Zenon DEF SequenceInv
    <3> QED
      BY <1>4, <2>4, <3>2, <3>3, Zenon DEF Records
  <2> QED
    BY <2>2, <2>3, <2>4, Zenon
<1> QED
  BY <1>3, <1>4, Zenon DEF SequenceInv

StorageInv == SequenceInv /\ AckInv /\ RoomInv /\ ProduceInv

LEMMA FreshUpto ==
    ASSUME Epochs, SequenceInv, NEW e, Fresh(e), NEW p \in Partitions PROVE Upto(p, e) = 0
<1>1. pState[p].next \in Nat /\ e \in Nat /\ \A t \in Began : epochOf[t] < e
  BY Zenon DEF Epochs, TypeInv, Fresh
<1> QED
  BY <1>1 DEF Upto, SequenceInv

LEMMA SequencesStay ==
    ASSUME SequenceInv, Sent' \subseteq Sent, UNCHANGED <<brokerVars, epochOf>> PROVE SequenceInv'
<1>1. UNCHANGED pState /\ Stored' = Stored /\ Began' = Began
  BY Zenon DEF brokerVars, outcomeVars, Stored, Began
<1>2. \A q \in Sent' : q.kind = "produce" => \E f \in Sent : Same(q, f)
  BY Zenon DEF Same
<1> QED
  BY <1>1, <1>2, SequencesKept, Zenon

LEMMA BeginStorage ==
    ASSUME Outcomes, StorageInv, TV2 => ~Abandon, Begin PROVE StorageInv'
<1>1. /\ Epochs /\ Idle /\ UNCHANGED <<late, acked, brokerVars>> /\ broken' = FALSE
      /\ seqs' = [p \in Partitions |-> 0] /\ txn' = txn + 1
  BY Zenon DEF Begin, Outcomes
<1>2. UNCHANGED pState /\ Stored' = Stored
  BY <1>1, Zenon DEF brokerVars, outcomeVars, Stored
<1>3. \A q \in Sent' : q.kind = "produce" => q \in late /\ q \in Sent
  <2>1. CASE ReuseCached
    BY <1>1, <2>1, Zenon DEF Begin, Sent, Idle
  <2>2. CASE ~ReuseCached
    BY <1>1, <2>2, BeginAsks, Zenon DEF Sent
  <2> QED
    BY <2>1, <2>2, Zenon
<1>4. \A q \in Sent' : q.kind = "produce" => \E f \in Sent : Same(q, f)
  BY <1>3, Zenon DEF Same
<1>5. Began \subseteq Began' /\ \A s \in Began : epochOf'[s] = epochOf[s]
  <2>1. CASE ReuseCached
    BY <1>1, <2>1, BeginReuses, Zenon
  <2>2. CASE ~ReuseCached
    <3>1. UNCHANGED epochOf
      BY <2>2, Zenon DEF Begin
    <3> QED
      BY <3>1, Zenon DEF Began
  <2> QED
    BY <2>1, <2>2, Zenon
<1>6. SequenceInv'
  BY <1>2, <1>4, <1>5, SequencesKept, Zenon DEF StorageInv
<1>7. CASE ReuseCached
  <2>1. call' = None /\ epoch' = cache /\ Fresh(cache)
    BY <1>1, <1>7, BeginReuses, Zenon DEF Begin, Idle
  <2>2. \A p \in Partitions : Upto(p, epoch)' = 0 /\ Room(p)' = 0
    <3>1. \A p \in Partitions : Upto(p, cache) = 0
      BY <1>1, <2>1, FreshUpto, Zenon DEF StorageInv
    <3> QED
      BY <1>1, <1>2, <2>1, <3>1 DEF Upto, Room, InFlight, Idle
  <2>3. \A q \in late : q.txn # txn'
    <3>1. \A q \in late : q.txn <= txn /\ q.txn \in Nat
      BY <1>1, MessageFields DEF Epochs, LateInv, TypeInv, Txns
    <3> QED
      BY <1>1, <3>1 DEF Epochs, TypeInv
  <2>4. RoomInv'
    BY <1>1, <2>2, <2>3 DEF RoomInv
  <2>5. AckInv' /\ ProduceInv'
    BY <1>1, <1>2, <2>1, Zenon DEF StorageInv, AckInv, ProduceInv, Idle
  <2> QED
    BY <1>6, <2>4, <2>5, Zenon DEF StorageInv
<1>8. CASE ~ReuseCached
  <2>1. open' = FALSE /\ call'.kind = "init"
    BY <1>1, <1>8, BeginAsks, Zenon
  <2>2. AckInv' /\ ProduceInv' /\ RoomInv'
    BY <1>1, <1>2, <2>1, Zenon DEF StorageInv, AckInv, ProduceInv, RoomInv, IsData
  <2> QED
    BY <1>6, <2>2, Zenon DEF StorageInv
<1> QED
  BY <1>7, <1>8, Zenon

LEMMA InitDoneStorage ==
    ASSUME Outcomes, StorageInv, InitDone PROVE StorageInv'
<1>1. /\ Epochs /\ call # None /\ call' = None /\ UNCHANGED <<late, acked, brokerVars, seqs, txn>>
  BY Zenon DEF InitDone, AllOk, Answered, Idle, Outcomes
<1>2. /\ UNCHANGED pState /\ Stored' = Stored /\ Sent' = late
      /\ Began \subseteq Began' /\ \A s \in Began : epochOf'[s] = epochOf[s]
  BY <1>1, InitDoneEpochs, Zenon DEF brokerVars, outcomeVars, Stored, Sent, Idle
<1>3. \A q \in Sent' : q.kind = "produce" => \E f \in Sent : Same(q, f)
  BY <1>2, Zenon DEF Same, Sent
<1>4. SequenceInv'
  BY <1>2, <1>3, SequencesKept, Zenon DEF StorageInv
<1>5. txn \notin Began /\ \E e : e = epoch' /\ Fresh(e)
  BY <1>1, InitDoneEpochs, Zenon
<1>6. PICK e : e = epoch' /\ Fresh(e)
  BY <1>5, Zenon
<1>7. \A p \in Partitions : Upto(p, epoch)' = 0 /\ Room(p)' \in Nat
  <2>1. \A p \in Partitions : Upto(p, e) = 0 /\ seqs[p] \in Nat
    BY <1>1, <1>6, FreshUpto, Zenon DEF StorageInv, Epochs, TypeInv
  <2> QED
    BY <1>1, <1>2, <1>6, <2>1 DEF Upto, Room
<1>8. \A q \in late : q.kind = "produce" => q.txn # txn'
  BY <1>1, <1>5, Zenon DEF Epochs, LateInv
<1>9. RoomInv'
  BY <1>1, <1>7, <1>8 DEF RoomInv
<1>10. AckInv' /\ ProduceInv'
  BY <1>1, <1>2, Zenon DEF StorageInv, AckInv, ProduceInv, Idle
<1> QED
  BY <1>4, <1>9, <1>10, Zenon DEF StorageInv

LEMMA CrashStorage ==
    ASSUME Outcomes, StorageInv, Crash PROVE StorageInv'
<1>1. /\ call' = None /\ open' = FALSE /\ UNCHANGED <<brokerVars, acked, epochOf>> /\ late' \subseteq Sent
  BY CrashEpochs, Zenon DEF Crash, historyVars, Outcomes
<1>2. Sent' \subseteq Sent /\ Stored' = Stored
  BY <1>1, Zenon DEF Sent, Idle, Stored, brokerVars, outcomeVars
<1>3. SequenceInv'
  BY <1>1, <1>2, SequencesStay, Zenon DEF StorageInv
<1> QED
  BY <1>1, <1>2, <1>3, Zenon DEF StorageInv, AckInv, RoomInv, ProduceInv, Idle

LEMMA UnresolvedStorage ==
    ASSUME Outcomes, StorageInv, NEW before, ProduceUnresolved(before) PROVE StorageInv'
<1>1. /\ Idle /\ broken' = TRUE /\ UNCHANGED <<call, late, brokerVars, acked, epochOf>>
  BY UnresolvedEpochs, Zenon DEF historyVars, Outcomes
<1>2. Sent' \subseteq Sent /\ Stored' = Stored
  BY <1>1, Zenon DEF Sent, Idle, Stored, brokerVars, outcomeVars
<1>3. SequenceInv'
  BY <1>1, <1>2, SequencesStay, Zenon DEF StorageInv
<1> QED
  BY <1>1, <1>2, <1>3, Zenon DEF StorageInv, AckInv, RoomInv, ProduceInv, Idle

\* The calls on an open handle: their requests carry sequences that no partition has taken.
LEMMA WorkingStorage ==
    ASSUME Outcomes, StorageInv, AbortOnError, None \notin Calls, Working PROVE StorageInv'
<1>1. /\ Epochs /\ Works /\ open
      /\ UNCHANGED <<txn, open, epoch, seqs, broken, late, brokerVars, acked, epochOf>>
      /\ \/ Idle /\ (AbortOnError /\ (broken \/ endFailed) => call'.kind \in {"commit", "abort"})
         \/ ~Idle /\ call.kind = "add" /\ call'.kind \in {"produce", "offsets"}
  BY WorkingWorks, Zenon DEF WorkingRest, Outcomes
<1>2. /\ UNCHANGED <<pState>> /\ Stored' = Stored /\ Began' = Began /\ call' # None /\ Got("ok")' = {}
      /\ Sent' = late \cup DOMAIN call'.got
  BY <1>1, PendingAnswer, Zenon DEF brokerVars, outcomeVars, Stored, Began, Works, Issues, Sent, Idle, Got
<1>3. (call'.kind \notin {"commit", "abort"} => ~broken) /\ \A p : ~InFlight(p)
  BY <1>1, Zenon DEF StorageInv, ProduceInv, IsEnd, InFlight
<1>4. \A p \in Partitions : seqs[p] \in Nat /\ Room(p) = seqs[p] /\ Room(p) <= Room(p)' /\ Room(p)' \in Nat
  BY <1>1, <1>3 DEF Room, Epochs, TypeInv
<1>5. \A p \in Partitions : \A e : Upto(p, e)' = Upto(p, e) /\ Upto(p, e) \in Nat
  BY <1>1, <1>2, Zenon DEF Upto, Epochs, TypeInv
<1>6. open /\ ~broken =>
        \A p \in Partitions :
           /\ Upto(p, epoch) <= seqs[p]
           /\ \A q \in late : q.kind = "produce" /\ q.txn = txn /\ q.places = {p} => q.seq < seqs[p]
  BY <1>4, Zenon DEF StorageInv, RoomInv
<1>7. \A q \in late : q.seq \in Nat
  BY <1>1, MessageFields, Zenon DEF Epochs, TypeInv
<1>8. ASSUME NEW q \in DOMAIN call'.got, q.kind = "produce"
      PROVE  /\ ~broken /\ call'.kind = "produce" /\ q.txn = txn /\ q.epoch = epoch
             /\ \E p \in Partitions :
                   /\ q = Message(txn, call'.n, 1, "produce", epoch, {p}, seqs[p], FALSE, None)
                   /\ q.places = {p} /\ q.seq = seqs[p] /\ q.call = call'.n
  <2>1. Own(q)'
    BY <1>1, Zenon DEF Works
  <2>2. call'.kind = "produce" /\ q.txn = txn /\ q.epoch = epoch
    BY <1>1, <1>8, <2>1, Zenon DEF Own, Sends
  <2> QED
    BY <1>1, <1>3, <2>2, Zenon DEF Works, NewProduce
<1>9. SequenceInv'
  <2>1. \A p \in Partitions : pState'[p].next > 0 => \E t \in Began' : epochOf'[t] = pState'[p].epoch
    BY <1>1, <1>2, Zenon DEF StorageInv, SequenceInv
  <2>2. ASSUME NEW q \in Sent', NEW p \in Partitions,
               q.kind = "produce", q.places = {p}, (q.seq < Upto(p, q.epoch))'
        PROVE  Records(q) \subseteq Stored'
    <3>1. CASE q \in late
      BY <1>2, <1>5, <2>2, <3>1, Zenon DEF StorageInv, SequenceInv, Sent
    <3>2. CASE q \in DOMAIN call'.got
      <4>1. ~broken /\ q.epoch = epoch /\ q.seq = seqs[p]
        BY <1>8, <2>2, <3>2, Zenon
      <4> QED
        BY SMTT(30), <1>1, <1>4, <1>5, <1>6, <2>2, <4>1
    <3> QED
      BY <1>2, <3>1, <3>2, Zenon
  <2>3. ASSUME NEW q \in Sent', NEW r \in Sent', q.kind = "produce", r.kind = "produce",
               q.txn = r.txn, q.places = r.places, q.seq = r.seq
        PROVE  q.call = r.call
    <3>1. ASSUME NEW x \in late, NEW y \in DOMAIN call'.got, x.kind = "produce", y.kind = "produce",
                 x.txn = y.txn, x.places = y.places
          PROVE  x.seq # y.seq
      <4>1. PICK p \in Partitions : y.places = {p} /\ y.seq = seqs[p] /\ y.txn = txn /\ ~broken
        BY <1>8, <3>1, Zenon
      <4>2. x.seq < seqs[p]
        BY <1>1, <1>6, <3>1, <4>1, Zenon
      <4> QED
        BY <1>4, <1>7, <4>1, <4>2
    <3>2. CASE q \in late /\ r \in late
      <4>1. q \in Sent /\ r \in Sent
        BY <3>2, Zenon DEF Sent
      <4> QED
        BY <2>3, <4>1, Zenon DEF StorageInv, SequenceInv
    <3>3. CASE q \in DOMAIN call'.got /\ r \in DOMAIN call'.got
      BY <1>8, <2>3, <3>3, Zenon
    <3> QED
      BY <1>2, <2>3, <3>1, <3>2, <3>3, Zenon
  <2> QED
    BY <2>1, <2>2, <2>3, Zenon DEF SequenceInv
<1>10. AckInv'
  BY <1>1, <1>2, Zenon DEF StorageInv, AckInv
<1>11. RoomInv'
  BY <1>1, <1>4, <1>5, <1>6, <1>7 DEF RoomInv
<1>12. ProduceInv'
  <2>1. \A q \in DOMAIN call'.got : call'.kind = "produce" => q.kind = "produce"
    BY <1>1, Zenon DEF Works, Own, Sends
  <2>2. ASSUME call'.kind = "produce", NEW q \in DOMAIN call'.got, NEW p \in Partitions, q.places = {p}
        PROVE  q.seq = seqs[p] /\ q.call = call'.n
    BY <1>8, <2>1, <2>2, Zenon
  <2>3. ASSUME call'.kind = "produce", NEW q \in DOMAIN call'.got, NEW r \in DOMAIN call'.got,
               q.places = r.places
        PROVE  q = r
    <3>1. PICK p \in Partitions :
             q = Message(txn, call'.n, 1, "produce", epoch, {p}, seqs[p], FALSE, None) /\ q.places = {p}
      BY <1>8, <2>1, <2>3, Zenon
    <3>2. PICK o \in Partitions :
             r = Message(txn, call'.n, 1, "produce", epoch, {o}, seqs[o], FALSE, None) /\ r.places = {o}
      BY <1>8, <2>1, <2>3, Zenon
    <3>3. o = p
      BY <2>3, <3>1, <3>2, Zenon
    <3> QED
      BY <3>1, <3>2, <3>3, Zenon
  <2> QED
    BY <1>1, <1>3, <2>2, <2>3, Zenon DEF ProduceInv, IsEnd
<1> QED
  BY <1>9, <1>10, <1>11, <1>12, Zenon DEF StorageInv

LEMMA AcksAreStored ==
    ASSUME AckInv, call # None PROVE AckedAfter \subseteq Stored
BY Zenon DEF AckInv, AckedAfter, Idle

\* A sequence moves on when its request was acknowledged.
LEMMA SeqsMove ==
    ASSUME Epochs, NEW p \in Partitions
    PROVE  /\ seqs[p] \in Nat
           /\ SeqsAfter[p] = IF call.kind = "produce" /\ \E q \in Got("ok") : q.places = {p}
                             THEN seqs[p] + 1 ELSE seqs[p]
BY Zenon DEF SeqsAfter, Epochs, TypeInv

\* A call is over.
LEMMA CallOverStorage ==
    ASSUME Outcomes, StorageInv, call' = None, UNCHANGED <<late, txn, brokerVars, epochOf>>,
           acked' \subseteq Stored,
           open' /\ ~broken' => /\ open /\ ~broken /\ epoch' = epoch
                                /\ \A p \in Partitions : seqs'[p] \in Nat /\ Room(p) <= seqs'[p]
    PROVE  StorageInv'
<1>1. Sent' \subseteq Sent /\ Stored' = Stored /\ UNCHANGED pState
  BY Zenon DEF Sent, Idle, Stored, brokerVars, outcomeVars
<1>2. SequenceInv'
  BY <1>1, SequencesStay, Zenon DEF StorageInv
<1>3. ASSUME open', ~broken', NEW p \in Partitions
      PROVE  /\ Upto(p, epoch)' <= Room(p)'
             /\ \A q \in late : q.kind = "produce" /\ q.txn = txn /\ q.places = {p} => q.seq < Room(p)'
  <2>1. /\ Upto(p, epoch)' = Upto(p, epoch) /\ Upto(p, epoch) \in Nat /\ seqs[p] \in Nat
        /\ \A q \in late : q.seq \in Nat
    BY <1>1, <1>3, MessageFields, Zenon DEF Upto, Outcomes, Epochs, TypeInv
  <2>2. Room(p)' = seqs'[p] /\ Room(p) \in Nat /\ Room(p) <= seqs'[p] /\ seqs'[p] \in Nat
    BY SMTT(30), <1>3, <2>1 DEF Room, InFlight, Idle
  <2>3. /\ Upto(p, epoch) <= Room(p)
        /\ \A q \in late : q.kind = "produce" /\ q.txn = txn /\ q.places = {p} => q.seq < Room(p)
    BY <1>3, Zenon DEF StorageInv, RoomInv
  <2> QED
    BY SMTT(30), <2>1, <2>2, <2>3
<1>4. RoomInv'
  BY <1>3, Zenon DEF RoomInv
<1> QED
  BY <1>1, <1>2, <1>4, Zenon DEF StorageInv, AckInv, ProduceInv, Idle

LEMMA CallOversStorage ==
    ASSUME Outcomes, StorageInv, DataDone \/ EndDone \/ CallFails PROVE StorageInv'
<1>1. /\ call # None /\ call' = None /\ UNCHANGED <<late, txn, brokerVars, epochOf>>
      /\ acked' = AckedAfter \/ acked' = acked
  BY Zenon DEF DataDone, EndDone, CallFails, AllOk, Answered, Idle
<1>2. acked' \subseteq Stored /\ Epochs
  BY <1>1, AcksAreStored, Zenon DEF StorageInv, AckInv, Outcomes
<1>3. CASE DataDone
  <2>1. /\ UNCHANGED <<open, broken, epoch>> /\ seqs' = SeqsAfter /\ Got("ok") = DOMAIN call.got
    BY <1>3, Zenon DEF DataDone, AllOk
  <2>2. \A p \in Partitions : seqs'[p] \in Nat /\ Room(p) <= seqs'[p]
    BY <1>1, <1>2, <2>1, SeqsMove DEF Room, InFlight
  <2> QED
    BY <1>1, <1>2, <2>1, <2>2, CallOverStorage, Zenon
<1>4. CASE EndDone
  <2>1. open' = FALSE
    BY <1>4, Zenon DEF EndDone
  <2> QED
    BY <1>1, <1>2, <2>1, CallOverStorage, Zenon
<1>5. CASE CallFails
  <2>1. UNCHANGED <<open, epoch>> /\ seqs' = SeqsAfter /\ (~broken' => ~broken /\ (IsEnd \/ call.kind = "init"))
    BY <1>5, Zenon DEF CallFails
  <2>2. ~broken' => call.kind # "produce"
    BY <2>1, Zenon DEF IsEnd
  <2>3. ~broken' => \A p \in Partitions : seqs'[p] \in Nat /\ Room(p) <= seqs'[p]
    BY <1>2, <2>1, <2>2, SeqsMove DEF Room, InFlight
  <2> QED
    BY <1>1, <1>2, <2>1, <2>3, CallOverStorage, Zenon
<1> QED
  BY <1>3, <1>4, <1>5, Zenon

LEMMA RetryStorage ==
    ASSUME Outcomes, StorageInv, None \notin Calls, Retry PROVE StorageInv'
<1>1. /\ UNCHANGED <<late, txn, open, epoch, broken, brokerVars, epochOf>> /\ Epochs
      /\ acked' = AckedAfter /\ seqs' = SeqsAfter
  BY Zenon DEF Retry, Outcomes
<1>2. /\ call # None /\ Issues /\ call'.kind = call.kind /\ call'.n = call.n
      /\ \A q \in DOMAIN call'.got : \E f \in Failed : q = Again(f) /\ Same(q, f)
      /\ \A f \in Failed : Again(f) \in DOMAIN call'.got /\ Same(Again(f), f)
  BY <1>1, RetrySends, Zenon
<1>3. /\ UNCHANGED pState /\ Stored' = Stored /\ Began' = Began /\ call' # None /\ Got("ok")' = {}
      /\ Sent' = late \cup DOMAIN call'.got /\ late \subseteq Sent /\ Failed \subseteq Sent
      /\ Failed \subseteq DOMAIN call.got /\ Failed \cap Got("ok") = {}
      /\ DOMAIN call.got = Failed \cup Got("ok")
  BY <1>1, <1>2, PendingAnswer, Zenon DEF brokerVars, outcomeVars, Stored, Began, Issues, Sent, Idle, Got, Failed
<1>4. SequenceInv'
  <2>1. \A q \in DOMAIN call'.got : \E f \in Sent : Same(q, f)
    BY <1>2, <1>3, Zenon
  <2>2. \A q \in late : q \in Sent /\ Same(q, q)
    BY <1>3, Zenon DEF Same
  <2> QED
    BY <1>1, <1>3, <2>1, <2>2, SequencesKept, Zenon DEF StorageInv
<1>5. AckInv'
  BY <1>1, <1>2, <1>3, AcksAreStored, Zenon DEF StorageInv, AckInv
<1>6. call.kind = "produce" =>
         /\ \A q \in DOMAIN call.got : \A p \in Partitions : q.places = {p} => q.seq = seqs[p] /\ q.call = call.n
         /\ \A q, r \in DOMAIN call.got : q.places = r.places => q = r
  BY <1>2, Zenon DEF StorageInv, ProduceInv, Idle
<1>7. ProduceInv'
  <2>1. ASSUME call'.kind = "produce", NEW q \in DOMAIN call'.got, NEW p \in Partitions, q.places = {p}
        PROVE  q.seq = seqs'[p] /\ q.call = call'.n
    <3>1. PICK f \in Failed : Same(q, f)
      BY <1>2, Zenon
    <3>2. f \in DOMAIN call.got /\ f \notin Got("ok") /\ f.places = {p}
      BY <1>3, <2>1, <3>1, Zenon DEF Same
    <3>3. f.seq = seqs[p] /\ f.call = call.n /\ \A g \in DOMAIN call.got : g.places = {p} => g = f
      BY <1>2, <1>6, <2>1, <3>2, Zenon
    <3>4. seqs'[p] = seqs[p]
      BY <1>1, <1>3, <3>2, <3>3, SeqsMove, Zenon
    <3> QED
      BY <1>2, <3>1, <3>3, <3>4, Zenon DEF Same
  <2>2. ASSUME call'.kind = "produce", NEW q \in DOMAIN call'.got, NEW r \in DOMAIN call'.got,
               q.places = r.places
        PROVE  q = r
    <3>1. PICK f \in Failed : q = Again(f) /\ Same(q, f)
      BY <1>2, Zenon
    <3>2. PICK g \in Failed : r = Again(g) /\ Same(r, g)
      BY <1>2, Zenon
    <3>3. f = g
      BY SMTT(30), <1>2, <1>3, <1>6, <2>2, <3>1, <3>2 DEF Same
    <3> QED
      BY <3>1, <3>2, <3>3, Zenon
  <2>3. ~IsEnd' => ~broken'
    BY <1>1, <1>2, Zenon DEF StorageInv, ProduceInv, Idle, IsEnd
  <2> QED
    BY <2>1, <2>2, <2>3, Zenon DEF ProduceInv
<1>8. \A p \in Partitions : Room(p) \in Nat /\ Room(p)' \in Nat /\ Room(p) <= Room(p)'
  <2> SUFFICES ASSUME NEW p \in Partitions
               PROVE  Room(p) \in Nat /\ Room(p)' \in Nat /\ Room(p) <= Room(p)'
    BY Zenon
  <2>1. /\ seqs[p] \in Nat
        /\ seqs'[p] = IF call.kind = "produce" /\ \E q \in Got("ok") : q.places = {p}
                      THEN seqs[p] + 1 ELSE seqs[p]
    BY <1>1, SeqsMove, Zenon
  <2>2. InFlight(p) => InFlight(p)' \/ seqs'[p] = seqs[p] + 1
    <3> SUFFICES ASSUME call.kind = "produce", NEW r \in DOMAIN call.got, r.places = {p}
                 PROVE  InFlight(p)' \/ seqs'[p] = seqs[p] + 1
      BY Zenon DEF InFlight
    <3>1. CASE r \in Got("ok")
      BY <2>1, <3>1, Zenon
    <3>2. CASE r \in Failed
      BY SMTT(30), <1>2, <1>3, <3>2 DEF Same, InFlight, Idle
    <3> QED
      BY <1>3, <3>1, <3>2, Zenon
  <2> QED
    BY SMTT(30), <2>1, <2>2 DEF Room
<1>9. RoomInv'
  <2>1. \A p \in Partitions : Upto(p, epoch)' = Upto(p, epoch) /\ Upto(p, epoch) \in Nat
    BY <1>1, <1>3, Zenon DEF Upto, Epochs, TypeInv
  <2>2. \A q \in late : q.seq \in Nat
    BY <1>1, MessageFields, Zenon DEF Epochs, TypeInv
  <2> SUFFICES ASSUME open', ~broken', NEW p \in Partitions
               PROVE  /\ Upto(p, epoch)' <= Room(p)'
                      /\ \A q \in late' : q.kind = "produce" /\ q.txn = txn' /\ q.places = {p} => q.seq < Room(p)'
    BY Zenon DEF RoomInv
  <2>3. /\ Upto(p, epoch) <= Room(p)
        /\ \A q \in late : q.kind = "produce" /\ q.txn = txn /\ q.places = {p} => q.seq < Room(p)
    BY <1>1, Zenon DEF StorageInv, RoomInv
  <2>4. Upto(p, epoch)' <= Room(p)'
    BY <1>8, <2>1, <2>3
  <2>5. \A q \in late : q.seq < Room(p) => q.seq < Room(p)'
    BY <1>8, <2>2
  <2> QED
    BY <1>1, <2>3, <2>4, <2>5, Zenon
<1> QED
  BY <1>4, <1>5, <1>7, <1>9, Zenon DEF StorageInv

LEMMA HearsSent ==
    ASSUME None \notin Calls, NEW q, NEW a, Hears(q, a)
    PROVE  /\ Sent' \subseteq Sent /\ (call' = None) = (call = None)
           /\ call # None => /\ call'.kind = call.kind /\ call'.n = call.n /\ DOMAIN call'.got = DOMAIN call.got
                             /\ \A r \in DOMAIN call.got : call'.got[r] = call.got[r] \/ (r = q /\ call'.got[r] = a)
BY Zenon DEF Hears, Sent, Idle

\* An answer that acknowledges a record follows its storing.
LEMMA HearStorage ==
    ASSUME Outcomes, StorageInv, None \notin Calls, NEW q, NEW a, Hears(q, a),
           UNCHANGED <<clientVars, historyVars>>, Stored \subseteq Stored',
           a.code = "ok" /\ q.kind \in {"produce", "offsets"} => Records(q) \subseteq Stored',
           open /\ ~broken => \A p \in Partitions : Upto(p, epoch)' <= Room(p)
    PROVE  AckInv' /\ RoomInv' /\ ProduceInv'
<1>1. UNCHANGED <<txn, open, epoch, seqs, broken, acked>> /\ Epochs
  BY Zenon DEF clientVars, handleVars, historyVars, Outcomes
<1>2. /\ (call' = None) = (call = None) /\ late' \subseteq late \cup (IF call = None THEN {} ELSE DOMAIN call.got)
      /\ call # None => /\ call'.kind = call.kind /\ call'.n = call.n /\ DOMAIN call'.got = DOMAIN call.got
                        /\ \A r \in DOMAIN call.got : call'.got[r] = call.got[r] \/ (r = q /\ call'.got[r] = a)
  BY HearsSent, Zenon DEF Sent, Hears, Idle
<1>3. call # None => \A r \in DOMAIN call.got : Own(r)
  BY <1>1, Zenon DEF Epochs, CallInv, Idle
<1>4. \A p : Room(p)' = Room(p) /\ InFlight(p)' = InFlight(p)
  BY <1>1, <1>2, Zenon DEF Room, InFlight, Idle
<1>5. AckInv'
  <2> SUFFICES ASSUME call' # None, IsData', NEW r \in Got("ok")' PROVE Records(r) \subseteq Stored'
    BY <1>1, Zenon DEF AckInv, Idle, StorageInv
  <2>1. call # None /\ r \in DOMAIN call.got /\ call'.got[r].code = "ok" /\ IsData
    BY <1>2, Zenon DEF Got, IsData
  <2>2. CASE call'.got[r] = call.got[r]
    BY <2>1, <2>2, Zenon DEF StorageInv, AckInv, Idle, Got
  <2>3. CASE r = q /\ call'.got[r] = a
    <3>1. q.kind \in {"produce", "offsets"} /\ a.code = "ok"
      BY <1>3, <2>1, <2>3, Zenon DEF Own, Sends, IsData
    <3> QED
      BY <2>3, <3>1, Zenon
  <2> QED
    BY <1>2, <2>1, <2>2, <2>3, Zenon
<1>6. ProduceInv'
  <2>1. ASSUME call # None
        PROVE  /\ ~IsEnd => ~broken
               /\ call.kind = "produce" =>
                     /\ \A r \in DOMAIN call.got : \A p \in Partitions :
                           r.places = {p} => r.seq = seqs[p] /\ r.call = call.n
                     /\ \A r, s \in DOMAIN call.got : r.places = s.places => r = s
    BY <2>1, Zenon DEF StorageInv, ProduceInv, Idle
  <2> QED
    BY <1>1, <1>2, <2>1, Zenon DEF ProduceInv, Idle, IsEnd
<1>7. ASSUME open, ~broken, NEW p \in Partitions, NEW r \in late',
             r.kind = "produce", r.txn = txn, r.places = {p}
      PROVE  r.seq < Room(p)
  <2>1. CASE r \in late
    BY <1>7, <2>1, Zenon DEF StorageInv, RoomInv
  <2>2. CASE r \notin late
    <3>1. call # None /\ r \in DOMAIN call.got /\ Own(r)
      BY <1>2, <1>3, <2>2, Zenon
    <3>2. call.kind = "produce"
      BY <1>7, <3>1, Zenon DEF Own, Sends
    <3>3. r.seq = seqs[p] /\ InFlight(p)
      BY <1>7, <3>1, <3>2, Zenon DEF StorageInv, ProduceInv, InFlight, Idle
    <3>4. seqs[p] \in Nat
      BY <1>1, RoomIsNat, Zenon
    <3> QED
      BY <3>3, <3>4 DEF Room
  <2> QED
    BY <2>1, <2>2, Zenon
<1>8. RoomInv'
  BY <1>1, <1>4, <1>7, Zenon DEF RoomInv
<1> QED
  BY <1>5, <1>6, <1>8, Zenon

LEMMA DecidedIsStored ==
    ASSUME NEW commit, Decide(commit) PROVE Stored' = Stored
BY Zenon DEF Decide, Stored

LEMMA FaultStorage ==
    ASSUME Outcomes, StorageInv, None \notin Calls, NEW q, NEW a, FaultEffect(q, a) PROVE StorageInv'
<1>1. UNCHANGED <<clientVars, historyVars, pState>> /\ a.code # "ok" /\ Hears(q, a)
  BY Zenon DEF FaultEffect
<1>2. Stored' = Stored
  <2>1. CASE UNCHANGED brokerVars
    BY <2>1, Zenon DEF brokerVars, outcomeVars, Stored
  <2>2. CASE AbortAndFence
    BY <2>2, DecidedIsStored, Zenon DEF AbortAndFence
  <2> QED
    BY <2>1, <2>2, Zenon DEF FaultEffect
<1>3. UNCHANGED <<epochOf, epoch>> /\ Began' = Began
  BY <1>1, Zenon DEF historyVars, clientVars, handleVars, Began
<1>4. \A r \in Sent' : \E f \in Sent : Same(r, f)
  BY <1>1, HearsSent, Zenon DEF Same
<1>5. SequenceInv'
  BY <1>1, <1>2, <1>3, <1>4, SequencesKept, Zenon DEF StorageInv
<1>6. open /\ ~broken => \A p \in Partitions : Upto(p, epoch)' <= Room(p)
  BY <1>1, <1>3, Zenon DEF StorageInv, RoomInv, Upto
<1> QED
  BY <1>1, <1>2, <1>5, <1>6, HearStorage, Zenon DEF StorageInv

LEMMA ServingStorage ==
    ASSUME Outcomes, StorageInv, None \notin Calls, NEW q \in OnTheWire, NEW a, Hears(q, a),
           Serving(q, a), UNCHANGED <<clientVars, historyVars>>
    PROVE  StorageInv'
<1>1. UNCHANGED <<epochOf, epoch>> /\ Began' = Began /\ Epochs /\ Sent' \subseteq Sent
  BY HearsSent, Zenon DEF historyVars, clientVars, handleVars, Began, Outcomes
<1>2. /\ q \in Sent /\ q \in Messages /\ q.seq \in Nat
      /\ q.kind # "init" => q.txn \in Began /\ q.epoch = epochOf[q.txn]
  BY <1>1, SentIsGenuine, MessageFields, Zenon DEF OnTheWire, Sent, Got
<1>3. \A r \in Sent' : \E f \in Sent : Same(r, f)
  BY <1>1, Zenon DEF Same
<1>4. ASSUME UNCHANGED pState, Stored \subseteq Stored',
             a.code = "ok" /\ q.kind \in {"produce", "offsets"} => Records(q) \subseteq Stored'
      PROVE  StorageInv'
  <2>1. SequenceInv'
    BY <1>1, <1>3, <1>4, SequencesKept, Zenon DEF StorageInv
  <2>2. open /\ ~broken => \A p \in Partitions : Upto(p, epoch)' <= Room(p)
    BY <1>1, <1>4, Zenon DEF StorageInv, RoomInv, Upto
  <2> QED
    BY <1>4, <2>1, <2>2, HearStorage, Zenon DEF StorageInv
<1>5. CASE Refuses(a) \/ EndsAgain(q, a) \/ Adds(q)
  <2>1. /\ UNCHANGED pState /\ Stored' = Stored /\ (a.code = "ok" => q.kind \notin {"produce", "offsets"})
    BY <1>5, Zenon DEF Refuses, EndsAgain, Adds, brokerVars, outcomeVars, Stored
  <2> QED
    BY <1>4, <2>1, Zenon
<1>6. CASE Inits(q, a) \/ EndsNow(q, a)
  <2>1. UNCHANGED pState /\ Stored' = Stored /\ q.kind \notin {"produce", "offsets"}
    BY <1>6, DecidedIsStored, Zenon DEF Inits, EndsNow, AbortAndFence
  <2> QED
    BY <1>4, <2>1, Zenon
<1>7. CASE TakesOffsets(q)
  <2>1. UNCHANGED pState /\ Stored \subseteq Stored' /\ Records(q) \subseteq Stored'
    BY <1>7, Zenon DEF TakesOffsets, Stored
  <2> QED
    BY <1>4, <2>1, Zenon
<1>8. CASE Produces(q, a)
  <2>1. PICK p \in Partitions :
           /\ q.kind = "produce" /\ q.places = {p} /\ q.epoch = cEpoch
           /\ \/ /\ q.seq = Upto(p, q.epoch)
                 /\ undecided' = undecided \cup Records(q)
                 /\ pState' = [pState EXCEPT ![p] = [epoch |-> q.epoch, next |-> q.seq + 1]]
              \/ /\ a.code = "ok" => q.seq < Upto(p, q.epoch)
                 /\ UNCHANGED <<undecided, pState>>
           /\ UNCHANGED <<committed, aborted>>
    BY <1>8, Zenon DEF Produces
  <2>2. CASE (a.code = "ok" => q.seq < Upto(p, q.epoch)) /\ UNCHANGED <<undecided, pState>>
    <3>1. Stored' = Stored /\ (a.code = "ok" => Records(q) \subseteq Stored)
      BY <1>2, <2>1, <2>2, Zenon DEF Stored, StorageInv, SequenceInv
    <3> QED
      BY <1>4, <2>2, <3>1, Zenon
  <2>3. CASE /\ q.seq = Upto(p, q.epoch) /\ undecided' = undecided \cup Records(q)
             /\ pState' = [pState EXCEPT ![p] = [epoch |-> q.epoch, next |-> q.seq + 1]]
    <3>1. Stored' = Stored \cup Records(q)
      BY <2>1, <2>3, Zenon DEF Stored
    <3>2. SequenceInv'
      BY <1>1, <1>2, <2>1, <2>3, <3>1, SequenceTaken, Zenon DEF StorageInv
    <3>3. ASSUME open, ~broken, q.epoch = epoch PROVE q.seq + 1 <= Room(p)
      <4>1. q.txn = txn /\ txn \in Began
        <5>1. txn \in Began /\ epochOf[txn] = epoch
          BY <1>1, <3>3, Zenon DEF Epochs, EpochInv
        <5>2. q.txn \in Began /\ epochOf[q.txn] = q.epoch
          BY <1>2, <2>1, Zenon
        <5> QED
          BY <1>1, <3>3, <5>1, <5>2, EpochsDiffer, Zenon
      <4>2. seqs[p] \in Nat /\ Room(p) \in Nat
        BY <1>1, RoomIsNat, Zenon
      <4>3. CASE q \in late
        <5>1. q.seq < Room(p)
          BY <2>1, <3>3, <4>1, <4>3, Zenon DEF StorageInv, RoomInv
        <5> QED
          BY SMTT(30), <1>2, <4>2, <5>1
      <4>4. CASE q \notin late
        <5>1. call # None /\ q \in DOMAIN call.got /\ Own(q)
          BY <1>1, <1>2, <4>4, Zenon DEF Sent, Epochs, CallInv, Idle
        <5>2. call.kind = "produce"
          BY <2>1, <5>1, Zenon DEF Own, Sends
        <5>3. q.seq = seqs[p] /\ InFlight(p)
          BY <2>1, <5>1, <5>2, Zenon DEF StorageInv, ProduceInv, InFlight, Idle
        <5> QED
          BY <4>2, <5>3 DEF Room
      <4> QED
        BY <4>3, <4>4, Zenon
    <3>4. open /\ ~broken => \A o \in Partitions : Upto(o, epoch)' <= Room(o)
      <4> SUFFICES ASSUME open, ~broken, NEW o \in Partitions PROVE Upto(o, epoch)' <= Room(o)
        BY Zenon
      <4>1. Room(o) \in Nat /\ Upto(o, epoch) <= Room(o)
        BY <1>1, RoomIsNat, Zenon DEF StorageInv, RoomInv
      <4>2. CASE o # p
        BY <1>1, <2>3, <4>1, <4>2, Zenon DEF Upto, Epochs, TypeInv
      <4>3. CASE o = p
        BY SMTT(30), <1>1, <2>3, <3>3, <4>1, <4>3 DEF Upto, Epochs, TypeInv
      <4> QED
        BY <4>2, <4>3, Zenon
    <3> QED
      BY <3>1, <3>2, <3>4, HearStorage, Zenon DEF StorageInv
  <2> QED
    BY <2>1, <2>2, <2>3, Zenon
<1> QED
  BY <1>5, <1>6, <1>7, <1>8, Zenon DEF Serving

LEMMA NextStorage ==
    ASSUME Outcomes, StorageInv, TV2 => ~Abandon, AbortOnError, None \notin Calls, Next PROVE StorageInv'
<1>1. Epochs
  BY Zenon DEF Outcomes
<1>2. CASE Application \/ Client
  BY <1>2, BeginStorage, WorkingStorage, UnresolvedStorage, InitDoneStorage, CallOversStorage, RetryStorage,
     Zenon DEF Application, Client, Working
<1>3. ASSUME NEW q \in OnTheWire, Handle(q) PROVE StorageInv'
  <2>1. /\ UNCHANGED <<clientVars, historyVars>>
        /\ \E a \in Answers : Hears(q, a) /\ Serving(q, a)
    BY <1>1, <1>3, HandleServes, Zenon
  <2> QED
    BY <2>1, ServingStorage, Zenon
<1>4. CASE \/ \E q \in OnTheWire : RefuseBusy(q) \/ LoseRequest(q)
           \/ LoseReply \/ CoordinatorMoves \/ Fence
  BY <1>1, <1>4, FaultEffects, FaultStorage, Zenon DEF Epochs
<1>5. CASE Crash
  BY <1>5, CrashStorage, Zenon
<1> QED
  BY <1>2, <1>3, <1>4, <1>5, Zenon DEF Next, Brokering

LEMMA InitStorage ==
    ASSUME Init PROVE StorageInv
<1>1. call = None /\ late = {} /\ acked = {} /\ open = FALSE
  BY Zenon DEF Init
<1>2. \A p \in Partitions : pState[p].next = 0
  BY Zenon DEF Init
<1>3. Sent = {} /\ Idle
  BY <1>1, Zenon DEF Sent, Idle
<1>4. SequenceInv
  BY SMTT(30), <1>2, <1>3 DEF SequenceInv
<1>5. AckInv /\ RoomInv /\ ProduceInv
  BY <1>1, <1>3, Zenon DEF AckInv, RoomInv, ProduceInv
<1> QED
  BY <1>4, <1>5, Zenon DEF StorageInv

LEMMA StutterStorage ==
    ASSUME StorageInv, UNCHANGED vars PROVE StorageInv'
<1>1. UNCHANGED <<pState, undecided, committed, aborted, epochOf, acked, call, late, open, epoch, seqs, broken, txn>>
  BY Zenon DEF vars, clientVars, handleVars, brokerVars, outcomeVars, historyVars
<1>2. /\ Began' = Began /\ Stored' = Stored /\ Sent' = Sent /\ Idle' = Idle /\ IsEnd' = IsEnd /\ IsData' = IsData
      /\ Got("ok")' = Got("ok") /\ \A p : Room(p)' = Room(p) /\ \A e : Upto(p, e)' = Upto(p, e)
  BY <1>1, Zenon DEF Began, Stored, Sent, Idle, IsEnd, IsData, Got, Room, InFlight, Upto
<1> QED
  BY <1>1, <1>2, Zenon DEF StorageInv, SequenceInv, AckInv, RoomInv, ProduceInv

(* When Commit has returned nil, everything that ProduceWithinTxn and      *)
(* SendOffsetsToTxn acknowledged in the transaction is committed, if the   *)
(* application only aborts once a call has failed                          *)
(* (ProduceWithinTxnResult, endTxn).                                       *)
THEOREM CommitsAreComplete ==
    ASSUME TV2 => ~Abandon, Careful, AbortOnError, None \notin Calls
    PROVE  Spec => []CommittedIsComplete
<1> DEFINE Inv == Outcomes /\ StorageInv
<1>1. Init => Inv
  BY InitOutcomes, InitStorage, Zenon
<1>2. Inv /\ [Next]_vars => Inv'
  BY NextOutcomes, StutterOutcomes, NextStorage, StutterStorage, Zenon
<1>3. Inv => CommittedIsComplete
  <2> SUFFICES ASSUME Inv, NEW x \in acked, ended[x[1]] = "committed"
               PROVE  x \in committed
    BY Zenon DEF CommittedIsComplete
  <2>1. x \in Stored /\ DecisionInv /\ Epochs
    BY Zenon DEF Outcomes, StorageInv, AckInv
  <2>2. x[1] \in Txns
    BY <2>1, Zenon DEF Stored, DecisionInv, Over, Began
  <2>3. Over(x[1]) /\ NoneOf(aborted, x[1])
    BY <2>1, <2>2, Zenon DEF DecisionInv
  <2>4. x \notin aborted
    BY <2>3, Zenon DEF NoneOf
  <2>5. x \notin undecided
    <3>1. x \in undecided => epochOf[x[1]] = cEpoch /\ cState = "Ongoing"
      BY <2>1, Zenon DEF DecisionInv
    <3>2. cEpoch \in Nat
      BY <2>1, Zenon DEF Epochs, TypeInv
    <3> QED
      BY <2>3, <3>1, <3>2 DEF Over, Done
  <2> QED
    BY <2>1, <2>4, <2>5, Zenon DEF Stored
<1> QED
  BY <1>1, <1>2, <1>3, PTL DEF Spec

-----------------------------------------------------------------------------
(* Before TV2 a partition is registered before it is produced to.          *)

Ending == ~Idle /\ IsEnd

\* What the call in progress is registering.
Adding == IF ~Idle /\ call.kind = "add" THEN UNION {q.places : q \in DOMAIN call.got} ELSE {}

\* The handle may still produce, under the coordinator's epoch.
Live ==
    /\ open /\ epoch = cEpoch
    /\ AbortOnError => ~broken /\ ~endFailed /\ ~Ending
    /\ Ending => Got("ok") = {}

RegisterInv ==
    /\ Live => registered \ Adding \subseteq cParts
    /\ ~Idle /\ call.kind = "init" => registered = {}
    /\ ~Idle /\ call.kind = "add" =>
          call.ps \subseteq registered /\ (Live => \A q \in Got("ok") : q.places \subseteq cParts)
    /\ ~Idle /\ call.kind = "produce" => \A q \in DOMAIN call.got : q.places \subseteq registered
    /\ ~Idle /\ call.kind \in {"add", "commit", "abort"} => \A q, r \in DOMAIN call.got : q = r
    /\ ~Idle /\ AbortOnError => IsEnd \/ (~broken /\ ~endFailed)
    /\ open => \A q \in late : q.kind = "end" /\ q.txn = txn => AbortOnError /\ (endFailed \/ Ending)

\* The application only aborts once a call has failed; or, when it goes on, every
\* leader is known, no answer is lost and no request arrives late.
Orderly == AbortOnError \/ Faults \cap {"noLeader", "lostReply", "lateRequest"} = {}

-----------------------------------------------------------------------------
(* Calls that begin, go on or are over.                                    *)



LEMMA ProducePlaces ==
    ASSUME NEW n, NEW ps, NEW q \in ProduceRequests(n, 1, ps) PROVE q.places \subseteq ps
<1>1. PICK p \in ps : q = Message(txn, n, 1, "produce", epoch, {p}, seqs[p], FALSE, None)
  BY Zenon DEF ProduceRequests
<1>2. q.places = {p}
  BY <1>1, Zenon DEF Message
<1> QED
  BY <1>2, Zenon

LEMMA IssueRegisters ==
    ASSUME RegisterInv, None \notin Calls, Issues, call'.kind # "init",
           UNCHANGED <<txn, open, endFailed, broken, late>>,
           Live' => registered' \ Adding' \subseteq cParts',
           call'.kind = "add" => call'.ps \subseteq registered',
           call'.kind = "produce" => \A q \in DOMAIN call'.got : q.places \subseteq registered',
           call'.kind \in {"add", "commit", "abort"} => \A q, r \in DOMAIN call'.got : q = r,
           AbortOnError => IsEnd' \/ (~broken /\ ~endFailed),
           Ending => Ending'
    PROVE  RegisterInv'
<1>1. call' # None /\ Got("ok")' = {}
  BY PendingAnswer, Zenon DEF Issues, Got
<1>2. open => \A q \in late : q.kind = "end" /\ q.txn = txn => AbortOnError /\ (endFailed \/ Ending)
  BY Zenon DEF RegisterInv
<1>3. open' => \A q \in late' : q.kind = "end" /\ q.txn = txn' => AbortOnError /\ (endFailed' \/ Ending')
  BY <1>2, Zenon
<1> QED
  BY <1>1, <1>3, Zenon DEF RegisterInv

LEMMA OverRegisters ==
    ASSUME call' = None, Live' => registered' \subseteq cParts',
           open' => \A q \in late' : q.kind = "end" /\ q.txn = txn' => AbortOnError /\ endFailed'
    PROVE  RegisterInv'
<1>1. Idle'
  BY Zenon DEF Idle
<1> QED
  BY <1>1, Zenon DEF RegisterInv

\* Before a call on the handle, and while it registers, the handle is live if it is after.
LEMMA LiveBefore ==
    ASSUME Live', ~Ending, UNCHANGED <<open, epoch, cEpoch, broken, endFailed>> PROVE Live
BY Zenon DEF Live

LEMMA BeginRegisters ==
    ASSUME Epochs, ~TV2, None \notin Calls, Begin PROVE RegisterInv'
<1>1. ~ReuseCached /\ registered' = {} /\ broken' = FALSE /\ endFailed' = FALSE
  BY Zenon DEF Begin, ReuseCached
<1>2. open' = FALSE /\ Issues /\ call'.kind = "init"
  BY <1>1, BeginAsks, Zenon
<1> QED
  BY <1>1, <1>2, Zenon DEF RegisterInv, Live

LEMMA WorkingRegisters ==
    ASSUME Epochs, RegisterInv, ~TV2, None \notin Calls, Working PROVE RegisterInv'
<1>1. /\ Works /\ open /\ Issues /\ call'.kind # "init"
      /\ UNCHANGED <<txn, open, epoch, broken, endFailed, late, cEpoch, cParts>>
      /\ \/ Idle /\ (AbortOnError /\ (broken \/ endFailed) => call'.kind \in {"commit", "abort"})
         \/ ~Idle /\ call.kind = "add" /\ call'.kind \in {"produce", "offsets"}
  BY WorkingWorks, Zenon DEF WorkingRest, Works, brokerVars
<1>2. ~Ending /\ (Live' => Live)
  <2>1. ~Ending
    BY <1>1, Zenon DEF Ending, IsEnd
  <2> QED
    BY <1>1, <2>1, LiveBefore, Zenon
<1>3. AbortOnError => IsEnd' \/ (~broken /\ ~endFailed)
  BY <1>1, Zenon DEF RegisterInv, IsEnd
<1>4. call' # None
  BY <1>1, Zenon DEF Issues
<1>5. ASSUME Live' => registered' \ Adding' \subseteq cParts',
             call'.kind = "add" => call'.ps \subseteq registered',
             call'.kind = "produce" => \A q \in DOMAIN call'.got : q.places \subseteq registered',
             call'.kind \in {"add", "commit", "abort"} => \A q, r \in DOMAIN call'.got : q = r
      PROVE  RegisterInv'
  BY <1>1, <1>2, <1>3, <1>5, IssueRegisters, Zenon
<1>6. CASE SendOffsetsToTxn
  <2>1. PICK kind, n : /\ kind \in {"offsets", "add"} /\ n = count + 1
                       /\ call' = Call(kind, n, 1, {},
                                       CoordinatorRequest(n, 1, kind, {Offsets}, FALSE, coordinator))
    BY <1>6, Zenon DEF SendOffsetsToTxn
  <2>2. PICK m : CoordinatorRequest(n, 1, kind, {Offsets}, FALSE, coordinator) = {m}
    BY Zenon DEF CoordinatorRequest
  <2>3. call'.kind = kind /\ call'.ps = {} /\ DOMAIN call'.got = {m}
    BY <2>1, <2>2, Zenon DEF Call
  <2>4. Idle /\ registered' = registered
    BY <1>6, Zenon DEF SendOffsetsToTxn, MayWork, Usable
  <2>5. Live => registered \subseteq cParts
    BY <2>4, Zenon DEF RegisterInv, Adding
  <2> QED
    BY <1>1, <1>2, <1>5, <2>1, <2>3, <2>4, <2>5, Zenon
<1>7. ASSUME NEW ps \in (SUBSET Partitions) \ {{}}, ProduceWithinTxn(ps)
      PROVE  RegisterInv'
  <2>1. PICK new, n : /\ new = ps \ registered
                      /\ call' = IF new = {}
                                 THEN Call("produce", n, 1, ps, ProduceRequests(n, 1, ps))
                                 ELSE Call("add", n, 1, ps,
                                           CoordinatorRequest(n, 1, "add", new, FALSE, coordinator))
                      /\ registered' = registered \cup new
    BY <1>7, Zenon DEF ProduceWithinTxn, ToRegister
  <2>2. Idle
    BY <1>7, Zenon DEF ProduceWithinTxn, MayWork, Usable
  <2>3. (Live => registered \subseteq cParts) /\ ps \subseteq registered'
    BY <2>1, <2>2, Zenon DEF RegisterInv, Adding
  <2>4. CASE new = {}
    <3>1. PICK R : R = ProduceRequests(n, 1, ps) /\ call' = Call("produce", n, 1, ps, R)
      BY <2>1, <2>4, Zenon
    <3>2. call'.kind = "produce" /\ DOMAIN call'.got = R
      BY <3>1, Zenon DEF Call
    <3>3. \A q \in R : q.places \subseteq ps
      BY <3>1, ProducePlaces, Zenon
    <3>4. registered' = registered
      BY <2>1, <2>4, Zenon
    <3> QED
      BY <1>1, <1>2, <1>5, <2>3, <3>2, <3>3, <3>4, Zenon
  <2>5. CASE new # {}
    <3>1. PICK m : CoordinatorRequest(n, 1, "add", new, FALSE, coordinator) = {m} /\ m.places = new
      <4>1. PICK m : m = Message(txn, n, 1, "add", epoch, new, 0, FALSE, coordinator)
        BY Zenon
      <4>2. m.places = new
        BY <4>1, Zenon DEF Message
      <4> QED
        BY <4>1, <4>2, Zenon DEF CoordinatorRequest
    <3>2. call'.kind = "add" /\ call'.ps = ps /\ DOMAIN call'.got = {m}
      BY <2>1, <2>5, <3>1, Zenon DEF Call
    <3>3. Adding' = new
      BY <1>4, <3>1, <3>2, Zenon DEF Adding, Idle
    <3>4. Live' => registered' \ Adding' \subseteq cParts'
      BY <1>1, <1>2, <2>1, <2>3, <3>3, Zenon
    <3> QED
      BY <1>5, <2>3, <3>2, <3>4, Zenon
  <2> QED
    BY <2>4, <2>5, Zenon
<1>8. ASSUME NEW commit \in BOOLEAN, EndTxn(commit) PROVE RegisterInv'
  <2>1. PICK kind, n, R : /\ kind \in {"commit", "abort"}
                          /\ R = CoordinatorRequest(n, 1, "end", {}, CommitFlag(commit), coordinator)
                          /\ call' = Call(kind, n, 1, {}, R)
    BY <1>8 DEF EndTxn
  <2>2. PICK m : R = {m}
    BY <2>1, Zenon DEF CoordinatorRequest
  <2>3. call'.kind = kind /\ DOMAIN call'.got = {m}
    BY <2>1, <2>2, Zenon DEF Call
  <2>4. Idle /\ registered' = registered
    BY <1>8, Zenon DEF EndTxn, Usable
  <2>5. Live => registered \subseteq cParts
    BY <2>4, Zenon DEF RegisterInv, Adding
  <2> QED
    BY <1>1, <1>2, <1>5, <2>1, <2>3, <2>4, <2>5, Zenon
<1>9. CASE AddDone
  <2>1. /\ call # None /\ call.kind = "add" /\ Got("ok") = DOMAIN call.got /\ registered' = registered \cup TheRequest.places
        /\ DOMAIN call.got # {}
    BY <1>9, Zenon DEF AddDone, AllOk, Answered, Idle, Epochs, CallInv
  <2>2. TheRequest \in DOMAIN call.got
    BY <2>1, Zenon DEF TheRequest
  <2>3. /\ call.ps \subseteq registered /\ (\A q, r \in DOMAIN call.got : q = r)
        /\ Live => (\A q \in Got("ok") : q.places \subseteq cParts) /\ registered \ Adding \subseteq cParts
    BY <2>1, Zenon DEF RegisterInv, Idle
  <2>4. Live => registered' \subseteq cParts
    BY <2>1, <2>2, <2>3, Zenon DEF Adding, Idle
  <2>5. PICK n, ps : /\ ps = call.ps
                     /\ call' = IF ps = {}
                                THEN Call("offsets", n, 1, {},
                                          CoordinatorRequest(n, 1, "offsets", {Offsets}, FALSE, coordinator))
                                ELSE Call("produce", n, 1, ps, ProduceRequests(n, 1, ps))
    BY <1>9, Zenon DEF AddDone
  <2>6. call'.kind = "produce" => \A q \in DOMAIN call'.got : q.places \subseteq registered'
    <3>1. CASE ps = {}
      BY <2>5, <3>1, Zenon DEF Call
    <3>2. CASE ps # {}
      <4>1. PICK R : R = ProduceRequests(n, 1, ps) /\ call' = Call("produce", n, 1, ps, R)
        BY <2>5, <3>2, Zenon
      <4>2. DOMAIN call'.got = R /\ \A q \in R : q.places \subseteq ps
        BY <4>1, ProducePlaces, Zenon DEF Call
      <4> QED
        BY <2>1, <2>3, <2>5, <4>2, Zenon
    <3> QED
      BY <3>1, <3>2, Zenon
  <2>7. call'.kind \notin {"add", "commit", "abort"}
    BY <1>1, <2>1, Zenon DEF Idle
  <2> QED
    BY <1>1, <1>2, <1>5, <2>4, <2>6, <2>7, Zenon
<1> QED
  BY <1>6, <1>7, <1>8, <1>9, Zenon DEF Working

LEMMA RetryRegisters ==
    ASSUME Epochs, RegisterInv, None \notin Calls, Retry PROVE RegisterInv'
<1>1. /\ call # None /\ call \in Calls /\ Issues /\ call'.kind = call.kind /\ Failed \subseteq DOMAIN call.got
      /\ \A q \in DOMAIN call'.got : \E f \in Failed : q = Again(f) /\ Same(q, f)
      /\ \A f \in Failed : Again(f) \in DOMAIN call'.got /\ Same(Again(f), f)
  BY RetrySends, Zenon DEF Failed
<1>2. /\ UNCHANGED <<txn, open, epoch, registered, endFailed, broken, late, cEpoch, cParts>> /\ Failed # {}
  BY Zenon DEF Retry, brokerVars
<1>3. call' # None /\ call'.ps = call.ps
  BY <1>1, Zenon DEF Retry, Issues, Calls
<1>4. call.kind = "init" => RegisterInv'
  <2> SUFFICES ASSUME call.kind = "init" PROVE RegisterInv'
    BY Zenon
  <2>1. open = FALSE
    BY <1>1, Zenon DEF Epochs, CallInv, Idle
  <2>2. registered = {} /\ (AbortOnError => IsEnd \/ (~broken /\ ~endFailed))
    BY <1>1, Zenon DEF RegisterInv, Idle
  <2>3. IsEnd' = IsEnd /\ ~Live'
    BY <1>1, <1>2, <2>1, Zenon DEF IsEnd, Live
  <2> QED
    BY <1>1, <1>2, <2>1, <2>2, <2>3, Zenon DEF RegisterInv
<1>5. Ending' = Ending
  BY <1>1, <1>3, Zenon DEF Ending, IsEnd, Idle
<1>6. call.kind \in {"add", "commit", "abort"} => \A q, r \in DOMAIN call.got : q = r
  BY <1>1, Zenon DEF RegisterInv, Idle
<1>7. call'.kind \in {"add", "commit", "abort"} => \A q, r \in DOMAIN call'.got : q = r
  BY <1>1, <1>6, Zenon
<1>8. Live' => Live
  <2>1. Ending => Got("ok") = {}
    BY <1>1, <1>2, <1>6, Zenon DEF Ending, IsEnd, Got, Failed
  <2> QED
    BY <1>2, <1>5, <2>1, Zenon DEF Live
<1>9. Adding' = Adding
  <2>1. CASE call.kind # "add"
    BY <1>1, <2>1, Zenon DEF Adding
  <2>2. CASE call.kind = "add"
    <3>1. PICK f \in Failed : TRUE
      BY <1>2, Zenon
    <3>2. DOMAIN call.got = {f} /\ DOMAIN call'.got = {Again(f)} /\ Again(f).places = f.places
      BY <1>1, <1>6, <1>7, <2>2, <3>1, Zenon DEF Same
    <3> QED
      BY <1>1, <1>3, <2>2, <3>2, Zenon DEF Adding, Idle
  <2> QED
    BY <2>1, <2>2, Zenon
<1>10. Live' => registered' \ Adding' \subseteq cParts'
  BY <1>2, <1>8, <1>9, Zenon DEF RegisterInv
<1>11. call'.kind = "add" => call'.ps \subseteq registered'
  BY <1>1, <1>2, <1>3, Zenon DEF RegisterInv, Idle
<1>12. call'.kind = "produce" => \A q \in DOMAIN call'.got : q.places \subseteq registered'
  <2>1. call.kind = "produce" => \A f \in Failed : f.places \subseteq registered
    BY <1>1, Zenon DEF RegisterInv, Idle
  <2> QED
    BY <1>1, <1>2, <2>1, Zenon DEF Same
<1>13. AbortOnError => IsEnd' \/ (~broken /\ ~endFailed)
  BY <1>1, Zenon DEF RegisterInv, Idle, IsEnd
<1> QED
  BY <1>1, <1>2, <1>4, <1>5, <1>7, <1>10, <1>11, <1>12, <1>13, IssueRegisters, Zenon

LEMMA InitDoneRegisters ==
    ASSUME Epochs, RegisterInv, InitDone PROVE RegisterInv'
<1>1. call # None /\ call.kind = "init" /\ call' = None /\ UNCHANGED <<registered, late, txn>> /\ txn \notin Began
  BY InitDoneEpochs, Zenon DEF InitDone
<1>2. registered = {}
  BY <1>1, Zenon DEF RegisterInv, Idle
<1>3. \A q \in late : q.kind = "end" => q.txn # txn
  BY <1>1, Zenon DEF Epochs, LateInv
<1> QED
  BY <1>1, <1>2, <1>3, OverRegisters, Zenon

LEMMA UnresolvedRegisters ==
    ASSUME Epochs, RegisterInv, Orderly, NEW before, ProduceUnresolved(before) PROVE RegisterInv'
<1>1. Idle /\ broken' = TRUE /\ UNCHANGED <<txn, open, endFailed, call, late>>
  BY UnresolvedEpochs, Zenon
<1>2. AbortOnError
  BY Zenon DEF ProduceUnresolved, Disturb, Orderly
<1>3. open => \A q \in late : q.kind = "end" /\ q.txn = txn => AbortOnError /\ endFailed
  BY <1>1, Zenon DEF RegisterInv, Ending
<1>4. ~Live' /\ call' = None
  BY <1>1, <1>2, Zenon DEF Live, Idle
<1> QED
  BY <1>1, <1>3, <1>4, OverRegisters, Zenon

LEMMA CallOverRegisters ==
    ASSUME Epochs, RegisterInv, DataDone \/ EndDone \/ CallFails \/ Crash PROVE RegisterInv'
<1>1. call' = None
  BY Zenon DEF DataDone, EndDone, CallFails, Crash
<1>2. CASE EndDone \/ Crash
  <2>1. open' = FALSE
    BY <1>2, Zenon DEF EndDone, Crash
  <2> QED
    BY <1>1, <2>1, OverRegisters, Zenon DEF Live
<1>3. CASE DataDone
  <2>1. /\ call # None /\ IsData /\ UNCHANGED <<txn, open, epoch, registered, broken, endFailed, late, cEpoch, cParts>>
    BY <1>3, Zenon DEF DataDone, AllOk, Answered, Idle, brokerVars
  <2>2. ~Ending /\ Adding = {}
    BY <2>1, Zenon DEF Ending, IsEnd, IsData, Adding
  <2>3. Live' => Live
    BY <2>1, <2>2, LiveBefore, Zenon
  <2>4. Live' => registered' \subseteq cParts'
    BY <2>1, <2>2, <2>3, Zenon DEF RegisterInv
  <2>5. open => \A q \in late : q.kind = "end" /\ q.txn = txn => AbortOnError /\ endFailed
    BY <2>2, Zenon DEF RegisterInv
  <2> QED
    BY <1>1, <2>1, <2>4, <2>5, OverRegisters, Zenon
<1>4. CASE CallFails
  <2>1. /\ call # None /\ Failed # {} /\ UNCHANGED <<txn, open, epoch, late, cEpoch, cParts>>
        /\ registered' = RegisteredAfterFail
    BY <1>4, Zenon DEF CallFails, Answered, Idle, brokerVars
  <2>2. /\ endFailed' = (endFailed \/ IsEnd) /\ broken' = (broken \/ ~(IsEnd \/ call.kind = "init"))
    BY <1>4, Zenon DEF CallFails
  <2>3. /\ open = (call.kind # "init") /\ DOMAIN call.got # {}
        /\ call.kind \in {"add", "commit", "abort"} => \A q, r \in DOMAIN call.got : q = r
    BY <2>1, Zenon DEF Epochs, CallInv, RegisterInv, Idle
  <2>4. Live' => ~AbortOnError
    BY <2>1, <2>2, <2>3, Zenon DEF Live
  <2>5. Ending => Got("ok") = {}
    BY <2>1, <2>3, Zenon DEF Ending, IsEnd, Got, Failed
  <2>6. Live' => Live
    BY <2>1, <2>4, <2>5, Zenon DEF Live
  <2>7. registered' = registered \ Adding
    <3>1. CASE call.kind # "add"
      BY <2>1, <3>1, Zenon DEF RegisteredAfterFail, Adding
    <3>2. CASE call.kind = "add"
      <4>1. TheRequest \in DOMAIN call.got
        BY <2>3, Zenon DEF TheRequest
      <4>2. Adding = TheRequest.places
        BY <2>1, <2>3, <3>2, <4>1, Zenon DEF Adding, Idle
      <4> QED
        BY <2>1, <3>2, <4>2, Zenon DEF RegisteredAfterFail
    <3> QED
      BY <3>1, <3>2, Zenon
  <2>8. Live' => registered' \subseteq cParts'
    BY <2>1, <2>6, <2>7, Zenon DEF RegisterInv
  <2>9. open => \A q \in late : q.kind = "end" /\ q.txn = txn => AbortOnError /\ endFailed'
    BY <2>2, Zenon DEF RegisterInv, Ending
  <2> QED
    BY <1>1, <2>1, <2>8, <2>9, OverRegisters, Zenon
<1> QED
  BY <1>2, <1>3, <1>4, Zenon

-----------------------------------------------------------------------------
(* Answers and their loss.                                                 *)

LEMMA OneAnswer ==
    ASSUME NEW c \in Calls, NEW q, NEW x
    PROVE  LET d == [c EXCEPT !.got[q] = x]
           IN  /\ d.ps = c.ps
               /\ \A r \in DOMAIN c.got : r \in DOMAIN d.got /\ d.got[r] = IF r = q THEN x ELSE c.got[r]
<1>1. c.got \in Answerings
  BY Zenon DEF Calls
<1>2. PICK S \in SUBSET Messages : c.got \in [S -> Answers]
  BY <1>1, Zenon DEF Answerings
<1>3. PICK g : g = [c.got EXCEPT ![q] = x]
  BY Zenon
<1>4. \A r \in DOMAIN c.got : r \in DOMAIN g /\ g[r] = IF r = q THEN x ELSE c.got[r]
  BY <1>2, <1>3, Zenon
<1>5. PICK d : d = [c EXCEPT !.got = g]
  BY Zenon
<1>6. d.ps = c.ps /\ d.got = g
  BY <1>5, Zenon DEF Calls
<1>7. d = [c EXCEPT !.got[q] = x]
  BY <1>3, <1>5, Zenon DEF Calls
<1> QED
  BY <1>4, <1>6, <1>7, Zenon

\* An answer stays what it was, unless it is lost.
KeepsAnswers ==
    call # None =>
        call'.ps = call.ps /\ ("lostReply" \in Faults \/ Got("ok") \subseteq Got("ok")')

LEMMA AnswerKeeps ==
    ASSUME TypeInv, NEW q, NEW code, NEW e, Answer(q, code, e)
    PROVE  /\ KeepsAnswers
           /\ call # None /\ q \in Got("pending") /\ code = "ok" => q \in Got("ok")'
<1>1. CASE ~(call # None /\ q \in Got("pending"))
  <2>1. call' = call
    BY <1>1, Zenon DEF Answer, Idle
  <2> QED
    BY <1>1, <2>1, Zenon DEF KeepsAnswers, Got
<1>2. CASE call # None /\ q \in Got("pending")
  <2>1. PICK x : x = [code |-> code, epoch |-> e] /\ call' = [call EXCEPT !.got[q] = x]
    BY <1>2, Zenon DEF Answer, Idle
  <2>2. x.code = code /\ call \in Calls
    BY <1>2, <2>1, Zenon DEF TypeInv
  <2>3. /\ call'.ps = call.ps
        /\ \A r \in DOMAIN call.got : r \in DOMAIN call'.got /\ call'.got[r] = IF r = q THEN x ELSE call.got[r]
    BY <2>1, <2>2, OneAnswer
  <2> QED
    BY <1>2, <2>2, <2>3, Zenon DEF KeepsAnswers, Got
<1> QED
  BY <1>1, <1>2, Zenon

LEMMA HandleKeeps ==
    ASSUME TypeInv, NEW q, Handle(q)
    PROVE  /\ KeepsAnswers
           /\ call # None /\ q \in Got("pending") /\ q.kind = "end" =>
                 UNCHANGED <<cEpoch, cParts>> \/ q \in Got("ok")'
<1>1. KeepsAnswers
  BY AnswerKeeps, Zenon DEF Handle, HandleInit, HandleAdd, HandleEnd, HandleProduce, HandleOffsets
<1>2. q.kind = "end" => UNCHANGED <<cEpoch, cParts>> \/ \E e : Answer(q, "ok", e)
  BY Zenon DEF Handle, HandleInit, HandleAdd, HandleEnd, HandleProduce, HandleOffsets, brokerVars
<1> QED
  BY <1>1, <1>2, AnswerKeeps, Zenon

LEMMA FaultKeeps ==
    ASSUME TypeInv,
           (\E q \in OnTheWire : RefuseBusy(q) \/ LoseRequest(q)) \/ LoseReply \/ CoordinatorMoves \/ Fence
    PROVE  KeepsAnswers
<1>1. ASSUME NEW q, RefuseBusy(q) PROVE KeepsAnswers
  BY <1>1, AnswerKeeps, Zenon DEF RefuseBusy
<1>2. ASSUME NEW q, LoseRequest(q) PROVE KeepsAnswers
  <2>1. PICK x : x = [code |-> "lost", epoch |-> None] /\ call' = [call EXCEPT !.got[q] = x]
    BY <1>2, Zenon DEF LoseRequest
  <2>2. call # None /\ call \in Calls /\ q \in Got("pending")
    BY <1>2, Zenon DEF LoseRequest, Idle, TypeInv
  <2>3. /\ call'.ps = call.ps
        /\ \A r \in DOMAIN call.got : r \in DOMAIN call'.got /\ call'.got[r] = IF r = q THEN x ELSE call.got[r]
    BY <2>1, <2>2, OneAnswer
  <2> QED
    BY <2>2, <2>3, Zenon DEF KeepsAnswers, Got
<1>3. CASE LoseReply
  <2>1. PICK q, x : call' = [call EXCEPT !.got[q] = x]
    BY <1>3, Zenon DEF LoseReply
  <2>2. call # None /\ call \in Calls /\ "lostReply" \in Faults
    BY <1>3, Zenon DEF LoseReply, Idle, TypeInv, Disturb
  <2> QED
    BY <2>1, <2>2, OneAnswer DEF KeepsAnswers
<1>4. CASE CoordinatorMoves \/ Fence
  <2>1. call' = call
    BY <1>4, Zenon DEF CoordinatorMoves, Fence
  <2> QED
    BY <2>1, Zenon DEF KeepsAnswers, Got
<1> QED
  BY <1>1, <1>2, <1>3, <1>4, Zenon

LEMMA EndsAreEnding ==
    ASSUME Epochs, call # None, NEW q \in DOMAIN call.got, q.kind = "end" PROVE Ending
<1>1. Own(q) /\ call \in Calls
  BY Zenon DEF Epochs, CallInv, TypeInv, Idle
<1>2. call.kind \in CallKinds
  BY <1>1, CallFields, Zenon
<1> QED
  BY <1>1, <1>2, Zenon DEF Own, Sends, CallKinds, Ending, IsEnd, Idle

\* Answers leave the handle live only if it was.
LEMMA LiveStays ==
    ASSUME None \notin Calls, Orderly, NEW q, NEW a, Hears(q, a), KeepsAnswers,
           UNCHANGED <<clientVars, cEpoch>>
    PROVE  Ending' = Ending /\ Adding' = Adding /\ (Live' => Live)
<1>1. UNCHANGED <<open, epoch, broken, endFailed>>
  BY Zenon DEF clientVars, handleVars
<1>2. Ending' = Ending /\ Adding' = Adding
  BY HearsSent, Zenon DEF Ending, IsEnd, Adding, Idle
<1>3. ~AbortOnError /\ Ending => Got("ok") \subseteq Got("ok")'
  BY Zenon DEF Orderly, KeepsAnswers, Ending, Idle
<1> QED
  BY <1>1, <1>2, <1>3, Zenon DEF Live

LEMMA HearRegisters ==
    ASSUME Epochs, RegisterInv, None \notin Calls, Orderly, NEW q, NEW a, Hears(q, a), KeepsAnswers,
           UNCHANGED clientVars, Live' => Live /\ cParts \subseteq cParts',
           a.code = "ok" /\ q.kind = "add" => q.places \subseteq cParts'
    PROVE  RegisterInv'
<1>1. UNCHANGED <<txn, open, epoch, registered, broken, endFailed>>
  BY Zenon DEF clientVars, handleVars
<1>2. Ending' = Ending /\ Adding' = Adding /\ Idle' = Idle /\ (call # None => IsEnd' = IsEnd)
  BY HearsSent, Zenon DEF Ending, IsEnd, Adding, Idle
<1>3. Live' => registered' \ Adding' \subseteq cParts'
  BY <1>1, <1>2, Zenon DEF RegisterInv
<1>4. ASSUME ~Idle', call'.kind = "add"
      PROVE  call'.ps \subseteq registered' /\ (Live' => \A r \in Got("ok")' : r.places \subseteq cParts')
  <2>1. call # None /\ call.kind = "add"
    BY <1>4, HearsSent, Zenon DEF Idle
  <2>2. call.ps \subseteq registered /\ (Live => \A r \in Got("ok") : r.places \subseteq cParts)
    BY <2>1, Zenon DEF RegisterInv, Idle
  <2>3. ASSUME Live', NEW r \in Got("ok")' PROVE r.places \subseteq cParts'
    <3>1. r \in DOMAIN call.got /\ call'.got[r].code = "ok" /\ (call'.got[r] = call.got[r] \/ (r = q /\ call'.got[r] = a))
      BY <2>1, <2>3, HearsSent, Zenon DEF Got
    <3>2. r.kind = "add"
      BY <2>1, <3>1, Zenon DEF Epochs, CallInv, Own, Sends, Idle
    <3> QED
      BY <2>2, <2>3, <3>1, <3>2, Zenon DEF Got
  <2> QED
    BY <1>1, <2>1, <2>2, <2>3, Zenon DEF KeepsAnswers
<1>5. /\ ~Idle' /\ call'.kind = "init" => registered' = {}
      /\ ~Idle' /\ call'.kind = "produce" => \A r \in DOMAIN call'.got : r.places \subseteq registered'
      /\ ~Idle' /\ call'.kind \in {"add", "commit", "abort"} => \A r, s \in DOMAIN call'.got : r = s
  BY <1>1, HearsSent, Zenon DEF RegisterInv, Idle
<1>6. ~Idle' /\ AbortOnError => IsEnd' \/ (~broken' /\ ~endFailed')
  BY <1>1, <1>2, Zenon DEF RegisterInv, Idle
<1>7. ASSUME open, NEW r \in late', r.kind = "end", r.txn = txn
      PROVE  AbortOnError /\ (endFailed \/ Ending)
  <2>1. CASE r \in late
    BY <1>7, <2>1, Zenon DEF RegisterInv
  <2>2. CASE r \notin late
    <3>1. AbortOnError /\ call # None /\ r \in DOMAIN call.got
      BY <1>7, <2>2, Zenon DEF Hears, Sent, Idle, Orderly
    <3> QED
      BY <1>7, <3>1, EndsAreEnding, Zenon
  <2> QED
    BY <2>1, <2>2, Zenon
<1> QED
  BY <1>1, <1>2, <1>3, <1>4, <1>5, <1>6, <1>7, Zenon DEF RegisterInv

\* A handle whose epoch is behind the coordinator's is not live.
LEMMA FencedIsNotLive ==
    ASSUME Epochs, UNCHANGED <<open, epoch>>, cEpoch' = cEpoch + 1 PROVE ~Live'
<1> SUFFICES ASSUME open, epoch = cEpoch + 1 PROVE FALSE
  BY Zenon DEF Live
<1>1. epoch <= cEpoch /\ cEpoch \in Nat
  BY Zenon DEF Epochs, EpochInv, TypeInv
<1> QED
  BY <1>1

LEMMA FaultRegisters ==
    ASSUME Epochs, RegisterInv, None \notin Calls, Orderly, KeepsAnswers, NEW q, NEW a, FaultEffect(q, a)
    PROVE  RegisterInv'
<1>1. UNCHANGED <<clientVars, open, epoch>> /\ a.code # "ok" /\ Hears(q, a)
  BY Zenon DEF FaultEffect, clientVars, handleVars
<1>2. Live' => Live /\ cParts \subseteq cParts'
  <2>1. CASE UNCHANGED brokerVars
    <3>1. UNCHANGED <<cEpoch, cParts>>
      BY <2>1, Zenon DEF brokerVars
    <3> QED
      BY <1>1, <3>1, LiveStays, Zenon
  <2>2. CASE AbortAndFence
    BY <1>1, <2>2, FencedIsNotLive, Zenon DEF AbortAndFence
  <2> QED
    BY <2>1, <2>2, Zenon DEF FaultEffect
<1> QED
  BY <1>1, <1>2, HearRegisters, Zenon

LEMMA ServingRegisters ==
    ASSUME Epochs, RegisterInv, ~TV2, None \notin Calls, Orderly, NEW q \in OnTheWire, Handle(q)
    PROVE  RegisterInv'
<1>1. PICK a \in Answers : Hears(q, a) /\ Serving(q, a)
  BY HandleServes, Zenon
<1>2. /\ UNCHANGED <<clientVars, txn, open, epoch, endFailed>> /\ KeepsAnswers
      /\ call # None /\ q \in Got("pending") /\ q.kind = "end" => UNCHANGED <<cEpoch, cParts>> \/ q \in Got("ok")'
  BY HandleServes, HandleKeeps, Zenon DEF clientVars, handleVars, Epochs
<1>3. UNCHANGED cEpoch => Ending' = Ending /\ (Live' => Live)
  BY <1>1, <1>2, LiveStays, Zenon
<1>4. CASE Refuses(a) \/ Adds(q) \/ EndsAgain(q, a) \/ Produces(q, a) \/ TakesOffsets(q)
  <2>1. cEpoch' = cEpoch /\ cParts \subseteq cParts' /\ (a.code = "ok" /\ q.kind = "add" => q.places \subseteq cParts')
    BY <1>4, Zenon DEF Refuses, Adds, EndsAgain, Produces, TakesOffsets, brokerVars
  <2> QED
    BY <1>1, <1>2, <1>3, <2>1, HearRegisters, Zenon
<1>5. CASE Inits(q, a)
  <2>1. ~Live' /\ q.kind # "add"
    BY <1>2, <1>5, FencedIsNotLive, Zenon DEF Inits, AbortAndFence
  <2> QED
    BY <1>1, <1>2, <2>1, HearRegisters, Zenon
<1>6. CASE EndsNow(q, a)
  <2>1. q.kind = "end" /\ q.epoch = cEpoch /\ cEpoch' = cEpoch
    BY <1>6, Zenon DEF EndsNow
  <2>2. CASE q \in late
    <3>1. ASSUME Live' PROVE FALSE
      <4>1. open /\ epoch = cEpoch /\ (AbortOnError => ~endFailed /\ ~Ending)
        BY <1>2, <1>3, <2>1, <3>1, Zenon DEF Live
      <4>2. txn \in Began /\ epochOf[txn] = epoch /\ q.txn \in Began /\ q.epoch = epochOf[q.txn]
        BY <2>1, <2>2, <4>1, Zenon DEF Epochs, EpochInv, LateInv
      <4>3. q.txn = txn
        BY <2>1, <4>1, <4>2, EpochsDiffer, Zenon
      <4> QED
        BY <2>1, <2>2, <4>1, <4>3, Zenon DEF RegisterInv
    <3> QED
      BY <1>1, <1>2, <2>1, <3>1, HearRegisters, Zenon
  <2>3. CASE q \notin late
    <3>1. call # None /\ q \in Got("pending") /\ q \in DOMAIN call.got
      BY <2>3, Zenon DEF OnTheWire, Idle, Got
    <3>2. Ending
      BY <2>1, <3>1, EndsAreEnding, Zenon
    <3>3. CASE q \in Got("ok")'
      <4>1. ~Live'
        BY <1>3, <2>1, <3>2, <3>3, Zenon DEF Live
      <4> QED
        BY <1>1, <1>2, <2>1, <4>1, HearRegisters, Zenon
    <3>4. CASE UNCHANGED <<cEpoch, cParts>>
      BY <1>1, <1>2, <1>3, <2>1, <3>4, HearRegisters, Zenon
    <3> QED
      BY <1>2, <2>1, <3>1, <3>3, <3>4, Zenon
  <2> QED
    BY <2>2, <2>3, Zenon
<1> QED
  BY <1>1, <1>4, <1>5, <1>6, Zenon DEF Serving

LEMMA NextRegisters ==
    ASSUME Epochs, RegisterInv, ~TV2, None \notin Calls, Orderly, [Next]_vars PROVE RegisterInv'
<1>1. CASE Application \/ Client
  BY <1>1, BeginRegisters, WorkingRegisters, UnresolvedRegisters, InitDoneRegisters, CallOverRegisters,
     RetryRegisters, Zenon DEF Application, Client, Working
<1>2. CASE Brokering
  BY <1>2, ServingRegisters, Zenon DEF Brokering
<1>3. CASE \/ \E q \in OnTheWire : RefuseBusy(q) \/ LoseRequest(q)
           \/ LoseReply \/ CoordinatorMoves \/ Fence
  BY <1>3, FaultEffects, FaultKeeps, FaultRegisters, Zenon DEF Epochs
<1>4. CASE Crash
  BY <1>4, CallOverRegisters, Zenon
<1>5. CASE UNCHANGED vars
  <2>1. UNCHANGED <<txn, open, epoch, registered, broken, endFailed, call, late, cEpoch, cParts>>
    BY <1>5, Zenon DEF vars, clientVars, handleVars, brokerVars
  <2>2. /\ Idle' = Idle /\ IsEnd' = IsEnd /\ Ending' = Ending /\ Adding' = Adding
        /\ Got("ok")' = Got("ok") /\ Live' = Live
    BY <2>1, Zenon DEF Idle, IsEnd, Ending, Adding, Got, Live
  <2> QED
    BY <2>1, <2>2, Zenon DEF RegisterInv
<1> QED
  BY <1>1, <1>2, <1>3, <1>4, <1>5, Zenon DEF Next

(* Before TV2 a produce request under the current epoch goes only to       *)
(* partitions the coordinator has in the transaction, if the application   *)
(* only aborts once a call has failed, or if no leader is unknown and      *)
(* neither answers nor given-up requests go astray (ensurePartitions,      *)
(* registered and its removal when AddPartitionsToTxn fails).              *)
THEOREM ProducesToRegistered ==
    ASSUME Orderly, None \notin Calls
    PROVE  Spec => []SentIsRegistered
<1>1. CASE TV2
  <2>1. SentIsRegistered
    BY <1>1, Zenon DEF SentIsRegistered
  <2> QED
    BY <2>1, PTL
<1>2. CASE ~TV2
  <2> DEFINE Inv == Epochs /\ RegisterInv
  <2>1. Init => Inv
    <3> SUFFICES ASSUME Init PROVE Inv
      BY Zenon
    <3>1. Idle /\ ~Live /\ open = FALSE
      BY Zenon DEF Init, Idle, Live
    <3> QED
      BY <3>1, InitEpochs, Zenon DEF RegisterInv
  <2>2. Inv /\ [Next]_vars => Inv'
    BY <1>2, NextEpochs, StutterEpochs, NextRegisters, Zenon
  <2>3. Inv => SentIsRegistered
    <3> SUFFICES ASSUME Inv, NEW q \in OnTheWire, q.kind = "produce", q.epoch = cEpoch, q \notin late
                 PROVE  q.places \subseteq cParts
      BY Zenon DEF SentIsRegistered
    <3>1. call # None /\ q \in DOMAIN call.got
      BY Zenon DEF OnTheWire, Idle, Got
    <3>2. Own(q) /\ open = (call.kind # "init")
      BY <3>1, Zenon DEF Epochs, CallInv, Idle
    <3>3. call.kind = "produce" /\ epoch = cEpoch /\ ~IsEnd
      BY <3>2, Zenon DEF Own, Sends, IsEnd
    <3>4. Live /\ Adding = {} /\ q.places \subseteq registered
      BY <3>1, <3>2, <3>3, Zenon DEF RegisterInv, Live, Ending, Adding, Idle
    <3> QED
      BY <3>4, Zenon DEF RegisterInv
  <2> QED
    BY <2>1, <2>2, <2>3, PTL DEF Spec
<1> QED
  BY <1>1, <1>2, Zenon
=============================================================================
