------------------------- MODULE TransactionOutcomes -------------------------
(***************************************************************************)
(* For any partitions and coordinators, any number of transactions, calls, *)
(* retries and faults: every transaction has a producer epoch of its own,  *)
(* and what Abort promises, a transaction is decided at most once, as its  *)
(* Commit or Abort reports.  First the types of requests, answers and      *)
(* calls, and what each step does in terms of them.                        *)
(***************************************************************************)
EXTENDS Transaction, TLAPS

-----------------------------------------------------------------------------
(* Types.                                                                  *)

RequestKinds == {"init", "add", "produce", "offsets", "end"}
CallKinds == {"init", "add", "produce", "offsets", "commit", "abort"}

Messages ==
    {q \in [txn : Txns, call : Nat, attempt : Nat, kind : RequestKinds, epoch : Nat,
            places : SUBSET Places, seq : Nat, commit : BOOLEAN, target : Brokers \cup {None}] :
        /\ q.kind = "produce" => \E p \in Partitions : q.places = {p}
        /\ q.kind = "offsets" => q.places = {Offsets}}

Answers == [code : Codes, epoch : Nat \cup {None}]
Answerings == UNION {[S -> Answers] : S \in SUBSET Messages}

Calls == [kind : CallKinds, n : Nat, attempt : Nat, ps : SUBSET Partitions, got : Answerings]

TypeInv ==
    /\ cache \in Nat \cup {None} /\ epoch \in Nat /\ cEpoch \in Nat /\ count \in Nat
    /\ txn \in 0 .. MaxTxns
    /\ open \in BOOLEAN /\ broken \in BOOLEAN /\ endFailed \in BOOLEAN
    /\ seqs \in [Partitions -> Nat]
    /\ coordinator \in Brokers /\ txnCoordinator \in Brokers
    /\ pState \in [Partitions -> [epoch : Nat, next : Nat]]
    /\ ended \in [Txns -> {"none", "committed", "aborted"}]
    /\ epochOf \in [Txns -> Nat \cup {None}]
    /\ late \subseteq Messages /\ call \in Calls \cup {None}

\* Every request the client has sent and that may still matter.
Sent == late \cup (IF Idle THEN {} ELSE DOMAIN call.got)

-----------------------------------------------------------------------------
(* Epochs.                                                                 *)

\* The transactions that have an epoch.
Began == {t \in Txns : epochOf[t] # None}

Fresh(e) == e \in Nat /\ e <= cEpoch /\ \A t \in Began : epochOf[t] < e

EpochInv ==
    /\ \A t \in Began : t <= txn /\ epochOf[t] <= cEpoch
    /\ \A s, t \in Began : s < t => epochOf[s] < epochOf[t]
    /\ open => txn \in Began /\ epochOf[txn] = epoch
    /\ cache # None => TV2 /\ (open => ~endFailed) /\ (~open => Fresh(cache))

\* The kind of a call's requests.
Sends(kind) == IF kind \in {"commit", "abort"} THEN "end" ELSE kind

Own(q) ==
    /\ q.txn = txn /\ q.kind = Sends(call.kind) /\ q.commit = (call.kind = "commit")
    /\ q.kind # "init" => q.epoch = epoch

CallInv ==
    ~Idle =>
      /\ txn \in Txns /\ DOMAIN call.got # {}
      /\ open = (call.kind # "init")
      /\ call.kind = "init" => txn \notin Began /\ cache = None
      /\ \A q \in DOMAIN call.got : Own(q)
      /\ call.kind = "init" \/ (TV2 /\ IsEnd) => \A q \in Got("ok") : Fresh(call.got[q].epoch)

LateInv ==
    \A q \in late : q.txn <= txn /\ (q.kind # "init" => q.txn \in Began /\ q.epoch = epochOf[q.txn])

-----------------------------------------------------------------------------
(* Requests, answers and calls.                                            *)

\* The fields of a request.
LEMMA MessageFields ==
    ASSUME NEW q \in Messages
    PROVE  /\ q.txn \in Txns /\ q.call \in Nat /\ q.kind \in RequestKinds /\ q.epoch \in Nat
           /\ q.places \in SUBSET Places /\ q.seq \in Nat /\ q.commit \in BOOLEAN
           /\ q.kind = "produce" => \E p \in Partitions : q.places = {p}
           /\ q.kind = "offsets" => q.places = {Offsets}
BY Zenon DEF Messages

\* The fields of a call.
LEMMA CallFields ==
    ASSUME NEW c \in Calls
    PROVE  /\ c.kind \in CallKinds /\ c.n \in Nat /\ c.attempt \in Nat /\ c.ps \in SUBSET Partitions
           /\ DOMAIN c.got \subseteq Messages
           /\ \A q \in DOMAIN c.got : c.got[q] \in Answers
<1>1. c.got \in Answerings /\ c.kind \in CallKinds /\ c.n \in Nat /\ c.attempt \in Nat
        /\ c.ps \in SUBSET Partitions
  BY Zenon DEF Calls
<1>2. PICK S \in SUBSET Messages : c.got \in [S -> Answers]
  BY <1>1, Zenon DEF Answerings
<1> QED
  BY <1>1, <1>2, Zenon

LEMMA AnswerFields ==
    ASSUME NEW a \in Answers
    PROVE  a.code \in Codes /\ a.epoch \in Nat \cup {None}
BY Zenon DEF Answers

LEMMA PendingAnswer == Pending \in Answers /\ Pending.code # "ok"
BY Zenon DEF Pending, Answers, Codes

LEMMA AllPending ==
    ASSUME NEW R \in SUBSET Messages
    PROVE  \E g \in Answerings :
               g = [q \in R |-> Pending] /\ DOMAIN g = R /\ \A q \in R : g[q] = Pending
<1> DEFINE g == [q \in R |-> Pending]
<1>1. g \in [R -> Answers]
  BY PendingAnswer, Zenon
<1>2. g \in Answerings
  BY <1>1, Zenon DEF Answerings
<1> QED
  BY <1>2, Zenon

\* A call that has just sent its requests.
LEMMA NewCall ==
    ASSUME NEW kind \in CallKinds, NEW n \in Nat, NEW a \in Nat, NEW ps \in SUBSET Partitions,
           NEW R \in SUBSET Messages
    PROVE  LET c == Call(kind, n, a, ps, R)
           IN  /\ c \in Calls /\ c.kind = kind /\ c.n = n /\ c.ps = ps
               /\ DOMAIN c.got = R /\ \A q \in R : c.got[q] = Pending
<1>1. PICK g \in Answerings :
          g = [q \in R |-> Pending] /\ DOMAIN g = R /\ \A q \in R : g[q] = Pending
  BY AllPending, Zenon
<1>2. LET c == [kind |-> kind, n |-> n, attempt |-> a, ps |-> ps, got |-> g]
      IN  c \in Calls /\ c.kind = kind /\ c.n = n /\ c.ps = ps /\ c.got = g
  BY Zenon DEF Calls
<1>3. Call(kind, n, a, ps, R) = [kind |-> kind, n |-> n, attempt |-> a, ps |-> ps, got |-> g]
  BY <1>1, Zenon DEF Call
<1> QED
  BY <1>1, <1>2, <1>3, Zenon

\* A call that learns the answer to one of its requests.
LEMMA AnsweredCall ==
    ASSUME NEW c \in Calls, NEW q \in DOMAIN c.got, NEW a \in Answers
    PROVE  LET d == [c EXCEPT !.got[q] = a]
           IN  /\ d \in Calls /\ d.kind = c.kind /\ d.n = c.n /\ d.ps = c.ps
               /\ DOMAIN d.got = DOMAIN c.got
               /\ \A r \in DOMAIN c.got : d.got[r] = IF r = q THEN a ELSE c.got[r]
<1> DEFINE g == [c.got EXCEPT ![q] = a]
<1>1. c.got \in Answerings
  BY Zenon DEF Calls
<1>2. PICK S \in SUBSET Messages : c.got \in [S -> Answers]
  BY <1>1, Zenon DEF Answerings
<1>3. g \in [S -> Answers]
  BY <1>2, Zenon
<1>4. g \in Answerings
  BY <1>3, Zenon DEF Answerings
<1>5. DOMAIN g = DOMAIN c.got /\ \A r \in DOMAIN c.got : g[r] = IF r = q THEN a ELSE c.got[r]
  BY <1>2, Zenon
<1> HIDE DEF g
<1>6. LET d == [c EXCEPT !.got = g]
      IN  d \in Calls /\ d.kind = c.kind /\ d.n = c.n /\ d.ps = c.ps /\ d.got = g
  BY <1>4, Zenon DEF Calls
<1>7. [c EXCEPT !.got[q] = a] = [c EXCEPT !.got = g]
  BY Zenon DEF g, Calls
<1> QED
  BY <1>5, <1>6, <1>7, Zenon

\* The same request, another attempt.
Same(q, f) ==
    /\ q.txn = f.txn /\ q.call = f.call /\ q.kind = f.kind /\ q.epoch = f.epoch
    /\ q.places = f.places /\ q.seq = f.seq /\ q.commit = f.commit

LEMMA SentAgain ==
    ASSUME NEW f \in Messages, NEW a \in Nat, NEW target \in Brokers \cup {None}
    PROVE  LET q == [f EXCEPT !.attempt = a, !.target = target]
           IN  q \in Messages /\ Same(q, f)
<1> DEFINE q == [f EXCEPT !.attempt = a, !.target = target]
<1>1. q \in [txn : Txns, call : Nat, attempt : Nat, kind : RequestKinds, epoch : Nat,
             places : SUBSET Places, seq : Nat, commit : BOOLEAN, target : Brokers \cup {None}]
  BY Zenon DEF Messages
<1>2. Same(q, f)
  BY Zenon DEF Messages, Same
<1>3. /\ q.kind = "produce" => \E p \in Partitions : q.places = {p}
      /\ q.kind = "offsets" => q.places = {Offsets}
  BY <1>2, MessageFields, Zenon DEF Same
<1> QED
  BY <1>1, <1>2, <1>3, Zenon DEF Messages

-----------------------------------------------------------------------------
(* What the steps do.                                                      *)

\* The call in progress, or a new one, has sent requests and waits for all of them.
Issues ==
    /\ call' \in Calls /\ DOMAIN call'.got # {}
    /\ \A q \in DOMAIN call'.got : call'.got[q] = Pending

\* At most the answer a to q became known, and q at most stays on its way.
Hears(q, a) ==
    /\ call = None => call' = None
    /\ call # None =>
          /\ call' \in Calls
          /\ call'.kind = call.kind /\ call'.n = call.n /\ DOMAIN call'.got = DOMAIN call.got
          /\ \A r \in DOMAIN call.got :
                call'.got[r] = call.got[r] \/ (r = q /\ call'.got[r] = a)
    /\ late' \subseteq Sent
    /\ "lateRequest" \in Faults \/ late' \subseteq late

-----------------------------------------------------------------------------
(* Epochs are handed out once.                                             *)

Epochs == TypeInv /\ EpochInv /\ CallInv /\ LateInv

\* What was sent belongs to a transaction that has begun, and carries its epoch.
LEMMA SentIsGenuine ==
    ASSUME Epochs, NEW q \in Sent
    PROVE  /\ q \in Messages /\ q.txn <= txn
           /\ q.kind # "init" => q.txn \in Began /\ q.epoch = epochOf[q.txn]
<1>1. CASE q \in late
  BY <1>1, Zenon DEF Epochs, TypeInv, LateInv
<1>2. CASE q \notin late
  <2>1. call # None /\ call \in Calls /\ q \in DOMAIN call.got
    BY <1>2, Zenon DEF Sent, Idle, Epochs, TypeInv
  <2>2. q \in Messages /\ call.kind \in CallKinds
    BY <2>1, CallFields, Zenon
  <2>3. Own(q) /\ open = (call.kind # "init") /\ txn \in Txns
    BY <2>1, Zenon DEF Epochs, CallInv, Idle
  <2>4. q.kind # "init" => open
    BY <2>3, Zenon DEF Own, Sends
  <2>5. open => txn \in Began /\ epochOf[txn] = epoch
    BY Zenon DEF Epochs, EpochInv
  <2> QED
    BY <2>2, <2>3, <2>4, <2>5 DEF Own, Txns, Epochs, TypeInv
<1> QED
  BY <1>1, <1>2, Zenon

\* A call that sends requests changes no epoch.
LEMMA IssueEpochs ==
    ASSUME Epochs, Issues, txn \in Txns,
           UNCHANGED <<cache, txn, open, epoch, endFailed, late, cEpoch, epochOf>>,
           open = (call'.kind # "init"), call'.kind = "init" => txn \notin Began /\ cache = None,
           \A q \in DOMAIN call'.got : Own(q)'
    PROVE  EpochInv' /\ CallInv' /\ LateInv'
<1>1. Began' = Began
  BY Zenon DEF Began
<1>2. LateInv'
  BY <1>1, Zenon DEF Epochs, LateInv
<1>3. EpochInv'
  BY <1>1, Zenon DEF Epochs, EpochInv, Fresh
<1>4. Got("ok")' = {}
  BY PendingAnswer, Zenon DEF Got, Issues
<1>5. CallInv'
  BY <1>1, <1>4, Zenon DEF CallInv, Issues
<1> QED
  BY <1>2, <1>3, <1>5, Zenon

\* An answer, or its loss, hands out no epoch that a transaction has.
LEMMA HearEpochs ==
    ASSUME Epochs, NEW q, NEW a \in Answers, Hears(q, a),
           UNCHANGED <<cache, txn, open, epoch, endFailed, epochOf>>,
           cEpoch' \in Nat, cEpoch <= cEpoch',
           a.code = "ok" /\ q.kind = "init" => a.epoch = cEpoch' /\ cEpoch < cEpoch',
           a.code = "ok" /\ q.kind = "end" /\ TV2 => a.epoch = cEpoch' /\ q.epoch < cEpoch'
    PROVE  EpochInv' /\ CallInv' /\ LateInv'
<1>1. Began' = Began /\ cEpoch \in Nat /\ epochOf \in [Txns -> Nat \cup {None}] /\ txn \in 0 .. MaxTxns
  BY Zenon DEF Began, Epochs, TypeInv
<1>2. \A t \in Began : t \in Txns /\ epochOf[t] \in Nat /\ t <= txn /\ epochOf[t] <= cEpoch
  BY <1>1, Zenon DEF Began, Epochs, EpochInv
<1>3. \A e : Fresh(e) => Fresh(e)'
  BY <1>1, <1>2 DEF Fresh
<1>4. EpochInv'
  <2>1. \A t \in Began' : t <= txn' /\ epochOf'[t] <= cEpoch'
    BY <1>1, <1>2
  <2>2. (\A s, t \in Began : s < t => epochOf[s] < epochOf[t])
        /\ (open => txn \in Began /\ epochOf[txn] = epoch)
        /\ (cache # None => TV2 /\ (open => ~endFailed) /\ (~open => Fresh(cache)))
    BY Zenon DEF Epochs, EpochInv
  <2>3. cache' # None => TV2 /\ (open' => ~endFailed') /\ (~open' => Fresh(cache)')
    BY <2>2, <1>3, Zenon
  <2> QED
    BY <1>1, <2>1, <2>2, <2>3, Zenon DEF EpochInv
<1>5. LateInv'
  BY <1>1, SentIsGenuine, Zenon DEF LateInv, Hears
<1>6. CallInv'
  <2> SUFFICES ASSUME call' # None
               PROVE  CallInv'
    BY Zenon DEF CallInv, Idle
  <2>1. call # None /\ call'.kind = call.kind /\ DOMAIN call'.got = DOMAIN call.got
    BY Zenon DEF Hears
  <2>2. /\ txn \in Txns /\ DOMAIN call.got # {} /\ open = (call.kind # "init")
        /\ call.kind = "init" => txn \notin Began /\ cache = None
        /\ \A r \in DOMAIN call.got : Own(r)
        /\ call.kind = "init" \/ (TV2 /\ IsEnd) => \A r \in Got("ok") : Fresh(call.got[r].epoch)
    BY <2>1, Zenon DEF Epochs, CallInv, Idle
  <2>3. \A r \in DOMAIN call'.got : Own(r)'
    BY <2>1, <2>2, Zenon DEF Own
  <2>4. ASSUME call.kind = "init" \/ (TV2 /\ IsEnd), NEW r \in DOMAIN call.got, call'.got[r].code = "ok"
        PROVE  Fresh(call.got[r].epoch)'
    <3>1. CASE call'.got[r] = call.got[r]
      <4>1. PICK e : e = call.got[r].epoch /\ e = call'.got[r].epoch /\ Fresh(e)
        BY <3>1, <2>2, <2>4, Zenon DEF Got
      <4> QED
        BY <4>1, <1>3, Zenon DEF Fresh
    <3>2. CASE r = q /\ call'.got[r] = a
      <4>1. Own(q) /\ a.code = "ok"
        BY <2>2, <2>4, <3>2, Zenon
      <4>2. CASE call.kind = "init"
        BY <4>1, <4>2, <3>2, <1>1, <1>2 DEF Own, Sends, Fresh
      <4>3. CASE TV2 /\ IsEnd
        <5>1. q.kind = "end" /\ q.epoch = epoch /\ open
          BY <4>1, <4>3, <2>2, Zenon DEF Own, Sends, IsEnd
        <5>2. txn \in Began /\ epochOf[txn] = epoch
          BY <5>1, Zenon DEF Epochs, EpochInv
        <5>3. \A t \in Began : epochOf[t] <= epoch
          <6>1. \A s, t \in Began : s < t => epochOf[s] < epochOf[t]
            BY Zenon DEF Epochs, EpochInv
          <6> QED
            BY <6>1, <5>2, <1>1, <1>2 DEF Txns
        <5>4. a.epoch = cEpoch' /\ epoch < cEpoch' /\ epoch \in Nat
          BY <4>1, <4>3, <5>1, Zenon DEF Epochs, TypeInv
        <5> QED
          BY <5>3, <5>4, <3>2, <1>1, <1>2 DEF Fresh
      <4> QED
        BY <2>4, <4>2, <4>3, Zenon
    <3> QED
      BY <3>1, <3>2, <2>1, Zenon DEF Hears
  <2>5. call'.kind = "init" \/ (TV2 /\ IsEnd') => \A r \in Got("ok")' : Fresh(call.got[r].epoch)'
    BY <2>1, <2>4, Zenon DEF Got, IsEnd
  <2> QED
    BY <1>1, <2>1, <2>2, <2>3, <2>5, Zenon DEF CallInv, Idle
<1> QED
  BY <1>4, <1>5, <1>6, Zenon

\* The requests of a new produce call.
NewProduce ==
    call'.kind = "produce" =>
        \A q \in DOMAIN call'.got : \E p \in Partitions :
            /\ q = Message(txn, call'.n, 1, "produce", epoch, {p}, seqs[p], FALSE, None)
            /\ q.places = {p} /\ q.seq = seqs[p] /\ q.call = call'.n

Works == Issues /\ NewProduce /\ call'.kind # "init" /\ \A q \in DOMAIN call'.got : Own(q)'

LEMMA OpenHasBegun ==
    ASSUME Epochs, open PROVE txn \in Txns
BY Zenon DEF Epochs, EpochInv, Began

\* The requests of ProduceWithinTxn are the open transaction's.
LEMMA ProduceWorks ==
    ASSUME Epochs, txn \in Txns, UNCHANGED <<txn, epoch>>,
           NEW n \in Nat, NEW ps \in SUBSET Partitions, ps # {},
           call' = Call("produce", n, 1, ps, ProduceRequests(n, 1, ps))
    PROVE  Works /\ call'.kind = "produce"
<1> DEFINE m(p) == Message(txn, n, 1, "produce", epoch, {p}, seqs[p], FALSE, None)
<1>1. ASSUME NEW p \in ps
      PROVE  /\ m(p) \in Messages
             /\ m(p).txn = txn /\ m(p).kind = "produce" /\ m(p).epoch = epoch /\ m(p).commit = FALSE
             /\ m(p).places = {p} /\ m(p).seq = seqs[p] /\ m(p).call = n
  <2>1. /\ epoch \in Nat /\ seqs[p] \in Nat /\ {p} \in SUBSET Places /\ "produce" \in RequestKinds
        /\ 1 \in Nat /\ \E x \in Partitions : {p} = {x}
    BY Zenon DEF Epochs, TypeInv, Places, RequestKinds
  <2> QED
    BY <2>1, Zenon DEF Message, Messages
<1> HIDE DEF m
<1>2. PICK R : R = ProduceRequests(n, 1, ps) /\ R = {m(p) : p \in ps}
  BY Zenon DEF ProduceRequests, m
<1>3. (\A q \in R : \E p \in ps : q = m(p)) /\ R # {}
  BY <1>2, Zenon
<1>4. R \in SUBSET Messages /\ 1 \in Nat /\ "produce" \in CallKinds
  BY <1>1, <1>3, Zenon DEF CallKinds
<1>5. PICK c : /\ c = Call("produce", n, 1, ps, R)
               /\ c \in Calls /\ c.kind = "produce" /\ c.n = n
               /\ DOMAIN c.got = R /\ \A q \in R : c.got[q] = Pending
  <2>1. PICK kind : kind = "produce"
    BY Zenon
  <2> QED
    BY <1>4, <2>1, NewCall
<1>6. call' = c
  BY <1>2, <1>5, Zenon
<1>7. ASSUME NEW q \in R
      PROVE  /\ q.txn = txn /\ q.kind = "produce" /\ q.epoch = epoch /\ q.commit = FALSE
             /\ \E p \in Partitions :
                   /\ q = Message(txn, n, 1, "produce", epoch, {p}, seqs[p], FALSE, None)
                   /\ q.places = {p} /\ q.seq = seqs[p] /\ q.call = n
  <2>1. PICK p \in ps : q = m(p)
    BY <1>3, Zenon
  <2> QED
    BY <1>1, <2>1, Zenon DEF m
<1>8. \A q \in DOMAIN call'.got : Own(q)'
  BY <1>5, <1>6, <1>7, Zenon DEF Own, Sends
<1>9. NewProduce
  BY <1>5, <1>6, <1>7, Zenon DEF NewProduce
<1> QED
  BY <1>3, <1>5, <1>6, <1>8, <1>9, Zenon DEF Works, Issues

\* Every other call sends one request to the handle's coordinator.
LEMMA CoordinatorWorks ==
    ASSUME Epochs, txn \in Txns, UNCHANGED <<txn, epoch>>,
           NEW n \in Nat, NEW ps \in SUBSET Partitions,
           NEW kind \in CallKinds, kind \notin {"init", "produce"}, NEW places \in SUBSET Places,
           NEW sent, sent = Sends(kind), NEW commit, commit = (kind = "commit"),
           sent = "offsets" => places = {Offsets},
           call' = Call(kind, n, 1, ps, CoordinatorRequest(n, 1, sent, places, commit, coordinator))
    PROVE  Works /\ call'.kind = kind
<1>1. PICK m : m = Message(txn, n, 1, sent, epoch, places, 0, commit, coordinator)
  BY Zenon
<1>2. /\ epoch \in Nat /\ sent \in RequestKinds /\ sent # "produce" /\ commit \in BOOLEAN
      /\ coordinator \in Brokers \cup {None} /\ 1 \in Nat /\ 0 \in Nat
  BY Zenon DEF Epochs, TypeInv, RequestKinds, CallKinds, Sends
<1>3. /\ m \in Messages
      /\ m.txn = txn /\ m.kind = sent /\ m.epoch = epoch /\ m.commit = commit
      /\ m.places = places /\ m.call = n
  BY <1>1, <1>2, Zenon DEF Message, Messages
<1>4. CoordinatorRequest(n, 1, sent, places, commit, coordinator) = {m}
  BY <1>1, Zenon DEF CoordinatorRequest
<1>5. PICK c : /\ c = Call(kind, n, 1, ps, {m})
               /\ c \in Calls /\ c.kind = kind /\ c.n = n
               /\ DOMAIN c.got = {m} /\ \A q \in {m} : c.got[q] = Pending
  BY <1>2, <1>3, NewCall
<1>6. call' = c
  BY <1>4, <1>5, Zenon
<1>7. \A q \in DOMAIN call'.got : Own(q)'
  BY <1>3, <1>5, <1>6, Zenon DEF Own
<1> QED
  BY <1>5, <1>6, <1>7, Zenon DEF Works, Issues, NewProduce

\* The calls on an open handle keep the epochs.
LEMMA WorkEpochs ==
    ASSUME Epochs, Works, open, count' \in Nat,
           UNCHANGED <<cache, txn, open, epoch, seqs, coordinator, broken, endFailed, late,
                       placeVars, brokerVars, ended, epochOf>>
    PROVE  Epochs'
<1>1. TypeInv'
  BY Zenon DEF Epochs, TypeInv, Works, Issues, placeVars, brokerVars
<1>2. cEpoch' = cEpoch
  BY Zenon DEF brokerVars
<1>3. EpochInv' /\ CallInv' /\ LateInv'
  BY <1>2, OpenHasBegun, IssueEpochs, Zenon DEF Works
<1> QED
  BY <1>1, <1>3, Zenon DEF Epochs

\* The calls an application makes on an open handle, and what follows a registration.
Working ==
    \/ SendOffsetsToTxn \/ AddDone
    \/ \E ps \in (SUBSET Partitions) \ {{}} : ProduceWithinTxn(ps)
    \/ \E commit \in BOOLEAN : EndTxn(commit)

WorkingRest == <<cache, txn, open, epoch, seqs, coordinator, broken, endFailed, late,
                 placeVars, brokerVars, acked, ended, epochOf>>

LEMMA WorkingWorks ==
    ASSUME Epochs, Working
    PROVE  /\ Works /\ open /\ count' \in Nat /\ UNCHANGED WorkingRest
           /\ \/ Idle /\ (AbortOnError /\ (broken \/ endFailed) => call'.kind \in {"commit", "abort"})
              \/ ~Idle /\ call.kind = "add" /\ call'.kind \in {"produce", "offsets"}
<1>1. count \in Nat /\ {} \in SUBSET Partitions /\ {Offsets} \in SUBSET Places /\ SUBSET Partitions \subseteq SUBSET Places
  BY Zenon DEF Epochs, TypeInv, Places
<1>2. CASE SendOffsetsToTxn
  <2>1. /\ Idle /\ open /\ ~(AbortOnError /\ (broken \/ endFailed)) /\ UNCHANGED WorkingRest
        /\ count' = count + 1
    BY <1>2, Zenon DEF SendOffsetsToTxn, MayWork, Usable, WorkingRest, historyVars
  <2>2. PICK kind, n : /\ kind \in {"offsets", "add"} /\ n = count + 1
                       /\ call' = Call(kind, n, 1, {},
                                       CoordinatorRequest(n, 1, kind, {Offsets}, FALSE, coordinator))
    BY <1>2, Zenon DEF SendOffsetsToTxn
  <2>3. /\ kind \in CallKinds /\ kind \notin {"init", "produce"} /\ kind = Sends(kind)
        /\ FALSE = (kind = "commit") /\ n \in Nat /\ kind \notin {"commit", "abort"}
    BY <2>2, <1>1 DEF CallKinds, Sends
  <2>4. txn \in Txns /\ UNCHANGED <<txn, epoch>>
    BY <2>1, OpenHasBegun, Zenon DEF WorkingRest
  <2>5. Works /\ call'.kind = kind
    BY <1>1, <2>2, <2>3, <2>4, CoordinatorWorks, Zenon
  <2> QED
    BY <1>1, <2>1, <2>5
<1>3. ASSUME NEW ps \in (SUBSET Partitions) \ {{}}, ProduceWithinTxn(ps)
      PROVE  /\ Works /\ open /\ count' \in Nat /\ UNCHANGED WorkingRest
             /\ Idle /\ ~(AbortOnError /\ (broken \/ endFailed))
  <2>1. /\ Idle /\ open /\ ~(AbortOnError /\ (broken \/ endFailed)) /\ UNCHANGED WorkingRest
        /\ count' = count + 1
    BY <1>3, Zenon DEF ProduceWithinTxn, MayWork, Usable, WorkingRest, historyVars
  <2>2. PICK new, n : /\ new = ToRegister(ps) /\ n = count + 1
                      /\ call' = IF new = {}
                                 THEN Call("produce", n, 1, ps, ProduceRequests(n, 1, ps))
                                 ELSE Call("add", n, 1, ps,
                                           CoordinatorRequest(n, 1, "add", new, FALSE, coordinator))
    BY <1>3, Zenon DEF ProduceWithinTxn
  <2>3. new \in SUBSET Places /\ n \in Nat
    BY <1>1, <2>2 DEF ToRegister
  <2>4. txn \in Txns /\ UNCHANGED <<txn, epoch>>
    BY <2>1, OpenHasBegun, Zenon DEF WorkingRest
  <2>5. CASE new = {}
    <3>1. /\ call' = Call("produce", n, 1, ps, ProduceRequests(n, 1, ps))
          /\ ps \in SUBSET Partitions /\ ps # {}
      BY <2>2, <2>5, Zenon
    <3>2. Works
      BY <2>3, <2>4, <3>1, ProduceWorks, Zenon
    <3> QED
      BY <1>1, <2>1, <3>2
  <2>6. CASE new # {}
    <3>1. PICK kind : /\ kind = "add" /\ kind \in CallKinds /\ kind \notin {"init", "produce"}
                      /\ kind = Sends(kind) /\ FALSE = (kind = "commit") /\ kind # "offsets"
      BY DEF CallKinds, Sends
    <3>2. Works
      BY <2>2, <2>3, <2>4, <2>6, <3>1, CoordinatorWorks, Zenon
    <3> QED
      BY <1>1, <2>1, <3>2
  <2> QED
    BY <2>5, <2>6, Zenon
<1>4. ASSUME NEW commit \in BOOLEAN, EndTxn(commit)
      PROVE  /\ Works /\ open /\ count' \in Nat /\ UNCHANGED WorkingRest
             /\ Idle /\ call'.kind \in {"commit", "abort"}
  <2>1. Idle /\ open /\ UNCHANGED WorkingRest /\ count' = count + 1
    BY <1>4, Zenon DEF EndTxn, Usable, WorkingRest
  <2>2. PICK kind, n : /\ kind = (IF commit THEN "commit" ELSE "abort") /\ n = count + 1
                       /\ call' = Call(kind, n, 1, {},
                                       CoordinatorRequest(n, 1, "end", {}, commit, coordinator))
    BY <1>4, Zenon DEF EndTxn, CommitFlag
  <2>3. PICK sent : /\ sent = "end" /\ sent = Sends(kind) /\ kind \in CallKinds
                    /\ kind \notin {"init", "produce"} /\ kind \in {"commit", "abort"}
                    /\ commit = (kind = "commit") /\ n \in Nat /\ {} \in SUBSET Places
    BY <1>1, <2>2 DEF CallKinds, Sends
  <2>4. txn \in Txns /\ UNCHANGED <<txn, epoch>>
    BY <2>1, OpenHasBegun, Zenon DEF WorkingRest
  <2>5. Works /\ call'.kind = kind
    BY <1>1, <2>2, <2>3, <2>4, CoordinatorWorks, Zenon
  <2> QED
    BY <1>1, <2>1, <2>3, <2>5
<1>5. CASE AddDone
  <2>1. call # None /\ call.kind = "add" /\ UNCHANGED WorkingRest /\ count' = count /\ call \in Calls
    BY <1>5, Zenon DEF AddDone, AllOk, Answered, Idle, WorkingRest, historyVars, Epochs, TypeInv
  <2>2. call.n \in Nat /\ call.ps \in SUBSET Partitions
    BY <2>1, CallFields, Zenon
  <2>3. open /\ txn \in Txns
    BY <2>1, Zenon DEF Epochs, CallInv, Idle
  <2>4. PICK n, ps : /\ n = call.n /\ ps = call.ps
                     /\ call' = IF ps = {}
                                THEN Call("offsets", n, 1, {},
                                          CoordinatorRequest(n, 1, "offsets", {Offsets}, FALSE, coordinator))
                                ELSE Call("produce", n, 1, ps, ProduceRequests(n, 1, ps))
    BY <1>5, Zenon DEF AddDone
  <2>5. UNCHANGED <<txn, epoch>>
    BY <2>1, Zenon DEF WorkingRest
  <2>6. CASE ps = {}
    <3>1. PICK kind : /\ kind = "offsets" /\ kind \in CallKinds /\ kind \notin {"init", "produce"}
                      /\ kind = Sends(kind) /\ FALSE = (kind = "commit")
      BY DEF CallKinds, Sends
    <3>2. Works /\ call'.kind = kind
      BY <1>1, <2>2, <2>3, <2>4, <2>5, <2>6, <3>1, CoordinatorWorks, Zenon
    <3> QED
      BY <1>1, <2>1, <2>3, <3>1, <3>2, Zenon DEF Idle
  <2>7. CASE ps # {}
    <3>1. Works /\ call'.kind = "produce"
      BY <2>2, <2>3, <2>4, <2>5, <2>7, ProduceWorks, Zenon
    <3> QED
      BY <1>1, <2>1, <2>3, <3>1, Zenon DEF Idle
  <2> QED
    BY <2>6, <2>7, Zenon
<1> QED
  BY <1>2, <1>3, <1>4, <1>5, Zenon DEF Working

LEMMA WorkingEpochs ==
    ASSUME Epochs, Working PROVE Epochs'
BY WorkingWorks, WorkEpochs, Zenon DEF WorkingRest

LEMMA AfterTypes ==
    ASSUME TypeInv
    PROVE  SeqsAfter \in [Partitions -> Nat] /\ CoordinatorAfter \in Brokers
<1>1. \A p \in Partitions : seqs[p] \in Nat /\ seqs[p] + 1 \in Nat
  BY DEF TypeInv
<1> QED
  BY <1>1, Zenon DEF SeqsAfter, CoordinatorAfter, TypeInv

\* A retried call sends what failed again.
LEMMA RetrySends ==
    ASSUME Epochs, Retry
    PROVE  /\ call # None /\ call \in Calls /\ Issues /\ call'.kind = call.kind /\ call'.n = call.n
           /\ \A q \in DOMAIN call'.got : \E f \in Failed : q = Again(f) /\ Same(q, f)
           /\ \A f \in Failed : Again(f) \in DOMAIN call'.got /\ Same(Again(f), f)
<1>1. call # None /\ call \in Calls /\ Failed # {} /\ Failed \subseteq DOMAIN call.got
  BY Zenon DEF Retry, Answered, Idle, Epochs, TypeInv, Failed
<1>2. DOMAIN call.got \subseteq Messages /\ NextAttempt \in Nat
  <2>1. DOMAIN call.got \subseteq Messages /\ call.attempt \in Nat
    BY <1>1, CallFields, Zenon
  <2> QED
    BY <2>1 DEF NextAttempt
<1>3. PICK target \in Brokers \cup {None} :
          target = IF call.kind = "produce" THEN None ELSE CoordinatorAfter
  BY AfterTypes, Zenon DEF Epochs
<1>4. PICK a \in Nat : a = NextAttempt
  BY <1>2, Zenon
<1>5. \A f : Again(f) = [f EXCEPT !.attempt = a, !.target = target]
  BY <1>3, <1>4, Zenon DEF Again
<1>6. \A f \in Failed : Again(f) \in Messages /\ Same(Again(f), f)
  <2> TAKE f \in Failed
  <2>1. PICK q : q = [f EXCEPT !.attempt = a, !.target = target]
    BY Zenon
  <2>2. q \in Messages /\ Same(q, f)
    BY <1>1, <1>2, <2>1, SentAgain, Zenon
  <2> QED
    BY <1>5, <2>1, <2>2, Zenon
<1>7. PICK R : R = {Again(f) : f \in Failed}
  BY Zenon
<1>8. R \in SUBSET Messages /\ R # {} /\ (\A q \in R : \E f \in Failed : q = Again(f))
      /\ \A f \in Failed : Again(f) \in R
  BY <1>1, <1>6, <1>7, Zenon
<1>9. PICK g \in Answerings :
          g = [q \in R |-> Pending] /\ DOMAIN g = R /\ \A q \in R : g[q] = Pending
  BY <1>8, AllPending, Zenon
<1>10. call' = [call EXCEPT !.attempt = a, !.got = g]
  BY <1>4, <1>7, <1>9, Zenon DEF Retry
<1>11. call' \in Calls /\ call'.kind = call.kind /\ call'.n = call.n /\ call'.got = g
  BY <1>1, <1>10, Zenon DEF Calls
<1> QED
  BY <1>1, <1>6, <1>8, <1>9, <1>11 DEF Issues

LEMMA RetryEpochs ==
    ASSUME Epochs, Retry PROVE Epochs'
<1>1. UNCHANGED <<cache, txn, open, epoch, broken, endFailed, late, placeVars, brokerVars, count, ended, epochOf>>
  BY Zenon DEF Retry
<1>2. TypeInv'
  BY <1>1, RetrySends, AfterTypes, Zenon DEF Epochs, TypeInv, Retry, Issues, placeVars, brokerVars
<1>3. /\ txn \in Txns /\ open = (call.kind # "init") /\ \A q \in DOMAIN call.got : Own(q)
      /\ call.kind = "init" => txn \notin Began /\ cache = None
  BY RetrySends, Zenon DEF Epochs, CallInv, Idle
<1>4. \A q \in DOMAIN call'.got : Own(q)'
  BY <1>1, <1>3, RetrySends DEF Own, Same, Failed
<1>5. cEpoch' = cEpoch
  BY <1>1, Zenon DEF brokerVars
<1>6. EpochInv' /\ CallInv' /\ LateInv'
  BY <1>1, <1>3, <1>4, <1>5, RetrySends, IssueEpochs, Zenon
<1> QED
  BY <1>2, <1>6, Zenon DEF Epochs

\* BeginTransaction with a fresh epoch.
LEMMA BegunEpochs ==
    ASSUME Epochs, NEW t \in Txns, NEW e, Fresh(e), t \notin Began, \A s \in Began : s < t, txn <= t,
           txn' = t, open' = TRUE, epoch' = e, epochOf' = [epochOf EXCEPT ![t] = e],
           UNCHANGED <<cache, late, cEpoch>>, call' = None, cache # None => TV2 /\ ~endFailed'
    PROVE  /\ EpochInv' /\ CallInv' /\ LateInv'
           /\ Began' = Began \cup {t} /\ epochOf'[t] = e /\ \A s \in Began : epochOf'[s] = epochOf[s]
<1>1. /\ cEpoch \in Nat /\ epochOf \in [Txns -> Nat \cup {None}] /\ txn \in 0 .. MaxTxns
      /\ t \in Nat /\ e \in Nat /\ e <= cEpoch /\ e # None /\ \A s \in Began : epochOf[s] < e
  BY ConstantsAssumption DEF Epochs, TypeInv, Fresh, Txns
<1>2. \A s \in Began : s \in Txns /\ s \in Nat /\ epochOf[s] \in Nat /\ s <= txn /\ epochOf[s] <= cEpoch
  BY <1>1 DEF Began, Epochs, EpochInv, Txns
<1>3. epochOf'[t] = e /\ \A s \in Txns \ {t} : epochOf'[s] = epochOf[s]
  BY <1>1, Zenon
<1>4. Began' = Began \cup {t}
  BY <1>1, <1>3, Zenon DEF Began
<1>5. \A s \in Began : epochOf'[s] = epochOf[s]
  BY <1>2, <1>3, Zenon
<1>6. LateInv'
  <2>1. \A q \in late : q.txn <= txn /\ (q.kind # "init" => q.txn \in Began /\ q.epoch = epochOf[q.txn])
    BY Zenon DEF Epochs, LateInv
  <2>2. \A q \in late : q.txn \in Nat
    BY MessageFields DEF Epochs, TypeInv, Txns
  <2>3. \A q \in late : q.txn <= t
    BY <1>1, <2>1, <2>2
  <2> QED
    BY <1>4, <1>5, <2>1, <2>3, Zenon DEF LateInv
<1>7. EpochInv'
  <2>1. \A s \in Began' : s <= txn' /\ epochOf'[s] <= cEpoch'
    BY <1>1, <1>2, <1>3, <1>4, <1>5
  <2>2. \A r, s \in Began : r < s => epochOf[r] < epochOf[s]
    BY Zenon DEF Epochs, EpochInv
  <2>3. \A r, s \in Began' : r < s => epochOf'[r] < epochOf'[s]
    BY <1>1, <1>2, <1>3, <1>4, <1>5, <2>2
  <2> QED
    BY <1>3, <1>4, <2>1, <2>3, Zenon DEF EpochInv
<1>8. CallInv'
  BY Zenon DEF CallInv, Idle
<1> QED
  BY <1>3, <1>4, <1>5, <1>6, <1>7, <1>8, Zenon

LEMMA BeginReuses ==
    ASSUME Epochs, TV2 => ~Abandon, Begin, ReuseCached
    PROVE  /\ Epochs' /\ txn + 1 \in Txns /\ txn' = txn + 1 /\ Fresh(cache)
           /\ Began' = Began \cup {txn + 1} /\ epochOf'[txn + 1] = cache
           /\ \A s \in Began : epochOf'[s] = epochOf[s]
<1>1. /\ cache # None /\ TV2 /\ call = None /\ call' = None /\ txn < MaxTxns /\ txn' = txn + 1
      /\ epoch' = cache /\ epochOf' = [epochOf EXCEPT ![txn + 1] = cache] /\ endFailed' = FALSE
      /\ UNCHANGED <<cache, late, placeVars, brokerVars, ended>> /\ count' = 0 /\ broken' = FALSE
      /\ seqs' = [p \in Partitions |-> 0] /\ coordinator' = txnCoordinator
      /\ ~open \/ endFailed \/ Abandon
  BY Zenon DEF Begin, ReuseCached, Idle
<1>2. open' = TRUE
  BY Zenon DEF Begin, ReuseCached
<1>3. Fresh(cache) /\ ~open
  BY <1>1, Zenon DEF Epochs, EpochInv
<1>4. txn + 1 \in Txns /\ txn + 1 \notin Began /\ (\A s \in Began : s < txn + 1) /\ txn <= txn + 1
  <2>1. txn \in 0 .. MaxTxns /\ MaxTxns \in Nat
    BY ConstantsAssumption, Zenon DEF Epochs, TypeInv
  <2>2. \A s \in Began : s \in 1 .. MaxTxns /\ s <= txn
    BY Zenon DEF Epochs, EpochInv, Began, Txns
  <2> QED
    BY <1>1, <2>1, <2>2 DEF Txns
<1>5. cEpoch' = cEpoch
  BY <1>1, Zenon DEF brokerVars
<1>6. PICK t, e : t \in Txns /\ t = txn + 1 /\ e = cache
  BY <1>4, Zenon
<1>7. /\ EpochInv' /\ CallInv' /\ LateInv'
      /\ Began' = Began \cup {t} /\ epochOf'[t] = e /\ \A s \in Began : epochOf'[s] = epochOf[s]
  BY <1>1, <1>2, <1>3, <1>4, <1>5, <1>6, BegunEpochs, Zenon
<1>8. TypeInv'
  <2>1. seqs' \in [Partitions -> Nat] /\ epochOf' \in [Txns -> Nat \cup {None}] /\ txn' \in 0 .. MaxTxns
    BY <1>1, <1>4 DEF Epochs, TypeInv, Txns
  <2> QED
    BY <1>1, <1>2, <1>3, <2>1, Zenon DEF Epochs, TypeInv, placeVars, brokerVars, Fresh
<1> QED
  BY <1>1, <1>3, <1>4, <1>6, <1>7, <1>8, Zenon DEF Epochs

\* BeginTransaction that asks the coordinator for an epoch.
LEMMA BeginAsks ==
    ASSUME Epochs, Begin, ~ReuseCached
    PROVE  /\ Epochs' /\ txn' = txn + 1 /\ open' = FALSE /\ Began' = Began
           /\ Issues /\ call'.kind = "init" /\ \A q \in DOMAIN call'.got : q.kind = "init"
<1>1. /\ call = None /\ txn < MaxTxns /\ txn' = txn + 1 /\ endFailed' = FALSE
      /\ call' = Call("init", 0, 1, {}, {Message(txn + 1, 0, 1, "init", 0, {}, 0, FALSE, txnCoordinator)})
      /\ UNCHANGED <<cache, epoch, epochOf, late, placeVars, brokerVars, ended>>
      /\ count' = 0 /\ broken' = FALSE
      /\ seqs' = [p \in Partitions |-> 0] /\ coordinator' = txnCoordinator
  BY Zenon DEF Begin, Idle
<1>2. open' = FALSE
  BY Zenon DEF Begin, ReuseCached
<1>3. /\ txn \in Nat /\ txn + 1 \in Txns /\ txn + 1 \notin Began /\ cEpoch' = cEpoch
      /\ \A s \in Began : s \in Nat /\ s <= txn + 1
  <2>1. txn \in 0 .. MaxTxns /\ MaxTxns \in Nat
    BY ConstantsAssumption, Zenon DEF Epochs, TypeInv
  <2>2. \A s \in Began : s \in 1 .. MaxTxns /\ s <= txn
    BY Zenon DEF Epochs, EpochInv, Began, Txns
  <2> QED
    BY <1>1, <2>1, <2>2 DEF Txns, brokerVars
<1>4. cache = None
  BY Zenon DEF ReuseCached, Epochs, EpochInv
<1>5. PICK m : m = Message(txn + 1, 0, 1, "init", 0, {}, 0, FALSE, txnCoordinator)
  BY Zenon
<1>6. m \in Messages /\ m.txn = txn + 1 /\ m.kind = "init" /\ m.commit = FALSE
  BY <1>3, <1>5, Zenon DEF Message, Messages, Epochs, TypeInv, RequestKinds
<1>7. PICK c : /\ c = Call("init", 0, 1, {}, {m})
               /\ c \in Calls /\ c.kind = "init"
               /\ DOMAIN c.got = {m} /\ \A q \in {m} : c.got[q] = Pending
  <2>1. PICK R \in SUBSET Messages : R = {m}
    BY <1>6, Zenon
  <2>2. PICK g \in Answerings :
            g = [q \in R |-> Pending] /\ DOMAIN g = R /\ \A q \in R : g[q] = Pending
    BY AllPending, Zenon
  <2>3. PICK c : c = [kind |-> "init", n |-> 0, attempt |-> 1, ps |-> {}, got |-> g]
    BY Zenon
  <2>4. c \in Calls /\ c.kind = "init" /\ c.got = g
    BY <2>3, Zenon DEF Calls, CallKinds
  <2>5. c = Call("init", 0, 1, {}, {m})
    BY <2>1, <2>2, <2>3, Zenon DEF Call
  <2> QED
    BY <2>1, <2>2, <2>4, <2>5, Zenon
<1>8. call' = c
  BY <1>1, <1>5, <1>7, Zenon
<1>9. Began' = Began
  BY <1>1, Zenon DEF Began
<1>10. Issues /\ call'.kind = "init" /\ \A q \in DOMAIN call'.got : q.kind = "init"
  BY <1>6, <1>7, <1>8, Zenon DEF Issues
<1>11. TypeInv'
  <2>1. seqs' \in [Partitions -> Nat] /\ txn' \in 0 .. MaxTxns /\ call' \in Calls
    BY <1>1, <1>3, <1>7, <1>8 DEF Txns
  <2> QED
    BY <1>1, <1>2, <2>1, Zenon DEF Epochs, TypeInv, placeVars, brokerVars
<1>12. EpochInv'
  BY <1>1, <1>2, <1>3, <1>4, <1>9, Zenon DEF Epochs, EpochInv
<1>13. CallInv'
  <2>1. Got("ok")' = {}
    BY <1>10, PendingAnswer, Zenon DEF Got, Issues
  <2>2. \A q \in DOMAIN call'.got : Own(q)'
    BY <1>1, <1>6, <1>7, <1>8, Zenon DEF Own, Sends
  <2> QED
    BY <1>1, <1>2, <1>3, <1>4, <1>7, <1>8, <1>9, <2>1, <2>2, Zenon DEF CallInv
<1>14. LateInv'
  <2>1. \A q \in late : q.txn \in Nat
    BY MessageFields DEF Epochs, TypeInv, Txns
  <2> QED
    BY <1>1, <1>3, <1>9, <2>1 DEF Epochs, LateInv
<1> QED
  BY <1>1, <1>2, <1>9, <1>10, <1>11, <1>12, <1>13, <1>14, Zenon DEF Epochs

\* The epoch InitProducerId answered becomes the transaction's.
LEMMA InitDoneEpochs ==
    ASSUME Epochs, InitDone
    PROVE  /\ Epochs' /\ txn \in Txns /\ txn \notin Began /\ Began' = Began \cup {txn}
           /\ \A s \in Began : epochOf'[s] = epochOf[s]
           /\ call # None /\ call.kind = "init" /\ epochOf'[txn] = epoch'
           /\ \E q \in Got("ok") : epoch' = call.got[q].epoch /\ Fresh(epoch')
<1>1. /\ call # None /\ call.kind = "init" /\ Got("ok") = DOMAIN call.got
      /\ epoch' = call.got[TheRequest].epoch /\ open' = TRUE /\ call' = None
      /\ epochOf' = [epochOf EXCEPT ![txn] = epoch']
      /\ UNCHANGED <<cache, txn, seqs, coordinator, count, broken, endFailed, late,
                     placeVars, brokerVars, ended>>
  BY Zenon DEF InitDone, AllOk, Answered, Idle
<1>2. /\ txn \in Txns /\ DOMAIN call.got # {} /\ txn \notin Began /\ cache = None
      /\ \A q \in Got("ok") : Fresh(call.got[q].epoch)
  BY <1>1, Zenon DEF Epochs, CallInv, Idle
<1>3. TheRequest \in Got("ok")
  BY <1>1, <1>2, Zenon DEF TheRequest
<1>4. PICK t, e : t \in Txns /\ t = txn /\ e = epoch' /\ e = call.got[TheRequest].epoch /\ Fresh(e)
  BY <1>1, <1>2, <1>3, Zenon
<1>5. (\A s \in Began : s < t) /\ txn <= t /\ cEpoch' = cEpoch
  BY <1>1, <1>2, <1>4 DEF Epochs, EpochInv, Began, Txns, brokerVars
<1>6. /\ EpochInv' /\ CallInv' /\ LateInv'
      /\ Began' = Began \cup {t} /\ epochOf'[t] = e /\ \A s \in Began : epochOf'[s] = epochOf[s]
  BY <1>1, <1>2, <1>4, <1>5, BegunEpochs, Zenon
<1>7. TypeInv'
  <2>1. epochOf' \in [Txns -> Nat \cup {None}] /\ epoch' \in Nat
    BY <1>1, <1>4, Zenon DEF Epochs, TypeInv, Fresh
  <2> QED
    BY <1>1, <2>1, Zenon DEF Epochs, TypeInv, placeVars, brokerVars
<1> QED
  BY <1>1, <1>2, <1>3, <1>4, <1>6, <1>7, Zenon DEF Epochs

LEMMA DataDoneEpochs ==
    ASSUME Epochs, DataDone PROVE Epochs'
<1>1. /\ UNCHANGED <<cache, txn, open, epoch, coordinator, count, broken, endFailed, late,
                     placeVars, brokerVars, ended, epochOf>>
      /\ call' = None /\ seqs' = SeqsAfter
  BY Zenon DEF DataDone
<1>2. TypeInv'
  BY <1>1, AfterTypes, Zenon DEF Epochs, TypeInv, placeVars, brokerVars
<1>3. Began' = Began /\ cEpoch' = cEpoch
  BY <1>1, Zenon DEF Began, brokerVars
<1> QED
  BY <1>1, <1>2, <1>3, Zenon DEF Epochs, EpochInv, CallInv, LateInv, Fresh, Idle

LEMMA CallFailsEpochs ==
    ASSUME Epochs, CallFails PROVE Epochs'
<1>1. /\ UNCHANGED <<txn, open, epoch, count, late, placeVars, brokerVars, ended, epochOf>>
      /\ call # None /\ call' = None /\ seqs' = SeqsAfter /\ coordinator' = CoordinatorAfter
      /\ cache' = (IF IsEnd THEN None ELSE cache)
  BY Zenon DEF CallFails, Answered, Idle, CacheAfterFail
<1>2. endFailed' = (endFailed \/ IsEnd) /\ broken' \in BOOLEAN /\ endFailed' \in BOOLEAN
  BY Zenon DEF CallFails
<1>3. TypeInv'
  BY <1>1, <1>2, AfterTypes, Zenon DEF Epochs, TypeInv, placeVars, brokerVars
<1>4. Began' = Began /\ cEpoch' = cEpoch
  BY <1>1, Zenon DEF Began, brokerVars
<1>5. \A e : Fresh(e)' = Fresh(e)
  BY <1>1, <1>4, Zenon DEF Fresh
<1>6. EpochInv'
  <2>1. /\ \A t \in Began : t <= txn /\ epochOf[t] <= cEpoch
        /\ \A s, t \in Began : s < t => epochOf[s] < epochOf[t]
        /\ open => txn \in Began /\ epochOf[txn] = epoch
        /\ cache # None => TV2 /\ (open => ~endFailed) /\ (~open => Fresh(cache))
    BY Zenon DEF Epochs, EpochInv
  <2>2. cache' # None => cache' = cache /\ (~endFailed => ~endFailed')
    <3>1. cache' # None => cache' = cache /\ ~IsEnd
      BY <1>1, Zenon
    <3> QED
      BY <3>1, <1>2, Zenon
  <2>3. cache' # None => TV2 /\ (open' => ~endFailed') /\ (~open' => Fresh(cache)')
    BY <1>1, <1>4, <2>1, <2>2, Zenon DEF Fresh
  <2> QED
    BY <1>1, <1>4, <2>1, <2>3, Zenon DEF EpochInv
<1> QED
  BY <1>1, <1>3, <1>4, <1>6, Zenon DEF Epochs, CallInv, LateInv, Idle

\* Under TV2 the epoch EndTxn answered is kept for the next transaction.
LEMMA EndDoneEpochs ==
    ASSUME Epochs, EndDone PROVE Epochs'
<1>1. /\ UNCHANGED <<txn, seqs, coordinator, count, broken, endFailed, late, placeVars, brokerVars, epochOf>>
      /\ call # None /\ IsEnd /\ Got("ok") = DOMAIN call.got /\ call' = None /\ open' = FALSE
      /\ cache' = (IF TV2 THEN call.got[TheRequest].epoch ELSE None)
      /\ epoch' = (IF TV2 THEN call.got[TheRequest].epoch ELSE epoch)
      /\ ended' = [ended EXCEPT ![txn] = IF call.kind = "commit" THEN "committed" ELSE "aborted"]
  BY Zenon DEF EndDone, AllOk, Answered, Idle, CacheAfterEnd
<1>2. DOMAIN call.got # {} /\ (TV2 => \A q \in Got("ok") : Fresh(call.got[q].epoch))
  BY <1>1, Zenon DEF Epochs, CallInv, Idle
<1>3. TheRequest \in Got("ok")
  BY <1>1, <1>2, Zenon DEF TheRequest
<1>4. PICK e : e = call.got[TheRequest].epoch
  BY Zenon
<1>5. TV2 => Fresh(e)
  BY <1>2, <1>3, <1>4, Zenon
<1>6. Began' = Began /\ cEpoch' = cEpoch
  BY <1>1, Zenon DEF Began, brokerVars
<1>7. TypeInv'
  <2>1. ended' \in [Txns -> {"none", "committed", "aborted"}]
    BY <1>1, Zenon DEF Epochs, TypeInv
  <2>2. epoch' \in Nat /\ cache' \in Nat \cup {None}
    BY <1>1, <1>4, <1>5, Zenon DEF Epochs, TypeInv, Fresh
  <2> QED
    BY <1>1, <2>1, <2>2, Zenon DEF Epochs, TypeInv, placeVars, brokerVars
<1>8. EpochInv'
  BY <1>1, <1>4, <1>5, <1>6, Zenon DEF Epochs, EpochInv, Fresh
<1> QED
  BY <1>1, <1>6, <1>7, <1>8, Zenon DEF Epochs, CallInv, LateInv, Idle

LEMMA CrashEpochs ==
    ASSUME Epochs, Crash
    PROVE  Epochs' /\ late' \subseteq Sent
<1>1. /\ UNCHANGED <<txn, epoch, seqs, coordinator, count, broken, endFailed, placeVars, brokerVars, ended, epochOf>>
      /\ call' = None /\ cache' = None /\ open' = FALSE
  BY Zenon DEF Crash, historyVars
<1>2. late' \subseteq Sent
  BY Zenon DEF Crash, OnTheWire, Sent, Got
<1>3. \A q \in late' : /\ q \in Messages /\ q.txn <= txn
                       /\ q.kind # "init" => q.txn \in Began /\ q.epoch = epochOf[q.txn]
  BY <1>2, SentIsGenuine, Zenon
<1>4. Began' = Began /\ cEpoch' = cEpoch
  BY <1>1, Zenon DEF Began, brokerVars
<1>5. TypeInv'
  BY <1>1, <1>3, Zenon DEF Epochs, TypeInv, placeVars, brokerVars
<1>6. EpochInv' /\ CallInv' /\ LateInv'
  BY <1>1, <1>3, <1>4, Zenon DEF Epochs, EpochInv, CallInv, LateInv, Idle
<1> QED
  BY <1>2, <1>5, <1>6, Zenon DEF Epochs

-----------------------------------------------------------------------------
(* Answers and their loss.                                                 *)

LEMMA AnswerHears ==
    ASSUME TypeInv, NEW q \in OnTheWire, NEW code \in Codes, NEW e \in Nat \cup {None},
           Answer(q, code, e)
    PROVE  \E a \in Answers : /\ a.code = code /\ a.epoch = e /\ Hears(q, a)
                              /\ late' \subseteq late /\ call' \in Calls \cup {None}
<1>1. PICK a : a = [code |-> code, epoch |-> e]
  BY Zenon
<1>2. a \in Answers /\ a.code = code /\ a.epoch = e
  BY <1>1, Zenon DEF Answers
<1>3. late' \subseteq late /\ late' \subseteq Sent
  BY Zenon DEF Answer, Sent
<1>4. CASE ~(call # None /\ q \in Got("pending"))
  <2>1. call' = call
    BY <1>4, Zenon DEF Answer, Idle
  <2> QED
    BY <1>2, <1>3, <2>1, Zenon DEF Hears, TypeInv
<1>5. CASE call # None /\ q \in Got("pending")
  <2>1. call' = [call EXCEPT !.got[q] = a]
    BY <1>1, <1>5, Zenon DEF Answer, Idle
  <2>2. call \in Calls /\ q \in DOMAIN call.got
    BY <1>5, Zenon DEF TypeInv, Got
  <2>3. /\ call' \in Calls /\ call'.kind = call.kind /\ call'.n = call.n
        /\ DOMAIN call'.got = DOMAIN call.got
        /\ \A r \in DOMAIN call.got : call'.got[r] = IF r = q THEN a ELSE call.got[r]
    BY <1>2, <2>1, <2>2, AnsweredCall
  <2> QED
    BY <1>2, <1>3, <1>5, <2>3, Zenon DEF Hears
<1> QED
  BY <1>4, <1>5, Zenon

\* What the faults on the wire leave alone.
LEMMA LossHears ==
    ASSUME TypeInv, NEW q, LoseRequest(q) \/ LoseReply
    PROVE  \E r, a : /\ a \in Answers /\ a.code # "ok" /\ Hears(r, a)
                     /\ call' \in Calls \cup {None}
                     /\ UNCHANGED <<clientVars, placeVars, brokerVars, historyVars>>
<1>1. UNCHANGED <<clientVars, placeVars, brokerVars, historyVars>> /\ call # None
  BY Zenon DEF LoseRequest, LoseReply, Idle
<1>2. PICK a : a = [code |-> "lost", epoch |-> None]
  BY Zenon
<1>3. a \in Answers /\ a.code # "ok"
  BY <1>2, Zenon DEF Answers, Codes, RetriableCodes
<1>4. PICK r : /\ r \in DOMAIN call.got /\ call' = [call EXCEPT !.got[r] = a]
               /\ late' \subseteq late \/ ("lateRequest" \in Faults /\ late' \subseteq late \cup {r})
  BY <1>2, Zenon DEF LoseRequest, LoseReply, Got, Disturb
<1>5. call \in Calls
  BY <1>1, Zenon DEF TypeInv
<1>6. /\ call' \in Calls /\ call'.kind = call.kind /\ call'.n = call.n
      /\ DOMAIN call'.got = DOMAIN call.got
      /\ \A x \in DOMAIN call.got : call'.got[x] = IF x = r THEN a ELSE call.got[x]
  BY <1>3, <1>4, <1>5, AnsweredCall
<1>7. late' \subseteq Sent
  BY <1>1, <1>4, Zenon DEF Sent, Idle
<1>8. Hears(r, a)
  BY <1>1, <1>4, <1>6, <1>7, Zenon DEF Hears
<1> QED
  BY <1>1, <1>3, <1>6, <1>8, Zenon

-----------------------------------------------------------------------------
(* What the brokers do with a request, besides the answer.                 *)

Refuses(a) == a.code # "ok" /\ UNCHANGED brokerVars

Inits(q, a) ==
    /\ q.kind = "init" /\ a.epoch = cEpoch'
    /\ AbortAndFence /\ UNCHANGED pState

Adds(q) ==
    /\ q.kind = "add" /\ q.epoch = cEpoch
    /\ cState' = "Ongoing" /\ cParts' = cParts \cup q.places
    /\ UNCHANGED <<cEpoch, pState, outcomeVars>>

\* The epoch of the transaction that was decided last.
LastEpoch == IF TV2 THEN cEpoch - 1 ELSE cEpoch

DoneBy(q) == IF q.commit THEN "CommitDone" ELSE "AbortDone"

EndsNow(q, a) ==
    /\ q.kind = "end" /\ q.epoch = cEpoch /\ (TV2 \/ cState = "Ongoing")
    /\ Decide(q.commit)
    /\ cState' = DoneBy(q) /\ cParts' = {}
    /\ cEpoch' = (IF TV2 THEN cEpoch + 1 ELSE cEpoch) /\ a.epoch = cEpoch'
    /\ UNCHANGED pState

EndsAgain(q, a) ==
    /\ q.kind = "end" /\ cState = DoneBy(q) /\ q.epoch = LastEpoch /\ a.epoch = cEpoch
    /\ UNCHANGED brokerVars

\* The sequence that partition p expects next from epoch e.
Upto(p, e) == IF pState[p].epoch = e THEN pState[p].next ELSE 0

Produces(q, a) ==
    \E p \in Partitions :
       /\ q.kind = "produce" /\ q.places = {p} /\ q.epoch = cEpoch /\ (TV2 \/ cState = "Ongoing")
       /\ cState' = "Ongoing" /\ cParts' = cParts \cup {p}
       /\ \/ /\ q.seq = Upto(p, q.epoch)
             /\ undecided' = undecided \cup Records(q)
             /\ pState' = [pState EXCEPT ![p] = [epoch |-> q.epoch, next |-> q.seq + 1]]
          \/ /\ a.code = "ok" => q.seq < Upto(p, q.epoch)
             /\ UNCHANGED <<undecided, pState>>
       /\ UNCHANGED <<cEpoch, committed, aborted>>

TakesOffsets(q) ==
    /\ q.kind = "offsets" /\ q.epoch = cEpoch /\ cState = "Ongoing" /\ Offsets \in cParts
    /\ undecided' = undecided \cup Records(q)
    /\ UNCHANGED <<cEpoch, cState, cParts, pState, committed, aborted>>

Serving(q, a) ==
    \/ Refuses(a) \/ Inits(q, a) \/ Adds(q) \/ EndsNow(q, a) \/ EndsAgain(q, a)
    \/ Produces(q, a) \/ TakesOffsets(q)

\* A broker's step on a request is one of these.
LEMMA HandleServes ==
    ASSUME Epochs, NEW q \in OnTheWire, Handle(q)
    PROVE  /\ UNCHANGED <<clientVars, placeVars, historyVars>>
           /\ \E a \in Answers : /\ Hears(q, a) /\ Serving(q, a)
                                 /\ late' \subseteq late /\ call' \in Calls \cup {None}
<1> DEFINE Heard(a) == Hears(q, a) /\ late' \subseteq late /\ call' \in Calls \cup {None}
<1>1. UNCHANGED <<clientVars, placeVars, historyVars>>
  BY Zenon DEF Handle
<1>2. TypeInv /\ q \in Messages /\ cEpoch \in Nat
  BY SentIsGenuine, Zenon DEF OnTheWire, Sent, Got, Epochs, TypeInv
<1>3. ASSUME NEW code \in Codes, NEW e \in Nat \cup {None}, Answer(q, code, e)
      PROVE  \E a \in Answers : a.code = code /\ a.epoch = e /\ Heard(a)
  BY <1>2, <1>3, AnswerHears
<1> HIDE DEF Heard
<1>4. /\ {"ok", "fenced", "invalidState", "outOfOrder", "notCoordinator"} \subseteq Codes
      /\ None \in Nat \cup {None} /\ cEpoch \in Nat \cup {None} /\ cEpoch + 1 \in Nat \cup {None}
  BY <1>2 DEF Codes, RetriableCodes
<1>5. CASE Answer(q, "notCoordinator", None) /\ UNCHANGED brokerVars
  <2>1. PICK code, e : code = "notCoordinator" /\ e = None
    BY Zenon
  <2>2. PICK a \in Answers : a.code = code /\ Heard(a)
    BY <1>3, <1>4, <1>5, <2>1, Zenon
  <2> QED
    BY <1>1, <1>5, <2>1, <2>2, Zenon DEF Serving, Refuses, Heard
<1>6. CASE HandleInit(q)
  <2>1. PICK code, e : /\ code = "ok" /\ e = cEpoch' /\ e = cEpoch + 1
    BY <1>6, Zenon DEF HandleInit, AbortAndFence
  <2>2. PICK a \in Answers : a.code = code /\ a.epoch = e /\ Heard(a)
    BY <1>3, <1>4, <1>6, <2>1 DEF HandleInit
  <2>3. Inits(q, a)
    BY <1>6, <2>1, <2>2, Zenon DEF HandleInit, Inits
  <2> QED
    BY <1>1, <2>2, <2>3, Zenon DEF Serving, Heard
<1>7. CASE HandleAdd(q)
  <2>1. PICK code, e : /\ e = None /\ Answer(q, code, e)
                       /\ \/ code = "ok" /\ Adds(q)
                          \/ code = "fenced" /\ UNCHANGED brokerVars
    BY <1>7, Zenon DEF HandleAdd, Participate, Adds, brokerVars
  <2>2. PICK a \in Answers : a.code = code /\ Heard(a)
    BY <1>3, <1>4, <2>1, Zenon
  <2> QED
    BY <1>1, <2>1, <2>2, Zenon DEF Serving, Refuses, Heard
<1>8. CASE HandleEnd(q)
  <2> DEFINE now == q.epoch = cEpoch /\ (cState = "Ongoing" \/ (TV2 /\ ~q.commit))
             again == cState = DoneBy(q) /\ q.epoch = LastEpoch
  <2>1. CASE now
    <3>1. PICK code, e : code = "ok" /\ e = cEpoch' /\ e = (IF TV2 THEN cEpoch + 1 ELSE cEpoch) /\ Answer(q, code, e)
      BY <1>8, <2>1, Zenon DEF HandleEnd
    <3>2. PICK a \in Answers : a.code = code /\ a.epoch = e /\ Heard(a)
      BY <1>3, <1>4, <3>1
    <3>3. EndsNow(q, a)
      BY <1>8, <2>1, <3>1, <3>2, Zenon DEF HandleEnd, EndsNow, DoneBy
    <3> QED
      BY <1>1, <3>2, <3>3, Zenon DEF Serving, Heard
  <2>2. CASE ~now
    <3>1. PICK code, e :
             /\ code = (CASE again -> "ok" [] ~again /\ q.epoch = cEpoch -> "invalidState" [] OTHER -> "fenced")
             /\ e = cEpoch /\ Answer(q, code, e)
      BY <1>8, <2>2, Zenon DEF HandleEnd, DoneBy, LastEpoch
    <3>2. code \in Codes /\ (code = "ok" => again)
      BY <1>4, <3>1, Zenon
    <3>3. PICK a \in Answers : a.code = code /\ a.epoch = e /\ Heard(a)
      BY <1>3, <1>4, <3>1, <3>2
    <3>4. UNCHANGED brokerVars /\ q.kind = "end"
      BY <1>8, <2>2, Zenon DEF HandleEnd, brokerVars
    <3>5. a.code # "ok" \/ EndsAgain(q, a)
      BY <3>1, <3>2, <3>3, <3>4, Zenon DEF EndsAgain
    <3> QED
      BY <1>1, <3>3, <3>4, <3>5, Zenon DEF Serving, Refuses, Heard
  <2> QED
    BY <2>1, <2>2, Zenon
<1>9. CASE HandleOffsets(q)
  <2> DEFINE verified == q.epoch = cEpoch /\ cState = "Ongoing" /\ Offsets \in cParts
  <2>1. PICK code, e :
           /\ code = (CASE verified -> "ok" [] ~verified /\ q.epoch = cEpoch -> "invalidState" [] OTHER -> "fenced")
           /\ e = None /\ Answer(q, code, e)
    BY <1>9, Zenon DEF HandleOffsets
  <2>2. code \in Codes /\ (code = "ok" => verified)
    BY <1>4, <2>1, Zenon
  <2>3. PICK a \in Answers : a.code = code /\ Heard(a)
    BY <1>3, <1>4, <2>1, <2>2, Zenon
  <2>4. CASE verified
    BY <1>1, <1>9, <2>3, <2>4, Zenon DEF HandleOffsets, Serving, TakesOffsets, Heard
  <2>5. CASE ~verified
    BY <1>1, <1>9, <2>2, <2>3, <2>5, Zenon DEF HandleOffsets, Serving, Refuses, Heard, brokerVars, outcomeVars
  <2> QED
    BY <2>4, <2>5, Zenon
<1>10. CASE HandleProduce(q)
  <2>1. PICK p \in Partitions : q.places = {p}
    BY <1>2, <1>10, MessageFields, Zenon DEF HandleProduce
  <2>2. (CHOOSE pl \in q.places : TRUE) = p
    BY <2>1, Zenon
  <2> DEFINE next == Upto(p, q.epoch)
             current == q.epoch = cEpoch
             verified == current /\ (TV2 \/ (cState = "Ongoing" /\ p \in cParts))
             append == verified /\ q.seq = next
  <2>3. /\ q.kind = "produce"
        /\ undecided' = IF append THEN undecided \cup Records(q) ELSE undecided
        /\ pState' = IF append THEN [pState EXCEPT ![p] = [epoch |-> q.epoch, next |-> next + 1]] ELSE pState
        /\ IF verified THEN Participate(q.places) ELSE UNCHANGED <<cState, cParts>>
        /\ UNCHANGED <<cEpoch, committed, aborted>>
    BY <1>10, <2>2, Zenon DEF HandleProduce, Upto
  <2>4. PICK code, e :
           /\ code = (CASE ~current -> "fenced" [] current /\ ~verified -> "invalidState"
                        [] verified /\ q.seq > next -> "outOfOrder" [] OTHER -> "ok")
           /\ e = None /\ Answer(q, code, e)
    BY <1>10, <2>2, Zenon DEF HandleProduce, Upto
  <2>5. next \in Nat /\ q.seq \in Nat
    BY <1>2, MessageFields, Zenon DEF Upto, TypeInv
  <2> HIDE DEF next
  <2>6. code \in Codes /\ (code = "ok" => verified /\ q.seq <= next)
    BY <1>4, <2>4, <2>5
  <2>7. PICK a \in Answers : a.code = code /\ Heard(a)
    BY <1>3, <1>4, <2>4, <2>6, Zenon
  <2>8. CASE ~verified
    BY <1>1, <2>3, <2>6, <2>7, <2>8, Zenon DEF Serving, Refuses, Heard, brokerVars, outcomeVars
  <2>9. CASE verified
    <3>1. /\ q.epoch = cEpoch /\ (TV2 \/ cState = "Ongoing")
          /\ cState' = "Ongoing" /\ cParts' = cParts \cup {p}
      BY <2>1, <2>3, <2>9, Zenon DEF Participate
    <3>2. \/ /\ q.seq = next
             /\ undecided' = undecided \cup Records(q)
             /\ pState' = [pState EXCEPT ![p] = [epoch |-> q.epoch, next |-> q.seq + 1]]
          \/ /\ a.code = "ok" => q.seq < next
             /\ UNCHANGED <<undecided, pState>>
      <4>1. CASE q.seq = next
        BY <2>3, <2>9, <4>1, Zenon
      <4>2. CASE q.seq # next
        <5>1. a.code = "ok" => q.seq < next
          BY <2>5, <2>6, <2>7, <4>2
        <5> QED
          BY <2>3, <4>2, <5>1, Zenon
      <4> QED
        BY <4>1, <4>2, Zenon
    <3>3. Produces(q, a)
      BY <2>1, <2>3, <3>1, <3>2, Zenon DEF Produces, next
    <3> QED
      BY <1>1, <2>7, <3>3, Zenon DEF Serving, Heard
  <2> QED
    BY <2>8, <2>9, Zenon
<1> QED
  BY <1>5, <1>6, <1>7, <1>8, <1>9, <1>10, Zenon DEF Handle

LEMMA ServingEpochs ==
    ASSUME Epochs, NEW q \in OnTheWire, Handle(q) PROVE Epochs'
<1>1. PICK a \in Answers : Hears(q, a) /\ Serving(q, a) /\ late' \subseteq late /\ call' \in Calls \cup {None}
  BY HandleServes, Zenon
<1>2. UNCHANGED <<clientVars, placeVars, historyVars>>
  BY HandleServes, Zenon
<1>3. /\ q \in Messages /\ q.epoch \in Nat /\ q.seq \in Nat
      /\ q.kind # "init" => q.epoch <= cEpoch
  <2>1. q \in Sent
    BY Zenon DEF OnTheWire, Sent, Got
  <2> QED
    BY <2>1, SentIsGenuine, MessageFields, Zenon DEF Epochs, EpochInv
<1>4. cEpoch \in Nat /\ pState \in [Partitions -> [epoch : Nat, next : Nat]]
  BY Zenon DEF Epochs, TypeInv
<1>5. pState' \in [Partitions -> [epoch : Nat, next : Nat]]
  <2>1. CASE Produces(q, a)
    <3>1. PICK p \in Partitions :
             \/ pState' = [pState EXCEPT ![p] = [epoch |-> q.epoch, next |-> q.seq + 1]]
             \/ pState' = pState
      BY <2>1, Zenon DEF Produces
    <3>2. q.seq + 1 \in Nat
      BY <1>3
    <3>3. [epoch |-> q.epoch, next |-> q.seq + 1] \in [epoch : Nat, next : Nat]
      BY <1>3, <3>2, Zenon
    <3> QED
      BY <1>4, <3>1, <3>3, Zenon
  <2>2. CASE ~Produces(q, a)
    BY <1>1, <1>4, <2>2, Zenon DEF Serving, Refuses, Inits, Adds, EndsNow, EndsAgain, TakesOffsets, brokerVars
  <2> QED
    BY <2>1, <2>2, Zenon
<1>6. /\ cEpoch' \in Nat /\ cEpoch <= cEpoch'
      /\ a.code = "ok" /\ q.kind = "init" => a.epoch = cEpoch' /\ cEpoch < cEpoch'
      /\ a.code = "ok" /\ q.kind = "end" /\ TV2 => a.epoch = cEpoch' /\ q.epoch < cEpoch'
  <2>1. CASE Refuses(a) \/ Adds(q) \/ TakesOffsets(q)
    <3>1. cEpoch' = cEpoch /\ (a.code # "ok" \/ q.kind \in {"add", "offsets"})
      BY <2>1, Zenon DEF Refuses, Adds, TakesOffsets, brokerVars
    <3> QED
      BY <1>4, <3>1
  <2>2. CASE Inits(q, a)
    BY <1>4, <2>2 DEF Inits, AbortAndFence
  <2>3. CASE EndsNow(q, a)
    BY <1>3, <1>4, <2>3 DEF EndsNow
  <2>4. CASE EndsAgain(q, a)
    BY <1>3, <1>4, <2>4 DEF EndsAgain, LastEpoch, brokerVars
  <2>5. CASE Produces(q, a)
    <3>1. cEpoch' = cEpoch /\ q.kind = "produce"
      BY <2>5, Zenon DEF Produces
    <3> QED
      BY <1>4, <3>1
  <2> QED
    BY <1>1, <2>1, <2>2, <2>3, <2>4, <2>5, Zenon DEF Serving
<1>7. EpochInv' /\ CallInv' /\ LateInv'
  <2>1. UNCHANGED <<cache, txn, open, epoch, endFailed, epochOf>>
    BY <1>2, Zenon DEF clientVars, handleVars, historyVars
  <2> QED
    BY <1>1, <1>6, <2>1, HearEpochs, Zenon
<1>8. TypeInv'
  BY <1>1, <1>2, <1>5, <1>6, Zenon DEF Epochs, TypeInv, clientVars, handleVars, placeVars, historyVars
<1> QED
  BY <1>7, <1>8, Zenon DEF Epochs

\* The faults that touch neither the client nor its transactions.
FaultEffect(q, a) ==
    /\ UNCHANGED <<clientVars, groupCoordinator, pState, historyVars>>
    /\ a \in Answers /\ a.code # "ok" /\ Hears(q, a)
    /\ call' \in Calls \cup {None} /\ txnCoordinator' \in Brokers
    /\ UNCHANGED brokerVars \/ (AbortAndFence /\ late' = late)

LEMMA FaultEffects ==
    ASSUME TypeInv,
           (\E q \in OnTheWire : RefuseBusy(q) \/ LoseRequest(q)) \/ LoseReply \/ CoordinatorMoves \/ Fence
    PROVE  \E q, a : FaultEffect(q, a)
<1>1. txnCoordinator \in Brokers /\ call \in Calls \cup {None}
  BY Zenon DEF TypeInv
<1>2. CASE (\E q \in OnTheWire : LoseRequest(q)) \/ LoseReply
  <2>1. PICK r, a : /\ a \in Answers /\ a.code # "ok" /\ Hears(r, a) /\ call' \in Calls \cup {None}
                    /\ UNCHANGED <<clientVars, placeVars, brokerVars, historyVars>>
    BY <1>2, LossHears, Zenon
  <2> QED
    BY <1>1, <2>1, Zenon DEF FaultEffect, placeVars, brokerVars
<1>3. ASSUME NEW q \in OnTheWire, RefuseBusy(q)
      PROVE  \E a : FaultEffect(q, a)
  <2>1. PICK code, e : code = "busy" /\ code \in Codes /\ e = None /\ Answer(q, code, e)
    BY <1>3, Zenon DEF RefuseBusy, Codes, RetriableCodes
  <2>2. PICK a \in Answers : a.code = code /\ Hears(q, a) /\ call' \in Calls \cup {None}
    BY <2>1, AnswerHears, Zenon
  <2> QED
    BY <1>1, <1>3, <2>1, <2>2, Zenon DEF FaultEffect, RefuseBusy, placeVars, brokerVars
<1>4. CASE CoordinatorMoves \/ Fence
  <2>1. /\ UNCHANGED <<clientVars, groupCoordinator, pState, historyVars, call, late>>
        /\ txnCoordinator' \in Brokers /\ (UNCHANGED brokerVars \/ AbortAndFence)
    BY <1>1, <1>4, Zenon DEF CoordinatorMoves, Fence, placeVars, brokerVars
  <2>2. Hears(0, Pending)
    BY <1>1, <2>1, Zenon DEF Hears, Sent, Idle
  <2> QED
    BY <1>1, <2>1, <2>2, PendingAnswer, Zenon DEF FaultEffect
<1> QED
  BY <1>2, <1>3, <1>4, Zenon

LEMMA FaultEpochs ==
    ASSUME Epochs, NEW q, NEW a, FaultEffect(q, a) PROVE Epochs'
<1>1. cEpoch \in Nat /\ late \subseteq Messages /\ cEpoch' \in Nat /\ cEpoch <= cEpoch'
  <2>1. cEpoch' = cEpoch \/ cEpoch' = cEpoch + 1
    BY Zenon DEF FaultEffect, AbortAndFence, brokerVars
  <2> QED
    BY <2>1 DEF Epochs, TypeInv
<1>2. late' \subseteq Messages
  BY SentIsGenuine, Zenon DEF FaultEffect, Hears
<1>3. EpochInv' /\ CallInv' /\ LateInv'
  <2>1. UNCHANGED <<cache, txn, open, epoch, endFailed, epochOf>> /\ a \in Answers /\ a.code # "ok" /\ Hears(q, a)
    BY Zenon DEF FaultEffect, clientVars, handleVars, historyVars
  <2> QED
    BY <1>1, <2>1, HearEpochs, Zenon
<1>4. TypeInv'
  BY <1>1, <1>2, Zenon DEF Epochs, TypeInv, FaultEffect, clientVars, handleVars, historyVars
<1> QED
  BY <1>3, <1>4, Zenon DEF Epochs

-----------------------------------------------------------------------------
(* Every step keeps the epochs.                                            *)

LEMMA InitEpochs ==
    ASSUME Init PROVE Epochs
<1>1. Began = {}
  BY Zenon DEF Init, Began
<1>2. TypeInv
  <2>1. /\ seqs \in [Partitions -> Nat] /\ pState \in [Partitions -> [epoch : Nat, next : Nat]]
        /\ txn \in 0 .. MaxTxns
    BY ConstantsAssumption DEF Init
  <2>2. ended \in [Txns -> {"none", "committed", "aborted"}] /\ epochOf \in [Txns -> Nat \cup {None}]
    BY Zenon DEF Init
  <2> QED
    BY <2>1, <2>2, Zenon DEF Init, TypeInv
<1> QED
  BY <1>1, <1>2, Zenon DEF Init, Epochs, EpochInv, CallInv, LateInv, Idle

LEMMA UnresolvedEpochs ==
    ASSUME Epochs, NEW before, ProduceUnresolved(before)
    PROVE  /\ Epochs' /\ Idle /\ broken' = TRUE /\ ~TV2
           /\ UNCHANGED <<cache, txn, open, epoch, seqs, endFailed, call, late, brokerVars, historyVars>>
<1>1. /\ Idle /\ broken' = TRUE /\ ~TV2 /\ count' = count + 1
      /\ UNCHANGED <<cache, txn, open, epoch, seqs, coordinator, endFailed, call, late, placeVars,
                     brokerVars, historyVars>>
  BY Zenon DEF ProduceUnresolved, MayWork, Usable
<1>2. TypeInv'
  BY <1>1 DEF Epochs, TypeInv, placeVars, brokerVars, historyVars
<1>3. Began' = Began /\ cEpoch' = cEpoch /\ epochOf' = epochOf
  BY <1>1, Zenon DEF Began, brokerVars, historyVars
<1>4. EpochInv' /\ CallInv' /\ LateInv'
  BY <1>1, <1>3, Zenon DEF Epochs, EpochInv, CallInv, LateInv, Fresh, Idle
<1> QED
  BY <1>1, <1>2, <1>4, Zenon DEF Epochs

LEMMA StutterEpochs ==
    ASSUME Epochs, UNCHANGED vars PROVE Epochs'
BY DEF Epochs, TypeInv, EpochInv, CallInv, LateInv, Began, Fresh, Own, Idle, Got, IsEnd,
       vars, clientVars, handleVars, placeVars, brokerVars, historyVars

LEMMA NextEpochs ==
    ASSUME Epochs, TV2 => ~Abandon, Next PROVE Epochs'
<1>1. CASE Application
  BY <1>1, BeginReuses, BeginAsks, WorkingEpochs, UnresolvedEpochs, Zenon DEF Application, Working
<1>2. CASE Client
  BY <1>2, InitDoneEpochs, WorkingEpochs, DataDoneEpochs, EndDoneEpochs, RetryEpochs, CallFailsEpochs,
     Zenon DEF Client, Working
<1>3. CASE Brokering
  BY <1>3, ServingEpochs, Zenon DEF Brokering
<1>4. CASE \/ \E q \in OnTheWire : RefuseBusy(q) \/ LoseRequest(q)
           \/ LoseReply \/ CoordinatorMoves \/ Fence
  BY <1>4, FaultEffects, FaultEpochs, Zenon DEF Epochs
<1>5. CASE Crash
  BY <1>5, CrashEpochs, Zenon
<1> QED
  BY <1>1, <1>2, <1>3, <1>4, <1>5, Zenon DEF Next

(* No two transactions work under the same epoch, whatever fails and      *)
(* whoever else initialises the transactional id, as long as the           *)
(* application ends a transaction before it begins the next one where     *)
(* BeginTransaction reuses the cached epoch (txnPID and txnPIDValid).      *)
THEOREM EpochsAreHandedOutOnce ==
    ASSUME TV2 => ~Abandon
    PROVE  Spec => []OwnEpoch
<1>1. Init => Epochs
  BY InitEpochs, Zenon
<1>2. Epochs /\ [Next]_vars => Epochs'
  BY NextEpochs, StutterEpochs, Zenon
<1>3. Epochs => OwnEpoch
  <2> SUFFICES ASSUME Epochs, NEW s \in DOMAIN epochOf, NEW t \in DOMAIN epochOf,
                      s # t, epochOf[s] # None
               PROVE  epochOf[s] # epochOf[t]
    BY Zenon DEF OwnEpoch
  <2>1. /\ s \in Txns /\ t \in Txns /\ epochOf[t] \in Nat \cup {None}
        /\ \A x, y \in Began : x < y => epochOf[x] < epochOf[y]
        /\ \A x \in Began : epochOf[x] \in Nat
    BY Zenon DEF Epochs, TypeInv, EpochInv, Began
  <2> QED
    BY <2>1 DEF Began, Txns
<1> QED
  BY <1>1, <1>2, <1>3, PTL DEF Spec

-----------------------------------------------------------------------------
(* Outcomes.                                                               *)

Done == cState \in {"CommitDone", "AbortDone"}

\* The coordinator has decided the transaction.
Over(t) == t \in Began /\ (epochOf[t] < cEpoch \/ (~TV2 /\ epochOf[t] = cEpoch /\ Done))

NoneOf(S, t) == \A x \in S : x[1] # t

DecisionInv ==
    /\ \A x \in undecided : /\ x[1] \in Began /\ epochOf[x[1]] = cEpoch
                            /\ x[3] \in cParts /\ cState = "Ongoing"
    /\ \A x \in committed \cup aborted : Over(x[1])
    /\ AllOrNothing
    /\ cState = "AbortDone" => \A x \in committed : epochOf[x[1]] # LastEpoch
    /\ cState = "CommitDone" => \A x \in aborted : epochOf[x[1]] # LastEpoch
    /\ \A t \in Txns : ended[t] = "aborted" => Over(t) /\ NoneOf(committed, t)
    /\ \A t \in Txns : ended[t] = "committed" => Over(t) /\ NoneOf(aborted, t)

\* What EndTxn answered is what became of the transaction.
EndInv ==
    ~Idle /\ IsEnd /\ Got("ok") # {} =>
        Over(txn) /\ NoneOf(IF call.kind = "commit" THEN aborted ELSE committed, txn)

\* Before TV2 nothing of a decided transaction is still to come.
SealedInv ==
    /\ \A q \in late : q.txn < txn \/ (Idle /\ ~open)
    /\ \A q, r \in late : q.txn = r.txn => q.kind = r.kind
    /\ ~Idle /\ ~IsEnd => ~endFailed
    /\ ~Idle /\ call.kind = "init" => \A q \in Got("ok") : call.got[q].epoch = cEpoch => cState = "Empty"
    /\ Done => \A q \in late : q.kind = "add" => q.epoch # cEpoch
    /\ Done /\ open /\ epoch = cEpoch => IF Idle THEN endFailed ELSE IsEnd

\* What the proofs ask of the application and the network before TV2 (and of
\* None, that it is no call).
Careful == TV2 \/ (AbortOnError /\ "lateRequest" \notin Faults /\ None \notin Calls)

Outcomes == Epochs /\ DecisionInv /\ EndInv /\ (~TV2 => SealedInv)

LEMMA EpochsDiffer ==
    ASSUME Epochs PROVE \A s, t \in Began : epochOf[s] = epochOf[t] => s = t
<1>1. \A t \in Began : t \in Nat /\ epochOf[t] \in Nat
  BY DEF Epochs, TypeInv, Began, Txns
<1>2. \A s, t \in Began : s < t => epochOf[s] < epochOf[t]
  BY Zenon DEF Epochs, EpochInv
<1> QED
  BY <1>1, <1>2

-----------------------------------------------------------------------------
(* A transaction is decided once.                                          *)

\* A step that decides nothing.
LEMMA DecisionsKept ==
    ASSUME Epochs, DecisionInv, Began \subseteq Began', \A s \in Began : epochOf'[s] = epochOf[s],
           UNCHANGED <<ended, cEpoch, committed, aborted>>, cParts \subseteq cParts',
           \/ UNCHANGED <<cState, undecided>>
           \/ /\ cState' = "Ongoing" /\ (Done => TV2)
              /\ \A x \in undecided' : x \in undecided \/ (x[1] \in Began /\ epochOf[x[1]] = cEpoch /\ x[3] \in cParts')
    PROVE  DecisionInv' /\ \A t : Over(t) => Over(t)'
<1>1. \A t : Over(t) => Over(t)'
  BY Zenon DEF Over, Done
<1>2. /\ \A x \in undecided : /\ x[1] \in Began /\ epochOf[x[1]] = cEpoch /\ x[3] \in cParts /\ cState = "Ongoing"
      /\ \A x \in committed \cup aborted : Over(x[1])
      /\ AllOrNothing
      /\ cState = "AbortDone" => \A x \in committed : epochOf[x[1]] # LastEpoch
      /\ cState = "CommitDone" => \A x \in aborted : epochOf[x[1]] # LastEpoch
      /\ \A t \in Txns : ended[t] = "aborted" => Over(t) /\ NoneOf(committed, t)
      /\ \A t \in Txns : ended[t] = "committed" => Over(t) /\ NoneOf(aborted, t)
  BY Zenon DEF DecisionInv
<1>3. \A x \in undecided' : x[1] \in Began' /\ epochOf'[x[1]] = cEpoch' /\ x[3] \in cParts' /\ cState' = "Ongoing"
  BY <1>2, Zenon
<1>4. AllOrNothing' /\ LastEpoch' = LastEpoch
  BY <1>2, Zenon DEF AllOrNothing, LastEpoch
<1>5. /\ cState' = "AbortDone" => \A x \in committed' : epochOf'[x[1]] # LastEpoch'
      /\ cState' = "CommitDone" => \A x \in aborted' : epochOf'[x[1]] # LastEpoch'
  BY <1>2, <1>4, Zenon DEF Over
<1>6. /\ \A t \in Txns : ended'[t] = "aborted" => Over(t)' /\ NoneOf(committed, t)'
      /\ \A t \in Txns : ended'[t] = "committed" => Over(t)' /\ NoneOf(aborted, t)'
  BY <1>1, <1>2, Zenon DEF NoneOf
<1>7. \A x \in committed' \cup aborted' : Over(x[1])'
  BY <1>1, <1>2, Zenon
<1> QED
  BY <1>1, <1>3, <1>4, <1>5, <1>6, <1>7, Zenon DEF DecisionInv

\* A step that decides the transaction under way.
LEMMA Decided ==
    ASSUME Epochs, DecisionInv, NEW commit \in BOOLEAN, Decide(commit), UNCHANGED <<ended, epochOf>>,
           \A t \in Began : Over(t)',
           \/ cState' = "Empty"
           \/ /\ cState' = (IF commit THEN "CommitDone" ELSE "AbortDone") /\ LastEpoch' = cEpoch
              /\ TV2 \/ cState = "Ongoing"
    PROVE  /\ DecisionInv' /\ \A t : Over(t) => Over(t)'
           /\ \A t : Over(t) => (NoneOf(committed, t) => NoneOf(committed, t)')
                                /\ (NoneOf(aborted, t) => NoneOf(aborted, t)')
           /\ cState' # "Empty" =>
                 \A t \in Began : epochOf[t] = cEpoch => NoneOf(IF commit THEN aborted ELSE committed, t)'
<1>1. /\ \A x \in undecided : /\ x[1] \in Began /\ epochOf[x[1]] = cEpoch /\ x[3] \in cParts /\ cState = "Ongoing"
      /\ \A x \in committed \cup aborted : Over(x[1])
      /\ AllOrNothing
      /\ \A t \in Txns : ended[t] = "aborted" => Over(t) /\ NoneOf(committed, t)
      /\ \A t \in Txns : ended[t] = "committed" => Over(t) /\ NoneOf(aborted, t)
  BY Zenon DEF DecisionInv
<1>2. /\ undecided' = {}
      /\ committed' = IF commit THEN committed \cup undecided ELSE committed
      /\ aborted' = IF commit THEN aborted ELSE aborted \cup undecided
  BY <1>1, Zenon DEF Decide
<1>3. Began' = Began /\ cEpoch \in Nat /\ \A t \in Began : epochOf[t] \in Nat
  BY Zenon DEF Began, Epochs, TypeInv
<1>4. \A x \in undecided : \A t : Over(t) => x[1] # t
  BY <1>1, <1>3 DEF Over, Done
<1>5. TV2 \/ cState = "Ongoing" => \A t : Over(t) => epochOf[t] # cEpoch
  BY <1>3 DEF Over, Done
<1>6. \A t : Over(t) => t \in Began /\ Over(t)'
  BY Zenon DEF Over
<1>7. \A t : Over(t) => (NoneOf(committed, t) => NoneOf(committed, t)')
                        /\ (NoneOf(aborted, t) => NoneOf(aborted, t)')
  BY <1>2, <1>4, Zenon DEF NoneOf
<1>8. AllOrNothing'
  BY <1>1, <1>2, <1>4, Zenon DEF AllOrNothing
<1>9. /\ cState' = "AbortDone" => \A x \in committed' : epochOf'[x[1]] # LastEpoch'
      /\ cState' = "CommitDone" => \A x \in aborted' : epochOf'[x[1]] # LastEpoch'
  BY <1>1, <1>2, <1>5, Zenon
<1>10. \A x \in committed' \cup aborted' : Over(x[1])'
  BY <1>1, <1>2, <1>6, Zenon
<1>11. DecisionInv'
  BY <1>1, <1>2, <1>6, <1>7, <1>8, <1>9, <1>10, Zenon DEF DecisionInv
<1>12. cState' # "Empty" =>
          \A t \in Began : epochOf[t] = cEpoch => NoneOf(IF commit THEN aborted ELSE committed, t)'
  BY <1>1, <1>2, <1>5, Zenon DEF NoneOf
<1> QED
  BY <1>6, <1>7, <1>11, <1>12, Zenon

LEMMA NoAnswerYet ==
    ASSUME call' = None \/ Issues PROVE EndInv'
BY PendingAnswer, Zenon DEF EndInv, Issues, Idle, Got

\* An answer says what became of the transaction.
LEMMA AnswersTellTheEnd ==
    ASSUME Epochs, EndInv, NEW q, NEW a, Hears(q, a), UNCHANGED txn, \A t : Over(t) => Over(t)',
           \A t : Over(t) => (NoneOf(committed, t) => NoneOf(committed, t)')
                             /\ (NoneOf(aborted, t) => NoneOf(aborted, t)'),
           a.code = "ok" /\ q.kind = "end" /\ q.txn = txn =>
              Over(txn)' /\ NoneOf(IF q.commit THEN aborted ELSE committed, txn)'
    PROVE  EndInv'
<1> SUFFICES ASSUME call' # None, call'.kind \in {"commit", "abort"}, NEW r \in Got("ok")'
             PROVE  Over(txn)' /\ NoneOf(IF call.kind = "commit" THEN aborted ELSE committed, txn)'
  BY Zenon DEF EndInv, Idle, IsEnd
<1>1. call # None /\ call'.kind = call.kind /\ r \in DOMAIN call.got /\ call'.got[r].code = "ok"
  BY Zenon DEF Hears, Got
<1>2. CASE call'.got[r] = call.got[r]
  <2>1. Over(txn) /\ NoneOf(IF call.kind = "commit" THEN aborted ELSE committed, txn)
    BY <1>1, <1>2, Zenon DEF EndInv, Idle, IsEnd, Got
  <2> QED
    BY <1>1, <2>1, Zenon
<1>3. CASE r = q /\ call'.got[r] = a
  <2>1. Own(q)
    BY <1>1, <1>3, Zenon DEF Epochs, CallInv, Idle
  <2> QED
    BY <1>1, <1>3, <2>1, Zenon DEF Own, Sends
<1> QED
  BY <1>1, <1>2, <1>3, Zenon DEF Hears

\* The coordinator's answers and the records it decides.
LEMMA ServingOutcomes ==
    ASSUME Outcomes, NEW q \in OnTheWire, NEW a, Hears(q, a), Serving(q, a),
           UNCHANGED <<clientVars, historyVars>>
    PROVE  DecisionInv' /\ EndInv'
<1>1. UNCHANGED <<txn, ended, epochOf>> /\ Began' = Began /\ Epochs /\ DecisionInv /\ EndInv
  BY Zenon DEF clientVars, handleVars, historyVars, Began, Outcomes
<1>2. /\ q \in Sent /\ q \in Messages /\ q.commit \in BOOLEAN
      /\ q.kind # "init" => q.txn \in Began /\ q.epoch = epochOf[q.txn]
  BY <1>1, SentIsGenuine, MessageFields, Zenon DEF OnTheWire, Sent, Got
<1>3. cEpoch \in Nat /\ \A t \in Began : epochOf[t] \in Nat /\ epochOf[t] <= cEpoch
  BY <1>1, Zenon DEF Began, Epochs, TypeInv, EpochInv
<1>4. \A x \in Records(q) : x[1] = q.txn /\ x[3] \in q.places
  BY DEF Records
<1>5. CASE UNCHANGED brokerVars
  <2>1. DecisionInv' /\ (\A t : Over(t) => Over(t)') /\ UNCHANGED <<committed, aborted>>
    BY <1>1, <1>5, DecisionsKept, Zenon DEF brokerVars, outcomeVars
  <2>2. \A t : (NoneOf(committed, t) => NoneOf(committed, t)') /\ (NoneOf(aborted, t) => NoneOf(aborted, t)')
    BY <2>1, Zenon DEF NoneOf
  <2>3. a.code = "ok" /\ q.kind = "end" => EndsAgain(q, a) \/ EndsNow(q, a)
    BY Zenon DEF Serving, Refuses, Inits, Adds, Produces, TakesOffsets
  <2>4. ~EndsNow(q, a)
    BY <1>3, <1>5 DEF EndsNow, DoneBy, brokerVars
  <2>5. ASSUME EndsAgain(q, a)
        PROVE  Over(q.txn)' /\ NoneOf(IF q.commit THEN aborted ELSE committed, q.txn)'
    <3>1. q.txn \in Began /\ epochOf[q.txn] = LastEpoch /\ cState = DoneBy(q)
      BY <1>2, <2>5, Zenon DEF EndsAgain
    <3>2. Over(q.txn)
      BY <1>3, <3>1 DEF Over, LastEpoch, DoneBy, Done
    <3>3. NoneOf(IF q.commit THEN aborted ELSE committed, q.txn)
      BY <1>1, <1>2, <3>1, Zenon DEF DecisionInv, NoneOf, DoneBy
    <3> QED
      BY <2>1, <3>2, <3>3, Zenon
  <2> QED
    BY <1>1, <2>1, <2>2, <2>3, <2>4, <2>5, AnswersTellTheEnd, Zenon
<1>6. CASE Inits(q, a) \/ EndsNow(q, a)
  <2>1. PICK commit \in BOOLEAN :
          /\ Decide(commit) /\ (q.kind = "end" => commit = q.commit)
          /\ \/ q.kind = "init" /\ cState' = "Empty" /\ cEpoch' = cEpoch + 1
             \/ /\ cState' = (IF commit THEN "CommitDone" ELSE "AbortDone")
                /\ cEpoch' = (IF TV2 THEN cEpoch + 1 ELSE cEpoch)
                /\ q.epoch = cEpoch /\ (TV2 \/ cState = "Ongoing")
    <3>1. CASE Inits(q, a)
      BY <3>1, Zenon DEF Inits, AbortAndFence
    <3>2. CASE EndsNow(q, a)
      BY <1>2, <3>2, Zenon DEF EndsNow, DoneBy
    <3> QED
      BY <1>6, <3>1, <3>2, Zenon
  <2>2. \A t \in Began : Over(t)'
    BY <1>1, <1>3, <2>1 DEF Over, Done
  <2>3. cState' = "Empty" \/ LastEpoch' = cEpoch
    BY <1>3, <2>1 DEF LastEpoch
  <2>4. /\ DecisionInv' /\ \A t : Over(t) => Over(t)'
        /\ \A t : Over(t) => (NoneOf(committed, t) => NoneOf(committed, t)')
                             /\ (NoneOf(aborted, t) => NoneOf(aborted, t)')
        /\ cState' # "Empty" =>
              \A t \in Began : epochOf[t] = cEpoch => NoneOf(IF commit THEN aborted ELSE committed, t)'
    BY <1>1, <2>1, <2>2, <2>3, Decided, Zenon
  <2>5. q.kind = "end" => Over(q.txn)' /\ NoneOf(IF q.commit THEN aborted ELSE committed, q.txn)'
    BY <1>2, <2>1, <2>2, <2>4, Zenon
  <2> QED
    BY <1>1, <2>4, <2>5, AnswersTellTheEnd, Zenon
<1>7. CASE Adds(q) \/ Produces(q, a) \/ TakesOffsets(q)
  <2>1. UNCHANGED <<cEpoch, committed, aborted>> /\ cParts \subseteq cParts' /\ q.kind # "end"
    BY <1>7, Zenon DEF Adds, Produces, TakesOffsets, outcomeVars
  <2>2. cState' = "Ongoing" /\ q.epoch = cEpoch /\ q.kind # "init"
    BY <1>7, Zenon DEF Adds, Produces, TakesOffsets
  <2>3. \A x \in undecided' : x \in undecided \/ (x \in Records(q) /\ x[3] \in cParts')
    <3>1. CASE Adds(q)
      BY <3>1, Zenon DEF Adds, outcomeVars
    <3>2. CASE Produces(q, a)
      BY <1>4, <3>2, Zenon DEF Produces
    <3>3. CASE TakesOffsets(q)
      <4>1. q.places = {Offsets} /\ Offsets \in cParts' /\ undecided' = undecided \cup Records(q)
        BY <1>2, <3>3, MessageFields, Zenon DEF TakesOffsets
      <4> QED
        BY <1>4, <4>1, Zenon
    <3> QED
      BY <1>7, <3>1, <3>2, <3>3, Zenon
  <2>4. Done => TV2
    <3>1. CASE ~Adds(q)
      BY <1>7, <3>1, Zenon DEF Produces, TakesOffsets, Done
    <3>2. CASE Adds(q)
      <4>1. q \in late => (Done /\ ~TV2 => q.epoch # cEpoch)
        BY <3>2, Zenon DEF Outcomes, SealedInv, Adds
      <4>2. q \notin late => /\ call # None /\ Own(q) /\ open = (call.kind # "init")
        BY <1>1, <1>2, Zenon DEF Sent, Epochs, CallInv, Idle
      <4>3. q \notin late => call.kind = "add" /\ open /\ q.epoch = epoch
        BY <3>2, <4>2, Zenon DEF Own, Sends, Adds
      <4>4. q \notin late /\ Done /\ ~TV2 => epoch # cEpoch
        BY <4>2, <4>3, Zenon DEF Outcomes, SealedInv, IsEnd, Idle
      <4> QED
        BY <2>2, <4>1, <4>3, <4>4, Zenon
    <3> QED
      BY <3>1, <3>2, Zenon
  <2>5. DecisionInv' /\ \A t : Over(t) => Over(t)'
    BY <1>1, <1>2, <1>4, <2>1, <2>2, <2>3, <2>4, DecisionsKept, Zenon
  <2>6. \A t : (NoneOf(committed, t) => NoneOf(committed, t)') /\ (NoneOf(aborted, t) => NoneOf(aborted, t)')
    BY <2>1, Zenon DEF NoneOf
  <2> QED
    BY <1>1, <2>1, <2>5, <2>6, AnswersTellTheEnd, Zenon
<1> QED
  BY <1>5, <1>6, <1>7, Zenon DEF Serving, Refuses, EndsAgain

LEMMA FaultOutcomes ==
    ASSUME Outcomes, NEW q, NEW a, FaultEffect(q, a)
    PROVE  DecisionInv' /\ EndInv'
<1>1. /\ UNCHANGED <<txn, ended, epochOf>> /\ Began' = Began /\ Epochs /\ DecisionInv /\ EndInv
      /\ Hears(q, a) /\ a.code # "ok"
  BY Zenon DEF FaultEffect, clientVars, handleVars, historyVars, Began, Outcomes
<1>2. /\ DecisionInv' /\ \A t : Over(t) => Over(t)'
      /\ \A t : Over(t) => (NoneOf(committed, t) => NoneOf(committed, t)')
                           /\ (NoneOf(aborted, t) => NoneOf(aborted, t)')
  <2>1. CASE UNCHANGED brokerVars
    <3>1. DecisionInv' /\ (\A t : Over(t) => Over(t)') /\ UNCHANGED <<committed, aborted>>
      BY <1>1, <2>1, DecisionsKept, Zenon DEF brokerVars, outcomeVars
    <3> QED
      BY <3>1, Zenon DEF NoneOf
  <2>2. CASE AbortAndFence
    <3>1. \A t \in Began : Over(t)'
      BY <1>1, <2>2 DEF Over, AbortAndFence, Began, Epochs, TypeInv, EpochInv
    <3>2. Decide(FALSE) /\ cState' = "Empty"
      BY <2>2, Zenon DEF AbortAndFence
    <3>3. PICK commit \in BOOLEAN : Decide(commit)
      BY <3>2, Zenon
    <3> QED
      BY <1>1, <3>1, <3>2, <3>3, Decided, Zenon
  <2> QED
    BY <2>1, <2>2, Zenon DEF FaultEffect
<1> QED
  BY <1>1, <1>2, AnswersTellTheEnd, Zenon

\* The client's steps decide nothing.
LEMMA ClientOutcomes ==
    ASSUME Outcomes, UNCHANGED <<brokerVars, ended>>, call' = None \/ Issues,
           Began \subseteq Began', \A s \in Began : epochOf'[s] = epochOf[s]
    PROVE  DecisionInv' /\ EndInv'
<1>1. UNCHANGED <<cEpoch, cState, cParts, undecided, committed, aborted>>
  BY Zenon DEF brokerVars, outcomeVars
<1> QED
  BY <1>1, DecisionsKept, NoAnswerYet, Zenon DEF Outcomes

\* Commit and Abort report what EndTxn answered.
LEMMA EndDoneOutcomes ==
    ASSUME Outcomes, EndDone PROVE DecisionInv' /\ EndInv'
<1>1. /\ call # None /\ IsEnd /\ Got("ok") = DOMAIN call.got /\ call' = None
      /\ ended' = [ended EXCEPT ![txn] = IF call.kind = "commit" THEN "committed" ELSE "aborted"]
      /\ UNCHANGED <<cEpoch, cState, cParts, undecided, committed, aborted, epochOf>>
  BY Zenon DEF EndDone, AllOk, Answered, Idle, brokerVars, outcomeVars
<1>2. /\ Began' = Began /\ LastEpoch' = LastEpoch /\ \A t : Over(t)' = Over(t)
      /\ ended \in [Txns -> {"none", "committed", "aborted"}]
  BY <1>1, Zenon DEF Began, LastEpoch, Over, Done, Outcomes, Epochs, TypeInv
<1>3. Over(txn) /\ NoneOf(IF call.kind = "commit" THEN aborted ELSE committed, txn)
  <2>1. DOMAIN call.got # {}
    BY <1>1, Zenon DEF Outcomes, Epochs, CallInv, Idle
  <2> QED
    BY <1>1, <2>1, Zenon DEF Outcomes, EndInv, Idle
<1>4. \A t \in Txns : t # txn => ended'[t] = ended[t]
  BY <1>1, <1>2, Zenon
<1>5. txn \in Txns => ended'[txn] = IF call.kind = "commit" THEN "committed" ELSE "aborted"
  BY <1>1, <1>2, Zenon
<1>6. /\ \A t \in Txns : ended'[t] = "aborted" => Over(t) /\ NoneOf(committed, t)
      /\ \A t \in Txns : ended'[t] = "committed" => Over(t) /\ NoneOf(aborted, t)
  BY <1>3, <1>4, <1>5, Zenon DEF Outcomes, DecisionInv
<1>7. DecisionInv'
  BY <1>1, <1>2, <1>6, Zenon DEF Outcomes, DecisionInv, AllOrNothing, NoneOf
<1> QED
  BY <1>1, <1>7, NoAnswerYet, Zenon

-----------------------------------------------------------------------------
(* Before TV2 nothing of a decided transaction is still to come.           *)

\* A call in progress is over.
LEMMA CallOverSealed ==
    ASSUME SealedInv, call # None, call' = None, UNCHANGED <<late, txn, cEpoch, cState>>,
           Done /\ open' /\ epoch' = cEpoch => endFailed'
    PROVE  SealedInv'
<1>1. /\ \A q \in late : q.txn < txn
      /\ \A q, r \in late : q.txn = r.txn => q.kind = r.kind
      /\ Done => \A q \in late : q.kind = "add" => q.epoch # cEpoch
  BY Zenon DEF SealedInv, Idle
<1> QED
  BY <1>1, Zenon DEF SealedInv, Done, Idle

\* A call in progress sends requests, for the first time or again.
LEMMA IssueSealed ==
    ASSUME SealedInv, Issues, None \notin Calls, open \/ call # None,
           UNCHANGED <<late, txn, open, epoch, endFailed, cEpoch, cState>>,
           call'.kind \in {"commit", "abort"} \/ ~endFailed,
           Done /\ open /\ epoch = cEpoch => call'.kind \in {"commit", "abort"}
    PROVE  SealedInv'
<1>1. /\ \A q \in late : q.txn < txn
      /\ \A q, r \in late : q.txn = r.txn => q.kind = r.kind
      /\ Done => \A q \in late : q.kind = "add" => q.epoch # cEpoch
  BY Zenon DEF SealedInv, Idle
<1>2. call' # None /\ Got("ok")' = {}
  BY PendingAnswer, Zenon DEF Issues, Got
<1> QED
  BY <1>1, <1>2, Zenon DEF SealedInv, Done, Idle, IsEnd

LEMMA ClientSealed ==
    ASSUME Outcomes, SealedInv, AbortOnError, None \notin Calls, ~TV2,
           Working \/ InitDone \/ DataDone \/ EndDone \/ Retry \/ CallFails
    PROVE  SealedInv'
<1>1. Epochs
  BY Zenon DEF Outcomes
<1>2. CASE Working
  <2>1. /\ Issues /\ open /\ UNCHANGED <<late, txn, open, epoch, endFailed, cEpoch, cState>>
        /\ \/ Idle /\ (AbortOnError /\ (broken \/ endFailed) => call'.kind \in {"commit", "abort"})
           \/ ~Idle /\ call.kind = "add" /\ call'.kind \in {"produce", "offsets"}
    BY <1>1, <1>2, WorkingWorks, Zenon DEF Works, WorkingRest, brokerVars
  <2>2. call'.kind \in {"commit", "abort"} \/ ~endFailed
    BY <2>1, Zenon DEF SealedInv, IsEnd
  <2>3. Done /\ open /\ epoch = cEpoch => call'.kind \in {"commit", "abort"}
    BY <2>1, Zenon DEF SealedInv, IsEnd
  <2> QED
    BY <2>1, <2>2, <2>3, IssueSealed, Zenon
<1>3. CASE Retry
  <2>1. /\ Issues /\ call # None /\ call'.kind = call.kind
        /\ UNCHANGED <<late, txn, open, epoch, endFailed, cEpoch, cState>>
    BY <1>1, <1>3, RetrySends, Zenon DEF Retry, brokerVars
  <2>2. /\ call'.kind \in {"commit", "abort"} \/ ~endFailed
        /\ Done /\ open /\ epoch = cEpoch => call'.kind \in {"commit", "abort"}
    BY <2>1, Zenon DEF SealedInv, IsEnd, Idle
  <2> QED
    BY <2>1, <2>2, IssueSealed, Zenon
<1>4. CASE InitDone
  <2>1. call # None /\ call' = None /\ UNCHANGED <<late, txn, cEpoch, cState>>
    BY <1>4, Zenon DEF InitDone, AllOk, Answered, Idle, brokerVars
  <2>2. call.kind = "init" /\ \E q \in Got("ok") : epoch' = call.got[q].epoch
    BY <1>1, <1>4, InitDoneEpochs, Zenon
  <2>3. epoch' = cEpoch => ~Done
    BY <2>1, <2>2, Zenon DEF SealedInv, Idle, Done
  <2> QED
    BY <2>1, <2>3, CallOverSealed, Zenon
<1>5. CASE DataDone \/ EndDone
  <2>1. /\ call # None /\ call' = None /\ UNCHANGED <<late, txn, cEpoch, cState>>
        /\ ~open' \/ (~IsEnd /\ UNCHANGED <<open, epoch>>)
    BY <1>5, Zenon DEF DataDone, EndDone, IsData, IsEnd, AllOk, Answered, Idle, brokerVars
  <2>2. Done /\ open' /\ epoch' = cEpoch => endFailed'
    BY <2>1, Zenon DEF SealedInv, Idle
  <2> QED
    BY <2>1, <2>2, CallOverSealed, Zenon
<1>6. CASE CallFails
  <2>1. /\ call # None /\ call' = None /\ UNCHANGED <<late, txn, open, epoch, cEpoch, cState>>
        /\ IsEnd => endFailed'
    BY <1>6, Zenon DEF CallFails, Answered, Idle, brokerVars
  <2>2. Done /\ open' /\ epoch' = cEpoch => endFailed'
    BY <2>1, Zenon DEF SealedInv, Idle
  <2> QED
    BY <2>1, <2>2, CallOverSealed, Zenon
<1> QED
  BY <1>2, <1>3, <1>4, <1>5, <1>6, Zenon

LEMMA BeginSealed ==
    ASSUME Outcomes, SealedInv, Begin, ~TV2 PROVE SealedInv'
<1>1. /\ txn' = txn + 1 /\ open' = FALSE /\ Issues /\ call'.kind = "init" /\ Epochs
  BY BeginAsks, Zenon DEF Outcomes, ReuseCached
<1>2. UNCHANGED <<late, cEpoch, cState>> /\ endFailed' = FALSE
  BY Zenon DEF Begin, brokerVars
<1>3. \A q \in late : q.txn < txn'
  <2>1. \A q \in late : q.txn <= txn /\ q.txn \in Nat
    BY <1>1, MessageFields DEF Epochs, LateInv, TypeInv, Txns
  <2> QED
    BY <1>1, <2>1 DEF Epochs, TypeInv
<1>4. Got("ok")' = {}
  BY <1>1, PendingAnswer, Zenon DEF Issues, Got
<1> QED
  BY <1>1, <1>2, <1>3, <1>4, Zenon DEF SealedInv, Done

LEMMA CrashSealed ==
    ASSUME Outcomes, SealedInv, Crash PROVE SealedInv'
<1>1. /\ call' = None /\ open' = FALSE /\ UNCHANGED <<txn, cEpoch, cState>> /\ Epochs
      /\ late' \subseteq late \cup (IF call = None THEN {} ELSE DOMAIN call.got)
  BY Zenon DEF Crash, brokerVars, Outcomes, OnTheWire, Got, Idle
<1>2. ASSUME call # None
      PROVE  /\ \A q \in DOMAIN call.got : /\ q.txn = txn /\ q.kind = Sends(call.kind)
                                           /\ q.kind # "init" => q.epoch = epoch
             /\ open = (call.kind # "init") /\ txn \in Nat
             /\ \A q \in late : q.txn < txn /\ q.txn \in Nat
  <2>1. open = (call.kind # "init") /\ txn \in Txns /\ \A q \in DOMAIN call.got : Own(q)
    BY <1>1, <1>2, Zenon DEF Epochs, CallInv, Idle
  <2>2. \A q \in late : q.txn < txn
    BY <1>2, Zenon DEF SealedInv, Idle
  <2>3. \A q \in late : q.txn \in Nat
    BY <1>1, MessageFields DEF Epochs, TypeInv, Txns
  <2> QED
    BY <2>1, <2>2, <2>3 DEF Own, Txns
<1>3. \A q, r \in late : q.txn = r.txn => q.kind = r.kind
  BY Zenon DEF SealedInv
<1>4. \A q, r \in late' : q.txn = r.txn => q.kind = r.kind
  BY <1>1, <1>2, <1>3
<1>5. ASSUME Done, NEW q \in late', q.kind = "add" PROVE q.epoch # cEpoch
  <2>1. CASE q \in late
    BY <1>5, <2>1, Zenon DEF SealedInv
  <2>2. CASE q \notin late
    <3>1. call # None /\ q \in DOMAIN call.got
      BY <1>1, <2>2, Zenon
    <3>2. call.kind = "add" /\ open /\ q.epoch = epoch
      BY <1>2, <1>5, <3>1, Zenon DEF Sends
    <3> QED
      BY <1>5, <3>1, <3>2, Zenon DEF SealedInv, Idle, IsEnd
  <2> QED
    BY <2>1, <2>2, Zenon
<1> QED
  BY <1>1, <1>4, <1>5, Zenon DEF SealedInv, Done, Idle

\* An answer to a request before TV2.
LEMMA ServingSealed ==
    ASSUME Outcomes, SealedInv, ~TV2, None \notin Calls, NEW q \in OnTheWire, NEW a, Hears(q, a),
           Serving(q, a), late' \subseteq late, UNCHANGED <<clientVars, historyVars>>
    PROVE  SealedInv'
<1>1. UNCHANGED <<txn, open, epoch, endFailed, epochOf>> /\ Epochs
  BY Zenon DEF clientVars, handleVars, historyVars, Outcomes
<1>2. /\ \A r \in late : r.txn < txn \/ (Idle /\ ~open)
      /\ \A r, s \in late : r.txn = s.txn => r.kind = s.kind
      /\ ~Idle /\ ~IsEnd => ~endFailed
  BY Zenon DEF SealedInv
<1>3. /\ call = None => call' = None
      /\ call # None => call' # None /\ call'.kind = call.kind /\ DOMAIN call'.got = DOMAIN call.got
                        /\ \A r \in DOMAIN call.got : call'.got[r] = call.got[r] \/ (r = q /\ call'.got[r] = a)
  BY Zenon DEF Hears
<1>4. /\ \A r \in late' : r.txn < txn' \/ (Idle' /\ ~open')
      /\ \A r, s \in late' : r.txn = s.txn => r.kind = s.kind
      /\ ~Idle' /\ ~IsEnd' => ~endFailed'
  BY <1>1, <1>2, <1>3, Zenon DEF Idle, IsEnd
<1>5. /\ q \in Sent /\ q \in Messages
      /\ q.kind # "init" => q.txn \in Began /\ q.epoch = epochOf[q.txn]
  BY <1>1, SentIsGenuine, Zenon DEF OnTheWire, Sent, Got
<1>6. \/ UNCHANGED <<cEpoch, cState>> /\ (a.code = "ok" => q.kind # "init")
      \/ cEpoch' = cEpoch /\ q.epoch = cEpoch /\ q.kind = "add" /\ cState' = "Ongoing"
      \/ cEpoch' = cEpoch /\ q.epoch = cEpoch /\ q.kind = "end" /\ cState = "Ongoing"
      \/ cState' = "Empty"
  <2>1. CASE Refuses(a) \/ EndsAgain(q, a) \/ TakesOffsets(q)
    BY <2>1, Zenon DEF Refuses, EndsAgain, TakesOffsets, brokerVars
  <2>2. CASE Inits(q, a) \/ Adds(q)
    BY <2>2, Zenon DEF Inits, AbortAndFence, Adds
  <2>3. CASE Produces(q, a)
    BY <2>3, Zenon DEF Produces
  <2>4. CASE EndsNow(q, a)
    BY <2>4, Zenon DEF EndsNow
  <2> QED
    BY <2>1, <2>2, <2>3, <2>4, Zenon DEF Serving
<1>7. q \notin late => call # None /\ Own(q) /\ q \in DOMAIN call.got
  BY <1>1, <1>5, Zenon DEF Sent, Epochs, CallInv, Idle
<1>8. \A s, t \in Began : epochOf[s] = epochOf[t] => s = t
  BY <1>1, EpochsDiffer, Zenon
<1>9. ASSUME call' # None, call'.kind = "init", NEW r \in Got("ok")', call'.got[r].epoch = cEpoch'
      PROVE  cState' = "Empty"
  <2>1. /\ call # None /\ call.kind = "init" /\ r \in DOMAIN call.got /\ call'.got[r].code = "ok"
        /\ \A x \in DOMAIN call.got : x.kind = "init"
        /\ \A x \in Got("ok") : Fresh(call.got[x].epoch)
    BY <1>1, <1>3, <1>9, Zenon DEF Epochs, CallInv, Got, Own, Sends, Idle
  <2>2. CASE call'.got[r] = call.got[r] /\ cState' # "Empty"
    <3>1. r \in Got("ok") /\ call.got[r].epoch = cEpoch /\ Fresh(cEpoch)
      BY <1>6, <1>9, <2>1, <2>2, Zenon DEF Got
    <3>2. cState = "Empty"
      BY <2>1, <3>1, Zenon DEF SealedInv, Idle
    <3>3. q.kind # "init" => q.epoch < cEpoch
      BY <1>5, <3>1, Zenon DEF Fresh
    <3>4. q.kind # "init" => q.epoch # cEpoch
      BY <3>1, <3>3 DEF Fresh
    <3> QED
      BY <1>6, <2>2, <3>2, <3>4, Zenon
  <2>3. CASE r = q /\ call'.got[r] = a
    BY <1>6, <2>1, <2>3, Zenon
  <2> QED
    BY <1>3, <2>1, <2>2, <2>3, Zenon
<1>10. \/ UNCHANGED <<cEpoch, cState>>
       \/ ~Done'
       \/ /\ cEpoch' = cEpoch /\ q.epoch = cEpoch /\ q.kind = "end"
          /\ \A t \in Began : epochOf[t] = cEpoch => q.txn = t
  BY <1>5, <1>6, <1>8, Zenon DEF Done
<1>11. ASSUME Done', NEW r \in late', r.kind = "add" PROVE r.epoch # cEpoch'
  <2>1. CASE UNCHANGED <<cEpoch, cState>>
    BY <1>11, <2>1, Zenon DEF SealedInv, Done
  <2>2. CASE /\ cEpoch' = cEpoch /\ q.kind = "end" /\ r.epoch = cEpoch
             /\ \A t \in Began : epochOf[t] = cEpoch => q.txn = t
    <3>1. r \in late /\ r \in Sent
      BY Zenon DEF Sent
    <3>2. r.txn = q.txn /\ r.txn \in Nat /\ txn \in Nat
      BY <1>1, <1>11, <2>2, <3>1, SentIsGenuine, MessageFields DEF Txns, Epochs, TypeInv
    <3>3. q \notin late
      BY <1>2, <1>11, <2>2, <3>1, <3>2, Zenon
    <3>4. r.txn < txn /\ q.txn = txn
      BY <1>2, <1>7, <3>1, <3>3, Zenon DEF Own, Idle
    <3> QED
      BY <3>2, <3>4
  <2> QED
    BY <1>10, <1>11, <2>1, <2>2, Zenon
<1>12. ASSUME Done', open', epoch' = cEpoch' PROVE IF Idle' THEN endFailed' ELSE IsEnd'
  <2>1. CASE UNCHANGED <<cEpoch, cState>>
    <3>1. IF Idle THEN endFailed ELSE IsEnd
      BY <1>1, <1>12, <2>1, Zenon DEF SealedInv, Done
    <3> QED
      BY <1>1, <1>3, <3>1, Zenon DEF Idle, IsEnd, Hears
  <2>2. CASE /\ cEpoch' = cEpoch /\ q.kind = "end"
             /\ \A t \in Began : epochOf[t] = cEpoch => q.txn = t
    <3>1. q.txn = txn /\ txn \in Nat /\ open
      BY <1>1, <1>12, <2>2 DEF Epochs, EpochInv, TypeInv
    <3>2. q \notin late
      BY <1>2, <3>1
    <3>3. call \in Calls /\ call.kind \in CallKinds
      BY <1>1, <1>7, <3>2, CallFields, Zenon DEF Epochs, TypeInv
    <3> QED
      BY <1>3, <1>7, <2>2, <3>2, <3>3, Zenon DEF Own, Sends, IsEnd, Idle, CallKinds
  <2> QED
    BY <1>10, <1>12, <2>1, <2>2, Zenon
<1> QED
  BY <1>4, <1>9, <1>11, <1>12, Zenon DEF SealedInv, Idle

LEMMA FaultSealed ==
    ASSUME Outcomes, SealedInv, ~TV2, None \notin Calls, "lateRequest" \notin Faults,
           NEW q, NEW a, FaultEffect(q, a)
    PROVE  SealedInv'
<1>1. UNCHANGED <<txn, open, epoch, endFailed>> /\ late' \subseteq late
  BY Zenon DEF FaultEffect, clientVars, handleVars, Hears
<1>2. /\ call = None => call' = None
      /\ call # None => call' # None /\ call'.kind = call.kind /\ DOMAIN call'.got = DOMAIN call.got
                        /\ \A r \in DOMAIN call.got : call'.got[r] = call.got[r] \/ call'.got[r].code # "ok"
  BY Zenon DEF FaultEffect, Hears
<1>3. UNCHANGED <<cEpoch, cState>> \/ cState' = "Empty"
  BY Zenon DEF FaultEffect, brokerVars, AbortAndFence
<1>4. ASSUME call' # None, call'.kind = "init", NEW r \in Got("ok")', call'.got[r].epoch = cEpoch'
      PROVE  cState' = "Empty"
  <2>1. call # None /\ call.kind = "init" /\ r \in Got("ok") /\ call'.got[r] = call.got[r]
    BY <1>2, <1>4, Zenon DEF Got
  <2> QED
    BY <1>3, <1>4, <2>1, Zenon DEF SealedInv, Idle
<1>5. Done' => Done /\ cEpoch' = cEpoch
  BY <1>3, Zenon DEF Done
<1> QED
  BY <1>1, <1>2, <1>4, <1>5, Zenon DEF SealedInv, Idle, IsEnd

-----------------------------------------------------------------------------
LEMMA InitOutcomes ==
    ASSUME Init PROVE Outcomes
<1>1. DecisionInv
  BY Zenon DEF Init, DecisionInv, AllOrNothing
<1>2. EndInv /\ SealedInv
  BY Zenon DEF Init, EndInv, SealedInv, Idle
<1> QED
  BY <1>1, <1>2, InitEpochs, Zenon DEF Outcomes

LEMMA StutterOutcomes ==
    ASSUME Outcomes, UNCHANGED vars PROVE Outcomes'
<1>1. UNCHANGED <<cEpoch, cState, cParts, undecided, committed, aborted, ended, epochOf, txn, call,
                  late, open, epoch, endFailed>>
  BY Zenon DEF vars, clientVars, handleVars, brokerVars, outcomeVars, historyVars
<1>2. /\ Began' = Began /\ LastEpoch' = LastEpoch /\ Done' = Done /\ Idle' = Idle /\ IsEnd' = IsEnd
      /\ Got("ok")' = Got("ok") /\ (\A t : Over(t)' = Over(t)) /\ AllOrNothing' = AllOrNothing
  BY <1>1, Zenon DEF Began, LastEpoch, Done, Idle, IsEnd, Got, Over, AllOrNothing
<1>3. DecisionInv' /\ EndInv'
  BY <1>1, <1>2, Zenon DEF Outcomes, DecisionInv, EndInv, NoneOf
<1>4. ~TV2 => SealedInv'
  BY <1>1, <1>2, Zenon DEF Outcomes, SealedInv
<1> QED
  BY <1>3, <1>4, StutterEpochs, Zenon DEF Outcomes

\* The client's steps, and what they leave alone.
LEMMA ClientKeepsOutcomes ==
    ASSUME Outcomes, TV2 => ~Abandon, Application \/ Client, ~EndDone
    PROVE  DecisionInv' /\ EndInv'
<1>1. Epochs
  BY Zenon DEF Outcomes
<1>2. /\ UNCHANGED <<brokerVars, ended>> /\ (call' = None \/ Issues)
      /\ Began \subseteq Began' /\ \A s \in Began : epochOf'[s] = epochOf[s]
  <2>1. CASE Begin
    <3>1. UNCHANGED <<brokerVars, ended>> /\ (~ReuseCached => UNCHANGED epochOf)
      BY <2>1, Zenon DEF Begin
    <3>2. CASE ReuseCached
      <4>1. call' = None
        BY <2>1, <3>2, Zenon DEF Begin, Idle
      <4> QED
        BY <1>1, <2>1, <3>1, <3>2, <4>1, BeginReuses, Zenon
    <3>3. CASE ~ReuseCached
      BY <1>1, <2>1, <3>1, <3>3, BeginAsks, Zenon
    <3> QED
      BY <3>2, <3>3, Zenon
  <2>2. CASE Working
    <3>1. UNCHANGED <<brokerVars, ended, epochOf>> /\ Issues
      BY <1>1, <2>2, WorkingWorks, Zenon DEF Works, WorkingRest
    <3> QED
      BY <3>1, Zenon DEF Began
  <2>3. ASSUME NEW before, ProduceUnresolved(before)
        PROVE  UNCHANGED <<brokerVars, ended, epochOf>> /\ call' = None
    BY <1>1, <2>3, UnresolvedEpochs, Zenon DEF historyVars, Idle
  <2>4. CASE InitDone
    <3>1. UNCHANGED <<brokerVars, ended>> /\ call' = None
      BY <2>4, Zenon DEF InitDone
    <3> QED
      BY <1>1, <2>4, <3>1, InitDoneEpochs, Zenon
  <2>5. CASE DataDone \/ CallFails \/ Retry
    <3>1. UNCHANGED <<brokerVars, ended, epochOf>> /\ (call' = None \/ Issues)
      BY <1>1, <2>5, RetrySends, Zenon DEF DataDone, CallFails, Retry
    <3> QED
      BY <3>1, Zenon DEF Began
  <2>6. CASE \E before \in (SUBSET Partitions) \ {Partitions} : ProduceUnresolved(before)
    <3>1. UNCHANGED <<brokerVars, ended, epochOf>> /\ call' = None
      BY <2>3, <2>6, Zenon
    <3> QED
      BY <3>1, Zenon DEF Began
  <2> QED
    BY <2>1, <2>2, <2>4, <2>5, <2>6, Zenon DEF Application, Client, Working
<1> QED
  BY <1>2, ClientOutcomes, Zenon

LEMMA NextOutcomes ==
    ASSUME Outcomes, TV2 => ~Abandon, Careful, Next PROVE Outcomes'
<1>1. Epochs /\ Epochs'
  BY NextEpochs, Zenon DEF Outcomes
<1>2. CASE Application \/ Client
  <2>1. DecisionInv' /\ EndInv'
    BY <1>2, ClientKeepsOutcomes, EndDoneOutcomes, Zenon
  <2>2. ASSUME ~TV2 PROVE SealedInv'
    <3>1. ASSUME NEW before, ProduceUnresolved(before) PROVE SealedInv'
      <4>1. /\ UNCHANGED <<txn, open, epoch, endFailed, call, late, cEpoch, cState>>
        BY <1>1, <3>1, UnresolvedEpochs, Zenon DEF brokerVars
      <4>2. Done' = Done /\ Idle' = Idle /\ IsEnd' = IsEnd /\ Got("ok")' = Got("ok")
        BY <4>1, Zenon DEF Done, Idle, IsEnd, Got
      <4> QED
        BY <2>2, <4>1, <4>2, Zenon DEF Outcomes, SealedInv
    <3>2. \/ Begin \/ Working \/ InitDone \/ DataDone \/ EndDone \/ Retry \/ CallFails
          \/ \E before \in (SUBSET Partitions) \ {Partitions} : ProduceUnresolved(before)
      BY <1>2, Zenon DEF Application, Client, Working
    <3> QED
      BY <2>2, <3>1, <3>2, BeginSealed, ClientSealed, Zenon DEF Outcomes, Careful
  <2> QED
    BY <1>1, <2>1, <2>2, Zenon DEF Outcomes
<1>3. ASSUME NEW q \in OnTheWire, Handle(q) PROVE Outcomes'
  <2>1. /\ UNCHANGED <<clientVars, placeVars, historyVars>>
        /\ \E a \in Answers : Hears(q, a) /\ Serving(q, a) /\ late' \subseteq late
    BY <1>1, <1>3, HandleServes, Zenon
  <2>2. DecisionInv' /\ EndInv'
    BY <2>1, ServingOutcomes, Zenon
  <2>3. ~TV2 => SealedInv'
    BY <2>1, ServingSealed, Zenon DEF Outcomes, Careful
  <2> QED
    BY <1>1, <2>2, <2>3, Zenon DEF Outcomes
<1>4. CASE \/ \E q \in OnTheWire : RefuseBusy(q) \/ LoseRequest(q)
           \/ LoseReply \/ CoordinatorMoves \/ Fence
  <2>1. PICK q, a : FaultEffect(q, a)
    BY <1>1, <1>4, FaultEffects, Zenon DEF Epochs
  <2>2. ~TV2 => SealedInv'
    BY <2>1, FaultSealed, Zenon DEF Outcomes, Careful
  <2> QED
    BY <1>1, <2>1, <2>2, FaultOutcomes, Zenon DEF Outcomes
<1>5. CASE Crash
  <2>1. UNCHANGED <<brokerVars, ended, epochOf>> /\ call' = None
    BY <1>5, Zenon DEF Crash, historyVars
  <2>2. Began' = Began
    BY <2>1, Zenon DEF Began
  <2>3. DecisionInv' /\ EndInv'
    BY <2>1, <2>2, ClientOutcomes, Zenon
  <2> QED
    BY <1>1, <1>5, <2>3, CrashSealed, Zenon DEF Outcomes
<1> QED
  BY <1>2, <1>3, <1>4, <1>5, Zenon DEF Next, Brokering

(* A transaction's records and offsets are never committed in part and     *)
(* aborted in part.  Before TV2 this rests on the application: it only     *)
(* aborts once a call has failed, and no request that was given up         *)
(* arrives later, while another one is in progress (endTxn, registered).   *)
THEOREM TransactionsAreAtomic ==
    ASSUME TV2 => ~Abandon, Careful
    PROVE  Spec => []AllOrNothing
<1>1. Outcomes /\ [Next]_vars => Outcomes'
  BY NextOutcomes, StutterOutcomes, Zenon
<1>2. Init => Outcomes
  BY InitOutcomes, Zenon
<1>3. Outcomes => AllOrNothing
  BY Zenon DEF Outcomes, DecisionInv
<1> QED
  BY <1>1, <1>2, <1>3, PTL DEF Spec

(* When Abort has returned nil, nothing of the transaction is visible to   *)
(* read_committed consumers, then or later, under the same assumptions     *)
(* (endTxn).                                                               *)
THEOREM AbortsHold ==
    ASSUME TV2 => ~Abandon, Careful
    PROVE  Spec => []AbortedIsInvisible
<1>1. Outcomes /\ [Next]_vars => Outcomes'
  BY NextOutcomes, StutterOutcomes, Zenon
<1>2. Init => Outcomes
  BY InitOutcomes, Zenon
<1>3. Outcomes => AbortedIsInvisible
  <2> SUFFICES ASSUME Outcomes, NEW x \in committed, ended[x[1]] = "aborted"
               PROVE  FALSE
    BY Zenon DEF AbortedIsInvisible
  <2>1. x[1] \in Txns
    BY Zenon DEF Outcomes, DecisionInv, Over, Began
  <2>2. NoneOf(committed, x[1])
    BY <2>1, Zenon DEF Outcomes, DecisionInv
  <2> QED
    BY <2>2, Zenon DEF NoneOf
<1> QED
  BY <1>1, <1>2, <1>3, PTL DEF Spec
=============================================================================
