------------------------- MODULE AsyncProducerProofs -------------------------
(***************************************************************************)
(* That the asynchronous producer stores no record twice and that its      *)
(* reports are true, for any number of records and workers and any batch   *)
(* size and channel capacity.  StoredOnce and ReportsAreTrue are not       *)
(* inductive: they rest on where a record can be (the input channel, one   *)
(* place of one worker's batch, the log, the reports) and on what a batch  *)
(* that was abandoned by a cancelled flush can still do.  First the steps  *)
(* of the application (Send, Close, cancel, a read of Results()), then     *)
(* those of a worker.  Last, that a single worker stores records in the    *)
(* order of their Sends.                                                   *)
(***************************************************************************)
EXTENDS AsyncProducer, SequenceTheorems, TLAPS

Local ==
  [pc : {"select", "produce", "report", "done"}, batch : Seq(Records), timer : BOOLEAN,
   next : Nat, failed : BOOLEAN, dead : BOOLEAN, exiting : BOOLEAN]

TypeInv ==
  /\ in \in Seq(Records) /\ waiting \in Seq(Records) /\ log \in Seq(Records)
  /\ out \in Seq(Report) /\ reports \in Seq(Report)
  /\ worker \in [Workers -> Local]
  /\ sent \in [Records -> {"no", "waiting", "accepted", "refused", "panicked"}]
  /\ cancelled \in BOOLEAN

Distinct(s) == \A i, j \in DOMAIN s : s[i] = s[j] => i = j

\* The records of the reports.
Told == [i \in DOMAIN AllReports |-> AllReports[i].rec]

With(what) == {r \in Records : sent[r] = what}

Batch(w) == Range(worker[w].batch)

\* What the input channel holds was accepted, is held once and is nowhere else.
Channel ==
  /\ Distinct(in) /\ Range(in) \subseteq With("accepted")
  /\ Distinct(waiting) /\ Range(waiting) \subseteq With("waiting")
  /\ Range(in) \cap Range(log) = {} /\ Range(in) \cap Range(Told) = {}
  /\ \A w \in Workers : Range(in) \cap Batch(w) = {}

\* What a worker holds was accepted, and no other worker holds it.
Held ==
  /\ \A w \in Workers : Distinct(worker[w].batch) /\ Batch(w) \subseteq With("accepted")
  /\ \A v, w \in Workers : v # w => Batch(v) \cap Batch(w) = {}

Logged ==
  /\ Distinct(log)
  /\ Range(log) \subseteq With("accepted") /\ Range(Told) \subseteq With("accepted")

\* A batch that may yet be stored is not in the log.
MayStore(w) ==
  \/ worker[w].pc = "select" /\ ~cancelled
  \/ worker[w].pc = "produce" /\ ~worker[w].dead

Unstored ==
  /\ \A w \in Workers : MayStore(w) => Batch(w) \cap Range(log) = {}
  /\ \A w \in Workers : worker[w].pc = "produce" => worker[w].batch # <<>>

\* A report of success follows the storing of the whole batch.
Truthful ==
  /\ \A w \in Workers : worker[w].pc = "report" /\ ~worker[w].failed => Batch(w) \subseteq Range(log)
  /\ \A i \in DOMAIN AllReports : AllReports[i].ok => AllReports[i].rec \in Range(log)

Reporting ==
  /\ \A w \in Workers : worker[w].pc = "report" =>
        worker[w].next >= 1 /\ worker[w].next <= Len(worker[w].batch)
  /\ outClosed => \A w \in Workers : worker[w].pc = "done"

\* The records of a batch that have no report yet.
Due(w) ==
  {worker[w].batch[i] : i \in {k \in DOMAIN worker[w].batch :
                                worker[w].pc = "report" => k >= worker[w].next}}

\* Until the context is cancelled, a worker reports its batch in order, each
\* record once, before it goes on.
Accounted ==
  ~cancelled =>
    /\ Distinct(Told)
    /\ \A w \in Workers : Due(w) \cap Range(Told) = {}
    /\ \A r \in Range(log) \ Range(Told) :
          \E w \in Workers : worker[w].pc = "report" /\ r \in Due(w)
    /\ \A w \in Workers : worker[w].pc = "done" => worker[w].batch = <<>>

IInv ==
  /\ TypeInv /\ Channel /\ Held /\ Logged /\ Unstored /\ Truthful /\ Reporting /\ Accounted

-----------------------------------------------------------------------------
(* Sequences without duplicates.                                           *)

LEMMA AppendSet ==
  ASSUME NEW S, NEW s \in Seq(S), NEW e \in S
  PROVE  /\ Append(s, e) \in Seq(S) /\ Range(Append(s, e)) = Range(s) \cup {e}
         /\ Distinct(s) /\ e \notin Range(s) => Distinct(Append(s, e))
  <1>1. /\ DOMAIN s = 1 .. Len(s) /\ Len(s) \in Nat
        /\ DOMAIN Append(s, e) = 1 .. Len(s) + 1 /\ Append(s, e) \in Seq(S)
        /\ \A i \in 1 .. Len(s) : Append(s, e)[i] = s[i]
        /\ Append(s, e)[Len(s) + 1] = e
    BY AppendProperties, LenProperties
  <1>2. DOMAIN Append(s, e) = DOMAIN s \cup {Len(s) + 1}
    BY <1>1
  <1>3. PICK n : n = Len(s) + 1
    BY Zenon
  <1>4. PICK a : a = Append(s, e)
    BY Zenon
  <1>5. DOMAIN a = DOMAIN s \cup {n} /\ a[n] = e /\ \A i \in DOMAIN s : a[i] = s[i]
    BY <1>1, <1>2, <1>3, <1>4, Zenon
  <1>6. Range(a) = Range(s) \cup {e}
    BY <1>5 DEF Range
  <1>7. ASSUME Distinct(s), e \notin Range(s) PROVE Distinct(a)
    BY <1>5, <1>7, Zenon DEF Distinct, Range
  <1> QED BY <1>1, <1>4, <1>6, <1>7, Zenon

LEMMA TailSet ==
  ASSUME NEW S, NEW s \in Seq(S), s # <<>>
  PROVE  /\ Head(s) \in S /\ Tail(s) \in Seq(S)
         /\ Range(s) = {Head(s)} \cup Range(Tail(s))
         /\ Distinct(s) => Distinct(Tail(s)) /\ Head(s) \notin Range(Tail(s))
  <1>1. PICK t \in Seq(S) : /\ t = Tail(s) /\ Len(t) = Len(s) - 1
                            /\ \A i \in 1 .. Len(t) : t[i] = s[i + 1]
    BY HeadTailProperties, Zenon
  <1>2. /\ DOMAIN s = 1 .. Len(s) /\ DOMAIN t = 1 .. Len(t) /\ Len(s) \in Nat \ {0}
        /\ Head(s) = s[1] /\ Head(s) \in S
    BY HeadTailProperties, LenProperties, EmptySeq
  <1>3. \A i \in DOMAIN t : i + 1 \in DOMAIN s /\ i + 1 # 1 /\ t[i] = s[i + 1] /\ i \in Int
    BY <1>1, <1>2
  <1>4. \A i \in DOMAIN s : i = 1 \/ (i - 1 \in DOMAIN t /\ t[i - 1] = s[i])
    BY <1>1, <1>2
  <1>5. 1 \in DOMAIN s
    BY <1>2
  <1>6. Range(s) = {Head(s)} \cup Range(t)
    <2>1. ASSUME NEW x \in Range(s) PROVE x \in {Head(s)} \cup Range(t)
      BY <1>2, <1>4, Zenon DEF Range
    <2>2. ASSUME NEW x \in Range(t) PROVE x \in Range(s)
      BY <1>3, Zenon DEF Range
    <2>3. Head(s) \in Range(s)
      BY <1>2, <1>5, Zenon DEF Range
    <2> QED BY <2>1, <2>2, <2>3, Zenon
  <1>7. ASSUME Distinct(s) PROVE Distinct(t) /\ Head(s) \notin Range(t)
    <2>1. ASSUME NEW i \in DOMAIN t, NEW j \in DOMAIN t, t[i] = t[j] PROVE i = j
      <3>1. i + 1 = j + 1
        BY <1>3, <1>7, <2>1, Zenon DEF Distinct
      <3> QED BY <1>3, <3>1
    <2>2. Head(s) \notin Range(t)
      BY <1>2, <1>3, <1>5, <1>7 DEF Distinct, Range
    <2> QED BY <2>1, <2>2, Zenon DEF Distinct
  <1> QED BY <1>1, <1>2, <1>6, <1>7, Zenon

LEMMA ConcatSet ==
  ASSUME NEW S, NEW s \in Seq(S), NEW t \in Seq(S)
  PROVE  /\ s \o t \in Seq(S) /\ Range(s \o t) = Range(s) \cup Range(t)
         /\ Distinct(s) /\ Distinct(t) /\ Range(s) \cap Range(t) = {} => Distinct(s \o t)
  <1>0. PICK u : u = s \o t
    BY Zenon
  <1>1. /\ u \in Seq(S) /\ Len(u) = Len(s) + Len(t)
        /\ \A i \in 1 .. Len(s) + Len(t) : u[i] = IF i <= Len(s) THEN s[i] ELSE t[i - Len(s)]
    BY <1>0, ConcatProperties, Zenon
  <1>2. /\ DOMAIN s = 1 .. Len(s) /\ DOMAIN t = 1 .. Len(t) /\ DOMAIN u = 1 .. Len(u)
        /\ Len(s) \in Nat /\ Len(t) \in Nat
    BY LenProperties
  <1>3. ASSUME NEW i \in DOMAIN u
        PROVE  \/ i \in DOMAIN s /\ u[i] = s[i]
               \/ i - Len(s) \in DOMAIN t /\ u[i] = t[i - Len(s)] /\ i \notin DOMAIN s
    BY <1>1, <1>2
  <1>4. \A i \in DOMAIN s : i \in DOMAIN u /\ u[i] = s[i]
    BY <1>1, <1>2
  <1>5. \A i \in DOMAIN t : i + Len(s) \in DOMAIN u /\ u[i + Len(s)] = t[i]
    BY <1>1, <1>2
  <1>6. Range(u) = Range(s) \cup Range(t)
    <2>1. ASSUME NEW x \in Range(u) PROVE x \in Range(s) \cup Range(t)
      BY <1>3, Zenon DEF Range
    <2>2. ASSUME NEW x \in Range(s) PROVE x \in Range(u)
      BY <1>4, Zenon DEF Range
    <2>3. ASSUME NEW x \in Range(t) PROVE x \in Range(u)
      BY <1>5, Zenon DEF Range
    <2> QED BY <2>1, <2>2, <2>3, Zenon
  <1>7. ASSUME Distinct(s), Distinct(t), Range(s) \cap Range(t) = {} PROVE Distinct(u)
    <2> SUFFICES ASSUME NEW i \in DOMAIN u, NEW j \in DOMAIN u, u[i] = u[j] PROVE i = j
      BY Zenon DEF Distinct
    <2>1. i \in Int /\ j \in Int /\ Len(s) \in Int
      BY <1>2
    <2>2. CASE i \in DOMAIN s
      <3>1. u[i] = s[i] /\ s[i] \in Range(s)
        BY <1>4, <2>2, Zenon DEF Range
      <3>2. j \in DOMAIN s
        BY <1>3, <1>7, <3>1, Zenon DEF Range
      <3> QED BY <1>4, <1>7, <2>2, <3>2, Zenon DEF Distinct
    <2>3. CASE i \notin DOMAIN s
      <3>1. i - Len(s) \in DOMAIN t /\ u[i] = t[i - Len(s)]
        BY <1>3, <2>3, Zenon
      <3>2. j \notin DOMAIN s
        BY <1>4, <1>7, <3>1, Zenon DEF Range
      <3>3. j - Len(s) \in DOMAIN t /\ u[j] = t[j - Len(s)]
        BY <1>3, <3>2, Zenon
      <3>4. i - Len(s) = j - Len(s)
        BY <1>7, <3>1, <3>3, Zenon DEF Distinct
      <3> QED BY <2>1, <3>4
    <2> QED BY <2>2, <2>3, Zenon
  <1> QED BY <1>0, <1>1, <1>6, <1>7, Zenon

LEMMA InitIInv == Init => IInv
  <1> SUFFICES ASSUME Init PROVE IInv
    BY Zenon
  <1>1. AllReports = <<>> /\ Told = <<>>
    BY DEF Init, AllReports, Told
  <1>2. TypeInv
    <2>1. worker \in [Workers -> Local]
      BY DEF Init, Local
    <2>2. sent \in [Records -> {"no", "waiting", "accepted", "refused", "panicked"}]
      BY Zenon DEF Init
    <2>3. cancelled \in BOOLEAN
      BY Zenon DEF Init
    <2>4. /\ in \in Seq(Records) /\ waiting \in Seq(Records) /\ log \in Seq(Records)
          /\ out \in Seq(Report) /\ reports \in Seq(Report)
      BY DEF Init
    <2> QED BY <2>1, <2>2, <2>3, <2>4, Zenon DEF TypeInv
  <1>3. Channel /\ Held /\ Logged
    BY <1>1 DEF Init, Channel, Held, Logged, Distinct, Range, Batch
  <1>4. Unstored /\ Truthful /\ Reporting
    BY <1>1 DEF Init, Unstored, Truthful, Reporting, Range, Batch
  <1>5. Accounted
    BY <1>1 DEF Init, Accounted, Distinct, Range, Due
  <1> QED BY <1>2, <1>3, <1>4, <1>5, Zenon DEF IInv

-----------------------------------------------------------------------------
(* What the steps of a worker do to its local variables.                   *)

\* The worker leaves its loop or calls ProduceSyncResult, with the same batch.
Entered(old, new, exiting) ==
  /\ new \in Local /\ new.batch = old.batch /\ new.next = old.next
  /\ \/ new.batch = <<>> /\ new.pc = IF exiting THEN "done" ELSE "select"
     \/ new.batch # <<>> /\ new.pc = "produce" /\ new.dead = cancelled

LEMMA FlushedEntered ==
  ASSUME NEW wk \in Local, NEW e \in BOOLEAN, cancelled \in BOOLEAN
  PROVE  Entered(wk, Flushed(wk, e), e) /\ Entered(wk, [Flushed(wk, e) EXCEPT !.timer = FALSE], e)
  <1>1. CASE wk.batch = <<>>
    <2>1. PICK p : p = IF e THEN "done" ELSE "select"
      BY Zenon
    <2>2. Flushed(wk, e) = [wk EXCEPT !.pc = p, !.exiting = e]
      BY <1>1, <2>1, Zenon DEF Flushed
    <2> QED BY <1>1, <2>1, <2>2, Zenon DEF Local, Entered
  <1>2. CASE wk.batch # <<>>
    <2>1. Flushed(wk, e) = [wk EXCEPT !.pc = "produce", !.exiting = e, !.dead = cancelled]
      BY <1>2, Zenon DEF Flushed
    <2> QED BY <1>2, <2>1, Zenon DEF Local, Entered
  <1> QED BY <1>1, <1>2, Zenon

LEMMA ReportedFields ==
  ASSUME NEW wk \in Local
  PROVE  /\ Reported(wk) \in Local
         /\ wk.next < Len(wk.batch) =>
              /\ Reported(wk).pc = wk.pc /\ Reported(wk).batch = wk.batch
              /\ Reported(wk).next = wk.next + 1 /\ Reported(wk).failed = wk.failed
         /\ ~(wk.next < Len(wk.batch)) =>
              Reported(wk).batch = <<>> /\ Reported(wk).pc \in {"done", "select"}
  <1>1. CASE wk.next < Len(wk.batch)
    <2>1. PICK n \in Nat : n = wk.next + 1
      BY DEF Local
    <2>2. Reported(wk) = [wk EXCEPT !.next = n]
      BY <1>1, <2>1, Zenon DEF Reported
    <2> QED BY <1>1, <2>1, <2>2, Zenon DEF Local
  <1>2. CASE ~(wk.next < Len(wk.batch))
    <2>1. PICK p : p = IF wk.exiting THEN "done" ELSE "select"
      BY Zenon
    <2>0. PICK b : b = <<>>
      BY Zenon
    <2>2. b \in Seq(Records) /\ b = <<>>
      BY <2>0
    <2>3. Reported(wk) = [wk EXCEPT !.batch = b, !.timer = FALSE, !.next = 1, !.pc = p]
      BY <1>2, <2>1, <2>2, Zenon DEF Reported
    <2>4. Reported(wk).batch = b /\ Reported(wk).pc = p
      BY <2>3, Zenon DEF Local
    <2>5. p \in {"done", "select"}
      BY <2>1, Zenon
    <2>6. [wk EXCEPT !.batch = b, !.timer = FALSE, !.next = 1, !.pc = p] \in Local
      BY <2>2, <2>5, Zenon DEF Local
    <2> QED BY <1>2, <2>2, <2>3, <2>4, <2>5, <2>6, Zenon
  <1> QED BY <1>1, <1>2, Zenon

-----------------------------------------------------------------------------
(* The reports, read and unread, as one sequence.                          *)

LEMMA ReportTypes == TypeInv => AllReports \in Seq(Report) /\ Told \in Seq(Records) /\ DOMAIN Told = DOMAIN AllReports
  <1> SUFFICES ASSUME TypeInv PROVE AllReports \in Seq(Report) /\ Told \in Seq(Records) /\ DOMAIN Told = DOMAIN AllReports
    BY Zenon
  <1>1. PICK a \in Seq(Report) : a = AllReports
    BY ConcatProperties, Zenon DEF TypeInv, AllReports
  <1>2. DOMAIN a = 1 .. Len(a) /\ Len(a) \in Nat /\ \A i \in 1 .. Len(a) : a[i] \in Report
    BY LenProperties, ElementOfSeq, Zenon
  <1>3. Told = [i \in 1 .. Len(a) |-> a[i].rec]
    BY <1>1, <1>2, Zenon DEF Told
  <1>4. \A i \in 1 .. Len(a) : a[i].rec \in Records
    BY <1>2, Zenon DEF Report
  <1>5. Told \in [1 .. Len(a) -> Records]
    BY <1>3, <1>4, Zenon
  <1>6. Told \in Seq(Records)
    BY <1>2, <1>5, SeqDef, Zenon
  <1> QED BY <1>1, <1>2, <1>3, <1>6, Zenon

LEMMA DrainKeepsReports == TypeInv /\ Drain => AllReports' = AllReports /\ Told' = Told
  <1> SUFFICES ASSUME TypeInv, Drain PROVE AllReports' = AllReports
    BY Zenon DEF Told
  <1>1. reports \in Seq(Report) /\ out \in Seq(Report) /\ out # <<>>
    BY Zenon DEF TypeInv, Drain
  <1>2. Head(out) \in Report /\ Tail(out) \in Seq(Report)
    BY <1>1, HeadTailProperties, Zenon
  <1>3. Append(reports, Head(out)) = reports \o <<Head(out)>> /\ <<Head(out)>> \in Seq(Report)
    BY <1>1, <1>2, AppendIsConcat
  <1>4. (reports \o <<Head(out)>>) \o Tail(out) = reports \o (<<Head(out)>> \o Tail(out))
    BY <1>1, <1>2, <1>3, ConcatAssociative
  <1>5. <<Head(out)>> \o Tail(out) = out
    BY <1>1
  <1> QED BY <1>3, <1>4, <1>5, Zenon DEF Drain, AllReports

LEMMA ReportAppends ==
  ASSUME TypeInv, NEW x \in Report, out' = Append(out, x), reports' = reports
  PROVE  AllReports' = Append(AllReports, x) /\ Told' = Append(Told, x.rec)
  <1>1. reports \in Seq(Report) /\ out \in Seq(Report) /\ <<x>> \in Seq(Report)
    BY DEF TypeInv
  <1>2. Append(out, x) = out \o <<x>> /\ Append(reports \o out, x) = (reports \o out) \o <<x>>
    BY <1>1, AppendIsConcat, ConcatProperties, Zenon
  <1>3. AllReports' = Append(AllReports, x)
    BY <1>1, <1>2, ConcatAssociative DEF AllReports
  <1>4. PICK a \in Seq(Report) : a = AllReports
    BY ReportTypes, Zenon
  <1>5. DOMAIN a = 1 .. Len(a) /\ Len(a) \in Nat
    BY LenProperties, Zenon
  <1>6. PICK b : b = Append(a, x)
    BY Zenon
  <1>7. /\ DOMAIN b = 1 .. Len(a) + 1 /\ b[Len(a) + 1] = x
        /\ \A i \in 1 .. Len(a) : b[i] = a[i]
    BY <1>6, AppendProperties, LenProperties
  <1>8. Told' = [i \in 1 .. Len(a) + 1 |-> b[i].rec]
    BY <1>3, <1>4, <1>6, <1>7, Zenon DEF Told
  <1>9. Told = [i \in 1 .. Len(a) |-> a[i].rec] /\ Told \in Seq(Records) /\ Len(Told) = Len(a)
    BY <1>4, <1>5, ReportTypes, LenProperties DEF Told
  <1>10. x.rec \in Records
    BY Zenon DEF Report
  <1>11. PICK t : t = Append(Told, x.rec)
    BY Zenon
  <1>12. /\ t \in Seq(Records) /\ Len(t) = Len(a) + 1 /\ t[Len(a) + 1] = x.rec
         /\ \A i \in 1 .. Len(a) : t[i] = a[i].rec
    BY <1>9, <1>10, <1>11, AppendProperties
  <1>13. t = [i \in 1 .. Len(a) + 1 |-> b[i].rec]
    <2>1. t \in [1 .. Len(a) + 1 -> Records]
      BY <1>12, LenProperties, Zenon
    <2>2. \A i \in 1 .. Len(a) + 1 : t[i] = b[i].rec
      BY <1>5, <1>7, <1>12
    <2> QED BY <2>1, <2>2, Zenon
  <1> QED BY <1>3, <1>8, <1>11, <1>13, Zenon

-----------------------------------------------------------------------------
(* Steps that move no record.                                              *)

Quiet ==
  /\ UNCHANGED <<in, waiting, sent, log, worker>> /\ AllReports' = AllReports
  /\ cancelled => cancelled'
  /\ outClosed' => outClosed \/ \A w \in Workers : worker[w].pc = "done"

LEMMA QuietStep == IInv /\ TypeInv' /\ Quiet => IInv'
  <1> SUFFICES ASSUME IInv, TypeInv', Quiet PROVE IInv'
    BY Zenon
  <1>1. Told' = Told
    BY Zenon DEF Quiet, Told
  <1>2. Channel' /\ Held' /\ Logged'
    BY <1>1, Zenon DEF IInv, Quiet, Channel, Held, Logged, With, Batch, Distinct
  <1>3. Unstored' /\ Truthful' /\ Reporting'
    BY <1>1, Zenon DEF IInv, Quiet, Unstored, Truthful, Reporting, MayStore, Batch
  <1>4. Accounted'
    BY <1>1 DEF IInv, Quiet, Accounted, Due, Distinct
  <1> QED BY <1>2, <1>3, <1>4, Zenon DEF IInv

LEMMA QuietSteps ==
  ASSUME TypeInv, CloseIn \/ Cancel \/ Drain \/ RunReturns \/ UNCHANGED vars
  PROVE  TypeInv' /\ Quiet
  <1>1. AllReports' = AllReports
    <2>1. CASE Drain
      BY <2>1, DrainKeepsReports, Zenon
    <2>2. CASE CloseIn \/ Cancel \/ RunReturns \/ UNCHANGED vars
      BY <2>2, Zenon DEF CloseIn, Cancel, RunReturns, vars, AllReports
    <2> QED BY <2>1, <2>2, Zenon
  <1>2. UNCHANGED <<in, waiting, sent, log, worker>>
    BY Zenon DEF CloseIn, Cancel, Drain, RunReturns, vars, sendVars
  <1>3. cancelled' \in BOOLEAN /\ (cancelled => cancelled')
    BY Zenon DEF CloseIn, Cancel, Drain, RunReturns, vars, TypeInv
  <1>4. outClosed' => outClosed \/ \A w \in Workers : worker[w].pc = "done"
    BY Zenon DEF CloseIn, Cancel, Drain, RunReturns, vars
  <1>5. out' \in Seq(Report) /\ reports' \in Seq(Report)
    <2>1. CASE Drain
      BY <2>1, HeadTailProperties, AppendProperties, Zenon DEF Drain, TypeInv
    <2>2. CASE CloseIn \/ Cancel \/ RunReturns \/ UNCHANGED vars
      BY <2>2, Zenon DEF CloseIn, Cancel, RunReturns, vars, TypeInv
    <2> QED BY <2>1, <2>2, Zenon
  <1> QED BY <1>1, <1>2, <1>3, <1>4, <1>5, Zenon DEF TypeInv, Quiet

-----------------------------------------------------------------------------
(* Sends.                                                                  *)

\* A Send that blocks, returns an error or panics, and Close.
Unsent ==
  /\ UNCHANGED <<in, log, worker, cancelled, outClosed>> /\ AllReports' = AllReports
  /\ With("accepted")' = With("accepted")
  /\ Distinct(waiting') /\ Range(waiting') \subseteq With("waiting")'

LEMMA UnsentStep == IInv /\ TypeInv' /\ Unsent => IInv'
  <1> SUFFICES ASSUME IInv, TypeInv', Unsent PROVE IInv'
    BY Zenon
  <1>1. Told' = Told
    BY Zenon DEF Unsent, Told
  <1>2. Channel' /\ Held' /\ Logged'
    BY <1>1 DEF IInv, Unsent, Channel, Held, Logged, Batch, Distinct
  <1>3. Unstored' /\ Truthful' /\ Reporting'
    BY <1>1, Zenon DEF IInv, Unsent, Unstored, Truthful, Reporting, MayStore, Batch
  <1>4. Accounted'
    BY <1>1 DEF IInv, Unsent, Accounted, Due, Distinct
  <1> QED BY <1>2, <1>3, <1>4, Zenon DEF IInv

LEMMA RemoveSet ==
  ASSUME NEW S, NEW s \in Seq(S), NEW i \in DOMAIN s, Distinct(s)
  PROVE  LET t == SubSeq(s, 1, i - 1) \o SubSeq(s, i + 1, Len(s))
         IN  t \in Seq(S) /\ Distinct(t) /\ Range(t) \subseteq Range(s) \ {s[i]}
  <1>1. DOMAIN s = 1 .. Len(s) /\ Len(s) \in Nat /\ \A k \in 1 .. Len(s) : s[k] \in S
    BY LenProperties, ElementOfSeq, Zenon
  <1>2. PICK a, b : a = SubSeq(s, 1, i - 1) /\ b = SubSeq(s, i + 1, Len(s))
    BY Zenon
  <1>3. /\ a \in Seq(S) /\ Len(a) = i - 1 /\ \A k \in 1 .. i - 1 : a[k] = s[k]
    BY <1>1, <1>2, SubSeqProperties
  <1>4. /\ b \in Seq(S) /\ Len(b) = Len(s) - i
        /\ \A k \in 1 .. Len(s) - i : b[k] = s[i + k]
    BY <1>1, <1>2, SubSeqProperties
  <1>5. DOMAIN a = 1 .. i - 1 /\ DOMAIN b = 1 .. Len(s) - i
    BY <1>3, <1>4, LenProperties, Zenon
  <1>6. Distinct(a)
    BY <1>1, <1>3, <1>5 DEF Distinct
  <1>7. Distinct(b)
    <2> SUFFICES ASSUME NEW k \in DOMAIN b, NEW l \in DOMAIN b, b[k] = b[l] PROVE k = l
      BY Zenon DEF Distinct
    <2>0. k \in 1 .. Len(s) - i /\ l \in 1 .. Len(s) - i
      BY <1>5, Zenon
    <2>1. /\ k \in Int /\ l \in Int /\ i \in Int /\ i + k \in DOMAIN s /\ i + l \in DOMAIN s
          /\ s[i + k] = s[i + l]
      <3>1. s[i + k] = b[k] /\ s[i + l] = b[l]
        BY <1>4, <2>0, Zenon
      <3> QED BY <1>1, <2>0, <3>1
    <2>2. i + k = i + l
      BY <2>1, Zenon DEF Distinct
    <2> QED BY <2>1, <2>2
  <1>8. Range(a) \subseteq Range(s) \ {s[i]}
    BY <1>1, <1>3, <1>5 DEF Range, Distinct
  <1>9. Range(b) \subseteq Range(s) \ {s[i]}
    BY <1>1, <1>4, <1>5 DEF Range, Distinct
  <1>10. Range(a) \cap Range(b) = {}
    <2> SUFFICES ASSUME NEW k \in DOMAIN a, NEW l \in DOMAIN b, a[k] = b[l] PROVE FALSE
      BY Zenon DEF Range
    <2>1. k \in DOMAIN s /\ i + l \in DOMAIN s /\ s[k] = s[i + l] /\ k < i + l
      BY <1>1, <1>3, <1>4, <1>5
    <2>2. k = i + l
      BY <2>1, Zenon DEF Distinct
    <2> QED BY <1>1, <2>1, <2>2
  <1>11. /\ a \o b \in Seq(S) /\ Distinct(a \o b)
         /\ Range(a \o b) = Range(a) \cup Range(b)
    BY <1>3, <1>4, <1>6, <1>7, <1>10, ConcatSet
  <1> QED BY <1>2, <1>8, <1>9, <1>11, Zenon

LEMMA SentUpdate ==
  ASSUME NEW f \in [Records -> {"no", "waiting", "accepted", "refused", "panicked"}],
         NEW r \in Records, NEW v \in {"no", "waiting", "accepted", "refused", "panicked"}
  PROVE  /\ [f EXCEPT ![r] = v] \in [Records -> {"no", "waiting", "accepted", "refused", "panicked"}]
         /\ [f EXCEPT ![r] = v][r] = v /\ \A q \in Records \ {r} : [f EXCEPT ![r] = v][q] = f[q]
  BY Zenon

LEMMA SendSteps ==
  ASSUME IInv, NEW r \in Records, SendBlocks(r) \/ SendRefused(r) \/ SendPanics(r),
         UNCHANGED <<inClosed, closed, cancelled, worker, out, outClosed, log, reports>>
  PROVE  TypeInv' /\ Unsent
  <1>0. /\ sent \in [Records -> {"no", "waiting", "accepted", "refused", "panicked"}]
        /\ waiting \in Seq(Records) /\ Distinct(waiting)
        /\ Range(waiting) \subseteq With("waiting")
    BY Zenon DEF IInv, TypeInv, Channel
  <1>1. PICK v \in {"waiting", "refused", "panicked"} : sent' = [sent EXCEPT ![r] = v]
    BY Zenon DEF SendBlocks, SendRefused, SendPanics
  <1>2. /\ sent' \in [Records -> {"no", "waiting", "accepted", "refused", "panicked"}]
        /\ sent'[r] = v /\ \A q \in Records \ {r} : sent'[q] = sent[q]
    BY <1>0, <1>1, SentUpdate
  <1>3. sent[r] # "accepted" /\ in' = in
    BY Zenon DEF SendBlocks, SendRefused, SendPanics
  <1>4. With("accepted")' = With("accepted")
    BY <1>1, <1>2, <1>3, Zenon DEF With
  <1>5. With("waiting") \ {r} \subseteq With("waiting")'
    BY <1>2, Zenon DEF With
  <1>6. waiting' \in Seq(Records) /\ Distinct(waiting') /\ Range(waiting') \subseteq With("waiting")'
    <2>1. CASE SendBlocks(r)
      <3>1. waiting' = Append(waiting, r) /\ sent[r] = "no" /\ sent'[r] = "waiting"
        BY <1>0, <2>1, SentUpdate, Zenon DEF SendBlocks
      <3>2. r \notin Range(waiting) /\ r \in With("waiting")'
        BY <1>0, <3>1, Zenon DEF With
      <3> QED BY <1>0, <1>5, <3>1, <3>2, AppendSet
    <2>2. CASE SendRefused(r) /\ sent[r] = "no"
      <3>1. waiting' = waiting
        BY <2>2, Zenon DEF SendRefused
      <3>2. r \notin Range(waiting)
        BY <1>0, <2>2, Zenon DEF With
      <3> QED BY <1>0, <1>5, <3>1, <3>2, Zenon
    <2>3. CASE SendRefused(r) /\ sent[r] # "no"
      <3>1. PICK i \in DOMAIN waiting :
              /\ waiting[i] = r
              /\ waiting' = SubSeq(waiting, 1, i - 1) \o SubSeq(waiting, i + 1, Len(waiting))
        BY <2>3, Zenon DEF SendRefused
      <3> QED BY <1>0, <1>5, <3>1, RemoveSet, Zenon
    <2>4. CASE SendPanics(r)
      <3>1. waiting' = waiting /\ sent[r] = "no"
        BY <2>4, Zenon DEF SendPanics
      <3>2. r \notin Range(waiting)
        BY <1>0, <3>1, Zenon DEF With
      <3> QED BY <1>0, <1>5, <3>1, <3>2, Zenon
    <2> QED BY <2>1, <2>2, <2>3, <2>4, Zenon
  <1>7. AllReports' = AllReports
    BY Zenon DEF AllReports
  <1> QED BY <1>2, <1>3, <1>4, <1>6, <1>7, Zenon DEF IInv, TypeInv, Unsent

LEMMA CloseStep == IInv /\ Close => TypeInv' /\ Unsent
  <1> SUFFICES ASSUME IInv, Close PROVE TypeInv' /\ Unsent
    BY Zenon
  <1>1. sent \in [Records -> {"no", "waiting", "accepted", "refused", "panicked"}]
    BY Zenon DEF IInv, TypeInv
  <1>2. sent' = [r \in Records |-> IF sent[r] = "waiting" THEN "refused" ELSE sent[r]]
    BY Zenon DEF Close
  <1>3. sent' \in [Records -> {"no", "waiting", "accepted", "refused", "panicked"}]
    BY <1>1, <1>2, Zenon
  <1>4. With("accepted")' = With("accepted")
    BY <1>1, <1>2, Zenon DEF With
  <1>5. waiting' = <<>>
    BY Zenon DEF Close
  <1>6. waiting' \in Seq(Records) /\ Distinct(waiting') /\ Range(waiting') \subseteq With("waiting")'
    BY <1>5 DEF Distinct, Range
  <1>7. AllReports' = AllReports
    BY Zenon DEF AllReports, Close
  <1> QED BY <1>3, <1>4, <1>6, <1>7, Zenon DEF IInv, TypeInv, Unsent, Close

\* A Send that is queued: its record was nowhere before.
LEMMA QueuedStep ==
  ASSUME IInv, NEW r \in Records, SendQueued(r),
         UNCHANGED <<inClosed, closed, cancelled, worker, out, outClosed, log, reports>>
  PROVE  IInv'
  <1>0. /\ sent \in [Records -> {"no", "waiting", "accepted", "refused", "panicked"}]
        /\ in \in Seq(Records) /\ Distinct(in) /\ Range(in) \subseteq With("accepted")
    BY Zenon DEF IInv, TypeInv, Channel
  <1>1. /\ sent' \in [Records -> {"no", "waiting", "accepted", "refused", "panicked"}]
        /\ sent'[r] = "accepted" /\ sent[r] = "no" /\ \A q \in Records \ {r} : sent'[q] = sent[q]
    BY <1>0, SentUpdate DEF SendQueued
  <1>2. With("accepted")' = With("accepted") \cup {r} /\ With("waiting")' = With("waiting")
    BY <1>1, Zenon DEF With
  <1>3. r \notin With("accepted")
    BY <1>1, Zenon DEF With
  <1>4. in' \in Seq(Records) /\ Distinct(in') /\ Range(in') = Range(in) \cup {r}
    BY <1>0, <1>3, AppendSet DEF SendQueued
  <1>5. AllReports' = AllReports /\ Told' = Told
    BY Zenon DEF AllReports, Told
  <1>6. waiting' = waiting
    BY Zenon DEF SendQueued
  <1>7. TypeInv'
    BY <1>1, <1>4, <1>6, Zenon DEF IInv, TypeInv
  <1>8. \A w \in Workers : Batch(w)' = Batch(w)
    BY Zenon DEF Batch
  <1>9. Channel'
    BY <1>2, <1>3, <1>4, <1>5, <1>6, <1>8 DEF IInv, Channel, Held, Logged
  <1>10. Held' /\ Logged'
    BY <1>2, <1>5, <1>8, Zenon DEF IInv, Held, Logged, Distinct
  <1>11. Unstored' /\ Truthful' /\ Reporting'
    BY <1>5, <1>8, Zenon DEF IInv, Unstored, Truthful, Reporting, MayStore
  <1>12. Accounted'
    BY <1>5 DEF IInv, Accounted, Due, Distinct
  <1> QED BY <1>7, <1>9, <1>10, <1>11, <1>12, Zenon DEF IInv


-----------------------------------------------------------------------------
(* Steps of a worker.                                                      *)

LEMMA WorkerUpdate ==
  ASSUME TypeInv, NEW w \in Workers, NEW new \in Local, worker' = [worker EXCEPT ![w] = new]
  PROVE  worker' \in [Workers -> Local] /\ worker'[w] = new /\ \A v \in Workers \ {w} : worker'[v] = worker[v]
  BY Zenon DEF TypeInv

LEMMA DueInBatch ==
  ASSUME NEW w \in Workers
  PROVE  Due(w) \subseteq Batch(w) /\ (worker[w].pc # "report" => Due(w) = Batch(w))
  BY Zenon DEF Due, Batch, Range

\* Stop, TimerFlush and ReportAbandoned keep the batch.
Keeps(w) ==
  /\ UNCHANGED <<in, waiting, sent, log, cancelled, outClosed>> /\ AllReports' = AllReports
  /\ \A v \in Workers \ {w} : worker'[v] = worker[v]
  /\ worker'[w].batch = worker[w].batch
  /\ worker[w].pc # "done" /\ worker'[w].pc # "report"
  /\ worker'[w].pc = "produce" => worker'[w].batch # <<>>
  /\ worker'[w].pc = "produce" => worker'[w].dead \/ ~cancelled
  /\ ~cancelled => worker[w].pc = "select" /\ (worker'[w].pc = "done" => worker'[w].batch = <<>>)

LEMMA KeepsStep ==
  ASSUME IInv, TypeInv', NEW w \in Workers, Keeps(w)
  PROVE  IInv'
  <1>1. Told' = Told /\ \A v \in Workers : worker'[v].batch = worker[v].batch
    BY Zenon DEF Keeps, Told
  <1>2. \A v \in Workers : Batch(v)' = Batch(v)
    BY <1>1, Zenon DEF Batch
  <1>3. Channel' /\ Held' /\ Logged'
    BY <1>1, <1>2 DEF IInv, Keeps, Channel, Held, Logged, With, Distinct
  <1>4. Unstored'
    BY <1>1, <1>2, Zenon DEF IInv, Keeps, Unstored, MayStore
  <1>5. Truthful' /\ Reporting'
    BY <1>1, <1>2, Zenon DEF IInv, Keeps, Truthful, Reporting
  <1>6. Accounted'
    <2> SUFFICES ASSUME ~cancelled PROVE Accounted'
      BY Zenon DEF Accounted, Keeps
    <2>1. \A v \in Workers \ {w} : Due(v)' = Due(v)
      BY Zenon DEF Keeps, Due
    <2>2. worker[w].pc # "report" /\ worker'[w].pc # "report"
      BY Zenon DEF Keeps
    <2>3. Due(w)' = Due(w)
      BY <1>1, <2>2, Zenon DEF Due
    <2> QED BY <1>1, <2>1, <2>2, <2>3 DEF IInv, Keeps, Accounted, Distinct
  <1> QED BY <1>3, <1>4, <1>5, <1>6, Zenon DEF IInv

LEMMA KeepsSteps ==
  ASSUME IInv, NEW w \in Workers, Stop(w) \/ TimerFlush(w) \/ ReportAbandoned(w)
  PROVE  TypeInv' /\ Keeps(w)
  <1>0. TypeInv /\ worker[w] \in Local /\ cancelled \in BOOLEAN
    BY Zenon DEF IInv, TypeInv
  <1>1. UNCHANGED <<in, waiting, sent, log, cancelled, outClosed, out, reports>>
    BY Zenon DEF Stop, TimerFlush, ReportAbandoned, sendVars
  <1>2. AllReports' = AllReports
    BY <1>1, Zenon DEF AllReports
  <1>3. PICK new \in Local :
          /\ worker' = [worker EXCEPT ![w] = new] /\ new.batch = worker[w].batch
          /\ worker[w].pc # "done" /\ new.pc # "report"
          /\ new.pc = "produce" => new.batch # <<>>
          /\ new.pc = "produce" => new.dead \/ ~cancelled
          /\ ~cancelled => worker[w].pc = "select" /\ (new.pc = "done" => new.batch = <<>>)
    <2>1. CASE Stop(w)
      <3>1. PICK new : new = Flushed(worker[w], TRUE)
        BY Zenon
      <3>2. Entered(worker[w], new, TRUE)
        BY <1>0, <3>1, FlushedEntered, Zenon
      <3>3. worker' = [worker EXCEPT ![w] = new] /\ worker[w].pc = "select"
        BY <2>1, <3>1, Zenon DEF Stop
      <3> QED BY <3>2, <3>3, Zenon DEF Entered
    <2>2. CASE TimerFlush(w)
      <3>1. PICK new : new = [Flushed(worker[w], FALSE) EXCEPT !.timer = FALSE]
        BY Zenon
      <3>2. Entered(worker[w], new, FALSE)
        BY <1>0, <3>1, FlushedEntered, Zenon
      <3>3. worker' = [worker EXCEPT ![w] = new] /\ worker[w].pc = "select"
        BY <2>2, <3>1, Zenon DEF TimerFlush
      <3> QED BY <3>2, <3>3, Zenon DEF Entered
    <2>3. CASE ReportAbandoned(w)
      <3>1. PICK p : p = IF worker[w].exiting THEN "done" ELSE "select"
        BY Zenon
      <3>2. PICK new : new = [worker[w] EXCEPT !.pc = p, !.next = 1]
        BY Zenon
      <3>3. new \in Local /\ new.pc = p /\ new.batch = worker[w].batch /\ p \in {"done", "select"}
        BY <1>0, <3>1, <3>2, Zenon DEF Local
      <3>4. worker' = [worker EXCEPT ![w].pc = p, ![w].next = 1] /\ worker[w].pc = "report" /\ cancelled
        BY <2>3, <3>1, Zenon DEF ReportAbandoned
      <3>5. worker' = [worker EXCEPT ![w] = new]
        BY <1>0, <3>2, <3>4, ZenonT(30) DEF TypeInv
      <3> QED BY <3>3, <3>4, <3>5, Zenon
    <2> QED BY <2>1, <2>2, <2>3, Zenon
  <1>4. worker' \in [Workers -> Local] /\ worker'[w] = new /\ \A v \in Workers \ {w} : worker'[v] = worker[v]
    BY <1>0, <1>3, WorkerUpdate, Zenon
  <1>5. Keeps(w)
    BY <1>1, <1>2, <1>3, <1>4, Zenon DEF Keeps
  <1> QED BY <1>0, <1>1, <1>4, <1>5, Zenon DEF TypeInv

\* Receive moves the record h from the channel to the batch, and a waiting Send
\* may take its place in the channel.
Takes(w, h) ==
  /\ UNCHANGED <<log, cancelled, outClosed>> /\ AllReports' = AllReports
  /\ \A v \in Workers \ {w} : worker'[v] = worker[v]
  /\ h \in Range(in) /\ worker'[w].batch = Append(worker[w].batch, h)
  /\ worker[w].pc = "select" /\ worker'[w].pc \in {"select", "produce"}
  /\ worker'[w].pc = "produce" => worker'[w].dead = cancelled
  /\ Distinct(in') /\ h \notin Range(in') /\ Range(in') \subseteq With("accepted")'
  /\ Range(in') \cap With("accepted") \subseteq Range(in)
  /\ Distinct(waiting') /\ Range(waiting') \subseteq With("waiting")'
  /\ With("accepted") \subseteq With("accepted")'

LEMMA TakesStep ==
  ASSUME IInv, TypeInv', NEW w \in Workers, NEW h, Takes(w, h)
  PROVE  IInv'
  <1>0. worker[w].batch \in Seq(Records) /\ h \in Records
    BY Zenon DEF IInv, TypeInv, Local, Takes, Channel, With
  <1>1. Told' = Told
    BY Zenon DEF Takes, Told
  <1>2. \A v \in Workers \ {w} : worker'[v] = worker[v] /\ Batch(v)' = Batch(v)
    BY Zenon DEF Takes, Batch
  <1>3. h \notin Batch(w) /\ h \in With("accepted") /\ h \notin Range(log) /\ h \notin Range(Told)
    BY Zenon DEF IInv, Channel, Takes
  <1>4. PICK b : b = Append(worker[w].batch, h)
    BY Zenon
  <1>5. b \in Seq(Records) /\ Range(b) = Batch(w) \cup {h} /\ Distinct(b) /\ b # <<>>
    <2>1. Distinct(worker[w].batch)
      BY Zenon DEF IInv, Held
    <2>2. b # <<>>
      BY <1>0, <1>4, AppendProperties
    <2> QED BY <1>0, <1>3, <1>4, <2>1, <2>2, AppendSet DEF Batch
  <1>6. Batch(w)' = Batch(w) \cup {h} /\ worker'[w].batch = b
    BY <1>4, <1>5, Zenon DEF Takes, Batch
  <1>7. Channel'
    <2>1. \A x \in Range(in') : x \in Range(in) \/ x \notin With("accepted")
      BY Zenon DEF Takes
    <2>2. Range(in') \cap Range(log) = {} /\ Range(in') \cap Range(Told) = {}
      BY <2>1, Zenon DEF IInv, Channel, Logged
    <2>3. \A v \in Workers : Range(in') \cap Batch(v) = {}
      BY <2>1, Zenon DEF IInv, Channel, Held
    <2>4. \A v \in Workers : Range(in') \cap Batch(v)' = {}
      BY <1>2, <1>6, <2>3, Zenon DEF Takes
    <2> QED BY <1>1, <2>2, <2>4, Zenon DEF Channel, Takes
  <1>8. Held'
    <2>1. \A v \in Workers \ {w} : h \notin Batch(v)
      BY Zenon DEF IInv, Channel, Takes
    <2>2. \A u, v \in Workers : u # v => Batch(u)' \cap Batch(v)' = {}
      BY <1>2, <1>6, <2>1 DEF IInv, Held
    <2>3. \A v \in Workers : Distinct(worker'[v].batch) /\ Batch(v)' \subseteq With("accepted")'
      BY <1>2, <1>3, <1>5, <1>6, Zenon DEF IInv, Held, Takes
    <2> QED BY <2>2, <2>3, Zenon DEF Held
  <1>9. Logged'
    BY <1>1, Zenon DEF IInv, Logged, Takes
  <1>10. Unstored'
    <2>1. MayStore(w)' => MayStore(w)
      BY Zenon DEF MayStore, Takes
    <2>2. \A v \in Workers \ {w} : MayStore(v)' = MayStore(v)
      BY <1>2, Zenon DEF MayStore, Takes
    <2> QED BY <1>2, <1>3, <1>5, <1>6, <2>1, <2>2, Zenon DEF IInv, Unstored, Takes
  <1>11. Truthful' /\ Reporting'
    BY <1>2, Zenon DEF IInv, Truthful, Reporting, Takes
  <1>12. Accounted'
    <2> SUFFICES ASSUME ~cancelled PROVE Accounted'
      BY Zenon DEF Accounted, Takes
    <2>1. \A v \in Workers \ {w} : Due(v)' = Due(v)
      BY <1>2, Zenon DEF Due
    <2>2. Due(w) = Batch(w)
      BY DueInBatch, Zenon DEF Takes
    <2>3. Due(w)' \subseteq Batch(w)'
      BY Zenon DEF Due, Batch, Range
    <2>4. \A v \in Workers : Due(v)' \cap Range(Told) = {}
      BY <1>3, <1>6, <2>1, <2>2, <2>3 DEF IInv, Accounted
    <2> QED BY <1>1, <1>2, <2>1, <2>4 DEF IInv, Accounted, Distinct, Takes
  <1> QED BY <1>7, <1>8, <1>9, <1>10, <1>11, <1>12, Zenon DEF IInv

LEMMA ReceiveTakes ==
  ASSUME IInv, NEW w \in Workers, Receive(w)
  PROVE  TypeInv' /\ Takes(w, Head(in))
  <1>0. /\ TypeInv /\ worker[w] \in Local /\ cancelled \in BOOLEAN
        /\ sent \in [Records -> {"no", "waiting", "accepted", "refused", "panicked"}]
        /\ in \in Seq(Records) /\ Distinct(in) /\ Range(in) \subseteq With("accepted")
        /\ waiting \in Seq(Records) /\ Distinct(waiting) /\ Range(waiting) \subseteq With("waiting")
        /\ worker[w].batch \in Seq(Records) /\ worker[w].timer \in BOOLEAN
    BY Zenon DEF IInv, TypeInv, Channel, Local
  <1>1. in # <<>> /\ worker[w].pc = "select"
    BY Zenon DEF Receive
  <1>2. PICK h \in Records : h = Head(in)
    BY <1>0, <1>1, TailSet, Zenon
  <1>3. PICK b \in Seq(Records) : b = Append(worker[w].batch, h)
    BY <1>0, <1>2, AppendSet, Zenon
  <1>4. PICK t : t = ArmTimer(worker[w])
    BY Zenon
  <1>5. t \in BOOLEAN
    BY <1>0, <1>4, Zenon DEF ArmTimer
  <1>6. PICK wk : wk = [worker[w] EXCEPT !.batch = b, !.timer = t]
    BY Zenon
  <1>7. wk \in Local /\ wk.batch = b /\ wk.pc = "select"
    BY <1>0, <1>1, <1>3, <1>5, <1>6, Zenon DEF Local
  <1>8. worker' = [worker EXCEPT ![w] = IF Full(wk.batch) THEN Flushed(wk, FALSE) ELSE wk]
    BY <1>2, <1>3, <1>4, <1>6, Zenon DEF Receive
  <1>9. Entered(wk, Flushed(wk, FALSE), FALSE)
    BY <1>0, <1>7, FlushedEntered, Zenon
  <1>10. PICK new \in Local : /\ worker' = [worker EXCEPT ![w] = new] /\ new.batch = b
                              /\ new.pc \in {"select", "produce"}
                              /\ new.pc = "produce" => new.dead = cancelled
    <2>1. CASE Full(wk.batch)
      BY <1>7, <1>8, <1>9, <2>1, Zenon DEF Entered
    <2>2. CASE ~Full(wk.batch)
      BY <1>7, <1>8, <2>2, Zenon
    <2> QED BY <2>1, <2>2, Zenon
  <1>11. worker' \in [Workers -> Local] /\ worker'[w] = new /\ \A v \in Workers \ {w} : worker'[v] = worker[v]
    BY <1>0, <1>10, WorkerUpdate, Zenon
  <1>12. UNCHANGED <<log, cancelled, outClosed, out, reports>>
    BY Zenon DEF Receive
  <1>13. AllReports' = AllReports
    BY <1>12, Zenon DEF AllReports
  <1>14. PICK tl \in Seq(Records) : tl = Tail(in)
    BY <1>0, <1>1, TailSet, Zenon
  <1>15. /\ h \in Range(in) /\ Range(tl) \subseteq Range(in) /\ h \notin Range(tl) /\ Distinct(tl)
    BY <1>0, <1>1, <1>2, <1>14, TailSet
  <1>16. /\ in' \in Seq(Records) /\ waiting' \in Seq(Records)
         /\ sent' \in [Records -> {"no", "waiting", "accepted", "refused", "panicked"}]
         /\ Distinct(in') /\ h \notin Range(in') /\ Range(in') \subseteq With("accepted")'
         /\ Range(in') \cap With("accepted") \subseteq Range(in)
         /\ Distinct(waiting') /\ Range(waiting') \subseteq With("waiting")'
         /\ With("accepted") \subseteq With("accepted")'
    <2>1. CASE waiting = <<>>
      <3>1. in' = tl /\ sent' = sent /\ waiting' = waiting
        BY <1>14, <2>1, Zenon DEF Receive, sendVars
      <3> QED BY <1>0, <1>14, <1>15, <3>1, Zenon DEF With
    <2>2. CASE waiting # <<>>
      <3>1. PICK x \in Records : x = Head(waiting)
        BY <1>0, <2>2, TailSet, Zenon
      <3>2. /\ Tail(waiting) \in Seq(Records) /\ Distinct(Tail(waiting))
            /\ Range(Tail(waiting)) \subseteq Range(waiting) \ {x} /\ x \in Range(waiting)
        BY <1>0, <2>2, <3>1, TailSet
      <3>3. /\ in' = Append(tl, x) /\ waiting' = Tail(waiting)
            /\ sent' = [sent EXCEPT ![x] = "accepted"]
        BY <1>14, <2>2, <3>1, Zenon DEF Receive
      <3>4. /\ sent' \in [Records -> {"no", "waiting", "accepted", "refused", "panicked"}]
            /\ sent'[x] = "accepted" /\ \A q \in Records \ {x} : sent'[q] = sent[q]
        BY <1>0, <3>3, SentUpdate, SMTT(30)
      <3>5. x \in With("waiting") /\ x \notin With("accepted")
        BY <1>0, <3>2, Zenon DEF With
      <3>6. x \notin Range(in) /\ x # h
        BY <1>0, <1>15, <3>5, Zenon
      <3>7. in' \in Seq(Records) /\ Range(in') = Range(tl) \cup {x} /\ Distinct(in')
        <4>1. tl \in Seq(Records) /\ Distinct(tl) /\ x \notin Range(tl) /\ in' = Append(tl, x)
          BY <1>15, <3>3, <3>6, Zenon
        <4> QED BY <4>1, AppendSet
      <3>8. With("accepted")' = With("accepted") \cup {x}
        BY <3>4, Zenon DEF With
      <3>9. With("waiting") \ {x} \subseteq With("waiting")'
        BY <3>4, Zenon DEF With
      <3> QED BY <1>0, <1>15, <3>2, <3>3, <3>4, <3>5, <3>6, <3>7, <3>8, <3>9, Zenon
    <2> QED BY <2>1, <2>2, Zenon
  <1>17. Takes(w, h)
    BY <1>1, <1>3, <1>10, <1>11, <1>12, <1>13, <1>15, <1>16, Zenon DEF Takes
  <1> QED BY <1>0, <1>2, <1>11, <1>12, <1>16, <1>17, Zenon DEF TypeInv

\* A call of ProduceSyncResult adds a part of the batch to the log.
Stores(w, part) ==
  /\ UNCHANGED <<in, waiting, sent, cancelled, outClosed>> /\ AllReports' = AllReports
  /\ \A v \in Workers \ {w} : worker'[v] = worker[v]
  /\ worker'[w].batch = worker[w].batch /\ worker'[w].next = 1
  /\ worker[w].pc = "produce" /\ worker'[w].pc = "report"
  /\ log' = log \o part /\ part \in Seq(Records)
  /\ Distinct(part) /\ Range(part) \subseteq Batch(w)
  /\ worker[w].dead => Range(part) = {}
  /\ ~worker'[w].failed => Range(part) = Batch(w)

LEMMA StoresStep ==
  ASSUME IInv, TypeInv', NEW w \in Workers, NEW part, Stores(w, part)
  PROVE  IInv'
  <1>1. Told' = Told
    BY Zenon DEF Stores, Told
  <1>2. \A v \in Workers : worker'[v].batch = worker[v].batch
    BY Zenon DEF Stores
  <1>3. \A v \in Workers : Batch(v)' = Batch(v)
    BY <1>2, Zenon DEF Batch
  <1>4. Range(part) \cap Range(log) = {}
    BY Zenon DEF IInv, Unstored, MayStore, Stores
  <1>5. Range(log') = Range(log) \cup Range(part) /\ Distinct(log')
    <2>1. log \in Seq(Records) /\ Distinct(log)
      BY Zenon DEF IInv, TypeInv, Logged
    <2> QED BY <1>4, <2>1, ConcatSet DEF Stores
  <1>6. Range(part) \subseteq With("accepted") /\ With("accepted")' = With("accepted")
    BY Zenon DEF IInv, Held, Stores, With
  <1>7. Channel'
    <2>1. Range(in) \cap Range(log') = {}
      BY <1>5, Zenon DEF IInv, Channel, Stores
    <2> QED BY <1>1, <1>3, <1>6, <2>1, Zenon DEF IInv, Channel, Stores, With, Distinct
  <1>8. Held'
    BY <1>2, <1>3, <1>6, Zenon DEF IInv, Held
  <1>9. Logged'
    BY <1>1, <1>5, <1>6, Zenon DEF IInv, Logged
  <1>10. Unstored'
    <2>1. \A v \in Workers \ {w} : MayStore(v)' = MayStore(v) /\ Batch(v) \cap Range(part) = {}
      BY Zenon DEF IInv, MayStore, Held, Stores
    <2>2. ~MayStore(w)'
      BY Zenon DEF MayStore, Stores
    <2>3. /\ \A v \in Workers : MayStore(v) => Batch(v) \cap Range(log) = {}
          /\ \A v \in Workers : worker[v].pc = "produce" => worker[v].batch # <<>>
      BY Zenon DEF IInv, Unstored
    <2>4. \A v \in Workers : MayStore(v)' => Batch(v)' \cap Range(log') = {}
      BY <1>3, <1>5, <2>1, <2>2, <2>3, Zenon
    <2>5. \A v \in Workers : worker'[v].pc = "produce" => worker'[v].batch # <<>>
      BY <1>2, <2>3, Zenon DEF Stores
    <2> QED BY <2>4, <2>5, Zenon DEF Unstored
  <1>11. Truthful'
    BY <1>3, <1>5, Zenon DEF IInv, Truthful, Stores
  <1>12. Reporting'
    <2>1. worker[w].batch \in Seq(Records) /\ worker[w].batch # <<>>
      BY Zenon DEF IInv, TypeInv, Local, Unstored, Stores
    <2>2. worker'[w].next >= 1 /\ worker'[w].next <= Len(worker'[w].batch)
      BY <2>1, EmptySeq, LenProperties DEF Stores
    <2> QED BY <2>2, Zenon DEF IInv, Reporting, Stores
  <1>13. Accounted'
    <2> SUFFICES ASSUME ~cancelled PROVE Accounted'
      BY Zenon DEF Accounted, Stores
    <2>1. \A v \in Workers \ {w} : Due(v)' = Due(v)
      BY Zenon DEF Due, Stores
    <2>2. Due(w) = Batch(w)
      BY DueInBatch, Zenon DEF Stores
    <2>3. Due(w)' = Batch(w)
      <3>1. DOMAIN worker[w].batch = 1 .. Len(worker[w].batch)
        BY LenProperties, Zenon DEF IInv, TypeInv, Local
      <3>2. \A k \in DOMAIN worker'[w].batch : k >= worker'[w].next
        BY <3>1 DEF Stores
      <3> QED BY <1>2, <3>2, Zenon DEF Due, Batch, Range
    <2>4. \A v \in Workers : Due(v)' = Due(v)
      BY <2>1, <2>2, <2>3, Zenon
    <2>5. ASSUME NEW r \in Range(log') \ Range(Told)
          PROVE  \E v \in Workers : worker'[v].pc = "report" /\ r \in Due(v)'
      <3>1. CASE r \in Range(part)
        BY <2>3, <3>1, Zenon DEF Stores
      <3>2. CASE r \in Range(log)
        <4>1. PICK v \in Workers : worker[v].pc = "report" /\ r \in Due(v)
          BY <2>5, <3>2, Zenon DEF IInv, Accounted
        <4> QED BY <2>4, <4>1, Zenon DEF Stores
      <3> QED BY <1>5, <2>5, <3>1, <3>2, Zenon
    <2> QED BY <1>1, <2>4, <2>5, Zenon DEF IInv, Accounted, Distinct, Stores
  <1> QED BY <1>7, <1>8, <1>9, <1>10, <1>11, <1>12, <1>13, Zenon DEF IInv

LEMMA PartsAreParts ==
  ASSUME NEW b \in Seq(Records), Distinct(b), NEW part \in PartsOf(b)
  PROVE  part \in Seq(Records) /\ Distinct(part) /\ Range(part) \subseteq Range(b)
  <1>0. DOMAIN b = 1 .. Len(b) /\ Len(b) \in Nat /\ \A i \in 1 .. Len(b) : b[i] \in Records
    BY LenProperties, ElementOfSeq, Zenon
  <1>1. PICK f \in Increasing(Len(b)) : part = [i \in DOMAIN f |-> b[f[i]]]
    BY Zenon DEF PartsOf
  <1>2. PICK k \in 0 .. Len(b) :
          f \in [1 .. k -> 1 .. Len(b)] /\ \A i, j \in 1 .. k : i < j => f[i] < f[j]
    BY Zenon DEF Increasing
  <1>3. k \in Nat
    BY <1>0
  <1>4. part \in [1 .. k -> Records] /\ \A i \in 1 .. k : part[i] = b[f[i]] /\ f[i] \in DOMAIN b
    BY <1>0, <1>1, <1>2, Zenon
  <1>5. part \in Seq(Records) /\ DOMAIN part = 1 .. k
    BY <1>3, <1>4, SeqDef
  <1>6. Range(part) \subseteq Range(b)
    BY <1>4, <1>5 DEF Range
  <1>7. ASSUME NEW i \in 1 .. k, NEW j \in 1 .. k, part[i] = part[j] PROVE i = j
    <2>1. f[i] = f[j] /\ f[i] \in Int
      BY <1>0, <1>4, <1>7 DEF Distinct
    <2>2. ~(i < j) /\ ~(j < i)
      BY <1>2, <2>1
    <2> QED BY <1>3, <2>2
  <1> QED BY <1>5, <1>6, <1>7, Zenon DEF Distinct

LEMMA ProduceStores ==
  ASSUME IInv, NEW w \in Workers, ProduceSyncResult(w)
  PROVE  TypeInv' /\ \E part : Stores(w, part)
  <1>0. TypeInv /\ worker[w] \in Local /\ worker[w].batch \in Seq(Records) /\ log \in Seq(Records)
    BY Zenon DEF IInv, TypeInv, Local
  <1>1. PICK part, no :
          /\ no \in BOOLEAN
          /\ worker' = [worker EXCEPT ![w].pc = "report", ![w].next = 1, ![w].failed = no]
          /\ log' = log \o part
          /\ \/ ~no /\ ~worker[w].dead /\ part = worker[w].batch
             \/ no /\ part \in MayBeStored(worker[w])
    BY Zenon DEF ProduceSyncResult
  <1>2. Distinct(worker[w].batch)
    BY Zenon DEF IInv, Held
  <1>3. /\ part \in Seq(Records) /\ Distinct(part) /\ Range(part) \subseteq Batch(w)
        /\ worker[w].dead => Range(part) = {}
        /\ ~no => Range(part) = Batch(w)
    <2>1. CASE ~no
      BY <1>0, <1>1, <1>2, <2>1, Zenon DEF Batch
    <2>2. CASE no /\ worker[w].dead
      <3>1. part = <<>>
        BY <1>1, <2>2, Zenon DEF MayBeStored
      <3> QED BY <2>2, <3>1 DEF Distinct, Range
    <2>3. CASE no /\ ~worker[w].dead
      <3>1. part \in PartsOf(worker[w].batch)
        BY <1>1, <2>3, Zenon DEF MayBeStored
      <3> QED BY <1>0, <1>2, <2>3, <3>1, PartsAreParts, Zenon DEF Batch
    <2> QED BY <2>1, <2>2, <2>3, Zenon
  <1>4. PICK new : new = [worker[w] EXCEPT !.pc = "report", !.next = 1, !.failed = no]
    BY Zenon
  <1>5. /\ new \in Local /\ new.pc = "report" /\ new.next = 1 /\ new.failed = no
        /\ new.batch = worker[w].batch
    BY <1>0, <1>1, <1>4, Zenon DEF Local
  <1>6. worker' = [worker EXCEPT ![w] = new]
    BY <1>0, <1>1, <1>4, ZenonT(30) DEF TypeInv
  <1>7. worker' \in [Workers -> Local] /\ worker'[w] = new /\ \A v \in Workers \ {w} : worker'[v] = worker[v]
    BY <1>0, <1>5, <1>6, WorkerUpdate, Zenon
  <1>8. UNCHANGED <<in, waiting, sent, cancelled, outClosed, out, reports>> /\ worker[w].pc = "produce"
    BY Zenon DEF ProduceSyncResult, sendVars
  <1>9. AllReports' = AllReports
    BY <1>8, Zenon DEF AllReports
  <1>10. Stores(w, part)
    BY <1>1, <1>3, <1>5, <1>7, <1>8, <1>9, Zenon DEF Stores
  <1>11. log' \in Seq(Records)
    BY <1>0, <1>1, <1>3, ConcatSet, Zenon
  <1>12. TypeInv'
    BY <1>0, <1>7, <1>8, <1>11, Zenon DEF TypeInv
  <1> QED BY <1>10, <1>12, Zenon

\* ReportOne reports the batch's next record, and empties the batch after the last.
Tells(w, x) ==
  /\ UNCHANGED <<in, waiting, sent, log, cancelled, outClosed>>
  /\ AllReports' = Append(AllReports, x) /\ Told' = Append(Told, x.rec) /\ x \in Report
  /\ x.rec = worker[w].batch[worker[w].next] /\ (x.ok => ~worker[w].failed)
  /\ \A v \in Workers \ {w} : worker'[v] = worker[v]
  /\ worker[w].pc = "report"
  /\ worker[w].next < Len(worker[w].batch) =>
        /\ worker'[w].pc = "report" /\ worker'[w].batch = worker[w].batch
        /\ worker'[w].next = worker[w].next + 1 /\ worker'[w].failed = worker[w].failed
  /\ ~(worker[w].next < Len(worker[w].batch)) =>
        worker'[w].batch = <<>> /\ worker'[w].pc \in {"done", "select"}

LEMMA TellsStep ==
  ASSUME IInv, TypeInv', NEW w \in Workers, NEW x, Tells(w, x)
  PROVE  IInv'
  <1>0. PICK b, n : b = worker[w].batch /\ n = worker[w].next
    BY Zenon
  <1>1. /\ b \in Seq(Records) /\ Distinct(b) /\ DOMAIN b = 1 .. Len(b) /\ Len(b) \in Nat
        /\ n \in Nat /\ n \in DOMAIN b
    <2>1. b \in Seq(Records) /\ n \in Nat
      BY <1>0, Zenon DEF IInv, TypeInv, Local
    <2>2. DOMAIN b = 1 .. Len(b) /\ Len(b) \in Nat
      BY <2>1, LenProperties, Zenon
    <2>3. Distinct(b) /\ n >= 1 /\ n <= Len(b)
      BY <1>0, Zenon DEF IInv, Held, Reporting, Tells
    <2> QED BY <2>1, <2>2, <2>3
  <1>2. x.rec = b[n] /\ x.rec \in Batch(w) /\ x.rec \in Records
    BY <1>0, <1>1, ElementOfSeq, Zenon DEF Tells, Batch, Range
  <1>3. \A v \in Workers \ {w} : worker'[v] = worker[v] /\ Batch(v)' = Batch(v) /\ Due(v)' = Due(v)
    BY Zenon DEF Tells, Batch, Due
  <1>4. Distinct(worker'[w].batch) /\ Batch(w)' \subseteq Batch(w)
    <2>1. CASE n < Len(b)
      BY <1>0, <1>1, <2>1, Zenon DEF Tells, Batch
    <2>2. CASE ~(n < Len(b))
      <3>1. worker'[w].batch = <<>>
        BY <1>0, <2>2, Zenon DEF Tells
      <3> QED BY <3>1 DEF Batch, Distinct, Range
    <2> QED BY <2>1, <2>2, Zenon
  <1>5. Told \in Seq(Records) /\ AllReports \in Seq(Report)
    BY ReportTypes, Zenon DEF IInv
  <1>6. Range(Told') = Range(Told) \cup {x.rec}
    <2>1. Told' = Append(Told, x.rec)
      BY Zenon DEF Tells
    <2> QED BY <1>2, <1>5, <2>1, AppendSet
  <1>7. Channel'
    <2>1. Range(in) \cap Range(Told') = {}
      BY <1>2, <1>6, Zenon DEF IInv, Channel
    <2>2. \A v \in Workers : Range(in) \cap Batch(v)' = {}
      BY <1>3, <1>4, Zenon DEF IInv, Channel
    <2> QED BY <2>1, <2>2, Zenon DEF IInv, Channel, Tells, With, Distinct
  <1>8. Held'
    <2>1. With("accepted")' = With("accepted")
      BY Zenon DEF With, Tells
    <2>2. \A v \in Workers : Batch(v)' \subseteq Batch(v)
      BY <1>3, <1>4, Zenon
    <2>3. \A v \in Workers : Distinct(worker'[v].batch) /\ Batch(v)' \subseteq With("accepted")
      BY <1>3, <1>4, <2>2, Zenon DEF IInv, Held
    <2>4. \A u, v \in Workers : u # v => Batch(u)' \cap Batch(v)' = {}
      BY <2>2, Zenon DEF IInv, Held
    <2> QED BY <2>1, <2>3, <2>4, Zenon DEF Held
  <1>9. Logged'
    BY <1>2, <1>6, Zenon DEF IInv, Logged, Held, Tells, With, Distinct
  <1>10. Unstored'
    <2>1. \A v \in Workers \ {w} : MayStore(v)' = MayStore(v)
      BY <1>3, Zenon DEF MayStore, Tells
    <2>2. MayStore(w)' => Batch(w)' = {}
      <3>1. MayStore(w)' => worker'[w].batch = <<>>
        BY Zenon DEF MayStore, Tells
      <3> QED BY <3>1 DEF Batch, Range
    <2> QED BY <1>3, <2>1, <2>2, Zenon DEF IInv, Unstored, Tells
  <1>11. Truthful'
    <2>1. \A i \in DOMAIN AllReports' : AllReports'[i] = x \/ (i \in DOMAIN AllReports /\ AllReports'[i] = AllReports[i])
      <3>1. PICK a \in Seq(Report) : a = AllReports
        BY <1>5, Zenon
      <3>2. x \in Report /\ AllReports' = Append(a, x)
        BY <3>1, Zenon DEF Tells
      <3>3. \A i \in DOMAIN Append(a, x) : Append(a, x)[i] = x \/ (i \in DOMAIN a /\ Append(a, x)[i] = a[i])
        BY <3>2, AppendProperties, LenProperties
      <3> QED BY <3>1, <3>2, <3>3, Zenon
    <2>2. x.ok => x.rec \in Range(log)
      BY <1>2, Zenon DEF IInv, Truthful, Tells
    <2>3. \A i \in DOMAIN AllReports' : AllReports'[i].ok => AllReports'[i].rec \in Range(log')
      BY <2>1, <2>2, Zenon DEF IInv, Truthful, Tells
    <2>4. worker'[w].pc = "report" /\ ~worker'[w].failed => Batch(w)' \subseteq Range(log')
      BY <1>4, Zenon DEF IInv, Truthful, Tells
    <2> QED BY <1>3, <2>3, <2>4, Zenon DEF IInv, Truthful, Tells
  <1>12. Reporting'
    <2>1. worker'[w].pc = "report" => worker'[w].next >= 1 /\ worker'[w].next <= Len(worker'[w].batch)
      <3>1. worker'[w].pc = "report" => n < Len(b) /\ worker'[w].next = n + 1 /\ worker'[w].batch = b
        BY <1>0, Zenon DEF Tells
      <3> QED BY <1>1, <3>1
    <2> QED BY <1>3, <2>1, Zenon DEF IInv, Reporting, Tells
  <1>13. Accounted'
    <2> SUFFICES ASSUME ~cancelled PROVE Accounted'
      BY Zenon DEF Accounted, Tells
    <2>1. Due(w) = {b[i] : i \in {k \in DOMAIN b : k >= n}}
      BY <1>0, Zenon DEF Due, Tells
    <2>2. x.rec \in Due(w) /\ x.rec \notin Range(Told)
      <3>1. n \in {k \in DOMAIN b : k >= n}
        BY <1>1
      <3>2. x.rec \in Due(w)
        BY <1>2, <2>1, <3>1, Zenon
      <3> QED BY <3>2, Zenon DEF IInv, Accounted
    <2>3. Distinct(Told')
      BY <1>2, <1>5, <2>2, AppendSet, Zenon DEF IInv, Accounted, Tells
    <2>4. Due(w)' = Due(w) \ {x.rec} /\ (Due(w) \ {x.rec} # {} => worker'[w].pc = "report")
      <3>1. CASE n < Len(b)
        <4>1. Due(w)' = {b[i] : i \in {k \in DOMAIN b : k >= n + 1}} /\ worker'[w].pc = "report"
          BY <1>0, <3>1, Zenon DEF Due, Tells
        <4>2. {k \in DOMAIN b : k >= n + 1} = {k \in DOMAIN b : k >= n} \ {n}
          BY <1>1
        <4>3. {b[i] : i \in {k \in DOMAIN b : k >= n} \ {n}} = {b[i] : i \in {k \in DOMAIN b : k >= n}} \ {b[n]}
          BY <1>1, Zenon DEF Distinct
        <4> QED BY <1>2, <2>1, <4>1, <4>2, <4>3, Zenon
      <3>2. CASE ~(n < Len(b))
        <4>1. {k \in DOMAIN b : k >= n} = {n}
          BY <1>1, <3>2
        <4>2. Due(w)' = {}
          <5>1. worker'[w].batch = <<>>
            BY <1>0, <3>2, Zenon DEF Tells
          <5> QED BY <5>1 DEF Due
        <4> QED BY <1>2, <2>1, <4>1, <4>2, Zenon
      <3> QED BY <3>1, <3>2, Zenon
    <2>5. \A v \in Workers \ {w} : x.rec \notin Due(v)
      BY <1>2, DueInBatch, Zenon DEF IInv, Held
    <2>6. \A v \in Workers : Due(v)' \cap Range(Told') = {}
      <3>1. \A v \in Workers : Due(v) \cap Range(Told) = {}
        BY Zenon DEF IInv, Accounted
      <3> QED BY <1>3, <1>6, <2>4, <2>5, <3>1, Zenon
    <2>7. ASSUME NEW r \in Range(log) \ Range(Told')
          PROVE  \E v \in Workers : worker'[v].pc = "report" /\ r \in Due(v)'
      <3>1. r # x.rec /\ r \in Range(log) \ Range(Told)
        BY <1>6, <2>7, Zenon
      <3>2. PICK v \in Workers : worker[v].pc = "report" /\ r \in Due(v)
        BY <3>1, Zenon DEF IInv, Accounted
      <3> QED BY <1>3, <2>4, <3>1, <3>2, Zenon
    <2>8. \A v \in Workers : worker'[v].pc = "done" => worker'[v].batch = <<>>
      BY <1>3, Zenon DEF IInv, Accounted, Tells
    <2> QED BY <2>3, <2>6, <2>7, <2>8, Zenon DEF Accounted, Tells
  <1> QED BY <1>7, <1>8, <1>9, <1>10, <1>11, <1>12, <1>13, Zenon DEF IInv

LEMMA ReportTells ==
  ASSUME IInv, NEW w \in Workers, ReportOne(w)
  PROVE  TypeInv' /\ \E x : Tells(w, x)
  <1>0. TypeInv /\ worker[w] \in Local /\ worker[w].pc = "report"
    BY Zenon DEF IInv, TypeInv, ReportOne
  <1>1. PICK x : x = [rec |-> worker[w].batch[worker[w].next], ok |-> ~worker[w].failed]
    BY Zenon
  <1>2. x \in Report /\ x.rec = worker[w].batch[worker[w].next] /\ (x.ok => ~worker[w].failed)
    <2>1. worker[w].batch \in Seq(Records) /\ worker[w].next \in 1 .. Len(worker[w].batch)
      BY <1>0, LenProperties DEF IInv, Reporting, Local
    <2>2. worker[w].batch[worker[w].next] \in Records
      BY <2>1, ElementOfSeq, Zenon
    <2>3. (~worker[w].failed) \in BOOLEAN
      BY Zenon
    <2> QED BY <1>1, <2>2, <2>3, Zenon DEF Report
  <1>3. out' = Append(out, x) /\ reports' = reports
    BY <1>1, Zenon DEF ReportOne
  <1>4. AllReports' = Append(AllReports, x) /\ Told' = Append(Told, x.rec)
    BY <1>0, <1>2, <1>3, ReportAppends, Zenon
  <1>5. PICK new : new = Reported(worker[w])
    BY Zenon
  <1>6. /\ new \in Local
        /\ worker[w].next < Len(worker[w].batch) =>
              /\ new.pc = "report" /\ new.batch = worker[w].batch
              /\ new.next = worker[w].next + 1 /\ new.failed = worker[w].failed
        /\ ~(worker[w].next < Len(worker[w].batch)) =>
              new.batch = <<>> /\ new.pc \in {"done", "select"}
    BY <1>0, <1>5, ReportedFields, Zenon
  <1>7. worker' = [worker EXCEPT ![w] = new]
    BY <1>5, Zenon DEF ReportOne
  <1>8. worker' \in [Workers -> Local] /\ worker'[w] = new /\ \A v \in Workers \ {w} : worker'[v] = worker[v]
    BY <1>0, <1>6, <1>7, WorkerUpdate, Zenon
  <1>9. UNCHANGED <<in, waiting, sent, log, cancelled, outClosed>>
    BY Zenon DEF ReportOne, sendVars
  <1>10. Tells(w, x)
    BY <1>0, <1>2, <1>4, <1>6, <1>8, <1>9, Zenon DEF Tells
  <1>11. out' \in Seq(Report) /\ reports' \in Seq(Report)
    BY <1>0, <1>2, <1>3, AppendProperties, Zenon DEF TypeInv
  <1>12. TypeInv'
    BY <1>0, <1>8, <1>9, <1>11, Zenon DEF TypeInv
  <1> QED BY <1>10, <1>12, Zenon

-----------------------------------------------------------------------------

LEMMA Inductive == IInv /\ [Next]_vars => IInv'
  <1> SUFFICES ASSUME IInv, [Next]_vars PROVE IInv'
    BY Zenon
  <1>0. TypeInv
    BY Zenon DEF IInv
  <1>1. ASSUME NEW r \in Records, Send(r) PROVE IInv'
    <2>1. CASE SendQueued(r)
      BY <1>1, <2>1, QueuedStep, Zenon DEF Send
    <2>2. CASE SendBlocks(r) \/ SendRefused(r) \/ SendPanics(r)
      BY <1>1, <2>2, SendSteps, UnsentStep, Zenon DEF Send
    <2> QED BY <1>1, <2>1, <2>2, Zenon DEF Send
  <1>2. CASE Close
    BY <1>2, CloseStep, UnsentStep, Zenon
  <1>3. CASE CloseIn \/ Cancel \/ Drain \/ RunReturns \/ UNCHANGED vars
    BY <1>0, <1>3, QuietSteps, QuietStep, Zenon
  <1>4. ASSUME NEW w \in Workers, Work(w) PROVE IInv'
    <2>1. CASE Stop(w) \/ TimerFlush(w) \/ ReportAbandoned(w)
      BY <2>1, KeepsSteps, KeepsStep, Zenon
    <2>2. CASE Receive(w)
      BY <2>2, ReceiveTakes, TakesStep, Zenon
    <2>3. CASE ProduceSyncResult(w)
      BY <2>3, ProduceStores, StoresStep, Zenon
    <2>4. CASE ReportOne(w)
      BY <2>4, ReportTells, TellsStep, Zenon
    <2> QED BY <1>4, <2>1, <2>2, <2>3, <2>4, Zenon DEF Work
  <1>5. CASE AtRest
    BY <1>0, <1>5, QuietSteps, QuietStep, Zenon DEF AtRest
  <1> QED BY <1>1, <1>2, <1>3, <1>4, <1>5, Zenon DEF Next

\* However Sends, workers, abandoned flushes and cancellation interleave, no record
\* is stored twice (AsyncProducer.flush, src/async_producer.go).
THEOREM StoresOnce == Spec => []StoredOnce
  <1>1. IInv => StoredOnce
    BY Zenon DEF IInv, Logged, Distinct, StoredOnce
  <1> QED BY InitIInv, Inductive, <1>1, PTL DEF Spec

\* A success is reported for stored records only; without a cancellation no record
\* is reported twice, and when Run has returned the records without a report are
\* ones the brokers never saw (AsyncProducer.flush, worker and Close).
THEOREM ReportsTellTheTruth == Spec => []ReportsAreTrue
  <1>1. IInv => ReportsAreTrue
    <2> SUFFICES ASSUME IInv PROVE ReportsAreTrue
      BY Zenon
    <2>1. \A i \in DOMAIN AllReports : AllReports[i].ok => AllReports[i].rec \in Range(log)
      BY Zenon DEF IInv, Truthful
    <2>2. DOMAIN Told = DOMAIN AllReports
      BY ReportTypes, Zenon DEF IInv
    <2>3. ASSUME ~cancelled, NEW r \in Records PROVE \A i, j \in ReportsOf(r) : i = j
      BY <2>2, <2>3, Zenon DEF IInv, Accounted, Distinct, Told, ReportsOf
    <2>4. ASSUME outClosed, ~cancelled, NEW r \in Records, ReportsOf(r) = {}
          PROVE  r \notin Range(log) /\ Batches(r) = {}
      <3>1. r \notin Range(Told)
        BY <2>2, <2>4, Zenon DEF Told, Range, ReportsOf
      <3>2. \A w \in Workers : worker[w].pc = "done" /\ worker[w].batch = <<>>
        BY <2>4, Zenon DEF IInv, Reporting, Accounted
      <3>3. DOMAIN worker = Workers
        BY Zenon DEF IInv, TypeInv
      <3>4. r \notin Range(log)
        BY <2>4, <3>1, <3>2, Zenon DEF IInv, Accounted
      <3>5. Batches(r) = {}
        BY <3>2, <3>3 DEF Batches, Range
      <3> QED BY <3>4, <3>5, Zenon
    <2> QED BY <2>1, <2>3, <2>4, Zenon DEF ReportsAreTrue
  <1> QED BY InitIInv, Inductive, <1>1, PTL DEF Spec

-----------------------------------------------------------------------------
(* A single worker keeps the order of the Sends.  What is stored was queued *)
(* before what the worker holds, unless a cancelled flush left a batch that *)
(* is never stored again, and both before what is still in the channel.     *)

\* s keeps the order of `queued`.
Ordered(queued, s) == \A i, j \in DOMAIN s : i < j => QueuedBefore(queued, s[i], s[j])

Precede(queued, A, B) == \A r \in A : \A s \in B : QueuedBefore(queued, r, s)

OrderInv(w) ==
  /\ accepted \in Seq(Records) /\ Range(accepted) = With("accepted")
  /\ Ordered(accepted, log) /\ Ordered(accepted, worker[w].batch) /\ Ordered(accepted, in)
  /\ Precede(accepted, Range(log) \cup Batch(w), Range(in))
  /\ MayStore(w) => Precede(accepted, Range(log), Batch(w))

LEMMA QueuedGrows ==
  ASSUME NEW a \in Seq(Records), NEW e \in Records, NEW b, b = Append(a, e)
  PROVE  /\ \A r, s : QueuedBefore(a, r, s) => QueuedBefore(b, r, s)
         /\ \A r \in Range(a) : QueuedBefore(b, r, e)
  <1>1. /\ DOMAIN a = 1 .. Len(a) /\ Len(a) \in Nat /\ DOMAIN b = 1 .. Len(a) + 1
        /\ \A i \in 1 .. Len(a) : b[i] = a[i]
        /\ b[Len(a) + 1] = e
    BY AppendProperties, LenProperties
  <1>2. PICK n : n = Len(a) + 1
    BY Zenon
  <1>3. n \in DOMAIN b /\ b[n] = e /\ \A i \in DOMAIN a : i \in DOMAIN b /\ i < n /\ b[i] = a[i]
    BY <1>1, <1>2
  <1>4. \A r, s : QueuedBefore(a, r, s) => QueuedBefore(b, r, s)
    BY <1>3, Zenon DEF QueuedBefore
  <1>5. \A r \in Range(a) : QueuedBefore(b, r, e)
    BY <1>3, Zenon DEF QueuedBefore, Range
  <1> QED BY <1>4, <1>5, Zenon

LEMMA OrderedAppend ==
  ASSUME NEW a, NEW s \in Seq(Records), NEW e \in Records, Ordered(a, s), Precede(a, Range(s), {e})
  PROVE  Ordered(a, Append(s, e))
  <1>1. /\ DOMAIN s = 1 .. Len(s) /\ Len(s) \in Nat /\ DOMAIN Append(s, e) = 1 .. Len(s) + 1
        /\ \A i \in 1 .. Len(s) : Append(s, e)[i] = s[i]
        /\ Append(s, e)[Len(s) + 1] = e
    BY AppendProperties, LenProperties
  <1>2. PICK t : t = Append(s, e)
    BY Zenon
  <1>3. ASSUME NEW i \in DOMAIN t, NEW j \in DOMAIN t, i < j
        PROVE  /\ i \in DOMAIN s /\ t[i] = s[i]
               /\ (j \in DOMAIN s /\ t[j] = s[j]) \/ t[j] = e
    BY <1>1, <1>2, <1>3
  <1>4. ASSUME NEW i \in DOMAIN t, NEW j \in DOMAIN t, i < j PROVE QueuedBefore(a, t[i], t[j])
    <2>1. i \in DOMAIN s /\ t[i] = s[i] /\ s[i] \in Range(s)
      BY <1>3, <1>4, Zenon DEF Range
    <2>2. CASE j \in DOMAIN s /\ t[j] = s[j]
      BY <1>4, <2>1, <2>2, Zenon DEF Ordered
    <2>3. CASE t[j] = e
      BY <2>1, <2>3, Zenon DEF Precede
    <2> QED BY <1>3, <1>4, <2>2, <2>3, Zenon
  <1> QED BY <1>2, <1>4, Zenon DEF Ordered

LEMMA OrderedTail ==
  ASSUME NEW a, NEW s \in Seq(Records), s # <<>>, Ordered(a, s)
  PROVE  Ordered(a, Tail(s)) /\ Precede(a, {Head(s)}, Range(Tail(s)))
  <1>1. PICK t \in Seq(Records) : /\ t = Tail(s) /\ Len(t) = Len(s) - 1
                                  /\ \A i \in 1 .. Len(t) : t[i] = s[i + 1]
    BY HeadTailProperties, Zenon
  <1>2. /\ DOMAIN s = 1 .. Len(s) /\ DOMAIN t = 1 .. Len(t) /\ Len(s) \in Nat \ {0} /\ Head(s) = s[1]
    BY HeadTailProperties, LenProperties, EmptySeq
  <1>3. 1 \in DOMAIN s /\ \A i \in DOMAIN t : i + 1 \in DOMAIN s /\ 1 < i + 1 /\ t[i] = s[i + 1]
    BY <1>1, <1>2
  <1>4. \A i, j \in DOMAIN t : i < j => i + 1 < j + 1
    BY <1>2
  <1>5. Ordered(a, t)
    BY <1>3, <1>4, Zenon DEF Ordered
  <1>6. Precede(a, {Head(s)}, Range(t))
    BY <1>2, <1>3, Zenon DEF Ordered, Precede, Range
  <1> QED BY <1>1, <1>5, <1>6, Zenon

LEMMA OrderedConcat ==
  ASSUME NEW a, NEW s \in Seq(Records), NEW t \in Seq(Records),
         Ordered(a, s), Ordered(a, t), Precede(a, Range(s), Range(t))
  PROVE  Ordered(a, s \o t)
  <1>0. PICK u : u = s \o t
    BY Zenon
  <1>1. /\ u \in Seq(Records) /\ Len(u) = Len(s) + Len(t)
        /\ \A i \in 1 .. Len(s) + Len(t) : u[i] = IF i <= Len(s) THEN s[i] ELSE t[i - Len(s)]
    BY <1>0, ConcatProperties, Zenon
  <1>2. /\ DOMAIN s = 1 .. Len(s) /\ DOMAIN t = 1 .. Len(t) /\ DOMAIN u = 1 .. Len(u)
        /\ Len(s) \in Nat /\ Len(t) \in Nat
    BY LenProperties
  <1>3. ASSUME NEW i \in DOMAIN u, NEW j \in DOMAIN u, i < j PROVE QueuedBefore(a, u[i], u[j])
    <2>1. CASE j <= Len(s)
      <3>1. i \in DOMAIN s /\ j \in DOMAIN s /\ u[i] = s[i] /\ u[j] = s[j]
        BY <1>1, <1>2, <1>3, <2>1
      <3> QED BY <1>3, <3>1, Zenon DEF Ordered
    <2>2. CASE i <= Len(s) /\ ~(j <= Len(s))
      <3>1. i \in DOMAIN s /\ j - Len(s) \in DOMAIN t /\ u[i] = s[i] /\ u[j] = t[j - Len(s)]
        BY <1>1, <1>2, <1>3, <2>2
      <3> QED BY <3>1, Zenon DEF Precede, Range
    <2>3. CASE ~(i <= Len(s)) /\ ~(j <= Len(s))
      <3>1. /\ i - Len(s) \in DOMAIN t /\ j - Len(s) \in DOMAIN t /\ i - Len(s) < j - Len(s)
            /\ u[i] = t[i - Len(s)] /\ u[j] = t[j - Len(s)]
        BY <1>1, <1>2, <1>3, <2>3
      <3> QED BY <3>1, Zenon DEF Ordered
    <2>4. j <= Len(s) \/ (i <= Len(s) /\ ~(j <= Len(s))) \/ (~(i <= Len(s)) /\ ~(j <= Len(s)))
      OBVIOUS
    <2> QED BY <2>1, <2>2, <2>3, <2>4, Zenon
  <1> QED BY <1>0, <1>3, Zenon DEF Ordered

LEMMA OrderedPart ==
  ASSUME NEW a, NEW b \in Seq(Records), Ordered(a, b), NEW part \in PartsOf(b)
  PROVE  Ordered(a, part)
  <1>0. DOMAIN b = 1 .. Len(b)
    BY LenProperties, Zenon
  <1>1. PICK f \in Increasing(Len(b)) : part = [i \in DOMAIN f |-> b[f[i]]]
    BY Zenon DEF PartsOf
  <1>2. PICK k \in 0 .. Len(b) :
          f \in [1 .. k -> 1 .. Len(b)] /\ \A i, j \in 1 .. k : i < j => f[i] < f[j]
    BY Zenon DEF Increasing
  <1>3. DOMAIN part = 1 .. k /\ \A i \in 1 .. k : part[i] = b[f[i]] /\ f[i] \in DOMAIN b
    BY <1>0, <1>1, <1>2, Zenon
  <1> QED BY <1>2, <1>3, Zenon DEF Ordered

\* Steps that queue and store nothing: the batch is kept, or emptied.
StillOrdered(w) ==
  /\ UNCHANGED <<accepted, in, log>> /\ With("accepted")' = With("accepted")
  /\ \/ worker'[w].batch = worker[w].batch /\ (MayStore(w)' => MayStore(w))
     \/ worker'[w].batch = <<>>

LEMMA StillOrderedStep ==
  ASSUME NEW w \in Workers, OrderInv(w), StillOrdered(w)
  PROVE  OrderInv(w)'
  <1>1. CASE worker'[w].batch = worker[w].batch /\ (MayStore(w)' => MayStore(w))
    <2>1. Batch(w)' = Batch(w)
      BY <1>1, Zenon DEF Batch
    <2> QED BY <1>1, <2>1, Zenon DEF OrderInv, StillOrdered, Ordered
  <1>2. CASE worker'[w].batch = <<>>
    <2>1. Batch(w)' = {} /\ Ordered(accepted, worker'[w].batch)
      BY <1>2 DEF Batch, Range, Ordered
    <2>2. /\ Precede(accepted, Range(log) \cup Batch(w)', Range(in))
          /\ Precede(accepted, Range(log), Batch(w)')
      BY <2>1, Zenon DEF OrderInv, Precede
    <2>3. accepted' = accepted /\ in' = in /\ log' = log /\ With("accepted")' = With("accepted")
      BY Zenon DEF StillOrdered
    <2> QED BY <2>1, <2>2, <2>3, Zenon DEF OrderInv, Ordered, Precede
  <1> QED BY <1>1, <1>2, Zenon DEF StillOrdered

LEMMA QuietKeepsOrder ==
  ASSUME IInv, NEW w \in Workers,
         CloseIn \/ Cancel \/ Drain \/ RunReturns \/ UNCHANGED vars \/ Close
           \/ \E r \in Records : Send(r) /\ ~SendQueued(r)
  PROVE  StillOrdered(w)
  <1>1. UNCHANGED <<accepted, in, log, worker>>
    BY Zenon DEF CloseIn, Cancel, Drain, RunReturns, vars, sendVars, Close,
                 Send, SendBlocks, SendRefused, SendPanics
  <1>2. With("accepted")' = With("accepted") /\ (cancelled => cancelled')
    <2>1. CASE CloseIn \/ Cancel \/ Drain \/ RunReturns \/ UNCHANGED vars
      BY <2>1, QuietSteps, Zenon DEF IInv, Quiet, With
    <2>2. ASSUME Unsent PROVE With("accepted")' = With("accepted") /\ (cancelled => cancelled')
      BY <2>2 DEF Unsent
    <2>3. CASE Close
      BY <2>2, <2>3, CloseStep, Zenon
    <2>4. CASE \E r \in Records : Send(r) /\ ~SendQueued(r)
      <3>1. PICK r \in Records : Send(r) /\ ~SendQueued(r)
        BY <2>4, Zenon
      <3>2. /\ SendBlocks(r) \/ SendRefused(r) \/ SendPanics(r)
            /\ UNCHANGED <<inClosed, closed, cancelled, worker, out, outClosed, log, reports>>
        BY <3>1, Zenon DEF Send
      <3>3. Unsent
        BY <3>2, SendSteps, Zenon
      <3> QED BY <2>2, <3>3, Zenon
    <2> QED BY <2>1, <2>3, <2>4, Zenon
  <1> QED BY <1>1, <1>2, Zenon DEF StillOrdered, MayStore

LEMMA WorkKeepsOrder ==
  ASSUME IInv, NEW w \in Workers, Stop(w) \/ TimerFlush(w) \/ ReportAbandoned(w) \/ ReportOne(w)
  PROVE  StillOrdered(w)
  <1>1. UNCHANGED <<accepted, in, log, sent, cancelled>>
    BY Zenon DEF Stop, TimerFlush, ReportAbandoned, ReportOne, sendVars
  <1>2. With("accepted")' = With("accepted")
    BY <1>1, Zenon DEF With
  <1>3. CASE ReportOne(w)
    <2>1. PICK x : Tells(w, x)
      BY <1>3, ReportTells, Zenon
    <2> QED BY <1>1, <1>2, <2>1, Zenon DEF Tells, StillOrdered, MayStore
  <1>4. CASE Stop(w) \/ TimerFlush(w) \/ ReportAbandoned(w)
    <2>1. Keeps(w)
      BY <1>4, KeepsSteps, Zenon
    <2>2. worker'[w].batch = worker[w].batch
      BY <2>1, Zenon DEF Keeps
    <2>3. MayStore(w)' => MayStore(w)
      BY <2>1 DEF Keeps, MayStore
    <2> QED BY <1>1, <1>2, <2>2, <2>3, Zenon DEF StillOrdered
  <1> QED BY <1>3, <1>4, Zenon

\* The record e is queued behind all the others, those the worker holds or stored
\* and those in the channel, `line` with e: `a` grows to b.
Queues(a, b, e, held, line) ==
  /\ b \in Seq(Records) /\ Range(b) = Range(a) \cup {e}
  /\ Ordered(b, line) /\ Precede(b, held, Range(line))
  /\ \A s : Ordered(a, s) => Ordered(b, s)
  /\ \A A, B : Precede(a, A, B) => Precede(b, A, B)

LEMMA QueueInOrder ==
  ASSUME NEW a \in Seq(Records), NEW e \in Records, NEW rest \in Seq(Records), NEW held,
         Ordered(a, rest), Range(rest) \subseteq Range(a), held \subseteq Range(a),
         Precede(a, held, Range(rest)), NEW b, b = Append(a, e)
  PROVE  Queues(a, b, e, held, Append(rest, e))
  <1>1. /\ \A r, s : QueuedBefore(a, r, s) => QueuedBefore(b, r, s)
        /\ \A r \in Range(a) : QueuedBefore(b, r, e)
    BY QueuedGrows
  <1>2. \A s : Ordered(a, s) => Ordered(b, s)
    BY <1>1, Zenon DEF Ordered
  <1>3. \A A, B : Precede(a, A, B) => Precede(b, A, B)
    BY <1>1, Zenon DEF Precede
  <1>4. Precede(b, Range(rest), {e}) /\ Precede(b, held, {e})
    BY <1>1, Zenon DEF Precede
  <1>5. Ordered(b, Append(rest, e))
    BY <1>2, <1>4, OrderedAppend, Zenon
  <1>6. Range(Append(rest, e)) = Range(rest) \cup {e}
    BY AppendSet
  <1>7. Precede(b, held, Range(rest))
    BY <1>3, Zenon
  <1>8. Precede(b, held, Range(Append(rest, e)))
    BY <1>4, <1>6, <1>7, Zenon DEF Precede
  <1>9. b \in Seq(Records) /\ Range(b) = Range(a) \cup {e}
    BY AppendSet
  <1> QED BY <1>2, <1>3, <1>5, <1>8, <1>9, Zenon DEF Queues

LEMMA QueuedKeepsOrder ==
  ASSUME IInv, NEW w \in Workers, OrderInv(w), NEW r \in Records, Send(r), SendQueued(r)
  PROVE  OrderInv(w)'
  <1>1. /\ accepted' = Append(accepted, r) /\ in' = Append(in, r)
        /\ UNCHANGED <<log, worker, cancelled>>
    BY Zenon DEF Send, SendQueued
  <1>2. /\ sent \in [Records -> {"no", "waiting", "accepted", "refused", "panicked"}]
        /\ accepted \in Seq(Records) /\ in \in Seq(Records)
    BY Zenon DEF IInv, TypeInv, OrderInv
  <1>3. sent'[r] = "accepted" /\ \A q \in Records \ {r} : sent'[q] = sent[q]
    BY <1>2, SentUpdate DEF SendQueued
  <1>4. With("accepted")' = With("accepted") \cup {r}
    BY <1>3, Zenon DEF With
  <1>5. PICK held : held = Range(log) \cup Batch(w)
    BY Zenon
  <1>6. Range(in) \subseteq Range(accepted) /\ held \subseteq Range(accepted)
    BY <1>5, Zenon DEF IInv, OrderInv, Channel, Logged, Held
  <1>7. Ordered(accepted, in) /\ Precede(accepted, held, Range(in))
    BY <1>5, Zenon DEF OrderInv
  <1>8. Queues(accepted, accepted', r, held, in')
    BY <1>1, <1>2, <1>6, <1>7, QueueInOrder, Zenon
  <1>9. Batch(w)' = Batch(w) /\ MayStore(w)' = MayStore(w)
    BY <1>1, Zenon DEF Batch, MayStore
  <1>10. Ordered(accepted', log') /\ Ordered(accepted', worker'[w].batch)
    BY <1>1, <1>8, Zenon DEF OrderInv, Queues
  <1>11. MayStore(w)' => Precede(accepted', Range(log'), Batch(w)')
    BY <1>1, <1>8, <1>9, Zenon DEF OrderInv, Queues
  <1>12. /\ accepted' \in Seq(Records) /\ Range(accepted') = With("accepted")'
         /\ Ordered(accepted', in') /\ Precede(accepted', Range(log') \cup Batch(w)', Range(in'))
    BY <1>1, <1>4, <1>5, <1>8, <1>9, Zenon DEF OrderInv, Queues
  <1> QED BY <1>10, <1>11, <1>12, Zenon DEF OrderInv, Ordered, Precede

LEMMA ReceiveKeepsOrder ==
  ASSUME IInv, NEW w \in Workers, OrderInv(w), Receive(w)
  PROVE  OrderInv(w)'
  <1>0. /\ sent \in [Records -> {"no", "waiting", "accepted", "refused", "panicked"}]
        /\ accepted \in Seq(Records) /\ in \in Seq(Records) /\ waiting \in Seq(Records)
        /\ worker[w].batch \in Seq(Records) /\ in # <<>>
    BY Zenon DEF IInv, TypeInv, Local, OrderInv, Receive
  <1>1. PICK h \in Records : h = Head(in)
    BY <1>0, TailSet, Zenon
  <1>2. PICK tl \in Seq(Records) : tl = Tail(in)
    BY <1>0, TailSet, Zenon
  <1>3. Range(in) = {h} \cup Range(tl)
    BY <1>0, <1>1, <1>2, TailSet, Zenon
  <1>4. Ordered(accepted, tl) /\ Precede(accepted, {h}, Range(tl))
    <2>1. Ordered(accepted, in)
      BY Zenon DEF OrderInv
    <2> QED BY <1>0, <1>1, <1>2, <2>1, OrderedTail, Zenon
  <1>5. PICK b : b = Append(worker[w].batch, h)
    BY Zenon
  <1>6. Range(b) = Batch(w) \cup {h}
    BY <1>0, <1>5, AppendSet DEF Batch
  <1>7. Takes(w, h)
    BY <1>1, ReceiveTakes, Zenon
  <1>8. worker'[w].batch = b /\ log' = log /\ (MayStore(w)' => MayStore(w))
    BY <1>5, <1>7, Zenon DEF Takes, MayStore
  <1>9. Batch(w)' = Range(b)
    BY <1>8, Zenon DEF Batch
  <1>10. Precede(accepted, Range(log) \cup Batch(w), {h} \cup Range(tl))
    BY <1>3, Zenon DEF OrderInv
  <1>11. Ordered(accepted, b)
    <2>1. Precede(accepted, Range(worker[w].batch), {h}) /\ Ordered(accepted, worker[w].batch)
      BY <1>10, Zenon DEF OrderInv, Precede, Batch
    <2> QED BY <1>0, <1>5, <2>1, OrderedAppend, Zenon
  <1>12. PICK held : held = Range(log) \cup Range(b)
    BY Zenon
  <1>13. Precede(accepted, held, Range(tl))
    BY <1>4, <1>6, <1>10, <1>12, Zenon DEF Precede
  <1>14. MayStore(w)' => Precede(accepted, Range(log), Range(b))
    BY <1>6, <1>8, <1>10, Zenon DEF OrderInv, Precede
  <1>15. CASE waiting = <<>>
    <2>1. accepted' = accepted /\ in' = tl /\ sent' = sent
      BY <1>2, <1>15, Zenon DEF Receive, sendVars
    <2>2. Range(accepted') = With("accepted")' /\ accepted' \in Seq(Records)
      BY <2>1, Zenon DEF OrderInv, With
    <2>3. Ordered(accepted', log') /\ Ordered(accepted', worker'[w].batch) /\ Ordered(accepted', in')
      BY <1>4, <1>8, <1>11, <2>1, Zenon DEF OrderInv
    <2>4. /\ Precede(accepted', Range(log') \cup Batch(w)', Range(in'))
          /\ MayStore(w)' => Precede(accepted', Range(log'), Batch(w)')
      BY <1>8, <1>9, <1>12, <1>13, <1>14, <2>1, Zenon
    <2> QED BY <2>2, <2>3, <2>4, Zenon DEF OrderInv, Ordered, Precede
  <1>16. CASE waiting # <<>>
    <2>1. PICK x \in Records : x = Head(waiting)
      BY <1>0, <1>16, TailSet, Zenon
    <2>2. /\ accepted' = Append(accepted, x) /\ in' = Append(tl, x)
          /\ sent' = [sent EXCEPT ![x] = "accepted"]
      BY <1>2, <1>16, <2>1, Zenon DEF Receive
    <2>3. sent'[x] = "accepted" /\ \A q \in Records \ {x} : sent'[q] = sent[q]
      BY <1>0, <2>2, SentUpdate
    <2>4. With("accepted")' = With("accepted") \cup {x}
      BY <2>3, Zenon DEF With
    <2>5. Range(tl) \subseteq Range(accepted) /\ held \subseteq Range(accepted)
      BY <1>3, <1>6, <1>12, Zenon DEF IInv, OrderInv, Channel, Logged, Held
    <2>6. Queues(accepted, accepted', x, held, in')
      BY <1>0, <1>4, <1>13, <2>2, <2>5, QueueInOrder, Zenon
    <2>7. Ordered(accepted', log') /\ Ordered(accepted', worker'[w].batch) /\ Ordered(accepted', in')
      BY <1>8, <1>11, <2>6, Zenon DEF OrderInv, Queues
    <2>8. /\ Precede(accepted', Range(log') \cup Batch(w)', Range(in'))
          /\ MayStore(w)' => Precede(accepted', Range(log'), Batch(w)')
      BY <1>8, <1>9, <1>12, <1>14, <2>6, Zenon DEF Queues
    <2>9. accepted' \in Seq(Records) /\ Range(accepted') = With("accepted")'
      BY <2>4, <2>6, Zenon DEF OrderInv, Queues
    <2> QED BY <2>7, <2>8, <2>9, Zenon DEF OrderInv, Ordered, Precede
  <1> QED BY <1>15, <1>16, Zenon

LEMMA ProduceKeepsOrder ==
  ASSUME IInv, NEW w \in Workers, OrderInv(w), ProduceSyncResult(w)
  PROVE  OrderInv(w)'
  <1>0. worker[w] \in Local /\ worker[w].batch \in Seq(Records) /\ log \in Seq(Records)
    BY Zenon DEF IInv, TypeInv, Local
  <1>1. PICK part : Stores(w, part)
    BY ProduceStores, Zenon
  <1>2. PICK stored : /\ log' = log \o stored
                      /\ \/ ~worker[w].dead /\ stored = worker[w].batch
                         \/ stored \in MayBeStored(worker[w])
    BY Zenon DEF ProduceSyncResult
  <1>3. Distinct(worker[w].batch) /\ Ordered(accepted, worker[w].batch) /\ Ordered(accepted, log)
    BY Zenon DEF IInv, Held, OrderInv
  <1>4. /\ stored \in Seq(Records) /\ Range(stored) \subseteq Batch(w) /\ Ordered(accepted, stored)
        /\ worker[w].dead => Range(stored) = {}
    <2>1. CASE ~worker[w].dead /\ stored = worker[w].batch
      BY <1>0, <1>3, <2>1, Zenon DEF Batch
    <2>2. CASE stored \in MayBeStored(worker[w]) /\ worker[w].dead
      <3>1. stored = <<>>
        BY <2>2, Zenon DEF MayBeStored
      <3> QED BY <3>1 DEF Ordered, Range
    <2>3. CASE stored \in MayBeStored(worker[w]) /\ ~worker[w].dead
      <3>1. stored \in PartsOf(worker[w].batch)
        BY <2>3, Zenon DEF MayBeStored
      <3> QED BY <1>0, <1>3, <2>3, <3>1, PartsAreParts, OrderedPart, Zenon DEF Batch
    <2> QED BY <1>2, <2>1, <2>2, <2>3, Zenon
  <1>5. Precede(accepted, Range(log), Range(stored))
    <2>1. CASE worker[w].dead
      BY <1>4, <2>1, Zenon DEF Precede
    <2>2. CASE ~worker[w].dead
      BY <1>1, <1>4, <2>2, Zenon DEF Stores, OrderInv, MayStore, Precede
    <2> QED BY <2>1, <2>2, Zenon
  <1>6. Ordered(accepted, log') /\ Range(log') = Range(log) \cup Range(stored)
    <2>1. Ordered(accepted, log \o stored)
      BY <1>0, <1>3, <1>4, <1>5, OrderedConcat, Zenon
    <2>2. Range(log \o stored) = Range(log) \cup Range(stored)
      BY <1>0, <1>4, ConcatSet
    <2> QED BY <1>2, <2>1, <2>2, Zenon
  <1>7. accepted' = accepted /\ in' = in /\ sent' = sent /\ worker'[w].batch = worker[w].batch /\ ~MayStore(w)'
    BY <1>1, Zenon DEF ProduceSyncResult, sendVars, Stores, MayStore
  <1>8. With("accepted")' = With("accepted") /\ Batch(w)' = Batch(w)
    BY <1>7, Zenon DEF With, Batch
  <1>9. Precede(accepted, Range(log') \cup Batch(w), Range(in))
    BY <1>4, <1>6, Zenon DEF OrderInv, Precede
  <1> QED BY <1>3, <1>6, <1>7, <1>8, <1>9, Zenon DEF OrderInv, Ordered, Precede

LEMMA OrderInductive ==
  ASSUME IInv, NEW w \in Workers, Workers = {w}, OrderInv(w), [Next]_vars
  PROVE  OrderInv(w)'
  <1>1. ASSUME NEW r \in Records, Send(r) PROVE OrderInv(w)'
    <2>1. CASE SendQueued(r)
      BY <1>1, <2>1, QueuedKeepsOrder, Zenon
    <2>2. CASE ~SendQueued(r)
      BY <1>1, <2>2, QuietKeepsOrder, StillOrderedStep, Zenon
    <2> QED BY <2>1, <2>2, Zenon
  <1>2. CASE Close \/ CloseIn \/ Cancel \/ Drain \/ RunReturns \/ UNCHANGED vars
    BY <1>2, QuietKeepsOrder, StillOrderedStep, Zenon
  <1>3. CASE Work(w)
    <2>1. CASE Stop(w) \/ TimerFlush(w) \/ ReportAbandoned(w) \/ ReportOne(w)
      BY <2>1, WorkKeepsOrder, StillOrderedStep, Zenon
    <2>2. CASE Receive(w)
      BY <2>2, ReceiveKeepsOrder, Zenon
    <2>3. CASE ProduceSyncResult(w)
      BY <2>3, ProduceKeepsOrder, Zenon
    <2> QED BY <1>3, <2>1, <2>2, <2>3, Zenon DEF Work
  <1>4. \A v \in Workers : v = w
    BY Zenon
  <1> QED BY <1>1, <1>2, <1>3, <1>4, Zenon DEF Next, AtRest

\* With one worker, records reach the log in the order their Sends were queued,
\* however batches fill, time out, fail in part or are abandoned
\* (AsyncProducer.worker and flush, src/async_producer.go).
THEOREM SingleWorkerKeepsOrder == Spec => []StoredInSendOrder
  <1> DEFINE Inv == IInv /\ \A w : Workers = {w} => OrderInv(w)
  <1>1. Init => Inv
    <2> SUFFICES ASSUME Init, NEW w, Workers = {w} PROVE OrderInv(w)
      BY InitIInv, Zenon
    <2>1. /\ accepted = <<>> /\ log = <<>> /\ in = <<>> /\ worker[w].batch = <<>>
          /\ sent = [r \in Records |-> "no"]
      BY DEF Init
    <2>2. With("accepted") = {}
      BY <2>1 DEF With
    <2> QED BY <2>1, <2>2 DEF OrderInv, Ordered, Precede, Batch, Range
  <1>2. Inv /\ [Next]_vars => Inv'
    <2> SUFFICES ASSUME Inv, [Next]_vars, NEW w, Workers = {w} PROVE OrderInv(w)'
      BY Inductive, Zenon
    <2>1. w \in Workers /\ IInv /\ OrderInv(w)
      BY Zenon
    <2> QED BY <2>1, OrderInductive, Zenon
  <1>3. Inv => StoredInSendOrder
    <2> SUFFICES ASSUME Inv, NEW w, DOMAIN worker = {w}
                 PROVE  /\ Range(log) \subseteq Range(accepted)
                        /\ \A i, j \in DOMAIN log : i < j => QueuedBefore(accepted, log[i], log[j])
      BY Zenon DEF StoredInSendOrder
    <2>1. DOMAIN worker = Workers
      BY Zenon DEF IInv, TypeInv
    <2>2. OrderInv(w) /\ IInv
      BY <2>1, Zenon
    <2> QED BY <2>2, Zenon DEF OrderInv, IInv, Logged, Ordered
  <1> QED BY <1>1, <1>2, <1>3, PTL DEF Spec
===============================================================================
