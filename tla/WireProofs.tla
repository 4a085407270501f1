------------------------------ MODULE WireProofs ------------------------------
(***************************************************************************)
(* What holds on the wire between a client and a broker.  First the        *)
(* client's side: for any call sites, rules and brokers, requests are sent *)
(* at a version that both sides speak, if there is one.  Then the broker's *)
(* side: the fake broker keeps its word for any number of connections,     *)
(* partitions, requests, faults and topics.                                *)
(***************************************************************************)
EXTENDS FakeBroker, Negotiation, TLAPS


(* Every API of the client has a highest version that is a number. *)
LEMMA VersionsAreNumbers == \A a \in Apis : Ver[a] \in Nat
BY SMTT(60), Zenon DEF Apis, Ver

(* The client's entry for an API is what the range it heard gives. *)
Entry(r, highest) ==
  IF ~Advertises(r) \/ highest < 0 \/ highest < r.min THEN Absent
                                                      ELSE NegotiateVersion(r, highest)

(* The inductive invariant: the entry never changes after the negotiation, *)
(* the broker supports what it did then, and the versions of a request are *)
(* those that the entry still gives.                                       *)
VersionInv ==
  /\ site \in Sites
  /\ range \in [min : Nat, max : Int] /\ heard \in [min : Nat, max : Int]
  /\ call \in [state : {"new", "open", "sent", "answered", "rejected", "refused"},
               body : Int, header : Int]
  /\ \/ apiVersions = Unknown /\ heard = NotAdvertised
     \/ /\ apiVersions = Entry(heard, clientMax)
        /\ call.state # "new"
        /\ Advertises(heard) => range.min <= heard.min /\ heard.max <= range.max
  /\ Sent => call.body = BodyVersion /\ call.header = Clamp(BodyVersion)
  /\ call.state = "rejected" => Common = {}
  /\ call.state = "refused" => Refuses

(* What NegotiateVersion, the rules of the sites and Clamp work out to. *)
LEMMA ChoiceIsCommon ==
  ASSUME site \in Sites, heard \in [min : Nat, max : Int],
         apiVersions = Entry(heard, clientMax), Common # {}
  PROVE  /\ BodyVersion \in Int /\ Clamp(BodyVersion) = BodyVersion
         /\ InRange(BodyVersion, heard)
<1> DEFINE highest == clientMax
<1>1. highest \in Nat /\ highest = Ver[VersionOf[site].api]
  BY VersionsAreNumbers, SitesAssumption, Zenon DEF clientMax, ClientVersion, VersionRules
<1>2. PICK v \in Speaks[site] : InRange(v, heard)
  BY Zenon DEF Common
<1>3. /\ v \in Int /\ 0 <= v /\ v <= highest
      /\ rule = "positive" => v > 0
      /\ rule = "pinned" => v = pin
      /\ rule = "raised" => pin <= v
  BY <1>1, <1>2, SitesAssumption, Zenon DEF rule, pin
<1>4. heard.min \in Int /\ heard.max \in Int /\ heard.min <= v /\ v <= heard.max
  BY <1>2 DEF InRange
<1>5. /\ apiVersions = NegotiateVersion(heard, highest)
      /\ Advertises(heard)
  BY <1>1, <1>3, <1>4 DEF Entry, Advertises
<1>6. apiVersions \in Int /\ v <= apiVersions /\ InRange(apiVersions, heard)
  BY <1>1, <1>3, <1>4, <1>5 DEF NegotiateVersion, InRange
<1>7. \A fallback : negotiatedVersion(fallback) = apiVersions
  BY <1>3, <1>6 DEF negotiatedVersion, Unknown, Absent
<1>8. pin \in Int /\ rule \in {"negotiated", "pinned", "positive", "raised"}
  BY SitesAssumption, Zenon DEF VersionRules, rule, pin
<1>9. BodyVersion \in {apiVersions, v} /\ (BodyVersion = v \/ BodyVersion = apiVersions)
  <2>1. CASE rule = "negotiated"
    BY <2>1, <1>7, Zenon DEF BodyVersion
  <2>2. CASE rule = "pinned"
    BY <2>2, <1>3, Zenon DEF BodyVersion
  <2>3. CASE rule = "positive"
    BY <2>3, <1>3, <1>6, <1>7 DEF BodyVersion
  <2>4. CASE rule = "raised"
    BY <2>4, <1>3, <1>6, <1>7, <1>8 DEF BodyVersion
  <2> QED BY <2>1, <2>2, <2>3, <2>4, <1>8, Zenon
<1> QED BY <1>2, <1>3, <1>6, <1>7, <1>9 DEF Clamp

(* The rules of the sites and the clamp give numbers; the clamp lowers     *)
(* only what a site has set itself.                                        *)
LEMMA VersionsOfRequests ==
  ASSUME site \in Sites, apiVersions \in Int
  PROVE  /\ BodyVersion \in Int /\ Clamp(BodyVersion) \in Int
         /\ BodyVersion # Clamp(BodyVersion) =>
              rule \in {"pinned", "raised"} /\ BodyVersion = pin /\ Clamp(BodyVersion) < pin
<1>1. clientMax \in Int
  BY VersionsAreNumbers, SitesAssumption DEF clientMax, ClientVersion, VersionRules
<1>2. pin \in Int /\ rule \in {"negotiated", "pinned", "positive", "raised"}
  BY SitesAssumption, Zenon DEF VersionRules, rule, pin
<1>3. \A n \in Int : negotiatedVersion(n) \in Int
  BY Zenon DEF negotiatedVersion
<1>4. BodyVersion \in Int
  BY <1>1, <1>2, <1>3, Zenon DEF BodyVersion
<1>5. Clamp(BodyVersion) \in Int
  BY <1>3, <1>4, Zenon DEF Clamp
<1>6. ASSUME BodyVersion # Clamp(BodyVersion)
      PROVE  /\ apiVersions = negotiatedVersion(clientMax) /\ apiVersions > 0
             /\ Clamp(BodyVersion) = apiVersions /\ apiVersions < BodyVersion
  BY <1>6, <1>4 DEF Clamp, negotiatedVersion
<1>7. ASSUME BodyVersion # Clamp(BodyVersion)
      PROVE  rule \in {"pinned", "raised"} /\ BodyVersion = pin
  BY <1>2, <1>6, <1>7 DEF BodyVersion
<1> QED BY <1>4, <1>5, <1>6, <1>7, Zenon

LEMMA EntryIsNumber ==
  ASSUME site \in Sites, NEW r \in [min : Nat, max : Int]
  PROVE  Entry(r, clientMax) \in Int
<1>1. clientMax \in Int
  BY VersionsAreNumbers, SitesAssumption DEF clientMax, ClientVersion, VersionRules
<1> QED BY <1>1 DEF Entry, NegotiateVersion, Absent

(* The invariant holds, and every action preserves it. *)
LEMMA Invariance == NegotiationSpec => []VersionInv
<1>1. NegotiationInit => VersionInv
  BY SitesAssumption DEF NegotiationInit, VersionInv, Sent, NoRequest, NotAdvertised
<1>2. VersionInv /\ [NegotiationNext]_negotiationVars => VersionInv'
  <2> SUFFICES ASSUME VersionInv, [NegotiationNext]_negotiationVars PROVE VersionInv'
    BY Zenon
  <2>1. CASE NegotiateVersions
    <3>1. apiVersions' = Entry(heard, clientMax)'
      BY <2>1, Zenon DEF NegotiateVersions, Entry, clientMax
    <3>2. call' \in [state : {"open"}, body : Int, header : Int]
      BY <2>1, Zenon DEF NegotiateVersions, VersionInv
    <3>3. /\ site' = site /\ range' = range /\ heard' = range
          /\ range.min <= range.min /\ range.max <= range.max
      BY <2>1 DEF NegotiateVersions, VersionInv
    <3> QED BY <3>1, <3>2, <3>3, Zenon DEF VersionInv, Sent
  <2>2. ASSUME UNCHANGED <<site, apiVersions, heard>>
        PROVE  /\ (BodyVersion' = BodyVersion) /\ (Clamp(BodyVersion)' = Clamp(BodyVersion))
               /\ Entry(heard, clientMax)' = Entry(heard, clientMax)
               /\ Common' = Common /\ Refuses' = Refuses
    BY <2>2 DEF BodyVersion, Clamp, negotiatedVersion, Entry, clientMax, rule, pin, floor,
                Common, Refuses, AdvertisesAPI
  <2>3. CASE NegotiationFails \/ Refuse \/ Again
    <3>1. /\ call' \in [state : {"open", "refused"}, body : Int, header : Int]
          /\ UNCHANGED <<site, range, apiVersions, heard>>
          /\ call'.state = "refused" => Refuses
          /\ ~Sent'
      BY <2>3 DEF Sent, NegotiationFails, Refuse, Again, NoRequest, VersionInv
    <3> QED BY <3>1, <2>2, Zenon DEF VersionInv
  <2>4. CASE Request
    <3>1. UNCHANGED <<site, range, apiVersions, heard>>
      BY <2>4, Zenon DEF Request
    <3>2. apiVersions \in Int
      BY EntryIsNumber DEF VersionInv, Unknown
    <3>3. BodyVersion \in Int /\ Clamp(BodyVersion) \in Int
      BY <3>2, VersionsOfRequests, Zenon DEF VersionInv
    <3>4. /\ call' \in [state : {"sent"}, body : Int, header : Int]
          /\ call'.body = BodyVersion /\ call'.header = Clamp(BodyVersion)
      BY <2>4, <3>3, Zenon DEF Request
    <3> QED BY <3>1, <3>4, <2>2 DEF VersionInv
  <2>5. CASE Answer
    <3>1. UNCHANGED <<site, range, apiVersions, heard>>
      BY <2>5, Zenon DEF Answer
    <3>2. /\ call' \in [state : {"answered", "rejected"}, body : Int, header : Int]
          /\ call'.body = call.body /\ call'.header = call.header
          /\ call.state = "sent"
      BY <2>5, Zenon DEF Answer, VersionInv
    <3>3. ASSUME Common # {}, apiVersions = Entry(heard, clientMax),
                 Advertises(heard) => range.min <= heard.min /\ heard.max <= range.max
          PROVE  call'.state = "answered"
      <4>1. call.header = BodyVersion /\ InRange(BodyVersion, heard) /\ BodyVersion \in Int
        BY <3>2, <3>3, ChoiceIsCommon, Zenon DEF VersionInv, Sent
      <4>2. InRange(call.header, range)
        BY <4>1, <3>3 DEF InRange, Advertises, VersionInv
      <4> QED BY <4>2, <2>5, Zenon DEF Answer, VersionInv
    <3>4. ASSUME heard = NotAdvertised PROVE Common = {}
      BY <3>4, SitesAssumption DEF Common, NotAdvertised, InRange, VersionInv
    <3>5. call'.state = "rejected" => Common = {}
      BY <3>3, <3>4, Zenon DEF VersionInv
    <3> QED BY <3>1, <3>2, <3>5, <2>2 DEF VersionInv, Sent
  <2>6. CASE Upgrade
    <3>1. UNCHANGED <<site, apiVersions, heard, call>>
      BY <2>6, Zenon DEF Upgrade
    <3>2. /\ range' \in [min : Nat, max : Int]
          /\ Advertises(range) => range'.min <= range.min /\ range.max <= range'.max
      BY <2>6, SitesAssumption DEF Upgrade, VersionInv
    <3>3. ASSUME Advertises(heard), range.min <= heard.min, heard.max <= range.max
          PROVE  range'.min <= heard.min /\ heard.max <= range'.max
      BY <3>2, <3>3 DEF Advertises, VersionInv
    <3> QED BY <3>1, <3>2, <3>3, <2>2 DEF VersionInv, Sent
  <2>7. CASE UNCHANGED negotiationVars
    BY <2>7, <2>2 DEF negotiationVars, VersionInv, Sent
  <2> QED BY <2>1, <2>3, <2>4, <2>5, <2>6, <2>7, Zenon DEF NegotiationNext
<1> QED BY <1>1, <1>2, PTL DEF NegotiationSpec

(* A request that is sent, and sent again after any upgrades of the broker, *)
(* has body and header at one version that the broker supports, if there   *)
(* was a version that both sides spoke when the client negotiated          *)
(* (NegotiateVersions, Request, and the callers of NegotiatedVersion).     *)
THEOREM CommonVersion == NegotiationSpec => []SentAtCommonVersion
<1>1. VersionInv => SentAtCommonVersion
  <2> SUFFICES ASSUME VersionInv, Sent
               PROVE  /\ Common # {} => /\ call.body = call.header
                                        /\ InRange(call.header, range)
                                        /\ call.state # "rejected"
                      /\ call.body # call.header => /\ rule \in {"pinned", "raised"}
                                                    /\ call.body = pin /\ call.header < pin
    BY Zenon DEF SentAtCommonVersion
  <2>1. ASSUME Common # {}
        PROVE  /\ call.body = call.header /\ InRange(call.header, range)
               /\ call.state # "rejected"
    <3>1. heard # NotAdvertised
      BY <2>1, SitesAssumption DEF Common, NotAdvertised, InRange, VersionInv
    <3>2. /\ call.body = BodyVersion /\ call.header = BodyVersion
          /\ BodyVersion \in Int /\ InRange(BodyVersion, heard)
      BY <2>1, <3>1, ChoiceIsCommon, Zenon DEF VersionInv
    <3> QED BY <2>1, <3>1, <3>2 DEF VersionInv, InRange, Advertises
  <2>2. apiVersions \in Int
    BY EntryIsNumber DEF VersionInv, Unknown
  <2>3. call.body # call.header =>
          rule \in {"pinned", "raised"} /\ call.body = pin /\ call.header < pin
    BY <2>2, VersionsOfRequests, Zenon DEF VersionInv
  <2> QED BY <2>1, <2>3, Zenon
<1> QED BY <1>1, Invariance, PTL

(* No operation is refused that could have worked: an error before         *)
(* anything is sent means that the broker supports no version that the     *)
(* site's code speaks (requestAny, requireShareSupport, FetchOffsets).     *)
THEOREM Refusals == NegotiationSpec => []RefusedOnlyIfUnsupported
<1>1. VersionInv => RefusedOnlyIfUnsupported
  <2> SUFFICES ASSUME VersionInv, call.state = "refused", Common # {} PROVE FALSE
    BY Zenon DEF RefusedOnlyIfUnsupported
  <2>1. clientMax \in Nat /\ clientMax = Ver[VersionOf[site].api]
    BY VersionsAreNumbers, SitesAssumption, Zenon DEF VersionInv, clientMax, ClientVersion, VersionRules
  <2>2. PICK v \in Speaks[site] : InRange(v, heard)
    BY Zenon DEF Common
  <2>3. v \in Int /\ 0 <= v /\ v <= clientMax /\ floor \in Int /\ floor <= v
    BY <2>1, <2>2, SitesAssumption, Zenon DEF VersionInv, floor, VersionRules
  <2>4. /\ heard.min \in Int /\ heard.max \in Int /\ heard.min <= v /\ v <= heard.max
        /\ heard # NotAdvertised
    BY <2>2, <2>3 DEF InRange, VersionInv, NotAdvertised
  <2>5. apiVersions = NegotiateVersion(heard, clientMax)
    BY <2>1, <2>3, <2>4 DEF VersionInv, Entry, Advertises
  <2>6. apiVersions \in Int /\ v <= apiVersions
    BY <2>1, <2>3, <2>4, <2>5 DEF NegotiateVersion
  <2>7. ~Refuses
    BY <2>3, <2>6 DEF Refuses, AdvertisesAPI, negotiatedVersion, Unknown, Absent
  <2> QED BY <2>7, Zenon DEF VersionInv
<1> QED BY <1>1, Invariance, PTL

-------------------------------------------------------------------------------
(* The fake broker.  Its invariant is not inductive: that an answer is     *)
(* true rests on the results that a request has collected being true, on   *)
(* no batch of a request being in the log of a partition before its turn,  *)
(* and on request and topic ids being used only once.                      *)


Batch == [id : Nat, base : Int, len : Int]
AnswerRecord == [id : Nat, part : Parts, uuid : Nat \cup {None},
           code : {"ok", "fault", "unknown"}, base : Int, len : Int]
Fault == [n : Int, part : Parts \cup {None}]
RequestRecord == [id : Nat, todo : SUBSET Parts, fails : SUBSET Parts, results : SUBSET AnswerRecord]

TypeInv ==
  /\ topic \in Nat \cup {None} /\ nextUUID \in Nat /\ sent \in Nat
  /\ log \in [Parts -> Seq(Batch)] /\ leo \in [Parts -> Int]
  /\ fault \in Fault /\ conn \in [Conns -> RequestRecord]
  /\ answers \in SUBSET AnswerRecord

\* An answer about the present topic is true, and an "ok" has the id of a topic.
Good(a) ==
  /\ a.code = "ok" => a.uuid # None /\ a.uuid <= nextUUID
  /\ (a.code = "ok" => a.uuid = topic) => True(a)

\* Ids of requests and topics are new when they are given.
Ids ==
  /\ topic # None => topic <= nextUUID
  /\ \A c \in Conns : conn[c].id <= sent
  /\ \A c, d \in Conns : conn[c].id = conn[d].id /\ conn[c].id # 0 => c = d
  /\ \A c \in Conns : conn[c].id = 0 => conn[c].todo = {}
  /\ \A x \in Parts : \A i \in DOMAIN log[x] : log[x][i].id <= sent /\ log[x][i].id # 0
  /\ \A a \in answers : a.id <= sent /\ a.id # 0 /\ \A c \in Conns : conn[c].id # a.id

\* No batch of a request is in the log of a partition before its turn.
NotYet == \A c \in Conns : \A x \in conn[c].todo : \A i \in DOMAIN log[x] : log[x][i].id # conn[c].id

Collected ==
  \A c \in Conns : \A a \in conn[c].results :
    a.id = conn[c].id /\ a.id # 0 /\ a.part \notin conn[c].todo /\ Good(a)

IInv ==
  /\ TypeInv /\ Ids /\ NotYet /\ Collected
  /\ \A x \in Parts : Dense(x)
  /\ \A a \in answers : Good(a)

LEMMA InitIInv == Init => IInv
  BY DEF Init, IInv, TypeInv, Ids, NotYet, Collected, Dense, Good, True, Idle, Fault, RequestRecord, AnswerRecord, Batch

LEMMA EntryType ==
  ASSUME TypeInv, NEW x \in Parts, NEW i \in DOMAIN log[x]
  PROVE  log[x][i] \in Batch /\ log[x][i].id \in Nat
  <1>1. log[x] \in Seq(Batch)
    BY Zenon DEF TypeInv
  <1>2. log[x][i] \in Batch
    BY <1>1
  <1> QED BY <1>2, Zenon DEF Batch

\* What a step does not touch stays as it is.
LEMMA SameLog ==
  ASSUME IInv, UNCHANGED <<log, leo, nextUUID>>, topic' = topic \/ topic' = None
  PROVE  /\ \A x \in Parts : Dense(x)'
         /\ \A a \in AnswerRecord : Good(a) => Good(a)'
  <1>1. \A x \in Parts : Dense(x)'
    BY Zenon DEF IInv, Dense
  <1>2. \A a \in AnswerRecord : True(a)' = True(a)
    BY Zenon DEF True
  <1>3. \A a \in AnswerRecord : Good(a) => Good(a)'
    BY <1>2, Zenon DEF Good, True
  <1> QED BY <1>1, <1>3, Zenon

LEMMA CreateKeeps == IInv /\ createTopic => IInv'
  <1> SUFFICES ASSUME IInv, createTopic PROVE IInv'
    BY Zenon
  <1>1. TypeInv'
    BY DEF IInv, createTopic, TypeInv
  <1>2. Ids' /\ NotYet'
    BY DEF IInv, createTopic, TypeInv, Ids, NotYet, RequestRecord
  <1>3. \A x \in Parts : Dense(x)'
    BY DEF createTopic, Dense
  <1>4. \A a \in AnswerRecord : Good(a) => Good(a)'
    <2> SUFFICES ASSUME NEW a \in AnswerRecord, Good(a) PROVE Good(a)'
      BY Zenon
    <2>1. CASE a.code = "ok"
      BY <2>1 DEF IInv, TypeInv, createTopic, Good, AnswerRecord
    <2>2. CASE a.code # "ok"
      BY <2>2 DEF createTopic, Good, True, AnswerRecord
    <2> QED BY <2>1, <2>2, Zenon
  <1>5. Collected' /\ \A a \in answers' : Good(a)'
    BY <1>4, Zenon DEF IInv, TypeInv, createTopic, Collected, RequestRecord
  <1> QED BY <1>1, <1>2, <1>3, <1>5, Zenon DEF IInv

\* The steps that leave the log and the requests alone.
LEMMA QuietKeeps ==
  ASSUME IInv, UNCHANGED <<nextUUID, log, leo, conn, sent, answers>>,
         topic' = topic \/ topic' = None, fault' \in Fault
  PROVE  IInv'
  <1>1. TypeInv' /\ Ids' /\ NotYet'
    BY Zenon DEF IInv, TypeInv, Ids, NotYet
  <1>2. Collected' /\ \A a \in answers' : Good(a)'
    BY SameLog, Zenon DEF IInv, TypeInv, Collected, RequestRecord
  <1> QED BY <1>1, <1>2, SameLog, Zenon DEF IInv

LEMMA ProduceKeeps ==
  ASSUME IInv, NEW c \in Conns, NEW parts \in SUBSET Parts, Produce(c, parts)
  PROVE  IInv'
  <1>1. TypeInv'
    BY DEF IInv, TypeInv, Produce, store, Faulted, takeProduceFault, Fault, RequestRecord
  <1>2. Ids'
    <2>1. \A d \in Conns : conn[d].id \in Nat /\ conn[d].id <= sent /\ sent \in Nat
      BY Zenon DEF IInv, TypeInv, Ids, RequestRecord
    <2>2. \A d \in Conns : conn'[d] = IF d = c THEN conn'[c] ELSE conn[d]
      BY Zenon DEF IInv, TypeInv, Produce
    <2>3. conn'[c].id = sent + 1 /\ sent' = sent + 1
      BY Zenon DEF IInv, TypeInv, Produce
    <2>4. \A d \in Conns : conn'[d].id <= sent' /\ (conn'[d].id = 0 => conn'[d].todo = {})
      BY <2>1, <2>2, <2>3 DEF IInv, Ids
    <2>5. \A d, e \in Conns : conn'[d].id = conn'[e].id /\ conn'[d].id # 0 => d = e
      BY <2>1, <2>2, <2>3 DEF IInv, Ids
    <2>6. \A x \in Parts : \A i \in DOMAIN log'[x] : log'[x][i].id <= sent' /\ log'[x][i].id # 0
      BY SMTT(30), <2>3, EntryType DEF IInv, TypeInv, Ids, Produce, store
    <2>7. \A a \in answers' : a.id <= sent' /\ a.id # 0 /\ \A d \in Conns : conn'[d].id # a.id
      BY SMTT(30), <2>1, <2>2, <2>3 DEF IInv, TypeInv, Ids, Produce, AnswerRecord
    <2> QED BY <2>4, <2>5, <2>6, <2>7, Zenon DEF IInv, Ids, Produce, store
  <1>3. NotYet'
    <2> SUFFICES ASSUME NEW d \in Conns, NEW x \in conn'[d].todo, NEW i \in DOMAIN log[x]
                 PROVE  log[x][i].id # conn'[d].id
      <3>1. log' = log
        BY Zenon DEF Produce, store
      <3> QED BY <3>1, Zenon DEF NotYet
    <2>1. CASE d = c
      <3>1. x \in Parts /\ conn'[d].id = sent + 1
        BY <2>1, Zenon DEF IInv, TypeInv, Produce, RequestRecord
      <3>2. log[x][i].id \in Nat /\ log[x][i].id <= sent /\ sent \in Nat
        BY <3>1, EntryType, Zenon DEF IInv, TypeInv, Ids
      <3> QED BY <3>1, <3>2
    <2>2. CASE d # c
      BY <2>2, Zenon DEF IInv, TypeInv, NotYet, Produce, RequestRecord
    <2> QED BY <2>1, <2>2, Zenon
  <1>4. Collected' /\ \A a \in answers' : Good(a)'
    BY SameLog, Zenon DEF IInv, TypeInv, Collected, Produce, store, RequestRecord
  <1> QED BY <1>1, <1>2, <1>3, <1>4, SameLog, Zenon DEF IInv, Produce, store

LEMMA RespondKeeps ==
  ASSUME IInv, NEW c \in Conns, Respond(c)
  PROVE  IInv'
  <1>1. TypeInv' /\ NotYet'
    BY Zenon DEF IInv, TypeInv, NotYet, Respond, store, Idle, RequestRecord
  <1>2. Ids'
    <2>1. \A d \in Conns : conn'[d] = IF d = c THEN Idle ELSE conn[d]
      BY Zenon DEF IInv, TypeInv, Respond
    <2>2. UNCHANGED <<topic, nextUUID, log, sent>> /\ sent \in Nat
      BY Zenon DEF IInv, TypeInv, Respond, store
    <2>3. \A a \in answers' : a \in answers \/ a \in conn[c].results
      BY Zenon DEF Respond
    <2>4. \A a \in answers' : a.id <= sent /\ a.id # 0 /\ \A d \in Conns : d # c => conn[d].id # a.id
      BY <2>3 DEF IInv, Ids, Collected
    <2>5. \A a \in answers' : \A d \in Conns : conn'[d].id # a.id
      BY <2>1, <2>4 DEF Idle
    <2>6. \A d \in Conns : conn'[d].id <= sent /\ (conn'[d].id = 0 => conn'[d].todo = {})
      BY <2>1, <2>2 DEF IInv, Ids, Idle
    <2>7. \A d, e \in Conns : conn'[d].id = conn'[e].id /\ conn'[d].id # 0 => d = e
      BY SMTT(30), <2>1 DEF IInv, Ids, Idle
    <2> QED BY <2>2, <2>4, <2>5, <2>6, <2>7, Zenon DEF IInv, Ids
  <1>3. Collected' /\ \A a \in answers' : Good(a)'
    BY SameLog, Zenon DEF IInv, TypeInv, Collected, Respond, store, Idle, RequestRecord
  <1> QED BY <1>1, <1>2, <1>3, SameLog, Zenon DEF IInv, Respond, store

\* How an append changes the log of its partition.
LEMMA Appended ==
  ASSUME TypeInv, NEW x \in Parts, NEW b \in Batch,
         log' = [log EXCEPT ![x] = Append(@, b)]
  PROVE  /\ log'[x] \in Seq(Batch) /\ Len(log[x]) \in Nat
         /\ DOMAIN log[x] = 1..Len(log[x]) /\ DOMAIN log'[x] = 1..(Len(log[x]) + 1)
         /\ Len(log'[x]) = Len(log[x]) + 1
         /\ \A i \in DOMAIN log[x] : log'[x][i] = log[x][i]
         /\ log'[x][Len(log[x]) + 1] = b
         /\ \A y \in Parts : y # x => log'[y] = log[y]
  <1>1. log[x] \in Seq(Batch) /\ log'[x] = Append(log[x], b)
    BY Zenon DEF TypeInv
  <1>2. \A y \in Parts : y # x => log'[y] = log[y]
    BY Zenon DEF TypeInv
  <1> QED BY <1>1, <1>2

LEMMA AppendBatchKeeps ==
  ASSUME IInv, NEW c \in Conns, NEW p \in Parts, NEW n \in Int, AppendBatch(c, p, n)
  PROVE  IInv'
  <1> DEFINE code == CASE p \in conn[c].fails -> "fault"
                       [] p \notin conn[c].fails /\ topic = None -> "unknown"
                       [] OTHER -> "ok"
             result == Result(c, p, code, IF code = "ok" THEN leo[p] ELSE -1, n)
             b == [id |-> conn[c].id, base |-> leo[p], len |-> n]
  <1>1. /\ conn[c] \in RequestRecord /\ p \in conn[c].todo /\ conn[c].id # 0
        /\ conn[c].id \in Nat /\ leo[p] \in Int
    BY Zenon DEF IInv, TypeInv, Ids, AppendBatch, RequestRecord
  <1>2. code \in {"ok", "fault", "unknown"} /\ (code = "ok" => topic # None)
    BY Zenon
  <1>3. /\ result \in AnswerRecord /\ result.id = conn[c].id /\ result.part = p
        /\ result.code = code /\ result.uuid = topic
    BY <1>1, <1>2 DEF Result, AnswerRecord, IInv, TypeInv
  <1>a. PICK r \in AnswerRecord : r = result
    BY <1>3, Zenon
  <1>4. /\ conn' = [conn EXCEPT ![c].todo = @ \ {p}, ![c].results = @ \cup {r}]
        /\ UNCHANGED <<topic, nextUUID, fault, sent, closed, answers>>
    BY <1>a, Zenon DEF AppendBatch
  <1> HIDE DEF code, result, b
  <1>b. r.id = conn[c].id /\ r.part = p /\ r.code = code /\ r.uuid = topic
    BY <1>3, <1>a, Zenon
  <1>5. /\ conn'[c].id = conn[c].id /\ conn'[c].todo = conn[c].todo \ {p}
        /\ conn'[c].results = conn[c].results \cup {r}
        /\ conn' \in [Conns -> RequestRecord]
        /\ \A d \in Conns \ {c} : conn'[d] = conn[d]
    <2>1. conn \in [Conns -> RequestRecord]
      BY Zenon DEF IInv, TypeInv
    <2>2. c \in DOMAIN conn /\ DOMAIN conn' = Conns
      BY <1>4, <2>1, Zenon
    <2>3. /\ conn'[c].id = conn[c].id /\ conn'[c].todo = conn[c].todo \ {p}
          /\ conn'[c].results = conn[c].results \cup {r} /\ conn'[c] \in RequestRecord
      BY <1>1, <1>4, <2>1, <2>2, Zenon DEF RequestRecord
    <2> QED BY <1>4, <2>1, <2>3, Zenon
  <1>6. \A d \in Conns : conn'[d].id = conn[d].id /\ conn'[d].todo \subseteq conn[d].todo
    BY <1>5, Zenon
  <1>d. UNCHANGED <<topic, nextUUID, sent, answers>>
    BY <1>4, Zenon
  <1>c. ASSUME \A x \in Parts : \A i \in DOMAIN log'[x] : log'[x][i].id <= sent /\ log'[x][i].id # 0
        PROVE  Ids'
    <2>1. \A d \in Conns : conn'[d].id <= sent'
      BY <1>d, <1>6, Zenon DEF IInv, Ids
    <2>2. \A d \in Conns : conn'[d].id = 0 => conn'[d].todo = {}
      BY <1>6, Zenon DEF IInv, Ids
    <2>3. \A d, e \in Conns : conn'[d].id = conn'[e].id /\ conn'[d].id # 0 => d = e
      BY <1>6 DEF IInv, Ids
    <2>4. \A a \in answers' : a.id <= sent' /\ a.id # 0 /\ \A d \in Conns : conn'[d].id # a.id
      BY <1>d, <1>6, Zenon DEF IInv, Ids
    <2>5. topic' # None => topic' <= nextUUID'
      BY <1>d, Zenon DEF IInv, Ids
    <2>6. \A x \in Parts : \A i \in DOMAIN log'[x] : log'[x][i].id <= sent' /\ log'[x][i].id # 0
      BY <1>d, <1>c, Zenon
    <2> QED BY <2>1, <2>2, <2>3, <2>4, <2>5, <2>6, Zenon DEF Ids
  <1>7. CASE code # "ok"
    <2>1. UNCHANGED <<log, leo>>
      BY <1>7, Zenon DEF AppendBatch, code
    <2>2. TypeInv' /\ NotYet'
      BY <1>4, <1>5, <1>6, <2>1 DEF IInv, TypeInv, NotYet
    <2>i. Ids'
      <3>1. \A x \in Parts : \A i \in DOMAIN log[x] : log[x][i].id <= sent /\ log[x][i].id # 0
        BY Zenon DEF IInv, Ids
      <3> QED BY <1>c, <2>1, <3>1, Zenon
    <2>3. Good(r)'
      <3>1. \A i \in DOMAIN log[p] : log[p][i].id # conn[c].id
        BY <1>1, Zenon DEF IInv, NotYet
      <3> QED BY <1>b, <1>7, <2>1, <3>1, Zenon DEF Good, True
    <2>4. Collected' /\ \A a \in answers' : Good(a)'
      <3>1. \A a \in AnswerRecord : Good(a) => Good(a)'
        BY <1>4, <2>1, SameLog, Zenon
      <3>2. \A d \in Conns : conn[d].results \subseteq AnswerRecord
        BY Zenon DEF IInv, TypeInv, RequestRecord
      <3>3. \A d \in Conns : \A a \in conn[d].results :
              a.id = conn[d].id /\ a.id # 0 /\ a.part \notin conn[d].todo /\ Good(a)'
        BY <3>1, <3>2, Zenon DEF IInv, Collected
      <3>4. Collected'
        BY SMTT(30), <1>1, <1>b, <1>5, <2>3, <3>3 DEF Collected
      <3> QED BY <1>4, <3>1, <3>4, Zenon DEF IInv, TypeInv
    <2> QED BY <1>4, <2>1, <2>2, <2>i, <2>4, SameLog, Zenon DEF IInv
  <1>8. CASE code = "ok"
    <2>1. /\ log' = [log EXCEPT ![p] = Append(@, b)]
          /\ leo' = [leo EXCEPT ![p] = @ + n]
      BY <1>8, Zenon DEF AppendBatch, EndOffset, code, b
    <2>2. b \in Batch /\ TypeInv
      BY <1>1, Zenon DEF Batch, IInv, b
    <2>3. /\ log'[p] \in Seq(Batch) /\ Len(log[p]) \in Nat
          /\ DOMAIN log[p] = 1..Len(log[p]) /\ DOMAIN log'[p] = 1..(Len(log[p]) + 1)
          /\ Len(log'[p]) = Len(log[p]) + 1
          /\ \A i \in DOMAIN log[p] : log'[p][i] = log[p][i]
          /\ log'[p][Len(log[p]) + 1] = b
          /\ \A y \in Parts : y # p => log'[y] = log[y]
      BY <2>1, <2>2, Appended, Zenon
    <2>4. TypeInv'
      BY <1>4, <1>5, <2>1, <2>2, <2>3 DEF TypeInv
    <2>a. PICK last \in Nat : last = Len(log[p]) + 1
      BY <2>3
    <2>b. /\ DOMAIN log'[p] = DOMAIN log[p] \cup {last} /\ last \notin DOMAIN log[p]
          /\ \A i \in DOMAIN log[p] : log'[p][i] = log[p][i]
          /\ log'[p][last] = b
      BY <2>3, <2>a
    <2>c. \A y \in Parts : y # p => log'[y] = log[y]
      BY <2>3, Zenon
    <2>d. b.id = conn[c].id /\ b.base = leo[p] /\ b.len = n
      BY Zenon DEF b
    <2>5. Ids'
      <3>1. \A x \in Parts : \A i \in DOMAIN log'[x] : log'[x][i].id <= sent /\ log'[x][i].id # 0
        <4>1. conn[c].id <= sent
          BY Zenon DEF IInv, Ids
        <4>2. \A i \in DOMAIN log'[p] : log'[p][i].id <= sent /\ log'[p][i].id # 0
          <5> SUFFICES ASSUME NEW i \in DOMAIN log'[p]
                       PROVE  log'[p][i].id <= sent /\ log'[p][i].id # 0
            BY Zenon
          <5>1. CASE i \in DOMAIN log[p]
            <6>1. log[p][i].id <= sent /\ log[p][i].id # 0
              BY <5>1, Zenon DEF IInv, Ids
            <6>2. log'[p][i] = log[p][i]
              BY <2>b, <5>1, Zenon
            <6> QED BY <6>1, <6>2, Zenon
          <5>2. CASE i = last
            BY <1>1, <2>b, <2>d, <4>1, <5>2, Zenon
          <5> QED BY <2>b, <5>1, <5>2, Zenon
        <4>3. ASSUME NEW x \in Parts, x # p, NEW i \in DOMAIN log'[x]
              PROVE  log'[x][i].id <= sent /\ log'[x][i].id # 0
          <5>1. log'[x] = log[x]
            BY <2>c, <4>3, Zenon
          <5>2. log[x][i].id <= sent /\ log[x][i].id # 0
            BY <4>3, <5>1, Zenon DEF IInv, Ids
          <5> QED BY <5>1, <5>2, Zenon
        <4> QED BY <4>2, <4>3, Zenon
      <3> QED BY <1>c, <3>1, Zenon
    <2>6. NotYet'
      <3> SUFFICES ASSUME NEW d \in Conns, NEW x \in conn'[d].todo, NEW i \in DOMAIN log'[x]
                   PROVE  log'[x][i].id # conn'[d].id
        BY Zenon DEF NotYet
      <3>1. x \in Parts /\ x \in conn[d].todo /\ conn'[d].id = conn[d].id
        BY <1>6, <2>2, Zenon DEF TypeInv, RequestRecord
      <3>2. CASE x # p
        BY <2>c, <3>1, <3>2 DEF IInv, NotYet
      <3>3. CASE x = p
        <4>1. d # c
          BY <1>5, <3>3, Zenon
        <4>2. conn[d].id # conn[c].id
          BY <1>1, <4>1, Zenon DEF IInv, Ids
        <4>3. CASE i \in DOMAIN log[p]
          <5>1. log[p][i].id # conn[d].id
            BY <3>1, <3>3, <4>3, Zenon DEF IInv, NotYet
          <5> QED BY <2>b, <3>1, <3>3, <4>3, <5>1, Zenon
        <4>4. CASE i = last
          BY <2>b, <2>d, <3>1, <3>3, <4>2, <4>4, Zenon
        <4> QED BY <2>b, <3>3, <4>3, <4>4, Zenon
      <3> QED BY <3>2, <3>3, Zenon
    <2>7. \A x \in Parts : Dense(x)'
      <3>1. \A x \in Parts : x # p => Dense(x)'
        <4> SUFFICES ASSUME NEW x \in Parts, x # p PROVE Dense(x)'
          BY Zenon
        <4>1. log'[x] = log[x] /\ leo'[x] = leo[x]
          BY <2>1, <2>2, <2>c, Zenon DEF TypeInv
        <4>2. Dense(x)
          BY Zenon DEF IInv
        <4> QED BY <4>1, <4>2, Zenon DEF Dense
      <3>2. Dense(p)'
        <4>1. Dense(p) /\ leo'[p] = leo[p] + n
          BY <2>1, <2>2, Zenon DEF IInv, TypeInv
        <4>2. log[p] = <<>> <=> Len(log[p]) = 0
          BY <2>2 DEF TypeInv
        <4>3. \A i \in 1..(Len(log[p]) + 1) :
                log'[p][i].base = IF i = 1 THEN 0 ELSE log'[p][i - 1].base + log'[p][i - 1].len
          <5> SUFFICES ASSUME NEW i \in 1..(Len(log[p]) + 1)
                       PROVE  log'[p][i].base = IF i = 1 THEN 0 ELSE log'[p][i - 1].base + log'[p][i - 1].len
            BY Zenon
          <5>1. CASE i \in DOMAIN log[p]
            <6>1. i # 1 => i - 1 \in DOMAIN log[p]
              <7>1. i \in Int /\ 1 <= i /\ i <= Len(log[p]) /\ Len(log[p]) \in Nat
                BY SMTT(30), <2>3, <5>1
              <7>2. DOMAIN log[p] = 1..Len(log[p])
                BY <2>3, Zenon
              <7> QED BY <7>1, <7>2
            <6> QED BY <2>3, <4>1, <5>1, <6>1, Zenon DEF Dense
          <5>2. CASE i = Len(log[p]) + 1
            <6>1. i # 1 => i - 1 \in DOMAIN log[p] /\ i - 1 = Len(log[p])
              BY <2>3, <5>2
            <6>2. log'[p][i].base = leo[p]
              BY <2>a, <2>b, <2>d, <5>2, Zenon
            <6>3. CASE Len(log[p]) = 0
              <7>1. leo[p] = 0 /\ i = 1
                BY <4>1, <4>2, <5>2, <6>3 DEF Dense
              <7> QED BY <6>2, <7>1, Zenon
            <6>4. CASE Len(log[p]) # 0
              <7>1. leo[p] = log[p][Len(log[p])].base + log[p][Len(log[p])].len
                BY <4>1, <4>2, <6>4, Zenon DEF Dense
              <7>2. i # 1 /\ i - 1 = Len(log[p]) /\ i - 1 \in DOMAIN log[p]
                BY <2>3, <5>2, <6>1, <6>4
              <7>3. log'[p][i - 1] = log[p][i - 1]
                BY <2>b, <7>2, Zenon
              <7> QED BY <6>2, <7>1, <7>2, <7>3, Zenon
            <6> QED BY <6>3, <6>4, Zenon
          <5>3. i \in DOMAIN log[p] \/ i = Len(log[p]) + 1
            BY <2>3
          <5> QED BY <5>1, <5>2, <5>3, Zenon
        <4>4. log'[p] # <<>> /\ log'[p][Len(log'[p])].base = leo[p] /\ log'[p][Len(log'[p])].len = n
          <5>1. Len(log'[p]) = last
            BY <2>3, <2>a, Zenon
          <5>2. log'[p] # <<>>
            BY <2>3
          <5> QED BY <2>b, <2>d, <5>1, <5>2, Zenon
        <4> QED BY <2>3, <4>1, <4>3, <4>4, Zenon DEF Dense
      <3> QED BY <3>1, <3>2, Zenon
    <2>8. \A a \in AnswerRecord : Good(a) /\ a.id # conn[c].id => Good(a)'
      <3> SUFFICES ASSUME NEW a \in AnswerRecord, Good(a), a.id # conn[c].id, (a.code = "ok" => a.uuid = topic)
                   PROVE  True(a)'
        BY <1>4, Zenon DEF Good
      <3>1. True(a)
        BY Zenon DEF Good
      <3>2. a.part \in Parts
        BY Zenon DEF AnswerRecord
      <3>3. {i \in DOMAIN log'[a.part] : log'[a.part][i].id = a.id}
              = {i \in DOMAIN log[a.part] : log[a.part][i].id = a.id}
        <4>1. CASE a.part # p
          BY <2>c, <3>2, <4>1, Zenon
        <4>2. CASE a.part = p
          <5>1. log'[p][last].id # a.id
            BY <2>b, <2>d, Zenon
          <5> QED BY <2>b, <4>2, <5>1, Zenon
        <4> QED BY <4>1, <4>2, Zenon
      <3>4. \A i \in DOMAIN log[a.part] : log'[a.part][i] = log[a.part][i]
        BY <2>b, <2>c, <3>2, Zenon
      <3> QED BY <3>1, <3>3, <3>4, Zenon DEF True
    <2>9. \A a \in conn[c].results : Good(a)'
      <3> SUFFICES ASSUME NEW a \in conn[c].results, (a.code = "ok" => a.uuid = topic)
                   PROVE  True(a)'
        BY <1>4, Zenon DEF IInv, Collected, Good
      <3>1. a \in AnswerRecord /\ a.part \in Parts /\ a.part # p /\ True(a)
        <4>1. a \in AnswerRecord /\ a.part \in Parts
          BY <1>1, Zenon DEF RequestRecord, AnswerRecord
        <4>2. a.part \notin conn[c].todo /\ Good(a)
          BY Zenon DEF IInv, Collected
        <4> QED BY <1>1, <4>1, <4>2, Zenon DEF Good
      <3>2. log'[a.part] = log[a.part]
        BY <2>c, <3>1, Zenon
      <3> QED BY <3>1, <3>2, Zenon DEF True
    <2>10. Good(r)'
      <3>1. r = [id |-> conn[c].id, part |-> p, uuid |-> topic, code |-> "ok", base |-> leo[p], len |-> n]
        BY <1>8, <1>a, Zenon DEF Result, result
      <3>2. {i \in DOMAIN log'[p] : log'[p][i].id = r.id} = {last}
        <4>1. \A i \in DOMAIN log[p] : log[p][i].id # r.id
          BY <1>1, <1>b, Zenon DEF IInv, NotYet
        <4>2. log'[p][last].id = r.id
          BY <1>b, <2>b, <2>d, Zenon
        <4> QED BY <2>b, <4>1, <4>2, Zenon
      <3>3. log'[p][last] = [id |-> r.id, base |-> r.base, len |-> r.len]
        BY <2>b, <3>1, Zenon DEF b
      <3>4. True(r)'
        <4>1. r.part = p /\ r.code = "ok"
          BY <1>b, <1>8, Zenon
        <4>2. {i \in DOMAIN log'[r.part] : log'[r.part][i].id = r.id} = {last}
          BY <3>2, <4>1, Zenon
        <4>3. log'[r.part][last] = [id |-> r.id, base |-> r.base, len |-> r.len]
          BY <3>3, <4>1, Zenon
        <4> QED BY <4>1, <4>2, <4>3, Zenon DEF True
      <3>5. topic # None /\ topic <= nextUUID
        BY <1>2, <1>8, Zenon DEF IInv, Ids
      <3> QED BY <1>b, <1>4, <3>4, <3>5, Zenon DEF Good
    <2>11. Collected'
      <3> SUFFICES ASSUME NEW d \in Conns, NEW a \in conn'[d].results
                   PROVE  a.id = conn'[d].id /\ a.id # 0 /\ a.part \notin conn'[d].todo /\ Good(a)'
        BY Zenon DEF Collected
      <3>1. CASE d = c
        <4>1. CASE a = r
          BY <1>1, <1>b, <1>5, <2>10, <3>1, <4>1, Zenon
        <4>2. CASE a \in conn[c].results
          <5>1. a.id = conn[c].id /\ a.id # 0 /\ a.part \notin conn[c].todo
            BY <4>2, Zenon DEF IInv, Collected
          <5> QED BY <1>5, <2>9, <3>1, <4>2, <5>1, Zenon
        <4> QED BY <1>5, <3>1, <4>1, <4>2, Zenon
      <3>2. CASE d # c
        <4>1. a \in conn[d].results /\ a \in AnswerRecord /\ conn'[d] = conn[d]
          BY <1>5, <2>2, <3>2, Zenon DEF TypeInv, RequestRecord
        <4>2. a.id = conn[d].id /\ a.id # 0 /\ a.part \notin conn[d].todo /\ Good(a)
          BY <4>1, Zenon DEF IInv, Collected
        <4>3. a.id # conn[c].id
          BY <1>1, <3>2, <4>2, Zenon DEF IInv, Ids
        <4> QED BY <2>8, <4>1, <4>2, <4>3, Zenon
      <3> QED BY <3>1, <3>2, Zenon
    <2>12. \A a \in answers' : Good(a)'
      BY <1>4, <2>2, <2>8, Zenon DEF IInv, TypeInv, Ids
    <2> QED BY <2>4, <2>5, <2>6, <2>7, <2>11, <2>12, Zenon DEF IInv
  <1> QED BY <1>7, <1>8, Zenon

LEMMA NextIInv == IInv /\ [Next]_vars => IInv'
  <1> SUFFICES ASSUME IInv, [Next]_vars PROVE IInv'
    BY Zenon
  <1>1. CASE createTopic
    BY <1>1, CreateKeeps, Zenon
  <1>2. CASE deleteTopic \/ Close \/ UNCHANGED vars
    BY <1>2, QuietKeeps, Zenon DEF deleteTopic, Close, vars, store, IInv, TypeInv
  <1>3. ASSUME NEW n \in 1..MaxFaults, NEW part \in Parts \cup {None}, FailNextProduce(n, part)
        PROVE  IInv'
    BY <1>3, QuietKeeps DEF FailNextProduce, store, Fault
  <1>4. ASSUME NEW c \in Conns, NEW parts \in SUBSET Parts, Produce(c, parts)
        PROVE  IInv'
    BY <1>4, ProduceKeeps, Zenon
  <1>5. ASSUME NEW c \in Conns, NEW p \in Parts, NEW n \in 1..MaxLen, AppendBatch(c, p, n)
        PROVE  IInv'
    <2>1. n \in Int
      OBVIOUS
    <2> QED BY <1>5, <2>1, AppendBatchKeeps, Zenon
  <1>6. ASSUME NEW c \in Conns, Respond(c)
        PROVE  IInv'
    BY <1>6, RespondKeeps, Zenon
  <1> QED BY <1>1, <1>2, <1>3, <1>4, <1>5, <1>6, Zenon DEF Next

\* While any number of connections produce, faults are injected and the topic comes
\* and goes, the fake broker's logs are dense and what it answers about a batch is
\* what became of it (handleProduce, FailNextProduce, createTopic, deleteTopic).
THEOREM BrokerKeepsItsWord == Spec => []KeepsItsWord
  <1>1. IInv => KeepsItsWord
    BY Zenon DEF IInv, KeepsItsWord, Good
  <1> QED BY <1>1, InitIInv, NextIInv, PTL DEF Spec
===============================================================================
