------------------------------ MODULE MCProtocol ------------------------------
(***************************************************************************)
(* Two situations, of which a behaviour stays in the one it starts in:     *)
(* every call site of the client against a broker that advertises any      *)
(* range of versions around the ones the client knows, and every shape of  *)
(* admin operation on a cluster of three brokers that loses requests and   *)
(* answers and moves what the operation is about.                          *)
(***************************************************************************)
EXTENDS Protocol

VARIABLES situation, op, owner, moves, targets, pending, batches, attempt, executed, results,
          failed, outcome

adminVars ==
  <<op, owner, moves, targets, pending, batches, attempt, executed, results, failed, outcome>>

MCSites == DOMAIN AdminOperations \cup DOMAIN ClientRequests

MCVersionOf ==
  [s \in MCSites |-> IF s \in DOMAIN AdminOperations THEN AdminOperations[s].version
                                                     ELSE ClientRequests[s]]

\* The share consumer's own guard is the same as that of requestAny.
MCGuarded ==
  {s \in DOMAIN AdminOperations : AdminOperations[s].route = "any"} \cup {"requireShareSupport"}

\* From one version to one above the client's highest, or nothing, or what the
\* in-memory broker advertises.
MCRanges ==
  [s \in MCSites |->
     LET a == MCVersionOf[s].api
         top == Ver[a]
     IN  {NotAdvertised} \cup {FakeRange(b) : b \in {a} \cap DOMAIN K!advertised} \cup
         {r \in [min : {0, 1, top, top + 1}, max : 0..top + 1] : r.min <= r.max}]

\* The lowest version whose body the code of an API writes; 0 for the others.
SpokenFrom ==
  [ DeleteTopics |-> 4, DescribeLogDirs |-> 2, DescribeClientQuotas |-> 1,
    AlterClientQuotas |-> 1, OffsetCommit |-> 1, EndTxn |-> 1, AddOffsetsToTxn |-> 1,
    ShareGroupHeartbeat |-> 1, ShareGroupDescribe |-> 1,
    ShareFetch |-> 1, ShareAcknowledge |-> 1 ]

MCSpeaks ==
  [s \in MCSites |->
     LET version == MCVersionOf[s]
         a == version.api
         lowest == IF a \in DOMAIN SpokenFrom THEN SpokenFrom[a] ELSE 0
     IN  { v \in lowest..Ver[a] :
             /\ a # "DeleteAcls" /\ v >= version.floor
             /\ version.rule = "pinned" => v = version.pin
             /\ version.rule = "positive" => v > 0
             /\ version.rule = "raised" => v >= version.pin }]

Operating == INSTANCE Admin
  WITH Listed <- <<"b1", "b2", "b3">>, Items <- {"i1", "i2"}, Attempts <- 2, MaxMoves <- 1,
       Operations <- { [route |-> AdminOperations[s].route, codes |-> AdminOperations[s].codes] :
                         s \in DOMAIN AdminOperations }

\* The variables of the other situation rest.
AdminRests ==
  /\ op = "none" /\ owner = <<>> /\ moves = 0 /\ targets = <<>> /\ pending = {} /\ batches = {}
  /\ attempt = 0 /\ executed = <<>> /\ results = <<>> /\ failed = {} /\ outcome = "none"

NegotiationRests ==
  /\ site = "none" /\ range = NotAdvertised /\ apiVersions = Unknown
  /\ heard = NotAdvertised /\ call = NoRequest

ProtocolInit ==
  \/ situation = "requests" /\ NegotiationInit /\ AdminRests
  \/ situation = "operations" /\ Operating!Init /\ NegotiationRests

ProtocolNext ==
  /\ UNCHANGED situation
  /\ \/ situation = "requests" /\ NegotiationNext /\ UNCHANGED adminVars
     \/ situation = "operations" /\ Operating!Next /\ UNCHANGED negotiationVars

ProtocolSpec == ProtocolInit /\ [][ProtocolNext]_<<situation, negotiationVars, adminVars>>

(* What an admin operation returns is what the brokers did: nothing is     *)
(* missing from a success, and nothing is reported that was not done       *)
(* (admin*.go, RequestAny), and only RequestAny repeats a request that a   *)
(* broker may have executed (DeleteRecords, DeleteConsumerGroups).         *)
AdminReportsAreTrue ==
  situation = "operations" => Operating!OutcomeIsTrue /\ Operating!OwnersExecuteOnce
===============================================================================
