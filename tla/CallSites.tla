------------------------------- MODULE CallSites -------------------------------
(***************************************************************************)
(* The places where the client makes requests: the operations of the admin *)
(* client (admin*.go), and the requests of producers, consumers and the    *)
(* connection layer.  A site is described by its API, the rule that gives  *)
(* the version of its bodies (see Negotiation), the brokers its requests   *)
(* go to, and what it does with the error codes of the responses (see      *)
(* Admin).                                                                 *)
(***************************************************************************)
EXTENDS Versions

\* Rules for versions.  floor: the site gives up below this negotiated version.
Negotiated(api) == [api |-> api, rule |-> "negotiated", pin |-> -1, floor |-> -1]
Pinned(api, v) == [api |-> api, rule |-> "pinned", pin |-> v, floor |-> -1]
Positive(api, v) == [api |-> api, rule |-> "positive", pin |-> v, floor |-> -1]
Raised(api, v) == [api |-> api, rule |-> "raised", pin |-> v, floor |-> -1]
AtLeast(v, version) == [version EXCEPT !.floor = v]

\* Routes: "any", through Admin.requestAny; "brokers", to every broker of the
\* metadata; "owners", in batches to the leaders or coordinators of what is
\* asked about; "each owner", one request for each thing; "controller"; "seed".
\* Codes: "fail", an error code fails the call; "refresh", the same, and so does
\* the refresh of the metadata that follows; "retry", a retriable one is retried;
\* "report", it is returned beside the results; "skip", what it is about is left
\* out of the results; "tolerate", a broker that fails is reported, and fails
\* the call when all brokers do.
Site(version, route, codes) == [version |-> version, route |-> route, codes |-> codes]

CreateTopics == Site(Pinned("CreateTopics", Ver.CreateTopics), "any", "refresh")
DeleteTopics == Site(Positive("DeleteTopics", Ver.DeleteTopics), "any", "fail")
ListConsumerGroups == Site(Pinned("ListGroups", Ver.ListGroups), "any", "skip")
DescribeConsumerGroups == Site(Pinned("DescribeGroups", Ver.DescribeGroups), "any", "report")
DescribeShareGroups == Site(AtLeast(1, Negotiated("ShareGroupDescribe")), "any", "report")
DescribeShareGroupOffsets == Site(Negotiated("DescribeShareGroupOffsets"), "any", "report")
AlterShareGroupOffsets == Site(Negotiated("AlterShareGroupOffsets"), "any", "fail")
DeleteShareGroupOffsets == Site(Negotiated("DeleteShareGroupOffsets"), "any", "fail")
describeConfigs == Site(Positive("DescribeConfigs", 1), "controller", "skip")
AlterGroupConfigs == Site(Negotiated("IncrementalAlterConfigs"), "any", "fail")

AlterTopicConfigs == Site(Negotiated("AlterConfigs"), "any", "fail")
IncrementalAlterTopicConfigs == Site(Negotiated("IncrementalAlterConfigs"), "any", "fail")
CreatePartitions == Site(Positive("CreatePartitions", Ver.CreatePartitions), "any", "fail")
DeleteConsumerGroupOffsets == Site(Negotiated("OffsetDelete"), "any", "fail")
DeleteConsumerGroups == Site(Pinned("DeleteGroups", Ver.DeleteGroups), "each owner", "fail")

DeleteRecords == Site(Negotiated("DeleteRecords"), "owners", "report")
ElectLeaders == Site(Negotiated("ElectLeaders"), "any", "report")
AlterPartitionReassignments ==
  Site(Pinned("AlterPartitionReassign", Ver.AlterPartitionReassign), "any", "report")
ListPartitionReassignments ==
  Site(Pinned("ListPartitionReassign", Ver.ListPartitionReassign), "any", "fail")
FetchOffsets ==
  Site(AtLeast(VerOffsetFetchMultiGroup, Pinned("OffsetFetch", VerOffsetFetchMultiGroup)),
       "owners", "skip")
listLatestOffsets == Site(Pinned("ListOffsets", Ver.ListOffsets), "owners", "retry")

CreateACLs == Site(Negotiated("CreateAcls"), "any", "fail")
DescribeACLs == Site(Negotiated("DescribeAcls"), "any", "fail")
DeleteACLs == Site(Negotiated("DeleteAcls"), "any", "skip")
DescribeClientQuotas == Site(Negotiated("DescribeClientQuotas"), "any", "fail")
SetClientQuota == Site(Negotiated("AlterClientQuotas"), "any", "fail")
CreateDelegationToken ==
  Site(Pinned("CreateDelegationToken", Ver.CreateDelegationToken), "any", "fail")
RenewDelegationToken ==
  Site(Pinned("RenewDelegationToken", Ver.RenewDelegationToken), "any", "fail")
ExpireDelegationToken ==
  Site(Pinned("ExpireDelegationToken", Ver.ExpireDelegationToken), "any", "fail")
DescribeDelegationTokens ==
  Site(Pinned("DescribeDelegationToken", Ver.DescribeDelegationToken), "any", "fail")
DescribeUserScramCredentials ==
  Site(Pinned("DescribeUserScramCreds", Ver.DescribeUserScramCreds), "any", "skip")
alterUserScram == Site(Pinned("AlterUserScramCreds", Ver.AlterUserScramCreds), "any", "fail")
DescribeLogDirs ==
  Site(Positive("DescribeLogDirs", Ver.DescribeLogDirs), "brokers", "tolerate")
ListTransactions == Site(Negotiated("ListTransactions"), "brokers", "fail")
DescribeTransactions == Site(Negotiated("DescribeTransactions"), "owners", "fail")
describeClusterWire == Site(Pinned("DescribeCluster", Ver.DescribeCluster), "seed", "fail")
ApiVersions == Site(Pinned("ApiVersions", Ver.ApiVersions), "seed", "fail")

AdminOperations ==
  [ CreateTopics |-> CreateTopics, DeleteTopics |-> DeleteTopics,
    ListConsumerGroups |-> ListConsumerGroups,
    DescribeConsumerGroups |-> DescribeConsumerGroups,
    DescribeShareGroups |-> DescribeShareGroups,
    DescribeShareGroupOffsets |-> DescribeShareGroupOffsets,
    AlterShareGroupOffsets |-> AlterShareGroupOffsets,
    DeleteShareGroupOffsets |-> DeleteShareGroupOffsets,
    describeConfigs |-> describeConfigs, AlterGroupConfigs |-> AlterGroupConfigs,
    AlterTopicConfigs |-> AlterTopicConfigs,
    IncrementalAlterTopicConfigs |-> IncrementalAlterTopicConfigs,
    CreatePartitions |-> CreatePartitions,
    DeleteConsumerGroupOffsets |-> DeleteConsumerGroupOffsets,
    DeleteConsumerGroups |-> DeleteConsumerGroups,
    DeleteRecords |-> DeleteRecords, ElectLeaders |-> ElectLeaders,
    AlterPartitionReassignments |-> AlterPartitionReassignments,
    ListPartitionReassignments |-> ListPartitionReassignments,
    FetchOffsets |-> FetchOffsets, listLatestOffsets |-> listLatestOffsets,
    CreateACLs |-> CreateACLs, DescribeACLs |-> DescribeACLs, DeleteACLs |-> DeleteACLs,
    DescribeClientQuotas |-> DescribeClientQuotas, SetClientQuota |-> SetClientQuota,
    CreateDelegationToken |-> CreateDelegationToken,
    RenewDelegationToken |-> RenewDelegationToken,
    ExpireDelegationToken |-> ExpireDelegationToken,
    DescribeDelegationTokens |-> DescribeDelegationTokens,
    DescribeUserScramCredentials |-> DescribeUserScramCredentials,
    alterUserScram |-> alterUserScram, DescribeLogDirs |-> DescribeLogDirs,
    ListTransactions |-> ListTransactions, DescribeTransactions |-> DescribeTransactions,
    describeClusterWire |-> describeClusterWire, ApiVersions |-> ApiVersions ]

\* The other sites, of which only the versions matter here.
fetchFromBroker == Negotiated("Fetch")
commitOffsets == Negotiated("OffsetCommit")
joinVer == Negotiated("JoinGroup")
syncVer == Negotiated("SyncGroup")
loadCommittedOffsets == Pinned("OffsetFetch", VerOffsetFetchSingle)
heartbeat == Negotiated("Heartbeat")
Leave == Negotiated("LeaveGroup")
sendGroupHeartbeat848 == Negotiated("ConsumerGroupHeartbeat")
listOffsets == Pinned("ListOffsets", Ver.ListOffsets)
ensureProducerID == Pinned("InitProducerID", Ver.InitProducerID)
addPartitions == Pinned("AddPartitionsTxn", Ver.AddPartitionsTxn)
ensureGroupOffsets == Negotiated("AddOffsetsToTxn")
SendOffsetsToTxn == Raised("TxnOffsetCommit", 3)
endTxn == Positive("EndTxn", Ver.EndTxn)
produceToBroker == Negotiated("Produce")
shareFetch == Negotiated("ShareFetch")
shareAcknowledge == Negotiated("ShareAcknowledge")
Renew == AtLeast(2, Negotiated("ShareAcknowledge"))
requireShareSupport == AtLeast(1, Negotiated("ShareGroupHeartbeat"))
refresh == Negotiated("Metadata")
FindCoordinator == Pinned("FindCoordinator", Ver.FindCoordinator)

ClientRequests ==
  [ fetchFromBroker |-> fetchFromBroker, commitOffsets |-> commitOffsets,
    joinVer |-> joinVer, syncVer |-> syncVer,
    loadCommittedOffsets |-> loadCommittedOffsets, heartbeat |-> heartbeat,
    Leave |-> Leave, sendGroupHeartbeat848 |-> sendGroupHeartbeat848, listOffsets |-> listOffsets,
    ensureProducerID |-> ensureProducerID, addPartitions |-> addPartitions,
    ensureGroupOffsets |-> ensureGroupOffsets, SendOffsetsToTxn |-> SendOffsetsToTxn, endTxn |-> endTxn,
    produceToBroker |-> produceToBroker, shareFetch |-> shareFetch,
    shareAcknowledge |-> shareAcknowledge, Renew |-> Renew,
    requireShareSupport |-> requireShareSupport,
    refresh |-> refresh, FindCoordinator |-> FindCoordinator ]
===============================================================================
