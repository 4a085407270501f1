------------------------------- MODULE Versions -------------------------------
(***************************************************************************)
(* The versions of the Kafka APIs that the client speaks                   *)
(* (internal/protocol/keys.go, versions.go, flex.go and api_versions.go).  *)
(* An API key is represented by its name.                                  *)
(***************************************************************************)
EXTENDS Integers

\* The constants VerX: the highest version the client implements.
Ver ==
  [ Produce |-> 12, Fetch |-> 13, ListOffsets |-> 3, Metadata |-> 12,
    OffsetCommit |-> 8, OffsetFetch |-> 9, FindCoordinator |-> 3,
    JoinGroup |-> 6, Heartbeat |-> 4, LeaveGroup |-> 5, SyncGroup |-> 5,
    ApiVersions |-> 3, ConsumerGroupHeartbeat |-> 1,
    CreateTopics |-> 4, DeleteTopics |-> 6, ListGroups |-> 2, DescribeGroups |-> 5,
    DeleteGroups |-> 2, DescribeConfigs |-> 4, AlterConfigs |-> 2,
    IncrementalAlterConfigs |-> 0, CreatePartitions |-> 2, OffsetDelete |-> 0,
    DeleteRecords |-> 2, ElectLeaders |-> 2,
    AlterPartitionReassign |-> 0, ListPartitionReassign |-> 0,
    DescribeLogDirs |-> 5, DescribeCluster |-> 1,
    DescribeClientQuotas |-> 1, AlterClientQuotas |-> 1,
    DescribeUserScramCreds |-> 0, AlterUserScramCreds |-> 0,
    CreateDelegationToken |-> 3, RenewDelegationToken |-> 2,
    ExpireDelegationToken |-> 2, DescribeDelegationToken |-> 3,
    CreateAcls |-> 1, DescribeAcls |-> 1, DeleteAcls |-> 1,
    DescribeTransactions |-> 0, ListTransactions |-> 2,
    InitProducerID |-> 0, AddPartitionsTxn |-> 1, AddOffsetsToTxn |-> 3,
    TxnOffsetCommit |-> 3, EndTxn |-> 5,
    ShareGroupHeartbeat |-> 1, ShareGroupDescribe |-> 1, ShareFetch |-> 2,
    ShareAcknowledge |-> 2, DescribeShareGroupOffsets |-> 0,
    AlterShareGroupOffsets |-> 0, DeleteShareGroupOffsets |-> 0 ]

Apis == DOMAIN Ver

\* The two other versions of OffsetFetch that callers ask for by name.
VerOffsetFetchSingle == 7
VerOffsetFetchMultiGroup == 8

\* The highest version, or -1 for an API the client does not implement.
ClientVersion(api) == IF api \in Apis THEN Ver[api] ELSE -1

\* The version from which an API's requests are flexible, for the APIs that
\* flexibleRequestHeader knows; the others never are.
FlexibleFrom ==
  [ Produce |-> 9, Fetch |-> 12, ListOffsets |-> 6, Metadata |-> 9,
    OffsetCommit |-> 8, OffsetFetch |-> 6, FindCoordinator |-> 3,
    JoinGroup |-> 6, Heartbeat |-> 4, LeaveGroup |-> 4, SyncGroup |-> 4,
    ApiVersions |-> 3, ConsumerGroupHeartbeat |-> 0,
    CreateTopics |-> 5, DeleteTopics |-> 4, ListGroups |-> 3, DescribeGroups |-> 5,
    DeleteGroups |-> 2, DescribeConfigs |-> 4, AlterConfigs |-> 2,
    IncrementalAlterConfigs |-> 1, CreatePartitions |-> 2,
    DeleteRecords |-> 2, ElectLeaders |-> 2,
    AlterPartitionReassign |-> 0, ListPartitionReassign |-> 0,
    DescribeLogDirs |-> 2, DescribeCluster |-> 1,
    DescribeClientQuotas |-> 1, AlterClientQuotas |-> 1,
    DescribeUserScramCreds |-> 0, AlterUserScramCreds |-> 0,
    CreateDelegationToken |-> 2, RenewDelegationToken |-> 2,
    ExpireDelegationToken |-> 2, DescribeDelegationToken |-> 2,
    CreateAcls |-> 2, DescribeAcls |-> 2, DeleteAcls |-> 2,
    DescribeTransactions |-> 0, ListTransactions |-> 0,
    InitProducerID |-> 2, AddPartitionsTxn |-> 3, AddOffsetsToTxn |-> 3,
    TxnOffsetCommit |-> 3, EndTxn |-> 3,
    ShareGroupHeartbeat |-> 1, ShareGroupDescribe |-> 1, ShareFetch |-> 1,
    ShareAcknowledge |-> 1, DescribeShareGroupOffsets |-> 0,
    AlterShareGroupOffsets |-> 0, DeleteShareGroupOffsets |-> 0 ]

\* Mutant: off by one.
flexibleAbove(api, version) ==
  api \in DOMAIN FlexibleFrom /\ version > FlexibleFrom[api]

flexibleRequestHeader(api, version) ==
  api \in DOMAIN FlexibleFrom /\ version >= FlexibleFrom[api]

\* An ApiVersions response is read before the versions are known.
flexibleResponseHeader(api, version) ==
  api # "ApiVersions" /\ flexibleRequestHeader(api, version)

\* What a broker advertises for an API: a range of versions, or nothing.
NotAdvertised == [min |-> 0, max |-> -1]
Advertises(range) == range.min <= range.max
InRange(version, range) == range.min <= version /\ version <= range.max

\* The highest version both sides speak.  Of the advertised APIs, the one asked
\* for is the only one that matters.
NegotiateVersion(range, clientMax) ==
  IF clientMax <= 0 THEN 0
  ELSE IF ~Advertises(range) THEN clientMax
  ELSE IF clientMax < range.min THEN 0
  ELSE IF clientMax > range.max THEN range.max
  ELSE clientMax
===============================================================================
