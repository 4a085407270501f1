------------------------------- MODULE Protocol -------------------------------
(***************************************************************************)
(* The requests of the client, from the choice of a version to the bytes:  *)
(* Negotiation for every call site of CallSites, with the bodies that the  *)
(* encoders and decoders of internal/protocol give it.                     *)
(***************************************************************************)
EXTENDS Negotiation, CallSites, LayoutsCore, LayoutsGroups, LayoutsAdmin, LayoutsCluster
K == INSTANCE KfakeLayouts

\* The request and response bodies of an API as its call sites code them.
Bodies(api, v) ==
  CASE api = "Produce" -> <<EncodeProduceRequest(v), DecodeProduceResponse(v)>>
    [] api = "Fetch" -> <<EncodeFetchRequest(v), DecodeFetchResponse(v)>>
    [] api = "ListOffsets" -> <<EncodeListOffsetsRequest, DecodeListOffsetsResponse>>
    [] api = "Metadata" -> <<EncodeMetadataRequest(v), DecodeMetadataResponse(v)>>
    [] api = "OffsetCommit" -> <<EncodeOffsetCommitRequest(v), DecodeOffsetCommitResponse(v)>>
    [] api = "OffsetFetch" ->
         IF v >= VerOffsetFetchMultiGroup
           THEN <<EncodeOffsetFetchMultiGroupRequest, DecodeOffsetFetchMultiGroupResponse>>
           ELSE <<EncodeOffsetFetchRequest(v), DecodeOffsetFetchResponse(v)>>
    [] api = "FindCoordinator" -> <<EncodeFindCoordinatorRequest, DecodeFindCoordinatorResponse>>
    [] api = "JoinGroup" -> <<EncodeJoinGroupRequest(v), DecodeJoinGroupResponse(v)>>
    [] api = "Heartbeat" -> <<EncodeHeartbeatRequest(v), DecodeHeartbeatResponse(v)>>
    [] api = "LeaveGroup" -> <<EncodeLeaveGroupRequest(v), <<>> >>
    [] api = "SyncGroup" -> <<EncodeSyncGroupRequest(v), DecodeSyncGroupResponse(v)>>
    [] api = "ApiVersions" -> <<EncodeApiVersionsRequest, DecodeApiVersionsResponse(v)>>
    [] api = "ConsumerGroupHeartbeat" ->
         <<EncodeConsumerGroupHeartbeatRequest(v), DecodeConsumerGroupHeartbeatResponse>>
    [] api = "CreateTopics" -> <<EncodeCreateTopicsRequest, DecodeCreateTopicsResponse>>
    [] api = "DeleteTopics" -> <<EncodeDeleteTopicsRequest(v), DecodeDeleteTopicsResponse>>
    [] api = "ListGroups" -> <<EncodeListGroupsRequest, DecodeListGroupsResponse>>
    [] api = "DescribeGroups" -> <<EncodeDescribeGroupsRequest, DecodeDescribeGroupsResponse>>
    [] api = "DeleteGroups" -> <<EncodeDeleteGroupsRequest, DecodeDeleteGroupsResponse>>
    [] api = "DescribeConfigs" ->
         <<EncodeDescribeConfigsRequest(v), DecodeDescribeConfigsResponse(v)>>
    [] api = "AlterConfigs" -> <<EncodeAlterConfigsRequest(v), DecodeAlterConfigsResponse(v)>>
    [] api = "IncrementalAlterConfigs" ->
         <<EncodeIncrementalAlterConfigsRequest(v), DecodeIncrementalAlterConfigsResponse(v)>>
    [] api = "CreatePartitions" ->
         <<EncodeCreatePartitionsRequest(v), DecodeCreatePartitionsResponse(v)>>
    [] api = "OffsetDelete" -> <<EncodeOffsetDeleteRequest(v), DecodeOffsetDeleteResponse(v)>>
    [] api = "DeleteRecords" -> <<EncodeDeleteRecordsRequest(v), DecodeDeleteRecordsResponse(v)>>
    [] api = "ElectLeaders" -> <<EncodeElectLeadersRequest(v), DecodeElectLeadersResponse(v)>>
    [] api = "AlterPartitionReassign" ->
         <<EncodeAlterPartitionReassignmentsRequest, DecodeAlterPartitionReassignmentsResponse>>
    [] api = "ListPartitionReassign" ->
         <<EncodeListPartitionReassignmentsRequest, DecodeListPartitionReassignmentsResponse>>
    [] api = "DescribeLogDirs" ->
         <<EncodeDescribeLogDirsRequest(v), DecodeDescribeLogDirsResponse(v)>>
    [] api = "DescribeCluster" -> <<EncodeDescribeClusterRequest, DecodeDescribeClusterResponse>>
    [] api = "DescribeClientQuotas" ->
         <<EncodeDescribeClientQuotasRequest, DecodeDescribeClientQuotasResponse>>
    [] api = "AlterClientQuotas" ->
         <<EncodeAlterClientQuotasRequest, DecodeAlterClientQuotasResponse>>
    [] api = "DescribeUserScramCreds" ->
         <<EncodeDescribeUserScramCredentialsRequest, DecodeDescribeUserScramCredentialsResponse>>
    [] api = "AlterUserScramCreds" ->
         <<EncodeAlterUserScramCredentialsRequest, DecodeAlterUserScramCredentialsResponse>>
    [] api = "CreateDelegationToken" ->
         <<EncodeCreateDelegationTokenRequest, DecodeCreateDelegationTokenResponse>>
    [] api = "RenewDelegationToken" ->
         <<EncodeRenewDelegationTokenRequest, DecodeRenewOrExpireDelegationTokenResponse>>
    [] api = "ExpireDelegationToken" ->
         <<EncodeExpireDelegationTokenRequest, DecodeRenewOrExpireDelegationTokenResponse>>
    [] api = "DescribeDelegationToken" ->
         <<EncodeDescribeDelegationTokenRequest, DecodeDescribeDelegationTokenResponse>>
    [] api = "CreateAcls" -> <<EncodeCreateACLsRequest(v), DecodeCreateACLsResponse(v)>>
    [] api = "DescribeAcls" -> <<EncodeDescribeACLsFilter(v), DecodeDescribeACLsResponse(v)>>
    [] api = "DeleteAcls" -> <<EncodeDeleteACLsFilter(v), DecodeDeleteACLsResponse>>
    [] api = "DescribeTransactions" ->
         <<EncodeDescribeTransactionsRequest, DecodeDescribeTransactionsResponse>>
    [] api = "ListTransactions" ->
         <<EncodeListTransactionsRequest(v), DecodeListTransactionsResponse>>
    [] api = "InitProducerID" -> <<EncodeInitProducerID, DecodeInitProducerID>>
    [] api = "AddPartitionsTxn" -> <<EncodeAddPartitionsToTxn, DecodeAddPartitionsToTxn>>
    [] api = "AddOffsetsToTxn" -> <<EncodeAddOffsetsToTxn(v), DecodeAddOffsetsToTxn(v)>>
    [] api = "TxnOffsetCommit" -> <<EncodeTxnOffsetCommit(v), DecodeTxnOffsetCommit(v)>>
    [] api = "EndTxn" -> <<EncodeEndTxn(v), DecodeEndTxn(v)>>
    [] api = "ShareGroupHeartbeat" ->
         <<EncodeShareGroupHeartbeatRequest, DecodeShareGroupHeartbeatResponse>>
    [] api = "ShareGroupDescribe" ->
         <<EncodeShareGroupDescribeRequest, DecodeShareGroupDescribeResponse>>
    [] api = "ShareFetch" -> <<EncodeShareFetchRequest(v), DecodeShareFetchResponse>>
    [] api = "ShareAcknowledge" ->
         <<EncodeShareAcknowledgeRequest(v), DecodeShareAcknowledgeResponse(v)>>
    [] api = "DescribeShareGroupOffsets" ->
         <<EncodeDescribeShareGroupOffsetsRequest, DecodeDescribeShareGroupOffsetsResponse>>
    [] api = "AlterShareGroupOffsets" ->
         <<EncodeAlterShareGroupOffsetsRequest, DecodeAlterShareGroupOffsetsResponse>>
    [] api = "DeleteShareGroupOffsets" ->
         <<EncodeDeleteShareGroupOffsetsRequest, DecodeDeleteShareGroupOffsetsResponse>>

RequestBody(api, v) == Bodies(api, v)[1]
ResponseBody(api, v) == Bodies(api, v)[2]

-------------------------------------------------------------------------------
api == VersionOf[site].api


\* Responses of which some array elements are read without the tag section that
\* the version calls for; see README, Deviations.
ReadUntagged == {"Produce", "ShareGroupDescribe"}

\* A request has a body of the form that its own header announces, and its answer
\* is decoded in the form that the broker answers in: compact and tagged from the
\* version where flexibleRequestHeader starts, and not before, whatever version
\* was negotiated, or none, and however the body's version was chosen.  Two kinds
\* of requests are left out, which the broker cannot read (README, Deviations):
\* those with a header lowered under the body (SentAtCommonVersion says which),
\* and those at a version that the site's code does not speak.
BodiesHaveTheirForm ==
  Sent /\ call.body = call.header /\ call.body \in Speaks[site] =>
    /\ HasForm(RequestBody(api, call.body), flexibleRequestHeader(api, call.header))
    /\ api \notin ReadUntagged =>
         HasForm(ResponseBody(api, call.body), flexibleRequestHeader(api, call.header))

\* What an upgraded or foreign broker is not: the in-memory one of kfake/.
FakeRange(a) == [min |-> 0, max |-> K!advertised[a]]
WithFakeBroker == api \in DOMAIN K!advertised /\ heard = FakeRange(api)

\* The client and the in-memory broker find each other's fields where they were
\* put: the broker's handler reads the request that the client writes, and the
\* client the handler's answer, at the version that the two negotiate ("it
\* speaks exactly the versions the handlers below decode/encode").
FakeBrokerUnderstands ==
  Sent /\ WithFakeBroker =>
    LET handler == K!dispatch(api, call.header)
    IN  /\ Reads(handler.reads, RequestBody(api, call.body))
        /\ Reads(ResponseBody(api, call.body), handler.writes)
        /\ K!flexRequestHeader(api, call.header) <=> flexibleRequestHeader(api, call.header)
        /\ K!flexResponseHeader(api, call.header) <=> flexibleResponseHeader(api, call.header)
===============================================================================
