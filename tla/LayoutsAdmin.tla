----------------------------- MODULE LayoutsAdmin -----------------------------
(***************************************************************************)
(* The bodies of the admin client's requests on topics, groups, configs,   *)
(* records, replicas and delegation tokens (internal/protocol/admin*.go    *)
(* and groups.go).  An encoder or decoder without a version parameter      *)
(* chooses its form by the highest version the client implements.          *)
(***************************************************************************)
EXTENDS Wire, Versions

encodeCreateTopicsRequestLegacy ==
  << Array(<<String, Int32, Int16, Array(NoElements), Array(<<String, String>>)>>),
     Int32, Bool >>

encodeCreateTopicsRequestFlex ==
  << CompactArray(<< CompactString, Int32, Int16, CompactArray(NoElements),
                     CompactArray(<<CompactString, CompactString, TagSection>>), TagSection >>),
     Int32, Bool, TagSection >>

EncodeCreateTopicsRequest ==
  IF Ver.CreateTopics >= 5 THEN encodeCreateTopicsRequestFlex
                           ELSE encodeCreateTopicsRequestLegacy

decodeCreateTopicsResponseLegacy == <<Int32, Array(<<String, Int16, String>>)>>

decodeCreateTopicsResponseFlex ==
  << Int32, CompactArray(<< CompactString, Int16, CompactString, Int32, Int16, CompactBytes,
                            TagSection >>), TagSection >>

DecodeCreateTopicsResponse ==
  IF Ver.CreateTopics >= 5 THEN decodeCreateTopicsResponseFlex
                           ELSE decodeCreateTopicsResponseLegacy

\* Compact at every version.
EncodeDeleteTopicsRequest(v) ==
  << CompactArray(IF v >= 6 THEN <<CompactString, UUID, TagSection>> ELSE <<CompactString>>),
     Int32, TagSection >>

DecodeDeleteTopicsResponse ==
  <<Int32, CompactArray(<<CompactString, Int16, TagSection>>), TagSection>>

EncodeListGroupsRequest == Opt(Ver.ListGroups >= 4, <<CompactString, TagSection>>)

decodeListGroupsResponseLegacy == <<Int32, Int16, Array(<<String, String>>)>>

decodeListGroupsResponseFlex ==
  <<Int32, CompactArray(<<CompactString, CompactString, TagSection>>), TagSection>>

DecodeListGroupsResponse ==
  IF Ver.ListGroups >= 3 THEN decodeListGroupsResponseFlex ELSE decodeListGroupsResponseLegacy

encodeDescribeGroupsRequestLegacy == <<Array(<<String>>), Bool>>
encodeDescribeGroupsRequestFlex == <<CompactArray(<<CompactString>>), Bool, TagSection>>

EncodeDescribeGroupsRequest ==
  IF Ver.DescribeGroups >= 5 THEN encodeDescribeGroupsRequestFlex
                             ELSE encodeDescribeGroupsRequestLegacy

decodeDescribeGroupsResponseLegacy ==
  << Int32, Array(<< Int16, String, String, String, String,
                     Array(<<String, String, String, String, Bytes, Bytes>>), Int32 >>) >>

decodeDescribeGroupsResponseFlex ==
  << Int32,
     CompactArray(
       << Int16, CompactString, CompactString, CompactString, CompactString,
          CompactArray(<< CompactString, CompactString, CompactString, CompactString,
                          CompactBytes, CompactBytes, TagSection >>),
          Int32, TagSection >>),
     TagSection >>

DecodeDescribeGroupsResponse ==
  IF Ver.DescribeGroups >= 5 THEN decodeDescribeGroupsResponseFlex
                             ELSE decodeDescribeGroupsResponseLegacy

encodeDescribeConfigsLegacy(v) ==
  <<Array(<<Int8, String, Array(NoElements)>>), Bool>> \o Opt(v >= 3, <<Bool>>)

encodeDescribeConfigsFlex ==
  <<CompactArray(<<Int8, CompactString, CompactArray(NoElements), TagSection>>), Bool, Bool,
    TagSection>>

EncodeDescribeConfigsRequest(v) ==
  IF v >= 4 THEN encodeDescribeConfigsFlex ELSE encodeDescribeConfigsLegacy(v)

decodeDescribeConfigsLegacy(v) ==
  << Int32,
     Array(<< Int16, String, Int8, String,
              Array(<<String, String, Bool>> \o (IF v < 1 THEN <<Bool>> ELSE <<Int8>>)
                \o <<Bool>> \o Opt(v >= 1, <<Array(<<String, String, Int8>>)>>)
                \o Opt(v >= 3, <<Int8, String>>)) >>) >>

decodeDescribeConfigsFlex ==
  << Int32,
     CompactArray(
       << Int16, CompactString, Int8, CompactString,
          CompactArray(<< CompactString, CompactString, Bool, Int8, Bool,
                          CompactArray(<<CompactString, CompactString, Int8, TagSection>>),
                          Int8, CompactString, TagSection >>),
          TagSection >>),
     TagSection >>

DecodeDescribeConfigsResponse(v) ==
  IF v >= 4 THEN decodeDescribeConfigsFlex ELSE decodeDescribeConfigsLegacy(v)

encodeAlterConfigsRequestLegacy ==
  <<Array(<<Int8, String, Array(<<String, String>>)>>), Bool>>

encodeAlterConfigsRequestFlex ==
  << CompactArray(<< Int8, CompactString,
                     CompactArray(<<CompactString, CompactString, TagSection>>), TagSection >>),
     Bool, TagSection >>

EncodeAlterConfigsRequest(v) ==
  IF v >= 2 THEN encodeAlterConfigsRequestFlex ELSE encodeAlterConfigsRequestLegacy

decodeAlterConfigsResponseLegacy == <<Int32, Array(<<Int16, String, Int8, String>>)>>

decodeAlterConfigsResponseFlex ==
  <<Int32, CompactArray(<<Int16, CompactString, Int8, CompactString, TagSection>>), TagSection>>

DecodeAlterConfigsResponse(v) ==
  IF v >= 2 THEN decodeAlterConfigsResponseFlex ELSE decodeAlterConfigsResponseLegacy

encodeIncrementalAlterConfigsLegacy ==
  <<Array(<<Int8, String, Array(<<String, Int8, String>>)>>), Bool>>

encodeIncrementalAlterConfigsFlex ==
  << CompactArray(<< Int8, CompactString,
                     CompactArray(<<CompactString, Int8, CompactString, TagSection>>),
                     TagSection >>),
     Bool, TagSection >>

EncodeIncrementalAlterConfigsRequest(v) ==
  IF v >= 1 THEN encodeIncrementalAlterConfigsFlex ELSE encodeIncrementalAlterConfigsLegacy

DecodeIncrementalAlterConfigsResponse(v) ==
  IF v >= 1 THEN decodeAlterConfigsResponseFlex ELSE decodeAlterConfigsResponseLegacy

encodeCreatePartitionsLegacy == <<Array(<<String, Int32, Array(NoElements)>>), Int32, Bool>>

encodeCreatePartitionsFlex ==
  << CompactArray(<< CompactString, Int32, CompactArray(<<CompactArray(<<Int32>>)>>),
                     TagSection >>),
     Int32, Bool, TagSection >>

EncodeCreatePartitionsRequest(v) ==
  IF v >= 2 THEN encodeCreatePartitionsFlex ELSE encodeCreatePartitionsLegacy

decodeCreatePartitionsResponseLegacy == <<Int32, Array(<<String, Int16, String>>)>>

decodeCreatePartitionsResponseFlex ==
  <<Int32, CompactArray(<<CompactString, Int16, CompactString, TagSection>>), TagSection>>

DecodeCreatePartitionsResponse(v) ==
  IF v >= 2 THEN decodeCreatePartitionsResponseFlex ELSE decodeCreatePartitionsResponseLegacy

encodeOffsetDeleteLegacy == <<String, Array(<<String, Array(<<Int32>>)>>)>>

encodeOffsetDeleteFlex ==
  <<CompactString, CompactArray(<<CompactString, CompactArray(<<Int32>>)>>), TagSection>>

EncodeOffsetDeleteRequest(v) ==
  IF v >= 1 THEN encodeOffsetDeleteFlex ELSE encodeOffsetDeleteLegacy

decodeOffsetDeleteResponseLegacy == <<Int16, Int32, Array(<<String, Array(<<Int32, Int16>>)>>)>>

decodeOffsetDeleteResponseFlex ==
  <<Int32, CompactArray(<<CompactString, CompactArray(<<Int32, Int16>>)>>), TagSection>>

DecodeOffsetDeleteResponse(v) ==
  IF v >= 1 THEN decodeOffsetDeleteResponseFlex ELSE decodeOffsetDeleteResponseLegacy

EncodeDeleteGroupsRequest == <<CompactArray(<<CompactString>>), TagSection>>

DecodeDeleteGroupsResponse ==
  <<Int32, CompactArray(<<CompactString, Int16, TagSection>>), TagSection>>

EncodeDeleteRecordsRequest(v) ==
  IF v >= 2
    THEN << CompactArray(<< CompactString, CompactArray(<<Int32, Int64, TagSection>>),
                            TagSection >>), Int32, TagSection >>
    ELSE <<Array(<<String, Array(<<Int32, Int64>>)>>), Int32>>

DecodeDeleteRecordsResponse(v) ==
  IF v >= 2
    THEN << Int32, CompactArray(<< CompactString,
                     CompactArray(<<Int32, Int64, Int16, TagSection>>), TagSection >>),
            TagSection >>
    ELSE <<Int32, Array(<<String, Array(<<Int32, Int64, Int16>>)>>)>>

EncodeElectLeadersRequest(v) ==
  IF v >= 2
    THEN << Int8, CompactArray(<<CompactString, CompactArray(<<Int32>>), TagSection>>),
            Int32, TagSection >>
    ELSE Opt(v >= 1, <<Int8>>) \o <<Array(<<String, Array(<<Int32>>)>>), Int32>>

DecodeElectLeadersResponse(v) ==
  <<Int32>> \o Opt(v >= 1, <<Int16>>)
    \o (IF v >= 2
          THEN << CompactArray(<< CompactString,
                    CompactArray(<<Int32, Int16, CompactString, TagSection>>), TagSection >>),
                  TagSection >>
          ELSE <<Array(<<String, Array(<<Int32, Int16, String>>)>>)>>)

EncodeAlterPartitionReassignmentsRequest ==
  << Int32, CompactArray(<< CompactString,
              CompactArray(<<Int32, CompactArray(<<Int32>>), TagSection>>), TagSection >>),
     TagSection >>

DecodeAlterPartitionReassignmentsResponse ==
  << Int32, Int16, CompactString,
     CompactArray(<< CompactString, CompactArray(<<Int32, Int16, CompactString, TagSection>>),
                     TagSection >>) >>

EncodeListPartitionReassignmentsRequest ==
  <<Int32, CompactArray(<<CompactString, CompactArray(<<Int32>>), TagSection>>), TagSection>>

DecodeListPartitionReassignmentsResponse ==
  LET Replicas == CompactArray(<<Int32>>)
  IN  << Int32, Int16, CompactString,
         CompactArray(<< CompactString,
           CompactArray(<<Int32, Replicas, Replicas, Replicas, TagSection>>), TagSection >>) >>

Principals == CompactArray(<<CompactString, CompactString, TagSection>>)

EncodeCreateDelegationTokenRequest ==
  <<CompactString, CompactString, Principals, Int64, TagSection>>

DecodeCreateDelegationTokenResponse ==
  << Int16, CompactString, CompactString, CompactString, CompactString,
     Int64, Int64, Int64, CompactString, CompactBytes, Int32 >>

EncodeRenewDelegationTokenRequest == <<CompactBytes, Int64, TagSection>>
EncodeExpireDelegationTokenRequest == <<CompactBytes, Int64, TagSection>>
DecodeRenewOrExpireDelegationTokenResponse == <<Int16, Int64, Int32>>

EncodeDescribeDelegationTokenRequest == <<Principals, TagSection>>

DecodeDescribeDelegationTokenResponse ==
  << Int16,
     CompactArray(<< CompactString, CompactString, CompactString, CompactString,
                     Int64, Int64, Int64, CompactString, CompactBytes, Principals,
                     TagSection >>),
     Int32 >>
===============================================================================
