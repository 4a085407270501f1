----------------------------- MODULE LayoutsGroups ----------------------------
(***************************************************************************)
(* The bodies of the requests of group members: the classic protocol, the  *)
(* KIP-848 heartbeat, the KIP-932 share group requests, and the offsets    *)
(* that groups commit.                                                     *)
(***************************************************************************)
EXTENDS Wire

encodeJoinGroupRequestLegacy(v) ==
  <<String, Int32, Int32, String>> \o Opt(v >= 5, <<String>>)
    \o <<String, Array(<<String, Bytes>>)>>

encodeJoinGroupRequestFlex ==
  << CompactString, Int32, Int32, CompactString, CompactString, CompactString,
     CompactArray(<<CompactString, CompactBytes, TagSection>>), TagSection >>

EncodeJoinGroupRequest(v) ==
  IF v >= 6 THEN encodeJoinGroupRequestFlex ELSE encodeJoinGroupRequestLegacy(v)

decodeJoinGroupResponseLegacy(v) ==
  << Int32, Int16, Int32, String, String, String,
     Array(<<String>> \o Opt(v >= 5, <<String>>) \o <<Bytes>>) >>

decodeJoinGroupResponseFlex(v) ==
  << Int32, Int16, Int32, CompactString, CompactString, CompactString,
     CompactArray(<<CompactString>> \o Opt(v >= 5, <<CompactString>>)
                  \o <<CompactBytes, TagSection>>),
     TagSection >>

DecodeJoinGroupResponse(v) ==
  IF v >= 6 THEN decodeJoinGroupResponseFlex(v) ELSE decodeJoinGroupResponseLegacy(v)

encodeSyncGroupRequestLegacy(v) ==
  <<String, Int32, String>> \o Opt(v >= 3, <<String>>) \o <<Array(<<String, Bytes>>)>>

encodeSyncGroupRequestFlex(v) ==
  <<CompactString, Int32, CompactString>> \o Opt(v >= 3, <<CompactString>>)
    \o Opt(v >= 5, <<CompactString, CompactString>>)
    \o <<CompactArray(<<CompactString, CompactBytes, TagSection>>), TagSection>>

EncodeSyncGroupRequest(v) ==
  IF v >= 4 THEN encodeSyncGroupRequestFlex(v) ELSE encodeSyncGroupRequestLegacy(v)

decodeSyncGroupResponseLegacy == <<Int32, Int16, Bytes>>

decodeSyncGroupResponseFlex(v) ==
  <<Int32, Int16>> \o Opt(v >= 5, <<CompactString, CompactString>>)
    \o <<CompactBytes, TagSection>>

DecodeSyncGroupResponse(v) ==
  IF v >= 4 THEN decodeSyncGroupResponseFlex(v) ELSE decodeSyncGroupResponseLegacy

EncodeHeartbeatRequest(v) ==
  IF v >= 4 THEN <<CompactString, Int32, CompactString, CompactString, TagSection>>
            ELSE <<String, Int32, String>> \o Opt(v >= 3, <<String>>)

DecodeHeartbeatResponse(v) == <<Int32, Int16>> \o Opt(v >= 4, <<TagSection>>)

EncodeLeaveGroupRequest(v) ==
  CASE v >= 4 -> << CompactString,
                    CompactArray(<<CompactString, CompactString>>
                      \o Opt(v >= 5, <<CompactString>>) \o <<TagSection>>),
                    TagSection >>
    [] v = 3  -> <<String, Array(<<String, String>>)>>
    [] v < 3  -> <<String, String>>

encodeOffsetCommitRequestLegacy(v) ==
  <<String>> \o Opt(v >= 1, <<Int32, String>>) \o Opt(v >= 7, <<String>>)
    \o Opt(v \in 2..4, <<Int64>>)
    \o << Array(<< String, Array(<<Int32, Int64>> \o Opt(v >= 6, <<Int32>>)
                                 \o Opt(v = 1, <<Int64>>) \o <<String>>) >>) >>

encodeOffsetCommitRequestFlex ==
  << CompactString, Int32, CompactString, CompactString,
     CompactArray(<< CompactString,
                     CompactArray(<<Int32, Int64, Int32, CompactString, TagSection>>),
                     TagSection >>),
     TagSection >>

\* Version 0 is coded as the highest version.
EncodeOffsetCommitRequest(v) ==
  IF v <= 0 \/ v >= 8 THEN encodeOffsetCommitRequestFlex
                      ELSE encodeOffsetCommitRequestLegacy(v)

decodeOffsetCommitResponseLegacy(v) ==
  Opt(v >= 3, <<Int32>>) \o <<Array(<<String, Array(<<Int32, Int16>>)>>)>>

decodeOffsetCommitResponseFlex ==
  << Int32, CompactArray(<< CompactString, CompactArray(<<Int32, Int16, TagSection>>),
                            TagSection >>),
     TagSection >>

\* A legacy reply that reports an error is tried as a flexible one as well; this
\* is the first attempt.
DecodeOffsetCommitResponse(v) ==
  IF v >= 8 THEN decodeOffsetCommitResponseFlex ELSE decodeOffsetCommitResponseLegacy(v)

encodeOffsetFetchRequestLegacy(v) ==
  <<String, Array(<<String, Array(<<Int32>>)>>)>> \o Opt(v >= 7, <<Bool>>)

encodeOffsetFetchRequestFlex(v) ==
  <<CompactString, CompactArray(<<CompactString, CompactArray(<<Int32>>), TagSection>>)>>
    \o Opt(v >= 7, <<Bool>>) \o <<TagSection>>

EncodeOffsetFetchRequest(v) ==
  IF v >= 6 THEN encodeOffsetFetchRequestFlex(v) ELSE encodeOffsetFetchRequestLegacy(v)

decodeOffsetFetchResponseLegacy(v) ==
  Opt(v >= 3, <<Int32>>)
    \o << Array(<< String, Array(<<Int32, Int64>> \o Opt(v >= 5, <<Int32>>)
                                 \o <<String>> \o Opt(v >= 2, <<Int16>>)) >>) >>
    \o Opt(v >= 2, <<Int16>>)

OffsetFetchTopics ==
  CompactArray(<< CompactString,
                  CompactArray(<<Int32, Int64, Int32, CompactString, Int16, TagSection>>),
                  TagSection >>)

decodeOffsetFetchResponseFlex == <<Int32, OffsetFetchTopics, Int16, TagSection>>

DecodeOffsetFetchResponse(v) ==
  IF v >= 6 THEN decodeOffsetFetchResponseFlex ELSE decodeOffsetFetchResponseLegacy(v)

EncodeOffsetFetchMultiGroupRequest ==
  << CompactArray(<< CompactString,
                     CompactArray(<<CompactString, CompactArray(<<Int32>>), TagSection>>),
                     TagSection >>),
     Bool, TagSection >>

DecodeOffsetFetchMultiGroupResponse ==
  <<Int32, CompactArray(<<CompactString, OffsetFetchTopics, Int16, TagSection>>), TagSection>>

writeCompactNullableStringArray == CompactArray(<<CompactString>>)

writeCompactNullableTopicIDPartitions ==
  CompactArray(<<UUID, CompactArray(<<Int32>>), TagSection>>)

EncodeConsumerGroupHeartbeatRequest(v) ==
  << CompactString, CompactString, Int32, CompactString, CompactString, Int32,
     writeCompactNullableStringArray >>
    \o Opt(v >= 1, <<CompactString>>)
    \o <<CompactString, writeCompactNullableTopicIDPartitions, TagSection>>

readTopicIDPartitions == <<UUID, CompactArray(<<Int32>>), TagSection>>

\* The assignment is a structure that may be null: the layout when it is there.
DecodeConsumerGroupHeartbeatResponse ==
  << Int32, Int16, CompactString, CompactString, Int32, Int32,
     Int8, CompactArray(readTopicIDPartitions), TagSection, TagSection >>

EncodeShareGroupHeartbeatRequest ==
  <<CompactString, CompactString, Int32, CompactString, writeCompactNullableStringArray,
    TagSection>>

DecodeShareGroupHeartbeatResponse ==
  << Int32, Int16, CompactString, CompactString, Int32, Int32,
     Int8, CompactArray(readTopicIDPartitions), TagSection, TagSection >>

EncodeShareGroupDescribeRequest == <<CompactArray(<<CompactString>>), Bool, TagSection>>

\* The elements of a member's assignment are read without a tag section.
skipShareMemberAssignment ==
  <<Uvarint, CompactArray(<<UUID, CompactString, CompactArray(<<Int32>>)>>)>>

DecodeShareGroupDescribeResponse ==
  << Int32,
     CompactArray(
       << Int16, CompactString, CompactString, CompactString, Int32, Int32, CompactString,
          CompactArray(<< CompactString, CompactString, Int32, CompactString, CompactString,
                          CompactArray(<<CompactString>>) >>
                       \o skipShareMemberAssignment \o <<TagSection>>),
          Int32, TagSection >>),
     TagSection >>

AckBatches == CompactArray(<<Int64, Int64, CompactArray(<<Int8>>), TagSection>>)

EncodeShareFetchRequest(v) ==
  <<CompactString, CompactString, Int32, Int32, Int32, Int32, Int32, Int32>>
    \o Opt(v >= 2, <<Int8, Bool>>)
    \o << CompactArray(<<UUID, CompactArray(<<Int32, AckBatches, TagSection>>), TagSection>>),
          CompactArray(NoElements), TagSection >>

NodeEndpoints == CompactArray(<<Int32, CompactString, Int32, CompactString, TagSection>>)

DecodeShareFetchResponse ==
  << Int32, Int16, CompactString, Int32,
     CompactArray(<< UUID,
       CompactArray(<< Int32, Int16, CompactString, Int16, CompactString, Int32, Int32,
                       TagSection, CompactBytes,
                       CompactArray(<<Int64, Int64, Int16, TagSection>>), TagSection >>),
       TagSection >>),
     NodeEndpoints, TagSection >>

\* Version 0 is coded as the highest version.
EncodeShareAcknowledgeRequest(v) ==
  <<CompactString, CompactString, Int32>> \o Opt(v <= 0 \/ v >= 2, <<Bool>>)
    \o << CompactArray(<<UUID, CompactArray(<<Int32, AckBatches, TagSection>>), TagSection>>),
          TagSection >>

DecodeShareAcknowledgeResponse(v) ==
  <<Int32, Int16, CompactString>> \o Opt(v >= 2, <<Int32>>)
    \o << CompactArray(<< UUID,
            CompactArray(<<Int32, Int16, CompactString, Int32, Int32, TagSection, TagSection>>),
            TagSection >>),
          NodeEndpoints, TagSection >>

EncodeDescribeShareGroupOffsetsRequest ==
  <<CompactArray(<<CompactString, CompactArray(NoElements), TagSection>>), TagSection>>

DecodeDescribeShareGroupOffsetsResponse ==
  << Int32,
     CompactArray(<< CompactString,
       CompactArray(<< CompactString, UUID,
         CompactArray(<<Int32, Int64, Int32, Int16, CompactString, TagSection>>),
         TagSection >>),
       Int16, CompactString, TagSection >>),
     TagSection >>

EncodeAlterShareGroupOffsetsRequest ==
  << CompactString,
     CompactArray(<<CompactString, CompactArray(<<Int32, Int64, TagSection>>), TagSection>>),
     TagSection >>

DecodeAlterShareGroupOffsetsResponse ==
  << Int32, Int16, CompactString,
     CompactArray(<< CompactString, UUID,
       CompactArray(<<Int32, Int16, CompactString, TagSection>>), TagSection >>),
     TagSection >>

EncodeDeleteShareGroupOffsetsRequest ==
  <<CompactString, CompactArray(<<CompactString, TagSection>>), TagSection>>

DecodeDeleteShareGroupOffsetsResponse ==
  << Int32, Int16, CompactString,
     CompactArray(<<CompactString, UUID, Int16, CompactString, TagSection>>), TagSection >>
===============================================================================
