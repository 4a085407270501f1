---------------------------- MODULE LayoutsCluster ----------------------------
(***************************************************************************)
(* The bodies of the transactional requests and of the admin client's      *)
(* requests on transactions, access control lists, quotas, credentials,    *)
(* log directories and the cluster (internal/protocol/transaction.go,      *)
(* acl.go, cluster.go and admin_*.go).                                     *)
(***************************************************************************)
EXTENDS Wire, Versions

EncodeInitProducerID ==
  IF Ver.InitProducerID >= 2 THEN <<CompactString, Int32, TagSection>> ELSE <<String, Int32>>

DecodeInitProducerID ==
  <<Int32, Int16, Int64, Int16>> \o Opt(Ver.InitProducerID >= 2, <<TagSection>>)

\* The encoders and decoders of three transactional requests take version 0,
\* or a negative one, to mean the highest version.
OrCeiling(v, api) == IF v <= 0 THEN Ver[api] ELSE v

encodeEndTxnLegacy == <<String, Int64, Int16, Bool>>
encodeEndTxnFlex == <<CompactString, Int64, Int16, Bool, TagSection>>

EncodeEndTxn(v) ==
  IF OrCeiling(v, "EndTxn") >= 3 THEN encodeEndTxnFlex ELSE encodeEndTxnLegacy

DecodeEndTxn(v) ==
  LET version == OrCeiling(v, "EndTxn")
  IN  <<Int32, Int16>> \o Opt(version >= 5, <<Int64, Int16>>) \o Opt(version >= 3, <<TagSection>>)

encodeAddPartitionsToTxnLegacy == <<String, Int64, Int16, Array(<<String, Array(<<Int32>>)>>)>>

encodeAddPartitionsToTxnFlex ==
  << CompactString, Int64, Int16,
     CompactArray(<<CompactString, CompactArray(<<Int32>>), TagSection>>), TagSection >>

EncodeAddPartitionsToTxn ==
  IF Ver.AddPartitionsTxn >= 3 THEN encodeAddPartitionsToTxnFlex
                               ELSE encodeAddPartitionsToTxnLegacy

\* The errors of the partitions of a transactional request.
PartitionErrors == <<Int32, Array(<<String, Array(<<Int32, Int16>>)>>)>>

PartitionErrorsFlex ==
  << Int32, CompactArray(<<CompactString, CompactArray(<<Int32, Int16, TagSection>>),
                           TagSection>>), TagSection >>

decodeAddPartitionsToTxnLegacy == PartitionErrors
decodeAddPartitionsToTxnFlex == PartitionErrorsFlex

DecodeAddPartitionsToTxn ==
  IF Ver.AddPartitionsTxn >= 3 THEN decodeAddPartitionsToTxnFlex
                               ELSE decodeAddPartitionsToTxnLegacy

EncodeAddOffsetsToTxn(v) ==
  IF OrCeiling(v, "AddOffsetsToTxn") >= 3
    THEN <<CompactString, Int64, Int16, CompactString, TagSection>>
    ELSE <<String, Int64, Int16, String>>

decodeAddOffsetsToTxnLegacy == <<Int32, Int16>>
decodeAddOffsetsToTxnFlex == <<Int32, Int16, TagSection>>

DecodeAddOffsetsToTxn(v) ==
  IF OrCeiling(v, "AddOffsetsToTxn") >= 3 THEN decodeAddOffsetsToTxnFlex
                                          ELSE decodeAddOffsetsToTxnLegacy

encodeTxnOffsetCommitLegacy(v) ==
  << String, String, Int64, Int16,
     Array(<<String, Array(<<Int32, Int64>> \o Opt(v >= 2, <<Int32>>) \o <<String>>)>>) >>

encodeTxnOffsetCommitFlex(v) ==
  <<CompactString, CompactString, Int64, Int16>>
    \o Opt(v >= 3, <<Int32, CompactString, CompactString>>)
    \o << CompactArray(<< CompactString,
            CompactArray(<<Int32, Int64>> \o Opt(v >= 2, <<Int32>>)
                           \o <<CompactString, TagSection>>), TagSection >>), TagSection >>

EncodeTxnOffsetCommit(v) ==
  LET version == OrCeiling(v, "TxnOffsetCommit")
  IN  IF version >= 3 THEN encodeTxnOffsetCommitFlex(version)
                      ELSE encodeTxnOffsetCommitLegacy(version)

decodeTxnOffsetCommitLegacy == PartitionErrors
decodeTxnOffsetCommitFlex == PartitionErrorsFlex

DecodeTxnOffsetCommit(v) ==
  IF OrCeiling(v, "TxnOffsetCommit") >= 3 THEN decodeTxnOffsetCommitFlex
                                          ELSE decodeTxnOffsetCommitLegacy

EncodeListTransactionsRequest(v) ==
  <<CompactArray(<<CompactString>>), CompactArray(<<Int64>>)>>
    \o Opt(v >= 1, <<Int64>>) \o Opt(v >= 2, <<CompactString>>) \o <<TagSection>>

DecodeListTransactionsResponse ==
  << Int32, Int16, CompactArray(<<CompactString>>),
     CompactArray(<<CompactString, Int64, CompactString, TagSection>>), TagSection >>

EncodeDescribeTransactionsRequest == <<CompactArray(<<CompactString>>), TagSection>>

DecodeDescribeTransactionsResponse ==
  << Int32,
     CompactArray(<< Int16, CompactString, CompactString, Int32, Int64, Int64, Int16,
                     CompactArray(<<CompactString, CompactArray(<<Int32>>), TagSection>>),
                     TagSection >>), TagSection >>

encodeCreateACLsV0 == <<Array(<<Int8, String, String, String, Int8, Int8>>)>>
encodeCreateACLsV1 == <<Array(<<Int8, String, Int8, String, String, Int8, Int8>>)>>

encodeCreateACLsFlex ==
  << CompactArray(<< Int8, CompactString, Int8, CompactString, CompactString, Int8, Int8,
                     TagSection >>), TagSection >>

EncodeCreateACLsRequest(v) ==
  CASE v >= 2 -> encodeCreateACLsFlex
    [] v = 1 -> encodeCreateACLsV1
    [] OTHER -> encodeCreateACLsV0

decodeCreateACLsResponseLegacy == <<Int32, Array(<<Int16, String>>)>>

decodeCreateACLsResponseFlex ==
  << Int32, CompactArray(<< Int16, CompactString, Int8, CompactString, Int8, CompactString,
                            CompactString, Int8, Int8, TagSection >>), TagSection >>

DecodeCreateACLsResponse(v) ==
  IF v >= 2 THEN decodeCreateACLsResponseFlex ELSE decodeCreateACLsResponseLegacy

encodeDescribeACLsFilterV0 == <<Int8, String, String, String, Int8, Int8>>
encodeDescribeACLsFilterV1 == <<Int8, String, Int8, String, String, Int8, Int8>>

encodeDescribeACLsFilterFlex ==
  <<Int8, CompactString, Int8, CompactString, CompactString, Int8, Int8, TagSection>>

EncodeDescribeACLsFilter(v) ==
  CASE v >= 2 -> encodeDescribeACLsFilterFlex
    [] v = 1 -> encodeDescribeACLsFilterV1
    [] OTHER -> encodeDescribeACLsFilterV0

decodeDescribeACLsResponseLegacy(v) ==
  << Int32, Int16, String,
     Array(<<Int8, String>> \o Opt(v >= 1, <<Int8>>)
             \o <<Array(<<String, String, Int8, Int8>>)>>) >>

decodeDescribeACLsResponseFlex(v) ==
  << Int32, Int16, CompactString,
     CompactArray(<<Int8, CompactString>> \o Opt(v >= 1, <<Int8>>)
       \o << CompactArray(<<CompactString, CompactString, Int8, Int8, TagSection>>),
             TagSection >>), TagSection >>

DecodeDescribeACLsResponse(v) ==
  IF v >= 2 THEN decodeDescribeACLsResponseFlex(v) ELSE decodeDescribeACLsResponseLegacy(v)

\* One filter, not an array of them; of the response only the count is read.
EncodeDeleteACLsFilter(v) == EncodeDescribeACLsFilter(v)
DecodeDeleteACLsResponse == <<Int32, Uvarint>>

EncodeDescribeClusterRequest == <<Bool, Int8, TagSection>>

DecodeDescribeClusterResponse ==
  << Int32, Int16, CompactString, Int8, CompactString, Int32,
     CompactArray(<<Int32, CompactString, Int32, CompactString, TagSection>>), Int32,
     TagSection >>

EncodeDescribeLogDirsRequest(v) ==
  IF v >= 2
    THEN <<CompactArray(<<CompactString, CompactArray(<<Int32>>), TagSection>>), TagSection>>
    ELSE <<Array(<<String, Array(<<Int32>>)>>)>>

\* Compact at every version.
DecodeDescribeLogDirsResponse(v) ==
  <<Int32>> \o Opt(v >= 3, <<Int16>>)
    \o << CompactArray(
            << Int16, CompactString,
               CompactArray(<< CompactString,
                 CompactArray(<<Int32, Int64, Int64, Bool, TagSection>>), TagSection >>) >>
            \o Opt(v >= 4, <<Int64, Int64>>) \o Opt(v >= 5, <<Bool>>) \o <<TagSection>>),
          TagSection >>

EncodeDescribeClientQuotasRequest ==
  <<CompactArray(<<CompactString, Int8, CompactString, TagSection>>), Bool, TagSection>>

readQuotaEntity == <<CompactString, CompactString, TagSection>>

DecodeDescribeClientQuotasResponse ==
  << Int32, Int16, CompactString,
     CompactArray(<< CompactArray(readQuotaEntity),
                     CompactArray(<<CompactString, Float64, TagSection>>), TagSection >>),
     TagSection >>

EncodeAlterClientQuotasRequest ==
  << CompactArray(<< CompactArray(<<CompactString, CompactString, TagSection>>),
                     CompactArray(<<CompactString, Float64, Bool, TagSection>>), TagSection >>),
     Bool, TagSection >>

DecodeAlterClientQuotasResponse ==
  << Int32, CompactArray(<< Int16, CompactString, CompactArray(readQuotaEntity),
                            TagSection >>), TagSection >>

EncodeDescribeUserScramCredentialsRequest ==
  <<CompactArray(<<CompactString, TagSection>>), TagSection>>

DecodeDescribeUserScramCredentialsResponse ==
  << Int32, Int16, CompactString,
     CompactArray(<< CompactString, Int16, CompactString,
                     CompactArray(<<Int8, Int32, TagSection>>), TagSection >>), TagSection >>

EncodeAlterUserScramCredentialsRequest ==
  << CompactArray(<<CompactString, Int8, TagSection>>),
     CompactArray(<<CompactString, Int8, Int32, CompactBytes, CompactBytes, TagSection>>),
     TagSection >>

DecodeAlterUserScramCredentialsResponse ==
  <<Int32, CompactArray(<<CompactString, Int16, CompactString, TagSection>>), TagSection>>
===============================================================================
