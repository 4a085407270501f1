------------------------------ MODULE LayoutsCore -----------------------------
(***************************************************************************)
(* The bodies of the requests that every client sends: ApiVersions,        *)
(* Metadata, FindCoordinator, Produce, Fetch and ListOffsets.  An operator *)
(* gives the layout its namesake writes or reads at an API version; one    *)
(* without a parameter is used at a single version, or chooses its form by *)
(* the highest version the client implements.                              *)
(***************************************************************************)
EXTENDS Wire, Versions

EncodeApiVersionsRequest == <<CompactString, CompactString, TagSection>>

decodeApiVersionsResponseLegacy(v) ==
  <<Int16, Array(<<Int16, Int16, Int16>>)>> \o Opt(v >= 2, <<Int32>>)

decodeApiVersionsResponseFlex ==
  <<Int16, CompactArray(<<Int16, Int16, Int16, TagSection>>), Int32, TagSection>>

DecodeApiVersionsResponse(v) ==
  IF v >= 3 THEN decodeApiVersionsResponseFlex
            ELSE decodeApiVersionsResponseLegacy(v)

encodeMetadataRequestLegacy == <<Array(<<String>>), Bool, Bool, Bool>>

encodeMetadataRequestFlex(v) ==
  << CompactArray((IF v >= 10 THEN <<UUID, CompactString>> ELSE <<CompactString>>)
                  \o <<TagSection>>), Bool >>
    \o Opt(v <= 10, <<Bool>>) \o <<Bool, TagSection>>

EncodeMetadataRequest(v) ==
  IF v <= 8 THEN encodeMetadataRequestLegacy ELSE encodeMetadataRequestFlex(v)

readInt32Array == Array(<<Int32>>)
readCompactInt32Array == CompactArray(<<Int32>>)

\* The leader epoch and the authorized operations are read at every legacy version.
decodeMetadataResponseLegacy ==
  << Int32, Array(<<Int32, String, Int32, String>>), String, Int32,
     Array(<< Int16, String, Bool,
              Array(<< Int16, Int32, Int32, Int32,
                       readInt32Array, readInt32Array, readInt32Array >>), Int32 >>),
     Int32 >>

decodeMetadataResponseFlex(v) ==
  << Int32, CompactArray(<<Int32, CompactString, Int32, CompactString, TagSection>>),
     CompactString, Int32,
     CompactArray(
       <<Int16, CompactString>> \o Opt(v >= 10, <<UUID>>)
         \o << Bool,
               CompactArray(<<Int16, Int32, Int32>> \o Opt(v >= 7, <<Int32>>)
                 \o << readCompactInt32Array, readCompactInt32Array,
                       readCompactInt32Array, TagSection >>) >>
         \o Opt(v >= 8, <<Int32>>) \o <<TagSection>>) >>
    \o Opt(v \in 8..10, <<Int32>>) \o Opt(v >= 13, <<Int16>>) \o <<TagSection>>

DecodeMetadataResponse(v) ==
  IF v <= 8 THEN decodeMetadataResponseLegacy ELSE decodeMetadataResponseFlex(v)

encodeFindCoordinatorRequestFlex == <<CompactString, Int8, TagSection>>

EncodeFindCoordinatorRequest ==
  IF Ver.FindCoordinator >= 3 THEN encodeFindCoordinatorRequestFlex ELSE <<String, Int8>>

decodeFindCoordinatorResponseLegacy ==
  <<Int32, Int16>> \o Opt(Ver.FindCoordinator >= 1, <<String>>) \o <<Int32, String, Int32>>

decodeFindCoordinatorResponseFlex ==
  <<Int32, Int16, CompactString, Int32, CompactString, Int32, TagSection>>

DecodeFindCoordinatorResponse ==
  IF Ver.FindCoordinator >= 3 THEN decodeFindCoordinatorResponseFlex
                              ELSE decodeFindCoordinatorResponseLegacy

encodeProduceRequestLegacy ==
  <<String, Int16, Int32, Array(<<String, Array(<<Int32, Bytes>>)>>)>>

encodeProduceRequestFlex ==
  << CompactString, Int16, Int32,
     CompactArray(<< CompactString,
                     CompactArray(<<Int32, CompactBytes, TagSection>>), TagSection >>),
     TagSection >>

EncodeProduceRequest(v) ==
  IF v >= 9 THEN encodeProduceRequestFlex ELSE encodeProduceRequestLegacy

decodeProduceResponseLegacy ==
  <<Array(<<String, Array(<<Int32, Int16, Int64, Int64, Int64>>)>>), Int32>>

\* The record errors of a partition are read without a tag section each.
decodeProduceResponseFlex(v) ==
  << CompactArray(
       << CompactString,
          CompactArray(<<Int32, Int16, Int64, Int64, Int64>>
            \o Opt(v >= 8, <<CompactArray(<<Int32, CompactString>>), CompactString>>)
            \o <<TagSection>>),
          TagSection >>),
     Int32, TagSection >>

DecodeProduceResponse(v) ==
  IF v >= 9 THEN decodeProduceResponseFlex(v) ELSE decodeProduceResponseLegacy

encodeFetchRequestLegacy(v) ==
  <<Int32, Int32, Int32, Int32>> \o Opt(v >= 4, <<Int8>>) \o Opt(v >= 7, <<Int32, Int32>>)
    \o << Array(<< String,
                   Array(<<Int32>> \o Opt(v >= 9, <<Int32>>) \o <<Int64>>
                         \o Opt(v >= 5, <<Int64>>) \o <<Int32>>) >>) >>
    \o Opt(v >= 10, <<Array(NoElements)>>) \o Opt(v >= 11, <<String>>)

encodeFetchRequestFlex(v) ==
  << Int32, Int32, Int32, Int32, Int8, Int32, Int32,
     CompactArray(<< IF v >= 13 THEN UUID ELSE CompactString,
                     CompactArray(<<Int32, Int32, Int64>> \o Opt(v >= 12, <<Int32>>)
                       \o Opt(v >= 5, <<Int64>>) \o <<Int32, TagSection>>),
                     TagSection >>),
     CompactArray(NoElements) >>
    \o Opt(v >= 11, <<CompactString>>) \o <<TagSection>>

EncodeFetchRequest(v) ==
  IF v >= 12 THEN encodeFetchRequestFlex(v) ELSE encodeFetchRequestLegacy(v)

readAbortedTransactions == Array(<<Int64, Int64>>)
readAbortedTransactionsFlex == CompactArray(<<Int64, Int64, TagSection>>)

decodeFetchResponseLegacy(v) ==
  <<Int32>> \o Opt(v >= 7, <<Int16, Int32>>)
    \o << Array(<< String,
            Array(<<Int32, Int16, Int64>> \o Opt(v >= 4, <<Int64>>)
              \o Opt(v >= 5, <<Int64>>) \o Opt(v >= 4, <<readAbortedTransactions>>)
              \o Opt(v >= 11, <<Int32>>) \o <<Bytes>>) >>) >>

decodeFetchResponseFlex(v) ==
  <<Int32>> \o Opt(v >= 7, <<Int16, Int32>>)
    \o << CompactArray(<< IF v >= 13 THEN UUID ELSE CompactString,
            CompactArray(<<Int32, Int16, Int64>> \o Opt(v >= 4, <<Int64>>)
              \o Opt(v >= 5, <<Int64>>) \o Opt(v >= 4, <<readAbortedTransactionsFlex>>)
              \o Opt(v >= 11, <<Int32>>) \o <<CompactBytes, TagSection>>),
            TagSection >>),
          TagSection >>

DecodeFetchResponse(v) ==
  IF v >= 12 THEN decodeFetchResponseFlex(v) ELSE decodeFetchResponseLegacy(v)

encodeListOffsetsRequestLegacy ==
  <<Int32>> \o Opt(Ver.ListOffsets >= 2, <<Int8>>)
    \o <<Array(<<String, Array(<<Int32, Int64>>)>>)>>

encodeListOffsetsRequestFlex ==
  << Int32, Int8, CompactArray(<< CompactString, CompactArray(<<Int32, Int64, TagSection>>) >>),
     TagSection >>

EncodeListOffsetsRequest ==
  IF Ver.ListOffsets >= 6 THEN encodeListOffsetsRequestFlex ELSE encodeListOffsetsRequestLegacy

decodeListOffsetsResponseLegacy ==
  <<Int32, Array(<<String, Array(<<Int32, Int16, Int64, Int64>>)>>)>>

decodeListOffsetsResponseFlex ==
  << Int32, CompactArray(<< CompactString,
              CompactArray(<<Int32, Int16, Int64, Int64, TagSection>>) >>), TagSection >>

DecodeListOffsetsResponse ==
  IF Ver.ListOffsets >= 6 THEN decodeListOffsetsResponseFlex ELSE decodeListOffsetsResponseLegacy
===============================================================================
