---------------------------- MODULE KfakeLayouts ----------------------------
(***************************************************************************)
(* The in-memory broker's side of the protocol (kfake/): the versions it   *)
(* advertises and, for each handler, the body it reads and the body it     *)
(* writes.  A handler reads one form of the request whatever the version,  *)
(* and may leave the rest of it unread.                                    *)
(***************************************************************************)
EXTENDS Wire

\* Every API is advertised from version 0.
advertised ==
  [ Produce |-> 9, Fetch |-> 12, ListOffsets |-> 3, Metadata |-> 12, OffsetCommit |-> 8,
    OffsetFetch |-> 8, FindCoordinator |-> 3, JoinGroup |-> 6, Heartbeat |-> 4,
    LeaveGroup |-> 5, SyncGroup |-> 5, ApiVersions |-> 3, CreateTopics |-> 4,
    DeleteTopics |-> 6, InitProducerID |-> 4 ]

flexFrom ==
  [ Produce |-> 9, Fetch |-> 12, ListOffsets |-> 6, Metadata |-> 9, OffsetCommit |-> 8,
    OffsetFetch |-> 6, FindCoordinator |-> 3, JoinGroup |-> 6, Heartbeat |-> 4,
    LeaveGroup |-> 4, SyncGroup |-> 4, ApiVersions |-> 3, CreateTopics |-> 5,
    DeleteTopics |-> 4, InitProducerID |-> 2 ]

flexRequestHeader(api, version) == version >= flexFrom[api]
flexResponseHeader(api, version) == api # "ApiVersions" /\ flexRequestHeader(api, version)

\* A handler: what it reads of the request, what it writes.
Handler(reads, writes) == [reads |-> reads, writes |-> writes]

handleApiVersions ==
  Handler(<<>>, <<Int16, CompactArray(<<Int16, Int16, Int16, TagSection>>), Int32, TagSection>>)

handleMetadata ==
  LET Node == CompactArray(<<Int32>>)
      partition == <<Int16, Int32, Int32, Int32, Node, Node, CompactArray(NoElements), TagSection>>
      topic == <<Int16, CompactString, UUID, Bool, CompactArray(partition), Int32, TagSection>>
  IN  Handler(<<>>,
        << Int32, CompactArray(<<Int32, CompactString, Int32, CompactString, TagSection>>),
           CompactString, Int32, CompactArray(topic), TagSection >>)

handleProduce ==
  Handler(
    << CompactString, Int16, Int32,
       CompactArray(<<CompactString, CompactArray(<<Int32, CompactBytes, TagSection>>),
                      TagSection>>) >>,
    << CompactArray(<< CompactString,
         CompactArray(<< Int32, Int16, Int64, Int64, Int64, CompactArray(NoElements),
                         CompactString, TagSection >>), TagSection >>),
       Int32, TagSection >>)

handleFetch ==
  Handler(
    << Int32, Int32, Int32, Int32, Int8, Int32, Int32,
       CompactArray(<< CompactString,
         CompactArray(<<Int32, Int32, Int64, Int32, Int64, Int32, TagSection>>), TagSection >>) >>,
    << Int32, Int16, Int32,
       CompactArray(<< CompactString,
         CompactArray(<< Int32, Int16, Int64, Int64, Int64, CompactArray(NoElements), Int32,
                         CompactBytes, TagSection >>), TagSection >>), TagSection >>)

handleListOffsets ==
  Handler(<<Int32, Int8, Array(<<String, Array(<<Int32, Int64>>)>>)>>,
          <<Int32, Array(<<String, Array(<<Int32, Int16, Int64, Int64>>)>>)>>)

handleFindCoordinator ==
  Handler(<<>>, <<Int32, Int16, CompactString, Int32, CompactString, Int32, TagSection>>)

handleJoinGroup ==
  Handler(
    << CompactString, Int32, Int32, CompactString, CompactString, CompactString,
       CompactArray(<<CompactString, CompactBytes, TagSection>>) >>,
    << Int32, Int16, Int32, CompactString, CompactString, CompactString,
       CompactArray(<<CompactString, CompactString, CompactBytes, TagSection>>), TagSection >>)

handleSyncGroup ==
  Handler(
    << CompactString, Int32, CompactString, CompactString, CompactString, CompactString,
       CompactArray(<<CompactString, CompactBytes, TagSection>>) >>,
    <<Int32, Int16, CompactString, CompactString, CompactBytes, TagSection>>)

handleHeartbeat == Handler(<<>>, <<Int32, Int16, TagSection>>)
handleLeaveGroup == Handler(<<CompactString>>, <<Int32, Int16, TagSection>>)

handleOffsetCommit ==
  Handler(
    << CompactString, Int32, CompactString, CompactString,
       CompactArray(<< CompactString,
         CompactArray(<<Int32, Int64, Int32, CompactString, TagSection>>), TagSection >>) >>,
    << Int32, CompactArray(<< CompactString, CompactArray(<<Int32, Int16, TagSection>>),
                              TagSection >>), TagSection >>)

Committed ==
  CompactArray(<< CompactString,
    CompactArray(<<Int32, Int64, Int32, CompactString, Int16, TagSection>>), TagSection >>)

handleOffsetFetchMultiGroup ==
  Handler(
    <<CompactArray(<< CompactString,
        CompactArray(<<CompactString, CompactArray(<<Int32>>), TagSection>>), TagSection >>)>>,
    <<Int32, CompactArray(<<CompactString, Committed, Int16, TagSection>>), TagSection>>)

\* Mutant: the form of one group, whatever the version.
SingleGroupAlways(version) ==
  Handler(<<CompactString, CompactArray(<<CompactString, CompactArray(<<Int32>>), TagSection>>)>>,
          <<Int32, Committed, Int16, TagSection>>)

handleOffsetFetch(version) ==
  IF version >= 8
    THEN handleOffsetFetchMultiGroup
    ELSE Handler(<<CompactString, CompactArray(<<CompactString, CompactArray(<<Int32>>),
                                                TagSection>>)>>,
                 <<Int32, Committed, Int16, TagSection>>)

handleInitProducerID == Handler(<<>>, <<Int32, Int16, Int64, Int16>>)

handleCreateTopics ==
  Handler(<<Array(<< String, Int32, Int16, Array(<<Int32, Array(<<Int32>>)>>),
                     Array(<<String, String>>) >>)>>,
          <<Int32, Array(<<String, Int16, String>>)>>)

handleDeleteTopics ==
  Handler(<<CompactArray(<<CompactString, UUID, TagSection>>)>>,
          <<Int32, CompactArray(<<CompactString, Int16, TagSection>>), TagSection>>)

dispatch(api, version) ==
  CASE api = "ApiVersions" -> handleApiVersions
    [] api = "Metadata" -> handleMetadata
    [] api = "CreateTopics" -> handleCreateTopics
    [] api = "DeleteTopics" -> handleDeleteTopics
    [] api = "Produce" -> handleProduce
    [] api = "ListOffsets" -> handleListOffsets
    [] api = "Fetch" -> handleFetch
    [] api = "FindCoordinator" -> handleFindCoordinator
    [] api = "JoinGroup" -> handleJoinGroup
    [] api = "SyncGroup" -> handleSyncGroup
    [] api = "Heartbeat" -> handleHeartbeat
    [] api = "LeaveGroup" -> handleLeaveGroup
    [] api = "OffsetCommit" -> handleOffsetCommit
    [] api = "OffsetFetch" -> handleOffsetFetch(version)
    [] api = "InitProducerID" -> handleInitProducerID
===============================================================================
