--------------------------------- MODULE MCLog ---------------------------------
(***************************************************************************)
(* The path of a log from broker to application, in situations that have   *)
(* nothing in common but this run: the fake broker while connections       *)
(* produce with faults ("produce") and while its topic comes and goes      *)
(* ("topics"), a read_committed consumer with interleaved transactions     *)
(* ("transactions") and with one batch an answer and one record a poll     *)
(* ("limit"), a consumer of the fake broker ("fake"), and the assignment   *)
(* of partitions ("assign").                                               *)
(***************************************************************************)
EXTENDS FakeBroker

CONSTANTS p, q

VARIABLES
  situation,
  batches, first, aborted, position, delivered, ordered,
  protocolName, subscribed, topicPartitions, todo, byMember

fetch == <<batches, first, aborted, position, delivered, ordered>>
assign == <<protocolName, subscribed, topicPartitions, todo, byMember>>

Recreated == INSTANCE FakeBroker WITH Ops <- {"delete", "close"}, MaxLen <- 1, MaxTopics <- 2

Transactions == INSTANCE FetchPath WITH log <- batches, Pids <- {p, q}, ReadCommitted <- TRUE,
                  Fake <- FALSE, MaxBatches <- 9, MaxPoll <- 9, MaxLen <- 2, MaxEnd <- 6
Limit == INSTANCE FetchPath WITH log <- batches, Pids <- {p, q}, ReadCommitted <- TRUE,
           Fake <- FALSE, MaxBatches <- 1, MaxPoll <- 1, MaxLen <- 1, MaxEnd <- 6
FakeFetch == INSTANCE FetchPath WITH log <- batches, Pids <- {}, ReadCommitted <- FALSE,
               Fake <- TRUE, MaxBatches <- 9, MaxPoll <- 9, MaxLen <- 2, MaxEnd <- 6

Assign == INSTANCE Assignors WITH Members <- {1, 2, 3}, Topics <- {p, q}, MaxParts <- 4

-------------------------------------------------------------------------------
MCInit ==
  /\ situation \in {"produce", "topics", "transactions", "limit", "fake", "assign"}
  /\ Init
  /\ IF situation = "fake" THEN FakeFetch!Init ELSE Transactions!Init
  /\ IF situation = "assign" THEN Assign!Init
     ELSE /\ protocolName = "range" /\ todo = {} /\ subscribed = [m \in {1, 2, 3} |-> {}]
          /\ topicPartitions = [t \in {p, q} |-> 0]
          /\ byMember = [m \in {1, 2, 3} |-> [t \in {p, q} |-> {}]]

Poll ==
  /\ \/ situation = "transactions" /\ Transactions!Poll
     \/ situation = "limit" /\ Limit!Poll
     \/ situation = "fake" /\ FakeFetch!Poll
  /\ UNCHANGED <<situation, vars, assign>>

MCNext ==
  \/ situation = "produce" /\ Next /\ UNCHANGED <<situation, fetch, assign>>
  \/ situation = "topics" /\ Recreated!Next /\ UNCHANGED <<situation, fetch, assign>>
  \/ /\ \/ situation = "transactions" /\ Transactions!Next
        \/ situation = "limit" /\ Limit!Next
        \/ situation = "fake" /\ FakeFetch!Next
     /\ UNCHANGED <<situation, vars, assign>>
  \/ situation = "assign" /\ Assign!Next /\ UNCHANGED <<situation, vars, fetch>>

\* Fair in Poll: the application keeps polling.
MCSpec == MCInit /\ [][MCNext]_<<situation, vars, fetch, assign>>
                 /\ WF_<<situation, vars, fetch, assign>>(Poll)

-------------------------------------------------------------------------------
\* FetchPath's ReadsExactly in the situations it is in: Poll returns, in order and
\* each once, exactly the records that the isolation level shows
\* (decodeRecordBatch, aggregateFetches).
PollReadsExactly ==
  /\ situation = "transactions" => Transactions!ReadsExactly
  /\ situation = "limit" => Limit!ReadsExactly
  /\ situation = "fake" => FakeFetch!ReadsExactly

\* Every visible record is read in the end, past markers, aborted transactions and
\* the poll limit, when batches are not longer than the limit (advanceDelivered).
VisibleIsRead ==
  []<>(/\ situation = "transactions" => Transactions!Due \subseteq delivered
       /\ situation = "limit" => Limit!Due \subseteq delivered
       /\ situation = "fake" => FakeFetch!Due \subseteq delivered)

\* Assignors' AssignsEachPartitionOnce: one owner for each partition, a subscriber,
\* and fair shares of each topic (ComputeGroupAssignments).
AssignedOnce == situation = "assign" => Assign!AssignsEachPartitionOnce
===============================================================================
