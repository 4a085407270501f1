------------------------------- MODULE Assignors -------------------------------
(***************************************************************************)
(* The group leader's assignors (internal/protocol/group_assign.go).  The  *)
(* leader goes through the topics of the members' subscriptions in the     *)
(* order of a Go map, which is any order.  Member ids are numbers, ordered *)
(* as the ids are; a list of partitions is the set of its elements.        *)
(***************************************************************************)
EXTENDS Integers, Sequences, FiniteSets, SequencesExt

CONSTANTS
  Members,      \* member ids
  Topics,
  MaxParts      \* bound: partitions of a topic

VARIABLES
  protocolName,      \* the protocol that the coordinator has chosen
  subscribed,        \* the topics in each member's subscription
  topicPartitions,   \* how many partitions a topic has, 0 when it is unknown
  todo,              \* topics that the leader has not come to
  byMember           \* what each member is assigned of each topic

input == <<protocolName, subscribed, topicPartitions>>
vars == <<input, todo, byMember>>

Subscribers(t) == {m \in Members : t \in subscribed[m]}
topicMembers(t) == SetToSortSeq(Subscribers(t), <)

Init ==
  /\ protocolName \in {"range", "roundrobin", "sticky"}
  /\ subscribed \in [Members -> SUBSET Topics]
  /\ topicPartitions \in [Topics -> 0..MaxParts]
  /\ todo = {t \in Topics : Subscribers(t) # {}}
  /\ byMember = [m \in Members |-> [t \in Topics |-> {}]]

-------------------------------------------------------------------------------
\* An assignor gives, for n partitions and members mids, the partitions of the
\* i-th member.

\* Mutant: the members before the remainder get no partition more.
RangeWithoutExtra(n, mids) == [i \in DOMAIN mids |-> ((i - 1) * (n \div Len(mids)))..(i * (n \div Len(mids)) - 1)]

\* Consecutive slices; the first n % Len(mids) members get one partition more.
assignRange(n, mids) ==
  LET per == n \div Len(mids)
      extra == n % Len(mids)
      count(i) == IF i <= extra THEN per + 1 ELSE per
      idx[i \in 0..Len(mids)] == IF i = 0 THEN 0 ELSE idx[i - 1] + count(i)
  IN  [i \in DOMAIN mids |-> idx[i - 1]..(idx[i] - 1)]

assignRoundRobin(n, mids) ==
  [i \in DOMAIN mids |-> {p \in 0..(n - 1) : p % Len(mids) = i - 1}]

\* The member with the fewest partitions; the first by id of several.
stickyPickMember(owned) ==
  CHOOSE i \in DOMAIN owned : \A j \in DOMAIN owned :
    \/ Cardinality(owned[i]) < Cardinality(owned[j])
    \/ Cardinality(owned[i]) = Cardinality(owned[j]) /\ i <= j

\* owned starts from what the members have of the topic already, which is nothing.
assignSticky(n, mids) ==
  LET give[k \in 0..n] ==
        IF k = 0 THEN [i \in DOMAIN mids |-> {}]
        ELSE [give[k - 1] EXCEPT ![stickyPickMember(give[k - 1])] = @ \cup {k - 1}]
  IN  give[n]

\* One topic of ComputeGroupAssignments.
AssignTopic(t) ==
  /\ t \in todo
  /\ todo' = todo \ {t}
  /\ \E mids \in {topicMembers(t)} :
     \E shares \in {CASE protocolName = "roundrobin" -> assignRoundRobin(topicPartitions[t], mids)
                      [] protocolName = "sticky" -> assignSticky(topicPartitions[t], mids)
                      [] OTHER -> assignRange(topicPartitions[t], mids)} :
       byMember' = [m \in Members |->
         IF m \in Range(mids)
           THEN [byMember[m] EXCEPT ![t] = @ \cup shares[CHOOSE i \in DOMAIN mids : mids[i] = m]]
           ELSE byMember[m]]
  /\ UNCHANGED input

Next == \E t \in Topics : AssignTopic(t)
Spec == Init /\ [][Next]_vars

-------------------------------------------------------------------------------
\* Once the leader is through with a topic, each of its partitions has exactly one
\* owner, a subscriber; no subscriber has two partitions more than another; and
\* range hands out ascending slices in the order of the member ids.
\* (ComputeGroupAssignments and its three assignors.)
AssignsEachPartitionOnce ==
  \A t \in Topics :
    LET own(m) == byMember[m][t]
        subs == Subscribers(t)
    IN  /\ t \notin todo /\ subs # {} =>
             \A p \in 0..(topicPartitions[t] - 1) : Cardinality({m \in Members : p \in own(m)}) = 1
        /\ \A m \in Members : own(m) \subseteq 0..(topicPartitions[t] - 1)
        /\ \A m \in Members \ subs : own(m) = {}
        /\ \A m, k \in subs : Cardinality(own(m)) <= Cardinality(own(k)) + 1
        /\ protocolName = "range" =>
             \A m, k \in subs : m < k => \A p \in own(m), q \in own(k) : p < q
===============================================================================
