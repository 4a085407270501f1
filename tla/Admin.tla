--------------------------------- MODULE Admin ---------------------------------
(***************************************************************************)
(* One call of the admin client: which brokers its requests go to, what it *)
(* does when a request fails or is answered with error codes, and what it  *)
(* reports (admin*.go over Cluster.RequestAny, Request and requestSeed).   *)
(* An operation is a route and a treatment of codes, as CallSites gives    *)
(* them; it is about a set of items: topics, groups, partitions, users.    *)
(* The call is sequential, and the cluster changes under it: an item moves *)
(* to another broker between the lookup and the request.                   *)
(***************************************************************************)
EXTENDS Naturals, Sequences

CONSTANTS
  Listed,       \* the brokers of the metadata, in order
  Items,        \* what the call is about
  Operations,   \* the operations called, a subset of [route : Routes, codes : Codes]
  Attempts,     \* of listLatestOffsets: at least 25 in the code
  MaxMoves      \* bound: how often an item moves during the call

Brokers == {Listed[n] : n \in DOMAIN Listed}
Routes == {"any", "brokers", "owners", "each owner", "controller", "seed"}
Codes == {"fail", "refresh", "report", "skip", "tolerate", "retry"}

VARIABLES
  op,        \* the operation
  owner,     \* the broker that leads or coordinates an item
  moves,
  targets,   \* brokers to try or to ask, "seed" for a seed connection
  pending,   \* items whose owner is still to be looked up
  batches,   \* requests to owners that are still to be sent: <<broker, items>>
  attempt,   \* of listLatestOffsets
  executed,  \* how often a broker has executed the operation on an item
  results,   \* what the call has collected on an item
  failed,    \* the brokers that DescribeLogDirs reports as failed
  outcome    \* "none" until the call returns

vars == <<op, owner, moves, targets, pending, batches, attempt, executed, results, failed, outcome>>

\* RequestAny goes through the brokers and then tries a seed connection twice.
Targets(route) ==
  CASE route = "any" -> Listed \o <<"seed", "seed">>
    [] route = "brokers" -> Listed
    [] route \in {"controller", "seed"} -> <<"seed">>
    [] route \in {"owners", "each owner"} -> <<>>

ByOwner == op.route \in {"owners", "each owner"}

Init ==
  /\ op \in Operations
  /\ owner \in [Items -> Brokers]
  /\ moves = 0 /\ attempt = 1
  /\ targets = Targets(op.route)
  /\ pending = IF ByOwner THEN Items ELSE {}
  /\ batches = {} /\ failed = {}
  /\ executed = [i \in Items |-> 0]
  /\ results = [i \in Items |-> "none"]
  /\ outcome = "none"

-------------------------------------------------------------------------------
\* Where the call stands after a request, and what it does next.

\* Everything that was to be asked has been.
Asked == targets' = <<>> /\ batches' = {} /\ pending' = {}

\* DescribeLogDirs fails when every broker did.
Verdict ==
  IF op.codes = "tolerate" /\ failed' = Brokers THEN "error" ELSE "ok"

Continue == outcome' = IF Asked THEN Verdict ELSE "none"

Fail ==
  /\ outcome' = "error"
  /\ UNCHANGED <<targets, pending, batches, attempt, results, failed>>

\* Mutant: an item takes the place of the others that go to the same broker.
LookupOverwrites(i) ==
  /\ outcome = "none" /\ i \in pending
  /\ op.route = "each owner" => batches = {}
  /\ \E b \in Brokers :
       batches' = {r \in batches : r[1] # b} \cup {<<b, {i}>>}
  /\ pending' = pending \ {i}
  /\ UNCHANGED <<op, owner, moves, targets, attempt, executed, results, failed, outcome>>

\* FindCoordinator, or the leader in the metadata, which may be out of date by
\* the time it is used.  Requests to owners are batched, except by
\* DeleteConsumerGroups, which looks up and deletes one group after the other.
Lookup(i) ==
  /\ outcome = "none" /\ i \in pending
  /\ op.route = "each owner" => batches = {}
  /\ \E b \in Brokers :
       LET same == {r \in batches : r[1] = b}
       IN  batches' = (batches \ same) \cup {<<b, {i} \cup UNION {r[2] : r \in same}>>}
  /\ pending' = pending \ {i}
  /\ UNCHANGED <<op, owner, moves, targets, attempt, executed, results, failed, outcome>>

\* The lookup fails: no leader, no answer, or too many retries.
LookupFails ==
  /\ outcome = "none" /\ pending # {}
  /\ op.codes # "retry"
  /\ Fail
  /\ UNCHANGED <<op, owner, moves, executed>>

\* listLatestOffsets starts over with what it has no offset for yet; a fault that
\* is not retriable, or the last attempt, ends it.
Retry(known) ==
  \/ /\ outcome' = "error"
     /\ results' = known
     /\ UNCHANGED <<targets, pending, batches, attempt, failed>>
  \/ /\ attempt < Attempts
     /\ attempt' = attempt + 1
     /\ results' = known
     /\ pending' = {i \in Items : known[i] # "ok"}
     /\ batches' = {}
     /\ UNCHANGED <<targets, failed, outcome>>

LeaderUnavailable ==
  /\ outcome = "none" /\ pending # {}
  /\ op.codes = "retry"
  /\ Retry(results)
  /\ UNCHANGED <<op, owner, moves, executed>>

\* A request to broker b about some items.
Requests(b, items) ==
  \/ /\ targets # <<>>
     /\ IF Head(targets) = "seed" THEN TRUE ELSE b = Head(targets)
     /\ items = IF op.route = "brokers" THEN {i \in Items : owner[i] = b} ELSE Items
  \/ /\ pending = {} \/ op.route = "each owner"
     /\ <<b, items>> \in batches

Sent(b, items) ==
  /\ targets' = IF targets = <<>> THEN targets ELSE Tail(targets)
  /\ batches' = batches \ {<<b, items>>}

Execute(items) == executed' = [i \in Items |-> executed[i] + (IF i \in items THEN 1 ELSE 0)]

\* No answer arrives.  The broker may or may not have executed the request.
RequestFails(b, items) ==
  /\ outcome = "none" /\ Requests(b, items)
  /\ Execute({}) \/ Execute(IF ByOwner THEN {i \in items : owner[i] = b} ELSE items)
  /\ \/ /\ op.route = "any" /\ Len(targets) > 1
        /\ Sent(b, items)
        /\ UNCHANGED <<pending, attempt, results, failed, outcome>>
     \/ /\ op.codes = "tolerate"
        /\ Sent(b, items)
        /\ failed' = failed \cup {b}
        /\ UNCHANGED <<pending, attempt, results>>
        /\ Continue
     \/ op.codes = "retry" /\ Retry(results)
     \/ /\ ~(op.route = "any" /\ Len(targets) > 1)
        /\ op.codes \notin {"tolerate", "retry"}
        /\ Fail
  /\ UNCHANGED <<op, owner, moves>>

\* An answer arrives, with an error code for the items that were refused; an
\* owner refuses the items it has lost.
Answered(b, items, refused) ==
  /\ outcome = "none" /\ Requests(b, items)
  /\ refused \subseteq items
  /\ ByOwner => {i \in items : owner[i] # b} \subseteq refused
  /\ Execute(items \ refused)
  /\ LET granted == [i \in Items |-> IF i \in items \ refused THEN "ok" ELSE results[i]]
         reported == [i \in Items |-> IF i \in refused THEN "error" ELSE granted[i]]
     IN  CASE op.codes \in {"fail", "refresh"} /\ refused # {} -> Fail
           [] op.codes = "retry" /\ refused # {} ->
                \* The answers before the first error are kept.
                \E before \in SUBSET (items \ refused) :
                  Retry([i \in Items |-> IF i \in before THEN "ok" ELSE results[i]])
           [] OTHER ->
                /\ IF op.route = "any" THEN targets' = <<>> /\ batches' = {}
                                       ELSE Sent(b, items)
                /\ results' = IF op.codes \in {"report", "tolerate"} THEN reported ELSE granted
                /\ UNCHANGED <<pending, attempt, failed>>
                /\ \/ Continue
                   \* CreateTopics refreshes the metadata before it returns.
                   \/ op.codes = "refresh" /\ outcome' = "error"
  /\ UNCHANGED <<op, owner, moves>>

\* An error code for the request as a whole.
Rejected(b, items) ==
  /\ outcome = "none" /\ Requests(b, items)
  /\ op.codes \in {"report", "tolerate"}
  /\ IF op.codes = "report" THEN Fail
     ELSE /\ Sent(b, items)
          /\ failed' = failed \cup {b}
          /\ UNCHANGED <<pending, attempt, results>>
          /\ Continue
  /\ UNCHANGED <<op, owner, moves, executed>>

Move(i) ==
  /\ outcome = "none" /\ moves < MaxMoves
  /\ \E b \in Brokers \ {owner[i]} : owner' = [owner EXCEPT ![i] = b]
  /\ moves' = moves + 1
  /\ UNCHANGED <<op, targets, pending, batches, attempt, executed, results, failed, outcome>>

Next ==
  \/ \E i \in Items : Lookup(i) \/ Move(i)
  \/ LookupFails \/ LeaderUnavailable
  \/ \E b \in Brokers, items \in SUBSET Items :
       \/ RequestFails(b, items)
       \/ Rejected(b, items)
       \/ \E refused \in SUBSET items : Answered(b, items, refused)

Spec == Init /\ [][Next]_vars

-------------------------------------------------------------------------------
TypeOK ==
  /\ op \in [route : Routes, codes : Codes] /\ owner \in [Items -> Brokers]
  /\ pending \subseteq Items /\ failed \subseteq Brokers
  /\ batches \subseteq Brokers \X SUBSET Items
  /\ results \in [Items -> {"none", "ok", "error"}]
  /\ outcome \in {"none", "ok", "error"}

\* What a call without error means.  When codes fail the call, a broker has
\* executed the operation on everything it was about; when they are reported,
\* nothing is missing from the report, and what is reported as done was done.
\* DescribeLogDirs answers for every broker, and fails only if every broker did
\* ("A single unreachable or erroring broker must not fail the whole query").
\* An operation that asks every broker about what it has can miss an item that
\* moves meanwhile, and no other.
OutcomeIsTrue ==
  /\ \A i \in Items : results[i] = "ok" => executed[i] > 0
  /\ outcome = "ok" =>
       \A i \in Items :
         CASE op.codes \in {"fail", "refresh"} ->
                executed[i] > 0 \/ (op.route = "brokers" /\ moves > 0)
           [] op.codes = "retry" -> results[i] = "ok"
           [] op.codes = "report" -> results[i] # "none"
           [] op.codes = "tolerate" -> results[i] # "none" \/ owner[i] \in failed \/ moves > 0
           [] op.codes = "skip" -> TRUE
  /\ op.codes = "tolerate" => (outcome = "error" <=> failed = Brokers)

\* An operation that goes to owners, or to one broker, is executed at most once
\* on an item, whatever requests and answers are lost (DeleteRecords,
\* DeleteConsumerGroups): only RequestAny repeats what may have been executed.
OwnersExecuteOnce ==
  op.route \notin {"any", "brokers"} /\ op.codes # "retry" =>
    \A i \in Items : executed[i] <= 1
===============================================================================
