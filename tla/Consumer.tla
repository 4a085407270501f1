------------------------------ MODULE Consumer ------------------------------
(***************************************************************************)
(* The group consumer on the classic protocol: Poll, Commit, Rebalance,    *)
(* Leave, Seek and Pause of the application, the heartbeat goroutines that *)
(* rejoin behind its back, joinAndAssign which either of them may be in,   *)
(* and the group coordinator they talk to.                                 *)
(*                                                                         *)
(* c.mu is held for single statements only, so a critical section is one   *)
(* step; the variable mu records the two places where something can happen *)
(* while it is held: inside a listener, and between the test and the write *)
(* of advanceDelivered, which Seek does not wait for.  The requests of one *)
(* consumer share a connection and its mutex: a request, its effect on the *)
(* broker and the arrival of its answer are one step, and what the client  *)
(* does with the answer is another.                                        *)
(***************************************************************************)
EXTENDS Integers, FiniteSets

CONSTANTS
  Partitions,       \* the partitions of the subscribed topics
  Brokers,          \* the brokers that may coordinate the group
  App,              \* the application's goroutine
  Beats,            \* the heartbeat goroutines that may be started
  None,             \* no coordinator known, no heartbeat registered
  Free,             \* c.mu is not held
  LogStart, LogEnd, \* the offsets a partition holds are LogStart .. LogEnd-1
  Markers,          \* the offsets that hold a control record
  ResetTo,          \* where the reset ladder starts a partition without commit
  MaxPoll,          \* cfg.Consumer.MaxPollRecords
  Cooperative,      \* cfg.Consumer.Assignor = AssignorCooperativeSticky
  Listener,         \* the application has set a RebalanceListener
  CommitInListener, \* ... whose OnPartitionsRevoked calls Commit
  Ops,              \* the calls the application makes
  Shares,           \* what the member may get while another one is in the group
  Moves,            \* what the group does on its own
  Faults,           \* what may go wrong with a request
  JoinAttempts, CommitAttempts, FetchAttempts,  \* 20 each in the code
  MaxGen, MaxIds, MaxFaults, MaxCalls, MaxMoves \* bounds of the model

ASSUME ConstantsAssumption ==
  /\ LogStart \in Nat /\ LogEnd \in Nat /\ ResetTo \in 0..LogEnd
  /\ LogStart <= LogEnd /\ Markers \subseteq LogStart..(LogEnd - 1)
  /\ MaxPoll \in Nat \ {0}
  /\ {Cooperative, Listener, CommitInListener} \subseteq BOOLEAN
  /\ Shares \subseteq SUBSET Partitions
  /\ App \notin Beats /\ None \notin Brokers \cup Beats
  /\ Free \notin {App} \cup Beats
  /\ {JoinAttempts, CommitAttempts, FetchAttempts} \subseteq Nat \ {0}
  /\ {MaxGen, MaxIds, MaxFaults, MaxCalls, MaxMoves} \subseteq Nat

VARIABLES
  \* the Consumer's fields
  memberID,     \* 0 while it has none
  generation,
  coord,        \* coordID, None when hasCoord is false
  assignments,  \* the offset of every assigned partition
  paused,
  hbCancel,     \* the heartbeat goroutine whose cancel function is kept
  mu,           \* who holds c.mu
  \* its goroutines
  pc,
  join,         \* the locals of joinAndAssign and of heartbeat, per goroutine
  cancelled,    \* the heartbeat goroutines whose context is cancelled
  after,        \* what the application's call does once it has joined
  commit,       \* the locals of commitOffsets
  fetch,        \* the locals of Poll
  batch,        \* the records of a Poll that has just returned
  \* what was observed
  delivered,    \* the records handed to this or another member's application
  told,         \* the partitions the listener was told it has
  \* the coordinator
  home, gen, known, pending, lastID, stable, other, share, committed,
  \* the bounds used up
  faults, calls, moves

fields == <<memberID, generation, coord, assignments, paused, hbCancel, mu>>
appVars == <<after, commit, fetch, batch>>
seen == <<delivered, told>>
group == <<home, gen, known, pending, lastID, stable, other, share>>
bounds == <<faults, calls, moves>>
vars == <<fields, pc, join, cancelled, appVars, seen, group, committed, bounds>>

Threads == {App} \cup Beats
Offsets == 0..LogEnd
Positions == UNION {[S -> Offsets] : S \in SUBSET Partitions}
Nowhere == [p \in {} |-> 0]

NoJoin == [coord |-> None, id |-> 0, gen |-> 0, raw |-> {}, need |-> {},
           offs |-> [p \in {} |-> 0], attempt |-> 0, notified |-> FALSE]
NoCommit == [explicit |-> FALSE, promised |-> Nowhere, offs |-> Nowhere,
             attempt |-> 0, coord |-> None, id |-> 0, gen |-> 0]
NoFetch == [snap |-> Nowhere, cursor |-> Nowhere, walked |-> {}, pass |-> {}]

Init ==
  /\ memberID = 0 /\ generation = 0 /\ coord = None
  /\ assignments = Nowhere /\ paused = {} /\ hbCancel = None /\ mu = Free
  /\ pc = [t \in Threads |-> IF t = App THEN "idle" ELSE "off"]
  /\ join = [t \in Threads |-> NoJoin]
  /\ cancelled = {} /\ after = "idle" /\ commit = NoCommit /\ fetch = NoFetch
  /\ batch = {}
  /\ delivered = {} /\ told = {}
  /\ home \in Brokers /\ gen = 0 /\ known = 0 /\ pending = {} /\ lastID = 0
  /\ stable = TRUE /\ other = FALSE /\ share = {}
  /\ committed = [p \in Partitions |-> -1]
  /\ faults = 0 /\ calls = 0 /\ moves = 0

-----------------------------------------------------------------------------
(* Small steps that several operations share. *)

Fault(f) == f \in Faults /\ faults < MaxFaults /\ faults' = faults + 1

Goto(t, l) == pc' = [pc EXCEPT ![t] = l]

\* coordinator(): the cached one, or FindCoordinator's answer, which comes from
\* some broker's metadata and may be out of date.
Coordinator(b) ==
  /\ mu = Free
  /\ b \in IF coord = None THEN Brokers ELSE {coord}
  /\ coord' = b

\* The code the coordinator answers a member's request with.
GroupCode(b, id, g) ==
  IF b # home THEN "not_coordinator"
  ELSE IF id = 0 \/ id # known THEN "unknown_member"
  ELSE IF g # gen THEN "illegal_generation"
  ELSE IF ~stable THEN "rebalance"
  ELSE "ok"

\* shouldRejoin: every code GroupCode has an error for.
ShouldRejoin(code) ==
  code \in {"rebalance", "not_coordinator", "unknown_member", "illegal_generation"}

CoordinatorRetriable(code) == code = "not_coordinator"

\* An application's call returns.
Return == Goto(App, "idle") /\ after' = "idle"

\* joinAndAssign returns an error: the application's call fails with it, the
\* heartbeat loop drops it.
JoinFails(t) ==
  /\ join' = [join EXCEPT ![t] = NoJoin]
  /\ IF t = App
       THEN Return /\ commit' = NoCommit
       ELSE Goto(t, "tick") /\ UNCHANGED <<after, commit>>
  /\ UNCHANGED <<fetch, batch>>

\* OnPartitionsRevoked(R) is called with c.mu held: a listener that commits
\* waits for c.mu, which its own goroutine holds.
Blocks(R) == Listener /\ CommitInListener /\ R # {}

-----------------------------------------------------------------------------
(* joinAndAssign, in the application's goroutine or in a heartbeat's. *)

\* rejoin: the assignment and the coordinator are dropped first.
Rejoin(t) ==
  /\ pc[t] = "rejoin" /\ mu = Free
  /\ assignments' = Nowhere /\ coord' = None
  /\ Goto(t, "join")
  /\ UNCHANGED <<memberID, generation, paused, hbCancel, mu, join, cancelled,
                 appVars, seen, group, committed, bounds>>

\* Metadata refreshed, coordinator known.
JoinStart(t) ==
  /\ pc[t] = "join"
  /\ \E b \in Brokers :
       /\ Coordinator(b)
       /\ join' = [join EXCEPT ![t] = [NoJoin EXCEPT !.coord = b]]
  /\ Goto(t, "joinsend")
  /\ UNCHANGED <<memberID, generation, assignments, paused, hbCancel, mu,
                 cancelled, appVars, seen, group, committed, bounds>>

\* JoinGroup without a member id: MEMBER_ID_REQUIRED and an id to come back with.
JoinNewMember(t) ==
  /\ pc[t] = "joinsend" /\ join[t].coord = home /\ memberID = 0
  /\ lastID < MaxIds
  /\ lastID' = lastID + 1 /\ pending' = pending \cup {lastID + 1}
  /\ join' = [join EXCEPT ![t].id = lastID + 1]
  /\ Goto(t, "idstore")
  /\ UNCHANGED <<fields, cancelled, appVars, seen, home, gen, known, stable,
                 other, share, committed, bounds>>

StoreID(t) ==
  /\ pc[t] = "idstore" /\ mu = Free
  /\ memberID' = join[t].id
  /\ join' = [join EXCEPT ![t].id = 0]
  /\ Goto(t, "joinsend")
  /\ UNCHANGED <<generation, coord, assignments, paused, hbCancel, mu, cancelled,
                 appVars, seen, group, committed, bounds>>

\* A JoinGroup the coordinator accepts: it completes generation g, of which id is
\* the consumer's only member.  A member that joins again while nothing has changed
\* gets the assignment it had, in a new generation only if it leads the group.
Generation(id, g) ==
  /\ id # 0 /\ id \in pending \cup {known}
  /\ LET again == stable /\ id = known
     IN  /\ g \in {gen + 1} \cup IF again THEN {gen} ELSE {}
         /\ share' \in IF again THEN {share} ELSE IF other THEN Shares ELSE {Partitions}
  /\ g <= MaxGen
  /\ gen' = g /\ known' = id /\ pending' = pending \ {id} /\ stable' = TRUE
  /\ UNCHANGED <<home, lastID, other>>

JoinCompletes(t) ==
  /\ pc[t] = "joinsend" /\ join[t].coord = home
  /\ \E g \in 1..MaxGen :
       /\ Generation(memberID, g)
       /\ join' = [join EXCEPT ![t].id = memberID, ![t].gen = g]
  /\ Goto(t, "joinstore")
  /\ UNCHANGED <<fields, cancelled, appVars, seen, committed, bounds>>

\* ... and its answer is lost with the connection.
JoinLost(t) ==
  /\ pc[t] = "joinsend" /\ join[t].coord = home
  /\ Fault("lost")
  /\ \E g \in 1..MaxGen : Generation(memberID, g)
  /\ JoinFails(t)
  /\ UNCHANGED <<fields, cancelled, seen, committed, calls, moves>>

\* An id the coordinator has expired: the error is returned, the id kept.
JoinUnknown(t) ==
  /\ pc[t] = "joinsend" /\ join[t].coord = home
  /\ memberID # 0 /\ memberID \notin pending \cup {known}
  /\ JoinFails(t)
  /\ UNCHANGED <<fields, cancelled, seen, group, committed, bounds>>

\* CoordinatorRetriable: the coordinator is looked up again.
JoinRedirected(t) ==
  /\ pc[t] = "joinsend" /\ join[t].coord # home /\ mu = Free
  /\ coord' = None
  /\ Goto(t, "again")
  /\ UNCHANGED <<memberID, generation, assignments, paused, hbCancel, mu, join,
                 cancelled, appVars, seen, group, committed, bounds>>

\* The attempt counter of joinLoop; the mutant never counts.
JoinTriesUncounted(n) == n
JoinTries(n) == n + 1

\* The next round of joinLoop; the last one falls out of the loop with no
\* assignment bytes.
JoinAgain(t) ==
  /\ pc[t] = "again"
  /\ \E b \in Brokers :
       /\ Coordinator(b)
       /\ join' = [join EXCEPT ![t] = [NoJoin EXCEPT !.coord = b, !.attempt = JoinTries(join[t].attempt)]]
  /\ Goto(t, IF JoinTries(join[t].attempt) < JoinAttempts THEN "joinsend" ELSE "apply")
  /\ UNCHANGED <<memberID, generation, assignments, paused, hbCancel, mu,
                 cancelled, appVars, seen, group, committed, bounds>>

StoreGeneration(t) ==
  /\ pc[t] = "joinstore" /\ mu = Free
  /\ memberID' = join[t].id /\ generation' = join[t].gen
  /\ Goto(t, "sync")
  /\ UNCHANGED <<coord, assignments, paused, hbCancel, mu, join, cancelled,
                 appVars, seen, group, committed, bounds>>

SyncAssigned(t) ==
  /\ pc[t] = "sync"
  /\ GroupCode(join[t].coord, join[t].id, join[t].gen) = "ok"
  /\ join' = [join EXCEPT ![t].raw = share, ![t].id = 0, ![t].gen = 0]
  /\ Goto(t, "apply")
  /\ UNCHANGED <<fields, cancelled, appVars, seen, group, committed, bounds>>

SyncRefused(t) ==
  /\ pc[t] = "sync" /\ mu = Free
  /\ ShouldRejoin(GroupCode(join[t].coord, join[t].id, join[t].gen))
  /\ coord' = None
  /\ Goto(t, "again")
  /\ UNCHANGED <<memberID, generation, assignments, paused, hbCancel, mu, join,
                 cancelled, appVars, seen, group, committed, bounds>>

\* applyAssignment.  Partitions the member did not have start at offset 0 until
\* their committed offset is loaded; an empty assignment is taken to mean all.
KeptOrSeeded(S) ==
  [p \in S |-> IF Cooperative /\ p \in DOMAIN assignments THEN assignments[p] ELSE 0]

Lost(S) ==
  IF Cooperative /\ S # {} THEN DOMAIN assignments \ S ELSE DOMAIN assignments

Apply(t) ==
  /\ pc[t] = "apply" /\ mu = Free
  /\ LET S == join[t].raw
         new == S \ DOMAIN assignments
         incremental == Cooperative /\ S # {}
     IN  IF Blocks(Lost(S))
           THEN /\ Goto(t, "stuck") /\ mu' = t
                /\ UNCHANGED <<assignments, join, told>>
           ELSE /\ assignments' =
                     KeptOrSeeded(IF S = {} /\ ~Cooperative THEN Partitions ELSE S)
                /\ told' = (told \ Lost(S)) \cup IF Listener /\ incremental THEN new ELSE {}
                /\ join' = [join EXCEPT ![t].raw = {}, ![t].notified = incremental]
                /\ Goto(t, "load") /\ UNCHANGED mu
  /\ UNCHANGED <<memberID, generation, coord, paused, hbCancel, cancelled,
                 appVars, delivered, group, committed, bounds>>

\* The coordinator is remembered; loadCommittedOffsets copies the assignment.
Load(t) ==
  /\ pc[t] = "load" /\ mu = Free
  /\ coord' = join[t].coord
  /\ join' = [join EXCEPT ![t].need = DOMAIN assignments, ![t].attempt = 0]
  /\ Goto(t, IF assignments = Nowhere THEN "assigned" ELSE "offsetfetch")
  /\ UNCHANGED <<memberID, generation, assignments, paused, hbCancel, mu,
                 cancelled, appVars, seen, group, committed, bounds>>

\* OffsetFetch: the partitions it answers for.  A coordinator that is loading,
\* or has moved, answers for none; an unstable offset is left out.
OffsetFetch(t) ==
  /\ pc[t] = "offsetfetch"
  /\ \E R \in SUBSET join[t].need :
       /\ \/ join[t].coord = home /\ R = join[t].need /\ UNCHANGED faults
          \/ join[t].coord # home /\ R = {} /\ UNCHANGED faults
          \/ join[t].coord = home /\ R # join[t].need /\ Fault("unstable")
       /\ join' = [join EXCEPT ![t].offs = [p \in R |-> committed[p]]]
  /\ Goto(t, "resolve")
  /\ UNCHANGED <<fields, cancelled, appVars, seen, group, committed, calls, moves>>

Resolved(t, p) ==
  join' = [join EXCEPT ![t].need = @ \ {p},
                       ![t].offs = [q \in DOMAIN @ \ {p} |-> @[q]]]

\* bumpOffset: a partition that is gone is passed over.  The mutant takes the
\* committed offset for the last one consumed.
Placed(p, o) == [q \in DOMAIN assignments |-> IF q = p THEN o ELSE assignments[q]]

BumpOffset(t, p) ==
  /\ pc[t] = "resolve" /\ p \in DOMAIN join[t].offs /\ join[t].offs[p] >= 0
  /\ mu = Free
  /\ assignments' = Placed(p, join[t].offs[p])
  /\ Resolved(t, p)
  /\ UNCHANGED <<memberID, generation, coord, paused, hbCancel, mu, pc, cancelled,
                 appVars, seen, group, committed, bounds>>

\* The reset ladder ends in Seek, which takes no lock ...
ResetOffset(t, p) ==
  /\ pc[t] = "resolve" /\ p \in DOMAIN join[t].offs /\ join[t].offs[p] < 0
  /\ p \in DOMAIN assignments
  /\ assignments' = [assignments EXCEPT ![p] = ResetTo]
  /\ Resolved(t, p)
  /\ UNCHANGED <<memberID, generation, coord, paused, hbCancel, mu, pc, cancelled,
                 appVars, seen, group, committed, bounds>>

\* ... and fails on a partition that is gone.
ResetGone(t, p) ==
  /\ pc[t] = "resolve" /\ p \in DOMAIN join[t].offs /\ join[t].offs[p] < 0
  /\ p \notin DOMAIN assignments
  /\ JoinFails(t)
  /\ UNCHANGED <<fields, cancelled, seen, group, committed, bounds>>

AllResolved(t) ==
  /\ pc[t] = "resolve" /\ join[t].offs = Nowhere /\ join[t].need = {}
  /\ join' = [join EXCEPT ![t] = [NoJoin EXCEPT !.notified = join[t].notified]]
  /\ Goto(t, "assigned")
  /\ UNCHANGED <<fields, cancelled, appVars, seen, group, committed, bounds>>

OffsetFetchAgain(t) ==
  /\ pc[t] = "resolve" /\ join[t].offs = Nowhere /\ join[t].need # {}
  /\ join[t].attempt + 1 < FetchAttempts
  /\ join' = [join EXCEPT ![t].attempt = @ + 1]
  /\ Goto(t, "offsetfetch")
  /\ UNCHANGED <<fields, cancelled, appVars, seen, group, committed, bounds>>

Unresolved(t) ==
  /\ pc[t] = "resolve" /\ join[t].offs = Nowhere /\ join[t].need # {}
  /\ join[t].attempt + 1 >= FetchAttempts
  /\ JoinFails(t)
  /\ UNCHANGED <<fields, cancelled, seen, group, committed, bounds>>

\* ensureHeartbeat; the mutant does not look whether one is registered.
NeedsBeatAlways == TRUE
NeedsBeat == hbCancel = None

\* notifyAssigned, and ensureHeartbeat when no heartbeat is registered.
Assigned(t) ==
  /\ pc[t] = "assigned" /\ mu = Free
  /\ told' = told \cup IF Listener /\ ~join[t].notified THEN DOMAIN assignments ELSE {}
  /\ \/ /\ ~NeedsBeat
        /\ Goto(t, "lastbeat") /\ UNCHANGED hbCancel
     \/ /\ NeedsBeat
        /\ LET free == {b \in Beats : pc[b] \in {"off", "done"}}
               h == CHOOSE b \in free : TRUE
           IN
             /\ free # {}
             /\ hbCancel' = h
             /\ pc' = [pc EXCEPT ![t] = "lastbeat", ![h] = "tick"]
  /\ UNCHANGED <<memberID, generation, coord, assignments, paused, mu, join,
                 cancelled, appVars, delivered, group, committed, bounds>>

\* The heartbeat joinAndAssign sends before it returns; only the coordinator it
\* may look up outlasts it.
LastBeat(t) ==
  /\ pc[t] = "lastbeat"
  /\ \/ UNCHANGED coord
     \/ memberID # 0 /\ \E b \in Brokers : Coordinator(b)
  /\ join' = [join EXCEPT ![t] = NoJoin]
  /\ IF t = App
       THEN IF after = "idle"
              THEN Return
              ELSE Goto(App, after) /\ UNCHANGED after
       ELSE Goto(t, "tick") /\ UNCHANGED after
  /\ UNCHANGED <<memberID, generation, assignments, paused, hbCancel, mu, cancelled,
                 commit, fetch, batch, seen, group, committed, bounds>>

-----------------------------------------------------------------------------
(* The heartbeat goroutines. *)

\* The ticker fires; select may prefer it to a context already cancelled.
Tick(h) ==
  /\ pc[h] = "tick" /\ mu = Free /\ memberID # 0
  /\ join' = [join EXCEPT ![h].id = memberID, ![h].gen = generation]
  /\ Goto(h, "beat")
  /\ UNCHANGED <<fields, cancelled, appVars, seen, group, committed, bounds>>

\* heartbeat: an error code makes the goroutine rejoin.
Beat(h) ==
  /\ pc[h] = "beat"
  /\ \E b \in Brokers :
       /\ Coordinator(b)
       /\ Goto(h, IF ShouldRejoin(GroupCode(b, join[h].id, join[h].gen))
                    THEN "rejoin" ELSE "tick")
  /\ join' = [join EXCEPT ![h] = NoJoin]
  /\ UNCHANGED <<memberID, generation, assignments, paused, hbCancel, mu, cancelled,
                 appVars, seen, group, committed, bounds>>

BeatEnds(h) ==
  /\ pc[h] = "tick" /\ h \in cancelled
  /\ cancelled' = cancelled \ {h}
  /\ Goto(h, "done")
  /\ UNCHANGED <<fields, join, appVars, seen, group, committed, bounds>>

-----------------------------------------------------------------------------
(* Poll. *)

\* needJoin; the mutant joins once only.
NeedsJoinOnce == memberID = 0
NeedsJoin == assignments = Nowhere

\* The call, or Poll again after a rebalance found while fetching.
Poll ==
  /\ \/ pc[App] = "idle" /\ "poll" \in Ops /\ after # "left"
     \/ pc[App] = "poll"
  /\ mu = Free
  /\ Goto(App, IF NeedsJoin THEN "join" ELSE "snapshot")
  /\ after' = "snapshot" /\ batch' = {}
  /\ UNCHANGED <<fields, join, cancelled, commit, fetch, seen, group, committed,
                 bounds>>

\* The assignment is copied and the paused partitions are left out.
Snapshot ==
  /\ pc[App] = "snapshot" /\ mu = Free
  /\ LET S == DOMAIN assignments \ paused
     IN  IF S = {}
           THEN Return /\ UNCHANGED fetch
           ELSE /\ fetch' = [NoFetch EXCEPT !.snap = [p \in S |-> assignments[p]]]
                /\ Goto(App, "fetch") /\ UNCHANGED after
  /\ UNCHANGED <<fields, join, cancelled, commit, batch, seen, group, committed, bounds>>

\* aggregateFetches: with snap[p] .. end[p]-1 fetched of each partition and the
\* partitions met in the order of rank, an item is walked over when fewer than
\* MaxPoll data records come before it.
Fetched(end) ==
  {i \in Partitions \X Offsets :
     i[1] \in DOMAIN end /\ i[2] \in fetch.snap[i[1]]..(end[i[1]] - 1)}

Data(I) == {i \in I : i[2] \notin Markers}

AggregateFetches(end, rank) ==
  LET items == Fetched(end)
      before(i) == {j \in items : \/ rank[j[1]] < rank[i[1]]
                                  \/ (j[1] = i[1] /\ j[2] < i[2])}
  IN  {i \in items : Cardinality(Data(before(i))) < MaxPoll}

\* The offset after the last item walked over in each partition; the mutant is one
\* further.
CursorPast(walked) ==
  [p \in {i[1] : i \in walked} |->
     CHOOSE o \in 0..(LogEnd + 1) : /\ <<p, o - 2>> \in walked
                                  /\ \A i \in walked : i[1] = p => i[2] < o - 1]
Cursor(walked) ==
  [p \in {i[1] : i \in walked} |->
     CHOOSE o \in Offsets : /\ <<p, o - 1>> \in walked
                            /\ \A i \in walked : i[1] = p => i[2] < o]

InRange(o) == LogStart <= o /\ o <= LogEnd

\* Every broker answers, with records from the offset asked for on when it has any.
FetchRecords ==
  /\ pc[App] = "fetch"
  /\ \A p \in DOMAIN fetch.snap : InRange(fetch.snap[p])
  /\ \E end \in [DOMAIN fetch.snap -> Offsets] :
       \E rank \in [DOMAIN fetch.snap -> 1..Cardinality(Partitions)] :
         /\ \A p \in DOMAIN end : end[p] >= fetch.snap[p]
         /\ (\A p \in DOMAIN end : end[p] = fetch.snap[p])
              => \A p \in DOMAIN end : end[p] = LogEnd
         /\ \A p, q \in DOMAIN rank : p # q => rank[p] # rank[q]
         /\ LET walked == AggregateFetches(end, rank)
            IN  fetch' = [fetch EXCEPT !.walked = walked, !.cursor = Cursor(walked)]
  /\ Goto(App, "advance")
  /\ UNCHANGED <<fields, join, cancelled, after, commit, batch, seen, group,
                 committed, bounds>>

\* OFFSET_OUT_OF_RANGE is an error of Poll and moves nothing.
FetchOutOfRange ==
  /\ pc[App] = "fetch"
  /\ \E p \in DOMAIN fetch.snap : ~InRange(fetch.snap[p])
  /\ Return /\ fetch' = NoFetch
  /\ UNCHANGED <<fields, join, cancelled, commit, batch, seen, group, committed,
                 bounds>>

\* A leader or topic id that changed: metadata refreshed, no records, no error.
FetchStale ==
  /\ pc[App] = "fetch" /\ Fault("stale")
  /\ Return /\ fetch' = NoFetch
  /\ UNCHANGED <<fields, join, cancelled, commit, batch, seen, group, committed, calls,
                 moves>>

\* handleFetchRebalance: REBALANCE_IN_PROGRESS from a fetch.
FetchRebalance ==
  /\ pc[App] = "fetch" /\ Fault("rebalance")
  /\ fetch' = NoFetch /\ after' = "poll"
  /\ Goto(App, "rebalance")
  /\ UNCHANGED <<fields, join, cancelled, commit, batch, seen, group,
                 committed, calls, moves>>

\* advanceDelivered, which tests and writes under c.mu.  A partition that is no
\* longer at the offset the fetch started from is left alone.
Advance ==
  /\ pc[App] = "advance" /\ mu = Free
  /\ mu' = App
  /\ fetch' = [fetch EXCEPT !.pass =
       {p \in DOMAIN fetch.cursor \cap DOMAIN assignments :
          assignments[p] = fetch.snap[p] /\ fetch.cursor[p] > assignments[p]}]
  /\ Goto(App, "advancing")
  /\ UNCHANGED <<memberID, generation, coord, assignments, paused, hbCancel, join,
                 cancelled, after, commit, batch, seen, group, committed,
                 bounds>>

\* The positions move and Poll returns the data records it walked over.
Deliver ==
  /\ pc[App] = "advancing"
  /\ assignments' = [p \in DOMAIN assignments |->
                       IF p \in fetch.pass THEN fetch.cursor[p] ELSE assignments[p]]
  /\ mu' = Free
  /\ batch' = Data(fetch.walked) /\ delivered' = delivered \cup Data(fetch.walked)
  /\ fetch' = NoFetch
  /\ Return
  /\ UNCHANGED <<memberID, generation, coord, paused, hbCancel, join, cancelled,
                 commit, told, group, committed, bounds>>

-----------------------------------------------------------------------------
(* Commit. *)

\* Commit() of the positions.
Commit ==
  /\ pc[App] = "idle" /\ "commit" \in Ops /\ calls < MaxCalls /\ after # "left"
  /\ calls' = calls + 1
  /\ commit' = [NoCommit EXCEPT !.promised = assignments] /\ batch' = {}
  /\ Goto(App, "commit")
  /\ UNCHANGED <<fields, join, cancelled, after, fetch, seen, group, committed,
                 faults, moves>>

\* Commit(records...) of the last batch: the last record listed for a partition
\* decides, and Run lists them in the order their handlers finished.
CommitRecords ==
  /\ pc[App] = "idle" /\ "commitrecords" \in Ops /\ calls < MaxCalls /\ batch # {}
  /\ after # "left"
  /\ calls' = calls + 1
  /\ \E offs \in [{r[1] : r \in batch} -> Offsets] :
       /\ \A p \in DOMAIN offs : <<p, offs[p] - 1>> \in batch
       /\ commit' = [NoCommit EXCEPT !.explicit = TRUE, !.offs = offs] /\ batch' = {}
  /\ Goto(App, "commit")
  /\ UNCHANGED <<fields, join, cancelled, after, fetch, seen, group, committed,
                 faults, moves>>

\* commitOffsets collects the offsets ...
Collect ==
  /\ pc[App] = "commit" /\ mu = Free
  /\ commit' = IF commit.explicit THEN commit ELSE [commit EXCEPT !.offs = assignments]
  /\ Goto(App, "identify")
  /\ UNCHANGED <<fields, join, cancelled, after, fetch, batch, seen, group,
                 committed, bounds>>

\* ... and only then reads who the member is.
Identify ==
  /\ pc[App] = "identify"
  /\ \E b \in Brokers :
       /\ Coordinator(b)
       /\ commit' = [commit EXCEPT !.coord = b, !.id = memberID, !.gen = generation]
  /\ Goto(App, "commitsend")
  /\ UNCHANGED <<memberID, generation, assignments, paused, hbCancel, mu, join,
                 cancelled, after, fetch, batch, seen, group, committed,
                 bounds>>

\* The coordinator takes a commit of the current generation, also while the next
\* one is being prepared, and may answer REBALANCE_IN_PROGRESS then.
CommitCode(code) ==
  LET c == GroupCode(commit.coord, commit.id, commit.gen)
  IN  code \in IF c = "rebalance" THEN {"ok", "rebalance"} ELSE {c}

Stored ==
  committed' = [p \in Partitions |->
                  IF p \in DOMAIN commit.offs THEN commit.offs[p] ELSE committed[p]]

CommitAccepted ==
  /\ pc[App] = "commitsend" /\ CommitCode("ok")
  /\ Stored
  /\ Return /\ commit' = NoCommit
  /\ UNCHANGED <<fields, join, cancelled, fetch, batch, seen, group, bounds>>

CommitLost ==
  /\ pc[App] = "commitsend" /\ CommitCode("ok") /\ Fault("lost")
  /\ Stored
  /\ Return /\ commit' = NoCommit
  /\ UNCHANGED <<fields, join, cancelled, fetch, batch, seen, group, calls,
                 moves>>

\* REBALANCE_IN_PROGRESS is tried again, the other codes after a rejoin.
CommitRefused(code) ==
  /\ pc[App] = "commitsend" /\ CommitCode(code) /\ ShouldRejoin(code) /\ mu = Free
  /\ IF commit.attempt + 1 < CommitAttempts
       THEN /\ commit' = [commit EXCEPT !.attempt = @ + 1]
            /\ Goto(App, IF code = "rebalance" THEN "commit" ELSE "rejoin")
            /\ after' = "commit" /\ UNCHANGED coord
       ELSE /\ coord' = IF CoordinatorRetriable(code) THEN None ELSE coord
            /\ Return /\ commit' = NoCommit
  /\ UNCHANGED <<memberID, generation, assignments, paused, hbCancel, mu, join,
                 cancelled, fetch, batch, seen, group, committed, bounds>>

-----------------------------------------------------------------------------
(* Rebalance, Leave, Seek, Pause and Resume. *)

Rebalance ==
  /\ pc[App] = "idle" /\ "rebalance" \in Ops /\ calls < MaxCalls /\ after # "left"
  /\ calls' = calls + 1
  /\ batch' = {}
  /\ Goto(App, "rebalance")
  /\ UNCHANGED <<fields, join, cancelled, after, commit, fetch, seen, group, committed, faults,
                 moves>>

\* The whole assignment is reported revoked; a cooperative member stays in.
RebalanceStart ==
  /\ pc[App] = "rebalance" /\ mu = Free
  /\ IF Blocks(DOMAIN assignments)
       THEN Goto(App, "stuck") /\ mu' = App /\ UNCHANGED told
       ELSE /\ told' = told \ DOMAIN assignments
            /\ Goto(App, IF Cooperative THEN "join" ELSE "leave")
            /\ UNCHANGED mu
  /\ UNCHANGED <<memberID, generation, coord, assignments, paused, hbCancel, join,
                 cancelled, appVars, delivered, group, committed, bounds>>

\* Leave, the application's last call.
Leave ==
  /\ pc[App] = "idle" /\ "leave" \in Ops /\ after # "left"
  /\ after' = "left" /\ batch' = {}
  /\ Goto(App, "leave")
  /\ UNCHANGED <<fields, join, cancelled, commit, fetch, seen, group,
                 committed, bounds>>

\* After LeaveGroup: Rebalance goes on, Leave returns.
LeaveDone == Goto(App, IF after = "left" THEN "idle" ELSE "reset")

\* stopHeartbeat; a consumer that never joined has nothing to leave.
LeaveStop ==
  /\ pc[App] = "leave" /\ mu = Free
  /\ hbCancel' = None /\ cancelled' = cancelled \cup ({hbCancel} \ {None})
  /\ IF memberID = 0 THEN LeaveDone ELSE Goto(App, "leavesend")
  /\ join' = [join EXCEPT ![App] = [NoJoin EXCEPT !.id = memberID]]
  /\ UNCHANGED <<memberID, generation, coord, assignments, paused, mu, appVars, seen,
                 group, committed, bounds>>

\* LeaveGroup; the code of the answer is not looked at.
LeaveSend ==
  /\ pc[App] = "leavesend"
  /\ \E b \in Brokers :
       /\ Coordinator(b)
       /\ known' = IF b = home /\ join[App].id = known THEN 0 ELSE known
  /\ join' = [join EXCEPT ![App] = NoJoin]
  /\ LeaveDone
  /\ UNCHANGED <<memberID, generation, assignments, paused, hbCancel, mu, cancelled,
                 appVars, seen, home, gen, pending, lastID, stable, other, share,
                 committed, bounds>>

Reset ==
  /\ pc[App] = "reset" /\ mu = Free
  /\ assignments' = Nowhere /\ memberID' = 0 /\ generation' = 0 /\ coord' = None
  /\ Goto(App, "join")
  /\ UNCHANGED <<paused, hbCancel, mu, join, cancelled, appVars, seen, group,
                 committed, bounds>>

\* Seek writes the offset without taking c.mu, from any goroutine.
Seek(p, o) ==
  /\ "seek" \in Ops /\ calls < MaxCalls
  /\ p \in DOMAIN assignments /\ assignments[p] # o
  /\ calls' = calls + 1
  /\ assignments' = [assignments EXCEPT ![p] = o]
  /\ UNCHANGED <<memberID, generation, coord, paused, hbCancel, mu, pc, join,
                 cancelled, appVars, seen, group, committed, faults, moves>>

Pause(p) ==
  /\ "pause" \in Ops /\ mu = Free /\ p \notin paused
  /\ paused' = paused \cup {p}
  /\ UNCHANGED <<memberID, generation, coord, assignments, hbCancel, mu, pc, join,
                 cancelled, appVars, seen, group, committed, bounds>>

Resume(p) ==
  /\ "pause" \in Ops /\ mu = Free /\ p \in paused
  /\ paused' = paused \ {p}
  /\ UNCHANGED <<memberID, generation, coord, assignments, hbCancel, mu, pc, join,
                 cancelled, appVars, seen, group, committed, bounds>>

-----------------------------------------------------------------------------
(* What requests and the group do. *)

\* A request fails, or the metadata a call needs is not there, and the broker
\* has done nothing.  heartbeat's transport errors are not worth a rejoin.
RequestFails(t) ==
  /\ Fault("request")
  /\ \/ /\ pc[t] \in {"join", "joinsend", "again", "sync", "offsetfetch", "resolve"}
        /\ JoinFails(t)
     \/ /\ pc[t] \in {"fetch", "snapshot", "identify", "commitsend", "leavesend"}
        /\ Goto(t, "idle")
        /\ after' = IF after = "left" THEN "left" ELSE "idle"
        /\ join' = [join EXCEPT ![t] = NoJoin]
        /\ commit' = NoCommit /\ fetch' = NoFetch /\ UNCHANGED batch
     \/ /\ pc[t] = "beat"
        /\ Goto(t, "tick")
        /\ join' = [join EXCEPT ![t] = NoJoin]
        /\ UNCHANGED appVars
  /\ UNCHANGED <<fields, cancelled, seen, group, committed, calls, moves>>

Move(m) == m \in Moves /\ moves < MaxMoves /\ moves' = moves + 1

\* Another member comes or goes: the coordinator prepares a generation.
OtherChanges ==
  /\ Move("other")
  /\ other' = ~other /\ stable' = FALSE
  /\ UNCHANGED <<fields, pc, join, cancelled, appVars, seen, home, gen, known,
                 pending, lastID, share, committed, faults, calls>>

\* The session of the member, or of an id never used, runs out.
Expire ==
  /\ Move("expire") /\ known # 0
  /\ known' = 0
  /\ UNCHANGED <<fields, pc, join, cancelled, appVars, seen, home, gen, pending,
                 lastID, stable, other, share, committed, faults, calls>>

CoordinatorMoves ==
  /\ Move("coordinator")
  /\ home' \in Brokers \ {home}
  /\ UNCHANGED <<fields, pc, join, cancelled, appVars, seen, gen, known, pending,
                 lastID, stable, other, share, committed, faults, calls>>

\* The other member consumes a partition that is not this one's, from its
\* committed offset.
OtherConsumes(p) ==
  /\ other /\ (known = 0 \/ (stable /\ p \notin share))
  /\ LET o == IF committed[p] < 0 THEN ResetTo ELSE committed[p]
     IN  /\ InRange(o) /\ o < LogEnd
         /\ delivered' = delivered \cup Data({<<p, o>>})
         /\ committed' = [committed EXCEPT ![p] = o + 1]
  /\ UNCHANGED <<fields, pc, join, cancelled, appVars, told, group, bounds>>

JoinStep(t) ==
  \/ Rejoin(t) \/ JoinStart(t) \/ JoinNewMember(t) \/ StoreID(t) \/ JoinCompletes(t)
  \/ JoinUnknown(t) \/ JoinRedirected(t) \/ JoinAgain(t) \/ StoreGeneration(t)
  \/ SyncAssigned(t) \/ SyncRefused(t) \/ Apply(t) \/ Load(t) \/ OffsetFetch(t)
  \/ \E p \in Partitions : BumpOffset(t, p) \/ ResetOffset(t, p) \/ ResetGone(t, p)
  \/ AllResolved(t) \/ OffsetFetchAgain(t) \/ Unresolved(t) \/ Assigned(t)
  \/ LastBeat(t)

BeatStep(h) == Tick(h) \/ Beat(h)

\* The calls the application makes, and what it is in the middle of.
Call == Poll \/ Commit \/ CommitRecords \/ Rebalance \/ Leave

AppStep ==
  \/ pc[App] = "poll" /\ Poll
  \/ Snapshot \/ FetchRecords \/ FetchOutOfRange \/ Advance \/ Deliver
  \/ Collect \/ Identify \/ CommitAccepted
  \/ \E code \in {"rebalance", "not_coordinator", "unknown_member", "illegal_generation"} :
       CommitRefused(code)
  \/ RebalanceStart \/ LeaveStop \/ LeaveSend \/ Reset

Elsewhere == \E p \in Partitions : Pause(p) \/ Resume(p) \/ \E o \in Offsets : Seek(p, o)

Environment ==
  \/ \E t \in Threads : RequestFails(t) \/ JoinLost(t)
  \/ FetchStale \/ FetchRebalance \/ CommitLost \/ OtherChanges \/ Expire \/ CoordinatorMoves
  \/ \E p \in Partitions : OtherConsumes(p)

Next ==
  \/ Call \/ AppStep \/ Elsewhere \/ Environment
  \/ \E t \in Threads : JoinStep(t)
  \/ \E h \in Beats : BeatStep(h) \/ BeatEnds(h)

Spec == Init /\ [][Next]_vars

\* The goroutines are scheduled, the application keeps polling, and a select
\* whose context is cancelled does not prefer the ticker for ever.
FairSpec ==
  /\ Spec
  /\ WF_vars(AppStep) /\ WF_vars(Poll)
  /\ \A t \in Threads : WF_vars(JoinStep(t))
  /\ \A h \in Beats : WF_vars(BeatStep(h)) /\ SF_vars(BeatEnds(h))

-----------------------------------------------------------------------------
(* Properties. *)

Labels ==
  {"idle", "poll", "snapshot", "fetch", "advance", "advancing", "commit", "identify",
   "commitsend", "rebalance", "leave", "leavesend", "reset", "rejoin", "join",
   "joinsend", "idstore", "again", "joinstore", "sync", "apply", "load",
   "offsetfetch", "resolve", "assigned", "lastbeat", "off", "tick", "beat", "done",
   "stuck"}

Records == Partitions \X (LogStart..(LogEnd - 1))

JoinLocals ==
  [coord : Brokers \cup {None}, id : 0..MaxIds, gen : 0..MaxGen,
   raw : SUBSET Partitions, need : SUBSET Partitions,
   offs : UNION {[S -> Offsets \cup {-1}] : S \in SUBSET Partitions},
   attempt : Nat, notified : BOOLEAN]

CommitLocals ==
  [explicit : BOOLEAN, promised : Positions, offs : Positions, attempt : 0..CommitAttempts,
   coord : Brokers \cup {None}, id : 0..MaxIds, gen : 0..MaxGen]

FetchLocals ==
  [snap : Positions, cursor : Positions, walked : SUBSET Records,
   pass : SUBSET Partitions]

\* Every variable has its type; a position is the offset of a record or of the end.
TypeOK ==
  /\ memberID \in 0..MaxIds /\ generation \in 0..MaxGen
  /\ coord \in Brokers \cup {None}
  /\ assignments \in Positions /\ paused \subseteq Partitions
  /\ hbCancel \in Beats \cup {None} /\ mu \in Threads \cup {Free}
  /\ pc \in [Threads -> Labels] /\ join \in [Threads -> JoinLocals]
  /\ cancelled \subseteq Beats
  /\ after \in {"idle", "snapshot", "poll", "commit", "left"}
  /\ commit \in CommitLocals /\ fetch \in FetchLocals
  /\ batch \subseteq Records
  /\ delivered \subseteq Records /\ told \subseteq Partitions
  /\ home \in Brokers /\ gen \in 0..MaxGen /\ known \in 0..MaxIds
  /\ pending \subseteq 1..MaxIds /\ lastID \in 0..MaxIds
  /\ stable \in BOOLEAN /\ other \in BOOLEAN /\ share \subseteq Partitions
  /\ committed \in [Partitions -> Offsets \cup {-1}]
  /\ faults \in 0..MaxFaults /\ calls \in 0..MaxCalls /\ moves \in 0..MaxMoves

\* Everything before an offset was handed to some application.
Covered(p, o) ==
  \A r \in Records : r[1] = p /\ r[2] >= ResetTo /\ r[2] < o /\ r[2] \notin Markers
                       => r \in delivered

\* "it cannot commit past records Poll never handed back": whatever Commit stored,
\* with or without arguments, retried, raced by a rejoin or from a member that had
\* already lost the partition, every data record before it was returned by a Poll.
CommittedWasDelivered == \A p \in Partitions : Covered(p, committed[p])

\* A position never runs ahead of what Poll returned: the max-poll cut, a marker
\* after the cut, a fetch overtaken by a rejoin and a stale committed offset
\* included.  The next Poll and the next Commit start from there.
PositionsCovered == \A p \in DOMAIN assignments : Covered(p, assignments[p])

\* ensureHeartbeat and stopHeartbeat from two goroutines never leave a heartbeat
\* goroutine running that nobody can cancel any more, nor two at a time.
LiveBeatIsRegistered ==
  {h \in Beats : pc[h] \notin {"off", "done"} /\ h \notin cancelled} = {hbCancel} \ {None}

\* Every data record from the reset position on has reached an application.
Delivered == \A r \in Records : r[2] >= ResetTo /\ r[2] \notin Markers => r \in delivered

\* Nobody is in the middle of anything.
Quiet == pc[App] = "idle" /\ \A h \in Beats : pc[h] \in {"off", "tick", "done"}
=============================================================================
