---------------------------- MODULE ShareConsumer ----------------------------
(***************************************************************************)
(* A member of a KIP-932 share group (share_consumer.go): application      *)
(* goroutines that Poll, acknowledge and Leave, and the heartbeat          *)
(* goroutines the member starts, over the group coordinator and the share  *)
(* partitions' leaders, both external.  s.mu is held for a step at a time. *)
(* A request, what the broker does with it and its answer are one step;    *)
(* the share session's epoch is read before that step and stored after it. *)
(* Member id and coordinator lookup are left out: the id never changes,    *)
(* and a failed lookup is one way for a heartbeat to fail.                 *)
(***************************************************************************)
EXTENDS Integers, Sequences, FiniteSets, SequencesExt

CONSTANTS
    Apps,            \* application goroutines
    Hearts,          \* heartbeat goroutines the member may start, one after another
    Partitions, Brokers,
    LeaderBroker,    \* [Partitions -> Brokers]
    Offsets,         \* 0 .. n, the offsets of every partition
    Markers,         \* records that are transaction markers
    Implicit,        \* ShareAckImplicit
    MaxPollRecords,
    JoinAttempts,    \* 60 in the code
    Kinds,           \* acknowledgements the application uses
    Faults, MaxFaults, MaxCalls,
    MaxEpoch,        \* bounds member epochs, and the rounds of one Poll
    None

VARIABLES
    memberEpoch, assignments, shareSession, pendingAccept, hbCancel,  \* ShareConsumer
    cancelled,       \* heartbeat goroutines whose context is cancelled
    th,              \* [goroutine -> its program counter and locals]
    coord,           \* coordinator: is the member known, its epoch
    session,         \* leaders: [Brokers -> epoch of this member's session, 0 = none]
    state,           \* leaders: [record -> what became of it]
    delivered,       \* records Poll returned
    word,            \* [record -> what the application last said of it, and was told had worked]
    calls, faults

client == <<memberEpoch, assignments, shareSession, pendingAccept, hbCancel, cancelled>>
broker == <<coord, session, state>>
vars == <<client, th, broker, delivered, word, calls, faults>>

Threads == Apps \cup Hearts
Records == Partitions \X Offsets
Data == Records \ Markers
LeaderOf(r) == LeaderBroker[r[1]]

Locals == [pc: {"idle", "join", "joining", "keep", "take", "apply", "ensure", "beat", "beating", "rejoin", "accept", "snapshot",
                "fetch", "fetching", "refetch", "fetched", "ack", "acking", "acked", "stop", "leave", "tick", "gone"},
           then: {"idle", "accept", "snapshot", "leave", "tick"},  \* where a join or an acknowledgement returns to
           tries: 0 .. JoinAttempts, epoch: Int, again: BOOLEAN,
           all: SUBSET Brokers, todo: SUBSET Brokers, at: Brokers \cup Hearts \cup {None},
           out: Seq(Records), reply: Seq(Records),
           kind: Kinds \cup {"accept"}, acks: SUBSET Records]

(* The variables have their types: epochs never go below zero, only data   *)
(* records are pending or returned.                                        *)
TypeOK ==
    /\ memberEpoch \in Nat /\ assignments \subseteq Partitions
    /\ shareSession \in [Brokers -> Nat] /\ session \in [Brokers -> Nat]
    /\ pendingAccept \subseteq Data /\ delivered \subseteq Data
    /\ hbCancel \in Hearts \cup {None} /\ cancelled \subseteq Hearts
    /\ th \in [Threads -> Locals]
    /\ coord \in [known: BOOLEAN, epoch: Nat]
    /\ state \in [Records -> {"available", "acquired", "other", "accept", "reject"}]
    /\ word \in [Records -> {None, "accept", "release", "reject", "renew"}]
    /\ calls \in [Apps -> 0 .. MaxCalls] /\ faults \in 0 .. MaxFaults

Resting(pc) == [pc |-> pc, then |-> "idle", tries |-> 0, epoch |-> 0, again |-> FALSE, all |-> {}, todo |-> {},
                at |-> None, out |-> <<>>, reply |-> <<>>, kind |-> "accept", acks |-> {}]

Init ==
    /\ memberEpoch = 0 /\ assignments = {} /\ shareSession = [b \in Brokers |-> 0]
    /\ pendingAccept = {} /\ hbCancel = None /\ cancelled = {}
    /\ th = [t \in Threads |-> Resting(IF t \in Apps THEN "idle" ELSE "gone")]
    /\ coord = [known |-> FALSE, epoch |-> 0]
    /\ session = [b \in Brokers |-> 0] /\ state = [r \in Records |-> "available"]
    /\ delivered = {} /\ word = [r \in Records |-> None]
    /\ calls = [a \in Apps |-> 0] /\ faults = 0

Fault(f) == f \in Faults /\ faults < MaxFaults /\ faults' = faults + 1
Goto(t, pc) == th' = [th EXCEPT ![t].pc = pc]
At(t, pc) == th[t].pc = pc
(* A call gives up: Poll, Acknowledge and Leave return their error, a      *)
(* heartbeat goroutine waits for its next tick.                            *)
GiveUp(t) == th' = [th EXCEPT ![t] = Resting(IF t \in Apps THEN "idle" ELSE "tick")]

(* ... or goes on where the join, or the acknowledgement, was called.      *)
Back(t) == th' = [th EXCEPT ![t] = Resting(th[t].then)]

-----------------------------------------------------------------------------
(* Joining: joinShareGroup's loop over ShareGroupHeartbeat.                *)

(* The coordinator's answer to a heartbeat of epoch e.                     *)
HeartbeatCode(e) ==
    IF e = 0 THEN "ok"
    ELSE IF ~coord.known THEN "UNKNOWN_MEMBER_ID"
    ELSE IF e # coord.epoch THEN "FENCED_MEMBER_EPOCH" ELSE "ok"

Joined(e) == [known |-> TRUE, epoch |-> IF e = 0 THEN coord.epoch + 1 ELSE coord.epoch]

ShouldRejoinShare(code) == code \in {"UNKNOWN_MEMBER_ID", "FENCED_MEMBER_EPOCH", "STALE_MEMBER_EPOCH"}

JoinRead(t) ==
    /\ At(t, "join")
    /\ \/ th[t].tries = JoinAttempts /\ GiveUp(t)
       \/ th[t].tries < JoinAttempts /\ th' = [th EXCEPT ![t].pc = "joining", ![t].epoch = memberEpoch]
    /\ UNCHANGED <<client, broker, delivered, word, calls, faults>>

(* The answer may come without an assignment, or refuse the epoch; the     *)
(* epoch it leaves is stored under a lock of its own.                      *)
JoinAnswered(t) ==
    /\ At(t, "joining") /\ HeartbeatCode(th[t].epoch) = "ok" /\ coord.epoch < MaxEpoch
    /\ coord' = Joined(th[t].epoch)
    /\ \/ Fault("slow") /\ th' = [th EXCEPT ![t].pc = "keep", ![t].epoch = coord'.epoch]
       \/ th' = [th EXCEPT ![t].pc = "take", ![t].epoch = coord'.epoch] /\ UNCHANGED faults
    /\ UNCHANGED <<client, session, state, delivered, word, calls>>

JoinRefused(t) ==
    /\ At(t, "joining") /\ ShouldRejoinShare(HeartbeatCode(th[t].epoch))
    /\ th' = [th EXCEPT ![t].pc = "keep", ![t].epoch = 0]
    /\ UNCHANGED <<client, broker, delivered, word, calls, faults>>

(* Without an assignment it is asked again; with one that is applied, a    *)
(* heartbeat goroutine started if none is registered, and one heartbeat    *)
(* sent before the join is over.                                           *)
JoinStore(t) ==
    /\ th[t].pc \in {"keep", "take"}
    /\ memberEpoch' = th[t].epoch
    /\ th' = [th EXCEPT ![t].pc = IF @ = "take" THEN "apply" ELSE "join",
                        ![t].tries = IF th[t].pc = "take" THEN @ ELSE @ + 1]
    /\ UNCHANGED <<assignments, shareSession, pendingAccept, hbCancel, cancelled, broker, delivered, word, calls, faults>>

(* applyShareAssignment; the leaders' sessions start over.  A topic or a   *)
(* leader missing from the metadata fails the join.                        *)
ApplyAssignment(t) ==
    /\ At(t, "apply")
    /\ \/ /\ Fault("noLeader") /\ GiveUp(t) /\ UNCHANGED <<assignments, shareSession>>
       \/ /\ assignments' = Partitions
          /\ shareSession' = [b \in Brokers |-> IF b \in Range(LeaderBroker) THEN 0 ELSE shareSession[b]]
          /\ Goto(t, "ensure") /\ UNCHANGED faults
    /\ UNCHANGED <<memberEpoch, pendingAccept, hbCancel, cancelled, broker, delivered, word, calls>>

NeedsBeatAlways == TRUE
NeedsBeat == hbCancel = None

EnsureHeartbeat(t) ==
    /\ At(t, "ensure")
    /\ IF NeedsBeat
       THEN \E h \in Hearts :
              /\ At(h, "gone") /\ h \notin cancelled /\ hbCancel' = h
              /\ th' = [th EXCEPT ![h].pc = "tick", ![t].pc = "beat"]
       ELSE Goto(t, "beat") /\ UNCHANGED hbCancel
    /\ UNCHANGED <<memberEpoch, assignments, shareSession, pendingAccept, cancelled, broker, delivered, word, calls, faults>>

(* The coordinator moved or is loading: look it up and try again; or the   *)
(* request, the answer or the lookup is lost and the call fails.           *)
JoinDisturbed(t) ==
    /\ At(t, "joining")
    /\ \/ Fault("redirect") /\ th' = [th EXCEPT ![t].pc = "join", ![t].tries = @ + 1] /\ UNCHANGED coord
       \/ Fault("lostRequest") /\ GiveUp(t) /\ UNCHANGED coord
       \/ /\ Fault("lostReply") /\ HeartbeatCode(th[t].epoch) = "ok" /\ coord.epoch < MaxEpoch
          /\ coord' = Joined(th[t].epoch) /\ GiveUp(t)
    /\ UNCHANGED <<client, session, state, delivered, word, calls>>

(* shareHeartbeat, at the end of a join and from the heartbeat loop.       *)
BeatRead(t) ==
    /\ At(t, "beat")
    /\ th' = [th EXCEPT ![t].pc = "beating", ![t].epoch = memberEpoch]
    /\ UNCHANGED <<client, broker, delivered, word, calls, faults>>

(* Epoch 0, read after another goroutine reset it, is a join that names no *)
(* topics, which the coordinator refuses.                                  *)
BeatCode(e) == IF e = 0 THEN "INVALID_REQUEST" ELSE HeartbeatCode(e)

Beat(t) ==
    LET code == BeatCode(th[t].epoch)
    IN /\ At(t, "beating")
       /\ \/ code = "ok" /\ Back(t) /\ UNCHANGED faults
          \/ ShouldRejoinShare(code) /\ Goto(t, "rejoin") /\ UNCHANGED faults
          \/ code = "INVALID_REQUEST" /\ GiveUp(t) /\ UNCHANGED faults
          \/ Fault("lostRequest") /\ GiveUp(t)
       /\ UNCHANGED <<client, broker, delivered, word, calls>>

RejoinShare(t) ==
    /\ At(t, "rejoin")
    /\ assignments' = {} /\ memberEpoch' = 0 /\ shareSession' = [b \in Brokers |-> 0]
    /\ th' = [th EXCEPT ![t].pc = "join", ![t].tries = 0]
    /\ UNCHANGED <<pendingAccept, hbCancel, cancelled, broker, delivered, word, calls, faults>>

(* shareHeartbeatLoop.                                                     *)
Tick(h) ==
    /\ At(h, "tick")
    /\ th' = [th EXCEPT ![h] = [Resting(IF h \in cancelled THEN "gone" ELSE "beat") EXCEPT !.then = "tick"]]
    /\ UNCHANGED <<client, broker, delivered, word, calls, faults>>

-----------------------------------------------------------------------------
(* Acknowledging.                                                          *)

(* coalesceAckBatches: the offsets of one partition in as few ranges as    *)
(* possible.  A range starts at an offset whose predecessor is not among   *)
(* them and ends before the next gap.                                      *)
CoalesceAckBatches(offs) ==
    {<<f, l>> \in offs \X offs : f <= l /\ f .. l \subseteq offs /\ f - 1 \notin offs /\ l + 1 \notin offs}

(* The records a leader finds in the acknowledgement's ranges.             *)
Named(acks, b) ==
    UNION {{<<p, o>> : o \in UNION {range[1] .. range[2] :
                                       range \in CoalesceAckBatches({r[2] : r \in {x \in acks : x[1] = p}})}} :
           p \in {q \in Partitions : LeaderBroker[q] = b}}

BeginAck(t, kind, recs, then) ==
    [th EXCEPT ![t].pc = "ack", ![t].kind = kind, ![t].acks = recs, ![t].then = then,
               ![t].todo = {LeaderOf(r) : r \in recs}]

(* Acknowledge, Release, Reject and Renew of records Poll returned.        *)
Acknowledge(a, kind, recs) ==
    /\ At(a, "idle") /\ calls[a] < MaxCalls /\ calls' = [calls EXCEPT ![a] = @ + 1]
    /\ kind \in Kinds /\ recs # {} /\ recs \subseteq delivered
    /\ th' = BeginAck(a, kind, recs, "idle")
    /\ UNCHANGED <<client, broker, delivered, word, faults>>

ClearPending(recs) == pendingAccept \ recs

(* The next leader's request, or the end of acknowledge.                   *)
AckNext(t) ==
    /\ At(t, "ack")
    /\ \/ \E b \in th[t].todo :
            /\ th' = [th EXCEPT ![t].pc = "acking", ![t].at = b, ![t].epoch = shareSession[b]]
            /\ UNCHANGED <<pendingAccept, word>>
       \/ /\ th[t].todo = {}
          /\ pendingAccept' = IF Implicit /\ th[t].kind # "renew" THEN ClearPending(th[t].acks) ELSE pendingAccept
          /\ word' = IF th[t].then # "idle" THEN word
                     ELSE [r \in Records |-> IF r \in th[t].acks THEN th[t].kind ELSE word[r]]
          /\ Back(t)
    /\ UNCHANGED <<memberEpoch, assignments, shareSession, hbCancel, cancelled, broker, delivered, calls, faults>>

(* A leader takes an acknowledgement in the session's next epoch; a        *)
(* partition whose records are not all acquired is refused as a whole.     *)
AckTaken(t, b) ==
    LET named == Named(th[t].acks, b)
        good == {p \in Partitions : \A r \in named : r[1] = p => state[r] = "acquired"}
        new == CASE th[t].kind = "release" -> "available" [] th[t].kind = "renew" -> "acquired"
               [] OTHER -> th[t].kind
    IN [r \in Records |-> IF r \in named /\ r[1] \in good THEN new ELSE state[r]]

(* DecodeShareAcknowledgeResponse: a partition's error fails the call.     *)
AckFailsAtTopOnly(t, b) == FALSE
AckFails(t, b) == \E r \in Named(th[t].acks, b) : state[r] # "acquired"

(* An error ends the call; Leave, which acknowledges what is pending as    *)
(* best it can, goes on.                                                   *)
AckError(t) == th' = [th EXCEPT ![t] = Resting(IF th[t].then = "leave" THEN "leave" ELSE "idle")]

AckSend(t) ==
    LET b == th[t].at
        inSession == session[b] # 0 /\ th[t].epoch = session[b]
    IN /\ At(t, "acking")
       /\ \/ /\ inSession /\ session' = [session EXCEPT ![b] = @ + 1] /\ state' = AckTaken(t, b)
             /\ \/ AckFails(t, b) /\ AckError(t) /\ UNCHANGED faults
                \/ ~AckFails(t, b) /\ Goto(t, "acked") /\ UNCHANGED faults
                \/ Fault("lostReply") /\ AckError(t)
          \/ ~inSession /\ AckError(t) /\ UNCHANGED <<session, state, faults>>
          \/ Fault("lostRequest") /\ AckError(t) /\ UNCHANGED <<session, state>>
       /\ UNCHANGED <<client, coord, delivered, word, calls>>

AckStore(t) ==
    /\ At(t, "acked")
    /\ shareSession' = [shareSession EXCEPT ![th[t].at] = th[t].epoch + 1]
    /\ th' = [th EXCEPT ![t].pc = "ack", ![t].todo = @ \ {th[t].at}]
    /\ UNCHANGED <<memberEpoch, assignments, pendingAccept, hbCancel, cancelled, broker, delivered, word, calls, faults>>

-----------------------------------------------------------------------------
(* Polling.                                                                *)

Poll(a) ==
    /\ At(a, "idle") /\ calls[a] < MaxCalls /\ calls' = [calls EXCEPT ![a] = @ + 1]
    /\ th' = [th EXCEPT ![a].pc = IF assignments = {} THEN "join" ELSE "accept",
                        ![a].then = "accept"]
    /\ UNCHANGED <<client, broker, delivered, word, faults>>

(* The records of the last Poll are accepted before the next are acquired; *)
(* they are forgotten first.                                               *)
AutoAccept(a) ==
    /\ At(a, "accept")
    /\ IF Implicit /\ pendingAccept # {}
       THEN /\ pendingAccept' = {}
            /\ th' = BeginAck(a, "accept", pendingAccept, "snapshot")
       ELSE Goto(a, "snapshot") /\ UNCHANGED pendingAccept
    /\ UNCHANGED <<memberEpoch, assignments, shareSession, hbCancel, cancelled, broker, delivered, word, calls, faults>>

Snapshot(a) ==
    /\ At(a, "snapshot")
    /\ LET leaders == {LeaderBroker[p] : p \in assignments}
       IN th' = [th EXCEPT ![a].pc = "fetch", ![a].all = leaders, ![a].todo = leaders]
    /\ UNCHANGED <<client, broker, delivered, word, calls, faults>>

TrackAll(a, recs) == pendingAccept' = IF Implicit THEN ToSet(th[a].out) ELSE pendingAccept
TrackDelivered(a, recs) == pendingAccept' = IF Implicit THEN ToSet(recs) ELSE pendingAccept

ReturnRecords(a, recs) ==
    /\ TrackDelivered(a, recs)
    /\ delivered' = delivered \cup ToSet(recs)
    /\ word' = [r \in Records |-> IF r \in ToSet(recs) THEN None ELSE word[r]]
    /\ GiveUp(a)

(* One fetch of a round begins, or the round ends: with records Poll       *)
(* returns, without it starts over until its context ends.                 *)
FetchNext(a) ==
    /\ At(a, "fetch")
    /\ \/ /\ Len(th[a].out) >= MaxPollRecords
          /\ ReturnRecords(a, SubSeq(th[a].out, 1, MaxPollRecords))
       \/ /\ Len(th[a].out) < MaxPollRecords
          /\ \E b \in th[a].todo :
               th' = [th EXCEPT ![a].pc = "fetching", ![a].at = b, ![a].epoch = shareSession[b], ![a].again = FALSE]
          /\ UNCHANGED <<pendingAccept, delivered, word>>
       \/ /\ Len(th[a].out) < MaxPollRecords /\ th[a].todo = {} /\ th[a].out # <<>>
          /\ ReturnRecords(a, th[a].out)
       \/ /\ th[a].todo = {} /\ th[a].out = <<>>
          /\ \/ th' = [th EXCEPT ![a].todo = th[a].all] /\ \A b \in th[a].all : session[b] < MaxEpoch
             \/ GiveUp(a)
          /\ UNCHANGED <<pendingAccept, delivered, word>>
    /\ UNCHANGED <<memberEpoch, assignments, shareSession, hbCancel, cancelled, broker, calls, faults>>

(* A leader acquires the available records of some batches of a partition, *)
(* whatever limit was asked for, or none yet.  It sends whole batches:     *)
(* markers and records that are not acquired, before, between and after    *)
(* the others, travel along, and DecodeShareFetchResponse keeps them all.  *)
Acquirable(p) == {r \in Data : r[1] = p /\ state[r] = "available"}
InOrder(recs) == SetToSortSeq(recs, LAMBDA x, y : x[2] < y[2])

(* fetchShare drops the markers.                                           *)
WithoutMarkers(recs) == SelectSeq(recs, LAMBDA r : r \notin Markers)

FetchSend(a) ==
    LET b == th[a].at
        e == th[a].epoch
        good == e = 0 \/ (session[b] # 0 /\ e = session[b])
    IN /\ At(a, "fetching")
       /\ \/ /\ good
             /\ session' = [session EXCEPT ![b] = e + 1]
             /\ \E p \in {q \in Partitions : LeaderBroker[q] = b}, first \in Offsets, last \in Offsets \cup {-1} :
                  LET got == {r \in Acquirable(p) : r[2] <= last}
                  IN /\ \A r \in got : first <= r[2]
                     /\ state' = [r \in Records |-> IF r \in got THEN "acquired" ELSE state[r]]
                     /\ \/ /\ th' = [th EXCEPT ![a].pc = "fetched",
                                               ![a].reply = IF got = {} THEN <<>> ELSE InOrder({p} \X (first .. last))]
                           /\ UNCHANGED faults
                        \/ (Fault("lostReply") \/ Fault("partitionError")) /\ GiveUp(a)
             /\ UNCHANGED shareSession
          \/ /\ ~good        \* SHARE_SESSION_NOT_FOUND, INVALID_SHARE_SESSION_EPOCH: once more in a new session
             /\ IF th[a].again
                THEN GiveUp(a) /\ UNCHANGED shareSession
                ELSE /\ shareSession' = [shareSession EXCEPT ![b] = 0]
                     /\ th' = [th EXCEPT ![a].pc = "refetch", ![a].again = TRUE]
             /\ UNCHANGED <<session, state, faults>>
          \/ /\ Fault("notLeader")       \* of the whole request; a partition's code is text by then, and fails Poll
             /\ IF th[a].again THEN GiveUp(a) ELSE th' = [th EXCEPT ![a].pc = "fetch", ![a].todo = @ \ {b}]
             /\ UNCHANGED <<session, state, shareSession>>
          \/ Fault("lostRequest") /\ GiveUp(a) /\ UNCHANGED <<session, state, shareSession>>
       /\ UNCHANGED <<memberEpoch, assignments, pendingAccept, hbCancel, cancelled, coord, delivered, word, calls>>

Refetch(a) ==
    /\ At(a, "refetch")
    /\ th' = [th EXCEPT ![a].pc = "fetching", ![a].epoch = shareSession[th[a].at]]
    /\ UNCHANGED <<client, broker, delivered, word, calls, faults>>

FetchStore(a) ==
    /\ At(a, "fetched")
    /\ shareSession' = [shareSession EXCEPT ![th[a].at] = th[a].epoch + 1]
    /\ th' = [th EXCEPT ![a].pc = "fetch", ![a].todo = @ \ {th[a].at}, ![a].reply = <<>>,
                        ![a].out = @ \o WithoutMarkers(th[a].reply)]
    /\ UNCHANGED <<memberEpoch, assignments, pendingAccept, hbCancel, cancelled, broker, delivered, word, calls, faults>>

-----------------------------------------------------------------------------
(* Leaving.                                                                *)

(* stopShareHeartbeat takes the registered heartbeat and cancels it ...    *)
Leave(a) ==
    /\ At(a, "idle") /\ calls[a] < MaxCalls /\ calls' = [calls EXCEPT ![a] = @ + 1]
    /\ hbCancel' = None /\ cancelled' = cancelled \cup ({hbCancel} \ {None})
    /\ th' = [th EXCEPT ![a].pc = "stop", ![a].at = hbCancel]
    /\ UNCHANGED <<memberEpoch, assignments, shareSession, pendingAccept, broker, delivered, word, faults>>

(* ... and waits for it; then what is pending is accepted.                 *)
Stopped(a) ==
    /\ At(a, "stop") /\ (th[a].at # None => At(th[a].at, "gone"))
    /\ IF Implicit /\ pendingAccept # {}
       THEN pendingAccept' = {} /\ th' = BeginAck(a, "accept", pendingAccept, "leave")
       ELSE th' = [th EXCEPT ![a] = Resting("leave")] /\ UNCHANGED pendingAccept
    /\ UNCHANGED <<memberEpoch, assignments, shareSession, hbCancel, cancelled, broker, delivered, word, calls, faults>>

LeaveSend(a) ==
    /\ At(a, "leave")
    /\ \/ coord' = [coord EXCEPT !.known = FALSE] /\ UNCHANGED faults
       \/ Fault("lostRequest") /\ UNCHANGED coord
    /\ GiveUp(a)
    /\ UNCHANGED <<client, session, state, delivered, word, calls>>

-----------------------------------------------------------------------------
(* The brokers' own steps: a member's session times out at the coordinator *)
(* or at a leader, the group moves on without the member, an acquisition   *)
(* lock ends, another member takes and returns or finishes a record.         *)
Expire == coord.known
          /\ \/ Fault("expire") /\ coord' = [coord EXCEPT !.known = FALSE]
             \/ Fault("advance") /\ coord.epoch < MaxEpoch /\ coord' = [coord EXCEPT !.epoch = @ + 1]
          /\ UNCHANGED <<client, th, session, state, delivered, word, calls>>
Evict(b) == Fault("evict") /\ session[b] # 0 /\ session' = [session EXCEPT ![b] = 0]
          /\ UNCHANGED <<client, th, coord, state, delivered, word, calls>>
Unlock(r) == state[r] = "acquired" /\ Fault("unlock") /\ state' = [state EXCEPT ![r] = "available"]
          /\ UNCHANGED <<client, th, coord, session, delivered, word, calls>>
OtherTakes(r) == state[r] = "available" /\ r \in Data /\ Fault("other") /\ state' = [state EXCEPT ![r] = "other"]
          /\ UNCHANGED <<client, th, coord, session, delivered, word, calls>>
OtherReturns(r) == state[r] = "other" /\ state' = [state EXCEPT ![r] = "available"]
          /\ UNCHANGED <<client, th, coord, session, delivered, word, calls, faults>>

Step(t) == \/ JoinRead(t) \/ JoinAnswered(t) \/ JoinRefused(t) \/ JoinStore(t) \/ JoinDisturbed(t)
           \/ ApplyAssignment(t) \/ EnsureHeartbeat(t) \/ BeatRead(t) \/ Beat(t) \/ RejoinShare(t)
AppStep(a) == \/ Step(a) \/ AckNext(a) \/ AckSend(a) \/ AckStore(a) \/ AutoAccept(a) \/ Snapshot(a)
              \/ FetchNext(a) \/ FetchSend(a) \/ Refetch(a) \/ FetchStore(a) \/ Stopped(a) \/ LeaveSend(a)

Next ==
    \/ \E a \in Apps : Poll(a) \/ Leave(a) \/ AppStep(a) \/ \E kind \in Kinds, recs \in SUBSET Data : Acknowledge(a, kind, recs)
    \/ \E h \in Hearts : Tick(h) \/ Step(h)
    \/ Expire
    \/ \E b \in Brokers : Evict(b)
    \/ \E r \in Records : Unlock(r) \/ OtherTakes(r) \/ OtherReturns(r)

Spec == Init /\ [][Next]_vars

-----------------------------------------------------------------------------
(* A record whose acknowledgement was reported to have worked is settled   *)
(* that way at its leader, through sessions that are lost, reset and       *)
(* overtaken (acknowledge, DecodeShareAcknowledgeResponse).                *)
WordIsKept == \A r \in Data :
    /\ word[r] \in {"accept", "reject"} => state[r] = word[r]
    /\ word[r] = "release" => state[r] \notin {"accept", "reject"}

(* No record is accepted that Poll never returned: not one cut off by the  *)
(* poll limit, dropped with a failed fetch or lying between two            *)
(* acknowledged offsets (trackDelivered, coalesceAckBatches).              *)
AcceptedWasDelivered == \A r \in Records : state[r] \in {"accept", "reject"} => r \in delivered

(* At most one heartbeat goroutine is neither cancelled nor gone, and      *)
(* Leave can reach it (ensureShareHeartbeat, stopShareHeartbeat).          *)
OneLiveBeat == \A h \in Hearts : ~At(h, "gone") /\ h \notin cancelled => hbCancel = h
=============================================================================
