---------------------------- MODULE NextGenMember ----------------------------
(***************************************************************************)
(* A consumer of the KIP-848 protocol (consumer848.go): its group epoch,   *)
(* which the code keeps in c.generation, and its assignment, kept up by    *)
(* heartbeats of the application's Poll and of the heartbeat goroutine,    *)
(* over an external coordinator that grants a partition to another member  *)
(* only when this one has reported it given up or has been fenced.         *)
(* Positions and commits are those of the classic member, in Consumer.     *)
(***************************************************************************)
EXTENDS Integers, FiniteSets

CONSTANTS App, Hearts, Partitions,
    JoinAttempts,            \* 30 in the code
    Faults, MaxFaults, MaxCalls,
    MaxEpoch,                \* bounds the group epoch
    None

VARIABLES
    generation, assignments, hbCancel, cancelled,    \* Consumer
    th,              \* [goroutine -> its program counter and locals]
    coord,           \* coordinator: member known, its epoch, what it is to have
    others,          \* partitions granted to other members
    calls, faults

client == <<generation, assignments, hbCancel, cancelled>>
vars == <<client, th, coord, others, calls, faults>>

Threads == {App} \cup Hearts
Resting(pc) == [pc |-> pc, then |-> "idle", top |-> FALSE, tries |-> 0, epoch |-> 0, owned |-> {}, share |-> {}]

(* The variables have their types; what other members hold and what this   *)
(* member is to have are disjoint at the coordinator.                      *)
TypeOK ==
    /\ generation \in Nat /\ assignments \subseteq Partitions
    /\ hbCancel \in Hearts \cup {None} /\ cancelled \subseteq Hearts
    /\ th \in [Threads -> [pc: {"idle", "join", "joinowned", "joining", "keep", "take", "apply", "ensure",
                                "beat", "owned", "beating", "rejoin", "tick", "gone", "leave"},
                           then: {"idle", "tick"}, top: BOOLEAN, tries: 0 .. JoinAttempts, epoch: Nat,
                           owned: SUBSET Partitions, share: SUBSET Partitions]]
    /\ coord \in [known: BOOLEAN, epoch: Nat, target: SUBSET Partitions]
    /\ others \subseteq Partitions \ (IF coord.known THEN coord.target ELSE {})
    /\ calls \in 0 .. MaxCalls /\ faults \in 0 .. MaxFaults

Init ==
    /\ generation = 0 /\ assignments = {} /\ hbCancel = None /\ cancelled = {}
    /\ th = [t \in Threads |-> Resting(IF t = App THEN "idle" ELSE "gone")]
    /\ coord = [known |-> FALSE, epoch |-> 0, target |-> Partitions]
    /\ others = {} /\ calls = 0 /\ faults = 0

Fault(f) == f \in Faults /\ faults < MaxFaults /\ faults' = faults + 1
At(t, pc) == th[t].pc = pc
Goto(t, pc) == th' = [th EXCEPT ![t].pc = pc]

(* rejoin848: the assignment and the epoch are dropped.                    *)
RejoinedKeeping(owned) == owned
Rejoined(owned) == {}

(* A call that fails ends Poll.  In heartbeatLoop any error of a heartbeat *)
(* leads to rejoin848, also when it was a rejoin that failed; an error of  *)
(* that last rejoin (top) is dropped until the next tick.                  *)
GiveUpQuietly(t) == th' = [th EXCEPT ![t] = Resting(IF t = App THEN "idle" ELSE "tick")]
GiveUp(t) ==
    th' = [th EXCEPT ![t] = IF t = App THEN Resting("idle")
                            ELSE IF th[t].top THEN Resting("tick")
                            ELSE [Resting("rejoin") EXCEPT !.then = "tick", !.top = TRUE]]

Rejoin848(t) ==
    /\ At(t, "rejoin")
    /\ assignments' = Rejoined(assignments) /\ generation' = 0
    /\ th' = [th EXCEPT ![t].pc = "join", ![t].tries = 0]
    /\ UNCHANGED <<hbCancel, cancelled, coord, others, calls, faults>>

-----------------------------------------------------------------------------
(* The coordinator: what it answers to an epoch, and how it hands over.    *)
HeartbeatCode(e) ==
    IF e = 0 THEN "ok"
    ELSE IF ~coord.known THEN "UNKNOWN_MEMBER_ID"
    ELSE IF e # coord.epoch THEN "FENCED_MEMBER_EPOCH" ELSE "ok"

Taken(e) == [coord EXCEPT !.known = TRUE, !.epoch = IF e = 0 THEN @ + 1 ELSE @, !.target = @ \ others']

(* Other members get what this one does not report and is not to have.     *)
Granted(owned) == {o \in SUBSET Partitions : others \subseteq o /\ o \subseteq others \cup (Partitions \ (coord.target \cup owned))}

OtherJoins(p) == Fault("other") /\ p \in coord.target
    /\ coord' = [coord EXCEPT !.target = @ \ {p}]
    /\ others' = others \cup (IF coord.known THEN {} ELSE {p})
    /\ UNCHANGED <<client, th, calls>>

(* The group moves on and this member is behind; or its session or the     *)
(* rebalance times out: the other members take over.                       *)
Advance == Fault("advance") /\ coord.known /\ coord.epoch < MaxEpoch /\ coord' = [coord EXCEPT !.epoch = @ + 1]
    /\ UNCHANGED <<client, th, others, calls>>

Fence == Fault("fence") /\ coord.known /\ coord' = [coord EXCEPT !.known = FALSE]
    /\ others' \in {o \in SUBSET Partitions : others \subseteq o /\ o \subseteq Partitions}
    /\ UNCHANGED <<client, th, calls>>

-----------------------------------------------------------------------------
(* joinAndAssign848.                                                       *)
ShouldRejoin848(code) == code \in {"UNKNOWN_MEMBER_ID", "FENCED_MEMBER_EPOCH", "STALE_MEMBER_EPOCH"}

JoinRead(t) ==
    /\ At(t, "join")
    /\ \/ th[t].tries = JoinAttempts /\ GiveUp(t)
       \/ /\ th[t].tries < JoinAttempts
          /\ th' = [th EXCEPT ![t].pc = IF generation = 0 THEN "joining" ELSE "joinowned",
                              ![t].epoch = generation, ![t].owned = {}]
    /\ UNCHANGED <<client, coord, others, calls, faults>>

(* The coordinator's answer, which may come without an assignment, ...     *)
JoinAnswered(t) ==
    /\ At(t, "joining") /\ HeartbeatCode(th[t].epoch) = "ok" /\ coord.epoch < MaxEpoch
    /\ others' \in Granted(th[t].owned) /\ coord' = Taken(th[t].epoch)
    /\ \/ /\ IF coord'.target = {} THEN UNCHANGED faults ELSE Fault("slow")
          /\ th' = [th EXCEPT ![t].pc = "keep", ![t].epoch = coord'.epoch]
       \/ /\ coord'.target # {} /\ UNCHANGED faults
          /\ th' = [th EXCEPT ![t].pc = "take", ![t].epoch = coord'.epoch, ![t].share = coord'.target]
    /\ UNCHANGED <<client, calls>>

JoinRefused(t) ==
    /\ At(t, "joining") /\ ShouldRejoin848(HeartbeatCode(th[t].epoch))
    /\ th' = [th EXCEPT ![t].pc = "keep", ![t].epoch = 0]
    /\ UNCHANGED <<client, coord, others, calls, faults>>

(* ... and the epoch it leaves, stored whatever was stored meanwhile.      *)
JoinStore(t) ==
    /\ th[t].pc \in {"keep", "take"}
    /\ generation' = th[t].epoch
    /\ th' = [th EXCEPT ![t].pc = IF @ = "take" THEN "apply" ELSE "join",
                        ![t].tries = IF th[t].pc = "take" THEN @ ELSE @ + 1]
    /\ UNCHANGED <<assignments, hbCancel, cancelled, coord, others, calls, faults>>

JoinDisturbed(t) ==
    /\ At(t, "joining") /\ UNCHANGED <<client, others, calls>>
    /\ \/ Fault("redirect") /\ th' = [th EXCEPT ![t].pc = "join", ![t].tries = @ + 1] /\ UNCHANGED coord
       \/ Fault("lostRequest") /\ GiveUp(t) /\ UNCHANGED coord
       \/ Fault("lostReply") /\ GiveUp(t) /\ HeartbeatCode(th[t].epoch) = "ok" /\ coord.epoch < MaxEpoch
          /\ coord' = Taken(th[t].epoch)

(* applyAssignment and loadCommittedOffsets; a topic id unknown to the     *)
(* metadata, or offsets that cannot be loaded, fail the join.              *)
Apply(t) ==
    /\ At(t, "apply")
    /\ \/ /\ assignments' = th[t].share /\ UNCHANGED faults
          /\ th' = [th EXCEPT ![t] = [Resting("ensure") EXCEPT !.then = th[t].then, !.top = th[t].top]]
       \/ Fault("unknownTopic") /\ GiveUp(t) /\ UNCHANGED assignments
       \/ Fault("noOffsets") /\ GiveUp(t) /\ assignments' = th[t].share
    /\ UNCHANGED <<generation, hbCancel, cancelled, coord, others, calls>>

EnsureHeartbeat(t) ==
    /\ At(t, "ensure")
    /\ IF hbCancel = None
       THEN \E h \in Hearts :
              /\ At(h, "gone") /\ h \notin cancelled /\ hbCancel' = h
              /\ th' = [th EXCEPT ![h].pc = "tick", ![t].pc = "beat"]
       ELSE Goto(t, "beat") /\ UNCHANGED hbCancel
    /\ UNCHANGED <<generation, assignments, cancelled, coord, others, calls, faults>>

(* heartbeat848 reads the epoch under one lock, ...                        *)
BeatRead(t) ==
    /\ At(t, "beat")
    /\ th' = [th EXCEPT ![t].pc = "owned", ![t].epoch = generation]
    /\ UNCHANGED <<client, coord, others, calls, faults>>

(* ... the partitions it owns under another, as a join with an epoch does, *)
OwnedTopicPartitions848(t) ==
    /\ th[t].pc \in {"owned", "joinowned"}
    /\ th' = [th EXCEPT ![t].pc = IF @ = "owned" THEN "beating" ELSE "joining", ![t].owned = assignments]
    /\ UNCHANGED <<client, coord, others, calls, faults>>

(* and drops the assignment of the answer.  An epoch of 0 comes with no    *)
(* subscription and is refused.                                            *)
BeatCode(e) == IF e = 0 THEN "INVALID_REQUEST" ELSE HeartbeatCode(e)

Beat(t) ==
    LET code == BeatCode(th[t].epoch)
    IN /\ At(t, "beating")
       /\ \/ /\ code = "ok"
             /\ others' \in Granted(th[t].owned) /\ coord' = Taken(th[t].epoch)
             /\ th' = [th EXCEPT ![t] = Resting(th[t].then)] /\ UNCHANGED faults
          \/ ShouldRejoin848(code) /\ Goto(t, "rejoin") /\ UNCHANGED <<coord, others, faults>>
          \/ code # "ok" /\ ~ShouldRejoin848(code) /\ GiveUp(t) /\ UNCHANGED <<coord, others, faults>>
          \/ Fault("lostRequest") /\ GiveUp(t) /\ UNCHANGED <<coord, others>>
       /\ UNCHANGED <<client, calls>>

(* heartbeatLoop: the select may pick a tick although the context is       *)
(* cancelled, and a request does not look at the context.                  *)
Tick(h) ==
    /\ At(h, "tick")
    /\ th' = [th EXCEPT ![h] = [Resting("beat") EXCEPT !.then = "tick"]]
    /\ UNCHANGED <<client, coord, others, calls, faults>>

BeatEnds(h) ==
    /\ At(h, "tick") /\ h \in cancelled /\ Goto(h, "gone")
    /\ UNCHANGED <<client, coord, others, calls, faults>>

Poll ==
    /\ At(App, "idle") /\ calls < MaxCalls /\ calls' = calls + 1
    /\ assignments = {} /\ Goto(App, "join")
    /\ UNCHANGED <<client, coord, others, faults>>

(* Leave: stopHeartbeat, which does not wait, then leave848 (epoch -1).    *)
Leave ==
    /\ At(App, "idle") /\ calls < MaxCalls /\ calls' = calls + 1
    /\ hbCancel' = None /\ cancelled' = cancelled \cup ({hbCancel} \ {None})
    /\ Goto(App, "leave")
    /\ UNCHANGED <<generation, assignments, coord, others, faults>>

Leave848 ==
    /\ At(App, "leave") /\ Goto(App, "idle")
    /\ \/ coord' = [coord EXCEPT !.known = FALSE] /\ UNCHANGED faults
       \/ Fault("lostRequest") /\ UNCHANGED coord
    /\ UNCHANGED <<client, others, calls>>

Step(t) == \/ JoinRead(t) \/ JoinAnswered(t) \/ JoinRefused(t) \/ JoinStore(t) \/ JoinDisturbed(t)
           \/ Apply(t) \/ EnsureHeartbeat(t)
           \/ BeatRead(t) \/ OwnedTopicPartitions848(t) \/ Beat(t) \/ Rejoin848(t)

Next ==
    \/ Poll \/ Leave \/ Leave848 \/ Advance \/ Fence
    \/ \E t \in Threads : Step(t)
    \/ \E h \in Hearts : Tick(h) \/ BeatEnds(h)
    \/ \E p \in Partitions : OtherJoins(p)

Spec == Init /\ [][Next]_vars

-----------------------------------------------------------------------------
(* A member whose epoch is the group's holds no partition that was granted *)
(* to another member: a fenced member drops its assignment before it takes *)
(* a new epoch (rejoin848), whatever its heartbeats reported in between.   *)
OwnedIsGranted == coord.known /\ generation = coord.epoch => assignments \cap others = {}

(* At most one heartbeat goroutine is neither cancelled nor gone, and it   *)
(* is the registered one (ensureHeartbeat, stopHeartbeat).                 *)
OneLiveBeat == \A h \in Hearts : ~At(h, "gone") /\ h \notin cancelled => hbCancel = h

(* The member is known to the group under the epoch it sends, unless the   *)
(* application left.                                                       *)
InGroup == hbCancel = None \/ (coord.known /\ generation = coord.epoch)
=============================================================================
