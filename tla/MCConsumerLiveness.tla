-------------------------- MODULE MCConsumerLiveness --------------------------
(***************************************************************************)
(* What must happen in the end, in three situations: Poll and Commit while *)
(* FindCoordinator keeps naming a broker that is not the coordinator (the  *)
(* constants of the .cfg); Polls while requests and answers are lost and   *)
(* another member comes and goes; and a KIP-848 member that is fenced,     *)
(* which keeps its state in variables of Consumer while the others rest.   *)
(* A behaviour stays in the situation it starts in.                        *)
(***************************************************************************)
EXTENDS Consumer

CONSTANTS b1, h1

VARIABLE situation

CatchingUp == INSTANCE Consumer
  WITH Brokers <- {b1}, LogEnd <- 2, Ops <- {"poll"}, Moves <- {"other"},
       Faults <- {"request", "lost", "stale", "unstable"},
       MaxGen <- 5, MaxFaults <- 1, MaxCalls <- 0, MaxMoves <- 1

Fenced == INSTANCE NextGenMember
  WITH Hearts <- Beats, th <- pc, others <- share, MaxCalls <- 1, MaxFaults <- 3, MaxEpoch <- 9,
       Faults <- {"fence", "advance", "slow", "lostRequest", "lostReply", "noOffsets"}

restFenced == <<memberID, paused, mu, join, appVars, seen, home, gen, known, pending, lastID, stable, other, committed, moves>>

In(where, step) == situation = where /\ step /\ UNCHANGED situation
InFenced(step) == In("fenced", step) /\ UNCHANGED restFenced

RestInit ==
  /\ memberID = 0 /\ paused = {} /\ mu = Free /\ join = <<>> /\ after = "idle" /\ told = {}
  /\ home = b1 /\ known = 0 /\ pending = {} /\ lastID = 0 /\ stable = TRUE /\ other = FALSE /\ moves = 0

\* A member that has joined, between two of its heartbeats.
FencedInit ==
  /\ generation = 1 /\ assignments = Partitions /\ hbCancel = h1 /\ cancelled = {}
  /\ pc = [t \in Threads |-> Fenced!Resting(IF t = App THEN "idle" ELSE "tick")]
  /\ coord = [known |-> TRUE, epoch |-> 1, target |-> Partitions]
  /\ share = {} /\ calls = 1 /\ faults = 0

LiveInit ==
  \/ situation = "misled" /\ Init
  \/ situation = "catching up" /\ CatchingUp!Init
  \/ /\ situation = "fenced" /\ FencedInit /\ RestInit
     /\ commit = NoCommit /\ fetch = NoFetch /\ batch = {} /\ delivered = {} /\ gen = 0 /\ committed = <<>>

LiveNext == In("misled", Next) \/ In("catching up", CatchingUp!Next) \/ InFenced(Fenced!Next)

liveVars == <<situation, vars>>

\* The fairness of Consumer in the first two situations; in the third the
\* heartbeat goroutine goes on.
LiveSpec ==
  /\ LiveInit /\ [][LiveNext]_liveVars
  /\ WF_liveVars(In("misled", AppStep))
  /\ WF_liveVars(In("misled", Poll))
  /\ WF_liveVars(In("catching up", CatchingUp!AppStep))
  /\ WF_liveVars(In("catching up", CatchingUp!Poll))
  /\ \A t \in Threads :
       /\ WF_liveVars(In("misled", JoinStep(t)))
       /\ WF_liveVars(In("catching up", CatchingUp!JoinStep(t)))
       /\ WF_liveVars(InFenced(Fenced!Step(t)))
  /\ \A h \in Beats :
       /\ WF_liveVars(In("misled", BeatStep(h)))
       /\ SF_liveVars(In("misled", BeatEnds(h)))
       /\ WF_liveVars(In("catching up", CatchingUp!BeatStep(h)))
       /\ SF_liveVars(In("catching up", CatchingUp!BeatEnds(h)))
       /\ WF_liveVars(InFenced(Fenced!Tick(h)))

(* While the application polls, every record reaches an application: a     *)
(* rejoin by the heartbeat, a lost answer or a moving group never leaves a *)
(* partition unread (Poll, joinAndAssign, loadCommittedOffsets).           *)
EverythingIsDelivered ==
  <>(situation = "catching up" => CatchingUp!Delivered)

(* The heartbeat goroutine brings a fenced KIP-848 member back, lost       *)
(* requests and joins that fail half-way included (heartbeatLoop,          *)
(* rejoin848).                                                             *)
FencedMemberRejoins == []<>(situation = "fenced" => Fenced!InGroup)

(* A Poll or Commit returns, whatever the heartbeat does meanwhile and     *)
(* however often the coordinator asks for a retry (joinAndAssign,          *)
(* commitOffsets).                                                         *)
CallsReturn == []<>(situation # "fenced" => pc[App] = "idle")
===============================================================================
