------------------------------ MODULE MCMembers ------------------------------
(***************************************************************************)
(* One member of a group in several situations; a behaviour stays in the   *)
(* one it starts in.                                                       *)
(*                                                                         *)
(* A classic member: two partitions with a control marker and a poll limit *)
(* (the constants of the .cfg); commits of every kind by a member whose    *)
(* session may expire, on a log that does not start at 0; the cooperative  *)
(* assignor with empty and growing shares; a coordinator that moves; and   *)
(* Rebalance and Leave racing the heartbeat goroutines.                    *)
(*                                                                         *)
(* A member of a share group: one that acknowledges two partitions of one  *)
(* leader explicitly while requests, answers, sessions and locks are lost; *)
(* one that acknowledges implicitly, meets markers, leaves and is expired; *)
(* one that does so over two leaders; two goroutines that join at once;    *)
(* two that use one member.                                                *)
(*                                                                         *)
(* A KIP-848 member that has joined and is kept in the group by its        *)
(* heartbeats alone, and one whose application polls and leaves while they *)
(* run.                                                                    *)
(*                                                                         *)
(* The members of the newer groups keep what they can in variables of      *)
(* Consumer.  A situation with fewer partitions or goroutines uses only    *)
(* some of the interchangeable ones, and its states name no other.         *)
(***************************************************************************)
EXTENDS Consumer, TLC

CONSTANTS a2, p1, p2, h1, h2, h3, b1, b2, g1, g2

VARIABLES situation, shareSession, pendingAccept, session, state, word

shareVars == <<shareSession, pendingAccept, session, state, word>>

Committing == INSTANCE Consumer
  WITH Partitions <- {p1}, LogStart <- 1, LogEnd <- 2, Markers <- {}, ResetTo <- 1, MaxPoll <- 2,
       Ops <- {"poll", "commit", "commitrecords", "pause"}, Shares <- {{p1}},
       Moves <- {"other", "expire"}, MaxIds <- 2, MaxFaults <- 1

Incremental == INSTANCE Consumer
  WITH LogEnd <- 1, Markers <- {}, Cooperative <- TRUE,
       Ops <- {"poll", "rebalance"}, Shares <- {{p1}, {p2}, {}}, MaxGen <- 3

Moving == INSTANCE Consumer
  WITH Partitions <- {p1}, Brokers <- {b1, b2}, LogEnd <- 1, Markers <- {},
       Shares <- {{p1}}, Moves <- {"coordinator"}, JoinAttempts <- 1, FetchAttempts <- 1

Beating == INSTANCE Consumer
  WITH Partitions <- {p1}, Beats <- {h1, h2, h3}, LogEnd <- 1, Markers <- {},
       Ops <- {"rebalance", "leave", "seek"}, Shares <- {{p1}}, MaxGen <- 3, MaxIds <- 2, MaxCalls <- 2

ClassicInit ==
  \/ situation = "markers" /\ Init
  \/ situation = "committing" /\ Committing!Init
  \/ situation = "incremental" /\ Incremental!Init
  \/ situation = "moving" /\ Moving!Init /\ home = b1
  \/ situation = "beating" /\ Beating!Init

ClassicNext ==
  \/ situation = "markers" /\ Next
  \/ situation = "committing" /\ Committing!Next
  \/ situation = "incremental" /\ Incremental!Next
  \/ situation = "moving" /\ Moving!Next
  \/ situation = "beating" /\ Beating!Next

-----------------------------------------------------------------------------
Explicit == INSTANCE ShareConsumer
  WITH Apps <- {App}, Hearts <- {h1}, LeaderBroker <- p1 :> b1 @@ p2 :> b1, Offsets <- {0, 1}, Markers <- {},
       Implicit <- FALSE, MaxPollRecords <- 2, Kinds <- {"accept", "release"},
       Faults <- {"lostRequest", "lostReply", "evict", "unlock", "other", "notLeader", "partitionError"},
       MaxFaults <- 1, MaxCalls <- 3, MaxEpoch <- 3, memberEpoch <- generation, th <- pc

Accepting == INSTANCE ShareConsumer
  WITH Apps <- {App}, Hearts <- {h1, h2}, Partitions <- {p1}, LeaderBroker <- p1 :> b1,
       Offsets <- {0, 1, 2}, Markers <- {<<p1, 1>>},
       Implicit <- TRUE, MaxPollRecords <- 1, Kinds <- {"release"},
       Faults <- {"lostRequest", "lostReply", "expire"},
       MaxFaults <- 1, MaxCalls <- 3, MaxEpoch <- 3, memberEpoch <- generation, th <- pc

Spread == INSTANCE ShareConsumer
  WITH Apps <- {App}, Hearts <- {h1}, Brokers <- {g1, g2}, LeaderBroker <- p1 :> g1 @@ p2 :> g2,
       Offsets <- {0}, Markers <- {}, Implicit <- TRUE, MaxPollRecords <- 2, Kinds <- {"release", "renew"},
       Faults <- {"lostRequest", "lostReply", "notLeader", "partitionError"},
       MaxFaults <- 1, MaxCalls <- 3, MaxEpoch <- 3, memberEpoch <- generation, th <- pc

Joining == INSTANCE ShareConsumer
  WITH Apps <- {App, a2}, Hearts <- {h1, h2}, Partitions <- {p1}, LeaderBroker <- p1 :> b1, Offsets <- {0}, Markers <- {},
       Implicit <- FALSE, MaxPollRecords <- 1, JoinAttempts <- 1, Kinds <- {},
       Faults <- {"advance", "slow", "redirect", "noLeader"},
       MaxFaults <- 1, MaxCalls <- 1, MaxEpoch <- 2, memberEpoch <- generation, th <- pc

SharedMember == INSTANCE ShareConsumer
  WITH Apps <- {App, a2}, Hearts <- {h1}, Partitions <- {p1}, LeaderBroker <- p1 :> b1, Offsets <- {0}, Markers <- {},
       Implicit <- FALSE, MaxPollRecords <- 1, Kinds <- {"accept"},
       Faults <- {}, MaxFaults <- 0, MaxCalls <- 2, MaxEpoch <- 3, memberEpoch <- generation, th <- pc

Kept == INSTANCE NextGenMember
  WITH Hearts <- {h1}, MaxCalls <- 0, MaxFaults <- 3, MaxEpoch <- 4, th <- pc, others <- share,
       Faults <- {"other", "fence", "advance", "slow", "redirect", "lostRequest", "lostReply", "unknownTopic", "noOffsets"}

Busy == INSTANCE NextGenMember
  WITH Hearts <- {h1, h2}, Partitions <- {p1}, MaxCalls <- 2, MaxFaults <- 1, MaxEpoch <- 4, th <- pc, others <- share,
       Faults <- {"fence", "lostRequest", "lostReply", "noOffsets"}

(* Members that have joined, between two of their heartbeats.              *)
SharedInit ==
  /\ generation = 1 /\ assignments = {p1} /\ shareSession = b1 :> 0 /\ pendingAccept = {} /\ hbCancel = h1 /\ cancelled = {}
  /\ pc = (App :> SharedMember!Resting("idle") @@ a2 :> SharedMember!Resting("idle") @@ h1 :> SharedMember!Resting("tick"))
  /\ coord = [known |-> TRUE, epoch |-> 1] /\ session = b1 :> 0 /\ state = [r \in SharedMember!Records |-> "available"]
  /\ delivered = {} /\ word = [r \in SharedMember!Records |-> None]
  /\ calls = [a \in {App, a2} |-> 0] /\ faults = 0

KeptInit ==
  /\ generation = 1 /\ assignments = {p1, p2} /\ hbCancel = h1 /\ cancelled = {}
  /\ pc = (App :> Kept!Resting("idle") @@ h1 :> Kept!Resting("tick"))
  /\ coord = [known |-> TRUE, epoch |-> 1, target |-> {p1, p2}]
  /\ share = {} /\ calls = 0 /\ faults = 0

idleVars == <<memberID, paused, mu, join, appVars, told, home, gen, known, pending, lastID, stable, other, committed, moves>>
NoClassic ==
  /\ memberID = 0 /\ paused = {} /\ mu = Free /\ join = <<>> /\ told = {}
  /\ after = "idle" /\ commit = NoCommit /\ fetch = NoFetch /\ batch = {}
  /\ home = b1 /\ gen = 0 /\ known = 0 /\ pending = {} /\ lastID = 0 /\ stable = TRUE /\ other = FALSE
  /\ committed = <<>> /\ moves = 0
NoShare == shareSession = <<>> /\ pendingAccept = {} /\ session = <<>> /\ state = <<>> /\ word = <<>>

ShareInit ==
  \/ situation = "explicit" /\ Explicit!Init
  \/ situation = "accepting" /\ Accepting!Init
  \/ situation = "spread" /\ Spread!Init
  \/ situation = "joining" /\ Joining!Init
  \/ situation = "shared" /\ SharedInit

ShareNext ==
  \/ situation = "explicit" /\ Explicit!Next
  \/ situation = "accepting" /\ Accepting!Next
  \/ situation = "spread" /\ Spread!Next
  \/ situation = "joining" /\ Joining!Next
  \/ situation = "shared" /\ SharedMember!Next

NextGenNext ==
  \/ situation = "kept" /\ Kept!Next
  \/ situation = "busy" /\ Busy!Next

-----------------------------------------------------------------------------
MembersInit ==
  \/ ClassicInit /\ NoShare
  \/ ShareInit /\ NoClassic /\ share = {}
  \/ situation = "kept" /\ KeptInit /\ NoClassic /\ NoShare /\ delivered = {}
  \/ situation = "busy" /\ Busy!Init /\ NoClassic /\ NoShare /\ delivered = {}

MembersNext ==
  /\ UNCHANGED situation
  /\ \/ ClassicNext /\ UNCHANGED shareVars
     \/ ShareNext /\ UNCHANGED <<idleVars, share>>
     \/ NextGenNext /\ UNCHANGED <<idleVars, shareVars, delivered>>

MembersSpec == MembersInit /\ [][MembersNext]_<<situation, vars, shareVars>>

(* "it cannot commit past records Poll never handed back": whatever Commit *)
(* stored, with or without records, retried, raced by a rejoin or from a   *)
(* member that had lost the partition, every data record before it was     *)
(* returned by a Poll (commitOffsets).                                     *)
CommitsWereDelivered ==
  /\ situation = "markers" => CommittedWasDelivered
  /\ situation = "committing" => Committing!CommittedWasDelivered
  /\ situation = "incremental" => Incremental!CommittedWasDelivered
  /\ situation = "moving" => Moving!CommittedWasDelivered

(* A position never runs ahead of what Poll returned: the poll limit, a    *)
(* marker behind it, a fetch overtaken by a rejoin, a partition kept by    *)
(* the cooperative assignor and a stale coordinator included               *)
(* (advanceDelivered, loadCommittedOffsets).                               *)
PositionsWereDelivered ==
  /\ situation = "markers" => PositionsCovered
  /\ situation = "committing" => Committing!PositionsCovered
  /\ situation = "incremental" => Incremental!PositionsCovered
  /\ situation = "moving" => Moving!PositionsCovered

(* Whatever kind of group a member is in, ensureHeartbeat and              *)
(* stopHeartbeat never leave a goroutine running that nobody can cancel    *)
(* any more, nor two at a time: not when the application and a heartbeat   *)
(* goroutine join at once, nor when a rejoin overlaps with Leave           *)
(* (ensureShareHeartbeat, stopShareHeartbeat for share groups).            *)
OneLiveBeat ==
  /\ situation = "beating" => Beating!LiveBeatIsRegistered
  /\ situation = "accepting" => Accepting!OneLiveBeat
  /\ situation = "joining" => Joining!OneLiveBeat
  /\ situation = "busy" => Busy!OneLiveBeat

(* WordIsKept for one goroutine and for two that use one share session:    *)
(* what was reported acknowledged is settled that way at its leader        *)
(* (acknowledge, DecodeShareAcknowledgeResponse).                          *)
WordsAreKept ==
  /\ situation = "explicit" => Explicit!WordIsKept
  /\ situation = "accepting" => Accepting!WordIsKept
  /\ situation = "spread" => Spread!WordIsKept
  /\ situation = "shared" => SharedMember!WordIsKept

(* AcceptedWasDelivered with explicit acknowledgement, which merges the    *)
(* offsets into ranges, and with implicit acknowledgement, which accepts   *)
(* what the last Poll is remembered to have returned, also when the fetch  *)
(* from one of two leaders failed (coalesceAckBatches, trackDelivered).    *)
AcceptedWereDelivered ==
  /\ situation = "explicit" => Explicit!AcceptedWasDelivered
  /\ situation = "accepting" => Accepting!AcceptedWasDelivered
  /\ situation = "spread" => Spread!AcceptedWasDelivered
  /\ situation = "shared" => SharedMember!AcceptedWasDelivered

(* OwnedIsGranted for a member whose heartbeats alone keep it in the group:*)
(* fenced and back again, it does not hold on to a partition that went to  *)
(* another member meanwhile (rejoin848).                                   *)
KeptOwnsWhatItWasGranted == situation = "kept" => Kept!OwnedIsGranted

(* Partitions are interchangeable, together with their leaders, and so are *)
(* the goroutines of an application that has two.                          *)
Interchangeable ==
  {ps @@ as : ps \in {p1 :> p1 @@ p2 :> p2 @@ g1 :> g1 @@ g2 :> g2, p1 :> p2 @@ p2 :> p1 @@ g1 :> g2 @@ g2 :> g1},
              as \in Permutations({App, a2})}
=============================================================================
