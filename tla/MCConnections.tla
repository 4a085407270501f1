---------------------------- MODULE MCConnections ----------------------------
(***************************************************************************)
(* The client's connections, in four situations: callers that share the    *)
(* pooled connection of one broker (the constants of the .cfg), and on the *)
(* seed connection two goroutines that refresh the metadata, a refresh     *)
(* beside a seed request without a second try, and a refresh beside one    *)
(* with.  A behaviour stays in the situation it starts in; the variables   *)
(* of the other component keep their initial values.                       *)
(*                                                                         *)
(* Callers of one kind are numbers, given in the order of their first      *)
(* calls: nothing in the code tells one from another.                      *)
(***************************************************************************)
EXTENDS Connection

CONSTANTS s1, s2, MaxDeaths

VARIABLES situation, seedConn, seedConns, seedDialled, alive, deaths, seedCaller

Refreshing == INSTANCE SeedConnection
    WITH Refreshers <- {1, 2}, Askers <- {}, Retriers <- {}, Seeds <- <<s1, s2>>,
         MaxCalls <- 2, MaxConns <- 8,
         conn <- seedConns, dialled <- seedDialled, caller <- seedCaller

Asking == INSTANCE SeedConnection
    WITH Refreshers <- {1}, Askers <- {2}, Retriers <- {}, Seeds <- <<s1, s2>>,
         MaxCalls <- 2, MaxConns <- 8,
         conn <- seedConns, dialled <- seedDialled, caller <- seedCaller

Retrying == INSTANCE SeedConnection
    WITH Refreshers <- {1}, Askers <- {}, Retriers <- {2}, Seeds <- <<s1, s2>>,
         MaxCalls <- 2, MaxConns <- 8,
         conn <- seedConns, dialled <- seedDialled, caller <- seedCaller

ASSUME Refreshing!SeedAssumption /\ Asking!SeedAssumption /\ Retrying!SeedAssumption

seedVars == <<seedConn, seedConns, seedDialled, alive, deaths, seedCaller>>

SeedCallers == {1, 2}

InOrder(begun, all) == \A c, d \in all : c < d /\ d \in begun => c \in begun

Pooling(next) ==
    /\ situation = "pool" /\ next
    /\ InOrder({c \in Callers : caller'[c].n > 0}, Callers)
    /\ UNCHANGED <<situation, seedVars>>

Seeding(where, next) == situation = where /\ next /\ UNCHANGED <<situation, vars>>

ClientInit ==
    /\ Init /\ Refreshing!Init
    /\ situation \in {"pool", "refreshing", "asking", "retrying"}

ClientNext ==
    \/ Pooling(Next)
    \/ /\ Seeding("refreshing", Refreshing!Next)
       /\ InOrder({c \in SeedCallers : seedCaller'[c].calls > 0}, SeedCallers)
    \/ Seeding("asking", Asking!Next)
    \/ Seeding("retrying", Retrying!Next)

clientVars == <<situation, vars, seedVars>>

\* The fairness of Connection and of SeedConnection.
ClientSpec ==
    /\ ClientInit /\ [][ClientNext]_clientVars
    /\ \A c \in Callers : WF_clientVars(Pooling(Call(c)))
    /\ \A k \in Conns : WF_clientVars(Pooling(Execute(k)))
    /\ \A c \in SeedCallers :
          /\ WF_clientVars(Seeding("refreshing", Refreshing!Step(c)))
          /\ WF_clientVars(Seeding("asking", Asking!Step(c)))
          /\ WF_clientVars(Seeding("retrying", Retrying!Step(c)))

(* With refreshes alone, when one of two seed brokers goes down once, a    *)
(* refresh that returns has been answered, however the drops and dials of  *)
(* the other refresh fall between its own (refresh, seed, dropSeed).  That *)
(* it returns at all is not said here: see RefreshSurvives.                *)
RefreshIsAnswered == situation = "refreshing" => Refreshing!RefreshIsAnswered

(* "metadata refresh survives losing the bootstrap broker"                 *)
(* (cluster.go:155), in the same situation: it is answered and does not go *)
(* on with a nil connection.  The code does not keep this: seed tests      *)
(* seedConn under the lock and reads it again without.                     *)
RefreshSurvives == situation = "refreshing" => Refreshing!RefreshSurvives

(* Every call on the seed connection ends, with an answer or an error, or  *)
(* the process has panicked: callers that drop, invalidate and dial the    *)
(* connection under each other's hands do not keep each other busy         *)
(* (refresh, requestSeed).                                                 *)
EverySeedCallEnds == \A c \in SeedCallers :
    []<>(\/ situation = "pool"
         \/ situation = "refreshing" /\ Refreshing!OutOfCall(c)
         \/ situation = "asking" /\ Asking!OutOfCall(c)
         \/ situation = "retrying" /\ Retrying!OutOfCall(c))

=============================================================================
