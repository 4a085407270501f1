--------------------------- MODULE SeedConnection ---------------------------
(***************************************************************************)
(* The bootstrap connection shared by metadata refreshes and coordinator   *)
(* lookups: seed, refresh, requestSeed, dropSeed and invalidateSeed of     *)
(* src/internal/broker/cluster.go.                                         *)
(*                                                                         *)
(* The mutex covers single reads and writes of seedConn, not the sequences *)
(* around them: seed tests seedConn under the lock and reads it again      *)
(* without it, and dials without it.  A refresh drops the connection that  *)
(* failed; the other callers invalidate whatever is cached by then.        *)
(***************************************************************************)
EXTENDS Integers, Sequences, FiniteSets

CONSTANTS
    Refreshers,  \* callers of refresh
    Askers,      \* callers of RequestViaSeed: no second try
    Retriers,    \* callers of RequestAny's fallback: one second try
    None,
    Seeds,       \* the configured addresses, a sequence
    MaxCalls,    \* bound: calls of each caller
    MaxConns,    \* bound: connections dialled, large enough never to bind
    MaxDeaths    \* bound: how often a seed broker goes down

Goroutines == Refreshers \cup Askers \cup Retriers

\* What the constants are.
SeedAssumption ==
    /\ IsFiniteSet(Goroutines) /\ None \notin Nat
    /\ Refreshers \cap (Askers \cup Retriers) = {} /\ Askers \cap Retriers = {}
    /\ Len(Seeds) \in Nat \ {0}
    /\ MaxCalls \in Nat \ {0} /\ MaxConns \in Nat \ {0} /\ MaxDeaths \in Nat

Conns == 1 .. MaxConns

Brokers == {Seeds[i] : i \in 1 .. Len(Seeds)}

VARIABLES
    seedConn,  \* the cached connection, or None
    conn,      \* the connections: their broker and whether they are open
    dialled,   \* how many connections were dialled
    alive,     \* the seed brokers that are up
    deaths,
    caller     \* the callers' local variables

vars == <<seedConn, conn, dialled, alive, deaths, caller>>

Init ==
    /\ seedConn = None /\ dialled = 0 /\ deaths = 0 /\ alive = Brokers
    /\ conn = [k \in Conns |-> [broker |-> None, open |-> FALSE]]
    /\ caller = [c \in Goroutines |-> [pc |-> "idle", calls |-> 0, attempt |-> 0, next |-> 1, on |-> None]]

\* A caller that dereferenced a nil connection took the process down with it.
Panicked == \E c \in DOMAIN caller : caller[c].pc = "panic"

----------------------------------------------------------------------------
(* seed                                                                     *)

Call(c) ==
    /\ ~Panicked
    /\ caller[c].pc \in {"idle", "ok", "error"} /\ caller[c].calls < MaxCalls
    /\ caller' = [caller EXCEPT ![c] = [@ EXCEPT !.pc = "test", !.calls = @ + 1, !.attempt = 1,
                                                   !.on = None]]
    /\ UNCHANGED <<seedConn, conn, dialled, alive, deaths>>

\* seedConn is tested under the read lock, which is released at once.
Test(c) ==
    /\ ~Panicked
    /\ caller[c].pc = "test"
    /\ caller' = [caller EXCEPT ![c].pc = IF seedConn # None THEN "load" ELSE "dial", ![c].next = 1]
    /\ UNCHANGED <<seedConn, conn, dialled, alive, deaths>>

\* ... and read again for the return value.
Load(c) ==
    /\ ~Panicked
    /\ caller[c].pc = "load"
    /\ caller' = [caller EXCEPT ![c].on = seedConn,
                                ![c].pc = IF seedConn = None THEN "panic" ELSE "request"]
    /\ UNCHANGED <<seedConn, conn, dialled, alive, deaths>>

\* The seeds are dialled in order until one answers.
Dial(c) ==
    LET s == Seeds[caller[c].next] IN
    /\ ~Panicked
    /\ caller[c].pc = "dial" /\ s \in alive /\ dialled < MaxConns
    /\ dialled' = dialled + 1
    /\ conn' = [conn EXCEPT ![dialled'] = [broker |-> s, open |-> TRUE]]
    /\ caller' = [caller EXCEPT ![c].pc = "store", ![c].on = dialled']
    /\ UNCHANGED <<seedConn, alive, deaths>>

\* The next seed's address after a failed dial.
NextSeedNone(c) == Len(Seeds) + 1

NextSeedSame(c) == caller[c].next

NextSeed(c) == caller[c].next + 1

DialFails(c) ==
    /\ ~Panicked
    /\ caller[c].pc = "dial" /\ Seeds[caller[c].next] \notin alive
    /\ caller' = [caller EXCEPT ![c].next = IF NextSeed(c) > Len(Seeds) THEN 1 ELSE NextSeed(c),
                                ![c].pc = IF NextSeed(c) > Len(Seeds) THEN "error" ELSE "dial"]
    /\ UNCHANGED <<seedConn, conn, dialled, alive, deaths>>

Store(c) ==
    /\ ~Panicked
    /\ caller[c].pc = "store"
    /\ seedConn' = caller[c].on
    /\ caller' = [caller EXCEPT ![c].pc = "request"]
    /\ UNCHANGED <<conn, dialled, alive, deaths>>

----------------------------------------------------------------------------
(* A request on the connection, and what its failure does to the cache.     *)

Answered(c) ==
    /\ ~Panicked
    /\ caller[c].pc = "request" /\ conn[caller[c].on].open
    /\ caller' = [caller EXCEPT ![c].pc = "ok"]
    /\ UNCHANGED <<seedConn, conn, dialled, alive, deaths>>

RequestFails(c) ==
    /\ ~Panicked
    /\ caller[c].pc = "request" /\ ~conn[caller[c].on].open
    /\ caller' = [caller EXCEPT ![c].pc = "drop"]
    /\ UNCHANGED <<seedConn, conn, dialled, alive, deaths>>

\* The attempts of one call.
Attempts(c) == IF c \in Refreshers THEN Len(Seeds) + 1 ELSE IF c \in Retriers THEN 2 ELSE 1

AfterFailure(c) == IF caller[c].attempt < Attempts(c) THEN "test" ELSE "error"

TryAgain(c) ==
    caller' = [caller EXCEPT ![c].pc = AfterFailure(c),
                             ![c].attempt = IF AfterFailure(c) = "test" THEN @ + 1 ELSE @]

\* dropSeed forgets the connection that failed, if it is still the cached one.
CacheAfterDrop(c) == IF seedConn = caller[c].on THEN None ELSE seedConn

DropSeed(c) ==
    /\ ~Panicked
    /\ caller[c].pc = "drop" /\ c \in Refreshers
    /\ seedConn' = CacheAfterDrop(c)
    /\ conn' = [conn EXCEPT ![caller[c].on].open = FALSE]
    /\ TryAgain(c)
    /\ UNCHANGED <<dialled, alive, deaths>>

\* invalidateSeed closes the cached connection, whichever it is.
InvalidateSeed(c) ==
    /\ ~Panicked
    /\ caller[c].pc = "drop" /\ c \notin Refreshers
    /\ seedConn' = None
    /\ conn' = IF seedConn = None THEN conn ELSE [conn EXCEPT ![seedConn].open = FALSE]
    /\ TryAgain(c)
    /\ UNCHANGED <<dialled, alive, deaths>>

----------------------------------------------------------------------------
(* The seed brokers: one of them is always up.                              *)

Die(b) ==
    /\ ~Panicked
    /\ deaths < MaxDeaths /\ alive \ {b} # {} /\ b \in alive
    /\ alive' = alive \ {b}
    /\ deaths' = deaths + 1
    /\ conn' = [k \in Conns |-> [conn[k] EXCEPT !.open = @ /\ conn[k].broker # b]]
    /\ UNCHANGED <<seedConn, dialled, caller>>

Restart(b) ==
    /\ ~Panicked
    /\ b \notin alive
    /\ alive' = alive \cup {b}
    /\ UNCHANGED <<seedConn, conn, dialled, deaths, caller>>

Step(c) ==
    \/ Test(c) \/ Load(c) \/ Dial(c) \/ DialFails(c) \/ Store(c)
    \/ Answered(c) \/ RequestFails(c) \/ DropSeed(c) \/ InvalidateSeed(c)

AtRest ==
    /\ \/ Panicked
       \/ \A c \in Goroutines : caller[c].calls = MaxCalls /\ caller[c].pc \in {"ok", "error"}
    /\ UNCHANGED vars

Next ==
    \/ \E c \in Goroutines : Call(c) \/ Step(c)
    \/ \E b \in Brokers : Die(b) \/ Restart(b)
    \/ AtRest

Spec == Init /\ [][Next]_vars

\* Goroutines run, and dials and requests come to an end.
FairSpec == Spec /\ \A c \in Goroutines : WF_vars(Step(c))

----------------------------------------------------------------------------
(* Properties.                                                              *)

TypeOK ==
    /\ seedConn \in Conns \cup {None} /\ dialled \in 0 .. MaxConns
    /\ deaths \in 0 .. MaxDeaths /\ alive \subseteq Brokers
    /\ conn \in [Conns -> [broker : Brokers \cup {None}, open : BOOLEAN]]
    /\ caller \in [Goroutines -> [pc : {"idle", "test", "load", "dial", "store", "request", "drop",
                                     "ok", "error", "panic"},
                               calls : 0 .. MaxCalls, attempt : 0 .. Len(Seeds) + 1,
                               next : 1 .. Len(Seeds), on : Conns \cup {None}]]

\* When one seed broker goes down, once, a refresh that returns has been
\* answered.  It may also not return: see RefreshSurvives.
RefreshIsAnswered == \A c \in Refreshers : caller[c].pc # "error"

\* "metadata refresh survives losing the bootstrap broker" (cluster.go:155):
\* when one seed broker goes down, once, a refresh neither ends in an error nor
\* goes on with a connection that is nil.
RefreshSurvives == \A c \in Refreshers : caller[c].pc \notin {"error", "panic"}

\* A caller of the seed connection is not in a call, or never will be again.
OutOfCall(c) == Panicked \/ caller[c].pc \in {"idle", "ok", "error"}

=============================================================================
