------------------------------ MODULE Negotiation ------------------------------
(***************************************************************************)
(* How the version of a request is chosen (internal/broker/cluster.go and  *)
(* the callers of NegotiatedVersion).  NewClient asks a broker for its     *)
(* ranges once; every later request takes its body's version from the rule *)
(* of its call site, and its header's version from a clamp in Request.     *)
(* The broker may be upgraded at any time.                                 *)
(***************************************************************************)
EXTENDS Versions

CONSTANTS
  Sites,         \* the call sites
  VersionOf,     \* the API of a site and its rule for versions, see CallSites
  Guarded,       \* sites that go through Admin.requestAny
  Ranges,        \* the ranges a broker may advertise for the API of a site
  Speaks         \* the versions at which a site's code has the form the version calls for

VersionRules ==
  [api : Apis, rule : {"negotiated", "pinned", "positive", "raised"}, pin : Int, floor : Int]

ASSUME SitesAssumption ==
  /\ VersionOf \in [Sites -> VersionRules]
  /\ Guarded \subseteq Sites
  /\ Ranges \in [Sites -> SUBSET [min : Nat, max : Int]]
  /\ Speaks \in [Sites -> SUBSET Int]
  /\ \A s \in Sites : \A v \in Speaks[s] :
       /\ 0 <= v /\ v <= Ver[VersionOf[s].api] /\ VersionOf[s].floor <= v
       /\ VersionOf[s].rule = "positive" => v > 0
       /\ VersionOf[s].rule = "pinned" => v = VersionOf[s].pin
       /\ VersionOf[s].rule = "raised" => VersionOf[s].pin <= v

VARIABLES
  site,          \* the operation the application calls
  range,         \* what the broker advertises now for the site's API
  apiVersions,   \* the client's entry for the API, Unknown or Absent
  heard,         \* the range that NegotiateVersions was answered
  call           \* the call in progress

negotiationVars == <<site, range, apiVersions, heard, call>>

Unknown == -2    \* NegotiateVersions has not succeeded: the map is nil
Absent == -3     \* it has, and recorded nothing for the API

rule == VersionOf[site].rule
pin == VersionOf[site].pin
floor == VersionOf[site].floor
clientMax == ClientVersion(VersionOf[site].api)

NoRequest == [state |-> "new", body |-> -1, header |-> -1]

NegotiationInit ==
  /\ site \in Sites
  /\ range \in Ranges[site]
  /\ apiVersions = Unknown
  /\ heard = NotAdvertised
  /\ call = NoRequest

\* NewClient's only negotiation.  An API the client cannot speak any more, or
\* that the broker does not list, is left out of the map.
NegotiateVersions ==
  /\ call.state = "new"
  /\ apiVersions' = IF ~Advertises(range) \/ clientMax < 0 \/ clientMax < range.min
                      THEN Absent
                      ELSE NegotiateVersion(range, clientMax)
  /\ heard' = range
  /\ call' = [call EXCEPT !.state = "open"]
  /\ UNCHANGED <<site, range>>

\* The request fails, and the client goes on without versions.
NegotiationFails ==
  /\ call.state = "new"
  /\ call' = [call EXCEPT !.state = "open"]
  /\ UNCHANGED <<site, range, apiVersions, heard>>

negotiatedVersion(fallback) ==
  IF apiVersions \in {Unknown, Absent} THEN fallback ELSE apiVersions

AdvertisesAPI == apiVersions # Absent

\* The version a site encodes at.  "negotiated": as negotiated, or the client's
\* highest.  "positive": the same, but a version of 0 is replaced by pin.
\* "raised": the same, but no lower than pin.  "pinned": always pin.
BodyVersion ==
  LET negotiated == negotiatedVersion(clientMax)
  IN  CASE rule = "negotiated" -> negotiated
        [] rule = "positive" -> IF negotiated <= 0 THEN pin ELSE negotiated
        [] rule = "raised" -> IF negotiated < pin THEN pin ELSE negotiated
        [] rule = "pinned" -> pin

\* Mutant: the version that a site needs is not enough for it.
RefusesAtFloor ==
  \/ site \in Guarded /\ ~AdvertisesAPI
  \/ negotiatedVersion(clientMax) <= floor

\* A site gives up on an API that the broker does not advertise, or on a
\* version below the one it needs, before anything is sent.
Refuses ==
  \/ site \in Guarded /\ ~AdvertisesAPI
  \/ negotiatedVersion(clientMax) < floor

Refuse ==
  /\ call.state = "open"
  /\ Refuses
  /\ call' = [call EXCEPT !.state = "refused"]
  /\ UNCHANGED <<site, range, apiVersions, heard>>

\* Mutant: the negotiated version replaces the caller's, lower or higher.
ClampBothWays(version) ==
  LET v == negotiatedVersion(version)
  IN  IF v > 0 THEN v ELSE version

\* Cluster.Request and requestSeed lower the header's version, not the body's.
Clamp(version) ==
  LET v == negotiatedVersion(version)
  IN  IF v > 0 /\ version > v THEN v ELSE version

Request ==
  /\ call.state = "open"
  /\ ~Refuses
  /\ call' = [state |-> "sent", body |-> BodyVersion, header |-> Clamp(BodyVersion)]
  /\ UNCHANGED <<site, range, apiVersions, heard>>

\* The broker closes the connection on a version it does not support, and
\* answers at the version of the header otherwise.
Answer ==
  /\ call.state = "sent"
  /\ call' = [call EXCEPT !.state = IF InRange(call.header, range) THEN "answered"
                                                                   ELSE "rejected"]
  /\ UNCHANGED <<site, range, apiVersions, heard>>

\* The application calls again.
Again ==
  /\ call.state \in {"answered", "rejected", "refused"}
  /\ call' = [NoRequest EXCEPT !.state = "open"]
  /\ UNCHANGED <<site, range, apiVersions, heard>>

\* An upgraded broker supports more versions, and still the ones it did.
Upgrade ==
  /\ \E better \in Ranges[site] :
       /\ better # range
       /\ Advertises(range) => better.min <= range.min /\ range.max <= better.max
       /\ range' = better
  /\ UNCHANGED <<site, apiVersions, heard, call>>

NegotiationNext ==
  \/ NegotiateVersions \/ NegotiationFails
  \/ Refuse \/ Request \/ Answer \/ Again
  \/ Upgrade

NegotiationSpec == NegotiationInit /\ [][NegotiationNext]_negotiationVars

-------------------------------------------------------------------------------
\* The versions that the site's code and the broker had in common when the
\* client negotiated.
Common == {v \in Speaks[site] : InRange(v, heard)}

Sent == call.state \in {"sent", "answered", "rejected"}

\* If there was such a version, every request of the site, however long after the
\* negotiation and whatever upgrades of the broker came between, has a body and a
\* header of the same version, which the broker supports: the rules of the call
\* sites and the clamp of Request, which only touches the header, work out to
\* one choice (NegotiateVersions' "MUST override the client's higher default -
\* otherwise the client sends a version the broker rejects").  If there was none,
\* body and header still agree, except that the sites which hold on to a version
\* of their own send it under a lower header (README, Deviations).
SentAtCommonVersion ==
  Sent =>
    /\ Common # {} => /\ call.body = call.header
                      /\ InRange(call.header, range)
                      /\ call.state # "rejected"
    /\ call.body # call.header => /\ rule \in {"pinned", "raised"}
                                  /\ call.body = pin /\ call.header < pin

\* An operation that fails with an error of the client's own, before anything is
\* sent, could not have worked: the broker had said that it supports no version
\* that the operation's code speaks (requestAny, requireShareSupport, Renew,
\* FetchOffsets).  The converse is not so: an API that is advertised only below
\* the version a site is pinned to is asked for all the same, and so is
\* DeleteACLs, which speaks none (README, Deviations).
RefusedOnlyIfUnsupported == call.state = "refused" => Common = {}
===============================================================================
