----------------------------- MODULE RouteRequest -----------------------------
(***************************************************************************)
(* How a SIP request is routed: the route script                           *)
(* (etc/sipXsbc/handlers/routeRequest.js with Route, Route404 and          *)
(* RouteProfile) and then the outbound script (outboundRequest.js).  The   *)
(* inbound script and the response script are empty.                       *)
(*                                                                         *)
(* The route script keeps two global objects, route and route404, which    *)
(* every run of handle_request binds to its own request and then works     *)
(* through.  The transaction manager has two threads (SBController.cpp:26) *)
(* and one script engine, which runs one handler at a time; the model      *)
(* makes that lock explicit and takes one step per method of the profile   *)
(* objects, so that what the scripts owe to the lock can be seen.          *)
(*                                                                         *)
(* A native that sets a URI part or removes a header may fail; the         *)
(* wrappers of SIPMessage.js drop its result, and the scripts go on.       *)
(***************************************************************************)
EXTENDS Naturals, FiniteSets

CONSTANTS
  Msg,     \* SIP requests
  Domain,  \* values of the target-domain option
  Host,    \* host parts of the URIs of requests as they arrive
  User,    \* user parts of their URIs
  Method,  \* request methods, "REFER" one of them
  Header,  \* names of the optional headers requests carry
  Arrivals,  \* the requests that may arrive
  Empty,   \* an empty or undefined string
  Nil      \* "bound to no request yet"

Uri == {"ruri", "from", "to"}
Profile == {"route", "route404"}
Property == {"route-action", "reject-reason", "transaction-timeout",
             "enable-refer-retarget"}
Value == {"continue", "reject", "No route available", "6400", "yes"}

ASSUME ConstantsAssumption ==
  /\ Empty \notin Domain \cup User \cup Value
  /\ Nil \notin Msg

\* No request has a header by the name that route.js misspells.
ASSUME HeaderNames == "Accept-Laguage" \notin Header

\* What may fail on a request: setting the host of a URI, setting the user of the
\* request-uri, the route script's or the outbound script's removal of a header.
Failure == ({"host", "user"} \X Uri) \cup ({"route", "outbound"} \X Header)

\* What the scripts see of a request.
Request == [method : Method, user : [Uri -> User \cup {Empty}],
            host : [Uri -> Host \cup Domain], headers : SUBSET Header,
            props : [Property -> Value \cup {Empty}]]

NoProps == [p \in Property |-> Empty]

\* A request as it arrives: no script has set a property of it yet.
ASSUME ArrivalsAssumption ==
  /\ Arrivals \subseteq Request
  /\ Arrivals # {}
  /\ \A r \in Arrivals : r.props = NoProps

VARIABLES
  targetDomain,  \* SBController::_jsDefaultTargetDomain
  req,           \* req[m]: the contents of request m
  stage,         \* stage[m]: how far m has come
  pc,            \* pc[m]: the next method call of handle_request(m), "out" outside
  bound,         \* bound[p]: the request p.sipMessage wraps, p a global of the script
  arrived,       \* history: req[m] as it arrived
  failed         \* history: failed[m] is what has failed on m, unseen by the scripts

vars == <<targetDomain, req, stage, pc, bound, arrived, failed>>

Running == {m \in Msg : pc[m] # "out"}

\* In place of a request that has not arrived.
Blank == CHOOSE r \in Arrivals : TRUE

Init ==
  /\ targetDomain \in Domain \cup {Empty}
  /\ req = [m \in Msg |-> Blank]
  /\ stage = [m \in Msg |-> "absent"]
  /\ pc = [m \in Msg |-> "out"]
  /\ bound = [p \in Profile |-> Nil]
  /\ arrived = [m \in Msg |-> Blank]
  /\ failed = [m \in Msg |-> {}]

-----------------------------------------------------------------------------
(* SIPMessage.js and the natives under it, on the contents of a request    *)

SetProperty(r, name, value) == [r EXCEPT !.props[name] = value]

\* One hdrRemove per name: it fails for those in lost, which the request keeps.
HdrRemove(r, names, lost) == [r EXCEPT !.headers = @ \ (names \ lost)]

SetUser(r, u, user) == [r EXCEPT !.user[u] = user]

SetTwoHosts(r, domain, done) ==
  [r EXCEPT !.host = [u \in Uri |-> IF u \in done \ {"from"} THEN domain ELSE @[u]]]

\* The URIs in done take the domain, setting the others has failed.
SetTargetDomain(r, domain, done) ==
  [r EXCEPT !.host = [u \in Uri |-> IF u \in done THEN domain ELSE @[u]]]

IsRequest(r, method) == r.method = method

-----------------------------------------------------------------------------
(* handle_request of routeRequest.js *)

\* A request arrives and its transaction is created.
Receive(m, r) ==
  /\ stage[m] = "absent"
  /\ stage' = [stage EXCEPT ![m] = "received"]
  /\ req' = [req EXCEPT ![m] = r]
  /\ arrived' = [arrived EXCEPT ![m] = r]
  /\ UNCHANGED <<targetDomain, pc, bound, failed>>

NoLock == TRUE

\* The script engine runs one handler at a time.
EngineIsFree == Running = {}

Enter(m) ==
  /\ stage[m] = "received"
  /\ pc[m] = "out"
  /\ EngineIsFree
  /\ pc' = [pc EXCEPT ![m] = "bindRoute"]
  /\ UNCHANGED <<targetDomain, req, stage, bound, arrived, failed>>

BoundOnce(p, m) == IF bound[p] = Nil THEN [bound EXCEPT ![p] = m] ELSE bound

\* p.setRequest(request): p.sipMessage is replaced by a wrapper of m.
SetRequest(p, m) == [bound EXCEPT ![p] = m]

BindRoute(m) ==
  /\ pc[m] = "bindRoute"
  /\ bound' = SetRequest("route", m)
  /\ pc' = [pc EXCEPT ![m] = "bindRoute404"]
  /\ UNCHANGED <<targetDomain, req, stage, arrived, failed>>

BindRoute404(m) ==
  /\ pc[m] = "bindRoute404"
  /\ bound' = SetRequest("route404", m)
  /\ pc' = [pc EXCEPT ![m] = "isRoutable"]
  /\ UNCHANGED <<targetDomain, req, stage, arrived, failed>>

\* The request a call made through profile p works on.
Of(p) == bound[p]

\* isRoutable returns false before it has changed anything.
NotRoutable(m) ==
  /\ pc[m] = "isRoutable"
  /\ targetDomain = Empty
  /\ pc' = [pc EXCEPT ![m] = "reject"]
  /\ UNCHANGED <<targetDomain, req, stage, bound, arrived, failed>>

\* isRoutable, first part: setTargetDomain(target).
TargetTheDomain(m) ==
  /\ pc[m] = "isRoutable"
  /\ targetDomain # Empty
  /\ \E done \in SUBSET Uri :
       /\ req' = [req EXCEPT ![Of("route")] = SetTargetDomain(@, targetDomain, done)]
       /\ failed' = [failed EXCEPT ![Of("route")] = @ \cup ({"host"} \X (Uri \ done))]
  /\ pc' = [pc EXCEPT ![m] = "retarget"]
  /\ UNCHANGED <<targetDomain, stage, bound, arrived>>

AnyRefer(r) == IsRequest(r, "REFER")

\* A REFER without a user in its request-uri, which has one in its To.
Retargeted(r) ==
  /\ IsRequest(r, "REFER")
  /\ r.user["ruri"] = Empty
  /\ r.user["to"] # Empty

\* isRoutable, second part: the out-of-dialog REFER of Cisco phones.
Retarget(m) ==
  /\ pc[m] = "retarget"
  /\ \/ /\ Retargeted(req[Of("route")])
        /\ \/ /\ req' = [req EXCEPT ![Of("route")] = SetUser(@, "ruri", @.user["to"])]
              /\ UNCHANGED failed
           \/ /\ failed' = [failed EXCEPT ![Of("route")] = @ \cup {<<"user", "ruri">>}]
              /\ UNCHANGED req
     \/ /\ ~Retargeted(req[Of("route")])
        /\ UNCHANGED <<req, failed>>
  /\ pc' = [pc EXCEPT ![m] = "removeHeaders"]
  /\ UNCHANGED <<targetDomain, stage, bound, arrived>>

\* What isRoutable removes.  The second name is the one the script gives.
RouteRemoves == {"Remote-Party-Id", "Accept-Laguage"}

\* isRoutable, last part.
RemoveHeaders(m) ==
  /\ pc[m] = "removeHeaders"
  /\ \E lost \in SUBSET (RouteRemoves \cap req[Of("route")].headers) :
       /\ req' = [req EXCEPT ![Of("route")] = HdrRemove(@, RouteRemoves, lost)]
       /\ failed' = [failed EXCEPT ![Of("route")] = @ \cup ({"route"} \X lost)]
  /\ pc' = [pc EXCEPT ![m] = "accept"]
  /\ UNCHANGED <<targetDomain, stage, bound, arrived>>

Accepted(r) ==
  SetProperty(SetProperty(SetProperty(r,
    "enable-refer-retarget", "yes"),
    "transaction-timeout", "6400"),
    "route-action", "continue")

\* setProperty of handle_request, then routeRequest of RouteProfile.
Accept(m) ==
  /\ pc[m] = "accept"
  /\ req' = [req EXCEPT ![Of("route")] = Accepted(@)]
  /\ pc' = [pc EXCEPT ![m] = "leave"]
  /\ UNCHANGED <<targetDomain, stage, bound, arrived, failed>>

Rejected(r) ==
  SetProperty(SetProperty(r,
    "reject-reason", "No route available"),
    "route-action", "reject")

\* routeRequest of Route404.
Reject(m) ==
  /\ pc[m] = "reject"
  /\ req' = [req EXCEPT ![Of("route404")] = Rejected(@)]
  /\ pc' = [pc EXCEPT ![m] = "leave"]
  /\ UNCHANGED <<targetDomain, stage, bound, arrived, failed>>

NeverLeft(m) == pc

Left(m) == [pc EXCEPT ![m] = "out"]

\* handle_request returns and the engine is free again; the wrappers stay.
Leave(m) ==
  /\ pc[m] = "leave"
  /\ pc' = Left(m)
  /\ stage' = [stage EXCEPT ![m] = "routed"]
  /\ UNCHANGED <<targetDomain, req, bound, arrived, failed>>

-----------------------------------------------------------------------------
(* After the route script *)

OutboundRemoves == {"Accept-Language", "Remote-Party-Id"}

RemovedNothing(r, lost) == r

\* handle_request of outboundRequest.js, on a wrapper of its own.
OutboundRequest(r, lost) == HdrRemove(r, OutboundRemoves, lost)

Forward(m) ==
  /\ stage[m] = "routed"
  /\ req[m].props["route-action"] = "continue"
  /\ EngineIsFree
  /\ \E lost \in SUBSET (OutboundRemoves \cap req[m].headers) :
       /\ req' = [req EXCEPT ![m] = OutboundRequest(@, lost)]
       /\ failed' = [failed EXCEPT ![m] = @ \cup ({"outbound"} \X lost)]
  /\ stage' = [stage EXCEPT ![m] = "sent"]
  /\ UNCHANGED <<targetDomain, pc, bound, arrived>>

Refuse(m) ==
  /\ stage[m] = "routed"
  /\ req[m].props["route-action"] = "reject"
  /\ stage' = [stage EXCEPT ![m] = "refused"]
  /\ UNCHANGED <<targetDomain, req, pc, bound, arrived, failed>>

\* The transaction ends; its request is freed, whatever still wraps it.
Finish(m) ==
  /\ stage[m] \in {"sent", "refused"}
  /\ stage' = [stage EXCEPT ![m] = "freed"]
  /\ UNCHANGED <<targetDomain, req, pc, bound, arrived, failed>>

\* Every transaction has ended and no request is left to arrive.
Idle ==
  /\ \A m \in Msg : stage[m] = "freed"
  /\ UNCHANGED vars

Handle(m) ==
  \/ Enter(m) \/ BindRoute(m) \/ BindRoute404(m)
  \/ NotRoutable(m) \/ TargetTheDomain(m) \/ Retarget(m) \/ RemoveHeaders(m)
  \/ Accept(m) \/ Reject(m) \/ Leave(m)
  \/ Forward(m) \/ Refuse(m)

Next ==
  \/ \E m \in Msg : (\E r \in Arrivals : Receive(m, r)) \/ Handle(m) \/ Finish(m)
  \/ Idle

Spec == Init /\ [][Next]_vars

\* The threads of the transaction manager take up every request they have
\* been given, and the engine's lock goes to each thread that waits for it.
FairSpec == Spec /\ \A m \in Msg : WF_vars(Handle(m))
-----------------------------------------------------------------------------
(* Properties *)

PC == {"out", "bindRoute", "bindRoute404", "isRoutable", "retarget",
       "removeHeaders", "accept", "reject", "leave"}

\* The types, and the engine's lock: the handlers of two requests are never
\* inside the script at once, and only a request not yet routed is in it.
TypeOK ==
  /\ targetDomain \in Domain \cup {Empty}
  /\ req \in [Msg -> Request]
  /\ stage \in [Msg -> {"absent", "received", "routed", "sent", "refused", "freed"}]
  /\ pc \in [Msg -> PC]
  /\ bound \in [Profile -> Msg \cup {Nil}]
  /\ arrived \in [Msg -> Request]
  /\ failed \in [Msg -> SUBSET Failure]
  /\ \A m \in Running : stage[m] = "received" /\ \A n \in Running : n = m

\* The globals route and route404 keep wrapping the last request long after it
\* has been freed; yet no run of a script changes, through them, any request
\* but the one it was called for.
HandlersAreIsolated ==
  [][\A m \in Msg : req'[m] # req[m] =>
       stage[m] = "absent" \/ pc[m] # pc'[m] \/ stage[m] # stage'[m]]_vars

Decided(m) == stage[m] \in {"routed", "sent", "refused", "freed"}
Action(m) == req[m].props["route-action"]

Failed(m, what, on) == <<what, on>> \in failed[m]

\* Accepted with everything that routing owes a request, or refused with a
\* reason and otherwise as it arrived.
AllOrNothing(m) ==
  \/ /\ Action(m) = "continue"
     /\ targetDomain # Empty
     /\ \A u \in Uri :
          req[m].host[u] = IF Failed(m, "host", u) THEN arrived[m].host[u] ELSE targetDomain
     /\ req[m].props["transaction-timeout"] = "6400"
     /\ req[m].props["enable-refer-retarget"] = "yes"
     /\ req[m].props["reject-reason"] = Empty
  \/ /\ Action(m) = "reject"
     /\ targetDomain = Empty
     /\ req[m].props["reject-reason"] # Empty
     /\ [req[m] EXCEPT !.props = NoProps] = arrived[m]

\* Once the route script is done with a request it has either been accepted or refused,
\* and stays so until it is freed.  Accepted, with the timeout and the retarget flag
\* set: each of its URIs points at the target domain, or is the one it arrived with if
\* the native failed to set it, which nobody notices and which stops neither the other
\* two nor the request.  Refused, with a reason and otherwise exactly as it arrived:
\* never half retargeted.
RoutingIsAllOrNothing == \A m \in Msg : Decided(m) => AllOrNothing(m)

\* The only change ever made to the user parts.
OnlyReferUser(m) ==
  req[m].user # arrived[m].user =>
    /\ arrived[m].method = "REFER"
    /\ arrived[m].user["ruri"] = Empty
    /\ req[m].user = [arrived[m].user EXCEPT !["ruri"] = arrived[m].user["to"]]

\* A REFER that lacks a target user named none anywhere, unless setting it failed.
ReferHasTarget(m) ==
  req[m].method = "REFER" /\ req[m].user["ruri"] = Empty /\ ~Failed(m, "user", "ruri") =>
    arrived[m].user["ruri"] = Empty /\ arrived[m].user["to"] = Empty

\* The user of a request-uri is replaced only where there is none, only in a
\* REFER, and only by the user of the To; no other user part is touched; and a
\* forwarded REFER lacks a target user only if it named none anywhere, or if the one
\* native call that should have given it one failed.
ReferIsRetargeted ==
  \A m \in Msg : OnlyReferUser(m) /\ (stage[m] = "sent" => ReferHasTarget(m))

Offending == {"Remote-Party-Id", "Accept-Language"}

\* Of the headers, at most offending ones have gone.
HeadersLeft(m) ==
  /\ req[m].headers \subseteq arrived[m].headers
  /\ arrived[m].headers \subseteq req[m].headers \cup Offending

LeavesByFailure(m) ==
  /\ "Accept-Language" \in req[m].headers =>
       Failed(m, "outbound", "Accept-Language")
  /\ "Remote-Party-Id" \in req[m].headers =>
       Failed(m, "route", "Remote-Party-Id") /\ Failed(m, "outbound", "Remote-Party-Id")

\* A request leaves the SBC with Accept-Language only if the outbound script failed to
\* remove it, and with Remote-Party-Id only if both scripts did: what one script
\* misses, by a failure or by a misspelling, the other makes up for.  It has gained no
\* header, and has lost none but these two.
OffendingHeadersAreRemoved ==
  \A m \in Msg : stage[m] = "sent" => HeadersLeft(m) /\ LeavesByFailure(m)

\* route.js:35 says of the two hdrRemove calls that follow "Remove Cisco
\* offending headers": a request it has accepted has none of them left, but for one
\* whose removal was asked for and failed.
RouteRemovesOffendingHeaders ==
  \A m \in Msg : pc[m] = "accept" =>
    \A h \in req[m].headers \cap Offending : Failed(m, "route", h)

\* A request as all others see it: until its handler has left, as it arrived.
View == [m \in Msg |-> IF stage[m] = "received" THEN arrived[m] ELSE req[m]]

Contract == INSTANCE RoutingContract WITH phase <- stage, request <- View

\* The handlers work in many steps, through globals they share and on requests of
\* which several are inside the SBC; yet each request is decided as if in one step,
\* by what it was when it arrived (routeRequest.js:4).
KeepsContract == Contract!Spec

\* Every request that arrives is forwarded or refused, with the engine shared
\* by all the handlers.
EveryRequestIsAnswered ==
  \A m \in Msg : stage[m] = "received" ~> stage[m] \in {"sent", "refused"}

=============================================================================
