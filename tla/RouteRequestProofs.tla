-------------------------- MODULE RouteRequestProofs --------------------------
(***************************************************************************)
(* Proofs about RouteRequest, for any number of requests, any domains,     *)
(* users, methods and headers.                                             *)
(***************************************************************************)
EXTENDS RouteRequest, TLAPS

\* The wrappers of a handler that has made them are its own.
Bound(m) ==
  /\ pc[m] \notin {"out", "bindRoute"} => bound["route"] = m
  /\ pc[m] \notin {"out", "bindRoute", "bindRoute404"} => bound["route404"] = m

LockInv == TypeOK /\ \A m \in Msg : Bound(m)

-----------------------------------------------------------------------------
(* What the scripts do to the contents of a request                        *)

LEMMA RequestOps ==
  ASSUME NEW r \in Request
  PROVE  /\ \A d \in Domain, done \in SUBSET Uri : SetTargetDomain(r, d, done) \in Request
         /\ \A u \in Uri, w \in User \cup {Empty} : SetUser(r, u, w) \in Request
         /\ \A S, lost : HdrRemove(r, S, lost) \in Request
         /\ \A p \in Property, v \in Value : SetProperty(r, p, v) \in Request
  BY DEF Request, SetTargetDomain, SetUser, HdrRemove, SetProperty, Uri

LEMMA DecisionOps ==
  ASSUME NEW r \in Request
  PROVE  /\ Accepted(r) \in Request
         /\ Rejected(r) \in Request
         /\ \A lost : OutboundRequest(r, lost) \in Request
<1>1. \A q \in Request : \A p \in Property, v \in Value : SetProperty(q, p, v) \in Request
  BY RequestOps
<1>2. Accepted(r) \in Request
  BY <1>1 DEF Accepted, Property, Value
<1>3. Rejected(r) \in Request
  BY <1>1 DEF Rejected, Property, Value
<1>4. \A lost : OutboundRequest(r, lost) \in Request
  BY RequestOps DEF OutboundRequest
<1> QED
  BY <1>2, <1>3, <1>4

LEMMA InitLockInv == Init => LockInv
  BY ArrivalsAssumption DEF Init, LockInv, TypeOK, Bound, Blank, PC, Running

\* A step inside the script: the handler of m goes on to q, working on m alone.
LEMMA InsideLockInv ==
  ASSUME LockInv, NEW m \in Msg, NEW q \in PC \ {"out", "bindRoute", "bindRoute404"},
         pc[m] \notin {"out", "bindRoute", "bindRoute404"},
         pc' = [pc EXCEPT ![m] = q],
         req' \in [Msg -> Request], failed' \in [Msg -> SUBSET Failure],
         UNCHANGED <<targetDomain, stage, bound, arrived>>
  PROVE  LockInv'
<1>1. TypeOK'
  BY DEF LockInv, TypeOK, Running
<1>2. \A n \in Msg : Bound(n)'
  BY DEF LockInv, TypeOK, Bound
<1> QED
  BY <1>1, <1>2 DEF LockInv

LEMMA HandleLockInv ==
  ASSUME LockInv, NEW m \in Msg, Handle(m)
  PROVE  LockInv'
<1> USE DEF PC
<1>1. CASE Enter(m)
  BY <1>1 DEF Enter, EngineIsFree, Running, LockInv, TypeOK, Bound
<1>2. CASE BindRoute(m)
  BY <1>2 DEF BindRoute, SetRequest, Running, LockInv, TypeOK, Bound, Profile
<1>3. CASE BindRoute404(m)
  BY <1>3 DEF BindRoute404, SetRequest, Running, LockInv, TypeOK, Bound, Profile
<1>4. CASE NotRoutable(m)
  BY <1>4, InsideLockInv DEF NotRoutable, LockInv, TypeOK
<1>5. CASE TargetTheDomain(m)
  <2>1. bound["route"] = m /\ targetDomain \in Domain
    BY <1>5 DEF TargetTheDomain, LockInv, TypeOK, Bound
  <2>2. PICK done \in SUBSET Uri :
          /\ req' = [req EXCEPT ![m] = SetTargetDomain(@, targetDomain, done)]
          /\ failed' = [failed EXCEPT ![m] = @ \cup ({"host"} \X (Uri \ done))]
    BY <1>5, <2>1 DEF TargetTheDomain, Of
  <2>3. req' \in [Msg -> Request]
    BY <2>1, <2>2, RequestOps DEF LockInv, TypeOK
  <2>4. failed' \in [Msg -> SUBSET Failure]
    BY <2>2 DEF LockInv, TypeOK, Failure
  <2> QED
    BY <1>5, <2>3, <2>4, InsideLockInv DEF TargetTheDomain
<1>6. CASE Retarget(m)
  <2>1. bound["route"] = m
    BY <1>6 DEF Retarget, LockInv, TypeOK, Bound
  <2>2. req[m].user["to"] \in User \cup {Empty} /\ "ruri" \in Uri
    BY DEF LockInv, TypeOK, Request, Uri
  <2>3. SetUser(req[m], "ruri", req[m].user["to"]) \in Request
    BY <2>2, RequestOps DEF LockInv, TypeOK
  <2>4. \/ req' = [req EXCEPT ![m] = SetUser(req[m], "ruri", req[m].user["to"])]
        \/ req' = req
    BY <1>6, <2>1 DEF Retarget, Of, LockInv, TypeOK
  <2>5. failed' \in [Msg -> SUBSET Failure]
    BY <1>6, <2>1, <2>2 DEF Retarget, Of, LockInv, TypeOK, Failure
  <2>6. req' \in [Msg -> Request]
    BY <2>3, <2>4 DEF LockInv, TypeOK
  <2> QED
    BY <1>6, <2>5, <2>6, InsideLockInv DEF Retarget
<1>7. CASE RemoveHeaders(m)
  <2>1. bound["route"] = m /\ req[m] \in Request
    BY <1>7 DEF RemoveHeaders, LockInv, TypeOK, Bound
  <2>2. PICK lost \in SUBSET (RouteRemoves \cap req[m].headers) :
          /\ req' = [req EXCEPT ![m] = HdrRemove(@, RouteRemoves, lost)]
          /\ failed' = [failed EXCEPT ![m] = @ \cup ({"route"} \X lost)]
    BY <1>7, <2>1 DEF RemoveHeaders, Of
  <2>3. req' \in [Msg -> Request]
    BY <2>2, RequestOps DEF LockInv, TypeOK
  <2>4. failed' \in [Msg -> SUBSET Failure]
    BY <2>1, <2>2 DEF LockInv, TypeOK, Failure, Request
  <2> QED
    BY <1>7, <2>3, <2>4, InsideLockInv DEF RemoveHeaders
<1>8. CASE Accept(m)
  <2>1. req' \in [Msg -> Request]
    BY <1>8, DecisionOps DEF Accept, Of, LockInv, TypeOK, Bound
  <2> QED
    BY <1>8, <2>1, InsideLockInv DEF Accept, LockInv, TypeOK
<1>9. CASE Reject(m)
  <2>1. req' \in [Msg -> Request]
    BY <1>9, DecisionOps DEF Reject, Of, LockInv, TypeOK, Bound
  <2> QED
    BY <1>9, <2>1, InsideLockInv DEF Reject, LockInv, TypeOK
<1>10. CASE Leave(m)
  BY <1>10 DEF Leave, Left, Running, LockInv, TypeOK, Bound
<1>11. CASE Forward(m)
  <2>1. PICK lost \in SUBSET (OutboundRemoves \cap req[m].headers) :
          /\ req' = [req EXCEPT ![m] = OutboundRequest(@, lost)]
          /\ failed' = [failed EXCEPT ![m] = @ \cup ({"outbound"} \X lost)]
    BY <1>11 DEF Forward
  <2>2. req' \in [Msg -> Request]
    BY <2>1, DecisionOps DEF LockInv, TypeOK
  <2>3. failed' \in [Msg -> SUBSET Failure]
    BY <2>1 DEF LockInv, TypeOK, Failure, Request
  <2> QED
    BY <1>11, <2>2, <2>3 DEF Forward, EngineIsFree, Running, LockInv, TypeOK, Bound
<1>12. CASE Refuse(m)
  BY <1>12 DEF Refuse, Running, LockInv, TypeOK, Bound
<1> QED
  BY <1>1, <1>2, <1>3, <1>4, <1>5, <1>6, <1>7, <1>8, <1>9, <1>10, <1>11, <1>12 DEF Handle

LEMMA NextLockInv == LockInv /\ [Next]_vars => LockInv'
<1> SUFFICES ASSUME LockInv, [Next]_vars PROVE LockInv'
  OBVIOUS
<1>1. ASSUME NEW m \in Msg, NEW r \in Arrivals, Receive(m, r) PROVE LockInv'
  <2>1. r \in Request
    BY ArrivalsAssumption
  <2> QED
    BY <1>1, <2>1 DEF Receive, Running, LockInv, TypeOK, Bound
<1>2. ASSUME NEW m \in Msg, Handle(m) PROVE LockInv'
  BY <1>2, HandleLockInv
<1>3. ASSUME NEW m \in Msg, Finish(m) PROVE LockInv'
  BY <1>3 DEF Finish, Running, LockInv, TypeOK, Bound
<1>4. CASE UNCHANGED vars
  BY <1>4 DEF vars, Running, LockInv, TypeOK, Bound
<1> QED
  BY <1>1, <1>2, <1>3, <1>4 DEF Next, Idle

THEOREM LockInvAlways == Spec => []LockInv
  BY InitLockInv, NextLockInv, PTL DEF Spec

\* The types, and that no two handlers are inside the route script at once.
THEOREM TypeCorrect == Spec => []TypeOK
<1>1. LockInv => TypeOK
  BY DEF LockInv
<1> QED
  BY <1>1, LockInvAlways, PTL

\* However many requests are being routed, and whatever freed requests the
\* globals of the script still wrap, a handler changes no request but its own.
THEOREM Isolation == Spec => HandlersAreIsolated
<1>1. ASSUME LockInv, [Next]_vars, NEW m \in Msg, req'[m] # req[m]
      PROVE  stage[m] = "absent" \/ pc[m] # pc'[m] \/ stage[m] # stage'[m]
  <2>1. ASSUME NEW n \in Msg, NEW r \in Arrivals, Receive(n, r) PROVE m = n /\ stage[m] = "absent"
    BY <1>1, <2>1 DEF Receive, LockInv, TypeOK
  <2>2. ASSUME NEW n \in Msg, Handle(n) PROVE pc[m] # pc'[m] \/ stage[m] # stage'[m]
    <3>0. LockInv /\ pc \in [Msg -> PC] /\ req \in [Msg -> Request] /\ Bound(n)
      BY <1>1 DEF LockInv, TypeOK
    <3>1. ASSUME TargetTheDomain(n) \/ Retarget(n) \/ RemoveHeaders(n) \/ Accept(n)
          PROVE  pc[m] # pc'[m]
      <4>1. bound["route"] = n
        BY <3>0, <3>1 DEF TargetTheDomain, Retarget, RemoveHeaders, Accept, Bound
      <4>2. pc'[n] # pc[n]
        BY <3>0, <3>1 DEF TargetTheDomain, Retarget, RemoveHeaders, Accept
      <4>3. \A l \in Msg : l # n => req'[l] = req[l]
        BY <3>0, <3>1, <4>1 DEF TargetTheDomain, Retarget, RemoveHeaders, Accept, Of
      <4> QED
        BY <1>1, <4>2, <4>3
    <3>2. ASSUME Reject(n)
          PROVE  pc[m] # pc'[m]
      <4>1. bound["route404"] = n
        BY <3>0, <3>2 DEF Reject, Bound
      <4>2. pc'[n] # pc[n]
        BY <3>0, <3>2 DEF Reject
      <4>3. \A l \in Msg : l # n => req'[l] = req[l]
        BY <3>0, <3>2, <4>1 DEF Reject, Of
      <4> QED
        BY <1>1, <4>2, <4>3
    <3>3. CASE Forward(n)
      BY <1>1, <3>3 DEF Forward, LockInv, TypeOK
    <3>4. CASE UNCHANGED req
      BY <1>1, <3>4
    <3> QED
      BY <2>2, <3>1, <3>2, <3>3, <3>4 DEF Handle, Enter, BindRoute, BindRoute404, NotRoutable,
                                          Leave, Refuse
  <2>3. ASSUME NEW n \in Msg, Finish(n) PROVE FALSE
    BY <1>1, <2>3 DEF Finish
  <2>4. CASE UNCHANGED vars
    BY <1>1, <2>4 DEF vars
  <2> QED
    BY <1>1, <2>1, <2>2, <2>3, <2>4 DEF Next, Idle
<1>2. LockInv /\ [Next]_vars =>
        [\A m \in Msg : req'[m] # req[m] =>
           stage[m] = "absent" \/ pc[m] # pc'[m] \/ stage[m] # stage'[m]]_vars
  BY <1>1
<1> QED
  BY <1>2, LockInvAlways, PTL DEF Spec, HandlersAreIsolated

-----------------------------------------------------------------------------
(* What routing makes of a request                                         *)

Untouched(m) == req[m] = arrived[m] /\ failed[m] = {}

\* Every URI points at the target domain that could be made to.
HostsSet(m) ==
  \A u \in Uri :
    req[m].host[u] = IF Failed(m, "host", u) THEN arrived[m].host[u] ELSE targetDomain

\* The route script has tried to remove Remote-Party-Id.
RouteTried(m) == "Remote-Party-Id" \in req[m].headers => Failed(m, "route", "Remote-Party-Id")

\* What routing leaves of a request in any case.
Kept(m) ==
  /\ req[m].method = arrived[m].method
  /\ \A u \in Uri : req[m].host[u] \in {arrived[m].host[u], targetDomain}

\* The state of a request at each point of the script, and after it.
RouteInv(m) ==
  /\ arrived[m].props = NoProps
  /\ OnlyReferUser(m)
  /\ Kept(m)
  /\ stage[m] = "absent" => Untouched(m)
  /\ stage[m] = "received" /\ pc[m] \in {"out", "bindRoute", "bindRoute404", "isRoutable", "reject"} =>
       Untouched(m)
  /\ pc[m] = "reject" => targetDomain = Empty
  /\ pc[m] \in {"retarget", "removeHeaders", "accept"} =>
       /\ targetDomain # Empty
       /\ req[m].props = NoProps
       /\ HostsSet(m)
       /\ req[m].method = arrived[m].method
       /\ HeadersLeft(m)
  /\ pc[m] = "retarget" => req[m].user = arrived[m].user
  /\ pc[m] \in {"removeHeaders", "accept"} => ReferHasTarget(m)
  /\ pc[m] = "accept" => RouteTried(m)
  /\ pc[m] = "leave" \/ Decided(m) =>
       /\ AllOrNothing(m)
       /\ Action(m) = "continue" => ReferHasTarget(m) /\ HeadersLeft(m) /\ RouteTried(m)
  /\ stage[m] = "sent" => Action(m) = "continue" /\ LeavesByFailure(m)

RInv == LockInv /\ \A m \in Msg : RouteInv(m)

LEMMA AcceptedFacts ==
  ASSUME NEW r \in Request, r.props = NoProps
  PROVE  /\ Accepted(r).props["route-action"] = "continue"
         /\ Accepted(r).props["transaction-timeout"] = "6400"
         /\ Accepted(r).props["enable-refer-retarget"] = "yes"
         /\ Accepted(r).props["reject-reason"] = Empty
         /\ Accepted(r).host = r.host /\ Accepted(r).user = r.user
         /\ Accepted(r).method = r.method /\ Accepted(r).headers = r.headers
  BY DEF Request, Accepted, SetProperty, NoProps, Property

LEMMA RejectedFacts ==
  ASSUME NEW r \in Request, r.props = NoProps
  PROVE  /\ Rejected(r).props["route-action"] = "reject"
         /\ Rejected(r).props["reject-reason"] # Empty
         /\ Rejected(r).user = r.user
         /\ Rejected(r).method = r.method /\ Rejected(r).host = r.host
         /\ [Rejected(r) EXCEPT !.props = NoProps] = r
  BY ConstantsAssumption DEF Request, Rejected, SetProperty, NoProps, Property, Value

\* What a step has failed to do adds to what has failed, and to nothing else.
LEMMA FailureAdded ==
  ASSUME NEW m \in Msg, NEW what, NEW S, failed'[m] = failed[m] \cup ({what} \X S)
  PROVE  /\ \A w, on : w # what => (Failed(m, w, on)' <=> Failed(m, w, on))
         /\ \A on : Failed(m, what, on)' <=> Failed(m, what, on) \/ on \in S
  BY DEF Failed

LEMMA InitRInv == Init => RInv
<1> SUFFICES ASSUME Init, NEW m \in Msg PROVE RouteInv(m)
  BY InitLockInv DEF RInv
<1>1. Blank \in Arrivals
  BY ArrivalsAssumption DEF Blank
<1> QED
  BY <1>1, ArrivalsAssumption DEF Init, RouteInv, OnlyReferUser, Kept, Untouched, Decided

\* A request no step touches.
LEMMA OtherRouteInv ==
  ASSUME NEW n \in Msg, RouteInv(n), UNCHANGED targetDomain,
         req'[n] = req[n], stage'[n] = stage[n], pc'[n] = pc[n],
         arrived'[n] = arrived[n], failed'[n] = failed[n]
  PROVE  RouteInv(n)'
  BY DEF RouteInv, OnlyReferUser, Kept, Untouched, HeadersLeft, ReferHasTarget, AllOrNothing, Action, Decided,
         HostsSet, RouteTried, LeavesByFailure, Failed

LEMMA ReceiveRouteInv ==
  ASSUME LockInv, NEW m \in Msg, NEW r \in Arrivals, Receive(m, r), RouteInv(m)
  PROVE  RouteInv(m)'
<1>1. /\ req'[m] = r /\ arrived'[m] = r /\ stage'[m] = "received" /\ r.props = NoProps
      /\ failed'[m] = {} /\ pc'[m] = "out"
  BY ArrivalsAssumption DEF Receive, RouteInv, Untouched, LockInv, TypeOK, Running
<1> QED
  BY <1>1 DEF RouteInv, OnlyReferUser, Kept, Untouched, Decided

\* Enter, the two bindings, and the branch of isRoutable that refuses.
LEMMA EarlyRouteInv ==
  ASSUME LockInv, NEW m \in Msg, RouteInv(m),
         Enter(m) \/ BindRoute(m) \/ BindRoute404(m) \/ NotRoutable(m)
  PROVE  RouteInv(m)'
<1>1. /\ UNCHANGED <<targetDomain, req, stage, arrived, failed>>
      /\ stage[m] = "received"
      /\ pc[m] \in {"out", "bindRoute", "bindRoute404", "isRoutable"}
      /\ pc'[m] \in {"bindRoute", "bindRoute404", "isRoutable", "reject"}
      /\ pc'[m] = "reject" => targetDomain = Empty
  BY DEF Enter, BindRoute, BindRoute404, NotRoutable, LockInv, TypeOK, Running
<1> QED
  BY <1>1 DEF RouteInv, OnlyReferUser, Kept, Untouched, Decided

LEMMA TargetRouteInv ==
  ASSUME LockInv, NEW m \in Msg, RouteInv(m), TargetTheDomain(m)
  PROVE  RouteInv(m)'
<1>1. /\ bound["route"] = m /\ stage[m] = "received" /\ pc[m] = "isRoutable"
      /\ targetDomain # Empty /\ req[m] \in Request
  BY DEF TargetTheDomain, LockInv, TypeOK, Bound, Running
<1>2. PICK done \in SUBSET Uri :
        /\ req'[m] = SetTargetDomain(req[m], targetDomain, done)
        /\ failed'[m] = failed[m] \cup ({"host"} \X (Uri \ done))
  BY <1>1 DEF TargetTheDomain, Of, LockInv, TypeOK
<1>3. /\ pc'[m] = "retarget"
      /\ UNCHANGED <<targetDomain, stage, arrived>>
  BY <1>1 DEF TargetTheDomain, LockInv, TypeOK
<1>4. /\ req'[m].props = req[m].props /\ req'[m].user = req[m].user
      /\ req'[m].method = req[m].method /\ req'[m].headers = req[m].headers
      /\ \A u \in Uri : req'[m].host[u] = IF u \in done THEN targetDomain ELSE req[m].host[u]
  BY <1>1, <1>2 DEF SetTargetDomain, Request
<1>5. Untouched(m)
  BY <1>1 DEF RouteInv
<1>6. OnlyReferUser(m)' /\ HeadersLeft(m)'
  BY <1>3, <1>4, <1>5 DEF OnlyReferUser, HeadersLeft, Untouched
<1>7. HostsSet(m)'
  <2>1. \A u \in Uri : Failed(m, "host", u)' <=> u \notin done
    BY <1>2, <1>5, FailureAdded DEF Untouched, Failed
  <2> QED
    BY <1>3, <1>4, <1>5, <2>1 DEF HostsSet, Untouched
<1>8. Kept(m)'
  <2>1. \A u \in Uri : req'[m].host[u] \in {req[m].host[u], targetDomain}
    BY <1>1, <1>2 DEF SetTargetDomain, Request
  <2> QED
    BY <1>3, <1>4, <1>5, <2>1 DEF Kept, Untouched
<1> QED
  BY <1>1, <1>3, <1>4, <1>5, <1>6, <1>7, <1>8 DEF RouteInv, Untouched, Decided

LEMMA RetargetRouteInv ==
  ASSUME LockInv, NEW m \in Msg, RouteInv(m), Retarget(m)
  PROVE  RouteInv(m)'
<1>1. /\ bound["route"] = m /\ stage[m] = "received" /\ pc[m] = "retarget"
      /\ req[m] \in Request /\ pc'[m] = "removeHeaders"
      /\ UNCHANGED <<targetDomain, stage, arrived>>
  BY DEF Retarget, LockInv, TypeOK, Bound, Running
<1>2. \/ /\ Retargeted(req[m])
         /\ req'[m] = SetUser(req[m], "ruri", req[m].user["to"])
         /\ failed'[m] = failed[m]
      \/ /\ Retargeted(req[m])
         /\ req'[m] = req[m] /\ failed'[m] = failed[m] \cup ({"user"} \X {"ruri"})
      \/ /\ ~Retargeted(req[m])
         /\ req'[m] = req[m] /\ failed'[m] = failed[m]
  BY <1>1 DEF Retarget, Of, LockInv, TypeOK
<1>3. /\ req'[m].props = req[m].props /\ req'[m].host = req[m].host
      /\ req'[m].method = req[m].method /\ req'[m].headers = req[m].headers
  BY <1>1, <1>2 DEF SetUser, Request
<1>4. /\ req[m].user = arrived[m].user
      /\ req[m].method = arrived[m].method
  BY <1>1 DEF RouteInv
<1>5. OnlyReferUser(m)' /\ ReferHasTarget(m)'
  <2>1. ASSUME Retargeted(req[m]), req'[m] = SetUser(req[m], "ruri", req[m].user["to"])
        PROVE  /\ req'[m].user = [req[m].user EXCEPT !["ruri"] = req[m].user["to"]]
               /\ req'[m].user["ruri"] # Empty
    BY <1>1, <2>1 DEF SetUser, Request, Retargeted, Uri
  <2>2. CASE Retargeted(req[m]) /\ req'[m] = SetUser(req[m], "ruri", req[m].user["to"])
    BY <1>1, <1>4, <2>1, <2>2 DEF OnlyReferUser, ReferHasTarget, Retargeted, IsRequest
  <2>3. CASE req'[m] = req[m] /\ (Failed(m, "user", "ruri")' \/ ~Retargeted(req[m]))
    BY <1>1, <1>4, <2>3 DEF OnlyReferUser, ReferHasTarget, Retargeted, IsRequest
  <2> QED
    BY <1>2, <2>2, <2>3 DEF Failed
<1>6. HeadersLeft(m)' /\ Kept(m)' /\ HostsSet(m)'
  <2>1. \A u \in Uri : Failed(m, "host", u)' <=> Failed(m, "host", u)
    BY <1>2, FailureAdded DEF Failed
  <2> QED
    BY <1>1, <1>3, <2>1 DEF RouteInv, HeadersLeft, Kept, HostsSet
<1> QED
  BY <1>1, <1>3, <1>5, <1>6 DEF RouteInv, Decided

LEMMA RemoveHeadersRouteInv ==
  ASSUME LockInv, NEW m \in Msg, RouteInv(m), RemoveHeaders(m)
  PROVE  RouteInv(m)'
<1>1. /\ bound["route"] = m /\ stage[m] = "received" /\ pc[m] = "removeHeaders"
      /\ req[m] \in Request /\ pc'[m] = "accept"
      /\ UNCHANGED <<targetDomain, stage, arrived>>
  BY DEF RemoveHeaders, LockInv, TypeOK, Bound, Running
<1>2. PICK lost \in SUBSET (RouteRemoves \cap req[m].headers) :
        /\ req'[m] = HdrRemove(req[m], RouteRemoves, lost)
        /\ failed'[m] = failed[m] \cup ({"route"} \X lost)
  BY <1>1 DEF RemoveHeaders, Of, LockInv, TypeOK
<1>3. /\ req'[m].props = req[m].props /\ req'[m].host = req[m].host
      /\ req'[m].method = req[m].method /\ req'[m].user = req[m].user
      /\ req'[m].headers = req[m].headers \ (RouteRemoves \ lost)
  BY <1>1, <1>2 DEF HdrRemove, Request
<1>4. /\ \A w, on : w # "route" => (Failed(m, w, on)' <=> Failed(m, w, on))
      /\ \A on \in lost : Failed(m, "route", on)'
  BY <1>2, FailureAdded
<1>5. HeadersLeft(m)'
  <2>1. "Accept-Laguage" \notin arrived[m].headers
    BY HeaderNames DEF LockInv, TypeOK, Request
  <2> QED
    BY <1>1, <1>3, <2>1 DEF RouteInv, HeadersLeft, Offending, RouteRemoves
<1>6. RouteTried(m)'
  BY <1>3, <1>4 DEF RouteTried, RouteRemoves
<1>7. OnlyReferUser(m)' /\ ReferHasTarget(m)' /\ Kept(m)' /\ HostsSet(m)'
  BY <1>1, <1>3, <1>4 DEF RouteInv, OnlyReferUser, ReferHasTarget, Kept, HostsSet
<1> QED
  BY <1>1, <1>3, <1>5, <1>6, <1>7 DEF RouteInv, Decided

LEMMA AcceptRouteInv ==
  ASSUME LockInv, NEW m \in Msg, RouteInv(m), Accept(m)
  PROVE  RouteInv(m)'
<1>1. /\ bound["route"] = m /\ stage[m] = "received" /\ pc[m] = "accept"
      /\ req[m] \in Request /\ pc'[m] = "leave"
      /\ UNCHANGED <<targetDomain, stage, arrived, failed>>
  BY DEF Accept, LockInv, TypeOK, Bound, Running
<1>2. req'[m] = Accepted(req[m])
  BY <1>1 DEF Accept, Of, LockInv, TypeOK
<1>3. req[m].props = NoProps
  BY <1>1 DEF RouteInv
<1>4. AllOrNothing(m)' /\ Action(m)' = "continue"
  BY <1>1, <1>2, <1>3, AcceptedFacts DEF RouteInv, AllOrNothing, Action, HostsSet, Failed
<1>5. OnlyReferUser(m)' /\ ReferHasTarget(m)' /\ HeadersLeft(m)' /\ Kept(m)' /\ RouteTried(m)'
  BY <1>1, <1>2, <1>3, AcceptedFacts
     DEF RouteInv, OnlyReferUser, ReferHasTarget, HeadersLeft, Kept, RouteTried, Failed
<1> QED
  BY <1>1, <1>4, <1>5 DEF RouteInv, Decided

LEMMA RejectRouteInv ==
  ASSUME LockInv, NEW m \in Msg, RouteInv(m), Reject(m)
  PROVE  RouteInv(m)'
<1>1. /\ bound["route404"] = m /\ stage[m] = "received" /\ pc[m] = "reject"
      /\ req[m] \in Request /\ pc'[m] = "leave"
      /\ UNCHANGED <<targetDomain, stage, arrived, failed>>
  BY DEF Reject, LockInv, TypeOK, Bound, Running
<1>2. req'[m] = Rejected(req[m])
  BY <1>1 DEF Reject, Of, LockInv, TypeOK
<1>3. req[m] = arrived[m] /\ req[m].props = NoProps /\ targetDomain = Empty
  BY <1>1 DEF RouteInv, Untouched
<1>4. AllOrNothing(m)' /\ Action(m)' = "reject"
  BY <1>1, <1>2, <1>3, RejectedFacts DEF AllOrNothing, Action
<1>5. OnlyReferUser(m)' /\ Kept(m)'
  BY <1>1, <1>2, <1>3, RejectedFacts DEF OnlyReferUser, Kept
<1> QED
  BY <1>1, <1>4, <1>5 DEF RouteInv, Decided

\* Leave, Refuse and Finish change no request.
LEMMA LateRouteInv ==
  ASSUME LockInv, NEW m \in Msg, RouteInv(m), Leave(m) \/ Refuse(m) \/ Finish(m)
  PROVE  RouteInv(m)'
<1>1. /\ UNCHANGED <<targetDomain, req, arrived, failed>>
      /\ pc[m] = "leave" \/ Decided(m)
      /\ pc'[m] = "out"
      /\ Decided(m)' /\ stage'[m] # "sent"
  BY DEF Leave, Left, Refuse, Finish, LockInv, TypeOK, Running, Decided
<1>2. /\ AllOrNothing(m)'
      /\ Action(m)' = "continue" => ReferHasTarget(m)' /\ HeadersLeft(m)' /\ RouteTried(m)'
  BY <1>1 DEF RouteInv, AllOrNothing, Action, ReferHasTarget, HeadersLeft, RouteTried, Failed
<1>3. OnlyReferUser(m)' /\ Kept(m)' /\ arrived'[m].props = NoProps
  BY <1>1 DEF RouteInv, OnlyReferUser, Kept
<1> QED
  BY <1>1, <1>2, <1>3 DEF RouteInv, Decided

LEMMA ForwardRouteInv ==
  ASSUME LockInv, NEW m \in Msg, RouteInv(m), Forward(m)
  PROVE  RouteInv(m)'
<1>1. /\ stage[m] = "routed" /\ stage'[m] = "sent" /\ pc[m] = "out" /\ pc'[m] = "out"
      /\ req[m] \in Request /\ Action(m) = "continue"
      /\ UNCHANGED <<targetDomain, arrived>>
  BY DEF Forward, EngineIsFree, LockInv, TypeOK, Running, Action
<1>2. PICK lost \in SUBSET (OutboundRemoves \cap req[m].headers) :
        /\ req'[m] = OutboundRequest(req[m], lost)
        /\ failed'[m] = failed[m] \cup ({"outbound"} \X lost)
  BY <1>1 DEF Forward, LockInv, TypeOK
<1>3. /\ req'[m].props = req[m].props /\ req'[m].host = req[m].host
      /\ req'[m].method = req[m].method /\ req'[m].user = req[m].user
      /\ req'[m].headers = req[m].headers \ (OutboundRemoves \ lost)
  BY <1>1, <1>2 DEF OutboundRequest, HdrRemove, Request
<1>4. AllOrNothing(m) /\ ReferHasTarget(m) /\ HeadersLeft(m) /\ OnlyReferUser(m) /\ Kept(m)
      /\ RouteTried(m)
  BY <1>1 DEF RouteInv, Decided
<1>5. /\ \A w, on : w # "outbound" => (Failed(m, w, on)' <=> Failed(m, w, on))
      /\ \A on \in lost : Failed(m, "outbound", on)'
  BY <1>2, FailureAdded
<1>6. HeadersLeft(m)'
  BY <1>1, <1>3, <1>4 DEF HeadersLeft, OutboundRemoves, Offending
<1>7. LeavesByFailure(m)' /\ RouteTried(m)'
  BY <1>3, <1>4, <1>5 DEF LeavesByFailure, RouteTried, OutboundRemoves
<1>8. AllOrNothing(m)' /\ Action(m)' = "continue"
  BY <1>1, <1>3, <1>4, <1>5 DEF AllOrNothing, Action
<1>9. ReferHasTarget(m)' /\ OnlyReferUser(m)' /\ Kept(m)'
  BY <1>1, <1>3, <1>4, <1>5 DEF ReferHasTarget, OnlyReferUser, Kept
<1> QED
  BY <1>1, <1>6, <1>7, <1>8, <1>9 DEF RouteInv, Decided

\* A handler disturbs no request but its own, which is Isolation once more.
LEMMA HandleTouchesOwn ==
  ASSUME LockInv, NEW m \in Msg, Handle(m) \/ Finish(m), NEW n \in Msg, n # m
  PROVE  /\ UNCHANGED <<targetDomain, arrived>>
         /\ req'[n] = req[n] /\ stage'[n] = stage[n] /\ pc'[n] = pc[n]
         /\ failed'[n] = failed[n]
<1> /\ pc \in [Msg -> PC] /\ req \in [Msg -> Request] /\ Bound(m)
    /\ failed \in [Msg -> SUBSET Failure] /\ DOMAIN stage = Msg
    /\ stage = [x \in Msg |-> stage[x]]
  BY DEF LockInv, TypeOK
<1>1. CASE TargetTheDomain(m) \/ Retarget(m) \/ RemoveHeaders(m) \/ Accept(m)
  <2>1. bound["route"] = m
    BY <1>1 DEF TargetTheDomain, Retarget, RemoveHeaders, Accept, Bound
  <2> QED
    BY <1>1, <2>1 DEF TargetTheDomain, Retarget, RemoveHeaders, Accept, Of
<1>2. CASE Reject(m)
  <2>1. bound["route404"] = m
    BY <1>2 DEF Reject, Bound
  <2> QED
    BY <1>2, <2>1 DEF Reject, Of
<1>3. CASE Forward(m)
  BY <1>3 DEF Forward
<1>4. CASE Enter(m) \/ BindRoute(m) \/ BindRoute404(m) \/ NotRoutable(m)
  BY <1>4 DEF Enter, BindRoute, BindRoute404, NotRoutable
<1>5. CASE Leave(m) \/ Refuse(m) \/ Finish(m)
  BY <1>5 DEF Leave, Left, Refuse, Finish
<1> QED
  BY <1>1, <1>2, <1>3, <1>4, <1>5 DEF Handle

LEMMA NextRInv == RInv /\ [Next]_vars => RInv'
<1> SUFFICES ASSUME RInv, [Next]_vars, NEW n \in Msg PROVE RouteInv(n)'
  BY NextLockInv DEF RInv
<1> LockInv /\ \A m \in Msg : RouteInv(m)
  BY DEF RInv
<1>1. ASSUME NEW m \in Msg, NEW r \in Arrivals, Receive(m, r) PROVE RouteInv(n)'
  <2>1. CASE n = m
    BY <1>1, <2>1, ReceiveRouteInv
  <2>2. CASE n # m
    <3>1. /\ UNCHANGED targetDomain
          /\ req'[n] = req[n] /\ arrived'[n] = arrived[n] /\ failed'[n] = failed[n]
          /\ stage'[n] = stage[n] /\ pc'[n] = pc[n]
      BY <1>1, <2>2 DEF Receive, LockInv, TypeOK
    <3> QED
      BY <3>1, OtherRouteInv
  <2> QED
    BY <2>1, <2>2
<1>2. ASSUME NEW m \in Msg, Handle(m) \/ Finish(m) PROVE RouteInv(n)'
  <2>1. CASE n = m
    BY <1>2, <2>1, EarlyRouteInv, TargetRouteInv, RetargetRouteInv, RemoveHeadersRouteInv,
       AcceptRouteInv, RejectRouteInv, LateRouteInv, ForwardRouteInv DEF Handle
  <2>2. CASE n # m
    BY <1>2, <2>2, HandleTouchesOwn, OtherRouteInv
  <2> QED
    BY <2>1, <2>2
<1>3. CASE UNCHANGED vars
  <2>1. /\ UNCHANGED targetDomain
        /\ req'[n] = req[n] /\ arrived'[n] = arrived[n] /\ failed'[n] = failed[n]
        /\ stage'[n] = stage[n] /\ pc'[n] = pc[n]
    BY <1>3 DEF vars
  <2> QED
    BY <2>1, OtherRouteInv
<1> QED
  BY <1>1, <1>2, <1>3 DEF Next, Idle

THEOREM RInvAlways == Spec => []RInv
  BY InitRInv, NextRInv, PTL DEF Spec

\* A request leaves the route script accepted, with every URI at the target domain but
\* those the native failed to set, which are as they arrived; or refused and otherwise
\* as it arrived.
THEOREM AllOrNothingAlways == Spec => []RoutingIsAllOrNothing
<1>1. RInv => RoutingIsAllOrNothing
  BY DEF RInv, RouteInv, RoutingIsAllOrNothing
<1> QED
  BY <1>1, RInvAlways, PTL

\* The retarget of a REFER overwrites no target and touches no other request.
THEOREM ReferRetargeted == Spec => []ReferIsRetargeted
<1>1. RInv => ReferIsRetargeted
  BY DEF RInv, RouteInv, ReferIsRetargeted, Decided
<1> QED
  BY <1>1, RInvAlways, PTL

\* The route script and the outbound script together remove the two offending headers
\* and no other: one is still there only if every removal of it that was asked for has
\* failed.
THEOREM HeadersRemoved == Spec => []OffendingHeadersAreRemoved
<1>1. RInv => OffendingHeadersAreRemoved
  BY DEF RInv, RouteInv, Decided, OffendingHeadersAreRemoved
<1> QED
  BY <1>1, RInvAlways, PTL

-----------------------------------------------------------------------------
(* Routing implements its contract                                         *)

LEMMA InitContract == Init => Contract!Init
<1> SUFFICES ASSUME Init PROVE Contract!Init
  OBVIOUS
<1>1. View = [m \in Msg |-> Blank]
  BY DEF Init, View
<1>2. Blank \in Arrivals
  BY ArrivalsAssumption DEF Blank
<1> QED
  BY <1>1, <1>2 DEF Init, Contract!Init

\* A step that changes no request as the others see it, and no stage.
LEMMA HiddenStep ==
  ASSUME RInv, NEW m \in Msg, stage[m] = "received",
         UNCHANGED <<targetDomain, stage, arrived>>,
         \A n \in Msg \ {m} : req'[n] = req[n]
  PROVE  UNCHANGED Contract!vars
<1>1. UNCHANGED View
  BY DEF View
<1> QED
  BY <1>1 DEF Contract!vars

\* The view after a step on m.
LEMMA ViewStep ==
  ASSUME RInv, NEW m \in Msg, NEW to,
         stage' = [stage EXCEPT ![m] = to],
         \A n \in Msg \ {m} : req'[n] = req[n] /\ arrived'[n] = arrived[n]
  PROVE  /\ View'[m] = IF to = "received" THEN arrived'[m] ELSE req'[m]
         /\ \A n \in Msg \ {m} : View'[n] = View[n]
  BY DEF View, RInv, LockInv, TypeOK

LEMMA LeaveContract ==
  ASSUME RInv, NEW m \in Msg, Leave(m)
  PROVE  Contract!Decide(m)
<1>1. /\ pc[m] = "leave" /\ stage[m] = "received"
      /\ stage' = [stage EXCEPT ![m] = "routed"]
      /\ UNCHANGED <<targetDomain, req, arrived>>
      /\ RouteInv(m)
  BY DEF Leave, RInv, LockInv, TypeOK, Running
<1>2. /\ View[m] = arrived[m] /\ View'[m] = req[m]
      /\ \A n \in Msg \ {m} : View'[n] = View[n]
  BY <1>1, ViewStep DEF View
<1>3. CASE Action(m) = "continue"
  <2>1. req[m].user \in Contract!UsersOf(arrived[m])
    BY <1>1 DEF RouteInv, OnlyReferUser, Contract!UsersOf
  <2>2. Contract!Accepts(arrived[m], req[m])
    BY <1>1, <1>3, <2>1 DEF RouteInv, Kept, HeadersLeft, AllOrNothing, Action, Contract!Accepts
  <2> QED
    BY <1>1, <1>2, <2>2 DEF Contract!Decide, Contract!GoesOn, Contract!OnlyChanges
<1>4. CASE Action(m) = "reject"
  <2>1. arrived[m].props = NoProps
    BY <1>1 DEF RouteInv
  <2>2. Contract!Refuses(arrived[m], req[m])
    BY <1>1, <1>4, <2>1 DEF RouteInv, AllOrNothing, Action, Contract!Refuses
  <2> QED
    BY <1>1, <1>2, <2>2 DEF Contract!Decide, Contract!GoesOn, Contract!OnlyChanges
<1> QED
  BY <1>1, <1>3, <1>4 DEF RouteInv, AllOrNothing

LEMMA ForwardContract ==
  ASSUME RInv, NEW m \in Msg, Forward(m)
  PROVE  Contract!Send(m)
<1>1. /\ stage[m] = "routed" /\ stage' = [stage EXCEPT ![m] = "sent"]
      /\ req[m].props["route-action"] = "continue"
      /\ UNCHANGED <<targetDomain, arrived>>
      /\ req \in [Msg -> Request]
      /\ \A n \in Msg \ {m} : req'[n] = req[n]
      /\ \E lost \in SUBSET OutboundRemoves : req'[m] = OutboundRequest(req[m], lost)
  BY DEF Forward, RInv, LockInv, TypeOK
<1>2. \E gone \in SUBSET Offending : req'[m] = [req[m] EXCEPT !.headers = @ \ gone]
  BY <1>1 DEF OutboundRequest, HdrRemove, OutboundRemoves, Offending
<1>3. /\ View[m] = req[m] /\ View'[m] = req'[m]
      /\ \A n \in Msg \ {m} : View'[n] = View[n]
  BY <1>1, ViewStep DEF View
<1> QED
  BY <1>1, <1>2, <1>3 DEF Contract!Send, Contract!GoesOn, Contract!OnlyChanges

\* Every step is one of the contract, or one that nobody else sees.
LEMMA ContractStep == RInv /\ [Next]_vars => [Contract!Next]_(Contract!vars)
<1> SUFFICES ASSUME RInv, [Next]_vars PROVE Contract!Next \/ UNCHANGED Contract!vars
  OBVIOUS
<1> LockInv /\ TypeOK
  BY DEF RInv, LockInv
<1>1. ASSUME NEW m \in Msg, NEW r \in Arrivals, Receive(m, r) PROVE Contract!Next
  <2>1. /\ stage[m] = "absent" /\ stage' = [stage EXCEPT ![m] = "received"]
        /\ arrived'[m] = r /\ UNCHANGED targetDomain
        /\ \A n \in Msg \ {m} : req'[n] = req[n] /\ arrived'[n] = arrived[n]
    BY <1>1 DEF Receive, TypeOK
  <2>2. View'[m] = r /\ \A n \in Msg \ {m} : View'[n] = View[n]
    BY <2>1, ViewStep
  <2>3. Contract!Receive(m)
    BY <2>1, <2>2 DEF Contract!Receive, Contract!GoesOn, Contract!OnlyChanges
  <2> QED
    BY <2>3 DEF Contract!Next
<1>2. ASSUME NEW m \in Msg, pc[m] # "leave", Handle(m), stage'[m] = stage[m]
      PROVE  UNCHANGED Contract!vars
  <2>1. stage[m] = "received" /\ UNCHANGED stage
    BY <1>2 DEF Handle, Enter, BindRoute, BindRoute404, NotRoutable, TargetTheDomain, Retarget,
                RemoveHeaders, Accept, Reject, Leave, Forward, Refuse, TypeOK, Running
  <2>2. UNCHANGED <<targetDomain, arrived>> /\ \A n \in Msg \ {m} : req'[n] = req[n]
    BY <1>2, HandleTouchesOwn, <2>1 DEF Handle, Enter, BindRoute, BindRoute404, NotRoutable,
       TargetTheDomain, Retarget, RemoveHeaders, Accept, Reject, Leave, Forward, Refuse
  <2> QED
    BY <2>1, <2>2, HiddenStep
<1>3. ASSUME NEW m \in Msg, Refuse(m) PROVE Contract!Next
  <2>1. View[m] = req[m] /\ UNCHANGED View
    BY <1>3 DEF Refuse, View, TypeOK
  <2>2. Contract!Refuse(m)
    BY <1>3, <2>1 DEF Refuse, Contract!Refuse, Contract!GoesOn
  <2> QED
    BY <2>2 DEF Contract!Next
<1>4. ASSUME NEW m \in Msg, Finish(m) PROVE Contract!Next
  <2>1. UNCHANGED View
    BY <1>4 DEF Finish, View, TypeOK
  <2>2. Contract!Finish(m)
    BY <1>4, <2>1 DEF Finish, Contract!Finish, Contract!GoesOn
  <2> QED
    BY <2>2 DEF Contract!Next
<1>5. ASSUME NEW m \in Msg, Handle(m) PROVE Contract!Next \/ UNCHANGED Contract!vars
  <2>1. CASE Leave(m)
    BY <2>1, LeaveContract DEF Contract!Next
  <2>2. CASE Forward(m)
    BY <2>2, ForwardContract DEF Contract!Next
  <2>3. CASE Refuse(m)
    BY <1>3, <2>3
  <2>4. CASE pc[m] # "leave" /\ stage'[m] = stage[m]
    BY <1>2, <1>5, <2>4
  <2> QED
    BY <1>5, <2>1, <2>2, <2>3, <2>4 DEF Handle, Enter, BindRoute, BindRoute404, NotRoutable,
       TargetTheDomain, Retarget, RemoveHeaders, Accept, Reject
<1>6. CASE UNCHANGED vars
  BY <1>6 DEF vars, View, Contract!vars
<1> QED
  BY <1>1, <1>4, <1>5, <1>6 DEF Next, Idle

\* Routing implements its contract: the many steps of the handlers, which take
\* turns and share their objects, are for each request one decision.
THEOREM RoutingKeepsContract == Spec => KeepsContract
<1>1. Init => Contract!Init
  BY InitContract
<1>2. RInv /\ [Next]_vars => [Contract!Next]_(Contract!vars)
  BY ContractStep
<1> QED
  BY <1>1, <1>2, RInvAlways, PTL DEF Spec, KeepsContract, Contract!Spec

=============================================================================
