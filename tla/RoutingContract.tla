---------------------------- MODULE RoutingContract ----------------------------
(***************************************************************************)
(* What the routing scripts promise of each request, whatever other        *)
(* requests are being routed: it is decided at one point, accepted as a    *)
(* whole or refused and otherwise as it arrived, and then sent, having     *)
(* lost no header but those that offend.  Nothing is said of handlers, of  *)
(* the objects they share or of the order in which they work.              *)
(*                                                                         *)
(* Setting a part of a URI or removing a header may fail without anybody   *)
(* noticing, and then the part or the header stays as it was.              *)
(***************************************************************************)
EXTENDS Naturals

CONSTANTS Msg, Domain, Uri, Arrivals, Offending, Empty

VARIABLES
  targetDomain,  \* where accepted requests go, Empty if nowhere
  phase,         \* phase[m]: how far m has come
  request        \* request[m]: what m is like

vars == <<targetDomain, phase, request>>

Init ==
  /\ targetDomain \in Domain \cup {Empty}
  /\ phase = [m \in Msg |-> "absent"]
  /\ request \in [Msg -> Arrivals]

GoesOn(m, from, to) ==
  /\ phase[m] = from
  /\ phase' = [phase EXCEPT ![m] = to]
  /\ UNCHANGED targetDomain

OnlyChanges(m) == \A n \in Msg \ {m} : request'[n] = request[n]

Receive(m) ==
  /\ GoesOn(m, "absent", "received")
  /\ request'[m] \in Arrivals
  /\ OnlyChanges(m)

\* The users of r after routing: a REFER to nobody goes to the user of its To.
UsersOf(r) ==
  {r.user} \cup
  IF r.method = "REFER" /\ r.user["ruri"] = Empty
  THEN {[r.user EXCEPT !["ruri"] = r.user["to"]]} ELSE {}

Accepts(r, q) ==
  /\ targetDomain # Empty
  /\ q.method = r.method
  /\ q.user \in UsersOf(r)
  /\ \A u \in Uri : q.host[u] \in {r.host[u], targetDomain}
  /\ q.headers \subseteq r.headers /\ r.headers \subseteq q.headers \cup Offending
  /\ q.props["route-action"] = "continue"
  /\ q.props["transaction-timeout"] = "6400"
  /\ q.props["enable-refer-retarget"] = "yes"

Refuses(r, q) ==
  /\ targetDomain = Empty
  /\ [q EXCEPT !.props = r.props] = r
  /\ q.props["route-action"] = "reject"
  /\ q.props["reject-reason"] # Empty

Decide(m) ==
  /\ GoesOn(m, "received", "routed")
  /\ Accepts(request[m], request'[m]) \/ Refuses(request[m], request'[m])
  /\ OnlyChanges(m)

Send(m) ==
  /\ GoesOn(m, "routed", "sent")
  /\ request[m].props["route-action"] = "continue"
  /\ \E gone \in SUBSET Offending :
       request'[m] = [request[m] EXCEPT !.headers = @ \ gone]
  /\ OnlyChanges(m)

Refuse(m) ==
  /\ GoesOn(m, "routed", "refused")
  /\ request[m].props["route-action"] = "reject"
  /\ UNCHANGED request

Finish(m) ==
  /\ GoesOn(m, "sent", "freed") \/ GoesOn(m, "refused", "freed")
  /\ UNCHANGED request

Next == \E m \in Msg : Receive(m) \/ Decide(m) \/ Send(m) \/ Refuse(m) \/ Finish(m)

Spec == Init /\ [][Next]_vars

=============================================================================
