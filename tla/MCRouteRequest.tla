---------------------------- MODULE MCRouteRequest ----------------------------
(***************************************************************************)
(* Small instances of RouteRequest.                                        *)
(***************************************************************************)
EXTENDS RouteRequest, TLC

\* Every method, with and without a user in the request-uri and in the To, and
\* with none or all of the headers.
SmallArrivals ==
  {[method |-> x, user |-> [ruri |-> a, from |-> Empty, to |-> b],
    host |-> [u \in Uri |-> h], headers |-> s, props |-> NoProps] :
     x \in Method, a \in User \cup {Empty}, b \in User \cup {Empty}, h \in Host,
     s \in {{}, Header}}

MsgSymmetry == Permutations(Msg)

=============================================================================
