----------------------------- MODULE MCRouteProfile -----------------------------
(***************************************************************************)
(* Small instances of RouteProfile: a REGISTER and a copy of it in one     *)
(* transaction, a response in another, a message without a transaction.    *)
(***************************************************************************)
EXTENDS RouteProfile, SequencesExt

CONSTANTS register, copy, response, stray, t1, t2

MCTrnOf == [m \in Message |-> CASE m \in {register, copy} -> t1
                                [] m = response -> t2
                                [] m = stray -> Nil]

MCMethodOf == [m \in Message |-> CASE m \in {register, stray} -> "REGISTER"
                                   [] m = copy -> "INVITE"
                                   [] m = response -> None]

MCString == Switch \cup Credential \cup {"0", "1", "?", "a", "b", "c", "log-id", "6400",
  "continue", "reject", "bridge-to-gateway", "bridge-to-sbc", "bridge-to-conference",
  "REGISTER", "INVITE"} \cup MsgProperty

\* The URIs as they arrive; a response has no request-uri.
MCContentOf == [m \in Message |->
  LET parts == [u \in Uri |-> IF u = "ruri" /\ m = response THEN Empty ELSE "c"]
  IN [method |-> MethodOf[m], user |-> parts, host |-> parts]]

Registration(user, password, expires, index) ==
  [user |-> user, domain |-> "a", password |-> password, registrar |-> "a",
   expires |-> expires, index |-> index]

\* Two interfaces, an index beyond them, and arguments of a wrong type.
MCGatewayArg ==
  {Registration("a", "a", 600, index) : index \in 0 .. 2} \cup
  {Registration(Undefined, "a", 600, 0), Registration("a", Other, 600, 0)}

\* One of the interfaces lacks its port.
MCSipInterfaceAddress == <<"a", "b">>

MCSipInterfacePort == <<5060>>

MCOwnName == {"a", "invoke-local-handler", "auth-realm", "target-port", "conf-pin", "action",
              Undefined}

\* Calls that work on the same state come after each other, those that do not
\* need not be mixed; the start line decides what handleLocalReg does.
MCLimits == {[transaction |-> t, property |-> p, uri |-> u, header |-> h, string |-> s] :
  <<t, p, u, h, s>> \in {<<3, 0, 0, 0, 0>>, <<2, 0, 1, 0, 0>>, <<0, 2, 0, 0, 0>>, <<1, 1, 0, 0, 0>>,
                         <<0, 0, 2, 0, 0>>, <<0, 0, 0, 1, 0>>, <<0, 0, 0, 0, 1>>}}

OneCall == {[k \in Kind |-> IF k = kind THEN 1 ELSE 0] : kind \in Kind}

MCDialled == SeqOf({1, 9}, 3)

=============================================================================
