----------------------------- MODULE AccessControl -----------------------------
(***************************************************************************)
(* Access control in a site's scripts: AuthProfile with its AccessList     *)
(* and, inherited from TransactionProfile, the list of properties it sets  *)
(* on the transaction of every request it accepts.                         *)
(*                                                                         *)
(* AuthProfile.prototype is one TransactionProfile, made once: the list    *)
(* of properties belongs to all the profiles together, while each has an   *)
(* access list of its own.  Scripts fill the lists and verify a request,   *)
(* once or more often, in any order; the script engine runs one handler at *)
(* a time.  The transport of a transaction may close whenever it likes,    *)
(* and with it goes the source address of its messages, or the process if  *)
(* it closes while the address is being read.                              *)
(***************************************************************************)
EXTENDS ScriptDefs, Sequences

CONSTANTS
  Profile,     \* AuthProfile objects
  Network,     \* network prefixes in CIDR notation
  NetworksOf,  \* NetworksOf[m]: those that the source of m lies in
  Property,    \* PropertyObjects that scripts make
  MaxParams    \* bound on the length of the list

ASSUME AccessAssumption ==
  /\ MaxParams \in Nat
  /\ Empty \notin {"accept", "reject"}
  /\ Nil \notin [message : Message, i : Nat]
  /\ NetworksOf \in [Message -> SUBSET Network]
  /\ \A q \in Property : DOMAIN q = {"name", "value", "requestType"}
  /\ \A q \in Property : q.name \in Value /\ q.value \in Value

VARIABLES
  trustEveryone,   \* trustEveryone[p]
  trustedNetwork,  \* trustedNetwork[p]: networks
  params,          \* the one _transactionParams
  connected,       \* connected[t]: transaction t has a server transport
  authAction,      \* authAction[m]: the property auth-action of m, Empty if not set
  trn,             \* trn[t]: the properties of transaction t
  loop,            \* setProperties: its message and its index i, Nil outside
  before,          \* history: trn when setProperties was entered
  verifier,        \* history: verifier[m], the profile that verified m last
  accepted,        \* history: the messages that a profile has accepted since the process started
  listed           \* history: every entry the list has had

listVars == <<trustEveryone, trustedNetwork, params, listed>>
verdictVars == <<authAction, verifier, accepted>>
vars == <<listVars, verdictVars, connected, trn, loop, before>>

Init ==
  /\ trustEveryone = [p \in Profile |-> FALSE]
  /\ trustedNetwork = [p \in Profile |-> {}]
  /\ params = <<>>
  /\ connected = [t \in Transaction |-> TRUE]
  /\ authAction = [m \in Message |-> Empty]
  /\ trn = [t \in Transaction |-> NoProps]
  /\ loop = Nil
  /\ before = trn
  /\ verifier = [m \in Message |-> Nil]
  /\ accepted = {}
  /\ listed = {}

NoLock == TRUE

\* No handler is inside setProperties, the only method that takes several steps.
EngineIsFree == loop = Nil

-----------------------------------------------------------------------------
(* The scripts fill the lists *)

TrustEveryone(p) ==
  /\ trustEveryone' = [trustEveryone EXCEPT ![p] = TRUE]
  /\ UNCHANGED <<trustedNetwork, params, listed>>

TrustNetwork(p, n) ==
  /\ trustedNetwork' = [trustedNetwork EXCEPT ![p] = @ \cup {n}]
  /\ UNCHANGED <<trustEveryone, params, listed>>

\* p._transactionParams.push(q), for any profile p.
AddProperty(q) ==
  /\ Len(params) < MaxParams
  /\ params' = Append(params, q)
  /\ listed' = listed \cup {q}
  /\ UNCHANGED <<trustEveryone, trustedNetwork>>

\* set of a PropertyObject that is in the list.
ChangeProperty(i, q) ==
  /\ i \in DOMAIN params
  /\ params' = [params EXCEPT ![i] = q]
  /\ listed' = listed \cup {q}
  /\ UNCHANGED <<trustEveryone, trustedNetwork>>

FillList ==
  /\ EngineIsFree
  /\ \/ \E p \in Profile : TrustEveryone(p) \/ \E n \in Network : TrustNetwork(p, n)
     \/ \E q \in Property : AddProperty(q) \/ \E i \in 1 .. MaxParams : ChangeProperty(i, q)
  /\ UNCHANGED <<verdictVars, connected, trn, loop, before>>

-----------------------------------------------------------------------------
(* AuthProfile.verify *)

CloseTransport(t) ==
  /\ connected[t]
  /\ connected' = [connected EXCEPT ![t] = FALSE]
  /\ UNCHANGED <<listVars, verdictVars, trn, loop, before>>

\* What getSourceAddress tells of m, as the networks it lies in: without a
\* transaction or its transport there is no address, and cidrVerify finds no network.
Source(m) ==
  IF TrnOf[m] = Nil THEN {} ELSE IF connected[TrnOf[m]] THEN NetworksOf[m] ELSE {}

AnyProfileTrusts(p, m) ==
  \E o \in Profile : trustEveryone[o] \/ trustedNetwork[o] \cap Source(m) # {}

\* The condition of AccessList.verify.
Trusts(p, m) == trustEveryone[p] \/ trustedNetwork[p] \cap Source(m) # {}

Accept(p, m) ==
  /\ EngineIsFree
  /\ Trusts(p, m)
  /\ authAction' = [authAction EXCEPT ![m] = "accept"]
  /\ verifier' = [verifier EXCEPT ![m] = p]
  /\ accepted' = accepted \cup {m}
  /\ loop' = [message |-> m, i |-> 1]
  /\ UNCHANGED <<listVars, connected, trn, before>>

Reject(p, m) ==
  /\ EngineIsFree
  /\ ~Trusts(p, m)
  /\ authAction' = [authAction EXCEPT ![m] = "reject"]
  /\ verifier' = [verifier EXCEPT ![m] = p]
  /\ UNCHANGED <<listVars, accepted, connected, trn, loop, before>>

\* getSourceAddress looks at the transport and then takes the address from it: if the
\* transport has gone in between, so has the process, and it starts anew.
Crash(p, m) ==
  /\ EngineIsFree
  /\ ~trustEveryone[p]
  /\ TrnOf[m] # Nil
  /\ connected[TrnOf[m]]
  /\ trustEveryone' = [q \in Profile |-> FALSE]
  /\ trustedNetwork' = [q \in Profile |-> {}]
  /\ params' = <<>>
  /\ connected' = [t \in Transaction |-> TRUE]
  /\ authAction' = [n \in Message |-> Empty]
  /\ trn' = [t \in Transaction |-> NoProps]
  /\ loop' = Nil
  /\ before' = trn'
  /\ verifier' = [n \in Message |-> Nil]
  /\ accepted' = {}
  /\ listed' = {}

AppliesToAll(q, m) == TRUE

Applies(q, m) == q.requestType = "*" \/ IsRequest(MethodOf[m], q.requestType)

FirstFromTheBack == Len(params) + 1 - loop.i

\* The entry that the loop looks at: it goes through the list from its front.
Current == loop.i

SetNext ==
  /\ loop # Nil
  /\ loop.i =< Len(params)
  /\ LET q == params[Current]
     IN trn' = IF Applies(q, loop.message)
               THEN SetTransactionProperty(trn, loop.message, q.name, q.value)
               ELSE trn
  /\ loop' = [loop EXCEPT !.i = @ + 1]
  /\ UNCHANGED <<listVars, verdictVars, connected, before>>

Return ==
  /\ loop # Nil
  /\ loop.i > Len(params)
  /\ loop' = Nil
  /\ before' = trn
  /\ UNCHANGED <<listVars, verdictVars, connected, trn>>

Next ==
  \/ FillList
  \/ \E p \in Profile, m \in Message : Accept(p, m) \/ Reject(p, m) \/ Crash(p, m)
  \/ SetNext
  \/ Return
  \/ \E t \in Transaction : CloseTransport(t)

Spec == Init /\ [][Next]_vars

-----------------------------------------------------------------------------
(* Properties *)

TypeOK ==
  /\ trustEveryone \in [Profile -> BOOLEAN]
  /\ trustedNetwork \in [Profile -> SUBSET Network]
  /\ params \in Seq(Property) /\ Len(params) =< MaxParams
  /\ connected \in [Transaction -> BOOLEAN]
  /\ authAction \in [Message -> {"accept", "reject", Empty}]
  /\ trn \in [Transaction -> [String -> String \cup {Empty}]]
  /\ before \in [Transaction -> [String -> String \cup {Empty}]]
  /\ loop = Nil \/ loop \in [message : accepted, i : 1 .. Len(params) + 1]
  /\ verifier \in [Message -> Profile \cup {Nil}]
  /\ accepted \in SUBSET Message
  /\ \A i \in DOMAIN params : params[i] \in listed
  /\ listed \in SUBSET Property

\* The list of properties is shared by the profiles, the access lists are not: a
\* message is accepted only if the very profile that verified it last trusts its
\* source, whatever the others trust and whatever the verdict was before; one
\* without a transaction has no source.
AcceptedByItsOwnList ==
  \A m \in Message : authAction[m] = "accept" =>
    \/ trustEveryone[verifier[m]]
    \/ TrnOf[m] # Nil /\ \E n \in NetworksOf[m] : n \in trustedNetwork[verifier[m]]

\* The request types that mean message m; without one an entry means every request.
TypesOf(m) == {"*"} \cup (IF MethodOf[m] = None THEN {} ELSE {MethodOf[m], Undefined})

\* A transaction carries a property only if some message of it was accepted and
\* the property had been listed for messages of that method: a rejected request, or
\* one of another method, gets none of them, through however many profiles the
\* scripts send it.
OnlyAcceptedGetProperties ==
  \A t \in Transaction, name \in String : trn[t][name] # Empty =>
    \E m \in accepted, q \in listed :
      /\ TrnOf[m] = t
      /\ q.requestType \in TypesOf(m)
      /\ q.name = name /\ q.value = trn[t][name]

\* The places among the first n of the list that say something of property name
\* of message m.
Listed(m, name, n) ==
  {i \in DOMAIN params : /\ i =< n
                         /\ params[i].requestType \in TypesOf(m)
                         /\ params[i].name = name
                         /\ params[i].value \in String}

\* Of several entries for one property the last that applies and can be stored
\* decides, an entry that cannot be stored does not hide those before it, and a
\* property without an entry keeps what it was, as does every other transaction.
LastEntryDecides ==
  loop # Nil =>
    \A t \in Transaction, name \in String :
      LET places == Listed(loop.message, name, loop.i - 1)
      IN IF t # TrnOf[loop.message] \/ places = {} THEN trn[t][name] = before[t][name]
         ELSE \E i \in places : /\ \A j \in places : j =< i
                                /\ trn[t][name] = params[i].value

\* Until verify returns, a transaction has for the site the properties it had before.
Contract == INSTANCE AccessContract WITH
  everyone <- trustEveryone, trusted <- trustedNetwork, list <- params,
  source <- [m \in Message |-> Source(m)], verdict <- authAction,
  props <- IF loop = Nil THEN trn ELSE before,
  granting <- IF loop = Nil THEN {} ELSE {loop.message}

\* verify works through a list it shares with every other profile, one entry at a time,
\* while transports close; yet each verdict is given at one point by the profile's own
\* access list, and all that a message is granted with it, it is granted at once.
KeepsContract == Contract!Spec

=============================================================================
