----------------------------- MODULE RouteProfile -----------------------------
(***************************************************************************)
(* The methods of RouteProfile (etc/sipXsbc/globals/RouteProfile.js), with *)
(* those of SIPMessage, as a site's scripts may call them: in any order,   *)
(* on any message, with any values.  One call is one step, the script      *)
(* engine runs one handler at a time.  The methods that the shipped        *)
(* handlers use are also in RouteRequest, step by step.                    *)
(*                                                                         *)
(* A script may also set any property of a message or of a transaction by  *)
(* its name, past the methods of RouteProfile; what those promise is for   *)
(* the names the script has not set itself since.                          *)
(*                                                                         *)
(* Properties of a message and of a transaction treat a value they cannot  *)
(* take differently: the first store "?" for undefined, the second keep    *)
(* what they had.                                                          *)
(***************************************************************************)
EXTENDS SIPMessage, Sequences

CONSTANTS
  Alias,         \* what scripts pass for a route alias
  RegArg,        \* what they pass to handleLocalReg
  MsgArg,        \* what they pass for a property of a message
  GatewayArg,    \* what they pass to sendRegister
  OwnName,       \* names of properties that scripts set themselves
  OwnArg,        \* what they set a property of a transaction to
  SipInterfaceAddress, SipInterfacePort,  \* the two tables of UserAgentExports.js
  Dialled,       \* what they pass to removeStringPrefix, as sequences of digits
  Limits         \* bounds on the number of calls of each kind, see Call

\* The transaction properties that the methods set by themselves.
Switch == {"allow-failover", "no-rtp-proxy", "enable-verbose-rtp", "invoke-local-handler"}
Credential == {"auth-a1-hash", "auth-realm", "reg-expires"}

\* Scripts name their routes otherwise.
ASSUME AliasAssumption ==
  /\ Switch \cup Credential \cup {"log-id"} \subseteq String
  /\ Alias \cap (Switch \cup Credential \cup {"log-id"}) = {}
  /\ Nil \notin [Credential -> RegArg]

\* What handleLocalReg sets.
LocalProps == Credential \cup {"invoke-local-handler"}

\* Message properties, in the groups that one method sets together.
Target == {"target-transport", "target-address", "target-port"}
Interface == {"interface-address", "interface-port"}
BridgeAuth == {"bridge-auth-user", "bridge-auth-password"}
Decision == {"route-action"}
Timeout == {"transaction-timeout"}
Single == {"reject-reason", "reject-code", "action", "gateway", "conf-room",
           "conf-pin", "conf-flags"}
Group == {Target, Interface, BridgeAuth, Decision, Timeout} \cup {{p} : p \in Single}
MsgProperty == UNION Group

\* What makes a gateway: the strings sendRegister is given, and its numbers.
Account == {"user", "domain", "password", "registrar"}

Kind == {"transaction", "property", "uri", "header", "string"}

ASSUME ArgumentAssumption ==
  /\ Alias \subseteq Value
  /\ RegArg \subseteq Value /\ OwnName \subseteq Value /\ OwnArg \subseteq Value
  \* What the native does with other values is not known, and "?" stands for undefined.
  /\ MsgArg \subseteq (String \ {"?"}) \cup {Undefined}
  /\ \A arg \in GatewayArg : DOMAIN arg = Account \cup {"expires", "index"}
  /\ SipInterfaceAddress \in Seq(String) /\ SipInterfacePort \in Seq(Nat)
  /\ Dialled \subseteq Seq(Nat)
  /\ Limits \subseteq [Kind -> Nat]
  /\ {"0", "1", "?", "6400", "continue", "reject"} \subseteq String
  /\ {"bridge-to-gateway", "bridge-to-sbc", "bridge-to-conference"} \subseteq String

VARIABLES
  trn,       \* trn[t]: the properties of transaction t
  props,     \* props[m]: the properties of message m, of those in MsgProperty
  gateways,  \* the gateways that the bridge has been given
  calls,     \* calls[k]: how many calls of kind k have been made
  flagged,   \* history: flagged[t], the aliases passed to flagRoute, or set to "1"
             \* by a script itself, and not set to anything else since
  given,     \* history: given[m][g], what the last call for group g was given, if any was made
  bridged,   \* history: bridged[m], what the last bridging call was given
  reg,       \* history: reg[t], what the last handleLocalReg was given
  ownTrn,    \* history: ownTrn[t], the names scripts have set themselves since then
  ownProps,  \* history: ownProps[m], the names they have set themselves since a
             \* method last set them
  stripped   \* history: what removeStringPrefix was given last, and what it returned

propVars == <<props, given, bridged, ownProps>>
trnVars == <<trn, flagged, reg, ownTrn>>
vars == <<trnVars, propVars, gateways, stripped, calls, messageVars>>

Init ==
  /\ MessageInit
  /\ trn = [t \in Transaction |-> NoProps]
  /\ props = [m \in Message |-> [p \in MsgProperty |-> Empty]]
  /\ gateways = {}
  /\ calls = [k \in Kind |-> 0]
  /\ flagged = [t \in Transaction |-> {}]
  /\ given = [m \in Message |-> <<>>]
  /\ bridged = [m \in Message |-> <<>>]
  /\ reg = [t \in Transaction |-> Nil]
  /\ ownTrn = [t \in Transaction |-> {}]
  /\ ownProps = [m \in Message |-> {}]
  /\ stripped = Nil

-----------------------------------------------------------------------------
(* Properties of the transaction *)

FlagRoute(m, alias) ==
  /\ trn' = SetTransactionProperty(trn, m, alias, "1")
  /\ flagged' = IF TrnOf[m] = Nil THEN flagged
                ELSE [flagged EXCEPT ![TrnOf[m]] = @ \cup {alias}]
  /\ UNCHANGED <<reg, ownTrn>>

IsRouteFlagged(m, alias) == GetTransactionProperty(trn, m, alias) = "1"

\* allowFailover, disallowFailover, allowRTPProxy, disallowRTPProxy,
\* enableVerboseRTP, disbleVerboseRTP, invokeLocalHandler.
Turn(m, switch, value) ==
  /\ switch = "invoke-local-handler" => value = "1"
  /\ trn' = SetTransactionProperty(trn, m, switch, value)
  /\ UNCHANGED <<flagged, reg, ownTrn>>

WithoutExpires(m, a1, realm, expires) ==
  SetTransactionProperty(SetTransactionProperty(SetTransactionProperty(trn,
    m, "invoke-local-handler", "1"),
    m, "auth-a1-hash", a1),
    m, "auth-realm", realm)

LocalReg(m, a1, realm, expires) ==
  SetTransactionProperty(SetTransactionProperty(SetTransactionProperty(SetTransactionProperty(trn,
    m, "invoke-local-handler", "1"),
    m, "auth-a1-hash", a1),
    m, "auth-realm", realm),
    m, "reg-expires", expires)

\* What decides is the method in the start line, which a script may have set.
HandleLocalReg(m, a1, realm, expires) ==
  /\ IsRequest(content[m].method, "REGISTER")
  /\ trn' = LocalReg(m, a1, realm, expires)
  /\ reg' = IF TrnOf[m] = Nil THEN reg
            ELSE [reg EXCEPT ![TrnOf[m]] = [c \in Credential |->
                   CASE c = "auth-a1-hash" -> a1
                     [] c = "auth-realm" -> realm
                     [] c = "reg-expires" -> expires]]
  /\ ownTrn' = [t \in Transaction |-> IF t = TrnOf[m] THEN ownTrn[t] \ LocalProps ELSE ownTrn[t]]
  /\ UNCHANGED flagged

\* setTransactionProperty of SIPMessage, called by a script.
SetOwnTransactionProperty(m, name, value) ==
  /\ trn' = SetTransactionProperty(trn, m, name, value)
  /\ IF TrnOf[m] # Nil /\ {name, value} \subseteq String
     THEN /\ flagged' = [flagged EXCEPT ![TrnOf[m]] =
               IF value = "1" THEN @ \cup ({name} \cap Alias) ELSE @ \ {name}]
          /\ ownTrn' = [ownTrn EXCEPT ![TrnOf[m]] = @ \cup {name}]
     ELSE UNCHANGED <<flagged, ownTrn>>
  /\ UNCHANGED reg

-----------------------------------------------------------------------------
(* Properties of the message *)

DropUndefined(m, values) ==
  [props EXCEPT ![m] = [p \in MsgProperty |->
    IF p \in DOMAIN values /\ values[p] # Undefined THEN values[p] ELSE @[p]]]

AsGiven(value) == value

\* A value that is undefined is stored as "?".
Stored(value) == IF value = Undefined THEN "?" ELSE value

\* setProperty of SIPMessage, for each of the properties in values.
SetProperties(m, values) ==
  [props EXCEPT ![m] = [p \in MsgProperty |->
    IF p \in DOMAIN values THEN Stored(values[p]) ELSE @[p]]]

Give(m, values) ==
  /\ props' = SetProperties(m, values)
  /\ given' = [given EXCEPT ![m] =
       [g \in DOMAIN @ \cup {h \in Group : h \subseteq DOMAIN values} |->
          IF g \subseteq DOMAIN values THEN [p \in g |-> values[p]] ELSE @[g]]]
  /\ ownProps' = [ownProps EXCEPT ![m] = @ \ DOMAIN values]

Set(m, values) == Give(m, values) /\ UNCHANGED bridged

SetTargetAddress(m, values) == DOMAIN values = Target /\ Set(m, values)

SetInterfaceAddress(m, values) == DOMAIN values = Interface /\ Set(m, values)

SetTransactionTimeout(m, timeout) == Set(m, [p \in Timeout |-> timeout])

RouteAccept(m) == Set(m, [p \in Decision |-> "continue"])

RouteReject(m) == Set(m, [p \in Decision |-> "reject"])

SetRejectReason(m, reason) == Set(m, [p \in {"reject-reason"} |-> reason])

SetRejectCode(m, code) == Set(m, [p \in {"reject-code"} |-> code])

\* setProperty of SIPMessage, called by a script.
SetOwnProperty(m, name, value) ==
  /\ props' = SetProperties(m, [p \in {name} |-> value])
  /\ ownProps' = [ownProps EXCEPT ![m] = @ \cup {name}]
  /\ UNCHANGED <<given, bridged>>

\* routeRequest, as profiles inherit it.
RouteRequest(m) ==
  Set(m, [p \in Timeout \cup Decision |-> IF p \in Timeout THEN "6400" ELSE "continue"])

-----------------------------------------------------------------------------
(* Bridging *)

GiveBridge(m, values) ==
  /\ Give(m, values)
  /\ bridged' = [bridged EXCEPT ![m] = values]

BridgeToGateway(m, gateway) ==
  GiveBridge(m, [p \in {"action", "gateway"} |->
                  IF p = "action" THEN "bridge-to-gateway" ELSE gateway])

BothDefined(values) == \A p \in BridgeAuth : values[p] # Undefined

Bridge(m, values) ==
  /\ DOMAIN values = BridgeAuth
  /\ GiveBridge(m, [p \in {"action"} \cup (IF BothDefined(values) THEN BridgeAuth ELSE {}) |->
                      IF p = "action" THEN "bridge-to-sbc" ELSE values[p]])

RoomOnly(room, pin, flags) == [p \in {"conf-room"} |-> room]

\* A pin or flags that are undefined are not set.
Conference(room, pin, flags) ==
  [p \in {"action", "conf-room"} \cup {q \in {"conf-pin"} : pin # Undefined}
                                 \cup {q \in {"conf-flags"} : flags # Undefined} |->
    CASE p = "action" -> "bridge-to-conference"
      [] p = "conf-room" -> room
      [] p = "conf-pin" -> pin
      [] p = "conf-flags" -> flags]

BridgeToConference(m, room, pin, flags) == GiveBridge(m, Conference(room, pin, flags))

\* An entry of a table; scripts count from 0, and beyond the table there is none.
Entry(table, index) == IF index + 1 \in DOMAIN table THEN table[index + 1] ELSE Undefined

\* sendRegister gives a gateway to the bridge, or returns false.
SendRegister(arg) ==
  /\ arg.index \in Nat /\ arg.expires \in Nat
  /\ \A a \in Account : arg[a] \in String
  /\ gateways' = gateways \cup
       {[a \in Account \cup {"expires", "address", "port"} |->
           CASE a = "address" -> Entry(SipInterfaceAddress, arg.index)
             [] a = "port" -> Entry(SipInterfacePort, arg.index)
             [] OTHER -> arg[a]]}

-----------------------------------------------------------------------------
(* The request-uri, the To and the From *)

\* Each of the natives may fail, and nobody is told.
SetTargetDomain(m, domain) ==
  /\ \E done \in SUBSET {u \in Uri : HasUri(m, u)} :
       content' = [content EXCEPT ![m].host =
                     [u \in Uri |-> IF u \in done THEN domain ELSE @[u]]]
  /\ UNCHANGED answer

SetTargetUser(m, user) ==
  /\ \E done \in SUBSET {u \in Uri \ {"from"} : HasUri(m, u)} :
       content' = [content EXCEPT ![m].user =
                     [u \in Uri |-> IF u \in done THEN user ELSE @[u]]]
  /\ UNCHANGED answer

-----------------------------------------------------------------------------
(* Dialled strings *)

StringStartsWith(str1, str2) ==
  Len(str2) =< Len(str1) /\ SubSeq(str1, 1, Len(str2)) = str2

RemoveAnyPrefix(oldString, prefix) ==
  IF Undefined \in {oldString, prefix} THEN <<>>
  ELSE IF Len(prefix) > Len(oldString) THEN oldString
  ELSE SubSeq(oldString, Len(prefix) + 1, Len(oldString))

RemoveStringPrefix(oldString, prefix) ==
  IF Undefined \in {oldString, prefix} THEN <<>>
  ELSE IF Len(prefix) > Len(oldString) \/ ~ StringStartsWith(oldString, prefix) THEN oldString
  ELSE SubSeq(oldString, Len(prefix) + 1, Len(oldString))

-----------------------------------------------------------------------------

TransactionCall(m) ==
  /\ \/ \E alias \in Alias : FlagRoute(m, alias)
     \/ \E switch \in Switch, value \in {"0", "1"} : Turn(m, switch, value)
     \/ \E a1, realm, expires \in RegArg : HandleLocalReg(m, a1, realm, expires)
     \/ \E name \in OwnName, value \in OwnArg : SetOwnTransactionProperty(m, name, value)
  /\ UNCHANGED <<propVars, gateways, stripped, messageVars>>

PropertyCall(m) ==
  /\ \/ \E values \in [Target -> MsgArg] : SetTargetAddress(m, values)
     \/ \E values \in [Interface -> MsgArg] : SetInterfaceAddress(m, values)
     \/ \E values \in [BridgeAuth -> MsgArg] : Bridge(m, values)
     \/ \E room, pin, flags \in MsgArg : BridgeToConference(m, room, pin, flags)
     \/ \E arg \in MsgArg :
          \/ SetTransactionTimeout(m, arg)
          \/ SetRejectReason(m, arg)
          \/ SetRejectCode(m, arg)
          \/ BridgeToGateway(m, arg)
          \/ \E name \in OwnName \cap MsgProperty : SetOwnProperty(m, name, arg)
     \/ RouteAccept(m)
     \/ RouteReject(m)
     \/ RouteRequest(m)
  /\ UNCHANGED <<trnVars, gateways, stripped, messageVars>>

GatewayCall ==
  /\ \E arg \in GatewayArg : SendRegister(arg)
  /\ UNCHANGED <<trnVars, propVars, stripped, messageVars>>

StringCall ==
  /\ \E oldString, prefix \in Dialled \cup {Undefined} :
       stripped' = [dialled |-> oldString, prefix |-> prefix,
                    rest |-> RemoveStringPrefix(oldString, prefix)]
  /\ UNCHANGED <<trnVars, propVars, gateways, messageVars>>

ContentCall(m) ==
  /\ UriCall(m) \/ \E t \in Text : SetTargetDomain(m, t) \/ SetTargetUser(m, t)
  /\ UNCHANGED <<trnVars, propVars, gateways, stripped>>

\* One more call of this kind, within one of the bounds.
Call(kind) ==
  /\ calls' = [calls EXCEPT ![kind] = @ + 1]
  /\ \E limit \in Limits : \A k \in Kind : calls'[k] =< limit[k]

Next ==
  \/ \E m \in Message :
       \/ Call("transaction") /\ TransactionCall(m)
       \/ Call("property") /\ PropertyCall(m)
       \/ Call("uri") /\ ContentCall(m)
       \/ Call("header") /\ HeaderCall(m) /\ UNCHANGED <<trnVars, propVars, gateways, stripped>>
  \/ Call("property") /\ GatewayCall
  \/ Call("string") /\ StringCall

Spec == Init /\ [][Next]_vars

-----------------------------------------------------------------------------
(* Properties *)

\* The types; a gateway may lack its address or its port.
TypeOK ==
  /\ trn \in [Transaction -> [String -> String \cup {Empty}]]
  /\ props \in [Message -> [MsgProperty -> String \cup {Empty}]]
  /\ \A g \in gateways : /\ g.address \in String \cup {Undefined}
                         /\ g.port \in Nat \cup {Undefined}
  /\ calls \in [Kind -> Nat]
  /\ flagged \in [Transaction -> SUBSET Alias]
  /\ reg \in [Transaction -> [Credential -> RegArg] \cup {Nil}]
  /\ ownTrn \in [Transaction -> SUBSET String]
  /\ ownProps \in [Message -> SUBSET MsgProperty]
  /\ MessageTypeOK

\* A route flagged through any message of a transaction, a copy of the request
\* or a response to it, is flagged for all of them until the transaction ends or a
\* script sets its alias to something else; no other method of RouteProfile unflags
\* it, and it is flagged for no other transaction.  An alias that is not a string
\* is never flagged, nor is anything for a message without a transaction.
FlagsAreShared ==
  \A m \in Message, alias \in Alias :
    IsRouteFlagged(m, alias) <=>
      TrnOf[m] # Nil /\ alias \in String /\ alias \in flagged[TrnOf[m]]

\* A registration handled locally is handled with the hash, the realm and the
\* expiry that the last handleLocalReg was given, never with a mixture of two
\* calls, as long as that call was given strings; no other method of RouteProfile
\* sets any of them, for this transaction or another.  What a script has set itself
\* since is its own affair.
LocalRegIsWhole ==
  \A t \in Transaction :
    /\ reg[t] # Nil /\ (\A c \in Credential : reg[t][c] \in String) =>
         /\ \A c \in Credential \ ownTrn[t] : trn[t][c] = reg[t][c]
         /\ "invoke-local-handler" \notin ownTrn[t] => trn[t]["invoke-local-handler"] = "1"
    /\ reg[t] = Nil => \A c \in Credential \ ownTrn[t] : trn[t][c] = Empty

\* What a message says of its target, its interface or the credentials of its
\* bridge comes from one call, never from two of them, whatever either left out;
\* and a bridge has both a user and a password or neither: for all the names that
\* the script has not set itself since.
GroupsAreOfOneCall ==
  \A m \in Message :
    /\ \A g \in DOMAIN given[m] :
         \A p \in g \ ownProps[m] : props[m][p] = Stored(given[m][g][p])
    /\ \A g \in Group \ DOMAIN given[m] : \A p \in g \ ownProps[m] : props[m][p] = Empty
    /\ \A p \in BridgeAuth \ ownProps[m] : props[m][p] # "?"

\* Three methods share the one action of a message, and each brings the end of its
\* own bridge: the action is that of the last call, the gateway or the room is the
\* one that this call named, or "?" if it named none, but not an earlier one, and a pin
\* is either of this call or one that an earlier call gave to a room, which the code
\* leaves in place.  This too is for the names that the script has not set itself since.
BridgeHasItsEnd ==
  \A m \in Message :
    /\ \A p \in DOMAIN bridged[m] \ ownProps[m] : props[m][p] = Stored(bridged[m][p])
    /\ "action" \notin ownProps[m] =>
         CASE props[m]["action"] = "bridge-to-gateway" -> "gateway" \in DOMAIN bridged[m]
           [] props[m]["action"] = "bridge-to-conference" -> "conf-room" \in DOMAIN bridged[m]
           [] OTHER -> DOMAIN bridged[m] \subseteq {"action"} \cup BridgeAuth
    /\ props[m]["conf-pin"] # Empty /\ "conf-pin" \notin ownProps[m] =>
         props[m]["conf-room"] # Empty

\* What is left of a dialled string is what follows the prefix, the whole string
\* if it does not begin with it, and nothing if either is undefined.
PrefixIsRemoved ==
  stripped # Nil =>
    LET dialled == stripped.dialled
        prefix == stripped.prefix
    IN IF Undefined \in {dialled, prefix} THEN stripped.rest = <<>>
       ELSE \/ prefix \o stripped.rest = dialled
            \/ /\ stripped.rest = dialled
               /\ \A tail \in Dialled : prefix \o tail # dialled

=============================================================================
