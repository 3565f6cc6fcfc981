--------------------------- MODULE RouteProfileProofs ---------------------------
(***************************************************************************)
(* Proofs about RouteProfile, for any messages, transactions and values    *)
(* that scripts may hand to its methods.  The calls of one kind change     *)
(* variables of their own, so that the invariant is a conjunction of parts *)
(* that are kept each by itself.                                           *)
(***************************************************************************)
EXTENDS RouteProfile, ScriptDefsProofs, SIPMessageProofs

\* The transactions: what a transaction has flagged is what flagRoute was given, or
\* what scripts have set to "1", last.
TrnInv ==
  /\ trn \in Properties
  /\ flagged \in [Transaction -> SUBSET Alias]
  /\ reg \in [Transaction -> [Credential -> RegArg] \cup {Nil}]
  /\ ownTrn \in [Transaction -> SUBSET String]
  /\ \A t \in Transaction, alias \in Alias \cap String :
       trn[t][alias] = "1" <=> alias \in flagged[t]
  /\ LocalRegIsWhole

\* What a bridging call may set.
BridgeProperty == BridgeAuth \cup {"action", "gateway", "conf-room", "conf-pin", "conf-flags"}

\* The properties of messages.
PropInv ==
  /\ props \in [Message -> [MsgProperty -> String \cup {Empty}]]
  /\ DOMAIN given = Message /\ DOMAIN bridged = Message
  /\ ownProps \in [Message -> SUBSET MsgProperty]
  /\ \A m \in Message : DOMAIN given[m] \subseteq Group /\ DOMAIN bridged[m] \subseteq BridgeProperty
  /\ GroupsAreOfOneCall
  /\ BridgeHasItsEnd

\* The gateways: what the tables hold, or nothing.
GatewayInv ==
  \A g \in gateways : /\ g.address \in String \cup {Undefined}
                      /\ g.port \in Nat \cup {Undefined}

CallInv == calls \in [Kind -> Nat]

IInv ==
  /\ TrnInv
  /\ PropInv
  /\ GatewayInv
  /\ PrefixIsRemoved
  /\ MessageTypeOK
  /\ CallInv

-----------------------------------------------------------------------------
(* Properties of the transaction                                           *)

LEMMA Literals ==
  /\ {"0", "1", "?", "6400", "continue", "reject"} \subseteq String
  /\ {"bridge-to-gateway", "bridge-to-sbc", "bridge-to-conference"} \subseteq String
  /\ Switch \subseteq String /\ Credential \subseteq String
  /\ Switch \cap Credential = {} /\ "invoke-local-handler" \in Switch
  /\ Alias \cap Switch = {} /\ Alias \cap Credential = {} /\ "log-id" \notin Alias
  /\ Empty \notin String /\ Undefined \notin String /\ Other \notin String
  BY ScriptAssumption, AliasAssumption, ArgumentAssumption DEF Switch, Credential

LEMMA FlagRouteTrn ==
  ASSUME TrnInv, NEW m \in Message, NEW alias \in Alias, FlagRoute(m, alias)
  PROVE  TrnInv'
<1>1. alias \in Value /\ "1" \in Value
  BY Literals, ArgumentAssumption DEF Value
<1>2. /\ trn' \in Properties
      /\ \A t \in Transaction, name \in String :
           trn'[t][name] = IF t = TrnOf[m] /\ name = alias THEN "1" ELSE trn[t][name]
  BY <1>1, SetProperty, Literals DEF TrnInv, FlagRoute
<1>3. /\ reg' = reg /\ ownTrn' = ownTrn /\ flagged' \in [Transaction -> SUBSET Alias]
      /\ \A t \in Transaction :
           flagged'[t] = IF t = TrnOf[m] THEN flagged[t] \cup {alias} ELSE flagged[t]
  <2>1. reg' = reg /\ ownTrn' = ownTrn /\ flagged \in [Transaction -> SUBSET Alias]
    BY DEF TrnInv, FlagRoute
  <2>2. CASE TrnOf[m] = Nil
    <3>1. flagged' = flagged /\ \A t \in Transaction : t # TrnOf[m]
      BY <2>2, ScriptAssumption DEF FlagRoute
    <3> QED
      BY <2>1, <3>1
  <2>3. CASE TrnOf[m] # Nil
    <3>1. TrnOf[m] \in Transaction
      BY <2>3, ScriptAssumption
    <3>2. flagged' = [flagged EXCEPT ![TrnOf[m]] = flagged[TrnOf[m]] \cup {alias}]
      BY <2>3 DEF FlagRoute
    <3>3. flagged[TrnOf[m]] \cup {alias} \in SUBSET Alias
      BY <2>1, <3>1
    <3> QED
      BY <2>1, <3>1, <3>2, <3>3
  <2> QED
    BY <2>2, <2>3
<1>4. ASSUME NEW t \in Transaction, NEW name \in Switch \cup Credential
      PROVE  trn'[t][name] = trn[t][name]
  BY <1>2, Literals
<1>5. LocalRegIsWhole'
  BY <1>3, <1>4, Literals DEF TrnInv, LocalRegIsWhole
<1>6. ASSUME NEW t \in Transaction, NEW a \in Alias \cap String
      PROVE  trn'[t][a] = "1" <=> a \in flagged'[t]
  BY <1>2, <1>3 DEF TrnInv
<1> QED
  BY <1>2, <1>3, <1>4, <1>5, <1>6, Literals DEF TrnInv

LEMMA TurnTrn ==
  ASSUME TrnInv, NEW m \in Message, NEW switch \in Switch, NEW value \in {"0", "1"},
         Turn(m, switch, value)
  PROVE  TrnInv'
<1>1. switch \in Value /\ value \in Value
  BY Literals DEF Value
<1>2. /\ trn' \in Properties
      /\ \A t \in Transaction, name \in String :
           trn'[t][name] = IF t = TrnOf[m] /\ name = switch THEN value ELSE trn[t][name]
  BY <1>1, SetProperty, Literals DEF TrnInv, Turn
<1>3. reg' = reg /\ flagged' = flagged /\ ownTrn' = ownTrn
  BY DEF Turn
<1>4. ASSUME NEW t \in Transaction, NEW name \in Credential \cup (Alias \cap String)
      PROVE  trn'[t][name] = trn[t][name]
  BY <1>2, Literals
<1>5. ASSUME NEW t \in Transaction
      PROVE  trn[t]["invoke-local-handler"] = "1" => trn'[t]["invoke-local-handler"] = "1"
  BY <1>2, Literals DEF Turn
<1>6. LocalRegIsWhole'
  BY <1>3, <1>4, <1>5 DEF TrnInv, LocalRegIsWhole
<1> QED
  BY <1>2, <1>3, <1>4, <1>5, <1>6 DEF TrnInv

LEMMA HandleLocalRegTrn ==
  ASSUME TrnInv, NEW m \in Message, NEW a1 \in RegArg, NEW realm \in RegArg,
         NEW expires \in RegArg, HandleLocalReg(m, a1, realm, expires)
  PROVE  TrnInv'
<1> DEFINE x1 == SetTransactionProperty(trn, m, "invoke-local-handler", "1")
           x2 == SetTransactionProperty(x1, m, "auth-a1-hash", a1)
           x3 == SetTransactionProperty(x2, m, "auth-realm", realm)
           x4 == SetTransactionProperty(x3, m, "reg-expires", expires)
           r  == [c \in Credential |-> CASE c = "auth-a1-hash" -> a1
                                         [] c = "auth-realm" -> realm
                                         [] c = "reg-expires" -> expires]
<1> HIDE DEF x1, x2, x3, x4, r
<1>1. /\ {"invoke-local-handler", "auth-a1-hash", "auth-realm", "reg-expires"} \subseteq String
      /\ {"invoke-local-handler", "auth-a1-hash", "auth-realm", "reg-expires", "1", a1,
          realm, expires} \subseteq Value
  BY Literals, ArgumentAssumption DEF Value, Switch, Credential
<1>2. trn' = x4 /\ flagged' = flagged
  BY DEF HandleLocalReg, LocalReg, x1, x2, x3, x4
<1>3. reg' = IF TrnOf[m] = Nil THEN reg ELSE [reg EXCEPT ![TrnOf[m]] = r]
  BY DEF HandleLocalReg, r
<1>4. r \in [Credential -> RegArg]
  BY DEF Credential, r
<1>5. /\ x1 \in Properties
      /\ \A t \in Transaction, name \in String :
           x1[t][name] = IF t = TrnOf[m] /\ name = "invoke-local-handler" THEN "1"
                         ELSE trn[t][name]
  <2>1. trn \in Properties /\ "invoke-local-handler" \in Value /\ "1" \in Value /\ "1" \in String
    BY <1>1, Literals DEF TrnInv
  <2> QED
    BY <2>1, SetProperty DEF x1
<1>6. /\ x2 \in Properties
      /\ \A t \in Transaction, name \in String :
           x2[t][name] = IF t = TrnOf[m] /\ name = "auth-a1-hash" /\ a1 \in String THEN a1
                         ELSE x1[t][name]
  BY <1>1, <1>5, SetProperty DEF x2
<1>7. /\ x3 \in Properties
      /\ \A t \in Transaction, name \in String :
           x3[t][name] = IF t = TrnOf[m] /\ name = "auth-realm" /\ realm \in String THEN realm
                         ELSE x2[t][name]
  BY <1>1, <1>6, SetProperty DEF x3
<1>8. /\ x4 \in Properties
      /\ \A t \in Transaction, name \in String :
           x4[t][name] = IF t = TrnOf[m] /\ name = "reg-expires" /\ expires \in String THEN expires
                         ELSE x3[t][name]
  BY <1>1, <1>7, SetProperty DEF x4
<1>9. \A t \in Transaction, name \in String :
        /\ t # TrnOf[m] => x4[t][name] = trn[t][name]
        /\ name \notin Credential \cup {"invoke-local-handler"} => x4[t][name] = trn[t][name]
  BY <1>5, <1>6, <1>7, <1>8 DEF Credential
<1>10. ASSUME NEW t \in Transaction, t = TrnOf[m]
       PROVE  /\ x4[t]["invoke-local-handler"] = "1"
              /\ (\A c \in Credential : r[c] \in String) => \A c \in Credential : x4[t][c] = r[c]
  <2>1. x4[t]["invoke-local-handler"] = "1"
    BY <1>1, <1>5, <1>6, <1>7, <1>8, <1>10
  <2>2. a1 \in String => x4[t]["auth-a1-hash"] = a1
    BY <1>1, <1>6, <1>7, <1>8, <1>10
  <2>3. realm \in String => x4[t]["auth-realm"] = realm
    BY <1>1, <1>7, <1>8, <1>10
  <2>4. expires \in String => x4[t]["reg-expires"] = expires
    BY <1>1, <1>8, <1>10
  <2>5. r["auth-a1-hash"] = a1 /\ r["auth-realm"] = realm /\ r["reg-expires"] = expires
    BY DEF Credential, r
  <2> QED
    BY <2>1, <2>2, <2>3, <2>4, <2>5 DEF Credential
<1>11. /\ ownTrn' \in [Transaction -> SUBSET String]
       /\ \A t \in Transaction :
            ownTrn'[t] = IF t = TrnOf[m] THEN ownTrn[t] \ LocalProps ELSE ownTrn[t]
  BY DEF HandleLocalReg, TrnInv
<1>12. /\ reg' \in [Transaction -> [Credential -> RegArg] \cup {Nil}]
       /\ \A t \in Transaction : reg'[t] = IF t = TrnOf[m] THEN r ELSE reg[t]
  BY <1>3, <1>4, ScriptAssumption DEF TrnInv
<1>13. r # Nil
  BY <1>4, AliasAssumption
<1>14. LocalRegIsWhole'
  <2> SUFFICES ASSUME NEW t \in Transaction
               PROVE  /\ reg'[t] # Nil /\ (\A c \in Credential : reg'[t][c] \in String) =>
                           /\ \A c \in Credential \ ownTrn'[t] : trn'[t][c] = reg'[t][c]
                           /\ "invoke-local-handler" \notin ownTrn'[t] =>
                                trn'[t]["invoke-local-handler"] = "1"
                      /\ reg'[t] = Nil => \A c \in Credential \ ownTrn'[t] : trn'[t][c] = Empty
    BY DEF LocalRegIsWhole
  <2>1. CASE t = TrnOf[m]
    BY <1>2, <1>10, <1>12, <1>13, <2>1
  <2>2. CASE t # TrnOf[m]
    <3>1. /\ reg'[t] = reg[t] /\ \A c \in Credential : trn'[t][c] = trn[t][c]
          /\ trn'[t]["invoke-local-handler"] = trn[t]["invoke-local-handler"]
          /\ ownTrn'[t] = ownTrn[t]
      BY <1>1, <1>2, <1>9, <1>12, <1>11, <2>2, Literals
    <3> QED
      BY <3>1 DEF TrnInv, LocalRegIsWhole
  <2> QED
    BY <2>1, <2>2
<1>15. ASSUME NEW t \in Transaction, NEW alias \in Alias \cap String
       PROVE  trn'[t][alias] = "1" <=> alias \in flagged'[t]
  <2>1. trn'[t][alias] = trn[t][alias]
    BY <1>2, <1>9, Literals
  <2> QED
    BY <1>2, <2>1 DEF TrnInv
<1> QED
  BY <1>2, <1>8, <1>12, <1>14, <1>15, <1>11 DEF TrnInv

\* A script that sets a property itself answers for that name only.
LEMMA SetOwnTrn ==
  ASSUME TrnInv, NEW m \in Message, NEW name \in Value, NEW value \in Value,
         SetOwnTransactionProperty(m, name, value)
  PROVE  TrnInv'
<1>1. /\ trn' \in Properties
      /\ \A t \in Transaction, n \in String :
           trn'[t][n] = IF t = TrnOf[m] /\ n = name /\ value \in String THEN value ELSE trn[t][n]
  BY SetProperty DEF TrnInv, SetOwnTransactionProperty
<1>2. reg' = reg
  BY DEF SetOwnTransactionProperty
<1>3. CASE TrnOf[m] # Nil /\ {name, value} \subseteq String
  <2>1. TrnOf[m] \in Transaction
    BY <1>3, ScriptAssumption
  <2> DEFINE now == IF value = "1" THEN flagged[TrnOf[m]] \cup ({name} \cap Alias)
                    ELSE flagged[TrnOf[m]] \ {name}
  <2>2. now \in SUBSET Alias
    BY <2>1 DEF TrnInv
  <2>3. /\ flagged' = [flagged EXCEPT ![TrnOf[m]] = now]
        /\ ownTrn' = [ownTrn EXCEPT ![TrnOf[m]] = ownTrn[TrnOf[m]] \cup {name}]
    BY <1>3 DEF SetOwnTransactionProperty
  <2>4. /\ flagged' \in [Transaction -> SUBSET Alias]
        /\ \A t \in Transaction : flagged'[t] = IF t = TrnOf[m] THEN now ELSE flagged[t]
    BY <2>1, <2>2, <2>3 DEF TrnInv
  <2>5. /\ ownTrn' \in [Transaction -> SUBSET String]
        /\ \A t \in Transaction :
             ownTrn'[t] = IF t = TrnOf[m] THEN ownTrn[t] \cup {name} ELSE ownTrn[t]
    BY <1>3, <2>1, <2>3 DEF TrnInv
  <2>6. ASSUME NEW t \in Transaction, NEW alias \in Alias \cap String
        PROVE  trn'[t][alias] = "1" <=> alias \in flagged'[t]
    BY <1>1, <1>3, <2>4 DEF TrnInv
  <2>7. LocalRegIsWhole'
    <3>1. \A t \in Transaction : \A n \in LocalProps \ ownTrn'[t] : trn'[t][n] = trn[t][n]
      BY <1>1, <2>5, Literals DEF LocalProps
    <3>2. \A t \in Transaction : ownTrn[t] \subseteq ownTrn'[t]
      BY <2>5
    <3> QED
      BY <1>2, <3>1, <3>2 DEF TrnInv, LocalRegIsWhole, LocalProps
  <2> QED
    BY <1>1, <1>2, <2>4, <2>5, <2>6, <2>7 DEF TrnInv
<1>4. CASE ~(TrnOf[m] # Nil /\ {name, value} \subseteq String)
  <2>1. flagged' = flagged /\ ownTrn' = ownTrn
    BY <1>4 DEF SetOwnTransactionProperty
  <2>2. \A t \in Transaction, n \in String : trn'[t][n] = trn[t][n]
    BY <1>1, <1>4, ScriptAssumption
  <2>3. LocalRegIsWhole'
    BY <1>2, <2>1, <2>2, Literals DEF TrnInv, LocalRegIsWhole
  <2> QED
    BY <1>1, <1>2, <2>1, <2>2, <2>3 DEF TrnInv
<1> QED
  BY <1>3, <1>4

LEMMA TransactionCallTrn ==
  ASSUME TrnInv, NEW m \in Message, TransactionCall(m)
  PROVE  TrnInv'
  BY FlagRouteTrn, TurnTrn, HandleLocalRegTrn, SetOwnTrn, ArgumentAssumption DEF TransactionCall

-----------------------------------------------------------------------------
(* Properties of the message                                               *)

\* What one call of a method sets: whole groups, with values that are kept as they
\* are given or as "?".
Fits(values) ==
  /\ DOMAIN values \subseteq MsgProperty
  /\ \A p \in DOMAIN values : values[p] \in String \cup {Undefined}
  /\ \A g \in Group : g \subseteq DOMAIN values \/ g \cap DOMAIN values = {}
  /\ \A p \in BridgeAuth \cap DOMAIN values : values[p] \notin {"?", Undefined}

\* What such a call does to the properties of all messages.
Gives(m, values) ==
  /\ props' \in [Message -> [MsgProperty -> String \cup {Empty}]]
  /\ DOMAIN given' = Message
  /\ \A n \in Message : DOMAIN given'[n] \subseteq Group
  /\ ownProps' \in [Message -> SUBSET MsgProperty]
  /\ \A n \in Message :
       ownProps'[n] = IF n = m THEN ownProps[n] \ DOMAIN values ELSE ownProps[n]
  /\ GroupsAreOfOneCall'
  /\ \A n \in Message, p \in MsgProperty :
       props'[n][p] = IF n = m /\ p \in DOMAIN values THEN Stored(values[p])
                      ELSE props[n][p]

LEMMA GiveGroups ==
  ASSUME PropInv, NEW m \in Message, NEW values, Fits(values), Give(m, values)
  PROVE  Gives(m, values)
<1>1. \A p \in DOMAIN values : Stored(values[p]) \in String
  BY Literals DEF Stored, Fits
<1>2. /\ props' \in [Message -> [MsgProperty -> String \cup {Empty}]]
      /\ \A n \in Message, p \in MsgProperty :
           props'[n][p] = IF n = m /\ p \in DOMAIN values THEN Stored(values[p]) ELSE props[n][p]
  BY <1>1 DEF Give, SetProperties, PropInv
<1>3. /\ DOMAIN given' = Message
      /\ \A n \in Message \ {m} : given'[n] = given[n]
      /\ DOMAIN given'[m] = DOMAIN given[m] \cup {h \in Group : h \subseteq DOMAIN values}
      /\ \A g \in DOMAIN given'[m] :
           given'[m][g] = IF g \subseteq DOMAIN values THEN [p \in g |-> values[p]] ELSE given[m][g]
  BY DEF Give, PropInv
<1>4. \A n \in Message : DOMAIN given'[n] \subseteq Group
  BY <1>3 DEF PropInv
<1>5. \A g \in Group : g \subseteq MsgProperty
  BY DEF MsgProperty
<1>6. /\ ownProps' \in [Message -> SUBSET MsgProperty]
       /\ \A n \in Message :
            ownProps'[n] = IF n = m THEN ownProps[n] \ DOMAIN values ELSE ownProps[n]
  BY DEF Give, PropInv
<1>7. ASSUME NEW n \in Message, NEW g \in DOMAIN given'[n], NEW p \in g \ ownProps'[n]
      PROVE  props'[n][p] = Stored(given'[n][g][p])
  <2>1. p \in MsgProperty /\ g \in Group
    BY <1>4, <1>5
  <2>2. CASE n = m /\ g \subseteq DOMAIN values
    <3>1. given'[n][g][p] = values[p] /\ p \in DOMAIN values
      BY <1>3, <2>2
    <3> QED
      BY <1>2, <2>1, <2>2, <3>1
  <2>3. CASE n = m /\ ~ g \subseteq DOMAIN values
    <3>1. g \cap DOMAIN values = {} /\ g \in DOMAIN given[m]
      BY <1>3, <2>1, <2>3 DEF Fits
    <3>2. props'[n][p] = props[n][p] /\ given'[n][g] = given[n][g]
      BY <1>2, <1>3, <2>1, <2>3, <3>1
    <3>3. p \notin ownProps[n]
      BY <1>6, <2>3, <3>1
    <3> QED
      BY <2>3, <3>1, <3>2, <3>3 DEF PropInv, GroupsAreOfOneCall
  <2>4. CASE n # m
    BY <1>2, <1>3, <1>6, <2>1, <2>4 DEF PropInv, GroupsAreOfOneCall
  <2> QED
    BY <2>2, <2>3, <2>4
<1>8. ASSUME NEW n \in Message, NEW g \in Group \ DOMAIN given'[n], NEW p \in g \ ownProps'[n]
      PROVE  props'[n][p] = Empty
  <2>1. g \in Group \ DOMAIN given[n] /\ (n = m => g \cap DOMAIN values = {})
    BY <1>3 DEF Fits
  <2>2. p \notin ownProps[n]
    BY <1>6, <2>1
  <2> QED
    BY <1>2, <1>5, <2>1, <2>2 DEF PropInv, GroupsAreOfOneCall
<1>9. ASSUME NEW n \in Message, NEW p \in BridgeAuth \ ownProps'[n]
      PROVE  props'[n][p] # "?"
  <2>1. BridgeAuth \in Group
    BY DEF Group
  <2>2. p \in MsgProperty
    BY <1>5, <2>1
  <2>3. CASE n = m /\ p \in DOMAIN values
    BY <1>2, <2>2, <2>3 DEF Fits, Stored
  <2>4. CASE ~(n = m /\ p \in DOMAIN values)
    <3>1. p \notin ownProps[n] /\ props'[n][p] = props[n][p]
      BY <1>2, <1>6, <2>2, <2>4
    <3> QED
      BY <3>1 DEF PropInv, GroupsAreOfOneCall
  <2> QED
    BY <2>3, <2>4
<1>10. GroupsAreOfOneCall'
  BY <1>7, <1>8, <1>9 DEF GroupsAreOfOneCall
<1> QED
  BY <1>2, <1>3, <1>4, <1>10, <1>6 DEF Gives

\* No property is in two groups, so that a call that sets whole groups cuts none.
LEMMA GroupsAreDisjoint ==
  \A g, h \in Group : g = h \/ g \cap h = {}
  BY DEF Group, Target, Interface, BridgeAuth, Decision, Timeout, Single

LEMMA WholeGroups ==
  ASSUME NEW S \in SUBSET Group, NEW values, DOMAIN values = UNION S,
         \A p \in UNION S : values[p] \in String \cup {Undefined},
         \A p \in BridgeAuth \cap UNION S : values[p] \notin {"?", Undefined}
  PROVE  Fits(values)
<1>1. UNION S \subseteq MsgProperty
  BY DEF MsgProperty
<1>2. \A g \in Group : g \subseteq UNION S \/ g \cap UNION S = {}
  BY GroupsAreDisjoint
<1> QED
  BY <1>1, <1>2 DEF Fits

\* The end of the bridge of one message.
EndOf(prop, bridge, own) ==
  /\ \A p \in DOMAIN bridge \ own : prop[p] = Stored(bridge[p])
  /\ "action" \notin own =>
       CASE prop["action"] = "bridge-to-gateway" -> "gateway" \in DOMAIN bridge
         [] prop["action"] = "bridge-to-conference" -> "conf-room" \in DOMAIN bridge
         [] OTHER -> DOMAIN bridge \subseteq {"action"} \cup BridgeAuth
  /\ prop["conf-pin"] # Empty /\ "conf-pin" \notin own => prop["conf-room"] # Empty

LEMMA EachEnd == BridgeHasItsEnd <=> \A m \in Message : EndOf(props[m], bridged[m], ownProps[m])
  BY DEF BridgeHasItsEnd, EndOf

LEMMA EachEndNext ==
  BridgeHasItsEnd' <=> \A m \in Message : EndOf(props'[m], bridged'[m], ownProps'[m])
  BY DEF BridgeHasItsEnd, EndOf

LEMMA SetPropInv ==
  ASSUME PropInv, NEW m \in Message, NEW values, Fits(values), Set(m, values),
         DOMAIN values \cap BridgeProperty = {}
  PROVE  PropInv'
<1>1. Give(m, values) /\ bridged' = bridged
  BY DEF Set
<1>2. Gives(m, values)
  BY <1>1, GiveGroups
<1>3. BridgeProperty \subseteq MsgProperty
  BY DEF BridgeProperty, MsgProperty, Group, Single
<1>4. \A n \in Message, p \in BridgeProperty : props'[n][p] = props[n][p]
  BY <1>2, <1>3 DEF Gives
<1>5. BridgeHasItsEnd'
  <2> SUFFICES ASSUME NEW n \in Message
               PROVE  EndOf(props'[n], bridged'[n], ownProps'[n])
    BY EachEnd, EachEndNext
  <2>1. {"action", "conf-pin", "conf-room"} \subseteq BridgeProperty
    BY DEF BridgeProperty
  <2>2. /\ bridged'[n] = bridged[n] /\ DOMAIN bridged[n] \subseteq BridgeProperty
        /\ ownProps'[n] \cap BridgeProperty = ownProps[n] \cap BridgeProperty
    BY <1>1, <1>2 DEF PropInv, Gives
  <2>3. EndOf(props[n], bridged[n], ownProps[n])
    BY EachEnd DEF PropInv
  <2> QED
    BY <1>4, <2>1, <2>2, <2>3 DEF EndOf
<1> QED
  BY <1>1, <1>2, <1>5 DEF PropInv, Gives

\* What a bridging method sets brings the end that its action needs.
Ends(values) ==
  /\ "action" \in DOMAIN values /\ DOMAIN values \subseteq BridgeProperty
  /\ "conf-pin" \in DOMAIN values => "conf-room" \in DOMAIN values
  /\ \/ values["action"] = "bridge-to-gateway" /\ "gateway" \in DOMAIN values
     \/ values["action"] = "bridge-to-conference" /\ "conf-room" \in DOMAIN values
     \/ values["action"] = "bridge-to-sbc" /\ DOMAIN values \subseteq {"action"} \cup BridgeAuth

LEMMA BridgePropInv ==
  ASSUME PropInv, NEW m \in Message, NEW values, Fits(values), Ends(values), GiveBridge(m, values)
  PROVE  PropInv'
<1>1. /\ Give(m, values) /\ DOMAIN bridged' = Message
      /\ bridged'[m] = values /\ \A n \in Message \ {m} : bridged'[n] = bridged[n]
  BY DEF GiveBridge, PropInv
<1>2. Gives(m, values)
  BY <1>1, GiveGroups
<1>3. BridgeProperty \subseteq MsgProperty /\ {"action", "conf-pin", "conf-room"} \subseteq BridgeProperty
  BY DEF BridgeProperty, MsgProperty, Group, Single
<1>4. BridgeHasItsEnd'
  <2> SUFFICES ASSUME NEW n \in Message
               PROVE  EndOf(props'[n], bridged'[n], ownProps'[n])
    BY EachEnd, EachEndNext
  <2>0. EndOf(props[n], bridged[n], ownProps[n])
    BY EachEnd DEF PropInv
  <2>1. CASE n = m
    <3>1. \A p \in DOMAIN values : props'[m][p] = Stored(values[p])
      BY <1>2, <1>3 DEF Ends, Gives
    <3>2. values["action"] \in String
      BY Literals DEF Ends
    <3>3. props'[m]["action"] = values["action"]
      BY <3>1, <3>2, Literals DEF Ends, Stored
    <3>4. props'[m]["conf-pin"] # Empty /\ "conf-pin" \notin ownProps'[m] =>
            props'[m]["conf-room"] # Empty
      <4>1. "conf-room" \in DOMAIN values => props'[m]["conf-room"] # Empty
        BY <3>1, Literals DEF Fits, Stored
      <4>2. "conf-room" \notin DOMAIN values =>
              /\ props'[m]["conf-room"] = props[m]["conf-room"]
              /\ props'[m]["conf-pin"] = props[m]["conf-pin"]
              /\ "conf-pin" \in ownProps[m] => "conf-pin" \in ownProps'[m]
        BY <1>2, <1>3 DEF Ends, Gives
      <4> QED
        BY <2>0, <2>1, <4>1, <4>2 DEF EndOf
    <3> QED
      BY <1>1, <2>1, <3>1, <3>3, <3>4 DEF Ends, EndOf
  <2>2. CASE n # m
    <3>1. /\ \A p \in BridgeProperty : props'[n][p] = props[n][p]
          /\ bridged'[n] = bridged[n] /\ DOMAIN bridged[n] \subseteq BridgeProperty
          /\ ownProps'[n] = ownProps[n]
      BY <1>1, <1>2, <1>3, <2>2 DEF PropInv, Gives
    <3> QED
      BY <1>3, <2>0, <3>1 DEF EndOf
  <2> QED
    BY <2>1, <2>2
<1>5. \A n \in Message : DOMAIN bridged'[n] \subseteq BridgeProperty
  BY <1>1 DEF PropInv, Ends
<1> QED
  BY <1>1, <1>2, <1>4, <1>5 DEF PropInv, Gives

\* Each method of RouteProfile that does not bridge.
LEMMA SettersPropInv ==
  ASSUME PropInv, NEW m \in Message,
         \/ \E values \in [Target -> MsgArg] : SetTargetAddress(m, values)
         \/ \E values \in [Interface -> MsgArg] : SetInterfaceAddress(m, values)
         \/ \E arg \in MsgArg : SetTransactionTimeout(m, arg) \/ SetRejectReason(m, arg)
                                  \/ SetRejectCode(m, arg)
         \/ RouteAccept(m)
         \/ RouteReject(m)
         \/ RouteRequest(m)
  PROVE  PropInv'
<1> DEFINE Unbridged(S) == /\ S \subseteq Group
                           /\ (UNION S) \cap BridgeProperty = {}
<1>1. ASSUME NEW S \in SUBSET Group, Unbridged(S), NEW values, DOMAIN values = UNION S,
             \A p \in UNION S : values[p] \in String \cup {Undefined}, Set(m, values)
      PROVE  PropInv'
  <2>1. Fits(values)
    BY <1>1, WholeGroups DEF BridgeProperty
  <2> QED
    BY <1>1, <2>1, SetPropInv
<1>2. /\ Unbridged({Target}) /\ Unbridged({Interface})
      /\ Unbridged({{"reject-reason"}}) /\ Unbridged({{"reject-code"}})
      /\ Unbridged({Decision}) /\ Unbridged({Timeout}) /\ Unbridged({Timeout, Decision})
  BY DEF Group, Single, Target, Interface, Decision, Timeout, BridgeProperty, BridgeAuth
<1> HIDE DEF Unbridged
<1>3. MsgArg \subseteq String \cup {Undefined}
  BY ArgumentAssumption
<1>4. ASSUME NEW values \in [Target -> MsgArg], SetTargetAddress(m, values) PROVE PropInv'
  <2>1. UNION {Target} = Target /\ {Target} \subseteq Group
    BY <1>2 DEF Unbridged
  <2> QED
    BY <1>1, <1>2, <1>3, <1>4, <2>1 DEF SetTargetAddress
<1>5. ASSUME NEW values \in [Interface -> MsgArg], SetInterfaceAddress(m, values) PROVE PropInv'
  <2>1. UNION {Interface} = Interface /\ {Interface} \subseteq Group
    BY <1>2 DEF Unbridged
  <2> QED
    BY <1>1, <1>2, <1>3, <1>5, <2>1 DEF SetInterfaceAddress
<1>6. ASSUME NEW g, Unbridged({g}), NEW arg \in String \cup {Undefined}, Set(m, [p \in g |-> arg])
      PROVE  PropInv'
  <2>1. UNION {g} = g /\ {g} \subseteq Group
    BY <1>6 DEF Unbridged
  <2> QED
    BY <1>1, <1>6, <2>1
<1>7. ASSUME NEW arg \in MsgArg,
             SetTransactionTimeout(m, arg) \/ SetRejectReason(m, arg) \/ SetRejectCode(m, arg)
      PROVE  PropInv'
  BY <1>2, <1>3, <1>6, <1>7 DEF SetTransactionTimeout, SetRejectReason, SetRejectCode
<1>8. CASE RouteAccept(m) \/ RouteReject(m)
  BY <1>2, <1>6, <1>8, Literals DEF RouteAccept, RouteReject
<1>9. CASE RouteRequest(m)
  <2>1. UNION {Timeout, Decision} = Timeout \cup Decision /\ {Timeout, Decision} \subseteq Group
    BY <1>2 DEF Unbridged
  <2> QED
    BY <1>1, <1>2, <1>9, <2>1, Literals DEF RouteRequest
<1> QED
  BY <1>4, <1>5, <1>7, <1>8, <1>9

LEMMA BridgeToGatewayPropInv ==
  ASSUME PropInv, NEW m \in Message, NEW gateway \in MsgArg, BridgeToGateway(m, gateway)
  PROVE  PropInv'
<1> DEFINE values == [p \in {"action", "gateway"} |->
                       IF p = "action" THEN "bridge-to-gateway" ELSE gateway]
           S == {{"action"}, {"gateway"}}
<1>1. GiveBridge(m, values)
  BY DEF BridgeToGateway
<1>2. S \subseteq Group /\ UNION S = {"action", "gateway"}
  BY DEF Group, Single
<1>3. \A p \in UNION S : values[p] \in String \cup {Undefined}
  BY <1>2, Literals, ArgumentAssumption
<1>4. BridgeAuth \cap UNION S = {}
  BY <1>2 DEF BridgeAuth
<1>5. DOMAIN values = UNION S
  BY <1>2
<1>6. Ends(values)
  BY DEF Ends, BridgeProperty
<1> HIDE DEF values, S
<1>7. Fits(values)
  BY <1>2, <1>3, <1>4, <1>5, WholeGroups
<1> QED
  BY <1>1, <1>6, <1>7, BridgePropInv

LEMMA BridgePropInvOfSbc ==
  ASSUME PropInv, NEW m \in Message, NEW auth \in [BridgeAuth -> MsgArg], Bridge(m, auth)
  PROVE  PropInv'
<1> DEFINE S == {{"action"}} \cup (IF BothDefined(auth) THEN {BridgeAuth} ELSE {})
           values == [p \in {"action"} \cup (IF BothDefined(auth) THEN BridgeAuth ELSE {}) |->
                       IF p = "action" THEN "bridge-to-sbc" ELSE auth[p]]
<1>1. GiveBridge(m, values)
  BY DEF Bridge
<1>2. S \subseteq Group /\ "action" \notin BridgeAuth
  BY DEF Group, Single, BridgeAuth
<1>3. DOMAIN values = UNION S
  BY DEF BothDefined
<1>4. \A p \in UNION S : values[p] \in String \cup {Undefined}
  BY Literals, ArgumentAssumption
<1>5. \A p \in BridgeAuth \cap UNION S : values[p] \notin {"?", Undefined}
  BY <1>2, ArgumentAssumption DEF BothDefined
<1>6. Ends(values)
  BY DEF Ends, BridgeProperty, BridgeAuth
<1> HIDE DEF values, S
<1>7. Fits(values)
  BY <1>2, <1>3, <1>4, <1>5, WholeGroups
<1> QED
  BY <1>1, <1>6, <1>7, BridgePropInv

LEMMA BridgeToConferencePropInv ==
  ASSUME PropInv, NEW m \in Message, NEW room \in MsgArg, NEW pin \in MsgArg,
         NEW flags \in MsgArg, BridgeToConference(m, room, pin, flags)
  PROVE  PropInv'
<1> DEFINE values == Conference(room, pin, flags)
           names == {"action", "conf-room"} \cup {q \in {"conf-pin"} : pin # Undefined}
                                            \cup {q \in {"conf-flags"} : flags # Undefined}
           S == {{p} : p \in names}
<1>1. GiveBridge(m, values)
  BY DEF BridgeToConference
<1>2. names \subseteq {"action", "conf-room", "conf-pin", "conf-flags"}
  OBVIOUS
<1>3. S \subseteq Group /\ UNION S = names
  BY <1>2 DEF Group, Single
<1>4. DOMAIN values = names
  BY DEF Conference
<1>5. \A p \in names : values[p] \in String \cup {Undefined}
  BY Literals, ArgumentAssumption DEF Conference
<1>6. BridgeAuth \cap names = {}
  BY <1>2 DEF BridgeAuth
<1>7. values["action"] = "bridge-to-conference" /\ {"action", "conf-room"} \subseteq names
  BY DEF Conference
<1> HIDE DEF values, S, names
<1>8. Fits(values)
  BY <1>3, <1>4, <1>5, <1>6, WholeGroups
<1>9. Ends(values)
  BY <1>2, <1>4, <1>7 DEF Ends, BridgeProperty
<1> QED
  BY <1>1, <1>8, <1>9, BridgePropInv

\* A property that a script sets itself.
LEMMA SetOwnPropInv ==
  ASSUME PropInv, NEW m \in Message, NEW name \in MsgProperty, NEW value \in MsgArg,
         SetOwnProperty(m, name, value)
  PROVE  PropInv'
<1>1. Stored(value) \in String
  BY Literals, ArgumentAssumption DEF Stored
<1>2. /\ props' \in [Message -> [MsgProperty -> String \cup {Empty}]]
      /\ \A n \in Message, p \in MsgProperty :
           props'[n][p] = IF n = m /\ p = name THEN Stored(value) ELSE props[n][p]
  BY <1>1 DEF SetOwnProperty, SetProperties, PropInv
<1>3. /\ given' = given /\ bridged' = bridged
      /\ ownProps' \in [Message -> SUBSET MsgProperty]
      /\ \A n \in Message : ownProps'[n] = IF n = m THEN ownProps[n] \cup {name} ELSE ownProps[n]
  BY DEF SetOwnProperty, PropInv
<1>4. \A n \in Message : \A p \in MsgProperty \ ownProps'[n] :
        props'[n][p] = props[n][p] /\ p \notin ownProps[n]
  BY <1>2, <1>3
<1>5. /\ \A g \in Group : g \subseteq MsgProperty
      /\ BridgeAuth \subseteq MsgProperty /\ BridgeProperty \subseteq MsgProperty
      /\ {"action", "conf-pin", "conf-room"} \subseteq MsgProperty
  BY DEF MsgProperty, Group, Single, BridgeProperty
<1>6. GroupsAreOfOneCall'
  <2>1. ASSUME NEW n \in Message, NEW g \in DOMAIN given[n], NEW p \in g \ ownProps'[n]
        PROVE  props'[n][p] = Stored(given[n][g][p])
    <3>1. g \in Group /\ p \in MsgProperty
      BY <1>5 DEF PropInv
    <3> QED
      BY <1>4, <3>1 DEF PropInv, GroupsAreOfOneCall
  <2>2. ASSUME NEW n \in Message, NEW g \in Group \ DOMAIN given[n], NEW p \in g \ ownProps'[n]
        PROVE  props'[n][p] = Empty
    BY <1>4, <1>5 DEF PropInv, GroupsAreOfOneCall
  <2>3. ASSUME NEW n \in Message, NEW p \in BridgeAuth \ ownProps'[n] PROVE props'[n][p] # "?"
    BY <1>4, <1>5 DEF PropInv, GroupsAreOfOneCall
  <2> QED
    BY <1>3, <2>1, <2>2, <2>3 DEF GroupsAreOfOneCall
<1>7. BridgeHasItsEnd'
  <2> SUFFICES ASSUME NEW n \in Message PROVE EndOf(props'[n], bridged'[n], ownProps'[n])
    BY EachEndNext
  <2>1. EndOf(props[n], bridged[n], ownProps[n]) /\ DOMAIN bridged[n] \subseteq MsgProperty
    BY <1>5, EachEnd DEF PropInv
  <2>2. props[n]["conf-room"] # Empty => props'[n]["conf-room"] # Empty
    BY <1>1, <1>2, <1>5, Literals
  <2> QED
    BY <1>3, <1>4, <1>5, <2>1, <2>2 DEF EndOf
<1> QED
  BY <1>2, <1>3, <1>6, <1>7 DEF PropInv

LEMMA PropertyCallProp ==
  ASSUME PropInv, NEW m \in Message, PropertyCall(m)
  PROVE  PropInv'
<1>1. CASE \E auth \in [BridgeAuth -> MsgArg] : Bridge(m, auth)
  BY <1>1, BridgePropInvOfSbc
<1>2. CASE \E room, pin, flags \in MsgArg : BridgeToConference(m, room, pin, flags)
  BY <1>2, BridgeToConferencePropInv
<1>3. CASE \E arg \in MsgArg : BridgeToGateway(m, arg)
  BY <1>3, BridgeToGatewayPropInv
<1>4. CASE \E arg \in MsgArg, name \in OwnName \cap MsgProperty : SetOwnProperty(m, name, arg)
  BY <1>4, SetOwnPropInv
<1> QED
  BY <1>1, <1>2, <1>3, <1>4, SettersPropInv DEF PropertyCall

-----------------------------------------------------------------------------
(* Gateways and dialled strings                                            *)

LEMMA GatewayCallTypes ==
  ASSUME GatewayInv, GatewayCall
  PROVE  GatewayInv'
<1>1. PICK arg \in GatewayArg : SendRegister(arg)
  BY DEF GatewayCall
<1> DEFINE g == [a \in Account \cup {"expires", "address", "port"} |->
                  CASE a = "address" -> Entry(SipInterfaceAddress, arg.index)
                    [] a = "port" -> Entry(SipInterfacePort, arg.index)
                    [] OTHER -> arg[a]]
<1>2. gateways' = gateways \cup {g} /\ arg.index \in Nat
  BY <1>1 DEF SendRegister
<1>3. /\ g.address = Entry(SipInterfaceAddress, arg.index)
      /\ g.port = Entry(SipInterfacePort, arg.index)
  OBVIOUS
<1> HIDE DEF g
<1>4. /\ Entry(SipInterfaceAddress, arg.index) \in String \cup {Undefined}
      /\ Entry(SipInterfacePort, arg.index) \in Nat \cup {Undefined}
  BY ArgumentAssumption DEF Entry
<1> QED
  BY <1>2, <1>3, <1>4 DEF GatewayInv

LEMMA PrefixThenRest ==
  ASSUME NEW d \in Seq(Nat), NEW p \in Seq(Nat), StringStartsWith(d, p)
  PROVE  p \o SubSeq(d, Len(p) + 1, Len(d)) = d
  BY DEF StringStartsWith

LEMMA OtherStart ==
  ASSUME NEW d \in Seq(Nat), NEW p \in Seq(Nat), NEW tail \in Seq(Nat), p \o tail = d
  PROVE  StringStartsWith(d, p)
  BY DEF StringStartsWith

LEMMA StringCallRemoved ==
  ASSUME StringCall
  PROVE  PrefixIsRemoved'
<1>1. PICK d \in Dialled \cup {Undefined}, p \in Dialled \cup {Undefined} :
        stripped' = [dialled |-> d, prefix |-> p, rest |-> RemoveStringPrefix(d, p)]
  BY DEF StringCall
<1>2. CASE Undefined \in {d, p}
  BY <1>1, <1>2 DEF PrefixIsRemoved, RemoveStringPrefix
<1>3. CASE Undefined \notin {d, p}
  <2>1. d \in Seq(Nat) /\ p \in Seq(Nat) /\ Dialled \subseteq Seq(Nat)
    BY <1>3, ArgumentAssumption
  <2>2. CASE StringStartsWith(d, p)
    <3>1. ~ Len(p) > Len(d)
      BY <2>1, <2>2 DEF StringStartsWith
    <3>2. RemoveStringPrefix(d, p) = SubSeq(d, Len(p) + 1, Len(d))
      BY <1>3, <2>2, <3>1 DEF RemoveStringPrefix
    <3>3. p \o RemoveStringPrefix(d, p) = d
      BY <2>1, <2>2, <3>2, PrefixThenRest
    <3> QED
      BY <1>1, <1>3, <3>3 DEF PrefixIsRemoved
  <2>3. CASE ~ StringStartsWith(d, p)
    <3>1. RemoveStringPrefix(d, p) = d
      BY <1>3, <2>3 DEF RemoveStringPrefix
    <3>2. \A tail \in Dialled : p \o tail # d
      BY <2>1, <2>3, OtherStart
    <3> QED
      BY <1>1, <1>3, <3>1, <3>2 DEF PrefixIsRemoved
  <2> QED
    BY <2>2, <2>3
<1> QED
  BY <1>2, <1>3

-----------------------------------------------------------------------------
(* The contents of messages                                                *)

LEMMA TargetTypes ==
  ASSUME MessageTypeOK, NEW m \in Message, NEW t \in Text, SetTargetDomain(m, t) \/ SetTargetUser(m, t)
  PROVE  MessageTypeOK'
<1>1. answer' = answer
  BY DEF SetTargetDomain, SetTargetUser
<1>2. content[m] \in Content /\ WellFormed(content[m])
  BY DEF MessageTypeOK
<1>3. PICK c \in Content : WellFormed(c) /\ content' = [content EXCEPT ![m] = c]
  <2>1. CASE SetTargetDomain(m, t)
    <3>1. PICK done \in SUBSET {u \in Uri : HasUri(m, u)} :
            content' = [content EXCEPT ![m].host = [u \in Uri |-> IF u \in done THEN t ELSE @[u]]]
      BY <2>1 DEF SetTargetDomain
    <3> DEFINE host == [u \in Uri |-> IF u \in done THEN t ELSE content[m].host[u]]
               c == [content[m] EXCEPT !.host = host]
    <3>2. /\ host \in [Uri -> Text \cup {Empty}]
          /\ content[m].method = None => host["ruri"] = content[m].host["ruri"]
      BY <1>2 DEF Content, HasUri, Uri
    <3> HIDE DEF host
    <3>3. c \in Content /\ WellFormed(c)
      BY <1>2, <3>2 DEF Content, WellFormed
    <3>4. content' = [content EXCEPT ![m] = c]
      BY <3>1 DEF host
    <3> QED
      BY <3>3, <3>4
  <2>2. CASE SetTargetUser(m, t)
    <3>1. PICK done \in SUBSET {u \in Uri \ {"from"} : HasUri(m, u)} :
            content' = [content EXCEPT ![m].user = [u \in Uri |-> IF u \in done THEN t ELSE @[u]]]
      BY <2>2 DEF SetTargetUser
    <3> DEFINE user == [u \in Uri |-> IF u \in done THEN t ELSE content[m].user[u]]
               c == [content[m] EXCEPT !.user = user]
    <3>2. /\ user \in [Uri -> Text \cup {Empty}]
          /\ content[m].method = None => user["ruri"] = content[m].user["ruri"]
      BY <1>2 DEF Content, HasUri, Uri
    <3> HIDE DEF user
    <3>3. c \in Content /\ WellFormed(c)
      BY <1>2, <3>2 DEF Content, WellFormed
    <3>4. content' = [content EXCEPT ![m] = c]
      BY <3>1 DEF user
    <3> QED
      BY <3>3, <3>4
  <2> QED
    BY <2>1, <2>2
<1> QED
  BY <1>1, <1>2, <1>3 DEF MessageTypeOK

-----------------------------------------------------------------------------
(* The inductive invariant                                                 *)

LEMMA InitIInv == Init => IInv
<1> SUFFICES ASSUME Init PROVE IInv
  OBVIOUS
<1>1. TrnInv
  <2>1. trn \in Properties /\ \A t \in Transaction, name \in String : trn[t][name] = Empty
    BY DEF Init, NoProps, Properties
  <2>2. /\ flagged \in [Transaction -> SUBSET Alias] /\ \A t \in Transaction : flagged[t] = {}
        /\ reg \in [Transaction -> [Credential -> RegArg] \cup {Nil}]
        /\ \A t \in Transaction : reg[t] = Nil
        /\ ownTrn \in [Transaction -> SUBSET String]
    BY DEF Init
  <2> QED
    BY <2>1, <2>2, Literals DEF TrnInv, LocalRegIsWhole
<1>2. PropInv
  <2>1. /\ props \in [Message -> [MsgProperty -> String \cup {Empty}]]
        /\ \A m \in Message, p \in MsgProperty : props[m][p] = Empty
        /\ DOMAIN given = Message /\ DOMAIN bridged = Message
        /\ ownProps \in [Message -> SUBSET MsgProperty]
        /\ \A m \in Message : DOMAIN given[m] = {} /\ DOMAIN bridged[m] = {}
    BY DEF Init
  <2>2. /\ \A g \in Group : g \subseteq MsgProperty
        /\ BridgeAuth \subseteq MsgProperty
        /\ {"action", "conf-pin", "conf-room"} \subseteq MsgProperty
    BY DEF MsgProperty, Group, Single
  <2>3. GroupsAreOfOneCall
    BY <2>1, <2>2, Literals DEF GroupsAreOfOneCall
  <2>4. BridgeHasItsEnd
    BY <2>1, <2>2, Literals DEF BridgeHasItsEnd
  <2> QED
    BY <2>1, <2>3, <2>4 DEF PropInv
<1>3. GatewayInv /\ PrefixIsRemoved
  BY DEF Init, GatewayInv, PrefixIsRemoved
<1>4. MessageTypeOK
  <2>1. answer \in [returned : BOOLEAN \cup {Undefined}, succeeded : BOOLEAN]
    BY DEF Init, MessageInit, NoAnswer
  <2>2. content = ContentOf
    BY DEF Init, MessageInit
  <2> QED
    BY <2>1, <2>2, MessageAssumption DEF MessageTypeOK
<1>5. CallInv
  BY DEF Init, CallInv
<1> QED
  BY <1>1, <1>2, <1>3, <1>4, <1>5 DEF IInv

LEMMA StepIInv == IInv /\ [Next]_vars => IInv'
<1> SUFFICES ASSUME IInv, [Next]_vars PROVE IInv'
  OBVIOUS
<1>1. UNCHANGED trnVars => TrnInv'
  BY DEF IInv, TrnInv, LocalRegIsWhole, trnVars
<1>2. UNCHANGED propVars => PropInv'
  BY DEF IInv, PropInv, GroupsAreOfOneCall, BridgeHasItsEnd, propVars
<1>3. UNCHANGED gateways => GatewayInv'
  BY DEF IInv, GatewayInv
<1>4. UNCHANGED stripped => PrefixIsRemoved'
  BY DEF IInv, PrefixIsRemoved
<1>5. UNCHANGED messageVars => MessageTypeOK'
  BY DEF IInv, MessageTypeOK, messageVars
<1>6. ASSUME NEW kind \in Kind, Call(kind) PROVE CallInv'
  BY <1>6 DEF IInv, CallInv, Call
<1>7. {"transaction", "property", "uri", "header", "string"} = Kind
  BY DEF Kind
<1> USE DEF IInv
<1>8. ASSUME NEW m \in Message, Call("transaction"), TransactionCall(m) PROVE IInv'
  <2>1. UNCHANGED <<propVars, gateways, stripped, messageVars>>
    BY <1>8 DEF TransactionCall
  <2> QED
    BY <1>2, <1>3, <1>4, <1>5, <1>6, <1>7, <1>8, <2>1, TransactionCallTrn
<1>9. ASSUME NEW m \in Message, Call("property"), PropertyCall(m) PROVE IInv'
  <2>1. UNCHANGED <<trnVars, gateways, stripped, messageVars>>
    BY <1>9 DEF PropertyCall
  <2> QED
    BY <1>1, <1>3, <1>4, <1>5, <1>6, <1>7, <1>9, <2>1, PropertyCallProp
<1>10. ASSUME NEW m \in Message, Call("uri"), ContentCall(m) PROVE IInv'
  <2>1. UNCHANGED <<trnVars, propVars, gateways, stripped>>
    BY <1>10 DEF ContentCall
  <2>2. MessageTypeOK'
    BY <1>10, UriCallTypes, TargetTypes DEF ContentCall
  <2> QED
    BY <1>1, <1>2, <1>3, <1>4, <1>6, <1>7, <1>10, <2>1, <2>2
<1>11. ASSUME NEW m \in Message, Call("header"), HeaderCall(m),
              UNCHANGED <<trnVars, propVars, gateways, stripped>>
       PROVE  IInv'
  BY <1>1, <1>2, <1>3, <1>4, <1>6, <1>7, <1>11, HeaderCallTypes
<1>12. CASE Call("property") /\ GatewayCall
  <2>1. UNCHANGED <<trnVars, propVars, stripped, messageVars>>
    BY <1>12 DEF GatewayCall
  <2> QED
    BY <1>1, <1>2, <1>4, <1>5, <1>6, <1>7, <1>12, <2>1, GatewayCallTypes
<1>13. CASE Call("string") /\ StringCall
  <2>1. UNCHANGED <<trnVars, propVars, gateways, messageVars>>
    BY <1>13 DEF StringCall
  <2> QED
    BY <1>1, <1>2, <1>3, <1>5, <1>6, <1>7, <1>13, <2>1, StringCallRemoved
<1>14. CASE UNCHANGED vars
  BY <1>1, <1>2, <1>3, <1>4, <1>5, <1>14 DEF vars, CallInv
<1> QED
  BY <1>8, <1>9, <1>10, <1>11, <1>12, <1>13, <1>14 DEF Next

\* The invariant holds in every reachable state.
THEOREM IInvAlways == Spec => []IInv
  BY InitIInv, StepIInv, PTL DEF Spec

\* Types, of what scripts set by name too.
THEOREM TypeCorrect == Spec => []TypeOK
<1>1. IInv => TypeOK
  BY DEF IInv, TrnInv, PropInv, GatewayInv, CallInv, TypeOK, Properties
<1> QED
  BY <1>1, IInvAlways, PTL

\* A flag is seen through every message of its transaction and through no other.
THEOREM FlagsShared == Spec => []FlagsAreShared
<1>1. IInv => FlagsAreShared
  <2> SUFFICES ASSUME IInv, NEW m \in Message, NEW alias \in Alias
               PROVE  IsRouteFlagged(m, alias) <=>
                        TrnOf[m] # Nil /\ alias \in String /\ alias \in flagged[TrnOf[m]]
    BY DEF FlagsAreShared
  <2>1. Undefined # "1" /\ alias # "log-id"
    BY Literals
  <2>2. CASE TrnOf[m] = Nil \/ alias \notin String
    <3>1. GetTransactionProperty(trn, m, alias) = Undefined
      BY <2>1, <2>2, Literals DEF GetTransactionProperty, JsValToString
    <3> QED
      BY <2>1, <2>2, <3>1 DEF IsRouteFlagged
  <2>3. CASE TrnOf[m] # Nil /\ alias \in String
    <3>1. TrnOf[m] \in Transaction /\ JsValToString(alias) # Empty
      BY <2>3, ScriptAssumption DEF JsValToString
    <3>2. GetTransactionProperty(trn, m, alias) = trn[TrnOf[m]][alias]
      BY <2>1, <2>3, <3>1 DEF GetTransactionProperty
    <3> QED
      BY <2>3, <3>1, <3>2 DEF IsRouteFlagged, IInv, TrnInv
  <2> QED
    BY <2>2, <2>3
<1> QED
  BY <1>1, IInvAlways, PTL

\* A local registration is handled with the credentials of one call.
THEOREM LocalRegWhole == Spec => []LocalRegIsWhole
<1>1. IInv => LocalRegIsWhole
  BY DEF IInv, TrnInv
<1> QED
  BY <1>1, IInvAlways, PTL

\* What belongs together of a message comes from one call.
THEOREM GroupsWhole == Spec => []GroupsAreOfOneCall
<1>1. IInv => GroupsAreOfOneCall
  BY DEF IInv, PropInv
<1> QED
  BY <1>1, IInvAlways, PTL

\* The action of a message is that of its last bridging call and has its end.
THEOREM BridgeEnds == Spec => []BridgeHasItsEnd
<1>1. IInv => BridgeHasItsEnd
  BY DEF IInv, PropInv
<1> QED
  BY <1>1, IInvAlways, PTL

\* Removing a prefix leaves what follows it.
THEOREM PrefixRemoved == Spec => []PrefixIsRemoved
<1>1. IInv => PrefixIsRemoved
  BY DEF IInv
<1> QED
  BY <1>1, IInvAlways, PTL

=============================================================================
