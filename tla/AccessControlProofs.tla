-------------------------- MODULE AccessControlProofs --------------------------
(***************************************************************************)
(* Proofs about AccessControl, for any profiles, messages, transactions,   *)
(* networks and lists of properties.                                       *)
(***************************************************************************)
EXTENDS AccessControl, ScriptDefsProofs

\* A verdict is somebody's.
Verified == \A m \in Message : authAction[m] # Empty => verifier[m] \in Profile

\* The history holds what the properties were before the loop.
LoopInv == loop = Nil => before = trn

IInv ==
  /\ TypeOK
  /\ Verified
  /\ LoopInv
  /\ AcceptedByItsOwnList
  /\ OnlyAcceptedGetProperties
  /\ LastEntryDecides

-----------------------------------------------------------------------------
(* Helpers                                                                 *)

\* An entry applies to a message exactly if its request type means that message.
LEMMA AppliesByType ==
  ASSUME NEW q, NEW m \in Message
  PROVE  Applies(q, m) <=> q.requestType \in TypesOf(m)
  BY DEF Applies, IsRequest, TypesOf

-----------------------------------------------------------------------------
(* The actions                                                             *)

LEMMA InitIInv == Init => IInv
<1> SUFFICES ASSUME Init PROVE IInv
  OBVIOUS
<1>1. trn \in Properties /\ \A t \in Transaction, name \in String : trn[t][name] = Empty
  BY DEF Init, NoProps, Properties
<1>2. TypeOK
  BY <1>1, AccessAssumption DEF Init, TypeOK, Properties
<1>3. Verified /\ LoopInv /\ AcceptedByItsOwnList /\ LastEntryDecides
  BY AccessAssumption DEF Init, Verified, LoopInv, AcceptedByItsOwnList, LastEntryDecides
<1>4. OnlyAcceptedGetProperties
  BY <1>1 DEF OnlyAcceptedGetProperties
<1> QED
  BY <1>2, <1>3, <1>4 DEF IInv

\* The process starts anew.
LEMMA CrashIsInit ==
  ASSUME NEW p \in Profile, NEW m \in Message, Crash(p, m)
  PROVE  Init'
  BY DEF Crash, Init

LEMMA RestartIInv == Init' => IInv'
  BY InitIInv, PTL

LEMMA FillListIInv ==
  ASSUME IInv, FillList
  PROVE  IInv'
<1> TypeOK /\ Verified
  BY DEF IInv
<1>1. /\ loop = Nil
      /\ UNCHANGED <<verdictVars, connected, trn, loop, before>>
      /\ listed \subseteq listed'
      /\ \A p \in Profile : /\ trustEveryone[p] => trustEveryone'[p]
                            /\ trustedNetwork[p] \subseteq trustedNetwork'[p]
  BY DEF FillList, EngineIsFree, TypeOK, TrustEveryone, TrustNetwork, AddProperty, ChangeProperty
<1>2. TypeOK'
  <2>1. CASE \E p \in Profile : TrustEveryone(p) \/ \E n \in Network : TrustNetwork(p, n)
    BY <1>1, <2>1 DEF TypeOK, TrustEveryone, TrustNetwork, verdictVars
  <2>2. ASSUME NEW q \in Property, AddProperty(q) PROVE TypeOK'
    <3>1. /\ params' \in Seq(Property) /\ Len(params') = Len(params) + 1
          /\ \A i \in DOMAIN params' : params'[i] \in listed'
      BY <2>2 DEF AddProperty, TypeOK
    <3>2. Len(params') =< MaxParams
      BY <2>2, <3>1, AccessAssumption DEF AddProperty, TypeOK
    <3> QED
      BY <1>1, <2>2, <3>1, <3>2 DEF TypeOK, AddProperty, verdictVars
  <2>3. ASSUME NEW q \in Property, NEW i \in 1 .. MaxParams, ChangeProperty(i, q) PROVE TypeOK'
    <3>1. /\ params' \in Seq(Property) /\ Len(params') = Len(params)
          /\ \A j \in DOMAIN params' : params'[j] \in listed'
      BY <2>3 DEF ChangeProperty, TypeOK
    <3> QED
      BY <1>1, <2>3, <3>1 DEF TypeOK, ChangeProperty, verdictVars
  <2> QED
    BY <2>1, <2>2, <2>3 DEF FillList
<1>3. AcceptedByItsOwnList'
  BY <1>1, AccessAssumption DEF IInv, AcceptedByItsOwnList, Verified, verdictVars, TypeOK
<1>4. OnlyAcceptedGetProperties'
  BY <1>1 DEF IInv, OnlyAcceptedGetProperties, verdictVars, TypesOf
<1>5. Verified' /\ LoopInv' /\ LastEntryDecides'
  BY <1>1 DEF IInv, Verified, LoopInv, LastEntryDecides, verdictVars
<1> QED
  BY <1>2, <1>3, <1>4, <1>5 DEF IInv

LEMMA AcceptIInv ==
  ASSUME IInv, NEW p \in Profile, NEW m \in Message, Accept(p, m)
  PROVE  IInv'
<1> TypeOK /\ Verified /\ LoopInv
  BY DEF IInv
<1>1. /\ loop = Nil /\ loop' = [message |-> m, i |-> 1]
      /\ authAction' = [authAction EXCEPT ![m] = "accept"]
      /\ verifier' = [verifier EXCEPT ![m] = p]
      /\ accepted' = accepted \cup {m}
      /\ UNCHANGED <<trustEveryone, trustedNetwork, params, listed, connected, trn, before>>
  BY DEF Accept, EngineIsFree, listVars
<1>2. TypeOK'
  <2>1. loop' \in [message : accepted', i : 1 .. Len(params) + 1]
    BY <1>1 DEF TypeOK
  <2> QED
    BY <1>1, <2>1 DEF TypeOK
<1>3. Verified' /\ LoopInv'
  BY <1>1, ScriptAssumption DEF Verified, LoopInv, TypeOK
<1>4. AcceptedByItsOwnList'
  <2>1. trustEveryone[p] \/ (TrnOf[m] # Nil /\ \E n \in NetworksOf[m] : n \in trustedNetwork[p])
    BY DEF Accept, Trusts, Source
  <2> QED
    BY <1>1, <2>1 DEF IInv, AcceptedByItsOwnList, TypeOK
<1>5. OnlyAcceptedGetProperties'
  BY <1>1 DEF IInv, OnlyAcceptedGetProperties, TypesOf
<1>6. LastEntryDecides'
  <2>1. before' = trn' /\ loop'.i - 1 = 0 /\ loop'.message = m
    BY <1>1 DEF LoopInv
  <2>2. \A name \in String : Listed(m, name, 0)' = {}
    BY <1>1 DEF Listed, TypeOK
  <2> QED
    BY <1>1, <2>1, <2>2 DEF LastEntryDecides
<1> QED
  BY <1>2, <1>3, <1>4, <1>5, <1>6 DEF IInv

LEMMA RejectIInv ==
  ASSUME IInv, NEW p \in Profile, NEW m \in Message, Reject(p, m)
  PROVE  IInv'
<1> TypeOK /\ Verified
  BY DEF IInv
<1>1. /\ loop = Nil
      /\ authAction' = [authAction EXCEPT ![m] = "reject"]
      /\ verifier' = [verifier EXCEPT ![m] = p]
      /\ UNCHANGED <<trustEveryone, trustedNetwork, params, listed, accepted, connected, trn,
                     loop, before>>
  BY DEF Reject, EngineIsFree, listVars
<1>2. TypeOK'
  BY <1>1 DEF TypeOK
<1>3. Verified' /\ LoopInv' /\ LastEntryDecides'
  BY <1>1 DEF IInv, Verified, LoopInv, LastEntryDecides, TypeOK
<1>4. AcceptedByItsOwnList'
  BY <1>1 DEF IInv, AcceptedByItsOwnList, TypeOK
<1>5. OnlyAcceptedGetProperties'
  BY <1>1 DEF IInv, OnlyAcceptedGetProperties, TypesOf
<1> QED
  BY <1>2, <1>3, <1>4, <1>5 DEF IInv

\* One turn of the loop adds one place to those that have been looked at.
LEMMA SetNextIInv ==
  ASSUME IInv, SetNext
  PROVE  IInv'
<1> TypeOK /\ Verified
  BY DEF IInv
<1>0. PICK m \in accepted : m = loop.message
  BY DEF SetNext, TypeOK
<1> DEFINE q == params[loop.i]
<1>1. /\ loop \in [message : accepted, i : 1 .. Len(params) + 1]
      /\ loop.i \in DOMAIN params /\ loop' = [loop EXCEPT !.i = @ + 1]
      /\ m \in Message /\ q \in Property /\ q \in listed
      /\ UNCHANGED <<trustEveryone, trustedNetwork, params, listed, authAction, verifier,
                     accepted, connected, before>>
  BY DEF SetNext, TypeOK, listVars, verdictVars
<1>2. loop'.message = m /\ loop'.i = loop.i + 1 /\ loop' # Nil
  <2>1. loop' \in [message : Message, i : Nat]
    BY <1>1 DEF TypeOK
  <2> QED
    BY <1>0, <1>1, <2>1, AccessAssumption
<1>3. q.name \in Value /\ q.value \in Value
  BY <1>1, AccessAssumption
<1>4. trn' = IF Applies(q, m) THEN SetTransactionProperty(trn, m, q.name, q.value) ELSE trn
  BY <1>0 DEF SetNext, Current
<1>5. trn' \in Properties
  BY <1>1, <1>3, <1>4, SetProperty DEF TypeOK, Properties
<1>6. \A t \in Transaction, name \in String :
        trn'[t][name] = IF Applies(q, m) /\ t = TrnOf[m] /\ name = q.name /\ q.value \in String
                        THEN q.value ELSE trn[t][name]
  <2>1. trn \in Properties
    BY DEF TypeOK, Properties
  <2>2. \A t \in Transaction, name \in String :
          SetTransactionProperty(trn, m, q.name, q.value)[t][name] =
            IF t = TrnOf[m] /\ name = q.name /\ q.value \in String THEN q.value ELSE trn[t][name]
    BY <1>1, <1>3, <2>1, SetProperty
  <2>3. CASE Applies(q, m)
    BY <1>4, <2>2, <2>3
  <2>4. CASE ~Applies(q, m)
    BY <1>4, <2>4
  <2> QED
    BY <2>3, <2>4
<1>7. TypeOK'
  <2>1. loop' \in [message : accepted', i : 1 .. Len(params') + 1]
    BY <1>1 DEF TypeOK, SetNext
  <2> QED
    BY <1>1, <1>5, <2>1 DEF TypeOK, Properties
<1>8. Verified' /\ LoopInv' /\ AcceptedByItsOwnList'
  BY <1>1, <1>2 DEF IInv, Verified, LoopInv, AcceptedByItsOwnList
<1>9. OnlyAcceptedGetProperties'
  <2>1. q.requestType \in TypesOf(m) <=> Applies(q, m)
    BY <1>1, AppliesByType
  <2> QED
    BY <1>1, <1>6, <2>1 DEF IInv, OnlyAcceptedGetProperties, TypesOf
<1>10. LastEntryDecides'
  <2> SUFFICES ASSUME NEW t \in Transaction, NEW name \in String
               PROVE  LET places == Listed(m, name, loop.i)
                      IN IF t # TrnOf[m] \/ places = {} THEN trn'[t][name] = before[t][name]
                         ELSE \E i \in places : /\ \A j \in places : j =< i
                                                /\ trn'[t][name] = params[i].value
    <3>1. loop'.i - 1 = loop.i /\ loop.i \in Nat
      BY <1>1, <1>2 DEF TypeOK
    <3>2. \A l \in Message, p \in String, n \in Nat : Listed(l, p, n)' = Listed(l, p, n)
      BY <1>1 DEF Listed, TypesOf
    <3> QED
      BY <1>1, <1>2, <3>1, <3>2 DEF LastEntryDecides, Listed, TypesOf
  <2> DEFINE old == Listed(m, name, loop.i - 1)
             new == Listed(m, name, loop.i)
             hit == Applies(q, m) /\ name = q.name /\ q.value \in String
  <2>1. IF t # TrnOf[m] \/ old = {} THEN trn[t][name] = before[t][name]
        ELSE \E i \in old : /\ \A j \in old : j =< i
                            /\ trn[t][name] = params[i].value
    BY <1>0, <1>1 DEF IInv, LastEntryDecides, SetNext
  <2>2. new = old \cup (IF hit THEN {loop.i} ELSE {})
    BY <1>1, AppliesByType DEF Listed
  <2>3. \A j \in old : j \in Nat /\ j < loop.i
    BY <1>1 DEF Listed, TypeOK
  <2>4. CASE hit
    BY <1>1, <1>6, <2>1, <2>2, <2>3, <2>4
  <2>5. CASE ~hit
    BY <1>6, <2>1, <2>2, <2>5
  <2> QED
    BY <2>4, <2>5
<1> QED
  BY <1>7, <1>8, <1>9, <1>10 DEF IInv

LEMMA ReturnIInv ==
  ASSUME IInv, Return
  PROVE  IInv'
<1>1. /\ loop' = Nil /\ before' = trn' /\ trn' = trn
      /\ UNCHANGED <<trustEveryone, trustedNetwork, params, listed, authAction, verifier,
                     accepted, connected>>
  BY DEF Return, listVars, verdictVars
<1>2. TypeOK'
  BY <1>1 DEF IInv, TypeOK
<1>3. Verified' /\ LoopInv' /\ AcceptedByItsOwnList' /\ LastEntryDecides'
  BY <1>1 DEF IInv, Verified, LoopInv, AcceptedByItsOwnList, LastEntryDecides
<1>4. OnlyAcceptedGetProperties'
  BY <1>1 DEF IInv, OnlyAcceptedGetProperties, TypesOf
<1> QED
  BY <1>2, <1>3, <1>4 DEF IInv

\* A transport that closes, and a step that changes nothing.
LEMMA CloseIInv ==
  ASSUME IInv, connected' \in [Transaction -> BOOLEAN],
         UNCHANGED <<listVars, verdictVars, trn, loop, before>>
  PROVE  IInv'
<1> USE DEF listVars, verdictVars
<1>1. TypeOK' /\ Verified' /\ LoopInv' /\ AcceptedByItsOwnList'
  BY DEF IInv, TypeOK, Verified, LoopInv, AcceptedByItsOwnList
<1>2. OnlyAcceptedGetProperties' /\ LastEntryDecides'
  BY DEF IInv, OnlyAcceptedGetProperties, LastEntryDecides, Listed, TypesOf
<1> QED
  BY <1>1, <1>2 DEF IInv

LEMMA NextIInv == IInv /\ [Next]_vars => IInv'
<1> SUFFICES ASSUME IInv, [Next]_vars PROVE IInv'
  OBVIOUS
<1>1. ASSUME NEW t \in Transaction, CloseTransport(t) PROVE IInv'
  BY <1>1, CloseIInv DEF CloseTransport, IInv, TypeOK
<1>2. CASE UNCHANGED vars
  BY <1>2, CloseIInv DEF vars, IInv, TypeOK
<1>3. ASSUME NEW p \in Profile, NEW m \in Message, Crash(p, m) PROVE IInv'
  BY <1>3, CrashIsInit, RestartIInv
<1> QED
  BY <1>1, <1>2, <1>3, FillListIInv, AcceptIInv, RejectIInv, SetNextIInv, ReturnIInv DEF Next

-----------------------------------------------------------------------------

THEOREM IInvAlways == Spec => []IInv
  BY InitIInv, NextIInv, PTL DEF Spec

\* The types.
THEOREM TypeCorrect == Spec => []TypeOK
<1>1. IInv => TypeOK
  BY DEF IInv
<1> QED
  BY <1>1, IInvAlways, PTL

\* No profile accepts on the word of another's access list, although they share
\* their list of properties.
THEOREM OwnListAccepts == Spec => []AcceptedByItsOwnList
<1>1. IInv => AcceptedByItsOwnList
  BY DEF IInv
<1> QED
  BY <1>1, IInvAlways, PTL

\* A transaction has only properties that were listed for a message of it that was
\* accepted.
THEOREM AcceptedGetProperties == Spec => []OnlyAcceptedGetProperties
<1>1. IInv => OnlyAcceptedGetProperties
  BY DEF IInv
<1> QED
  BY <1>1, IInvAlways, PTL

\* At every turn of the loop of setProperties the last entry that applies and can be
\* stored has decided, however long the list is.
THEOREM LastDecides == Spec => []LastEntryDecides
<1>1. IInv => LastEntryDecides
  BY DEF IInv
<1> QED
  BY <1>1, IInvAlways, PTL

-----------------------------------------------------------------------------
(* The contract                                                            *)

LEMMA InitContract == Init => Contract!Init
<1> SUFFICES ASSUME Init PROVE Contract!Init
  OBVIOUS
<1>1. loop = Nil /\ trn = [t \in Transaction |-> [name \in String |-> Empty]]
  BY DEF Init, NoProps
<1>2. [m \in Message |-> Source(m)] \in [Message -> SUBSET Network]
  BY AccessAssumption DEF Source
<1>3. /\ trustEveryone = [p \in Profile |-> FALSE] /\ trustedNetwork = [p \in Profile |-> {}]
      /\ params = <<>> /\ authAction = [m \in Message |-> Empty]
  BY DEF Init
<1> QED
  BY <1>1, <1>2, <1>3, Zenon DEF Contract!Init

LEMMA CrashContract ==
  ASSUME NEW p \in Profile, NEW m \in Message, Crash(p, m)
  PROVE  Contract!Restart
<1>1. Init' => Contract!Init'
  BY InitContract, PTL
<1> QED
  BY <1>1, CrashIsInit DEF Contract!Restart

LEMMA FillContract ==
  ASSUME IInv, FillList
  PROVE  Contract!Fill
<1> TypeOK
  BY DEF IInv
<1>1. /\ loop = Nil
      /\ UNCHANGED <<verdictVars, connected, trn, loop, before>>
      /\ trustEveryone' \in [Profile -> BOOLEAN]
      /\ \A p \in Profile : /\ trustEveryone[p] => trustEveryone'[p]
                            /\ trustedNetwork[p] \subseteq trustedNetwork'[p]
  BY FillListIInv
  DEF FillList, EngineIsFree, IInv, TypeOK, TrustEveryone, TrustNetwork, AddProperty,
      ChangeProperty
<1>2. params' \in Seq(Property) /\ Len(params) =< Len(params')
  <2>1. params' \in Seq(Property) /\ params \in Seq(Property)
    BY FillListIInv DEF IInv, TypeOK
  <2>2. ASSUME NEW q \in Property, AddProperty(q) PROVE Len(params') = Len(params) + 1
    BY <2>1, <2>2 DEF AddProperty
  <2>3. ASSUME NEW q \in Property, NEW i \in 1 .. MaxParams, ChangeProperty(i, q)
        PROVE  Len(params') = Len(params)
    BY <2>1, <2>3 DEF ChangeProperty
  <2>4. Len(params) \in Nat
    BY <2>1
  <2> QED
    BY <2>1, <2>2, <2>3, <2>4 DEF FillList, TrustEveryone, TrustNetwork
<1>3. \A m \in Message : Source(m)' = Source(m)
  BY <1>1 DEF Source
<1> QED
  BY <1>1, <1>2, <1>3 DEF Contract!Fill, verdictVars

LEMMA CloseContract ==
  ASSUME TypeOK, NEW t \in Transaction, CloseTransport(t)
  PROVE  Contract!Forget(t)
<1>1. \A m \in Message : Source(m)' = IF TrnOf[m] = t THEN {} ELSE Source(m)
  BY ScriptAssumption DEF CloseTransport, Source, TypeOK
<1> QED
  BY <1>1 DEF CloseTransport, Contract!Forget, listVars, verdictVars

LEMMA AcceptContract ==
  ASSUME IInv, NEW p \in Profile, NEW m \in Message, Accept(p, m)
  PROVE  Contract!Accept(p, m)
<1>1. /\ loop = Nil /\ loop' = [message |-> m, i |-> 1] /\ loop' # Nil
      /\ loop'.message = m /\ before = trn
  BY AccessAssumption DEF Accept, EngineIsFree, IInv, LoopInv
<1>2. \A l \in Message : Source(l)' = Source(l)
  BY DEF Accept, Source
<1>3. trustEveryone[p] \/ trustedNetwork[p] \cap Source(m) # {}
  BY DEF Accept, Trusts
<1> QED
  BY <1>1, <1>2, <1>3 DEF Accept, listVars, Contract!Accept, Contract!Decide, Contract!Trusts

LEMMA RejectContract ==
  ASSUME NEW p \in Profile, NEW m \in Message, Reject(p, m)
  PROVE  Contract!Reject(p, m)
<1>1. \A l \in Message : Source(l)' = Source(l)
  BY DEF Reject, Source
<1>2. ~(trustEveryone[p] \/ trustedNetwork[p] \cap Source(m) # {})
  BY DEF Reject, Trusts
<1> QED
  BY <1>1, <1>2
  DEF Reject, EngineIsFree, listVars, Contract!Reject, Contract!Decide, Contract!Trusts

\* The turns of the loop are not seen from outside.
LEMMA SetNextContract ==
  ASSUME IInv, SetNext
  PROVE  UNCHANGED Contract!vars
<1>1. loop # Nil /\ loop' # Nil /\ loop'.message = loop.message
  <2>1. loop \in [message : accepted, i : 1 .. Len(params) + 1] /\ loop # Nil
    BY DEF SetNext, IInv, TypeOK
  <2>2. loop' \in [message : Message, i : Nat] /\ loop'.message = loop.message
    BY <2>1 DEF SetNext, IInv, TypeOK
  <2> QED
    BY <2>1, <2>2, AccessAssumption
<1>2. \A m \in Message : Source(m)' = Source(m)
  BY DEF SetNext, Source
<1> QED
  BY <1>1, <1>2 DEF SetNext, listVars, verdictVars, Contract!vars

\* At the end of the loop every place of the list has been looked at.
LEMMA ReturnContract ==
  ASSUME IInv, Return
  PROVE  \E m \in Message : Contract!Grant(m)
<1> TypeOK
  BY DEF IInv
<1>0. PICK m \in accepted : m = loop.message
  BY DEF Return, TypeOK
<1>1. /\ m \in Message /\ loop # Nil /\ loop' = Nil
      /\ loop.i \in Nat /\ loop.i = Len(params) + 1
      /\ UNCHANGED <<trustEveryone, trustedNetwork, params, authAction, connected, trn>>
  BY DEF Return, TypeOK, listVars, verdictVars
<1>2. \A name \in String : Contract!Places(m, name) = Listed(m, name, loop.i - 1)
  <2>1. DOMAIN params = 1 .. Len(params)
    BY DEF TypeOK
  <2> QED
    BY <1>1, <2>1 DEF Contract!Places, Listed, TypesOf
<1>3. ASSUME NEW t \in Transaction, NEW name \in String
      PROVE  trn[t][name] =
               IF t = TrnOf[m] /\ Contract!Places(m, name) # {}
               THEN params[Contract!Last(Contract!Places(m, name))].value ELSE before[t][name]
  <2> DEFINE places == Contract!Places(m, name)
  <2>1. IF t # TrnOf[m] \/ places = {} THEN trn[t][name] = before[t][name]
        ELSE \E i \in places : /\ \A j \in places : j =< i
                               /\ trn[t][name] = params[i].value
    BY <1>0, <1>1, <1>2 DEF IInv, LastEntryDecides
  <2>2. \A i \in places : i \in Nat
    BY <1>2 DEF Listed, TypeOK
  <2> HIDE DEF places
  <2>3. CASE t = TrnOf[m] /\ places # {}
    <3>1. PICK i \in places : /\ \A j \in places : j =< i
                              /\ trn[t][name] = params[i].value
      BY <2>1, <2>3
    <3>2. Contract!Last(places) \in places /\ \A j \in places : j =< Contract!Last(places)
      BY <3>1 DEF Contract!Last
    <3>3. Contract!Last(places) = i
      BY <2>2, <3>1, <3>2
    <3> QED
      BY <2>3, <3>1, <3>3 DEF places
  <2>4. CASE ~(t = TrnOf[m] /\ places # {})
    BY <2>1, <2>4 DEF places
  <2> QED
    BY <2>3, <2>4
<1>4. trn = [t \in Transaction |-> [name \in String |-> trn[t][name]]]
  BY DEF TypeOK
<1>5. trn = [t \in Transaction |-> [name \in String |->
               IF t = TrnOf[m] /\ Contract!Places(m, name) # {}
               THEN params[Contract!Last(Contract!Places(m, name))].value ELSE before[t][name]]]
  BY <1>3, <1>4
<1>6. \A l \in Message : Source(l)' = Source(l)
  BY <1>1 DEF Source
<1>7. Contract!Grant(m)
  BY <1>0, <1>1, <1>5, <1>6 DEF Contract!Grant
<1> QED
  BY <1>1, <1>7

LEMMA ContractStep == IInv /\ [Next]_vars => [Contract!Next]_(Contract!vars)
<1> SUFFICES ASSUME IInv, [Next]_vars PROVE Contract!Next \/ UNCHANGED Contract!vars
  OBVIOUS
<1>1. CASE FillList
  BY <1>1, FillContract DEF Contract!Next
<1>2. ASSUME NEW p \in Profile, NEW m \in Message, Accept(p, m) \/ Reject(p, m)
      PROVE  Contract!Next
  BY <1>2, AcceptContract, RejectContract DEF Contract!Next
<1>3. CASE SetNext
  BY <1>3, SetNextContract
<1>4. CASE Return
  BY <1>4, ReturnContract DEF Contract!Next
<1>5. ASSUME NEW t \in Transaction, CloseTransport(t) PROVE Contract!Next
  BY <1>5, CloseContract DEF IInv, Contract!Next
<1>6. CASE UNCHANGED vars
  <2>1. \A m \in Message : Source(m)' = Source(m)
    BY <1>6 DEF vars, Source
  <2> QED
    BY <1>6, <2>1 DEF vars, listVars, verdictVars, Contract!vars
<1>7. ASSUME NEW p \in Profile, NEW m \in Message, Crash(p, m) PROVE Contract!Next
  BY <1>7, CrashContract DEF Contract!Next
<1> QED
  BY <1>1, <1>2, <1>3, <1>4, <1>5, <1>6, <1>7 DEF Next

\* Each verdict is given at one point, by the profile's own access list, and all that a
\* message is granted with it, it is granted at once, although setProperties goes
\* through the list entry by entry.
THEOREM AccessKeepsContract == Spec => KeepsContract
  BY InitContract, ContractStep, IInvAlways, PTL DEF Spec, KeepsContract, Contract!Spec

=============================================================================
