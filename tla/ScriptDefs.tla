------------------------------ MODULE ScriptDefs ------------------------------
(***************************************************************************)
(* What the scripts share: JavaScript values as the natives of             *)
(* SBController.cpp convert them, and the properties of the transaction    *)
(* that a message belongs to.  A request, the copies of it that are sent   *)
(* on and their responses share one transaction; a message may have none.  *)
(***************************************************************************)
EXTENDS Naturals, FiniteSets

CONSTANTS
  Message,      \* SIP messages
  Transaction,  \* transactions
  TrnOf,        \* TrnOf[m]: the transaction in m's userData, Nil if there is none
  MethodOf,     \* MethodOf[m]: its method, None for a response
  String,       \* strings that are not empty
  Other,        \* a value that is neither a string nor undefined
  Undefined,
  Empty,        \* the empty string
  LogId,        \* the log id of a transaction
  Nil, None

Value == String \cup {Empty, Other, Undefined}

ASSUME ScriptAssumption ==
  /\ TrnOf \in [Message -> Transaction \cup {Nil}]
  /\ Nil \notin Transaction
  /\ DOMAIN MethodOf = Message
  /\ Empty \notin String /\ Other \notin String /\ Undefined \notin String /\ Nil \notin String

AsItIs(v) == v

\* SBController::jsValToString.
JsValToString(v) == IF v \in String THEN v ELSE Empty

\* Properties of a transaction, none of them set.
NoProps == [name \in String |-> Empty]

StoredAnywhere(trn, m, name, value) ==
  IF TrnOf[m] = Nil \/ JsValToString(name) = Empty \/ JsValToString(value) = Empty
  THEN trn
  ELSE [t \in Transaction |-> [trn[t] EXCEPT ![name] = value]]

\* msgSetTransactionProperty: the properties of all the transactions after it.
\* A name or a value that is not a string, or is empty, is dropped.
SetTransactionProperty(trn, m, name, value) ==
  IF TrnOf[m] = Nil \/ JsValToString(name) = Empty \/ JsValToString(value) = Empty
  THEN trn
  ELSE [trn EXCEPT ![TrnOf[m]][name] = value]

\* msgGetTransactionProperty; the log id hides a property of that name.
GetTransactionProperty(trn, m, name) ==
  CASE TrnOf[m] = Nil \/ JsValToString(name) = Empty -> Undefined
    [] TrnOf[m] # Nil /\ name = "log-id" -> LogId
    [] OTHER -> trn[TrnOf[m]][name]

\* isRequest: method is the one asked for, own the one in the start line, None in
\* that of a response.  The wrapper hands on what it was given, undefined too, and
\* without a method every request is one.
IsRequest(own, method) == own # None /\ method \in {own, Undefined}

=============================================================================
