--------------------------- MODULE ScriptDefsProofs ---------------------------
(***************************************************************************)
(* What the native that sets a transaction property does, for any value    *)
(* that a script may hand to it.                                           *)
(***************************************************************************)
EXTENDS ScriptDefs, TLAPS

Properties == [Transaction -> [String -> String \cup {Empty}]]

\* Setting a property changes at most the one that is named, in the transaction of
\* the message, and that to the value that is given.
LEMMA SetProperty ==
  ASSUME NEW x \in Properties, NEW m \in Message, NEW n \in Value, NEW v \in Value
  PROVE  /\ SetTransactionProperty(x, m, n, v) \in Properties
         /\ \A t \in Transaction, name \in String :
              SetTransactionProperty(x, m, n, v)[t][name] =
                IF t = TrnOf[m] /\ name = n /\ v \in String THEN v ELSE x[t][name]
<1>1. CASE TrnOf[m] = Nil \/ n \notin String \/ v \notin String
  <2>1. SetTransactionProperty(x, m, n, v) = x
    BY <1>1 DEF SetTransactionProperty, JsValToString
  <2> QED
    BY <1>1, <2>1, ScriptAssumption
<1>2. CASE TrnOf[m] # Nil /\ n \in String /\ v \in String
  <2>1. TrnOf[m] \in Transaction /\ n # Empty /\ v # Empty
    BY <1>2, ScriptAssumption
  <2>2. SetTransactionProperty(x, m, n, v) = [x EXCEPT ![TrnOf[m]][n] = v]
    BY <1>2, <2>1 DEF SetTransactionProperty, JsValToString
  <2>3. x[TrnOf[m]] \in [String -> String \cup {Empty}]
    BY <2>1 DEF Properties
  <2>4. [x EXCEPT ![TrnOf[m]][n] = v] = [x EXCEPT ![TrnOf[m]] = [x[TrnOf[m]] EXCEPT ![n] = v]]
    OBVIOUS
  <2>5. [x[TrnOf[m]] EXCEPT ![n] = v] \in [String -> String \cup {Empty}]
    BY <1>2, <2>3
  <2>6. SetTransactionProperty(x, m, n, v) \in Properties
    BY <2>2, <2>4, <2>5 DEF Properties
  <2>7. ASSUME NEW t \in Transaction, NEW name \in String
        PROVE  SetTransactionProperty(x, m, n, v)[t][name] =
                 IF t = TrnOf[m] /\ name = n /\ v \in String THEN v ELSE x[t][name]
    <3>1. CASE t = TrnOf[m]
      BY <1>2, <2>2, <2>3, <2>4, <3>1 DEF Properties
    <3>2. CASE t # TrnOf[m]
      BY <2>2, <2>4, <3>2 DEF Properties
    <3> QED
      BY <3>1, <3>2
  <2> QED
    BY <2>6, <2>7
<1> QED
  BY <1>1, <1>2

=============================================================================
