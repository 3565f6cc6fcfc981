----------------------------- MODULE AccessContract -----------------------------
(***************************************************************************)
(* What access control promises a site: a profile decides about a message  *)
(* at one point, by its own access list and by where the message comes     *)
(* from as far as that is still known; and a message it accepts is granted *)
(* the listed properties in one step, the last entry for each of them.     *)
(* A process that dies takes all of it along.                              *)
(* Nothing is said of the loop that sets them one after the other.         *)
(***************************************************************************)
EXTENDS Naturals, Sequences

CONSTANTS Profile, Network, Message, Transaction, TrnOf, MethodOf, String, Property,
          Undefined, Empty, None

VARIABLES
  everyone,  \* everyone[p]: profile p trusts everyone
  trusted,   \* trusted[p]: the networks it trusts besides
  list,      \* the entries that the profiles share
  source,    \* source[m]: the networks m is known to come from
  verdict,   \* verdict[m]: "accept", "reject" or Empty
  props,     \* props[t]: the properties of transaction t
  granting   \* the message just accepted, while its properties are being set

vars == <<everyone, trusted, list, source, verdict, props, granting>>

Init ==
  /\ everyone = [p \in Profile |-> FALSE]
  /\ trusted = [p \in Profile |-> {}]
  /\ list = <<>>
  /\ source \in [Message -> SUBSET Network]
  /\ verdict = [m \in Message |-> Empty]
  /\ props = [t \in Transaction |-> [name \in String |-> Empty]]
  /\ granting = {}

\* Trust is only ever extended, and no entry is taken off the list.
Fill ==
  /\ granting = {}
  /\ UNCHANGED <<granting, verdict, props, source>>
  /\ everyone' \in [Profile -> BOOLEAN]
  /\ \A p \in Profile : (everyone[p] => everyone'[p]) /\ trusted[p] \subseteq trusted'[p]
  /\ list' \in Seq(Property) /\ Len(list) =< Len(list')

\* Where the messages of transaction t come from is not known any more.
Forget(t) ==
  /\ UNCHANGED <<everyone, trusted, list, verdict, props, granting>>
  /\ source' = [m \in Message |-> IF TrnOf[m] = t THEN {} ELSE source[m]]

Trusts(p, m) == everyone[p] \/ trusted[p] \cap source[m] # {}

Decide(m, decision) ==
  /\ granting = {}
  /\ verdict' = [verdict EXCEPT ![m] = decision]
  /\ UNCHANGED <<everyone, trusted, list, source, props>>

Accept(p, m) == granting' = {m} /\ Decide(m, "accept") /\ Trusts(p, m)

Reject(p, m) == UNCHANGED granting /\ Decide(m, "reject") /\ ~Trusts(p, m)

\* The entries for property name of message m that can be set.
Places(m, name) ==
  {i \in DOMAIN list : /\ \/ list[i].requestType = "*"
                          \/ MethodOf[m] # None /\ list[i].requestType \in {MethodOf[m], Undefined}
                       /\ list[i].name = name
                       /\ list[i].value \in String}

Last(places) == CHOOSE i \in places : \A j \in places : j =< i

Grant(m) ==
  /\ granting = {m}
  /\ granting' = {}
  /\ props' = [t \in Transaction |-> [name \in String |->
                 IF t = TrnOf[m] /\ Places(m, name) # {}
                 THEN list[Last(Places(m, name))].value ELSE props[t][name]]]
  /\ UNCHANGED <<everyone, trusted, list, source, verdict>>

\* The process dies and starts anew: whatever was decided or granted goes with it.
Restart == Init'

Next ==
  \/ Fill
  \/ Restart
  \/ \E t \in Transaction : Forget(t)
  \/ \E m \in Message : Grant(m) \/ \E p \in Profile : Accept(p, m) \/ Reject(p, m)

Spec == Init /\ [][Next]_vars

=============================================================================
