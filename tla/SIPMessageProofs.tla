---------------------------- MODULE SIPMessageProofs ----------------------------
(***************************************************************************)
(* Proofs about SIPMessage: what its setters leave of the form of a        *)
(* message, whatever start lines scripts give to it.                       *)
(***************************************************************************)
EXTENDS SIPMessage, TLAPS

LEMMA OutcomeTypes ==
  ASSUME NEW succeeded \in BOOLEAN, Outcome(succeeded)
  PROVE  answer' \in [returned : BOOLEAN \cup {Undefined}, succeeded : BOOLEAN]
<1>1. Undefined \in BOOLEAN \cup {Undefined}
  OBVIOUS
<1>2. \A v \in BOOLEAN \cup {Undefined}, w \in BOOLEAN :
        [returned |-> v, succeeded |-> w] \in [returned : BOOLEAN \cup {Undefined}, succeeded : BOOLEAN]
  OBVIOUS
<1>3. answer' = [returned |-> Undefined, succeeded |-> succeeded]
  BY DEF Outcome
<1> QED
  BY <1>1, <1>2, <1>3, Zenon

\* A native that writes contents of the right form keeps the types of messages.
LEMMA WriteTypes ==
  ASSUME MessageTypeOK, NEW m \in Message, NEW c \in Content, WellFormed(c), NEW possible,
         Write(m, possible, c)
  PROVE  MessageTypeOK'
<1>1. answer' \in [returned : BOOLEAN \cup {Undefined}, succeeded : BOOLEAN]
  <2>1. Outcome(TRUE) \/ Outcome(FALSE)
    BY DEF Write
  <2> QED
    BY <2>1, OutcomeTypes
<1>2. /\ content' \in [Message -> Content]
      /\ \A n \in Message : WellFormed(content'[n])
  <2>1. CASE content' = [content EXCEPT ![m] = c]
    BY <2>1 DEF MessageTypeOK
  <2>2. CASE content' = content
    BY <2>2 DEF MessageTypeOK
  <2> QED
    BY <2>1, <2>2 DEF Write
<1> QED
  BY <1>1, <1>2 DEF MessageTypeOK

\* Writing into a uri that is there keeps the form of a message.
LEMMA PartWellFormed ==
  ASSUME NEW c \in Content, WellFormed(c), NEW u \in Uri, u = "ruri" => c.method # None,
         NEW part \in Text \cup {Empty}
  PROVE  /\ [c EXCEPT !.user[u] = part] \in Content /\ WellFormed([c EXCEPT !.user[u] = part])
         /\ [c EXCEPT !.host[u] = part] \in Content /\ WellFormed([c EXCEPT !.host[u] = part])
  BY DEF Content, WellFormed, Uri

LEMMA SetUriTypes ==
  ASSUME MessageTypeOK, NEW m \in Message, NEW u \in Uri, NEW part \in Text \cup {Empty},
         SetUser(m, u, part) \/ SetHostPort(m, u, part)
  PROVE  MessageTypeOK'
<1>1. content[m] \in Content /\ WellFormed(content[m])
  BY DEF MessageTypeOK
<1>2. CASE HasUri(m, u)
  <2>1. u = "ruri" => content[m].method # None
    BY <1>2 DEF HasUri
  <2> QED
    BY <1>1, <2>1, PartWellFormed, WriteTypes DEF SetUser, SetHostPort
<1>3. CASE ~HasUri(m, u)
  <2>1. content' = content /\ Outcome(FALSE)
    BY <1>3 DEF SetUser, SetHostPort, Write
  <2> QED
    BY <2>1, OutcomeTypes DEF MessageTypeOK
<1> QED
  BY <1>2, <1>3

LEMMA UriCallTypes ==
  ASSUME MessageTypeOK, NEW m \in Message, UriCall(m)
  PROVE  MessageTypeOK'
<1>1. content[m] \in Content /\ {"ruri", "to", "from"} = Uri
  BY DEF MessageTypeOK, Uri
<1>2. ASSUME NEW n \in Message, NEW u \in Uri
      PROVE  content[n].user[u] \in Text \cup {Empty} /\ content[n].host[u] \in Text \cup {Empty}
  BY DEF MessageTypeOK, Content
<1>3. ASSUME NEW n \in Message,
             NEW user \in Text \cup {GetRequestUriUser(n), GetToUser(n), GetFromUser(n)},
             SetRequestUriUser(m, user) \/ SetToUser(m, user) \/ SetFromUser(m, user)
      PROVE  MessageTypeOK'
  <2>1. user \in Text \cup {Empty}
    BY <1>1, <1>2 DEF GetRequestUriUser, GetToUser, GetFromUser
  <2> QED
    BY <1>1, <1>3, <2>1, SetUriTypes DEF SetRequestUriUser, SetToUser, SetFromUser
<1>4. ASSUME NEW n \in Message,
             NEW host \in Text \cup {GetRequestUriHostPort(n), GetToHostPort(n), GetFromHostPort(n)},
             SetRequestUriHostPort(m, host) \/ SetToHostPort(m, host) \/ SetFromHostPort(m, host)
      PROVE  MessageTypeOK'
  <2>1. host \in Text \cup {Empty}
    BY <1>1, <1>2 DEF GetRequestUriHostPort, GetToHostPort, GetFromHostPort
  <2> QED
    BY <1>1, <1>4, <2>1, SetUriTypes DEF SetRequestUriHostPort, SetToHostPort, SetFromHostPort
<1>5. ASSUME NEW user \in Text, NEW host \in Text, SetRequestUri(m, user, host)
      PROVE  MessageTypeOK'
  <2> DEFINE c == [content[m] EXCEPT !.user["ruri"] = user, !.host["ruri"] = host]
  <2>1. c \in Content /\ c.method = content[m].method
    BY <1>1 DEF Content
  <2>2. Write(m, HasUri(m, "ruri"), c)
    BY <1>5 DEF SetRequestUri
  <2> HIDE DEF c
  <2>3. CASE HasUri(m, "ruri")
    <3>1. WellFormed(c)
      BY <2>1, <2>3 DEF WellFormed, HasUri
    <3> QED
      BY <2>1, <2>2, <3>1, WriteTypes
  <2>4. CASE ~HasUri(m, "ruri")
    <3>1. content' = content /\ Outcome(FALSE)
      BY <2>2, <2>4 DEF Write
    <3> QED
      BY <3>1, OutcomeTypes DEF MessageTypeOK
  <2> QED
    BY <2>3, <2>4
<1>6. ASSUME NEW user \in Text, NEW host \in Text, NEW method \in Method \cup {None},
             SetStartLine(m, method, user, host)
      PROVE  MessageTypeOK'
  <2> DEFINE c == [content[m] EXCEPT !.method = method,
                                     !.user["ruri"] = IF method = None THEN Empty ELSE user,
                                     !.host["ruri"] = IF method = None THEN Empty ELSE host]
  <2>1. c \in Content /\ WellFormed(c)
    BY <1>1 DEF Content, WellFormed
  <2>2. Write(m, TRUE, c)
    BY <1>6 DEF SetStartLine
  <2> HIDE DEF c
  <2> QED
    BY <2>1, <2>2, WriteTypes
<1> QED
  BY <1>3, <1>4, <1>5, <1>6 DEF UriCall

LEMMA HeaderCallTypes ==
  ASSUME MessageTypeOK, NEW m \in Message, HeaderCall(m)
  PROVE  MessageTypeOK'
<1>1. content' = content
  BY DEF HeaderCall, SetOther, HdrListRemove
<1>2. CASE SetOther(m)
  BY <1>1, <1>2, OutcomeTypes DEF SetOther, MessageTypeOK
<1>3. CASE HdrListRemove(m)
  BY <1>1, <1>3 DEF HdrListRemove, MessageTypeOK
<1> QED
  BY <1>2, <1>3 DEF HeaderCall

=============================================================================
