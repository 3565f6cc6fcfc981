------------------------------- MODULE SIPMessage -------------------------------
(***************************************************************************)
(* The contents of SIP messages as scripts see and change them through     *)
(* SIPMessage (etc/sipXsbc/globals/SIPMessage.js): the start line, the     *)
(* parts of the request-uri, the To and the From.  Each method hands its   *)
(* arguments to a native of the OSS library; a native of a setter does     *)
(* what it is asked or fails and changes nothing, and most wrappers drop   *)
(* its result.                                                             *)
(*                                                                         *)
(* Headers and the body have setters too.  Nothing depends on their        *)
(* values, so that only the outcome of such a call is in the model.        *)
(***************************************************************************)
EXTENDS ScriptDefs

CONSTANTS
  Text,         \* what scripts give for the parts of URIs: strings
  Method,       \* request methods
  ContentOf     \* ContentOf[m]: the start line and the URIs of m as it arrives

Uri == {"ruri", "to", "from"}

Content == [method : Method \cup {None}, user : [Uri -> Text \cup {Empty}],
            host : [Uri -> Text \cup {Empty}]]

\* A status line has neither a method nor a request-uri.
WellFormed(c) == c.method = None => c.user["ruri"] = Empty /\ c.host["ruri"] = Empty

ASSUME MessageAssumption ==
  /\ ContentOf \in [Message -> Content]
  /\ \A m \in Message : WellFormed(ContentOf[m]) /\ ContentOf[m].method = MethodOf[m]
  /\ Text \subseteq String /\ Undefined \notin Method /\ None \notin Method

VARIABLES
  content,  \* content[m]: the start line and the URIs of m
  answer    \* what the last setter returned, and whether its native succeeded

messageVars == <<content, answer>>

NoAnswer == [returned |-> Undefined, succeeded |-> FALSE]

MessageInit ==
  /\ content = ContentOf
  /\ answer = NoAnswer

-----------------------------------------------------------------------------
(* The start line and the URIs *)

\* A setter that drops the result of its native.
Outcome(succeeded) == answer' = [returned |-> Undefined, succeeded |-> succeeded]

\* What the request-uri is to be written into has one.
HasUri(m, u) == u = "ruri" => content[m].method # None

\* The native of a setter is to make c of the contents of m, where it can.
Write(m, possible, c) ==
  \/ possible /\ content' = [content EXCEPT ![m] = c] /\ Outcome(TRUE)
  \/ UNCHANGED content /\ Outcome(FALSE)

GetRequestUriUser(m) == content[m].user["ruri"]
GetRequestUriHostPort(m) == content[m].host["ruri"]
GetToUser(m) == content[m].user["to"]
GetToHostPort(m) == content[m].host["to"]
GetFromUser(m) == content[m].user["from"]
GetFromHostPort(m) == content[m].host["from"]

SetUser(m, u, user) == Write(m, HasUri(m, u), [content[m] EXCEPT !.user[u] = user])
SetHostPort(m, u, host) == Write(m, HasUri(m, u), [content[m] EXCEPT !.host[u] = host])

SetRequestUriUser(m, user) == SetUser(m, "ruri", user)
SetRequestUriHostPort(m, host) == SetHostPort(m, "ruri", host)
SetToUser(m, user) == SetUser(m, "to", user)
SetToHostPort(m, host) == SetHostPort(m, "to", host)
SetFromUser(m, user) == SetUser(m, "from", user)
SetFromHostPort(m, host) == SetHostPort(m, "from", host)

SetRequestUri(m, user, host) ==
  Write(m, HasUri(m, "ruri"), [content[m] EXCEPT !.user["ruri"] = user, !.host["ruri"] = host])

\* A start line is a request line or a status line, and a script may give either to
\* any message; a native may refuse it, as it may any other string.
SetStartLine(m, method, user, host) ==
  Write(m, TRUE,
        [content[m] EXCEPT !.method = method,
                           !.user["ruri"] = IF method = None THEN Empty ELSE user,
                           !.host["ruri"] = IF method = None THEN Empty ELSE host])

-----------------------------------------------------------------------------
(* Headers *)

\* hdrSet, hdrRemove, hdrListAppend, hdrListPrepend and setBody, as far as scripts can
\* tell.
SetOther(m) ==
  /\ \E succeeded \in BOOLEAN : Outcome(succeeded)
  /\ UNCHANGED content

\* hdrListRemove, and resetMaxForwards alike, hand on the result of the native.
HdrListRemove(m) ==
  /\ \E succeeded \in BOOLEAN : answer' = [returned |-> succeeded, succeeded |-> succeeded]
  /\ UNCHANGED content

\* A script calls a setter of m, with something it has read before or with a
\* value of its own.
UriCall(m) ==
  \/ \E n \in Message :
       \E user \in Text \cup {GetRequestUriUser(n), GetToUser(n), GetFromUser(n)} :
         SetRequestUriUser(m, user) \/ SetToUser(m, user) \/ SetFromUser(m, user)
  \/ \E n \in Message :
       \E host \in Text \cup {GetRequestUriHostPort(n), GetToHostPort(n), GetFromHostPort(n)} :
         \/ SetRequestUriHostPort(m, host)
         \/ SetToHostPort(m, host)
         \/ SetFromHostPort(m, host)
  \/ \E user, host \in Text :
       \/ SetRequestUri(m, user, host)
       \/ \E method \in Method \cup {None} : SetStartLine(m, method, user, host)

HeaderCall(m) == SetOther(m) \/ HdrListRemove(m)

-----------------------------------------------------------------------------
(* Properties *)

MessageTypeOK ==
  /\ content \in [Message -> Content]
  /\ \A m \in Message : WellFormed(content[m])
  /\ answer \in [returned : BOOLEAN \cup {Undefined}, succeeded : BOOLEAN]

\* SIPMessage.js:547 of hdrSet, and alike of the other setters: "If successful,
\* this function will return true."
SettersReport == answer.succeeded => answer.returned = TRUE

=============================================================================
