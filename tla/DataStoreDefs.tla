---------------------------- MODULE DataStoreDefs ----------------------------
(***************************************************************************)
(* The data of the SBC's data store (src/SBCDataStore.cpp): what is kept   *)
(* in each of the two Redis workspaces, and the bulk calls that read a     *)
(* whole workspace, or the part of it a key prefix selects, and may then   *)
(* delete what they read.  Shared by the contract of the store and by the  *)
(* implementation.                                                         *)
(***************************************************************************)

CONSTANTS
  Thread,   \* transaction-manager threads that make bulk calls
  Session,  \* session ids, the keys of the dialog workspace
  CallId,   \* SIP Call-IDs of the first leg of a dialog
  RegKey,   \* keys of the registration workspace
  Prefix,   \* the regIdPrefix arguments of getReg and removeAllReg
  KeysOf,   \* KeysOf[p]: the registration keys that prefix p selects
  Aor,      \* addresses of record
  Contact,  \* contact bindings
  Nil       \* "no record under this key", "no bulk call in progress"

Workspace == {"dialogs", "registry"}

(***************************************************************************)
(* DialogData and RegData, reduced to the fields the store looks at and    *)
(* one payload field, so that two versions of a registration differ.       *)
(***************************************************************************)
DialogData == [sessionId : Session, callId : CallId]
RegData    == [key : RegKey, aor : Aor, contact : Contact]

Key    == Session \cup RegKey
Record == DialogData \cup RegData

(***************************************************************************)
(* The bulk calls: every data-store callback that starts with a getAll of  *)
(* RedisClient.                                                            *)
(***************************************************************************)
Call == [op : {"getAll", "getAllReg"}, arg : {Nil}]
          \cup [op : {"removeAllDialogs"}, arg : CallId]
          \cup [op : {"getReg", "removeAllReg"}, arg : Prefix]

ASSUME ConstantsAssumption ==
  /\ Nil \notin Record
  /\ Nil \notin Call
  /\ KeysOf \in [Prefix -> SUBSET RegKey]

IsRemoval(c) == c.op \in {"removeAllDialogs", "removeAllReg"}

WorkspaceOf(c) ==
  IF c.op \in {"getAll", "removeAllDialogs"} THEN "dialogs" ELSE "registry"

\* The keys a call asks Redis for: getAll(values) or getAll(values, prefix).
Pattern(c) == IF c.op \in {"getReg", "removeAllReg"} THEN KeysOf[c.arg] ELSE Key

TargetAny(c, r) == TRUE

\* Which of the records it has read a removal wants gone.
Target(c, r) ==
  /\ IsRemoval(c)
  /\ c.op = "removeAllDialogs" => r.callId = c.arg

IdOf(c, r) == IF WorkspaceOf(c) = "dialogs" THEN r.sessionId ELSE r.key

=============================================================================
