---------------------------- MODULE MCSBCDataStore ----------------------------
(***************************************************************************)
(* Small instances of SBCDataStore.                                        *)
(***************************************************************************)
EXTENDS SBCDataStore, TLC

CONSTANTS k1, k2

DialogCalls == {c \in Call : c.op \in {"getAll", "removeAllDialogs"}}
RegCalls == {c \in Call : c.op \in {"getReg", "getAllReg", "removeAllReg"}}

NoPrefix == [p \in {} |-> {}]

\* One prefix selects a single key, the other both of them.
TwoPrefixes == "one" :> {k1} @@ "both" :> {k1, k2}

DialogSymmetry == Permutations(Thread) \cup Permutations(Session) \cup Permutations(CallId)

=============================================================================
