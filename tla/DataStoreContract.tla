-------------------------- MODULE DataStoreContract --------------------------
(***************************************************************************)
(* What the SBC's data store promises to the dialog state manager, with    *)
(* nothing of how it reads and deletes records one Redis command at a      *)
(* time.  Single records are written and dropped atomically.  A bulk call  *)
(* is not atomic: it runs while other threads write, and the promise is    *)
(* about what happened between its invocation and its return:              *)
(*   - a read returns only records that were stored at some moment of the  *)
(*     call, and every selected record that stayed in place throughout;    *)
(*   - a removal drops only keys that were stored when it was invoked and  *)
(*     held a record it targets at some moment of the call, each of them   *)
(*     once at most, and when it returns no targeted record that stayed in *)
(*     place is left.                                                      *)
(* Both completeness clauses are conditional on Redis having answered      *)
(* every command of the call.  What a removal drops is told from what      *)
(* single calls remove, and from what expires, by its dropped.             *)
(***************************************************************************)
EXTENDS DataStoreDefs

VARIABLES
  store,  \* store[ws][k]: the record under key k of workspace ws, or Nil
  call,   \* call[t]: the bulk call thread t is in, or Nil
  reply,  \* reply[t]: the records thread t's last bulk read handed back
  kept,   \* kept[t]: keys whose record is untouched since the call began
  since,  \* since[t]: records stored at some moment since the call began
  began,  \* began[t]: keys that were stored when the call began
  faulty, \* faulty[t]: Redis failed some command of the call
  dropped \* dropped[t]: the keys the call has itself dropped

vars == <<store, call, reply, kept, since, began, faulty, dropped>>

Stored(ws) == {store[ws][k] : k \in Key} \ {Nil}
Present(ws) == {k \in Key : store[ws][k] # Nil}

\* Thread t is in a bulk call on workspace ws.
Watching(t, ws) == call[t] # Nil /\ WorkspaceOf(call[t]) = ws

Touch(ws, k) ==
  kept' = [t \in Thread |-> IF Watching(t, ws) THEN kept[t] \ {k} ELSE kept[t]]

Init ==
  /\ store = [ws \in Workspace |-> [k \in Key |-> Nil]]
  /\ call = [t \in Thread |-> Nil]
  /\ reply = [t \in Thread |-> {}]
  /\ kept = [t \in Thread |-> {}]
  /\ since = [t \in Thread |-> {}]
  /\ began = [t \in Thread |-> {}]
  /\ faulty = [t \in Thread |-> FALSE]
  /\ dropped = [t \in Thread |-> {}]

Put(ws, k, r) ==
  /\ store' = [store EXCEPT ![ws][k] = r]
  /\ Touch(ws, k)
  /\ since' = [t \in Thread |-> IF Watching(t, ws) THEN since[t] \cup {r} ELSE since[t]]
  /\ UNCHANGED <<call, reply, began, faulty, dropped>>

PutDialog == \E d \in DialogData : Put("dialogs", d.sessionId, d)
PutReg == \E g \in RegData : Put("registry", g.key, g)

Gone(ws, k) ==
  /\ store' = [store EXCEPT ![ws][k] = Nil]
  /\ Touch(ws, k)
  /\ UNCHANGED <<call, reply, since, began, faulty>>

\* A single call removes one record, or a record expires.
Drop(ws, k) ==
  /\ Gone(ws, k)
  /\ UNCHANGED dropped

Begin(t, c) ==
  /\ call[t] = Nil
  /\ call' = [call EXCEPT ![t] = c]
  /\ reply' = [reply EXCEPT ![t] = {}]
  /\ kept' = [kept EXCEPT ![t] = Present(WorkspaceOf(c))]
  /\ since' = [since EXCEPT ![t] = Stored(WorkspaceOf(c))]
  /\ began' = [began EXCEPT ![t] = Present(WorkspaceOf(c))]
  /\ faulty' \in {faulty, [faulty EXCEPT ![t] = TRUE]}
  /\ dropped' = [dropped EXCEPT ![t] = {}]
  /\ UNCHANGED store

Fault(t) ==
  /\ call[t] # Nil
  /\ faulty' = [faulty EXCEPT ![t] = TRUE]
  /\ UNCHANGED <<store, call, reply, kept, since, began, dropped>>

BulkDrop(t, k) ==
  /\ call[t] # Nil
  /\ k \in Pattern(call[t]) \cap began[t]
  /\ k \notin dropped[t]
  /\ \E r \in since[t] : IdOf(call[t], r) = k /\ Target(call[t], r)
  /\ Gone(WorkspaceOf(call[t]), k)
  /\ dropped' = [dropped EXCEPT ![t] = @ \cup {k}]

Finished(t) ==
  /\ call' = [call EXCEPT ![t] = Nil]
  /\ kept' = [kept EXCEPT ![t] = {}]
  /\ since' = [since EXCEPT ![t] = {}]
  /\ began' = [began EXCEPT ![t] = {}]
  /\ faulty' = [faulty EXCEPT ![t] = FALSE]
  /\ dropped' = [dropped EXCEPT ![t] = {}]
  /\ UNCHANGED store

ReturnRead(t) ==
  /\ call[t] # Nil
  /\ ~IsRemoval(call[t])
  /\ \E S \in SUBSET {r \in since[t] : IdOf(call[t], r) \in Pattern(call[t])} :
       /\ ~faulty[t] => \A k \in kept[t] \cap Pattern(call[t]) :
                           store[WorkspaceOf(call[t])][k] \in S
       /\ reply' = [reply EXCEPT ![t] = S]
  /\ Finished(t)

ReturnRemoval(t) ==
  /\ call[t] # Nil
  /\ IsRemoval(call[t])
  /\ ~faulty[t] => \A k \in kept[t] \cap Pattern(call[t]) :
                      ~Target(call[t], store[WorkspaceOf(call[t])][k])
  /\ UNCHANGED reply
  /\ Finished(t)

\* The process dies and is started again: Redis keeps its contents.
Crash ==
  /\ call' = [t \in Thread |-> Nil]
  /\ reply' = [t \in Thread |-> {}]
  /\ kept' = [t \in Thread |-> {}]
  /\ since' = [t \in Thread |-> {}]
  /\ began' = [t \in Thread |-> {}]
  /\ faulty' = [t \in Thread |-> FALSE]
  /\ dropped' = [t \in Thread |-> {}]
  /\ UNCHANGED store

Next ==
  \/ PutDialog
  \/ PutReg
  \/ \E ws \in Workspace, k \in Key : Drop(ws, k)
  \/ \E t \in Thread, c \in Call : Begin(t, c)
  \/ \E t \in Thread : Fault(t)
  \/ \E t \in Thread, k \in Key : BulkDrop(t, k)
  \/ \E t \in Thread : ReturnRead(t)
  \/ \E t \in Thread : ReturnRemoval(t)
  \/ Crash

Spec == Init /\ [][Next]_vars

=============================================================================
