----------------------------- MODULE SBCDataStore -----------------------------
(***************************************************************************)
(* SBCDataStore (src/SBCDataStore.cpp): the dialogs and the registrations  *)
(* of the SBC, kept in workspaces 11 and 12 of a Redis server.  The dialog *)
(* state manager calls the ten functions registered in                     *)
(* registerDataStoreFunctions from the threads of the transaction manager. *)
(*                                                                         *)
(* One Redis command is one step.  persist, persistReg, removeSession and  *)
(* removeReg issue one command and are one action; getOneReg reads one key *)
(* and changes nothing, so it has none.  The bulk calls issue a KEYS       *)
(* command, one GET per key found, and, when they remove, one DEL per      *)
(* record they decided to delete; other threads run between any two.       *)
(* A command may fail, which the code never looks at in a bulk call.       *)
(* A set that fails changes nothing, so it is a stuttering step.           *)
(***************************************************************************)
EXTENDS DataStoreDefs, Integers, FiniteSets

CONSTANTS
  Calls,  \* the bulk calls this instance makes, a subset of Call
  Empty   \* an empty string in a registration record

ASSUME CallsAssumption ==
  /\ Calls \subseteq Call
  /\ Empty \notin RegKey \cup Aor \cup Contact

VARIABLES
  store,   \* the Redis server
  call,    \* call[t]: the bulk call of thread t, Nil when it is in none
  pc,      \* pc[t]: where thread t is in it
  keys,    \* keys[t]: the keys found and not yet read
  values,  \* values[t]: the records read, the vector handed to the caller
  doomed,  \* doomed[t]: deleteThese, the ids not yet deleted
  kept, since, began, faulty, dropped  \* history, see DataStoreContract; no guard reads it

redisVars == <<store>>
threadVars == <<call, pc, keys, values, doomed>>
historyVars == <<kept, since, began, faulty, dropped>>
vars == <<store, call, pc, keys, values, doomed, kept, since, began, faulty, dropped>>

-----------------------------------------------------------------------------
(* RedisClient *)

Stored(ws) == {store[ws][k] : k \in Key} \ {Nil}
Present(ws) == {k \in Key : store[ws][k] # Nil}

\* Thread t is in a bulk call on workspace ws.
Watching(t, ws) == call[t] # Nil /\ WorkspaceOf(call[t]) = ws

Touch(ws, k) ==
  kept' = [t \in Thread |-> IF Watching(t, ws) THEN kept[t] \ {k} ELSE kept[t]]

\* RedisClient::set.
Set(ws, k, r) ==
  /\ store' = [store EXCEPT ![ws][k] = r]
  /\ Touch(ws, k)
  /\ since' = [t \in Thread |-> IF Watching(t, ws) THEN since[t] \cup {r} ELSE since[t]]
  /\ UNCHANGED <<began, faulty, dropped>>

\* RedisClient::del.
Del(ws, k) ==
  /\ store' = [store EXCEPT ![ws][k] = Nil]
  /\ Touch(ws, k)
  /\ UNCHANGED <<since, began>>

\* A record's time to live runs out.
Expire(ws, k) ==
  /\ store[ws][k] # Nil
  /\ Del(ws, k)
  /\ UNCHANGED <<threadVars, faulty, dropped>>

-----------------------------------------------------------------------------
Init ==
  /\ store = [ws \in Workspace |-> [k \in Key |-> Nil]]
  /\ call = [t \in Thread |-> Nil]
  /\ pc = [t \in Thread |-> "idle"]
  /\ keys = [t \in Thread |-> {}]
  /\ values = [t \in Thread |-> {}]
  /\ doomed = [t \in Thread |-> {}]
  /\ kept = [t \in Thread |-> {}]
  /\ since = [t \in Thread |-> {}]
  /\ began = [t \in Thread |-> {}]
  /\ faulty = [t \in Thread |-> FALSE]
  /\ dropped = [t \in Thread |-> {}]

(***************************************************************************)
(* The calls of one command.                                               *)
(***************************************************************************)
Persist(d) ==
  /\ Set("dialogs", d.sessionId, d)
  /\ UNCHANGED threadVars

UncheckedReg(g) == TRUE

ValidReg(g) == g.key # Empty /\ g.aor # Empty /\ g.contact # Empty

PersistReg(g) ==
  /\ ValidReg(g)
  /\ Set("registry", g.key, g)
  /\ UNCHANGED threadVars

RemoveSession(s) ==
  /\ Del("dialogs", s)
  /\ UNCHANGED <<threadVars, faulty, dropped>>

RemoveReg(k) ==
  /\ Del("registry", k)
  /\ UNCHANGED <<threadVars, faulty, dropped>>

(***************************************************************************)
(* The bulk calls: getAll, getReg, getAllReg, removeAllDialogs and         *)
(* removeAllReg.                                                           *)
(***************************************************************************)

\* The KEYS command at the head of RedisClient::getAll; no key if it fails.
Scan(t, c) ==
  /\ pc[t] = "idle"
  /\ call' = [call EXCEPT ![t] = c]
  /\ pc' = [pc EXCEPT ![t] = "reading"]
  /\ values' = [values EXCEPT ![t] = {}]
  /\ \/ /\ keys' = [keys EXCEPT ![t] = Pattern(c) \cap Present(WorkspaceOf(c))]
        /\ UNCHANGED faulty
     \/ /\ keys' = [keys EXCEPT ![t] = {}]
        /\ faulty' = [faulty EXCEPT ![t] = TRUE]
  /\ kept' = [kept EXCEPT ![t] = Present(WorkspaceOf(c))]
  /\ since' = [since EXCEPT ![t] = Stored(WorkspaceOf(c))]
  /\ began' = [began EXCEPT ![t] = Present(WorkspaceOf(c))]
  /\ dropped' = [dropped EXCEPT ![t] = {}]
  /\ UNCHANGED <<store, doomed>>

CollectLast(vals, r) == IF r = Nil THEN vals ELSE {r}

\* One GET, fromJsonObject and push_back; a key that has gone adds nothing.
Collect(vals, r) == IF r = Nil THEN vals ELSE vals \cup {r}

Get(t, k) ==
  /\ pc[t] = "reading"
  /\ k \in keys[t]
  /\ keys' = [keys EXCEPT ![t] = @ \ {k}]
  /\ \/ /\ values' = [values EXCEPT ![t] = Collect(@, store[WorkspaceOf(call[t])][k])]
        /\ UNCHANGED faulty
     \/ /\ faulty' = [faulty EXCEPT ![t] = TRUE]
        /\ UNCHANGED values
  /\ UNCHANGED <<store, call, pc, doomed, kept, since, began, dropped>>

Return(t) ==
  /\ call' = [call EXCEPT ![t] = Nil]
  /\ pc' = [pc EXCEPT ![t] = "idle"]
  /\ kept' = [kept EXCEPT ![t] = {}]
  /\ since' = [since EXCEPT ![t] = {}]
  /\ began' = [began EXCEPT ![t] = {}]
  /\ faulty' = [faulty EXCEPT ![t] = FALSE]
  /\ dropped' = [dropped EXCEPT ![t] = {}]

\* getAll, getReg and getAllReg return the vector they have filled.
ReturnValues(t) ==
  /\ pc[t] = "reading"
  /\ ~IsRemoval(call[t])
  /\ keys[t] = {}
  /\ Return(t)
  /\ UNCHANGED <<store, keys, values, doomed>>

AllRead(c, vals) == IF IsRemoval(c) THEN vals ELSE {}

Targets(c, vals) == {r \in vals : Target(c, r)}

DeleteFirst(c, vals) ==
  IF Targets(c, vals) = {} THEN {} ELSE {IdOf(c, CHOOSE r \in Targets(c, vals) : TRUE)}

DeleteThese(c, vals) == {IdOf(c, r) : r \in Targets(c, vals)}

CollectAgain(t) ==
  /\ pc[t] = "reading"
  /\ IsRemoval(call[t])
  /\ keys[t] = {}
  /\ pc' = [pc EXCEPT ![t] = "deleting"]
  /\ doomed' = [doomed EXCEPT ![t] =
                  DeleteThese(call[t], Stored(WorkspaceOf(call[t]))) \cap Pattern(call[t])]
  /\ values' = [values EXCEPT ![t] = {}]
  /\ UNCHANGED <<store, call, keys, historyVars>>

\* The loop of removeAllDialogs and removeAllReg that fills deleteThese.
CollectDoomed(t) ==
  /\ pc[t] = "reading"
  /\ IsRemoval(call[t])
  /\ keys[t] = {}
  /\ pc' = [pc EXCEPT ![t] = "deleting"]
  /\ doomed' = [doomed EXCEPT ![t] = DeleteThese(call[t], values[t])]
  /\ values' = [values EXCEPT ![t] = {}]
  /\ UNCHANGED <<store, call, keys, historyVars>>

StillToDelete(t, k) ==
  DeleteThese(call[t], Stored(WorkspaceOf(call[t]))) \cap Pattern(call[t])

LeftToDelete(t, k) == doomed[t] \ {k}

\* One DEL of the second loop; its failure is not looked at.
DeleteOne(t, k) ==
  /\ pc[t] = "deleting"
  /\ k \in doomed[t]
  /\ doomed' = [doomed EXCEPT ![t] = LeftToDelete(t, k)]
  /\ \/ /\ Del(WorkspaceOf(call[t]), k)
        /\ dropped' = [dropped EXCEPT ![t] = @ \cup {k}]
        /\ UNCHANGED faulty
     \/ /\ faulty' = [faulty EXCEPT ![t] = TRUE]
        /\ UNCHANGED <<store, kept, since, began, dropped>>
  /\ UNCHANGED <<call, pc, keys, values>>

ReturnRemoved(t) ==
  /\ pc[t] = "deleting"
  /\ doomed[t] = {}
  /\ Return(t)
  /\ UNCHANGED <<store, keys, values, doomed>>

\* The process dies (std::abort, killproc) and is started again.
Crash ==
  /\ call' = [t \in Thread |-> Nil]
  /\ pc' = [t \in Thread |-> "idle"]
  /\ keys' = [t \in Thread |-> {}]
  /\ values' = [t \in Thread |-> {}]
  /\ doomed' = [t \in Thread |-> {}]
  /\ kept' = [t \in Thread |-> {}]
  /\ since' = [t \in Thread |-> {}]
  /\ began' = [t \in Thread |-> {}]
  /\ faulty' = [t \in Thread |-> FALSE]
  /\ dropped' = [t \in Thread |-> {}]
  /\ UNCHANGED store

-----------------------------------------------------------------------------
RegInput == [key : RegKey \cup {Empty}, aor : Aor \cup {Empty},
             contact : Contact \cup {Empty}]

\* What a thread inside a bulk call does next.
Advance(t) ==
  \/ \E k \in Key : Get(t, k) \/ DeleteOne(t, k)
  \/ ReturnValues(t)
  \/ CollectDoomed(t)
  \/ ReturnRemoved(t)

Next ==
  \/ \E d \in DialogData : Persist(d)
  \/ \E g \in RegInput : PersistReg(g)
  \/ \E s \in Session : RemoveSession(s)
  \/ \E k \in RegKey : RemoveReg(k)
  \/ \E ws \in Workspace, k \in Key : Expire(ws, k)
  \/ \E t \in Thread, c \in Calls : Scan(t, c)
  \/ \E t \in Thread : Advance(t)
  \/ Crash

Spec == Init /\ [][Next]_vars

\* A thread that has started a bulk call runs, and every Redis command
\* returns, with an answer or with a failure.
FairSpec == Spec /\ \A t \in Thread : WF_vars(Advance(t))

-----------------------------------------------------------------------------
(* Properties *)

\* Every record sits under the key it names (removeAllDialogs and removeAllReg
\* delete by the id inside the record, not by the key it was read from), no
\* registration has an empty field, and the locals of a bulk call have the
\* shape its progress allows.
TypeOK ==
  /\ store \in [Workspace -> [Key -> Record \cup {Nil}]]
  /\ \A k \in Key : store["dialogs"][k] # Nil =>
       store["dialogs"][k] \in DialogData /\ store["dialogs"][k].sessionId = k
  /\ \A k \in Key : store["registry"][k] # Nil =>
       store["registry"][k] \in RegData /\ store["registry"][k].key = k
  /\ call \in [Thread -> Call \cup {Nil}]
  /\ pc \in [Thread -> {"idle", "reading", "deleting"}]
  /\ \A t \in Thread : call[t] = Nil <=> pc[t] = "idle"
  /\ \A t \in Thread : pc[t] = "deleting" => IsRemoval(call[t])
  /\ keys \in [Thread -> SUBSET Key]
  /\ values \in [Thread -> SUBSET Record]
  /\ doomed \in [Thread -> SUBSET Key]
  /\ kept \in [Thread -> SUBSET Key]
  /\ since \in [Thread -> SUBSET Record]
  /\ began \in [Thread -> SUBSET Key]
  /\ faulty \in [Thread -> BOOLEAN]
  /\ dropped \in [Thread -> SUBSET Key]

\* What a bulk call hands back, or chooses its deletions from, is no atomic
\* snapshot, but it is never older than the call: every record in it was
\* stored at some moment of the call, and no selected record that stayed in
\* place through the call is missing, whatever other threads stored, deleted
\* or let expire between two of its GETs.
ReadsAreRegular ==
  \A t \in Thread : pc[t] = "reading" =>
    /\ values[t] \subseteq {r \in since[t] : IdOf(call[t], r) \in Pattern(call[t])}
    /\ keys[t] = {} /\ ~faulty[t] =>
         \A k \in kept[t] \cap Pattern(call[t]) :
           store[WorkspaceOf(call[t])][k] \in values[t]

\* When removeAllDialogs or removeAllReg is about to return and Redis answered
\* all its commands, no dialog of that Call-ID (no registration with that
\* prefix) that was there before the call and was left alone by every other
\* thread is still stored.
RemovalIsComplete ==
  \A t \in Thread : pc[t] = "deleting" /\ doomed[t] = {} /\ ~faulty[t] =>
    \A k \in kept[t] \cap Pattern(call[t]) :
      ~Target(call[t], store[WorkspaceOf(call[t])][k])

\* A bulk removal only ever sets out to delete sessions that carried its
\* Call-ID (registrations that have its prefix) at some moment of the call.  What its
\* DEL then finds under that id may be another dialog, stored there in the meantime.
RemovalIsPrecise ==
  \A t \in Thread : pc[t] = "deleting" =>
    \A k \in doomed[t] :
      /\ k \in Pattern(call[t])
      /\ \E r \in since[t] : IdOf(call[t], r) = k /\ Target(call[t], r)

\* A dialog or a registration whose key appears while a bulk removal is
\* running, such as a phone that registers a new contact while its old ones are
\* being flushed, is not deleted by that removal.
NewcomersSurvive ==
  \A t \in Thread : doomed[t] \subseteq began[t]

\* Every bulk call ends, even when other threads never stop storing records
\* that it would select: its loops run over what it read, not over the store.
BulkCallsEnd == \A t \in Thread : call[t] # Nil ~> call[t] = Nil

\* How many steps thread t still makes at most: it reads every key and deletes every
\* id it has decided on, each at most once, and returns.
StepsLeft(t) ==
  IF pc[t] = "idle" THEN 0
  ELSE IF pc[t] = "reading" THEN 2 * Cardinality(keys[t]) + Cardinality(values[t]) + 2
  ELSE Cardinality(doomed[t]) + 1

\* A bulk call brings its end nearer whenever it does anything at all, and what other
\* threads store, delete or let expire meanwhile never puts that end off: the work of
\* a removal is bounded by what it found when it began.
BulkCallsAdvance ==
  [][\A t \in Thread : call[t] # Nil =>
       \/ UNCHANGED <<pc[t], keys[t], values[t], doomed[t]>>
       \/ StepsLeft(t)' < StepsLeft(t)]_vars

\* The bulk calls keep the promises of DataStoreContract: the vector a read has
\* handed back is the contract's reply, the rest of a call's locals are hidden.  Every
\* DEL of removeAllDialogs and removeAllReg is one the contract allows that call to
\* make: of a key that was stored when it began and has held a target of it since, and
\* not of one that it has deleted before, though another thread has stored it again.
Contract == INSTANCE DataStoreContract WITH
  reply <- [t \in Thread |-> IF pc[t] = "idle" THEN values[t] ELSE {}]

KeepsContract == Contract!Spec

=============================================================================
