-------------------------- MODULE SBCDataStoreProofs --------------------------
(***************************************************************************)
(* Proofs about SBCDataStore, for any number of threads, sessions,         *)
(* Call-IDs, registrations and prefixes.                                   *)
(***************************************************************************)
EXTENDS SBCDataStore, FiniteSetTheorems, TLAPS

\* The records of a workspace.
RecordsOf(ws) == IF ws = "dialogs" THEN DialogData ELSE RegData

\* A bulk call has seen every record now stored in its workspace, and records of
\* that workspace only; it reads none but those it has seen.
SeenAreRecords(t) ==
  call[t] # Nil =>
    /\ since[t] \subseteq RecordsOf(WorkspaceOf(call[t]))
    /\ \A k \in Key : store[WorkspaceOf(call[t])][k] # Nil =>
         store[WorkspaceOf(call[t])][k] \in since[t]
    /\ pc[t] = "reading" => values[t] \subseteq since[t]

TypeInv == TypeOK /\ \A t \in Thread : SeenAreRecords(t)

-----------------------------------------------------------------------------
LEMMA CallFacts ==
  ASSUME NEW c \in Call
  PROVE  /\ WorkspaceOf(c) \in Workspace
         /\ c # Nil
         /\ Pattern(c) \subseteq Key
         /\ \A r \in RecordsOf(WorkspaceOf(c)) : IdOf(c, r) \in Key
         /\ \A r \in RecordsOf(WorkspaceOf(c)) : r \in Record /\ r # Nil
<1>1. WorkspaceOf(c) \in Workspace
  BY DEF WorkspaceOf, Workspace
<1>2. c # Nil
  BY ConstantsAssumption
<1>3. Pattern(c) \subseteq Key
  <2>1. CASE c.op \in {"getReg", "removeAllReg"}
    <3>1. c.arg \in Prefix
      BY <2>1 DEF Call
    <3> QED
      BY <2>1, <3>1, ConstantsAssumption DEF Pattern, Key
  <2>2. CASE c.op \notin {"getReg", "removeAllReg"}
    BY <2>2 DEF Pattern
  <2> QED
    BY <2>1, <2>2
<1>4. \A r \in RecordsOf(WorkspaceOf(c)) : IdOf(c, r) \in Key
  BY DEF RecordsOf, IdOf, Key, DialogData, RegData
<1>5. \A r \in RecordsOf(WorkspaceOf(c)) : r \in Record /\ r # Nil
  BY ConstantsAssumption DEF RecordsOf, Record
<1> QED
  BY <1>1, <1>2, <1>3, <1>4, <1>5

\* A stored record is a record of its workspace, under its own id.
LEMMA StoredFacts ==
  ASSUME TypeOK, NEW ws \in Workspace, NEW k \in Key, store[ws][k] # Nil
  PROVE  store[ws][k] \in RecordsOf(ws)
  BY DEF TypeOK, Workspace, RecordsOf

LEMMA InitTypeInv == Init => TypeInv
<1> SUFFICES ASSUME Init PROVE TypeInv
  OBVIOUS
<1>1. TypeOK
  BY DEF Init, TypeOK, Workspace
<1>2. \A t \in Thread : SeenAreRecords(t)
  BY DEF Init, SeenAreRecords
<1> QED
  BY <1>1, <1>2 DEF TypeInv

LEMMA SetTypeInv ==
  ASSUME TypeInv, NEW ws \in Workspace, NEW k \in Key, NEW r \in RecordsOf(ws),
         ws = "dialogs" => r.sessionId = k,
         ws = "registry" => r.key = k,
         Set(ws, k, r), UNCHANGED threadVars
  PROVE  TypeInv'
<1>1. TypeOK'
  BY ConstantsAssumption DEF TypeInv, TypeOK, Set, Touch, Workspace, RecordsOf, Record, threadVars
<1>2. \A t \in Thread : SeenAreRecords(t)'
  BY DEF TypeInv, TypeOK, SeenAreRecords, Set, Watching, threadVars
<1> QED
  BY <1>1, <1>2 DEF TypeInv

LEMMA DelTypeInv ==
  ASSUME TypeInv, NEW ws \in Workspace, NEW k \in Key, Del(ws, k),
         UNCHANGED <<call, pc, keys, values>>,
         doomed' \in [Thread -> SUBSET Key], faulty' \in [Thread -> BOOLEAN],
         dropped' \in [Thread -> SUBSET Key]
  PROVE  TypeInv'
<1>1. TypeOK'
  BY ConstantsAssumption DEF TypeInv, TypeOK, Del, Touch, Workspace
<1>2. \A t \in Thread : SeenAreRecords(t)'
  BY DEF TypeInv, TypeOK, SeenAreRecords, Del
<1> QED
  BY <1>1, <1>2 DEF TypeInv

LEMMA PersistTypeInv ==
  ASSUME TypeInv, NEW d \in DialogData, Persist(d)
  PROVE  TypeInv'
<1>1. /\ "dialogs" \in Workspace
      /\ d.sessionId \in Key
      /\ d \in RecordsOf("dialogs")
  BY DEF Workspace, Key, DialogData, RecordsOf
<1> QED
  BY <1>1, SetTypeInv DEF Persist

LEMMA PersistRegTypeInv ==
  ASSUME TypeInv, NEW g \in RegInput, PersistReg(g)
  PROVE  TypeInv'
<1>1. /\ "registry" \in Workspace
      /\ g.key \in Key
      /\ g \in RecordsOf("registry")
  BY DEF PersistReg, ValidReg, Workspace, Key, RegInput, RegData, RecordsOf
<1> QED
  BY <1>1, SetTypeInv DEF PersistReg

LEMMA RemoveTypeInv ==
  ASSUME TypeInv, NEW ws \in Workspace, NEW k \in Key, Del(ws, k),
         UNCHANGED <<threadVars, faulty, dropped>>
  PROVE  TypeInv'
  BY DelTypeInv DEF TypeInv, TypeOK, threadVars

LEMMA ScanTypeInv ==
  ASSUME TypeInv, NEW t \in Thread, NEW c \in Call, Scan(t, c)
  PROVE  TypeInv'
<1>1. /\ WorkspaceOf(c) \in Workspace
      /\ c # Nil
  BY CallFacts
<1>2. Stored(WorkspaceOf(c)) \subseteq RecordsOf(WorkspaceOf(c))
  BY <1>1, StoredFacts DEF Stored, TypeInv
<1>3. Stored(WorkspaceOf(c)) \subseteq Record
  BY <1>1, <1>2, CallFacts
<1>4. TypeOK'
  BY <1>1, <1>3 DEF TypeInv, TypeOK, Scan, Present
<1>5. \A u \in Thread : SeenAreRecords(u)'
  <2> SUFFICES ASSUME NEW u \in Thread PROVE SeenAreRecords(u)'
    OBVIOUS
  <2>1. CASE u = t
    <3>1. /\ call'[t] = c
          /\ since'[t] = Stored(WorkspaceOf(c))
          /\ values'[t] = {}
          /\ store' = store
      BY DEF TypeInv, TypeOK, Scan
    <3> QED
      BY <1>2, <2>1, <3>1 DEF SeenAreRecords, Stored
  <2>2. CASE u # t
    BY <2>2 DEF TypeInv, TypeOK, SeenAreRecords, Scan
  <2> QED
    BY <2>1, <2>2
<1> QED
  BY <1>4, <1>5 DEF TypeInv

LEMMA GetTypeInv ==
  ASSUME TypeInv, NEW t \in Thread, NEW k \in Key, Get(t, k)
  PROVE  TypeInv'
<1>1. call[t] \in Call /\ call[t] # Nil
  BY DEF Get, TypeInv, TypeOK
<1>2. Collect(values[t], store[WorkspaceOf(call[t])][k]) \subseteq since[t]
  BY <1>1 DEF Get, Collect, TypeInv, SeenAreRecords
<1>3. since[t] \subseteq Record
  BY <1>1, CallFacts DEF TypeInv, SeenAreRecords
<1>4. TypeOK'
  BY <1>2, <1>3 DEF TypeInv, TypeOK, Get
<1>5. \A u \in Thread : SeenAreRecords(u)'
  BY <1>2 DEF TypeInv, TypeOK, SeenAreRecords, Get
<1> QED
  BY <1>4, <1>5 DEF TypeInv

LEMMA ReturnTypeInv ==
  ASSUME TypeInv, NEW t \in Thread, Return(t), UNCHANGED <<store, keys, values, doomed>>
  PROVE  TypeInv'
<1>1. TypeOK'
  BY DEF TypeInv, TypeOK, Return
<1>2. \A u \in Thread : SeenAreRecords(u)'
  BY DEF TypeInv, TypeOK, SeenAreRecords, Return
<1> QED
  BY <1>1, <1>2 DEF TypeInv

LEMMA CollectDoomedTypeInv ==
  ASSUME TypeInv, NEW t \in Thread, CollectDoomed(t)
  PROVE  TypeInv'
<1>1. call[t] \in Call /\ call[t] # Nil
  BY DEF CollectDoomed, TypeInv, TypeOK
<1>2. values[t] \subseteq RecordsOf(WorkspaceOf(call[t]))
  BY <1>1 DEF CollectDoomed, TypeInv, SeenAreRecords
<1>3. DeleteThese(call[t], values[t]) \subseteq Key
  BY <1>1, <1>2, CallFacts DEF DeleteThese, Targets
<1>4. TypeOK'
  BY <1>3 DEF TypeInv, TypeOK, CollectDoomed, historyVars
<1>5. \A u \in Thread : SeenAreRecords(u)'
  BY DEF TypeInv, TypeOK, SeenAreRecords, CollectDoomed, historyVars
<1> QED
  BY <1>4, <1>5 DEF TypeInv

LEMMA DeleteOneTypeInv ==
  ASSUME TypeInv, NEW t \in Thread, NEW k \in Key, DeleteOne(t, k)
  PROVE  TypeInv'
<1>1. call[t] \in Call /\ WorkspaceOf(call[t]) \in Workspace
  BY CallFacts DEF DeleteOne, TypeInv, TypeOK
<1>2. /\ doomed' \in [Thread -> SUBSET Key]
      /\ faulty' \in [Thread -> BOOLEAN]
      /\ dropped' \in [Thread -> SUBSET Key]
  <2>1. doomed' \in [Thread -> SUBSET Key] /\ faulty' \in [Thread -> BOOLEAN]
    BY DEF DeleteOne, LeftToDelete, TypeInv, TypeOK
  <2>2. dropped' = dropped \/ dropped' = [dropped EXCEPT ![t] = dropped[t] \cup {k}]
    BY DEF DeleteOne
  <2>3. dropped \in [Thread -> SUBSET Key]
    BY DEF TypeInv, TypeOK
  <2>4. dropped' \in [Thread -> SUBSET Key]
    BY <2>2, <2>3
  <2> QED
    BY <2>1, <2>4
<1>3. CASE Del(WorkspaceOf(call[t]), k)
  BY <1>1, <1>2, <1>3, DelTypeInv DEF DeleteOne
<1>4. CASE UNCHANGED <<store, kept, since, began, dropped>>
  <2>1. TypeOK'
    BY <1>2, <1>4 DEF TypeInv, TypeOK, DeleteOne
  <2>2. \A u \in Thread : SeenAreRecords(u)'
    BY <1>4 DEF TypeInv, SeenAreRecords, DeleteOne
  <2> QED
    BY <2>1, <2>2 DEF TypeInv
<1> QED
  BY <1>3, <1>4 DEF DeleteOne

LEMMA CrashTypeInv ==
  ASSUME TypeInv, Crash
  PROVE  TypeInv'
<1>1. TypeOK'
  BY DEF TypeInv, TypeOK, Crash
<1>2. \A u \in Thread : SeenAreRecords(u)'
  BY DEF SeenAreRecords, Crash
<1> QED
  BY <1>1, <1>2 DEF TypeInv

LEMMA NextTypeInv == TypeInv /\ [Next]_vars => TypeInv'
<1> SUFFICES ASSUME TypeInv, [Next]_vars PROVE TypeInv'
  OBVIOUS
<1>1. ASSUME NEW d \in DialogData, Persist(d) PROVE TypeInv'
  BY <1>1, PersistTypeInv
<1>2. ASSUME NEW g \in RegInput, PersistReg(g) PROVE TypeInv'
  BY <1>2, PersistRegTypeInv
<1>3. ASSUME NEW s \in Session, RemoveSession(s) PROVE TypeInv'
  BY <1>3, RemoveTypeInv DEF RemoveSession, Key, Workspace
<1>4. ASSUME NEW k \in RegKey, RemoveReg(k) PROVE TypeInv'
  BY <1>4, RemoveTypeInv DEF RemoveReg, Key, Workspace
<1>5. ASSUME NEW ws \in Workspace, NEW k \in Key, Expire(ws, k) PROVE TypeInv'
  BY <1>5, RemoveTypeInv DEF Expire
<1>6. ASSUME NEW t \in Thread, NEW c \in Calls, Scan(t, c) PROVE TypeInv'
  BY <1>6, CallsAssumption, ScanTypeInv
<1>7. ASSUME NEW t \in Thread, Advance(t) PROVE TypeInv'
  <2>1. ASSUME NEW k \in Key, Get(t, k) PROVE TypeInv'
    BY <2>1, GetTypeInv
  <2>2. ASSUME NEW k \in Key, DeleteOne(t, k) PROVE TypeInv'
    BY <2>2, DeleteOneTypeInv
  <2>3. CASE ReturnValues(t)
    BY <2>3, ReturnTypeInv DEF ReturnValues
  <2>4. CASE CollectDoomed(t)
    BY <2>4, CollectDoomedTypeInv
  <2>5. CASE ReturnRemoved(t)
    BY <2>5, ReturnTypeInv DEF ReturnRemoved
  <2> QED
    BY <1>7, <2>1, <2>2, <2>3, <2>4, <2>5 DEF Advance
<1>8. CASE Crash
  BY <1>8, CrashTypeInv
<1>9. CASE UNCHANGED vars
  BY <1>9 DEF TypeInv, TypeOK, SeenAreRecords, vars
<1> QED
  BY <1>1, <1>2, <1>3, <1>4, <1>5, <1>6, <1>7, <1>8, <1>9 DEF Next

THEOREM TypeInvAlways == Spec => []TypeInv
  BY InitTypeInv, NextTypeInv, PTL DEF Spec

\* Every record of either workspace is well formed and sits under the key it
\* names, and no registration has an empty field, whatever the threads do
\* (persistReg's checks are what keeps the second part).
THEOREM TypeCorrect == Spec => []TypeOK
<1>1. TypeInv => TypeOK
  BY DEF TypeInv
<1> QED
  BY <1>1, TypeInvAlways, PTL

-----------------------------------------------------------------------------
(* The bulk calls                                                          *)

\* A bulk call deletes only in its second loop, having dropped what it has read.
DeletesOnlyThen(t) ==
  /\ pc[t] # "deleting" => doomed[t] = {}
  /\ pc[t] = "deleting" => values[t] = {}

\* What has stayed in place is still stored.
KeptIsStored(t) ==
  call[t] # Nil =>
    /\ kept[t] \subseteq began[t]
    /\ \A k \in kept[t] : store[WorkspaceOf(call[t])][k] # Nil

\* While a call reads: it has still to read, or has read, every selected record
\* that has stayed in place.
ReadsOnTrack(t) ==
  pc[t] = "reading" =>
    /\ keys[t] \subseteq began[t] \cap Pattern(call[t])
    /\ \A r \in values[t] : IdOf(call[t], r) \in began[t] \cap Pattern(call[t])
    /\ ~faulty[t] => \A k \in (kept[t] \cap Pattern(call[t])) \ keys[t] :
                       store[WorkspaceOf(call[t])][k] \in values[t]

\* While a call deletes: it has still to delete every target that has stayed in
\* place, and has grounds for every deletion.
DeletesOnTrack(t) ==
  pc[t] = "deleting" =>
    /\ \A k \in doomed[t] :
         /\ k \in began[t] \cap Pattern(call[t])
         /\ \E r \in since[t] : IdOf(call[t], r) = k /\ Target(call[t], r)
    /\ ~faulty[t] => \A k \in (kept[t] \cap Pattern(call[t])) \ doomed[t] :
                       ~Target(call[t], store[WorkspaceOf(call[t])][k])

\* A call that has deleted a key does not have it before it again.
DropsOnce(t) ==
  /\ pc[t] # "deleting" => dropped[t] = {}
  /\ dropped[t] \cap doomed[t] = {}

BulkInv(t) ==
  /\ DeletesOnlyThen(t)
  /\ KeptIsStored(t)
  /\ ReadsOnTrack(t)
  /\ DeletesOnTrack(t)
  /\ DropsOnce(t)

IInv == TypeInv /\ \A t \in Thread : BulkInv(t)

LEMMA InitIInv == Init => IInv
<1> SUFFICES ASSUME Init PROVE IInv
  OBVIOUS
<1>1. \A t \in Thread : BulkInv(t)
  BY DEF Init, BulkInv, DeletesOnlyThen, KeptIsStored, ReadsOnTrack, DeletesOnTrack, DropsOnce
<1> QED
  BY <1>1, InitTypeInv DEF IInv

\* Storing or dropping the record of one key disturbs no bulk call: the key is
\* no longer among those that have stayed in place.
LEMMA TouchBulkInv ==
  ASSUME TypeInv, NEW ws \in Workspace, NEW k \in Key, NEW r,
         NEW u \in Thread, BulkInv(u),
         store' = [store EXCEPT ![ws][k] = r], Touch(ws, k),
         since[u] \subseteq since'[u], UNCHANGED <<call, pc, keys, values, began>>,
         faulty[u] => faulty'[u],
         doomed'[u] = doomed[u] \/ (doomed'[u] = doomed[u] \ {k} /\ Watching(u, ws)
                                    /\ pc[u] = "deleting"),
         dropped'[u] = dropped[u] \/ (dropped'[u] = dropped[u] \cup {k}
                                      /\ k \notin doomed'[u] /\ pc[u] = "deleting")
  PROVE  BulkInv(u)'
<1>1. ASSUME call[u] # Nil
      PROVE  /\ kept'[u] \subseteq kept[u]
             /\ \A j \in kept'[u] : store'[WorkspaceOf(call[u])][j] = store[WorkspaceOf(call[u])][j]
             /\ doomed'[u] # doomed[u] => k \notin kept'[u]
  <2>1. call[u] \in Call /\ WorkspaceOf(call[u]) \in Workspace
    BY <1>1, CallFacts DEF TypeInv, TypeOK
  <2>2. CASE WorkspaceOf(call[u]) = ws
    BY <1>1, <2>1, <2>2 DEF TypeInv, TypeOK, Touch, Watching
  <2>3. CASE WorkspaceOf(call[u]) # ws
    BY <1>1, <2>1, <2>3 DEF TypeInv, TypeOK, Touch, Watching
  <2> QED
    BY <2>2, <2>3
<1>2. DeletesOnlyThen(u)'
  BY DEF BulkInv, DeletesOnlyThen
<1>3. KeptIsStored(u)'
  BY <1>1 DEF BulkInv, KeptIsStored
<1>4. ReadsOnTrack(u)'
  BY <1>1 DEF BulkInv, ReadsOnTrack, TypeInv, TypeOK
<1>5. DeletesOnTrack(u)'
  BY <1>1 DEF BulkInv, DeletesOnTrack, TypeInv, TypeOK
<1>6. DropsOnce(u)'
  BY DEF BulkInv, DropsOnce
<1> QED
  BY <1>2, <1>3, <1>4, <1>5, <1>6 DEF BulkInv

LEMMA SetBulkInv ==
  ASSUME TypeInv, NEW ws \in Workspace, NEW k \in Key, NEW r, Set(ws, k, r),
         UNCHANGED threadVars, NEW u \in Thread, BulkInv(u)
  PROVE  BulkInv(u)'
<1>1. since[u] \subseteq since'[u]
  BY DEF Set
<1> QED
  BY <1>1, TouchBulkInv DEF Set, threadVars

LEMMA DelBulkInv ==
  ASSUME TypeInv, NEW ws \in Workspace, NEW k \in Key, Del(ws, k),
         UNCHANGED <<threadVars, faulty, dropped>>, NEW u \in Thread, BulkInv(u)
  PROVE  BulkInv(u)'
  BY TouchBulkInv DEF Del, threadVars

\* A step of thread t leaves the bulk calls of the other threads alone when it
\* changes nothing in Redis.
LEMMA OtherBulkInv ==
  ASSUME NEW u \in Thread, BulkInv(u), UNCHANGED store,
         call'[u] = call[u], pc'[u] = pc[u], keys'[u] = keys[u], values'[u] = values[u],
         doomed'[u] = doomed[u], kept'[u] = kept[u], since'[u] = since[u],
         began'[u] = began[u], faulty'[u] = faulty[u], dropped'[u] = dropped[u]
  PROVE  BulkInv(u)'
  BY DEF BulkInv, DeletesOnlyThen, KeptIsStored, ReadsOnTrack, DeletesOnTrack, DropsOnce

\* A thread in no bulk call.
LEMMA IdleBulkInv ==
  ASSUME NEW u \in Thread, call'[u] = Nil, pc'[u] = "idle", doomed'[u] = {}, dropped'[u] = {}
  PROVE  BulkInv(u)'
  BY DEF BulkInv, DeletesOnlyThen, KeptIsStored, ReadsOnTrack, DeletesOnTrack, DropsOnce

LEMMA ScanBulkInv ==
  ASSUME TypeInv, NEW t \in Thread, NEW c \in Call, Scan(t, c),
         NEW u \in Thread, BulkInv(u)
  PROVE  BulkInv(u)'
<1>1. CASE u # t
  BY <1>1, OtherBulkInv DEF Scan, TypeInv, TypeOK
<1>2. CASE u = t
  <2>1. /\ call'[t] = c /\ pc'[t] = "reading" /\ values'[t] = {} /\ store' = store
        /\ kept'[t] = Present(WorkspaceOf(c)) /\ began'[t] = Present(WorkspaceOf(c))
        /\ doomed'[t] = doomed[t] /\ dropped'[t] = {} /\ pc[t] = "idle"
    BY DEF Scan, TypeInv, TypeOK
  <2>2. \/ keys'[t] = Pattern(c) \cap Present(WorkspaceOf(c))
        \/ keys'[t] = {} /\ faulty'[t] = TRUE
    BY DEF Scan, TypeInv, TypeOK
  <2>3. DeletesOnlyThen(t)' /\ DeletesOnTrack(t)' /\ DropsOnce(t)'
    BY <1>2, <2>1 DEF BulkInv, DeletesOnlyThen, DeletesOnTrack, DropsOnce
  <2>4. KeptIsStored(t)'
    BY <2>1 DEF KeptIsStored, Present
  <2>5. ReadsOnTrack(t)'
    BY <2>1, <2>2 DEF ReadsOnTrack
  <2> QED
    BY <1>2, <2>3, <2>4, <2>5 DEF BulkInv
<1> QED
  BY <1>1, <1>2

LEMMA GetBulkInv ==
  ASSUME TypeInv, NEW t \in Thread, NEW k \in Key, Get(t, k),
         NEW u \in Thread, BulkInv(u)
  PROVE  BulkInv(u)'
<1>1. CASE u # t
  BY <1>1, OtherBulkInv DEF Get, TypeInv, TypeOK
<1>2. CASE u = t
  <2> DEFINE ws == WorkspaceOf(call[t])
  <2>1. /\ call[t] \in Call /\ call[t] # Nil /\ ws \in Workspace
        /\ pc[t] = "reading" /\ k \in keys[t]
    BY CallFacts DEF Get, TypeInv, TypeOK
  <2>2. /\ keys'[t] = keys[t] \ {k}
        /\ UNCHANGED <<store, call, pc, doomed, kept, since, began, dropped>>
    BY DEF Get, TypeInv, TypeOK
  <2>3. \/ values'[t] = Collect(values[t], store[ws][k]) /\ faulty'[t] = faulty[t]
        \/ values'[t] = values[t] /\ faulty'[t] = TRUE
    BY DEF Get, TypeInv, TypeOK
  <2>4. store[ws][k] # Nil => IdOf(call[t], store[ws][k]) = k
    BY <2>1 DEF TypeInv, TypeOK, IdOf, Workspace
  <2>5. ReadsOnTrack(t)'
    <3>1. keys[t] \subseteq began[t] \cap Pattern(call[t])
      BY <1>2, <2>1 DEF BulkInv, ReadsOnTrack
    <3>2. \A r \in values'[t] : IdOf(call[t], r) \in began[t] \cap Pattern(call[t])
      BY <1>2, <2>1, <2>3, <2>4, <3>1 DEF BulkInv, ReadsOnTrack, Collect
    <3>3. ASSUME ~faulty'[t], NEW j \in (kept[t] \cap Pattern(call[t])) \ keys'[t]
          PROVE  store[ws][j] \in values'[t]
      <4>1. store[ws][j] # Nil
        BY <1>2, <2>1 DEF BulkInv, KeptIsStored
      <4>2. values'[t] = Collect(values[t], store[ws][k]) /\ ~faulty[t]
        BY <2>3, <3>3
      <4>3. CASE j = k
        BY <4>1, <4>2, <4>3 DEF Collect
      <4>4. CASE j # k
        BY <1>2, <2>1, <2>2, <4>2, <4>4 DEF BulkInv, ReadsOnTrack, Collect
      <4> QED
        BY <4>3, <4>4
    <3> QED
      BY <2>2, <3>1, <3>2, <3>3 DEF ReadsOnTrack
  <2>6. DeletesOnlyThen(t)' /\ KeptIsStored(t)' /\ DeletesOnTrack(t)' /\ DropsOnce(t)'
    BY <1>2, <2>1, <2>2 DEF BulkInv, DeletesOnlyThen, KeptIsStored, DeletesOnTrack, DropsOnce
  <2> QED
    BY <1>2, <2>5, <2>6 DEF BulkInv
<1> QED
  BY <1>1, <1>2

LEMMA ReturnBulkInv ==
  ASSUME TypeInv, NEW t \in Thread, Return(t), UNCHANGED <<store, keys, values, doomed>>,
         doomed[t] = {}, NEW u \in Thread, BulkInv(u)
  PROVE  BulkInv(u)'
<1>1. CASE u # t
  BY <1>1, OtherBulkInv DEF Return, TypeInv, TypeOK
<1>2. CASE u = t
  BY <1>2, IdleBulkInv DEF Return, TypeInv, TypeOK
<1> QED
  BY <1>1, <1>2

LEMMA CollectDoomedBulkInv ==
  ASSUME TypeInv, NEW t \in Thread, CollectDoomed(t), NEW u \in Thread, BulkInv(u)
  PROVE  BulkInv(u)'
<1>1. CASE u # t
  BY <1>1, OtherBulkInv DEF CollectDoomed, TypeInv, TypeOK, historyVars
<1>2. CASE u = t
  <2> DEFINE ws == WorkspaceOf(call[t])
  <2>1. /\ call[t] \in Call /\ call[t] # Nil /\ ws \in Workspace
        /\ pc[t] = "reading" /\ keys[t] = {} /\ doomed[t] = {} /\ dropped[t] = {}
    BY <1>2, CallFacts DEF CollectDoomed, TypeInv, TypeOK, BulkInv, DeletesOnlyThen, DropsOnce
  <2>2. /\ pc'[t] = "deleting" /\ values'[t] = {}
        /\ doomed'[t] = {IdOf(call[t], r) : r \in Targets(call[t], values[t])}
        /\ UNCHANGED <<store, call, kept, since, began, faulty, dropped>>
    BY DEF CollectDoomed, DeleteThese, TypeInv, TypeOK, historyVars
  <2>3. values[t] \subseteq since[t]
    BY <2>1 DEF TypeInv, SeenAreRecords
  <2>4. ASSUME NEW k \in doomed'[t]
        PROVE  /\ k \in began[t] \cap Pattern(call[t])
               /\ \E r \in since[t] : IdOf(call[t], r) = k /\ Target(call[t], r)
    <3>1. PICK r \in values[t] : IdOf(call[t], r) = k /\ Target(call[t], r)
      BY <2>2 DEF Targets
    <3> QED
      BY <1>2, <2>1, <2>3, <3>1 DEF BulkInv, ReadsOnTrack
  <2>5. ASSUME ~faulty[t], NEW k \in (kept[t] \cap Pattern(call[t])) \ doomed'[t]
        PROVE  ~Target(call[t], store[ws][k])
    <3>1. store[ws][k] \in values[t]
      BY <1>2, <2>1, <2>5 DEF BulkInv, ReadsOnTrack
    <3>2. k \in Key /\ store[ws][k] # Nil
      BY <1>2, <2>1 DEF BulkInv, KeptIsStored, TypeInv, TypeOK
    <3>3. IdOf(call[t], store[ws][k]) = k
      BY <2>1, <3>2 DEF TypeInv, TypeOK, IdOf, Workspace
    <3> QED
      BY <2>2, <2>5, <3>1, <3>3 DEF Targets
  <2>6. DeletesOnTrack(t)'
    BY <2>2, <2>4, <2>5 DEF DeletesOnTrack
  <2>7. DeletesOnlyThen(t)' /\ KeptIsStored(t)' /\ ReadsOnTrack(t)' /\ DropsOnce(t)'
    BY <1>2, <2>1, <2>2 DEF BulkInv, DeletesOnlyThen, KeptIsStored, ReadsOnTrack, DropsOnce
  <2> QED
    BY <1>2, <2>6, <2>7 DEF BulkInv
<1> QED
  BY <1>1, <1>2

LEMMA DeleteOneBulkInv ==
  ASSUME TypeInv, NEW t \in Thread, NEW k \in Key, DeleteOne(t, k),
         NEW u \in Thread, BulkInv(u)
  PROVE  BulkInv(u)'
<1> DEFINE ws == WorkspaceOf(call[t])
<1>1. /\ call[t] \in Call /\ call[t] # Nil /\ ws \in Workspace
      /\ pc[t] = "deleting"
      /\ doomed' = [doomed EXCEPT ![t] = @ \ {k}]
      /\ UNCHANGED <<call, pc, keys, values>>
  BY CallFacts DEF DeleteOne, LeftToDelete, TypeInv, TypeOK
<1>2. CASE /\ Del(ws, k) /\ UNCHANGED faulty
           /\ dropped' = [dropped EXCEPT ![t] = @ \cup {k}]
  <2>1. doomed'[u] = doomed[u] \/ (doomed'[u] = doomed[u] \ {k} /\ Watching(u, ws)
                                   /\ pc[u] = "deleting")
    BY <1>1 DEF TypeInv, TypeOK, Watching
  <2>2. dropped'[u] = dropped[u] \/ (dropped'[u] = dropped[u] \cup {k}
                                     /\ k \notin doomed'[u] /\ pc[u] = "deleting")
    BY <1>1, <1>2 DEF TypeInv, TypeOK
  <2> QED
    BY <1>1, <1>2, <2>1, <2>2, TouchBulkInv DEF Del
<1>3. CASE /\ faulty' = [faulty EXCEPT ![t] = TRUE]
           /\ UNCHANGED <<store, kept, since, began, dropped>>
  <2>1. CASE u # t
    BY <1>1, <1>3, <2>1, OtherBulkInv DEF TypeInv, TypeOK
  <2>2. CASE u = t
    BY <1>1, <1>3, <2>2 DEF TypeInv, TypeOK, BulkInv, DeletesOnlyThen, KeptIsStored,
                            ReadsOnTrack, DeletesOnTrack, DropsOnce
  <2> QED
    BY <2>1, <2>2
<1> QED
  BY <1>2, <1>3 DEF DeleteOne

LEMMA NextIInv == IInv /\ [Next]_vars => IInv'
<1> SUFFICES ASSUME IInv, [Next]_vars, NEW u \in Thread PROVE BulkInv(u)'
  BY NextTypeInv DEF IInv
<1> TypeInv /\ \A v \in Thread : BulkInv(v)
  BY DEF IInv
<1>1. ASSUME NEW d \in DialogData, Persist(d) PROVE BulkInv(u)'
  BY <1>1, SetBulkInv DEF Persist, DialogData, Key, Workspace
<1>2. ASSUME NEW g \in RegInput, PersistReg(g) PROVE BulkInv(u)'
  BY <1>2, SetBulkInv DEF PersistReg, ValidReg, RegInput, Key, Workspace
<1>3. ASSUME NEW s \in Session, RemoveSession(s) PROVE BulkInv(u)'
  BY <1>3, DelBulkInv DEF RemoveSession, Key, Workspace
<1>4. ASSUME NEW k \in RegKey, RemoveReg(k) PROVE BulkInv(u)'
  BY <1>4, DelBulkInv DEF RemoveReg, Key, Workspace
<1>5. ASSUME NEW ws \in Workspace, NEW k \in Key, Expire(ws, k) PROVE BulkInv(u)'
  BY <1>5, DelBulkInv DEF Expire
<1>6. ASSUME NEW t \in Thread, NEW c \in Calls, Scan(t, c) PROVE BulkInv(u)'
  BY <1>6, CallsAssumption, ScanBulkInv
<1>7. ASSUME NEW t \in Thread, Advance(t) PROVE BulkInv(u)'
  <2>1. ASSUME NEW k \in Key, Get(t, k) PROVE BulkInv(u)'
    BY <2>1, GetBulkInv
  <2>2. ASSUME NEW k \in Key, DeleteOne(t, k) PROVE BulkInv(u)'
    BY <2>2, DeleteOneBulkInv
  <2>3. CASE ReturnValues(t)
    BY <1>7, <2>3, ReturnBulkInv DEF ReturnValues, BulkInv, DeletesOnlyThen
  <2>4. CASE CollectDoomed(t)
    BY <2>4, CollectDoomedBulkInv
  <2>5. CASE ReturnRemoved(t)
    BY <2>5, ReturnBulkInv DEF ReturnRemoved
  <2> QED
    BY <1>7, <2>1, <2>2, <2>3, <2>4, <2>5 DEF Advance
<1>8. CASE Crash
  BY <1>8, IdleBulkInv DEF Crash
<1>9. CASE UNCHANGED vars
  BY <1>9, OtherBulkInv DEF vars
<1> QED
  BY <1>1, <1>2, <1>3, <1>4, <1>5, <1>6, <1>7, <1>8, <1>9 DEF Next

THEOREM IInvAlways == Spec => []IInv
  BY InitIInv, NextIInv, PTL DEF Spec

\* A bulk read of the data store is a regular read: nothing older than the call,
\* nothing missing that stayed in place.
THEOREM ReadsRegular == Spec => []ReadsAreRegular
<1>1. IInv => ReadsAreRegular
  <2> SUFFICES ASSUME IInv, NEW t \in Thread, pc[t] = "reading"
               PROVE  /\ values[t] \subseteq {r \in since[t] : IdOf(call[t], r) \in Pattern(call[t])}
                      /\ keys[t] = {} /\ ~faulty[t] =>
                           \A k \in kept[t] \cap Pattern(call[t]) :
                             store[WorkspaceOf(call[t])][k] \in values[t]
    BY DEF ReadsAreRegular
  <2>1. values[t] \subseteq since[t]
    BY DEF IInv, TypeInv, TypeOK, SeenAreRecords
  <2> QED
    BY <2>1 DEF IInv, BulkInv, ReadsOnTrack
<1> QED
  BY <1>1, IInvAlways, PTL

\* When removeAllDialogs or removeAllReg returns, and Redis answered all of its
\* commands, no target that stayed in place is left.
THEOREM RemovalComplete == Spec => []RemovalIsComplete
<1>1. IInv => RemovalIsComplete
  BY DEF IInv, BulkInv, DeletesOnTrack, RemovalIsComplete
<1> QED
  BY <1>1, IInvAlways, PTL

\* removeAllDialogs and removeAllReg set out to delete nothing that was not a
\* target of theirs at some moment of the call.
THEOREM RemovalPrecise == Spec => []RemovalIsPrecise
<1>1. IInv => RemovalIsPrecise
  BY DEF IInv, BulkInv, DeletesOnTrack, RemovalIsPrecise
<1> QED
  BY <1>1, IInvAlways, PTL

\* What is stored under a new key while a removal runs is not deleted by it.
THEOREM NewcomersAreSafe == Spec => []NewcomersSurvive
<1>1. IInv => NewcomersSurvive
  BY DEF IInv, TypeInv, TypeOK, BulkInv, DeletesOnlyThen, DeletesOnTrack, NewcomersSurvive
<1> QED
  BY <1>1, IInvAlways, PTL

-----------------------------------------------------------------------------
(* The contract                                                            *)

\* The contract and the implementation speak of the same data.
LEMMA SameData ==
  /\ Contract!Workspace = Workspace
  /\ Contract!Key = Key
  /\ Contract!DialogData = DialogData
  /\ Contract!RegData = RegData
  /\ Contract!Call = Call
  /\ \A c : Contract!WorkspaceOf(c) = WorkspaceOf(c)
  /\ \A c : Contract!Pattern(c) = Pattern(c)
  /\ \A c : Contract!IsRemoval(c) <=> IsRemoval(c)
  /\ \A c, r : Contract!IdOf(c, r) = IdOf(c, r)
  /\ \A c, r : Contract!Target(c, r) <=> Target(c, r)
<1>1. /\ Contract!Workspace = Workspace
      /\ Contract!Key = Key
      /\ Contract!DialogData = DialogData
      /\ Contract!RegData = RegData
      /\ Contract!Call = Call
  BY DEF Contract!Workspace, Workspace, Contract!Key, Key, Contract!DialogData, DialogData,
         Contract!RegData, RegData, Contract!Call, Call
<1>2. /\ \A c : Contract!WorkspaceOf(c) = WorkspaceOf(c)
      /\ \A c : Contract!Pattern(c) = Pattern(c)
      /\ \A c : Contract!IsRemoval(c) <=> IsRemoval(c)
  BY <1>1 DEF Contract!WorkspaceOf, WorkspaceOf, Contract!Pattern, Pattern,
              Contract!IsRemoval, IsRemoval
<1>3. /\ \A c, r : Contract!IdOf(c, r) = IdOf(c, r)
      /\ \A c, r : Contract!Target(c, r) <=> Target(c, r)
  BY <1>2 DEF Contract!IdOf, IdOf, Contract!Target, Target
<1> QED
  BY <1>1, <1>2, <1>3

LEMMA SameState ==
  /\ \A t, ws : Contract!Watching(t, ws) <=> Watching(t, ws)
  /\ \A ws : Contract!Stored(ws) = Stored(ws)
  /\ \A ws : Contract!Present(ws) = Present(ws)
<1>1. \A t, ws : Contract!Watching(t, ws) <=> Watching(t, ws)
  BY SameData DEF Contract!Watching, Watching
<1>2. /\ \A ws : Contract!Stored(ws) = Stored(ws)
      /\ \A ws : Contract!Present(ws) = Present(ws)
  BY SameData DEF Contract!Stored, Stored, Contract!Present, Present
<1> QED
  BY <1>1, <1>2

Reply == [t \in Thread |-> IF pc[t] = "idle" THEN values[t] ELSE {}]

LEMMA InitContract == Init => Contract!Init
  BY SameData DEF Init, Contract!Init

LEMMA TouchContract ==
  ASSUME NEW ws, NEW k, Touch(ws, k)
  PROVE  Contract!Touch(ws, k)
  BY SameState DEF Touch, Contract!Touch

LEMMA PutContract ==
  ASSUME NEW ws, NEW k, NEW r, Set(ws, k, r), UNCHANGED threadVars
  PROVE  Contract!Put(ws, k, r)
<1>1. since' = [t \in Thread |-> IF Contract!Watching(t, ws) THEN since[t] \cup {r} ELSE since[t]]
  BY SameState DEF Set
<1>2. UNCHANGED Reply
  BY DEF threadVars, Reply
<1> QED
  BY <1>1, <1>2, TouchContract DEF Set, threadVars, Reply, Contract!Put

LEMMA DropContract ==
  ASSUME NEW ws, NEW k, Del(ws, k), UNCHANGED <<call, Reply, faulty>>
  PROVE  Contract!Gone(ws, k)
  BY TouchContract DEF Del, Reply, Contract!Gone

LEMMA ContractStep ==
  ASSUME IInv, [Next]_vars
  PROVE  [Contract!Next]_(Contract!vars)
<1> TypeInv /\ \A v \in Thread : BulkInv(v)
  BY DEF IInv
<1>1. ASSUME NEW d \in DialogData, Persist(d) PROVE Contract!Next
  <2>1. Contract!Put("dialogs", d.sessionId, d)
    BY <1>1, PutContract DEF Persist
  <2> QED
    BY <2>1, SameData DEF Contract!PutDialog, Contract!Next
<1>2. ASSUME NEW g \in RegInput, PersistReg(g) PROVE Contract!Next
  <2>1. g \in RegData
    BY <1>2 DEF PersistReg, ValidReg, RegInput, RegData
  <2>2. Contract!Put("registry", g.key, g)
    BY <1>2, PutContract DEF PersistReg
  <2> QED
    BY <2>1, <2>2, SameData DEF Contract!PutReg, Contract!Next
<1>3. ASSUME NEW ws \in Workspace, NEW k \in Key, Del(ws, k),
             UNCHANGED <<threadVars, faulty, dropped>>
      PROVE  Contract!Next
  <2>1. Contract!Drop(ws, k)
    BY <1>3, DropContract DEF threadVars, Reply, Contract!Drop
  <2> QED
    BY <2>1, SameData DEF Contract!Next
<1>4. ASSUME NEW t \in Thread, NEW c \in Calls, Scan(t, c) PROVE Contract!Next
  <2>1. call[t] = Nil
    BY <1>4 DEF Scan, TypeInv, TypeOK
  <2>2. Reply' = [Reply EXCEPT ![t] = {}]
    BY <1>4 DEF Scan, TypeInv, TypeOK, Reply
  <2>3. /\ kept' = [kept EXCEPT ![t] = Contract!Present(Contract!WorkspaceOf(c))]
        /\ since' = [since EXCEPT ![t] = Contract!Stored(Contract!WorkspaceOf(c))]
        /\ began' = [began EXCEPT ![t] = Contract!Present(Contract!WorkspaceOf(c))]
    BY <1>4, SameData, SameState DEF Scan
  <2>4. Contract!Begin(t, c)
    BY <1>4, <2>1, <2>2, <2>3 DEF Scan, Reply, Contract!Begin
  <2> QED
    BY <2>4, CallsAssumption, SameData DEF Contract!Next
<1>5. ASSUME NEW t \in Thread, NEW k \in Key, Get(t, k)
      PROVE  Contract!Next \/ UNCHANGED Contract!vars
  <2>1. UNCHANGED Reply
    BY <1>5 DEF Get, TypeInv, TypeOK, Reply
  <2>2. CASE UNCHANGED faulty
    BY <1>5, <2>1, <2>2 DEF Get, Reply, Contract!vars
  <2>3. CASE faulty' = [faulty EXCEPT ![t] = TRUE]
    <3>1. Contract!Fault(t)
      BY <1>5, <2>1, <2>3 DEF Get, TypeInv, TypeOK, Reply, Contract!Fault
    <3> QED
      BY <3>1 DEF Contract!Next
  <2> QED
    BY <1>5, <2>2, <2>3 DEF Get
<1>6. ASSUME NEW t \in Thread, NEW k \in Key, DeleteOne(t, k) PROVE Contract!Next
  <2>1. call[t] # Nil /\ pc[t] = "deleting" /\ k \in doomed[t]
    BY <1>6 DEF DeleteOne, TypeInv, TypeOK
  <2>2. UNCHANGED <<call, Reply>>
    BY <1>6 DEF DeleteOne, Reply
  <2>3. CASE /\ Del(WorkspaceOf(call[t]), k) /\ UNCHANGED faulty
             /\ dropped' = [dropped EXCEPT ![t] = @ \cup {k}]
    <3>1. Contract!Gone(Contract!WorkspaceOf(call[t]), k)
      BY <2>2, <2>3, DropContract, SameData
    <3>2. /\ k \in began[t] \cap Pattern(call[t])
          /\ \E r \in since[t] : IdOf(call[t], r) = k /\ Target(call[t], r)
      BY <2>1 DEF BulkInv, DeletesOnTrack
    <3>3. k \notin dropped[t]
      BY <2>1 DEF BulkInv, DropsOnce
    <3>4. Contract!BulkDrop(t, k)
      BY <2>1, <2>3, <3>1, <3>2, <3>3, SameData DEF Contract!BulkDrop
    <3> QED
      BY <3>4, SameData DEF Contract!Next
  <2>4. CASE /\ faulty' = [faulty EXCEPT ![t] = TRUE]
             /\ UNCHANGED <<store, kept, since, began, dropped>>
    <3>1. Contract!Fault(t)
      BY <2>1, <2>2, <2>4 DEF Reply, Contract!Fault
    <3> QED
      BY <3>1 DEF Contract!Next
  <2> QED
    BY <1>6, <2>3, <2>4 DEF DeleteOne
<1>7. ASSUME NEW t \in Thread, ReturnValues(t) PROVE Contract!Next
  <2>1. call[t] # Nil /\ pc[t] = "reading" /\ keys[t] = {} /\ ~IsRemoval(call[t])
    BY <1>7 DEF ReturnValues, TypeInv, TypeOK
  <2>2. Contract!Finished(t)
    BY <1>7 DEF ReturnValues, Return, Contract!Finished
  <2>3. Reply' = [Reply EXCEPT ![t] = values[t]]
    BY <1>7 DEF ReturnValues, Return, Reply, TypeInv, TypeOK
  <2>4. values[t] \in SUBSET {r \in since[t] : IdOf(call[t], r) \in Pattern(call[t])}
    BY <2>1 DEF TypeInv, SeenAreRecords, BulkInv, ReadsOnTrack
  <2>5. ~faulty[t] => \A k \in kept[t] \cap Pattern(call[t]) :
                        store[WorkspaceOf(call[t])][k] \in values[t]
    BY <2>1 DEF BulkInv, ReadsOnTrack
  <2>6. Contract!ReturnRead(t)
    BY <2>1, <2>2, <2>3, <2>4, <2>5, SameData DEF Reply, Contract!ReturnRead
  <2> QED
    BY <2>6 DEF Contract!Next
<1>8. ASSUME NEW t \in Thread, CollectDoomed(t) PROVE UNCHANGED Contract!vars
  <2>1. UNCHANGED Reply
    BY <1>8 DEF CollectDoomed, TypeInv, TypeOK, Reply
  <2> QED
    BY <1>8, <2>1 DEF CollectDoomed, historyVars, Reply, Contract!vars
<1>9. ASSUME NEW t \in Thread, ReturnRemoved(t) PROVE Contract!Next
  <2>1. call[t] # Nil /\ pc[t] = "deleting" /\ doomed[t] = {} /\ IsRemoval(call[t])
    BY <1>9 DEF ReturnRemoved, TypeInv, TypeOK
  <2>2. Contract!Finished(t)
    BY <1>9 DEF ReturnRemoved, Return, Contract!Finished
  <2>3. UNCHANGED Reply
    BY <1>9, <2>1 DEF ReturnRemoved, Return, Reply, TypeInv, TypeOK, BulkInv, DeletesOnlyThen
  <2>4. ~faulty[t] => \A k \in kept[t] \cap Pattern(call[t]) :
                        ~Target(call[t], store[WorkspaceOf(call[t])][k])
    BY <2>1 DEF BulkInv, DeletesOnTrack
  <2>5. Contract!ReturnRemoval(t)
    BY <2>1, <2>2, <2>3, <2>4, SameData DEF Reply, Contract!ReturnRemoval
  <2> QED
    BY <2>5 DEF Contract!Next
<1>10. ASSUME Crash PROVE Contract!Next
  <2>1. Reply' = [t \in Thread |-> {}]
    BY <1>10 DEF Crash, Reply
  <2> QED
    BY <1>10, <2>1 DEF Crash, Reply, Contract!Crash, Contract!Next
<1>11. CASE UNCHANGED vars
  BY <1>11 DEF vars, Contract!vars
<1>12. CASE Next
  <2>1. ASSUME NEW s \in Session, RemoveSession(s) PROVE Contract!Next
    BY <1>3, <2>1 DEF RemoveSession, Workspace, Key
  <2>2. ASSUME NEW k \in RegKey, RemoveReg(k) PROVE Contract!Next
    BY <1>3, <2>2 DEF RemoveReg, Workspace, Key
  <2>3. ASSUME NEW ws \in Workspace, NEW k \in Key, Expire(ws, k) PROVE Contract!Next
    BY <1>3, <2>3 DEF Expire
  <2>4. ASSUME NEW t \in Thread, Advance(t) PROVE Contract!Next \/ UNCHANGED Contract!vars
    BY <1>5, <1>6, <1>7, <1>8, <1>9, <2>4 DEF Advance
  <2> QED
    BY <1>1, <1>2, <1>4, <1>10, <1>12, <2>1, <2>2, <2>3, <2>4 DEF Next
<1> QED
  BY <1>11, <1>12

\* The data store implements its contract: a bulk call that reads and deletes
\* record by record, among other threads, failures and crashes, does no more and
\* no less than DataStoreContract allows.  In particular every single DEL of a
\* removal is of a key that was stored when the call began, that has held one of its
\* targets since, and that it has not deleted before.
THEOREM StoreKeepsContract == Spec => KeepsContract
<1>1. Init => Contract!Init
  BY InitContract
<1>2. IInv /\ [Next]_vars => [Contract!Next]_(Contract!vars)
  BY ContractStep
<1> QED
  BY <1>1, <1>2, IInvAlways, PTL DEF Spec, KeepsContract, Contract!Spec

-----------------------------------------------------------------------------
(* Every bulk call comes nearer to its end                                 *)

\* Redis holds finitely many records, so that a bulk call has finitely many to read
\* and to delete, however many keys there may be.
FiniteStore == \A ws \in Workspace : IsFiniteSet(Present(ws))

FiniteWork(t) == IsFiniteSet(keys[t]) /\ IsFiniteSet(values[t]) /\ IsFiniteSet(doomed[t])

FiniteInv == FiniteStore /\ \A t \in Thread : FiniteWork(t)

LEMMA InitFiniteInv == Init => FiniteInv
<1> SUFFICES ASSUME Init PROVE FiniteInv
  OBVIOUS
<1>1. ASSUME NEW ws \in Workspace PROVE IsFiniteSet(Present(ws))
  <2>1. Present(ws) = {}
    BY DEF Init, Present
  <2> QED
    BY <2>1, FS_EmptySet
<1>2. ASSUME NEW t \in Thread PROVE FiniteWork(t)
  <2>1. keys[t] = {} /\ values[t] = {} /\ doomed[t] = {}
    BY DEF Init
  <2> QED
    BY <2>1, FS_EmptySet DEF FiniteWork
<1> QED
  BY <1>1, <1>2 DEF FiniteInv, FiniteStore

\* A command adds one record at most.
LEMMA FiniteAfterCommand ==
  ASSUME TypeOK, FiniteStore, NEW ws \in Workspace, NEW k \in Key, NEW r,
         store' = [store EXCEPT ![ws][k] = r]
  PROVE  FiniteStore'
<1> SUFFICES ASSUME NEW w \in Workspace PROVE IsFiniteSet(Present(w)')
  BY DEF FiniteStore
<1>1. Present(w)' \in SUBSET (Present(w) \cup {k})
  BY DEF TypeOK, Present
<1>2. IsFiniteSet(Present(w) \cup {k})
  BY FS_AddElement DEF FiniteStore
<1> HIDE DEF FiniteStore
<1> QED
  BY <1>1, <1>2, FS_Subset

\* DeleteThese names one id per record at most.
LEMMA DeleteTheseBound ==
  ASSUME NEW c, NEW vals, IsFiniteSet(vals)
  PROVE  /\ IsFiniteSet(DeleteThese(c, vals))
         /\ Cardinality(DeleteThese(c, vals)) =< Cardinality(vals)
<1> DEFINE T == Targets(c, vals)
           D == DeleteThese(c, vals)
           f == [r \in T |-> IdOf(c, r)]
<1>1. T \in SUBSET vals
  BY DEF Targets
<1>2. f \in Surjection(T, D)
  BY DEF DeleteThese, Surjection
<1> HIDE DEF T, D, f
<1>3. IsFiniteSet(T) /\ Cardinality(T) =< Cardinality(vals)
  BY <1>1, FS_Subset
<1>4. IsFiniteSet(D) /\ Cardinality(D) =< Cardinality(T)
  BY <1>2, <1>3, FS_Surjection
<1>5. Cardinality(D) \in Nat /\ Cardinality(T) \in Nat /\ Cardinality(vals) \in Nat
  BY <1>3, <1>4, FS_CardinalityType
<1> QED
  BY <1>3, <1>4, <1>5 DEF D

\* One answer of Redis adds one record at most.
LEMMA CollectBound ==
  ASSUME NEW vals, NEW r, IsFiniteSet(vals)
  PROVE  /\ IsFiniteSet(Collect(vals, r))
         /\ Cardinality(Collect(vals, r)) =< Cardinality(vals) + 1
<1>1. Cardinality(vals) \in Nat
  BY FS_CardinalityType
<1>2. IsFiniteSet(vals \cup {r}) /\ Cardinality(vals \cup {r}) =< Cardinality(vals) + 1
  BY <1>1, FS_AddElement
<1> QED
  BY <1>1, <1>2 DEF Collect


\* What a step does to the work of thread u: it leaves it alone, or brings it nearer
\* to its end.
WorkAdvances(u) ==
  /\ FiniteWork(u)'
  /\ call[u] # Nil =>
       \/ UNCHANGED <<pc[u], keys[u], values[u], doomed[u]>>
       \/ StepsLeft(u)' < StepsLeft(u)

LEMMA SameWork ==
  ASSUME NEW u \in Thread, FiniteWork(u),
         UNCHANGED <<pc[u], keys[u], values[u], doomed[u]>>
  PROVE  WorkAdvances(u)
  BY DEF WorkAdvances, FiniteWork

LEMMA ScanWork ==
  ASSUME TypeOK, FiniteInv, NEW t \in Thread, NEW c \in Call, Scan(t, c)
  PROVE  WorkAdvances(t)
<1>1. /\ call[t] = Nil
      /\ keys'[t] = Pattern(c) \cap Present(WorkspaceOf(c)) \/ keys'[t] = {}
      /\ values'[t] = {} /\ doomed'[t] = doomed[t]
  BY DEF Scan, TypeOK
<1>2. IsFiniteSet(Pattern(c) \cap Present(WorkspaceOf(c)))
  BY CallFacts, FS_Intersection DEF FiniteInv, FiniteStore
<1>3. FiniteWork(t)'
  BY <1>1, <1>2, FS_EmptySet DEF FiniteInv, FiniteWork
<1> QED
  BY <1>1, <1>3 DEF WorkAdvances

LEMMA GetWork ==
  ASSUME TypeOK, NEW t \in Thread, FiniteWork(t), NEW k \in Key, Get(t, k)
  PROVE  WorkAdvances(t)
<1> DEFINE K == keys[t] \ {k}
           V == values'[t]
<1>1. /\ pc[t] = "reading" /\ pc'[t] = "reading" /\ k \in keys[t]
      /\ keys'[t] = K /\ doomed'[t] = doomed[t]
      /\ V = values[t] \/ V = Collect(values[t], store[WorkspaceOf(call[t])][k])
  BY DEF Get, TypeOK
<1> HIDE DEF K, V
<1>2. IsFiniteSet(K) /\ Cardinality(K) = Cardinality(keys[t]) - 1
  BY <1>1, FS_RemoveElement DEF FiniteWork, K
<1>3. IsFiniteSet(V) /\ Cardinality(V) =< Cardinality(values[t]) + 1
  <2>1. Cardinality(values[t]) \in Nat
    BY FS_CardinalityType DEF FiniteWork
  <2> QED
    BY <1>1, <2>1, CollectBound DEF FiniteWork
<1>4. /\ Cardinality(K) \in Nat /\ Cardinality(V) \in Nat
      /\ Cardinality(keys[t]) \in Nat /\ Cardinality(values[t]) \in Nat
  BY <1>2, <1>3, FS_CardinalityType DEF FiniteWork
<1>5. FiniteWork(t)'
  BY <1>1, <1>2, <1>3 DEF FiniteWork, V
<1>6. StepsLeft(t) = 2 * Cardinality(keys[t]) + Cardinality(values[t]) + 2
  BY <1>1 DEF StepsLeft
<1>7. StepsLeft(t)' = 2 * Cardinality(K) + Cardinality(V) + 2
  BY <1>1 DEF StepsLeft, V
<1> QED
  BY <1>2, <1>3, <1>4, <1>5, <1>6, <1>7 DEF WorkAdvances

LEMMA CollectDoomedWork ==
  ASSUME TypeOK, NEW t \in Thread, FiniteWork(t), CollectDoomed(t)
  PROVE  WorkAdvances(t)
<1> DEFINE D == DeleteThese(call[t], values[t])
<1>1. /\ pc[t] = "reading" /\ pc'[t] = "deleting" /\ keys[t] = {} /\ keys'[t] = {}
      /\ values'[t] = {} /\ doomed'[t] = D
  BY DEF CollectDoomed, TypeOK
<1>2. IsFiniteSet(D) /\ Cardinality(D) =< Cardinality(values[t])
  BY DeleteTheseBound DEF FiniteWork
<1> HIDE DEF D
<1>3. Cardinality(D) \in Nat /\ Cardinality(values[t]) \in Nat
  BY <1>2, FS_CardinalityType DEF FiniteWork
<1>4. FiniteWork(t)'
  BY <1>1, <1>2, FS_EmptySet DEF FiniteWork
<1>5. StepsLeft(t) = Cardinality(values[t]) + 2
  BY <1>1, <1>3, FS_EmptySet DEF StepsLeft
<1>6. StepsLeft(t)' = Cardinality(D) + 1
  BY <1>1 DEF StepsLeft
<1> QED
  BY <1>2, <1>3, <1>4, <1>5, <1>6 DEF WorkAdvances

LEMMA DeleteOneWork ==
  ASSUME TypeOK, NEW t \in Thread, FiniteWork(t), NEW k \in Key, DeleteOne(t, k)
  PROVE  WorkAdvances(t)
<1> DEFINE D == doomed[t] \ {k}
<1>1. /\ pc[t] = "deleting" /\ pc'[t] = "deleting" /\ k \in doomed[t] /\ doomed'[t] = D
      /\ keys'[t] = keys[t] /\ values'[t] = values[t]
  BY DEF DeleteOne, LeftToDelete, TypeOK
<1>2. IsFiniteSet(D) /\ Cardinality(D) = Cardinality(doomed[t]) - 1
  BY <1>1, FS_RemoveElement DEF FiniteWork
<1> HIDE DEF D
<1>3. Cardinality(D) \in Nat /\ Cardinality(doomed[t]) \in Nat
  BY <1>2, FS_CardinalityType DEF FiniteWork
<1>4. FiniteWork(t)'
  BY <1>1, <1>2 DEF FiniteWork
<1>5. StepsLeft(t) = Cardinality(doomed[t]) + 1 /\ StepsLeft(t)' = Cardinality(D) + 1
  BY <1>1 DEF StepsLeft
<1> QED
  BY <1>2, <1>3, <1>4, <1>5 DEF WorkAdvances

\* A thread that is in a bulk call has a step left; one that has returned, none.
LEMMA ReturnWork ==
  ASSUME TypeOK, NEW t \in Thread, FiniteWork(t), pc'[t] = "idle", FiniteWork(t)'
  PROVE  WorkAdvances(t)
<1>1. /\ Cardinality(keys[t]) \in Nat /\ Cardinality(values[t]) \in Nat
      /\ Cardinality(doomed[t]) \in Nat
  BY FS_CardinalityType DEF FiniteWork
<1>2. call[t] # Nil => StepsLeft(t) > 0
  BY <1>1 DEF StepsLeft, TypeOK
<1>3. StepsLeft(t)' = 0
  BY DEF StepsLeft
<1> QED
  BY <1>2, <1>3 DEF WorkAdvances

LEMMA AdvanceWork ==
  ASSUME TypeOK, FiniteInv, NEW t \in Thread, Advance(t), NEW u \in Thread
  PROVE  WorkAdvances(u)
<1>0. FiniteWork(t) /\ FiniteWork(u)
  BY DEF FiniteInv
<1>1. CASE u # t
  <2>1. UNCHANGED <<pc[u], keys[u], values[u], doomed[u]>>
    BY <1>1 DEF Advance, Get, DeleteOne, ReturnValues, CollectDoomed, ReturnRemoved, Return,
       TypeOK
  <2> QED
    BY <1>0, <2>1, SameWork
<1>2. CASE u = t
  <2>1. CASE ReturnValues(t) \/ ReturnRemoved(t)
    <3>1. /\ pc'[t] = "idle" /\ keys'[t] = keys[t] /\ values'[t] = values[t]
          /\ doomed'[t] = doomed[t]
      BY <2>1 DEF ReturnValues, ReturnRemoved, Return, TypeOK
    <3> QED
      BY <1>0, <1>2, <3>1, ReturnWork DEF FiniteWork
  <2> QED
    BY <1>0, <1>2, <2>1, GetWork, CollectDoomedWork, DeleteOneWork DEF Advance
<1> QED
  BY <1>1, <1>2

LEMMA NextWork ==
  ASSUME TypeOK, FiniteInv, [Next]_vars, NEW u \in Thread
  PROVE  WorkAdvances(u)
<1>0. FiniteWork(u)
  BY DEF FiniteInv
<1>1. ASSUME UNCHANGED threadVars PROVE WorkAdvances(u)
  BY <1>0, <1>1, SameWork DEF threadVars
<1>2. ASSUME NEW d \in DialogData, Persist(d) PROVE WorkAdvances(u)
  BY <1>1, <1>2 DEF Persist
<1>3. ASSUME NEW g \in RegInput, PersistReg(g) PROVE WorkAdvances(u)
  BY <1>1, <1>3 DEF PersistReg
<1>4. ASSUME NEW s \in Session, RemoveSession(s) PROVE WorkAdvances(u)
  BY <1>1, <1>4 DEF RemoveSession
<1>5. ASSUME NEW k \in RegKey, RemoveReg(k) PROVE WorkAdvances(u)
  BY <1>1, <1>5 DEF RemoveReg
<1>6. ASSUME NEW ws \in Workspace, NEW k \in Key, Expire(ws, k) PROVE WorkAdvances(u)
  BY <1>1, <1>6 DEF Expire
<1>7. ASSUME NEW t \in Thread, NEW c \in Calls, Scan(t, c) PROVE WorkAdvances(u)
  <2>1. CASE u = t
    BY <1>7, <2>1, ScanWork, CallsAssumption
  <2>2. CASE u # t
    <3>1. UNCHANGED <<pc[u], keys[u], values[u], doomed[u]>>
      BY <1>7, <2>2 DEF Scan, TypeOK
    <3> QED
      BY <1>0, <3>1, SameWork
  <2> QED
    BY <2>1, <2>2
<1>8. ASSUME NEW t \in Thread, Advance(t) PROVE WorkAdvances(u)
  BY <1>8, AdvanceWork
<1>9. CASE Crash
  <2>1. pc'[u] = "idle" /\ keys'[u] = {} /\ values'[u] = {} /\ doomed'[u] = {}
    BY <1>9 DEF Crash
  <2>2. FiniteWork(u)'
    BY <2>1, FS_EmptySet DEF FiniteWork
  <2> QED
    BY <1>0, <2>1, <2>2, ReturnWork
<1>10. CASE UNCHANGED vars
  BY <1>1, <1>10 DEF vars, threadVars
<1> QED
  BY <1>2, <1>3, <1>4, <1>5, <1>6, <1>7, <1>8, <1>9, <1>10 DEF Next

LEMMA NextFiniteStore ==
  ASSUME TypeOK, FiniteStore, [Next]_vars
  PROVE  FiniteStore'
<1>1. ASSUME UNCHANGED store PROVE FiniteStore'
  BY <1>1 DEF FiniteStore, Present
<1>2. ASSUME NEW ws \in Workspace, NEW k \in Key, NEW r,
             store' = [store EXCEPT ![ws][k] = r]
      PROVE  FiniteStore'
  BY <1>2, FiniteAfterCommand
<1>3. ASSUME NEW d \in DialogData, Persist(d) PROVE FiniteStore'
  BY <1>2, <1>3 DEF Persist, Set, DialogData, Key, Workspace
<1>4. ASSUME NEW g \in RegInput, PersistReg(g) PROVE FiniteStore'
  BY <1>2, <1>4 DEF PersistReg, ValidReg, Set, RegInput, Key, Workspace
<1>5. ASSUME NEW s \in Session, RemoveSession(s) PROVE FiniteStore'
  BY <1>2, <1>5 DEF RemoveSession, Del, Key, Workspace
<1>6. ASSUME NEW k \in RegKey, RemoveReg(k) PROVE FiniteStore'
  BY <1>2, <1>6 DEF RemoveReg, Del, Key, Workspace
<1>7. ASSUME NEW ws \in Workspace, NEW k \in Key, Expire(ws, k) PROVE FiniteStore'
  BY <1>2, <1>7 DEF Expire, Del
<1>8. ASSUME NEW t \in Thread, Advance(t) PROVE FiniteStore'
  <2>1. ASSUME NEW k \in Key, DeleteOne(t, k) PROVE FiniteStore'
    <3>1. WorkspaceOf(call[t]) \in Workspace
      BY <2>1, CallFacts DEF DeleteOne, TypeOK
    <3> QED
      BY <1>1, <1>2, <2>1, <3>1 DEF DeleteOne, Del
  <2> QED
    BY <1>1, <1>8, <2>1 DEF Advance, Get, ReturnValues, CollectDoomed, ReturnRemoved
<1> QED
  BY <1>1, <1>3, <1>4, <1>5, <1>6, <1>7, <1>8 DEF Next, Scan, Crash, vars

LEMMA NextFiniteInv == TypeOK /\ FiniteInv /\ [Next]_vars => FiniteInv'
  BY NextWork, NextFiniteStore DEF FiniteInv, WorkAdvances

\* A bulk call brings its end nearer whenever it does anything at all, whatever other
\* threads store, delete or let expire meanwhile.
THEOREM BulkCallsNearEnd == Spec => BulkCallsAdvance
<1>1. Spec => [](TypeOK /\ FiniteInv)
  BY InitFiniteInv, NextFiniteInv, TypeCorrect, PTL DEF Spec
<1>2. TypeOK /\ FiniteInv /\ [Next]_vars =>
        [\A t \in Thread : call[t] # Nil =>
           \/ UNCHANGED <<pc[t], keys[t], values[t], doomed[t]>>
           \/ StepsLeft(t)' < StepsLeft(t)]_vars
  BY NextWork DEF WorkAdvances
<1> QED
  BY <1>1, <1>2, PTL DEF Spec, BulkCallsAdvance

=============================================================================
