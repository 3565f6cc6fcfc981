--------------------------- MODULE SbcDeployProofs ---------------------------
(***************************************************************************)
(* Proofs about SbcDeploy, for any settings, any number of scripts and any *)
(* set of disturbances.                                                    *)
(***************************************************************************)
EXTENDS SbcDeploy, TLAPS

-----------------------------------------------------------------------------
(* Types *)

LEMMA Distinct ==
  /\ Nil \notin Usable /\ Blank \notin Usable /\ NoFile \notin Usable
  /\ NoFile # Blank /\ NoFile # Nil /\ Blank # Nil
  /\ ScriptCount \in Nat
  /\ Setting \subseteq Usable
  BY SettingAssumption DEF Usable

LEMMA ShortOf == \A s \in Setting, n \in Cuts : CutShort(s, n) \in Short
  BY SMT DEF Short, CutShort

\* Main, and everything else that moves the process, keeps its type.
LEMMA ProcessType ==
  ASSUME ProcessTypeOK,
         Main \/ InitFails \/ Exit \/ Start \/ UNCHANGED <<ini, processVars>>
  PROVE  ProcessTypeOK'
<1> USE Distinct DEF ProcessTypeOK, Phase
<1>1. CASE InitDataStore
  BY <1>1 DEF InitDataStore, memory
<1>2. CASE ReadHandlerConfig
  BY <1>2 DEF ReadHandlerConfig
<1>3. CASE LoadScript
  BY <1>3 DEF LoadScript, ToLoad
<1>4. CASE ScriptFails \/ TransportFails
  BY <1>4 DEF ScriptFails, TransportFails, memory
<1>5. CASE RegisterDefaultHandler
  BY <1>5 DEF RegisterDefaultHandler, ToLoad
<1>6. CASE ReadListenerConfig
  BY <1>6 DEF ReadListenerConfig
<1>7. CASE NoListenerAddress \/ Exit
  <2>1. /\ ~registered' /\ registered' \in BOOLEAN
        /\ UNCHANGED ini /\ phase' = "down" /\ handlerIni' = Nil /\ listenerIni' = Nil
        /\ loaded' = 0 /\ ports' = Nil
    BY <1>7, Zenon DEF NoListenerAddress, Exit
  <2> QED
    BY <2>1
<1>8. CASE TransportInit
  BY <1>8 DEF TransportInit
<1>9. CASE Run
  BY <1>9 DEF Run, memory
<1>10. CASE Start
  BY <1>10 DEF Start, memory
<1>11. CASE UNCHANGED <<ini, processVars>>
  BY <1>11 DEF processVars, Ports
<1> QED
  BY <1>1, <1>2, <1>3, <1>4, <1>5, <1>6, <1>7, <1>8, <1>9, <1>10, <1>11 DEF Main, InitFails

\* Which actions of the process each action of the deployment makes.
LEMMA ProcessPart ==
  ASSUME [Next]_vars, ~EditIni
  PROVE  Main \/ InitFails \/ Exit \/ Start \/ UNCHANGED <<ini, processVars>>
<1>1. CASE Agent
  BY <1>1 DEF Agent, StartRun, EditIni, FindProcess, StopPromise, StartPromise,
     Promise, StartCommand, RestartStop, RestartStart, EndRun
<1>2. CASE Replicator
  BY <1>2 DEF Replicator, Replicate, WriteClass, OpenPart, ClosePart
<1>3. CASE ProcessRuns \/ InitializationFails \/ ProcessDies \/ ServiceStart
  BY <1>3 DEF ProcessRuns, InitializationFails, ProcessDies, ServiceStart, Die
<1>4. ASSUME NEW s \in Setting, SaveSettings(s)
      PROVE  UNCHANGED <<ini, processVars>>
  BY <1>4 DEF SaveSettings
<1>5. ASSUME NEW stop \in BOOLEAN, NEW restart \in BOOLEAN, StartRun(stop, restart)
      PROVE  UNCHANGED <<ini, processVars>>
  BY <1>5 DEF StartRun
<1>6. CASE SwitchFeature \/ ReplicateFails \/ AgentDies
  BY <1>6 DEF SwitchFeature, ReplicateFails, AgentDies
<1>7. CASE UNCHANGED vars
  BY <1>7 DEF vars
<1> QED
  BY <1>1, <1>2, <1>3, <1>4, <1>5, <1>6, <1>7 DEF Next, Undisturbed

LEMMA ClassOps ==
  /\ NoClass \in Class
  /\ \A a, b, c \in BOOLEAN :
       [NoClass EXCEPT !.sipxsbc = a, !.stop_sipxecs = b, !.restart_sipxecs = c] \in Class
  /\ \A c \in Class, b \in BOOLEAN :
       /\ [c EXCEPT !.restart_sipxsbc = b] \in Class
       /\ [c EXCEPT !.sipxsbc_running = b] \in Class
  BY DEF NoClass, Class

LEMMA InitTypeOK == Init => TypeOK
<1> SUFFICES ASSUME Init PROVE TypeOK
  OBVIOUS
<1>1. ~registered /\ registered \in BOOLEAN
  BY Zenon DEF Init, ProcessInit
<1>2. ProcessTypeOK
  <2>1. /\ ini = NoFile /\ phase = "down" /\ handlerIni = Nil /\ listenerIni = Nil
        /\ loaded = 0 /\ ports = Nil
    BY Zenon DEF Init, ProcessInit
  <2> QED
    BY <1>1, <2>1, Distinct DEF ProcessTypeOK, Phase
<1>3. /\ dirty \in BOOLEAN /\ cfdat \in BOOLEAN /\ owed \in BOOLEAN
      /\ undelivered \in BOOLEAN
  BY Zenon DEF Init
<1>4. /\ saved \in Setting /\ enabled \in BOOLEAN /\ replicator = "idle"
      /\ settings = Nil /\ part = Blank /\ agent = "idle" /\ class = NoClass
  BY Zenon DEF Init
<1> QED
  BY <1>2, <1>3, <1>4, ClassOps DEF TypeOK

LEMMA NextTypeOK == TypeOK /\ [Next]_vars => TypeOK'
<1> SUFFICES ASSUME TypeOK, [Next]_vars PROVE TypeOK'
  OBVIOUS
<1>1. ProcessTypeOK'
  <2>1. CASE EditIni
    BY <2>1, Distinct DEF EditIni, TypeOK, ProcessTypeOK, processVars, Ports
  <2>2. CASE ~EditIni
    BY <2>2, ProcessPart, ProcessType DEF TypeOK
  <2> QED
    BY <2>1, <2>2
<1> HIDE DEF ProcessTypeOK
<1> USE Distinct, ClassOps DEF TypeOK
<1>2. CASE Agent
  <2>1. ASSUME StartRun(FALSE, FALSE) PROVE TypeOK'
    BY <1>1, <2>1 DEF StartRun, siteVars, configVars
  <2>2. CASE EditIni
    <3>1. Repaired(ini, part) \in BOOLEAN
      BY DEF Repaired
    <3>2. class' \in Class
      BY <2>2, <3>1 DEF EditIni
    <3> QED
      BY <1>1, <2>2, <3>2 DEF EditIni, siteVars, configVars
  <2>3. CASE FindProcess
    <3>1. (phase # "down") \in BOOLEAN
      OBVIOUS
    <3>2. class' \in Class
      BY <2>3, <3>1 DEF FindProcess
    <3> QED
      BY <1>1, <2>3, <3>2 DEF FindProcess, siteVars, configVars
  <2>4. CASE StopPromise \/ StartPromise
    BY <1>1, <2>4 DEF StopPromise, StartPromise, Promise, StillOwed, siteVars, configVars
  <2>5. CASE RestartStop
    BY <1>1, <2>5 DEF RestartStop, StillOwed, siteVars, configVars
  <2>6. CASE RestartStart \/ EndRun
    BY <1>1, <2>6 DEF RestartStart, EndRun, RunOver, siteVars, configVars
  <2> QED
    BY <1>2, <2>1, <2>2, <2>3, <2>4, <2>5, <2>6 DEF Agent
<1>3. CASE Replicator
  <2>1. CASE Replicate
    <3>1. dirty' \in BOOLEAN
      BY <2>1, Zenon DEF Replicate
    <3>2. /\ replicator' = "class" /\ settings' \in Setting
          /\ UNCHANGED <<cfdat, part, undelivered, siteVars, agentVars>>
      BY <2>1 DEF Replicate
    <3> QED
      BY <1>1, <3>1, <3>2 DEF siteVars, agentVars
  <2>2. CASE WriteClass
    <3>1. undelivered' \in BOOLEAN
      BY <2>2, Zenon DEF WriteClass
    <3>2. /\ cfdat' \in BOOLEAN
          /\ UNCHANGED <<dirty, part, siteVars, agentVars>>
      BY <2>2 DEF WriteClass
    <3>3. \/ replicator' = "open" /\ settings' = settings /\ settings # Nil
          \/ replicator' = "idle" /\ settings' = Nil
      BY <2>2, Zenon DEF WriteClass, Replicated
    <3> QED
      BY <1>1, <3>1, <3>2, <3>3 DEF siteVars, agentVars
  <2>3. CASE OpenPart
    BY <1>1, <2>3 DEF OpenPart, siteVars, agentVars
  <2>4. CASE ClosePart
    BY <1>1, <2>4 DEF ClosePart, Replicated, siteVars, agentVars
  <2> QED
    BY <1>3, <2>1, <2>2, <2>3, <2>4 DEF Replicator
<1>4. CASE ProcessRuns \/ InitializationFails \/ ProcessDies \/ ServiceStart
  <2>1. UNCHANGED <<siteVars, configVars, agent, class>> /\ (StillOwed \/ owed' = owed)
    BY <1>4, Zenon DEF ProcessRuns, InitializationFails, ProcessDies, ServiceStart, agentVars
  <2> QED
    BY <1>1, <2>1 DEF StillOwed, siteVars, configVars
<1>5. ASSUME NEW s \in Setting, SaveSettings(s) PROVE TypeOK'
  BY <1>1, <1>5 DEF SaveSettings, agentVars
<1>6. ASSUME NEW stop \in BOOLEAN, NEW restart \in BOOLEAN, StartRun(stop, restart)
      PROVE  TypeOK'
  BY <1>1, <1>6 DEF StartRun, siteVars, configVars
<1>7. CASE SwitchFeature
  BY <1>1, <1>7 DEF SwitchFeature, agentVars
<1>8. CASE ReplicateFails
  <2>1. undelivered' \in BOOLEAN
    BY <1>8, Zenon DEF ReplicateFails
  <2>2. /\ replicator' = "idle" /\ settings' = Nil
        /\ UNCHANGED <<dirty, cfdat, siteVars, agentVars>>
    BY <1>8 DEF ReplicateFails, Replicated
  <2>3. part' \in Usable \cup {Blank}
    <3>1. CASE part' = part
      BY <3>1
    <3>2. ASSUME replicator = "close", NEW n \in Cuts, part' = CutShort(settings, n)
          PROVE  part' \in Usable
      <4>1. settings \in Setting
        BY <3>2
      <4>2. CutShort(settings, n) \in Short
        BY <4>1, ShortOf
      <4> QED
        BY <3>2, <4>2 DEF Usable
    <3>3. part' = part \/ \E n \in Cuts : replicator = "close" /\ part' = CutShort(settings, n)
      BY <1>8, Zenon DEF ReplicateFails
    <3> QED
      BY <3>1, <3>2, <3>3
  <2> QED
    BY <1>1, <2>1, <2>2, <2>3 DEF siteVars, agentVars
<1>9. CASE AgentDies
  BY <1>1, <1>9 DEF AgentDies, RunOver, siteVars, configVars
<1>10. CASE UNCHANGED vars
  BY <1>1, <1>10 DEF vars, siteVars, configVars, agentVars
<1> QED
  BY <1>2, <1>3, <1>4, <1>5, <1>6, <1>7, <1>8, <1>9, <1>10 DEF Next, Undisturbed

\* Types, and what main knows at each point of the start, whatever the agent
\* does to the process and to its file.
THEOREM TypeCorrect == Spec => []TypeOK
  BY InitTypeOK, NextTypeOK, PTL DEF Spec

-----------------------------------------------------------------------------
(* The two versions main has read *)

\* What main has read so far is what the file holds.
Fresh == handlerIni \in {Nil, ini} /\ listenerIni \in {Nil, ini}

\* A run repairs the file only where the feature is on; and a process that runs
\* on older contents is one whose restart is due in this run, or owed since an
\* agent died.
VersionInv ==
  /\ TypeOK
  /\ agent = "edit" => class.sipxsbc
  /\ class.restart_sipxsbc => class.sipxsbc
  /\ phase # "down" => Fresh \/ RestartDue \/ owed

LEMMA InitVersionInv == Init => VersionInv
  BY InitTypeOK DEF Init, ProcessInit, VersionInv, NoClass

\* main and the init script keep what has been read fresh.
LEMMA ProcessFresh ==
  ASSUME Main \/ InitFails \/ Exit \/ Start \/ UNCHANGED <<ini, processVars>>,
         phase # "down" => Fresh, ProcessTypeOK
  PROVE  phase' # "down" => Fresh'
<1> USE DEF Fresh
<1>1. CASE ReadHandlerConfig \/ ReadListenerConfig \/ NoListenerAddress \/ TransportInit
  BY <1>1 DEF ReadHandlerConfig, ReadListenerConfig, NoListenerAddress, Exit, TransportInit
<1>2. CASE InitDataStore \/ LoadScript \/ InitFails \/ RegisterDefaultHandler \/ Run
  BY <1>2 DEF InitDataStore, LoadScript, InitFails, ScriptFails, TransportFails,
     RegisterDefaultHandler, Run, memory
<1>3. CASE Exit
  BY <1>3 DEF Exit
<1>4. CASE Start
  BY <1>4 DEF Start, memory, ProcessTypeOK
<1>5. CASE UNCHANGED <<ini, processVars>>
  BY <1>5 DEF processVars
<1> QED
  BY <1>1, <1>2, <1>3, <1>4, <1>5 DEF Main

LEMMA NextVersionInv == VersionInv /\ [Next]_vars => VersionInv'
<1> SUFFICES ASSUME VersionInv, [Next]_vars PROVE VersionInv'
  OBVIOUS
<1> TypeOK /\ TypeOK'
  BY NextTypeOK DEF VersionInv
<1>1. ASSUME NEW stop \in BOOLEAN, NEW restart \in BOOLEAN, StartRun(stop, restart)
      PROVE  VersionInv'
  <2>1. class'.sipxsbc = cfdat /\ ~class'.restart_sipxsbc
    BY <1>1 DEF StartRun, NoClass
  <2>2. ~RestartDue
    BY <1>1 DEF StartRun, RestartDue
  <2> QED
    BY <1>1, <2>1, <2>2 DEF StartRun, VersionInv, Fresh, processVars
<1>2. CASE EditIni
  <2>1. class' \in Class /\ class'.sipxsbc = class.sipxsbc /\ class.sipxsbc
        /\ class'.restart_sipxsbc = (ini # part)
    BY <1>2 DEF EditIni, VersionInv, TypeOK, Class, Repaired
  <2>2. ~RestartDue
    BY <1>2 DEF EditIni, RestartDue
  <2>3. ini # part => RestartDue'
    BY <1>2, <2>1 DEF EditIni, RestartDue
  <2> QED
    BY <1>2, <2>1, <2>2, <2>3 DEF EditIni, VersionInv, Fresh, processVars
<1>3. CASE FindProcess
  <2>1. /\ class'.sipxsbc = class.sipxsbc /\ class'.restart_sipxsbc = class.restart_sipxsbc
        /\ class'.sipxsbc_running = (phase # "down")
    BY <1>3 DEF FindProcess, TypeOK, Class
  <2>2. RestartDue /\ phase # "down" => RestartDue'
    BY <1>3, <2>1 DEF FindProcess, RestartDue
  <2> QED
    BY <1>3, <2>1, <2>2 DEF FindProcess, VersionInv, Fresh, processVars
<1>4. CASE StopPromise \/ StartPromise
  <2>1. /\ Exit \/ Start \/ UNCHANGED <<ini, processVars>>
        /\ class' = class /\ StillOwed
    BY <1>4 DEF StopPromise, StartPromise, Promise, StartCommand
  <2>2. RestartDue' = RestartDue /\ agent' # "edit"
    BY <1>4 DEF StopPromise, StartPromise, Promise, RestartDue
  <2>3. CASE Fresh \/ phase = "down"
    BY <2>1, <2>2, <2>3, ProcessFresh DEF VersionInv, TypeOK
  <2>4. CASE phase # "down" /\ (RestartDue \/ owed)
    BY <2>1, <2>2, <2>4 DEF VersionInv, StillOwed
  <2> QED
    BY <2>1, <2>3, <2>4 DEF VersionInv
<1>5. CASE RestartStop
  BY <1>5 DEF RestartStop, Exit, VersionInv
<1>6. CASE RestartStart
  <2>1. ~RestartDue /\ class' = NoClass /\ owed' = owed /\ agent' = "idle"
    BY <1>6 DEF RestartStart, RunOver, RestartDue
  <2>2. phase # "down" => Fresh \/ owed
    BY <2>1 DEF VersionInv
  <2>3. Start \/ UNCHANGED <<ini, processVars>>
    BY <1>6 DEF RestartStart, StartCommand
  <2>4. CASE phase # "down" /\ owed
    BY <2>1, <2>4 DEF VersionInv, NoClass
  <2>5. CASE phase # "down" => Fresh
    BY <2>1, <2>3, <2>5, ProcessFresh DEF VersionInv, TypeOK, NoClass
  <2> QED
    BY <2>2, <2>4, <2>5
<1>7. CASE EndRun
  <2>1. /\ class' = NoClass /\ owed' = owed /\ agent' = "idle"
        /\ UNCHANGED <<ini, processVars>> /\ ~RestartWanted /\ agent = "restart"
    BY <1>7 DEF EndRun, RunOver
  <2>2. ~RestartDue
    BY <2>1 DEF RestartWanted, RestartDue, VersionInv
  <2> QED
    BY <2>1, <2>2 DEF VersionInv, Fresh, processVars, NoClass
<1>8. CASE AgentDies
  <2>1. /\ class' = NoClass /\ agent' = "idle"
        /\ UNCHANGED <<ini, processVars>>
    BY <1>8 DEF AgentDies, RunOver
  <2>2. owed \/ (RestartDue /\ phase # "down") => owed'
    BY <1>8 DEF AgentDies
  <2> QED
    BY <2>1, <2>2 DEF VersionInv, Fresh, processVars, NoClass
<1>9. CASE ProcessRuns \/ InitializationFails \/ ProcessDies \/ ServiceStart
  <2>0. phase' # "down" /\ owed => owed'
    BY <1>9, Zenon DEF ProcessRuns, InitializationFails, ProcessDies, ServiceStart, StillOwed,
       agentVars
  <2>1. /\ Main \/ InitFails \/ Exit \/ Start
        /\ class' = class /\ agent' = agent
    BY <1>9 DEF ProcessRuns, InitializationFails, ProcessDies, ServiceStart, Die, agentVars
  <2>2. RestartDue' = RestartDue
    BY <2>1 DEF RestartDue
  <2>3. CASE phase # "down" => Fresh
    BY <2>1, <2>2, <2>3, ProcessFresh DEF VersionInv, TypeOK
  <2>4. CASE phase # "down" /\ (RestartDue \/ owed)
    BY <2>0, <2>1, <2>2, <2>4 DEF VersionInv
  <2> QED
    BY <2>3, <2>4 DEF VersionInv
<1>10. ASSUME UNCHANGED <<ini, processVars, agentVars>> PROVE VersionInv'
  BY <1>10 DEF VersionInv, Fresh, RestartDue, processVars, agentVars
<1>11. CASE Replicator
  BY <1>10, <1>11 DEF Replicator, Replicate, WriteClass, OpenPart, ClosePart
<1>12. ASSUME NEW s \in Setting, SaveSettings(s) PROVE VersionInv'
  BY <1>10, <1>12 DEF SaveSettings
<1>13. CASE SwitchFeature \/ ReplicateFails \/ UNCHANGED vars
  BY <1>10, <1>13 DEF SwitchFeature, ReplicateFails, vars
<1> QED
  BY <1>1, <1>2, <1>3, <1>4, <1>5, <1>6, <1>7, <1>8, <1>9, <1>11, <1>12, <1>13
  DEF Next, Undisturbed, Agent

THEOREM VersionInvAlways == Spec => []VersionInv
  BY InitVersionInv, NextVersionInv, PTL DEF Spec

\* Between two runs of the agent no process is left that works with other
\* settings than those in the file, unless an agent died and owes it a restart.
THEOREM OneVersion == Spec => []RunsOnOneVersion
<1>1. VersionInv => RunsOnOneVersion
  BY DEF VersionInv, RunsOnOneVersion, RestartDue, Fresh
<1> QED
  BY <1>1, VersionInvAlways, PTL

-----------------------------------------------------------------------------
(* What replicate leaves behind *)

\* Unless another deployment has been asked for, replicate works with the saved
\* settings and, once it has written the class, with the feature as it is.
PartInv ==
  /\ PartIsCurrent
  /\ replicator # "idle" /\ ~dirty => settings = saved
  /\ replicator \in {"open", "close"} /\ ~dirty => enabled /\ cfdat = enabled

LEMMA InitPartInv == Init => PartInv
  BY DEF Init, PartInv, PartIsCurrent

LEMMA NextPartInv == TypeOK /\ PartInv /\ [Next]_vars => PartInv'
<1> SUFFICES ASSUME TypeOK, PartInv, [Next]_vars PROVE PartInv'
  OBVIOUS
<1> USE DEF PartInv, PartIsCurrent
<1>1. CASE Replicate
  BY <1>1 DEF Replicate, siteVars
<1>2. CASE WriteClass
  BY <1>2 DEF WriteClass, Replicated, siteVars
<1>3. CASE OpenPart
  BY <1>3 DEF OpenPart, siteVars
<1>4. CASE ClosePart
  BY <1>4 DEF ClosePart, Replicated, siteVars
<1>5. CASE ReplicateFails
  BY <1>5 DEF ReplicateFails, Replicated, siteVars
<1>6. ASSUME NEW s \in Setting, SaveSettings(s) PROVE PartInv'
  BY <1>6 DEF SaveSettings
<1>7. CASE SwitchFeature
  BY <1>7 DEF SwitchFeature
<1>8. ASSUME UNCHANGED <<siteVars, configVars>> PROVE PartInv'
  BY <1>8 DEF siteVars, configVars
<1>9. CASE Agent
  BY <1>8, <1>9 DEF Agent, StartRun, EditIni, FindProcess, StopPromise, StartPromise,
     Promise, RestartStop, RestartStart, EndRun
<1>10. ASSUME NEW stop \in BOOLEAN, NEW restart \in BOOLEAN, StartRun(stop, restart)
       PROVE  PartInv'
  BY <1>8, <1>10 DEF StartRun
<1>11. CASE AgentDies \/ ProcessRuns \/ InitializationFails \/ ProcessDies \/ ServiceStart
             \/ UNCHANGED vars
  BY <1>8, <1>11 DEF AgentDies, ProcessRuns, InitializationFails, ProcessDies, ServiceStart, vars
<1> QED
  BY <1>1, <1>2, <1>3, <1>4, <1>5, <1>6, <1>7, <1>9, <1>10, <1>11
  DEF Next, Undisturbed, Replicator

\* When replicate has nothing left to do and has not failed, what it has left for
\* the agent is what was saved, for all the saves that overtook it.
THEOREM PartCurrent == Spec => []PartIsCurrent
<1>1. PartInv => PartIsCurrent
  BY DEF PartInv
<1> QED
  BY <1>1, InitPartInv, NextPartInv, TypeCorrect, PTL DEF Spec

-----------------------------------------------------------------------------
(* A deployed SBC stays as it is *)

\* Classes do not outlive the run they were set in.
ClassInv == agent = "idle" => class = NoClass

LEMMA InitClassInv == Init => ClassInv
  BY DEF Init, ClassInv

LEMMA NextClassInv == ClassInv /\ [Next]_vars => ClassInv'
<1> SUFFICES ASSUME ClassInv, [Next]_vars PROVE ClassInv'
  OBVIOUS
<1> USE DEF ClassInv
<1>1. ASSUME UNCHANGED <<agent, class>> PROVE ClassInv'
  BY <1>1
<1>2. ASSUME NEW stop \in BOOLEAN, NEW restart \in BOOLEAN, StartRun(stop, restart)
      PROVE  ClassInv'
  BY <1>2 DEF StartRun
<1>3. CASE EditIni \/ FindProcess \/ StopPromise \/ StartPromise \/ RestartStop
  BY <1>3 DEF EditIni, FindProcess, StopPromise, StartPromise, Promise, RestartStop
<1>4. CASE RestartStart \/ EndRun \/ AgentDies
  BY <1>4 DEF RestartStart, EndRun, AgentDies, RunOver
<1>5. CASE Replicator
  BY <1>1, <1>5 DEF Replicator, Replicate, WriteClass, OpenPart, ClosePart, agentVars
<1>6. ASSUME NEW s \in Setting, SaveSettings(s) PROVE ClassInv'
  BY <1>1, <1>6 DEF SaveSettings, agentVars
<1>7. CASE \/ SwitchFeature \/ ReplicateFails \/ ProcessRuns \/ InitializationFails
           \/ ProcessDies \/ ServiceStart \/ UNCHANGED vars
  BY <1>1, <1>7 DEF SwitchFeature, ReplicateFails, ProcessRuns, InitializationFails, ProcessDies,
     ServiceStart, agentVars, vars
<1> QED
  BY <1>2, <1>3, <1>4, <1>5, <1>6, <1>7 DEF Next, Undisturbed, Agent

\* The agent finds the file right and the process as it should be; nobody else has
\* anything to do.
LEMMA SettledStays ==
  ASSUME VersionInv, Settled, Undisturbed
  PROVE  Settled'
<1> USE DEF Settled, Deployed
<1> TypeOK
  BY DEF VersionInv
<1>1. CASE StartRun(FALSE, FALSE)
  <2>1. /\ class'.sipxsbc = cfdat /\ ~class'.stop_sipxecs /\ ~class'.restart_sipxecs
        /\ ~class'.restart_sipxsbc
    BY <1>1 DEF StartRun, NoClass
  <2>2. agent' \in {"edit", "scan"}
    BY <1>1 DEF StartRun
  <2> QED
    BY <1>1, <2>1, <2>2 DEF StartRun, siteVars, configVars, processVars
<1>2. CASE EditIni
  <2>1. enabled /\ ini = part
    BY <1>2 DEF EditIni, VersionInv
  <2>2. class' = [class EXCEPT !.restart_sipxsbc = FALSE]
    BY <1>2, <2>1 DEF EditIni, Repaired
  <2>3. /\ class'.sipxsbc = class.sipxsbc /\ ~class'.restart_sipxsbc
        /\ class'.stop_sipxecs = class.stop_sipxecs
        /\ class'.restart_sipxecs = class.restart_sipxecs
    BY <2>2 DEF TypeOK, Class
  <2> QED
    BY <1>2, <2>1, <2>3 DEF EditIni, siteVars, configVars, processVars
<1>3. CASE FindProcess
  <2>1. /\ class'.sipxsbc = class.sipxsbc /\ class'.sipxsbc_running = (phase # "down")
        /\ class'.stop_sipxecs = class.stop_sipxecs
        /\ class'.restart_sipxecs = class.restart_sipxecs
        /\ class'.restart_sipxsbc = class.restart_sipxsbc
    BY <1>3 DEF FindProcess, TypeOK, Class
  <2>2. (phase # "down") = enabled
    BY DEF TypeOK
  <2> QED
    BY <1>3, <2>1, <2>2 DEF FindProcess, siteVars, configVars, processVars
<1>4. CASE StopPromise \/ StartPromise
  <2>1. ~StopWanted /\ (agent = "start" => ~StartWanted)
    BY <1>4 DEF StopPromise, StartPromise, Promise, StopWanted, StartWanted
  <2>2. /\ UNCHANGED <<ini, processVars, siteVars, configVars, class>> /\ StillOwed
        /\ agent \in {"stop", "start"} /\ agent' \in {"start", "restart"}
    BY <1>4, <2>1 DEF StopPromise, StartPromise, Promise
  <2> QED
    BY <2>2 DEF StillOwed, siteVars, configVars, processVars
<1>5. CASE RestartStop \/ RestartStart
  BY <1>5 DEF RestartStop, RestartStart, RestartWanted
<1>6. CASE EndRun
  BY <1>6 DEF EndRun, RunOver, NoClass, siteVars, configVars, processVars
<1>7. CASE Replicator
  BY <1>7 DEF Replicator, Replicate, WriteClass, OpenPart, ClosePart
<1>8. CASE ProcessRuns
  BY <1>8 DEF ProcessRuns, Main, InitDataStore, ReadHandlerConfig, LoadScript,
     RegisterDefaultHandler, ReadListenerConfig, NoListenerAddress, TransportInit, Run
<1> QED
  BY <1>1, <1>2, <1>3, <1>4, <1>5, <1>6, <1>7, <1>8 DEF Undisturbed, Agent

\* No run of the agent, at whatever point one is when the deployment comes to its
\* end, disturbs an SBC that serves with the settings saved last, nor starts one
\* that is disabled.
THEOREM DeployedKept == Spec => DeployedIsKept
<1>1. VersionInv /\ [Next]_vars => [Settled /\ Undisturbed => Settled']_vars
  BY SettledStays
<1> QED
  BY <1>1, VersionInvAlways, PTL DEF Spec, DeployedIsKept

-----------------------------------------------------------------------------
(* The detailed deployment implements the contract *)

\* A process that main, the init script or a command moves reads the file as it is,
\* or comes to an end, or shows nothing of what it does.
LEMMA ProcessLives ==
  ASSUME ProcessTypeOK, Main \/ InitFails \/ Exit \/ Start \/ UNCHANGED <<ini, processVars>>
  PROVE  /\ ini' = ini
         /\ Contract!Live \/ UNCHANGED <<Stage, Uses>>
<1> USE Distinct DEF ProcessTypeOK, Phase, Stage, Uses, Contract!Live
<1>1. CASE InitDataStore \/ LoadScript \/ InitFails \/ RegisterDefaultHandler
  BY <1>1 DEF InitDataStore, LoadScript, InitFails, ScriptFails, TransportFails,
     RegisterDefaultHandler, memory
<1>2. CASE ReadHandlerConfig \/ ReadListenerConfig
  <2>1. Contract!Read
    BY <1>2 DEF ReadHandlerConfig, ReadListenerConfig, Contract!Read
  <2> QED
    BY <1>2, <2>1 DEF ReadHandlerConfig, ReadListenerConfig
<1>3. CASE NoListenerAddress \/ Exit
  BY <1>3 DEF NoListenerAddress, Exit, Contract!Stop
<1>4. CASE TransportInit
  BY <1>4 DEF TransportInit
<1>5. CASE Run
  BY <1>5 DEF Run, memory, Contract!Serve
<1>6. CASE Start
  BY <1>6 DEF Start, memory, Contract!Start
<1>7. CASE UNCHANGED <<ini, processVars>>
  BY <1>7 DEF processVars
<1> QED
  BY <1>1, <1>2, <1>3, <1>4, <1>5, <1>6, <1>7 DEF Main

\* A settled location shows that it serves with what is wanted, and nothing else.
LEMMA SettledShows ==
  TypeOK /\ Settled =>
    Uses = Wanted /\ Stage = IF Wanted = {} THEN "down" ELSE "serving"
  BY Distinct DEF TypeOK, ProcessTypeOK, Settled, Deployed, Uses, Wanted, Stage

\* No agent goes away from a process that works with another version of the file.
LEMMA AtRest == VersionInv /\ ~UnderRepair => Uses \subseteq {ini}
  BY DEF VersionInv, TypeOK, ProcessTypeOK, UnderRepair, Uses, Fresh, RestartDue

\* What is to be shown of a step that leaves the file and the wishes alone.
LEMMA StepProceeds ==
  ASSUME VersionInv, VersionInv', UNCHANGED <<ini, siteVars>>,
         Contract!Live \/ UNCHANGED <<Stage, Uses>>,
         UnderRepair' => UnderRepair, Ordered' => Ordered, Settled => Settled'
  PROVE  Contract!Proceed
<1>1. Wanted' = Wanted
  BY DEF Wanted, siteVars
<1>2. Settled' =>
        Uses' = Wanted' /\ Stage' = IF Wanted' = {} THEN "down" ELSE "serving"
  <2>1. (TypeOK /\ Settled =>
           Uses = Wanted /\ Stage = IF Wanted = {} THEN "down" ELSE "serving")'
    BY SettledShows, PTL
  <2> QED
    BY <2>1 DEF VersionInv
<1>3. ~UnderRepair' => Uses' \subseteq {ini'}
  <2>1. (VersionInv /\ ~UnderRepair => Uses \subseteq {ini})'
    BY AtRest, PTL
  <2> QED
    BY <2>1
<1>4. Settled => UNCHANGED <<Stage, Uses, Settled>>
  BY <1>1, <1>2, SettledShows DEF VersionInv
<1> QED
  BY <1>1, <1>2, <1>3, <1>4 DEF Contract!Proceed, Contract!MaySettle, Contract!MayRest


LEMMA InitContract == Init => Contract!Init
<1> SUFFICES ASSUME Init PROVE Contract!Init
  OBVIOUS
<1>1. /\ ini = NoFile /\ phase = "down" /\ handlerIni = Nil /\ listenerIni = Nil
      /\ saved \in Setting /\ dirty /\ agent = "idle" /\ ~owed /\ class = NoClass
  BY Zenon DEF Init, ProcessInit
<1>2. ~UnderRepair /\ ~Ordered /\ ~Settled
  BY <1>1 DEF UnderRepair, Ordered, Settled, NoClass
<1>3. Wanted \in SUBSET Setting
  BY <1>1 DEF Wanted
<1>4. Stage = "down" /\ Uses = {}
  BY <1>1 DEF Stage, Uses
<1> QED
  BY <1>1, <1>2, <1>3, <1>4 DEF Contract!Init

\* What a location shows depends on the file, the process and the wishes only.
LEMMA SameLocation ==
  /\ UNCHANGED processVars => UNCHANGED <<Stage, Uses>>
  /\ UNCHANGED siteVars => Wanted' = Wanted
  /\ UNCHANGED <<agent, owed>> => UnderRepair' = UnderRepair
  /\ UNCHANGED class => Ordered' = Ordered
  BY DEF processVars, siteVars, Stage, Uses, Wanted, UnderRepair, Ordered

LEMMA ChangeContract ==
  ASSUME TypeOK, SwitchFeature \/ \E s \in Setting : SaveSettings(s)
  PROVE  Contract!Change
<1>1. /\ UNCHANGED <<ini, processVars, agent, owed, class>>
      /\ dirty' /\ saved' \in Setting
  BY DEF SwitchFeature, SaveSettings, agentVars, TypeOK
<1>2. ~Settled' /\ Wanted' \in SUBSET Setting
  BY <1>1 DEF Settled, Wanted
<1> QED
  BY <1>1, <1>2, SameLocation DEF Contract!Change

\* A run that begins finds a settled location settled, unless it comes with an order.
LEMMA RunContract ==
  ASSUME VersionInv, ClassInv, NEW stop \in BOOLEAN, NEW restart \in BOOLEAN,
         StartRun(stop, restart)
  PROVE  Contract!StartRun
<1>1. /\ UNCHANGED <<ini, processVars, siteVars, configVars, owed>>
      /\ agent = "idle" /\ agent' \in {"edit", "scan"} /\ class = NoClass
      /\ class'.sipxsbc = cfdat /\ class'.stop_sipxecs = stop
      /\ class'.restart_sipxecs = restart /\ ~class'.restart_sipxsbc
  BY DEF StartRun, ClassInv, NoClass
<1>2. UnderRepair' /\ Ordered' = (stop \/ restart)
  BY <1>1 DEF UnderRepair, Ordered
<1>3. Settled' = (Settled /\ ~Ordered')
  BY <1>1, <1>2 DEF Settled, Deployed, NoClass, siteVars, configVars, processVars
<1> QED
  BY <1>1, <1>2, <1>3, SameLocation DEF Contract!StartRun

\* An agent changes only the file of a location that has not settled.
LEMMA InstallContract ==
  ASSUME VersionInv, TypeOK', EditIni, ini' # ini
  PROVE  Contract!Install
<1>1. /\ UNCHANGED <<processVars, siteVars, configVars, owed>>
      /\ agent = "edit" /\ agent' = "scan" /\ class.sipxsbc /\ ini' = part /\ ini # part
      /\ class'.restart_sipxsbc /\ class'.stop_sipxecs = class.stop_sipxecs
      /\ class'.restart_sipxecs = class.restart_sipxecs
  BY DEF EditIni, Repaired, VersionInv, TypeOK, Class
<1>2. UnderRepair /\ UnderRepair' /\ Ordered' = Ordered
  BY <1>1 DEF UnderRepair, Ordered
<1>3. ~Settled /\ ~Settled'
  BY <1>1 DEF Settled
<1>4. ini' \in Usable \cup {NoFile, Blank}
  BY DEF TypeOK, ProcessTypeOK
<1> QED
  BY <1>1, <1>2, <1>3, <1>4, SameLocation DEF Contract!Install

\* A process that dies, or that somebody starts, unsettles the location at most.
LEMMA FailContract ==
  ASSUME VersionInv, VersionInv', ProcessDies \/ ServiceStart
  PROVE  Contract!Proceed \/ Contract!Fail
<1>1. /\ UNCHANGED <<ini, siteVars, agent, class>>
      /\ owed' => owed
      /\ Start \/ (phase # "down" /\ Exit)
  <2>1. owed' => owed
    BY Zenon DEF ProcessDies, ServiceStart, StillOwed, agentVars
  <2>2. UNCHANGED <<ini, siteVars, agent, class>>
    BY DEF ProcessDies, ServiceStart, Die, Exit, Start, agentVars
  <2> QED
    BY <2>1, <2>2, Zenon DEF ProcessDies, ServiceStart, Die
<1>2. Contract!Live \/ UNCHANGED <<Stage, Uses>>
  BY <1>1, ProcessLives DEF VersionInv, TypeOK
<1>3. (UnderRepair' => UnderRepair) /\ (Ordered' => Ordered)
  BY <1>1 DEF UnderRepair, Ordered
<1>4. CASE Settled => Settled'
  BY <1>1, <1>2, <1>3, <1>4, StepProceeds
<1>5. CASE Settled /\ ~Settled'
  <2>1. Contract!Stop \/ Contract!Start
    BY <1>1, Distinct DEF Start, Exit, memory, VersionInv, TypeOK, ProcessTypeOK, Phase, Stage,
       Uses, Contract!Stop, Contract!Start
  <2>2. ~UnderRepair' => Uses' \subseteq {ini'}
    <3>1. (VersionInv /\ ~UnderRepair => Uses \subseteq {ini})'
      BY AtRest, PTL
    <3> QED
      BY <3>1
  <2> QED
    BY <1>1, <1>3, <1>5, <2>1, <2>2, SameLocation DEF Contract!Fail, Contract!MayRest
<1> QED
  BY <1>4, <1>5


\* The other steps: of replicate, of the agent and of main, and their failures.
LEMMA ProceedContract ==
  ASSUME VersionInv, VersionInv',
         Undisturbed \/ ReplicateFails \/ AgentDies \/ InitializationFails,
         ~StartRun(FALSE, FALSE), ini' = ini
  PROVE  Contract!Proceed
<1>1. Main \/ InitFails \/ Exit \/ Start \/ UNCHANGED <<ini, processVars>>
  <2>1. CASE EditIni
    BY <2>1 DEF EditIni
  <2>2. CASE ~EditIni
    BY <2>2, ProcessPart DEF Next
  <2> QED
    BY <2>1, <2>2
<1>2. Contract!Live \/ UNCHANGED <<Stage, Uses>>
  BY <1>1, ProcessLives DEF VersionInv, TypeOK
<1>3. UnderRepair' => UnderRepair
  <2>1. CASE EditIni \/ FindProcess \/ RestartStart \/ EndRun \/ AgentDies
    BY <2>1 DEF EditIni, FindProcess, RestartStart, EndRun, AgentDies, UnderRepair
  <2>2. CASE StopPromise \/ StartPromise \/ RestartStop
    BY <2>2 DEF StopPromise, StartPromise, Promise, RestartStop, UnderRepair
  <2>3. CASE ProcessRuns \/ InitializationFails
    <3>1. agent' = agent /\ (owed' => owed)
      BY <2>3, Zenon DEF ProcessRuns, InitializationFails, StillOwed
    <3> QED
      BY <3>1 DEF UnderRepair
  <2>4. CASE Replicator \/ ReplicateFails
    BY <2>4 DEF Replicator, Replicate, WriteClass, OpenPart, ClosePart, ReplicateFails,
       UnderRepair, agentVars
  <2> QED
    BY <2>1, <2>2, <2>3, <2>4 DEF Undisturbed, Agent
<1>4. Ordered' => Ordered
  <2>1. CASE EditIni \/ FindProcess
    BY <2>1 DEF EditIni, FindProcess, Ordered, VersionInv, TypeOK, Class
  <2>2. CASE \/ StopPromise \/ StartPromise \/ RestartStop
             \/ ProcessRuns \/ InitializationFails
    BY <2>2 DEF StopPromise, StartPromise, Promise, RestartStop, ProcessRuns,
       InitializationFails, Ordered
  <2>3. CASE RestartStart \/ EndRun \/ AgentDies
    <3>1. class' = NoClass
      BY <2>3, Zenon DEF RestartStart, EndRun, AgentDies, RunOver
    <3> QED
      BY <3>1 DEF NoClass, Ordered
  <2>4. CASE Replicator \/ ReplicateFails
    BY <2>4 DEF Replicator, Replicate, WriteClass, OpenPart, ClosePart, ReplicateFails,
       Ordered, agentVars
  <2> QED
    BY <2>1, <2>2, <2>3, <2>4 DEF Undisturbed, Agent
<1>5. Settled => Settled'
  <2>1. CASE Undisturbed
    BY <2>1, SettledStays
  <2>2. CASE ReplicateFails
    BY <2>2 DEF ReplicateFails, Settled
  <2>3. CASE AgentDies
    BY <2>3 DEF AgentDies, RunOver, RestartDue, NoClass, Settled, Deployed, siteVars, configVars,
       processVars
  <2>4. CASE InitializationFails
    BY <2>4 DEF InitializationFails, InitFails, ScriptFails, TransportFails, Settled, Deployed,
       StillOwed, memory, siteVars, configVars
  <2> QED
    BY <2>1, <2>2, <2>3, <2>4
<1>6. UNCHANGED <<ini, siteVars>>
  BY DEF Undisturbed, Agent, EditIni, FindProcess, StopPromise, StartPromise, Promise,
     RestartStop, RestartStart, EndRun, Replicator, Replicate, WriteClass, OpenPart, ClosePart,
     ProcessRuns, ReplicateFails, AgentDies, InitializationFails
<1> QED
  BY <1>2, <1>3, <1>4, <1>5, <1>6, StepProceeds

LEMMA ContractStep ==
  VersionInv /\ VersionInv' /\ ClassInv /\ [Next]_vars => [Contract!Next]_(Contract!vars)
<1> SUFFICES ASSUME VersionInv, VersionInv', ClassInv, [Next]_vars
             PROVE  Contract!Next \/ UNCHANGED Contract!vars
  OBVIOUS
<1>1. CASE SwitchFeature \/ \E s \in Setting : SaveSettings(s)
  BY <1>1, ChangeContract DEF VersionInv, Contract!Next
<1>2. ASSUME NEW stop \in BOOLEAN, NEW restart \in BOOLEAN, StartRun(stop, restart)
      PROVE  Contract!Next
  BY <1>2, RunContract DEF Contract!Next
<1>3. CASE ProcessDies \/ ServiceStart
  BY <1>3, FailContract DEF Contract!Next
<1>4. CASE Undisturbed \/ ReplicateFails \/ AgentDies \/ InitializationFails
  <2>1. CASE StartRun(FALSE, FALSE)
    BY <1>2, <2>1
  <2>2. CASE ini' = ini /\ ~StartRun(FALSE, FALSE)
    BY <1>4, <2>2, ProceedContract DEF Contract!Next
  <2>3. CASE ini' # ini /\ ~StartRun(FALSE, FALSE)
    <3>1. EditIni
      <4> SUFFICES ASSUME ~EditIni PROVE FALSE
        OBVIOUS
      <4>1. Main \/ InitFails \/ Exit \/ Start \/ UNCHANGED <<ini, processVars>>
        BY ProcessPart
      <4> QED
        BY <2>3, <4>1, ProcessLives DEF VersionInv, TypeOK
    <3> QED
      BY <2>3, <3>1, InstallContract DEF VersionInv, Contract!Next
  <2> QED
    BY <2>1, <2>2, <2>3
<1>5. CASE UNCHANGED vars
  <2>1. UNCHANGED <<ini, processVars, siteVars, configVars, agentVars>>
    BY <1>5 DEF vars
  <2>2. UNCHANGED <<Stage, Uses, Wanted, UnderRepair, Ordered, Settled>>
    BY <2>1 DEF processVars, siteVars, configVars, agentVars, Stage, Uses, Wanted, UnderRepair,
       Ordered, Settled, Deployed
  <2> QED
    BY <2>1, <2>2 DEF Contract!vars
<1> QED
  BY <1>1, <1>2, <1>3, <1>4, <1>5 DEF Next

\* main takes settings only from the file as it is, no agent goes away from a process
\* that works with others, and a location that has settled stays so until somebody
\* wants something else of it or the process dies.
THEOREM DeployKeepsContract == Spec => KeepsContract
<1>1. Spec => []VersionInv /\ []ClassInv
  BY VersionInvAlways, InitClassInv, NextClassInv, PTL DEF Spec
<1> QED
  BY <1>1, InitContract, ContractStep, PTL DEF Spec, KeepsContract, Contract!Spec

=============================================================================
