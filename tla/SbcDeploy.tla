------------------------------- MODULE SbcDeploy -------------------------------
(***************************************************************************)
(* How settings that an administrator saves reach the sipxsbc process of   *)
(* one location.  Four actors run concurrently:                            *)
(*   - the administrator saves settings and enables or disables the        *)
(*     feature (SipxsbcSettings, SipxsbcImpl);                             *)
(*   - sipXconfig replicates: SipxsbcConfig.replicate writes the cfengine  *)
(*     class of the location and the settings part of its ini file;        *)
(*   - the cfengine agent runs the promises of etc/sipxsbc.cf: it rebuilds *)
(*     sipxsbc.ini and stops, starts or restarts the process;              *)
(*   - the process itself, SbcProcess.                                     *)
(*                                                                         *)
(* replicate works through a set of locations; the model shows the one it  *)
(* deploys to, and a failure at an earlier one as a failure of replicate   *)
(* before it has reached this one.                                         *)
(***************************************************************************)
EXTENDS SbcProcess

CONSTANT Disturbance  \* what an instance lets happen, of the following
ASSUME DisturbanceAssumption ==
  Disturbance \subseteq {"save", "switch", "sipxecs", "service start",
                         "replicate fails", "agent dies", "process dies", "init fails"}

VARIABLES
  saved,     \* the settings in the database
  enabled,   \* the feature is enabled at the location
  dirty,     \* a deployment has been asked for
  replicator,  \* where SipxsbcConfig.replicate is
  settings,  \* the settings replicate works with, Nil outside of it
  cfdat,     \* sipxsbc.cfdat defines the class sipxsbc
  part,      \* the contents of sipxsbc.ini.part, Blank when it has none
  agent,     \* where the agent's run is
  class,     \* the cfengine classes of the run
  owed,      \* history: an agent died and left a restart undone
  undelivered  \* history: the last replicate failed

siteVars == <<saved, enabled>>
configVars == <<dirty, replicator, settings, cfdat, part, undelivered>>
agentVars == <<agent, class, owed>>
vars == <<ini, processVars, siteVars, configVars, agentVars>>

Class == [sipxsbc : BOOLEAN, stop_sipxecs : BOOLEAN, restart_sipxecs : BOOLEAN,
          restart_sipxsbc : BOOLEAN, sipxsbc_running : BOOLEAN]

NoClass == [sipxsbc |-> FALSE, stop_sipxecs |-> FALSE, restart_sipxecs |-> FALSE,
            restart_sipxsbc |-> FALSE, sipxsbc_running |-> FALSE]

Init ==
  /\ ProcessInit
  /\ saved \in Setting
  /\ enabled \in BOOLEAN
  /\ dirty = TRUE
  /\ replicator = "idle"
  /\ settings = Nil
  /\ cfdat = FALSE
  /\ part = Blank
  /\ agent = "idle"
  /\ class = NoClass
  /\ owed = FALSE
  /\ undelivered = FALSE

-----------------------------------------------------------------------------
(* The administrator *)

\* A save is an upsert that asks for a deployment of the affected features.
SaveSettings(s) ==
  /\ "save" \in Disturbance
  /\ saved' = s
  /\ dirty' = TRUE
  /\ UNCHANGED <<ini, processVars, enabled, replicator, settings, cfdat, part,
                 undelivered, agentVars>>

SwitchFeature ==
  /\ "switch" \in Disturbance
  /\ enabled' = ~enabled
  /\ dirty' = TRUE
  /\ UNCHANGED <<ini, processVars, saved, replicator, settings, cfdat, part,
                 undelivered, agentVars>>

-----------------------------------------------------------------------------
(* SipxsbcConfig.replicate *)

\* The settings are read once, before the loop over the locations.
Replicate ==
  /\ replicator = "idle"
  /\ dirty
  /\ dirty' = FALSE
  /\ settings' = saved
  /\ replicator' = "class"
  /\ UNCHANGED <<ini, processVars, siteVars, cfdat, part, undelivered, agentVars>>

\* replicate returns, or an exception ends it.
Replicated == replicator' = "idle" /\ settings' = Nil

WriteClassIfNew ==
  /\ replicator = "class"
  /\ cfdat' = enabled
  /\ \/ /\ enabled /\ ~cfdat
        /\ replicator' = "open"
        /\ UNCHANGED <<settings, undelivered>>
     \/ /\ ~enabled \/ cfdat
        /\ Replicated
        /\ undelivered' = FALSE
  /\ UNCHANGED <<ini, processVars, siteVars, dirty, part, agentVars>>

\* enableCfengineClass; a location without the feature gets nothing else.
WriteClass ==
  /\ replicator = "class"
  /\ cfdat' = enabled
  /\ \/ /\ enabled
        /\ replicator' = "open"
        /\ UNCHANGED <<settings, undelivered>>
     \/ /\ ~enabled
        /\ Replicated
        /\ undelivered' = FALSE
  /\ UNCHANGED <<ini, processVars, siteVars, dirty, part, agentVars>>

\* new FileWriter truncates the part.
OpenPart ==
  /\ replicator = "open"
  /\ part' = Blank
  /\ replicator' = "close"
  /\ UNCHANGED <<ini, processVars, siteVars, dirty, settings, cfdat, undelivered,
                 agentVars>>

\* What has been written reaches the file when it is closed.
ClosePart ==
  /\ replicator = "close"
  /\ part' = settings
  /\ undelivered' = FALSE
  /\ Replicated
  /\ UNCHANGED <<ini, processVars, siteVars, dirty, cfdat, agentVars>>

\* An IOException anywhere in the loop, or one that closeQuietly hides: some of what
\* was to be written may have reached the part, with or without the addresses.
ReplicateFails ==
  /\ "replicate fails" \in Disturbance
  /\ replicator # "idle"
  /\ \/ part' = part
     \/ replicator = "close" /\ part' \in {CutShort(settings, n) : n \in Cuts}
  /\ undelivered' = TRUE
  /\ Replicated
  /\ UNCHANGED <<ini, processVars, siteVars, dirty, cfdat, agentVars>>

-----------------------------------------------------------------------------
(* The cfengine agent *)

\* A run begins: the periodic one, or sipxecs stopping or restarting everything.
StartRun(stop, restart) ==
  /\ agent = "idle"
  /\ stop \/ restart => "sipxecs" \in Disturbance
  /\ class' = [NoClass EXCEPT !.sipxsbc = cfdat, !.stop_sipxecs = stop,
                              !.restart_sipxecs = restart]
  /\ agent' = IF cfdat THEN "edit" ELSE "scan"
  /\ UNCHANGED <<ini, processVars, siteVars, configVars, owed>>

RepairedNothing(old, new) == FALSE

RepairedAlways(old, new) == TRUE

\* if_repaired: the class is set when the edit has changed the file.
Repaired(old, new) == old # new

\* sipxsbc_ini_contents: everything is deleted and the part inserted anew.
EditIni ==
  /\ agent = "edit"
  /\ ini' = part
  /\ class' = [class EXCEPT !.restart_sipxsbc = Repaired(ini, part)]
  /\ agent' = "scan"
  /\ UNCHANGED <<processVars, siteVars, configVars, owed>>

\* find_sipxservice_by_command.
FindProcess ==
  /\ agent = "scan"
  /\ class' = [class EXCEPT !.sipxsbc_running = phase # "down"]
  /\ agent' = "stop"
  /\ UNCHANGED <<ini, processVars, siteVars, configVars, owed>>

StopAllWanted == class.stop_sipxecs /\ class.sipxsbc_running

\* The class expressions of the three commands promises.
StopWanted == (~class.sipxsbc \/ class.stop_sipxecs) /\ class.sipxsbc_running
StartWanted == class.sipxsbc /\ ~class.sipxsbc_running /\ ~class.stop_sipxecs
RestartWanted == /\ class.sipxsbc
                 /\ class.sipxsbc_running
                 /\ class.restart_sipxsbc \/ class.restart_sipxecs

\* The restart an agent has left undone is owed no more once the process that
\* should have been restarted is gone.
StillOwed == owed' = (owed /\ phase' # "down")

\* One commands promise: the command it runs if its classes are defined.
Promise(from, wanted, Command, to) ==
  /\ agent = from
  /\ \/ wanted /\ Command
     \/ ~wanted /\ UNCHANGED <<ini, processVars>>
  /\ agent' = to
  /\ StillOwed
  /\ UNCHANGED <<siteVars, configVars, class>>

StopPromise == Promise("stop", StopWanted, Exit, "start")

\* The command of the start promise; a process that is up meanwhile stays.
StartCommand == Start \/ (phase # "down" /\ UNCHANGED <<ini, processVars>>)

StartPromise == Promise("start", StartWanted, StartCommand, "restart")

\* Classes do not outlive the run they were set in.
RunOver == agent' = "idle" /\ class' = NoClass

RestartWithoutStop ==
  /\ agent = "restart"
  /\ RestartWanted
  /\ agent' = "restarting"
  /\ UNCHANGED <<ini, processVars, siteVars, configVars, class, owed>>

\* restart of the init script is stop and then start.
RestartStop ==
  /\ agent = "restart"
  /\ RestartWanted
  /\ Exit
  /\ agent' = "restarting"
  /\ StillOwed
  /\ UNCHANGED <<siteVars, configVars, class>>

RestartStart ==
  /\ agent = "restarting"
  /\ StartCommand
  /\ RunOver
  /\ UNCHANGED <<siteVars, configVars, owed>>

EndRun ==
  /\ agent = "restart"
  /\ ~RestartWanted
  /\ RunOver
  /\ UNCHANGED <<ini, processVars, siteVars, configVars, owed>>

\* The agent has changed the file and not yet restarted the process that runs.
RestartDue ==
  /\ class.restart_sipxsbc
  /\ \/ agent = "scan"
     \/ agent \in {"stop", "start", "restart"} /\ class.sipxsbc_running

\* The agent dies: a later run does not know what this one has repaired.
AgentDies ==
  /\ "agent dies" \in Disturbance
  /\ agent # "idle"
  /\ RunOver
  /\ owed' = (owed \/ (RestartDue /\ phase # "down"))
  /\ UNCHANGED <<ini, processVars, siteVars, configVars>>

-----------------------------------------------------------------------------
(* The process *)

ProcessRuns ==
  /\ Main
  /\ StillOwed
  /\ UNCHANGED <<siteVars, configVars, agent, class>>

\* Main goes on with what it has.
InitializationFails ==
  /\ "init fails" \in Disturbance
  /\ InitFails
  /\ StillOwed
  /\ UNCHANGED <<siteVars, configVars, agent, class>>

ProcessDies ==
  /\ "process dies" \in Disturbance
  /\ Die
  /\ StillOwed
  /\ UNCHANGED <<siteVars, configVars, agent, class>>

\* The machine boots, or an operator calls the init script.
ServiceStart ==
  /\ "service start" \in Disturbance
  /\ Start
  /\ UNCHANGED <<siteVars, configVars, agentVars>>

Replicator == Replicate \/ WriteClass \/ OpenPart \/ ClosePart

Agent ==
  \/ StartRun(FALSE, FALSE) \/ EditIni \/ FindProcess
  \/ StopPromise \/ StartPromise \/ RestartStop \/ RestartStart \/ EndRun

\* What goes on when nobody interferes.
Undisturbed == Replicator \/ Agent \/ ProcessRuns

Next ==
  \/ Undisturbed
  \/ \E s \in Setting : SaveSettings(s)
  \/ SwitchFeature
  \/ \E stop, restart \in BOOLEAN : StartRun(stop, restart)
  \/ ReplicateFails \/ AgentDies \/ InitializationFails \/ ProcessDies \/ ServiceStart

Spec == Init /\ [][Next]_vars

\* The deployment that was asked for is carried out, cf-execd keeps starting the
\* agent, every run goes on to its end, and main runs.
FairSpec == Spec /\ WF_vars(Replicator) /\ WF_vars(Agent) /\ WF_vars(ProcessRuns)

-----------------------------------------------------------------------------
(* Properties *)

\* The types, and what main knows at each point of the start: the default handler
\* is registered only after every script has been loaded, and the transports are
\* bound only to the ports of the file it has parsed.
TypeOK ==
  /\ ProcessTypeOK
  /\ saved \in Setting /\ enabled \in BOOLEAN
  /\ dirty \in BOOLEAN
  /\ replicator \in {"idle", "class", "open", "close"}
  /\ settings \in Setting \cup {Nil}
  /\ settings = Nil <=> replicator = "idle"
  /\ cfdat \in BOOLEAN
  /\ part \in Usable \cup {Blank}
  /\ agent \in {"idle", "edit", "scan", "stop", "start", "restart", "restarting"}
  /\ class \in Class
  /\ owed \in BOOLEAN /\ undelivered \in BOOLEAN

\* main parses sipxsbc.ini twice while the agent may rewrite it, and a process
\* may start at any point of a run; yet between two runs no process is left that
\* works with other settings than those in the file, in either of the halves it
\* has read, unless an agent died and owes it a restart.
RunsOnOneVersion ==
  agent = "idle" /\ phase # "down" /\ ~owed =>
    handlerIni \in {Nil, ini} /\ listenerIni \in {Nil, ini}

\* When replicate has nothing left to do and has not failed, what it has left for
\* the agent is what was saved, for all the saves that overtook it.
PartIsCurrent ==
  replicator = "idle" /\ ~dirty /\ ~undelivered =>
    cfdat = enabled /\ (enabled => part = saved)

\* The SBC serves with the settings saved last, all scripts loaded, its handler
\* registered and the transports bound, or is down where the feature is disabled.
Deployed ==
  IF enabled
  THEN /\ phase = "serving"
       /\ handlerIni = saved /\ loaded = ScriptCount /\ registered
       /\ listenerIni = saved /\ ports = Ports(saved)
  ELSE phase = "down"

\* main has dropped the result of an init function that failed.
Crippled ==
  \/ phase \in {"listeners", "transport", "stack", "serving"} /\ ~registered
  \/ phase \in {"stack", "serving"} /\ ports = Nil

\* Once nobody saves anything and nothing fails any more, the SBC ends up serving
\* with the settings saved last, or stopped where the feature was disabled,
\* whatever happened before: agents that died, files caught half written or cut
\* short, processes that gave up because of them, replicates that failed and were
\* made up for by a later one.  There are three exceptions, for which the code has
\* no remedy: the last replicate has failed, an agent has died and owes the
\* process a restart, or the process that is up has come up crippled.
SettingsTakeEffect ==
  <>[][Undisturbed]_vars => <>[](Deployed \/ undelivered \/ owed \/ Crippled)

\* Nothing is left to be done, nor is anybody about to do something all the same.
Settled ==
  /\ Deployed
  /\ ~dirty /\ replicator = "idle"
  /\ cfdat = enabled
  /\ enabled => part = saved /\ ini = saved
  /\ ~owed /\ agent # "restarting"
  /\ agent # "idle" => class.sipxsbc = enabled
  /\ ~class.stop_sipxecs /\ ~class.restart_sipxecs /\ ~class.restart_sipxsbc
  /\ agent \in {"stop", "start", "restart"} => class.sipxsbc_running = enabled

\* The agent rewrites sipxsbc.ini from scratch every few minutes, for ever, and looks
\* for reasons to start, stop or restart the process; yet none of its runs, at
\* whatever point one is when the deployment comes to its end, disturbs an SBC
\* that serves with the settings saved last, nor starts one that is disabled.
DeployedIsKept == [][Settled /\ Undisturbed => Settled']_vars

(* What a location shows of its deployment *)

Wanted == IF enabled THEN {saved} ELSE {}

Stage == IF phase \in {"down", "serving"} THEN phase ELSE "starting"

Uses == {handlerIni, listenerIni} \ {Nil}

\* An agent that died and left a restart undone has still to be made up for.
UnderRepair == agent # "idle" \/ owed

Ordered == class.stop_sipxecs \/ class.restart_sipxecs

Contract == INSTANCE DeployContract WITH
  Contents <- Usable \cup {NoFile, Blank}, wanted <- Wanted, file <- ini, stage <- Stage,
  uses <- Uses, underRepair <- UnderRepair, ordered <- Ordered, settled <- Settled

\* Whatever replicate, the agent, main and the administrator do at the same time, and
\* wherever one of them fails: main takes settings only from the file as it is, no
\* agent goes away from a process that works with others, and a location that has
\* settled stays so until somebody wants something else of it or the process dies.
KeepsContract == Contract!Spec

\* sipxsbc.cf:57 "stop sipxsbc" and the start promise, which a run with the class
\* stop_sipxecs skips: no such run starts the process.
StopRunNeverStarts ==
  [][class.stop_sipxecs /\ agent' # agent => ~(phase = "down" /\ phase' # "down")]_vars

\* sipxsbc.in:23 "[ -f $config ] || exit 6": the process is not started without
\* its configuration file.
StartNeedsConfig ==
  [][phase = "down" /\ phase' # "down" => ini # NoFile]_vars

=============================================================================
