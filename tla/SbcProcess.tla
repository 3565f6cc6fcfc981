------------------------------ MODULE SbcProcess ------------------------------
(***************************************************************************)
(* The sipxsbc process, from the start function of its init script         *)
(* (bin/sipxsbc.in) through main (src/main.cpp) and the init functions of  *)
(* SBController (src/SBController.cpp) to the moment it serves requests.   *)
(*                                                                         *)
(* main parses sipxsbc.ini twice, for the scripts and the target domain    *)
(* and again for the listeners; the file may change in between.  It drops  *)
(* the result of every init function, so that a script that does not load  *)
(* or a port that is taken stops nothing.  Only a file without a listener  *)
(* address does.  A part cut short below that address leaves main with its *)
(* own defaults for the ports that are lost.                               *)
(***************************************************************************)
EXTENDS Integers

CONSTANTS
  Setting,  \* port settings of the SBC
  Cuts,     \* how many of the three port lines may be left of a part cut short
  ScriptCount,  \* how many scripts sipxsbc.ini names
  NoFile,   \* there is no sipxsbc.ini
  Blank,    \* a sipxsbc.ini without the part that sipXconfig writes
  Nil       \* not read yet

\* A part of which the addresses and n of the port lines have been written, and
\* the ports main makes of it.
CutShort(s, n) ==
  [lines |-> n, listener |-> IF n = 0 THEN 5060 ELSE s.listener,
   base |-> IF n < 2 THEN 30000 ELSE s.base, max |-> 40000]

Short == {CutShort(s, n) : s \in Setting, n \in Cuts}

\* What main can take a listener address from.
Usable == Setting \cup Short

\* sipxsbc.xml lets the ports be any integers.
ASSUME SettingAssumption ==
  /\ Setting \subseteq [listener : Int, base : Int, max : Int]
  /\ Cuts \subseteq 0 .. 2
  /\ \A x \in {NoFile, Blank, Nil} : x \notin Usable
  /\ ScriptCount \in Nat
  /\ NoFile # Blank /\ NoFile # Nil /\ Blank # Nil

VARIABLES
  ini,          \* the contents of sipxsbc.ini
  phase,        \* how far main has come, "down" when there is no process
  handlerIni,   \* the file as initHandler parsed it, Nil before
  listenerIni,  \* the file as initListeners parsed it, Nil before
  loaded,       \* how many scripts have been loaded
  registered,   \* the default handler has been registered
  ports         \* the ports the transports are bound to, Nil if to none

memory == <<handlerIni, listenerIni, loaded, registered, ports>>
processVars == <<phase, handlerIni, listenerIni, loaded, registered, ports>>

ProcessInit ==
  /\ ini = NoFile
  /\ phase = "down"
  /\ handlerIni = Nil
  /\ listenerIni = Nil
  /\ loaded = 0
  /\ registered = FALSE
  /\ ports = Nil

\* start of the init script.  Its check for the configuration file tests a
\* variable that is not set and always holds; daemon starts no second process.
Start ==
  /\ phase = "down"
  /\ phase' = "dataStore"
  /\ UNCHANGED <<ini, memory>>

\* The process is gone, and all it knew.
Exit ==
  /\ phase' = "down"
  /\ handlerIni' = Nil
  /\ listenerIni' = Nil
  /\ loaded' = 0
  /\ registered' = FALSE
  /\ ports' = Nil
  /\ UNCHANGED ini

\* Whatever redis-client.ini holds and whether Redis answers or not.
InitDataStore ==
  /\ phase = "dataStore"
  /\ phase' = "handlers"
  /\ UNCHANGED <<ini, memory>>

\* The first parse; a file that is not there names no script.
ReadHandlerConfig ==
  /\ phase = "handlers"
  /\ handlerIni' = ini
  /\ phase' = "scripts"
  /\ UNCHANGED <<ini, listenerIni, loaded, registered, ports>>

OneShort == handlerIni # NoFile /\ loaded + 1 < ScriptCount

ToLoad == handlerIni # NoFile /\ loaded < ScriptCount

LoadScript ==
  /\ phase = "scripts"
  /\ ToLoad
  /\ loaded' = loaded + 1
  /\ UNCHANGED <<ini, phase, handlerIni, listenerIni, registered, ports>>

\* A script does not load: initHandler returns false, main drops it and goes on.
ScriptFails ==
  /\ phase = "scripts"
  /\ ToLoad
  /\ phase' = "listeners"
  /\ UNCHANGED <<ini, memory>>

RegisterDefaultHandler ==
  /\ phase = "scripts"
  /\ ~ToLoad
  /\ registered' = TRUE
  /\ phase' = "listeners"
  /\ UNCHANGED <<ini, handlerIni, listenerIni, loaded, ports>>

\* The second parse, which finds a listener address.
ReadListenerConfig ==
  /\ phase = "listeners"
  /\ ini \in Usable
  /\ listenerIni' = ini
  /\ phase' = "transport"
  /\ UNCHANGED <<ini, handlerIni, loaded, registered, ports>>

\* It finds none: _exit.
NoListenerAddress ==
  /\ phase = "listeners"
  /\ ini \notin Usable
  /\ Exit

\* int to unsigned short.
ToPort(n) == n % 65536

Ports(s) == [listener |-> ToPort(s.listener), base |-> ToPort(s.base), max |-> ToPort(s.max)]

\* SBController::initListeners.
TransportInit ==
  /\ phase = "transport"
  /\ ports' = Ports(listenerIni)
  /\ phase' = "stack"
  /\ UNCHANGED <<ini, handlerIni, listenerIni, loaded, registered>>

\* Its exception is caught and its result dropped: main goes on, bound to nothing.
TransportFails ==
  /\ phase = "transport"
  /\ phase' = "stack"
  /\ UNCHANGED <<ini, memory>>

\* SBController::run, its three calls.
Run ==
  /\ phase = "stack"
  /\ phase' = "serving"
  /\ UNCHANGED <<ini, memory>>

\* std::abort in catch_global, or a signal.
Die ==
  /\ phase # "down"
  /\ Exit

\* What main does next, when its calls succeed.
Main ==
  \/ InitDataStore
  \/ ReadHandlerConfig \/ LoadScript \/ RegisterDefaultHandler
  \/ ReadListenerConfig \/ NoListenerAddress \/ TransportInit
  \/ Run

InitFails == ScriptFails \/ TransportFails

-----------------------------------------------------------------------------
Phase == {"down", "dataStore", "handlers", "scripts", "listeners", "transport",
          "stack", "serving"}

\* How far main has come, and what it knows by then.
ProcessTypeOK ==
  /\ ini \in Usable \cup {NoFile, Blank}
  /\ phase \in Phase
  /\ handlerIni \in Usable \cup {NoFile, Blank, Nil}
  /\ handlerIni = Nil <=> phase \in {"down", "dataStore", "handlers"}
  /\ listenerIni \in Usable \cup {Nil}
  /\ listenerIni = Nil <=> phase \in {"down", "dataStore", "handlers", "scripts", "listeners"}
  /\ loaded \in 0 .. ScriptCount
  /\ registered \in BOOLEAN
  /\ registered => handlerIni = NoFile \/ loaded = ScriptCount
  /\ phase \notin {"stack", "serving"} => ports = Nil
  /\ ports = Nil \/ (listenerIni # Nil /\ ports = Ports(listenerIni))

=============================================================================
