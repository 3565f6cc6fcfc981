----------------------------- MODULE DeployContract -----------------------------
(***************************************************************************)
(* What deployment promises of the SBC at one location, with nothing of    *)
(* the replicator, of the agent's promises and of how main starts:         *)
(*   - the SBC takes settings from its file only while it starts, and what *)
(*     it has taken it keeps until it stops;                               *)
(*   - the file changes only under the hands of an agent, and no agent     *)
(*     goes away leaving a process with other settings than the file's,    *)
(*     unless it died;                                                     *)
(*   - a location that has settled, its SBC serving with the settings that *)
(*     are wanted or stopped where none are, stays as it is until          *)
(*     something else is wanted, everything is to be stopped or restarted, *)
(*     or the SBC itself dies or is started by hand.                       *)
(***************************************************************************)

CONSTANTS Setting, Contents

VARIABLES
  wanted,      \* the settings to serve with, none where the SBC is disabled
  file,        \* the contents of sipxsbc.ini
  stage,       \* "down", "starting" or "serving"
  uses,        \* the versions of the file that the SBC has taken settings from
  underRepair, \* an agent is at work, or has died and left a restart undone
  ordered,     \* the agent has been told to stop or to restart everything
  settled      \* nothing is left to be done

vars == <<wanted, file, stage, uses, underRepair, ordered, settled>>

Init ==
  /\ wanted \in SUBSET Setting
  /\ file \in Contents
  /\ stage = "down"
  /\ uses = {}
  /\ ~underRepair
  /\ ~ordered
  /\ ~settled

\* Other settings are wanted, or the same once more.
Change ==
  /\ wanted' \in SUBSET Setting
  /\ ~settled'
  /\ UNCHANGED <<file, stage, uses, underRepair, ordered>>

-----------------------------------------------------------------------------
(* The agent *)

StartRun ==
  /\ underRepair'
  /\ ordered' \in BOOLEAN
  /\ settled' = (settled /\ ~ordered')
  /\ UNCHANGED <<wanted, file, stage, uses>>

Install ==
  /\ underRepair /\ underRepair'
  /\ ~settled /\ ~settled'
  /\ file' \in Contents
  /\ UNCHANGED <<wanted, stage, uses, ordered>>

-----------------------------------------------------------------------------
(* The SBC *)

Start ==
  /\ stage = "down"
  /\ stage' = "starting"
  /\ uses' = {}

Read ==
  /\ stage = "starting"
  /\ uses' = uses \cup {file}
  /\ UNCHANGED stage

Serve ==
  /\ stage = "starting"
  /\ uses # {}
  /\ stage' = "serving"
  /\ UNCHANGED uses

Stop ==
  /\ stage # "down"
  /\ stage' = "down"
  /\ uses' = {}

Live == Start \/ Read \/ Serve \/ Stop

\* The agent goes away, if it does, and what it was told with it.
MayRest ==
  /\ underRepair' => underRepair
  /\ ordered' => ordered
  /\ ~underRepair' => uses' \subseteq {file}

MaySettle ==
  settled' => uses' = wanted /\ stage' = IF wanted = {} THEN "down" ELSE "serving"

\* Somebody goes on with the deployment.
Proceed ==
  /\ UNCHANGED <<wanted, file>>
  /\ UNCHANGED <<stage, uses>> \/ Live
  /\ settled => UNCHANGED <<stage, uses, settled>>
  /\ MayRest
  /\ MaySettle

\* The SBC dies, or is started by hand where it should not run.
Fail ==
  /\ settled /\ ~settled'
  /\ Stop \/ Start
  /\ UNCHANGED <<wanted, file>>
  /\ MayRest

Next == Proceed \/ Fail \/ StartRun \/ Install \/ Change

Spec == Init /\ [][Next]_vars

=============================================================================
