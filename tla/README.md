# A TLA+ model of sipXsbc

sipXsbc is a SIP session border controller: a process written in C++ on top of
the OSS library, a set of JavaScript handlers that decide what happens to each
request, a Redis server that keeps dialogs and registrations, and the sipXconfig
plugin and cfengine promises that bring an administrator's settings to the
process. This directory holds TLA+ modules for these parts, instances of them
for TLC, and proofs for TLAPS. `PROJECT.json` lists the components, the runs, the
lines of source that each definition stands for, the findings, the hazards and
the theorems.

Paths below are relative to the root of the repository.

## 1. Inventory

| component | sources | state it keeps | operations | modules |
|---|---|---|---|---|
| Data store | `src/SBCDataStore.cpp` | dialogs (Redis workspace 11) and registrations (12) | ten callbacks: `persist`, `getAll`, `removeSession`, `removeAllDialogs`, `persistReg`, `getOneReg`, `getReg`, `removeReg`, `removeAllReg`, `getAllReg` | `DataStoreDefs`, `DataStoreContract`, `SBCDataStore` |
| Routing scripts | `etc/sipXsbc/handlers/` | the script globals `route` and `route404`, the request, its properties | `handle_request` of the route and the outbound script | `RoutingContract`, `RouteRequest` |
| Script API | `etc/sipXsbc/globals/RouteProfile.js`, `SIPMessage.js`, `src/SBController.cpp:185-370` | properties of messages and of transactions, the contents of messages, gateways | the methods of `RouteProfile` and `SIPMessage`, properties that scripts set by a name of their own, the natives under them | `ScriptDefs`, `SIPMessage`, `RouteProfile`, in part `RouteRequest` |
| Access control scripts | `etc/sipXsbc/globals/AccessList.js`, `AuthProfile.js`, `TransactionProfile.js`, `PropertyObject.js` | access lists, one list of properties | `verify`, and scripts that fill the lists | `AccessContract`, `AccessControl` |
| Start-up | `src/main.cpp`, `src/SBController.cpp:25-183`, `bin/sipxsbc.in` | how far main has come, what it has read of `sipxsbc.ini` | the init functions, `run`, `start`, `stop`, `restart` | `SbcProcess` |
| Configuration deployment | `config-plugin/.../SipxsbcConfig.java`, `SipxsbcSettings.java`, `etc/sipxsbc.cf`, `etc/sipxsbc.xml` | settings, the cfengine class, `sipxsbc.ini.part`, `sipxsbc.ini`, the classes of an agent's run | save, switch the feature, `replicate`, the promises of the agent | `DeployContract`, `SbcDeploy` |
| Feature, addresses, firewall | `config-plugin/.../SipxsbcImpl.java` | none of its own | `saveSettings`, the switch; lists of addresses, ports and processes | in part `SbcDeploy` |
| Settings page | `config-plugin/.../SipxsbcPage.java`, `SipxsbcHook.java` | none | one page bound to the settings | - |
| Logger, options | `src/main.cpp:58-89, 213-233` | none | input and output | - |
| Sample interface tables | `etc/sipXsbc/globals/UserAgentExports.js` | constants | - | in part `RouteProfile` |
| Build, packaging | `configure.ac`, `*.am`, `sipxsbc.spec.in` | - | - | - |

How the parts interact:

- The transaction manager of the OSS library has two threads
  (`SBController.cpp:26`). For each request they run the scripts, and through
  the dialog state manager they call the data store.
- Scripts call natives (`msgSetProperty`, `msgSetTransactionProperty`, ...) on
  the message they are given. Messages of one transaction share its properties
  through `userData`.
- `main` starts the store, the scripts and the listeners, in that order, and
  parses `sipxsbc.ini` twice on the way.
- sipXconfig writes `sipxsbc.cfdat` and `sipxsbc.ini.part`. The cfengine agent
  rebuilds `sipxsbc.ini` from the part and stops, starts or restarts the process.

What is hard, and what makes each part correct:

- *Data store.* A bulk call is one KEYS command, a GET per key and a DEL per
  record it chose. Other threads write between any two of them, a record may
  expire, a command may fail unnoticed, the process may die in the middle. A
  removal must be complete, precise, and harmless to records that appear while it
  runs; a read must be regular; every bulk call must end.
- *Routing.* `route` and `route404` are globals that each request binds anew,
  and they keep wrapping it after it is freed. `isRoutable` is a predicate that
  rewrites the request. The wrappers drop the result of every native setter and of
  every removal of a header, so that a request may be accepted half retargeted.
  A request must be accepted with all that routing owes it but for what a native
  failed to do, or refused untouched; a header that offends must not leave unless
  all who remove it failed; no handler may work on another's request; every
  request is answered.
- *Script API and access control.* Transaction properties outlive a handler and
  are shared by the messages of a transaction. A value a native cannot take is
  dropped silently. Methods that share a property leave each other's properties in
  place, and a script may set the same properties by name, past all methods. All
  `AuthProfile` objects share one list of properties, and the source address they
  judge a message by goes with its transport, at worst while it is being read.
- *Start-up.* The result of each init function is dropped: a process may serve
  without its handler, or bound to no port. Ports are converted to 16 bits, and take
  a default where the file has been cut short; the file may change between the two
  parses.
- *Deployment.* Four actors, none of which waits for another, and each can fail
  or die between two steps; a write can fail unseen and leave half of the part. What
  was saved last must come to run, and no process may be left that works with a
  mixture of two versions.

## 2. Plan

The order was chosen so that what loses calls or registrations comes first.

1. `DataStoreDefs`, `DataStoreContract`, `SBCDataStore`, with the contract as the
   abstract specification. *Done, proved.*
2. `RouteRequest`. *Done, proved.*
3. `SbcProcess`, then `SbcDeploy`, which composes it with the deployment. *Done;
   the safety properties are proved, liveness is checked.*
4. `ScriptDefs`, `SIPMessage`, `RouteProfile`, `AccessControl`. *Done but for what
   section 8 lists; all safety properties are proved.*
5. `RoutingContract`, `DeployContract` and `AccessContract`, the abstract
   specifications of routing, deployment and access control, with `RouteRequest`,
   `SbcDeploy` and `AccessControl` shown to implement them. *Done, proved.*
6. Next: the distance of a location from `Settled`, as `StepsLeft` is that of a bulk
   call from its end, and the distance of a request from its answer.
7. Left out after a closer look:
   - `RouteRequest` composed with `SbcProcess`: the only thing that start-up hands to
     routing is the target domain, which `RouteRequest` already chooses freely, and
     what the stack does before the scripts are loaded is not in the repository.
   - `SBCDataStore` composed with the life of the process: `Crash` already ends a life
     at any command and keeps Redis; what the next life does with the dialogs it
     finds is code of the OSS library.

## 3. Modules

**`DataStoreDefs`** has the data: records keep only the fields the store looks at
and one payload field. `IdOf` is the id inside a record, by which the removals
delete; `Pattern` the keys a call asks for.

**`DataStoreContract`** is what the store promises: single records are written and
dropped atomically, a bulk call is an interval. `kept`, `since`, `began` and `dropped` say
what happened during it. A read returns records of the interval and all that
stayed; a removal leaves nothing it should have dropped. Each key it drops, `BulkDrop`,
is one that was stored when it began, under which it has seen a record that it
targets, and that it has not dropped before. Single calls and expiry may take any
record at any time, `Drop`; what tells the two apart is `dropped`, which is the same
variable in both modules: a DEL of a bulk call is a step of `BulkDrop` and cannot pass
for a `Drop`.

**`SBCDataStore`** is the code, one Redis command a step. `Scan`, `Get`,
`CollectDoomed`, `DeleteOne` and the two returns are the bulk calls; `Persist`,
`PersistReg`, `RemoveSession`, `RemoveReg` are the others. `Crash` loses the
locals and keeps Redis. `KeepsContract` is the refinement: `store`, `call` and the
history, `dropped` included, are the same on both sides, a call's progress is hidden and `reply` is the
vector of a thread that is out of its call. `StepsLeft` counts what a bulk call still
has to do: two for each key that is to be read, one for each record that has been read
or is to be deleted, and the returns.

**`RouteRequest`** takes one step per method of the profile objects, from the
arrival of a request to the outbound script. `bound[p]` is the request that the
global `p` wraps, and a method called through `p` works on `bound[p]`, not on the
request of the handler: isolation has to be shown. `TargetTheDomain`, `Retarget`,
`RemoveHeaders` and `Forward` choose which natives fail; `failed` is a history of what has
failed on a request, which no script looks at. The properties say what a request is
like for every such history, and do not exclude any.

`RoutingContract` is what this comes to for one request, without handlers, engine or
globals: it is decided in one step, accepted or refused as it arrived, then sent; accepted,
each of its hosts is the domain or the one it arrived with, and of its headers only
offending ones may be gone. Which of them, and why others stayed, is said by
`RoutingIsAllOrNothing` and `OffendingHeadersAreRemoved`. In the refinement, `KeepsContract`, a
request looks as it arrived until its handler has left (`View`): handlers work on
requests in place, and the contract says that nobody can see them half done.

**`ScriptDefs`** has the values scripts pass and the conversions and guards of
`jsMsgSetTransactionProperty` and `jsMsgGetTransactionProperty`.

**`SIPMessage`** has the contents of messages: the start line and the users and hosts of
the three URIs. A setter does what it is asked or changes nothing (`Write`), and `answer`
holds what it returned and whether it had succeeded. A script may give any message a
start line of either kind (`SetStartLine`): a request can be made a response and
the reverse, and nothing in the code prevents it. A string that is neither kind of line
is taken as one that the native refuses. `WellFormed` says that a response has no
request-uri. Setters of headers and of the body appear only by their outcome,
since nothing that is modelled here reads them back; what the shipped handlers do to
headers is in `RouteRequest`.

**`RouteProfile`** EXTENDS it and lets scripts call the methods of `RouteProfile` in any
order; `given`, `bridged`, `flagged`, `reg` and `stripped` record what they were given. `Give`
is a group of `setProperty` calls of one method; a property that is given undefined
becomes `"?"`. `SetOwnProperty` and `SetOwnTransactionProperty` are the two setters of
`SIPMessage` that a script may call by itself, with any name in `OwnName`, those that the
methods use included: it may take back a flag, or give a bridge another end.
`ownProps` and `ownTrn` are the names it has set in this way since a method set them.
What `LocalRegIsWhole`, `GroupsAreOfOneCall` and `BridgeHasItsEnd` say is about the methods
of `RouteProfile` and holds for all other names; `FlagsAreShared` counts what the script
does itself as well. These properties condone what the code leaves as it is: a
credential of an earlier registration in place of an argument that was dropped, the
credentials or the pin of an earlier bridge. `SendRegister` collects the
gateways that the bridge is given. It reads `SipInterfaceAddress` and `SipInterfacePort`,
two sequences of any lengths, each by itself, so that a gateway may have one without
the other or neither. `RouteRequest` has the methods that the shipped handlers call one
by one.

**`AccessControl`** is `AuthProfile.verify`. The one `_transactionParams` that all profiles
inherit is the variable `params`. `Accept` or `Reject` is the verdict; `SetNext` is one turn
of the loop of `setProperties` and `loop` its place; `before` holds the properties as they
were when the loop began. `CloseTransport` takes the source address away. `Crash` is a
transport that goes between the two looks that `jsMsgGetSourceAddress` takes at it: the
process dereferences nothing, dies, and starts anew with empty lists.

`AccessContract` has no loop: `Accept` and `Reject` decide about a message in one
step, by where it is still known to come from, `Grant` gives an accepted message all
its properties in one other, and `Restart` is what the site sees of a crash. In the
refinement, `KeepsContract`, a transaction shows the properties it had `before` until
`verify` returns, and the message of the loop is the one that is `granting`. What
`verify` reads besides is the same on both sides; that the lists stay as they are
between the two steps has to be shown.

**`SbcProcess`** follows `main`. `phase` is the next init function; `handlerIni` and
`listenerIni` are the two parses of the file. `ScriptFails` is the `return false` of
`initHandler`, after which `main` goes on without a default handler; `TransportFails` an
exception in `initListeners`, after which it goes on bound to nothing. `InitFails` is
either. `NoListenerAddress` is the only thing that stops a start. `Ports` converts to 16
bits. `CutShort(s, n)` is what `main` makes of a part of which the addresses and `n` of the
port lines were written; a part with less is `Blank`.

**`SbcDeploy`** EXTENDS it with the administrator, `replicate` and the agent.
`replicate` reads the settings once (`Replicate`), writes the class (`WriteClass`),
truncates the part (`OpenPart`) and fills it when the writer is closed (`ClosePart`);
`ReplicateFails` covers an exception at any of these points and the errors
`closeQuietly` hides: the part stays as it is, empty once it has been opened, or is cut
short anywhere. A run of the agent is `StartRun`, `EditIni`, `FindProcess`, then
the three commands promises of `sipxsbc.cf` with their class expressions. The agent
looks for the process once, in `FindProcess`; the process lives on meanwhile.
`InitializationFails` is an init function that fails. `Deployed` is the goal: both parses
found the settings saved last, all scripts are loaded, the handler is registered and
the transports are bound to the ports of these settings, or the process is down where
the feature is disabled. `Crippled` is a process that goes on without handler or ports.

`DeployContract` is what a location shows of all this: the settings that are
`wanted`, the `file`, how far the SBC has come (`stage`) and which versions of the file it
`uses`, whether an agent is at work or has left a restart undone (`underRepair`), whether
it was told to stop or to restart everything (`ordered`), and whether all is `settled`.
Neither `replicate` nor the promises of the agent are in it. The mapping of
`KeepsContract` is `Wanted`, `Stage`, `Uses`, `UnderRepair`, `Ordered` and `Settled`. `Settled`
says of every part of the deployment that it has nothing left to do, an agent in the
middle of its run included; `DeployedIsKept` that the deployment never leaves it by
itself.

**`MC*`** modules define the small instances. **`*Proofs`** modules hold theorems.

## 4. Runs

| run | instance | what it shows |
|---|---|---|
| `dialogs` | two threads in bulk calls, two sessions, two Call-IDs | `removeAllDialogs` deletes all of its Call-ID that stayed (`RemovalIsComplete`), nothing that was never one (`RemovalIsPrecise`), and no newcomer (`NewcomersSurvive`); each of its DELs is one the contract allows (`KeepsContract`) |
| `registry` | two threads in bulk calls, others that never stop storing, two keys, a prefix for one and one for both | `TypeOK`, `ReadsAreRegular`, `KeepsContract`, which is the refinement and covers `removeAllReg`, `BulkCallsEnd` and its measure, `BulkCallsAdvance` |
| `routing` | two requests, all users and headers the scripts look at, every outcome of the setters and of the removals | `TypeOK` with the engine's lock, `RoutingIsAllOrNothing`, `ReferIsRetargeted`, `OffendingHeadersAreRemoved`, `HandlersAreIsolated`, `KeepsContract`, which is the refinement |
| `answers` | three requests and one engine | `EveryRequestIsAnswered` |
| `route_headers` | one request | finding: `RouteRemovesOffendingHeaders` is violated |
| `script_calls` | four messages, two transactions and none, up to three calls on properties, by methods of `RouteProfile` or by names the script chooses itself, start lines of both kinds, arguments left out, values the natives drop, natives that fail | `TypeOK`, `FlagsAreShared`, `LocalRegIsWhole`, `GroupsAreOfOneCall`, `BridgeHasItsEnd`, `PrefixIsRemoved` |
| `script_setters` | one message | finding: `SettersReport` is violated |
| `access_control` | two profiles; a request and a response of one transaction, a message without one; up to two properties; a transport that closes, or takes the process along | `TypeOK`, `AcceptedByItsOwnList`, `OnlyAcceptedGetProperties`, `LastEntryDecides`, `KeepsContract`, which is the refinement |
| `deploy` | two settings; saves, switches, a failing `replicate`, stop and restart runs, dying agents and processes, init functions that fail, starts by hand | `TypeOK`, `PartIsCurrent`, `RunsOnOneVersion`, `DeployedIsKept` |
| `deploy_effect` | two settings; saves, switches, a `replicate` that fails and may leave the part cut short, dying processes, init functions that fail | `SettingsTakeEffect`, `KeepsContract`, which is the refinement |
| `deploy_stop` | stop runs that meet a save | finding: `StopRunNeverStarts` is violated |
| `deploy_start` | a start by hand | finding: `StartNeedsConfig` is violated |

For each property of a passing run `PROJECT.json` names a plausible bug (a loop that
deletes only its first id, a profile bound only once, a class that a repaired file
does not set, ...), given in the module as an operator before the one it would
replace; with it TLC finds the property violated.

### Findings

- `route.js:38` removes the header `Accept-Laguage`, so the request keeps
  `Accept-Language` until the outbound script removes it.
- `SIPMessage.js` promises of its setters that they return true if successful;
  they return nothing.
- `sipxsbc.cf:65` restarts the service in a run that is to stop it, when that run
  has also repaired the file.
- `bin/sipxsbc.in:23` tests `$config`, which is never set, so the service starts
  without its file.

Three more observations are visible in the models without a promise they break.
`SettingsTakeEffect` has them as its three exceptions, and so does not catch them: the
code has no remedy for any.

- The process goes on without a default handler after a script failed to load, or
  bound to no port after its transports failed (`Crippled`), until it is restarted.
- After an agent dies between the edit and the restart, no later run restarts the
  process (`owed`). `RunsOnOneVersion` excepts this as well.
- After a `replicate` that failed, nothing repeats it until the next save
  (`undelivered`). What is checked is that the next one makes up for it, whatever agent
  and process have made of the part meanwhile.

### Bounds

- `Thread`, `Session`, `CallId`, `RegKey`, `Contact`: two of each where two are needed
  to tell "its own" from "another's"; a third thread adds single-record calls
  only, and those are not tied to a thread. The `dialogs` and `registry` runs keep
  the two workspaces apart: no call touches both.
- `Calls` selects the bulk calls of a run. Together the runs make all five.
- `Msg`: two for isolation, three for the competition for the engine. `Arrivals`
  has every method, user and header the scripts tell apart.
- `ScriptCount` is 1: the scripts are loaded one after the other and no property
  tells the second from the third; the theorems are for every number.
- `TwoSettings`: two settings are enough to tell the saved, the written and the
  running version apart pairwise; the second has ports beyond 65535.
- `Cuts` has the lengths of parts cut short. `{0}`, the addresses and nothing else,
  gives `main` a listener port of its own making and is the one in `deploy_effect`, which
  looks at what the process ends up with. `deploy` has none: its properties
  compare versions of the file, and an empty part is one more version. The theorems are
  for every subset of `0 .. 2`.
- `Disturbance` names what an instance lets go wrong. `deploy` has all of them.
  `deploy_effect` has saves, switches, failures of `replicate` and of init functions and dying
  processes. To stay within reach of a liveness check it leaves out starts by hand and
  dying agents, of which its property only says that a restart may be owed, and the
  runs that stop or restart everything. So what `DeployContract` says of these is not
  exercised by a run; it is proved (`DeployKeepsContract`).
- `Limits` bounds the calls that scripts make in an instance of `RouteProfile`, by
  kind; each element of it is one bound. Calls of different kinds change variables
  of their own, so that most of them are not mixed. Three on a transaction: two can
  leave a mixture behind, and a third can come between them or follow through
  another message. Two on a transaction and one on the start line, which decides
  whether a local registration is one. Two on the properties of a message: every
  pair of methods that share a property. One on each kind. A header, whose setters
  change nothing here, and a prefix: one call. The theorems have no such bound.
- `OwnName` has names of each sort: an alias, a switch, a credential, one property of a
  group, what belongs to bridges, and an undefined one. `OwnArg` has the two values that
  flags take and an undefined one, which is dropped.
- `Dialled`: all strings of two digits up to length three, so that a prefix is empty,
  shorter, equal, longer, or matches in part.
- `MaxParams`, 2, bounds the list of `AccessControl`: two entries can repeat, hide or
  contradict each other. The theorems are for every length.

`SYMMETRY` is used only in runs whose constants are otherwise interchangeable and
that check no liveness property: threads, sessions and Call-IDs in `dialogs`, requests in
`routing`, the two profiles in `access_control`. The refinements checked there, `KeepsContract`,
are safety properties.

### Fairness

- `SBCDataStore`: weak fairness of what a thread inside a bulk call does next. The
  thread runs, and each Redis command returns, with an answer or a failure.
- `RouteRequest`: weak fairness of the handling of each request. A thread of the
  transaction manager takes up what it is given. Weak fairness per request is
  enough although they compete for the engine: each passes it at most twice, so
  in the end no other is left to take it.
- `SbcDeploy`: weak fairness of `replicate` once a deployment is asked for, of the
  agent, which cf-execd starts again and again and whose promises run one after
  the other, and of `main`. Nothing is assumed of saves, failures, deaths and
  starts by hand: `SettingsTakeEffect` is about behaviours in which they stop.

## 5. What is proved

For every value of the constants, by TLAPS. Each proof of an invariant has the three
steps `Init => Inv`, `Inv /\ [Next]_vars => Inv'`, `Inv =>` the property; action properties
and refinements follow from the same invariants, one lemma for each action.

**`SBCDataStoreProofs`.** `TypeInv` adds to `TypeOK` that all a thread has seen are
records of the workspace it works on: without it the id inside a record need not
be a key. `BulkInv` ties the progress of a call to its history: what has been
read lies in `since`, and each key that stayed in place is still to be read, or read
and equal to what is stored, or, in a removal, still to be deleted if it is
targeted. It also has that what is to be deleted has not been deleted by this call
(`DropsOnce`), which is what lets each DEL be a `BulkDrop` of the contract. `IInv` is their conjunction. From it follow `ReadsAreRegular`,
`RemovalIsComplete`, `RemovalIsPrecise`, `NewcomersSurvive` and, step by step,
`KeepsContract`. For `BulkCallsAdvance` a call must be finite: `FiniteInv` adds that the store
is, and with it all that a call has read and set out to delete. A thread then reads
a key for at most one record (`WorkAdvances`), `CollectBound` and `DeleteTheseBound` say
that `deleteThese` has no more ids than records were read, and no step of another thread
touches the measure.

**`RouteRequestProofs`.** `LockInv` adds to the lock that, from the moment a handler
has bound a global, that global wraps its request until the handler leaves.
`HandlersAreIsolated` follows from it. `RInv` adds for each request what has been
done to it at its point of the script, relative to how it arrived and to what has
`failed`; it implies `RoutingIsAllOrNothing`, `ReferIsRetargeted` and
`OffendingHeadersAreRemoved`. The last one needs `HeaderNames`: that no request has a header with the misspelt name.
`RoutingKeepsContract` is proved step by step: what a handler does before it leaves
is hidden by `View` (`HiddenStep`), and the step in which it leaves is the contract's
`Decide` (`LeaveContract`). `Kept`, a part of `RInv`, says for this what routing may not
have changed by then.

**`RouteProfileProofs`.** The calls of one kind change variables of their own, so that
`IInv` is a conjunction of parts: `TrnInv` for transactions, `PropInv` for the properties of
messages, the gateways, the prefix, the types of messages. Every method sets whole
groups of properties and cuts none (`Fits`, `WholeGroups`, from `GroupsAreDisjoint`), which is
why `GroupsAreOfOneCall` is inductive; what a script sets itself joins `ownProps` or `ownTrn`
and leaves those names out of it until a method sets them again (`Gives`); `Ends` says that a bridging method brings the end
of its action. The alias of a route must be none of the names that the methods use
themselves (`AliasAssumption`): a script that flags a route "no-rtp-proxy" would switch
the proxy off.

**`SIPMessageProofs`** has that every call of `SIPMessage` keeps messages well-formed requests
or responses, which `TypeCorrect` of `RouteProfileProofs` rests on.

**`AccessControlProofs`.** `IInv` adds to the properties that a verdict is somebody's
(`Verified`) and that outside of the loop `before` is `trn` (`LoopInv`).
`ScriptDefsProofs` has the lemma both rest on, what setting a transaction property does
for any values. In `AccessKeepsContract` a turn of the loop is a stutter, the step in which
`verify` returns is `Grant`, and that the properties then are those of the last
entries is `LastEntryDecides` (`ReturnContract`). A crash leads to an initial state on both
sides (`CrashIsInit`).

**`SbcDeployProofs`.** `TypeCorrect` includes how far `main` has come and what it knows
there. `VersionInv` says, for each point of the agent's run, that a process which
has read anything but what the file holds is one this run will still stop or
restart, or one that is owed a restart: `RunsOnOneVersion` alone says nothing of the
middle of a run, where it does not hold. `PartInv` says what is still to be
written while `replicate` is under way, unless another deployment has been asked
for meanwhile. Files cut short need no case of their own: they are further contents
that the file may have (`ShortOf`).

`DeployedKept` goes through the actions one by one (`SettledStays`); it rests on
`ClassInv`, that the classes of a run are gone when there is none, so that the next run
begins with those it sets itself. The refinement, `DeployKeepsContract`, has a lemma
for each kind of step: what the process does by itself (`ProcessLives`), what the
agent, `replicate` and `main` do (`StepProceeds`, `ProceedContract`), failures, runs, edits
and changes. `SettledShows` says that what has settled looks so from outside, and `AtRest`
that an agent which goes away leaves no other version in use: this is `VersionInv`.

Only model-checked: the three liveness properties, `BulkCallsEnd`, `EveryRequestIsAnswered`
and `SettingsTakeEffect`. Liveness under fairness needs ENABLED, which is beyond the
provers used. The safety half of the first is proved, `BulkCallsAdvance`: every step of a
bulk call leaves it less to do, so that only a thread that stands still can keep it from
its end. Of the last, `DeployedKept` has the end: what is reached stays.

## 6. Assumptions about code outside the repository

- Redis executes one command at a time. `RedisClient::getAll` is a KEYS and a GET
  per key, which is why a bulk call is not atomic; a failing command changes
  nothing and the code does not look at it.
- The script engine runs one handler at a time (`EngineIsFree`); `TypeOK` of
  `RouteRequest` is where the scripts depend on it.
- A native setter of a URI part, of a start line or of a header succeeds or changes
  nothing, and so does the removal of a header. On a status line, which has no
  request-uri, setters of it fail; a start line that is none is refused.
- `cidrVerify` of an undefined address is false. A transport that has gone does not
  come back to its transaction. Taking the address of a transport that has gone since it was looked at ends the
  process, or still yields the address: the latter is a close after the verdict.
- A property of a transaction keeps its value until it is set again.
- cfengine classes last for one run; `if_repaired` defines its class when the edit
  changed the file; delete promises of an edit come before insert promises,
  methods before commands; one agent runs at a time.
- sipXconfig deploys one request at a time and calls `replicate` after a save or a
  switch of the feature.
- The `bool` functions that end without a return (`SBController::initDataStore`,
  `run`, and `initHandler` when all scripts load) return an indeterminate value that
  no caller looks at, so it is not in the model.

## 7. Reading the models against the code

`PROJECT.json`, `map`, gives the lines of each definition. Names are those of the
source where TLA+ allows it: `Persist` is `persist`, `CollectDoomed` fills
`deleteThese`, `SetTargetDomain` is the method of `RouteProfile`, `RestartWanted` is the class
expression at `sipxsbc.cf:65`. History variables are marked as such where they are
declared; no guard reads them.

## 8. Not modelled

- `getOneReg`, and the getters and predicates of `SIPMessage` that nothing in the
  repository uses (`hdrGet`, `is1xx` and its like, `isMidDialog`, contacts, the body): they change
  nothing. Of the setters of headers, of list headers and of the body only what the
  script learns of them; `hdrListPopFront`, whose native decides what it returns.
- `routeByAOR`, `resetMaxForwards` and `getAuthenticator`, which are natives and nothing
  else.
- What `bridge_add_gateway` makes of an address or a port that is missing.
- `generateLocalResponse` and `stripCallPrefix` throw at their first statement, because
  of a misspelt name each.
- The inbound and the response handlers, which are empty.
- What the OSS library does with requests, dialogs and media: it is not in the
  repository. This includes what happens to requests between `stack().run()` and the
  loading of the dialogs (`SBController.cpp:115-116`).
- The pid file and the timeouts of `daemon` and `killproc`, which the init script takes
  from the system; `chkconfig`.
- `getAvailableAddresses` and the other lists of the feature's bundle, which copy the
  settings. A port beyond 65535 becomes another port, in `SbcProcess` as in `main`; no
  property says which it should be, because nothing in the repository does.
- Hazards without a property have a note in `PROJECT.json` that says why: a newer record under
  an id that a removal has decided on, the crippled process and the owed restart
  above, dropped arguments that leave an older credential, the list that
  all profiles share by construction among them.
- The logger, the options, the settings page, packaging.
