# A TLA+ model of the PPB control software

The program tests PPB devices: a host speaks over UDP to a *bridge*, the bridge
speaks to up to 16 PPBs.  A PPB has a one-bit address (a mask of PPBs is an
address with several bits), the bridge itself is address 0.  This directory
holds TLA+ modules that follow the C++ source, TLC configurations that check
them on small instances, and proofs that TLAPS checks.

`PROJECT.json` lists the components, the runs, the definitions with the source
lines they stand for, the hazards and the theorems.

## 1. Inventory

| part | source | state it keeps | operations | interacts with |
|---|---|---|---|---|
| Command engine | `PPBCommunicationLib/src/communicationengine.*` | per-address state machine, per-address command queue, one operation context per address, running groups, waiting groups, busy | `connectToPPB`, `disconnect`, `executeCommand`, `executeGroupCommand`, `sendFU*`, `clearCommandQueue`, `onDataReceived`, `onOperationTimeout`, `processCommandQueue`, `processNextCommandForAddress` | called by the facade (queued calls); calls the UDP client; signals to the facade |
| Command objects | `commandandoperation.*`, `commandinterface.h` | parse results; static data of VOLUME | `buildRequest`, `onOkReceived`, `onDataReceived` | called by the engine, call back into it (`completeOperation`) |
| Protocol adapter, packet builder | `protocoladapter.*`, `packetbuilder.*` | none | parse and build datagrams | engine |
| UDP client | `udpclient.*` | socket in a thread | send, receive, broadcast | engine |
| Facade | `communicationfacade.*` | engine thread | forwards calls and signals | controller, engine |
| Controller | `PPBControllerLib/src/ppbcontrollerlib.cpp` | state of 16 PPBs, auto-poll, flags of a running update and a running scenario | requests, auto-poll, status interpretation, scenario control | GUI, facade, scenario engine |
| Firmware update | `ppbcontrollerlib.cpp` `updateFirmware`, `firmwareupdater.cpp` | local to the session | parse HEX, IS_YOU, VERS, PROGRAMM, VOLUME..., UPDATE, CLEAN | facade, waits in nested event loops |
| Scenario engine | `ScenarioModule/scenarioengine.*` | Lua state, stop flag, the current wait | load, execute, stop, waits for completions | controller, blocking calls between threads |
| Packet analyzer | `Analize_Module/packetanalyzer.*` | packet lists | analyze | controller |
| Generator controller | `AKIP-manager_module/*` | read buffer, settings | SCPI queries with retry, verified sets | GUI |
| Logging | `common/logging/*` | handlers, buffers, files | distribute, rotate | everything |
| Update manager | `PPB_GUI_Sandbox/updatemanager.*` | download in progress | choose a release, download, verify, install | network |
| GUI, converters, performance monitor | `PPB_GUI_Sandbox/*`, `common/converters`, `common/performance` | widgets | display | controller |
| Vendored | `sol2`, `lua`, `ch375_sdk` | | | |

What is hard in each part, and what makes it correct:

* **Command engine.**  One thread, but five sources of slots (callers, datagrams,
  operation timers, the 100 ms queue timer, posted single shots) in any order, and
  slots that nest: a completion starts a waiting group, VOLUME completes while it is
  being started, a command object completes an operation in the middle of the
  handler that is looking at it.  UDP loses, delays, repeats and reorders.
  Correct means: every started operation is reported once; a group is reported
  once, with the outcome of its own operations; nothing queued is dropped; nothing
  waits for ever; `busy` is right; address 0 keeps behind the groups.
* **Controller and firmware update.**  A wait in a nested event loop has a timeout
  of its own, different from the operation's; answers arrive when nobody waits.
  Correct means: a completion that ends a wait is that of the awaited command, the
  blocks leave in order, success is announced only after every stage succeeded,
  and nothing of an aborted session is still sent later.  The first and, for CLEAN, the third
  of these the code does not keep (section 6, 8).
* **Scenario engine.**  Two threads that call each other with blocking calls; a load waits
  for a running script in a nested event loop in which the user goes on clicking; stop and
  completion race with the start of a wait and of the script.  Correct means: an engine
  is not deleted or reused while its script runs, the running flag is right, a script and
  an update exclude each other, every wait, stop and load comes to an end.
* **Generator controller.**  A query that is sent again leaves a late answer behind, a
  silence reads as a value, the connection may go at any moment.  Correct means: a set that
  returns true is applied, within the tolerance of the setting, and a call ends.
* **Status of a PPB.**  Words without names, codes in two words.  Correct means: a field is
  never put together from two answers or two fields, and an answer does not change what the
  user is about to send.
* **HEX file.**  Correct means: what is sent is the image, and only of a well-formed file.
* **Logging.**  Rotation over names that may be taken.  Correct means: no entry is lost.
* **Update manager.**  Correct means: the offer is the best release by precedence, and an
  installer is started, or left behind, only if it is the one of the release.

The full list of hazards, each with its line and the properties that cover it, is
in `PROJECT.json`.

## 2. Modules

```
GroupService      what executeGroupCommand promises (abstract)
      ^ refinement
EngineGroups      Engine + a history variable; the refinement mapping
      |
Engine            the command engine, with the bridge and the PPBs as environment
      |
EngineProofs      the inductive invariant (TLAPS)
      |
EngineStepProofs  what a slot may never do: the action properties
      |\
      | EngineGroupsProofs   Engine implements GroupService, step by step
      |
FirmwareUpdateProofs         FirmwareUpdate's invariants and action properties

FirmwareUpdate    Engine + the update session of the controller, with the threads'
                  queues between them

Scenario          the script thread, loading, running and stopping, teardown,
      |           auto-poll and update as its competitors
ScenarioProofs    inductive invariant and theorems (TLAPS)

Generator   LogFile   HexImage   StatusData   Releases
    |          \        \        /            /
GeneratorProofs            PeripheralsProofs
                                  |
                           SequenceInduction   induction over Nat, and what folds compute

                  one module each for the parts that share no state with the engine
                  and none with each other

MCEngine, MCEngineGroups, MCFirmwareUpdate, MCScenario, MCPeripherals
                  instances for TLC; one .cfg per run
```

### Engine

`eng` is the record of the engine's members; `calls`, `disconnects` and `clears`
only bound the environment.  Each public method of the class first moves itself
to the engine's thread (`QMetaObject::invokeMethod(..., Qt::QueuedConnection)`), so
a slot runs to its end undisturbed: **an action is one slot**, with everything it
calls.  The private methods are operators from an engine state to an engine state
and are chained in the order of the code:

| code | model |
|---|---|
| `m_states` | `eng.states` (no entry = `Idle`, as `getState` says) |
| `PPBContext` with a command and not `operationCompleted` | `eng.cur[a]`, with the number of the start; every slot treats a completed context as it treats none, so both are `NoOp` |
| `m_queues` | `eng.queues` |
| `m_groupOperations`, `m_pendingGroupCommands` | `eng.groups`, `eng.pending` |
| `QTimer::singleShot(0, processNextCommandForAddress)` | `eng.posted` |
| `m_busy` | `eng.busy` |
| datagrams sent so far | `eng.sent`; a reply to any of them may arrive at any time, any number of times |
| signals of the last slot | `eng.done`, `eng.reports`, `eng.fu` |
| `executeCommandImmediately` | `ExecuteImmediately`, `StartAll` |
| `completeOperation` | `Complete` = `MarkDone`, `Transition`, `SettleGroups`, `TryStartPendingGroup` |
| `onDataReceived` | `OnDatagram` = `OnActive` or `OnIdle` |
| `processCommandQueue` | `ProcessCommandQueue`: address 0 first, then all PPBs at once, which is what the loop in key order does, as starting a command at one PPB disturbs no other |

Abstractions, all of data: a datagram is a *form* (what the two parsers of
`ProtocolAdapter` can tell apart), an address and an echo; parsing succeeds
(`data`) or fails (`junk`) by the choice of the environment; commands whose
objects behave alike are represented by one or two of them (`DataCmds`, `PlainCmds`,
`AckCmds`, PRBS_S2M, IS_YOU, VOLUME).  The freed context that is read after a
failed PRBS_S2M (`communicationengine.cpp:687`) is a nondeterministic choice
(`stale`).  The local send of a request succeeds, except for VOLUME, the only one
that looks at the outcome (`sentOk`).  A group is submitted to a nonempty mask;
the empty one is refused before any state changes.

### GroupService and EngineGroups

`GroupService` is the promise of `executeGroupCommand` to a caller: an accepted
group ends once, in the step in which the last of its PPBs completes, with
success exactly if all of them succeeded; only a disconnect may drop it.
`EngineGroups` adds the history variable `book`, what a listener of the signals
can write down, and shows that the engine implements the service
(`Service!Spec`).  The history takes outcomes from the completions and verdicts
from the reports, so the engine's bookkeeping is compared with what happened.

### FirmwareUpdate

`PPBController::updateFirmware` is one function that waits in nested event loops while
the engine works in a thread of its own.  The module EXTENDS `Engine` and adds the
session (`upd`), the two queues between the threads and the static members of
`VolumeCommand`; it uses the engine's actions as they are.

| code | model |
|---|---|
| where `updateFirmware` is, `targetMask`, `groupId`, the connected handler | `upd.stage`, `upd.target`, `upd.group`, `upd.conn` (the number of the wait; 0 if none) |
| `invokeInThread` (`QueuedConnection`) | a call appended to `toEngine`; `Serve` runs the first one |
| blocking calls (`isBusy`, `executeGroupCommand`) | actions of the controller that need `toEngine` to be empty and read or change the engine in one step: events posted to a thread are served in order, and the caller is blocked meanwhile |
| signals to a handler with `QueuedConnection` | `Signals` appends to `toController` what the handler of the current wait is told of; `Deliver` takes the first one |
| `QTimer timeout` of a wait | `WaitTimeout`, at any moment of the wait |
| `s_currentPayload`, `s_useCustomData` | `data`, the number of the block, 0 after `clearCurrentVolumeData` |
| `updateFirmware` up to the read of the HEX file, and the rest up to the first wait | `Start` and `Begin`: the engine goes on between them |
| `executeGroupAndWait`, the VOLUME loop, `executeAndWait` | `CallGroup`, `SendVolume`, `Proceed` and `Abort` |
| `commandBlockedByFirmwareUpdate` | `UserCommand` needs `upd.stage = "off"` |

A wait that ends disconnects its handler, but a signal already posted still runs the
lambda (Qt keeps the slot object until the event is delivered), and this lambda has
captured locals by reference that no longer exist.  In the model it either changes
nothing anybody reads or, if the update is in a wait of the same kind, whose locals
may lie in the same place, it acts as the signal of this wait.  Only in a group's wait it
cannot: what lies in that place is the number of the new group, which the signal does not
have, and the lambda returns.  Other corruption of the stack is not modelled.

`GroupSignal` says whether the group completion reaches the controller.  In the
repository it does not (section 6, 2), so that no update gets beyond VERS: this is what
*GroupSignalLost* shows and the theorem `UpdatesStopAtVers` states of the program as it is.
The passing runs set `GroupSignal` to TRUE, which is what `ICommunication` declares and the
controller relies on.  **All that they show of what comes after VERS (PROGRAMM, the stream,
UPDATE, CLEAN) holds of the code of these stages as it stands in the repository, but is
reached only once the facade forwards that one signal.**  Theorems without a hypothesis on
`GroupSignal` hold of both.  The waits may time out at any moment, as nothing bounds how long
the engine's thread takes.

Left out: the argument checks, the CRC, progress signals; the contents of the blocks (a
block is its number, and `Blocks + 1` is the last one, with the version) are in `HexImage`,
the pause of the auto-poll in `Scenario`.  `disconnect()` and FU requests during an update are refused
by the controller and not part of this module.

### Scenario

The controller in the GUI's thread, the script thread, and what is posted between them.
The command engine is only "so many commands of this kind in flight to this PPB".

| code | model |
|---|---|
| `m_scenarioRunning`, `m_scenarioEngine`, `m_scenarioFileName`, `m_firmwareUpdateRunning`, auto-poll | fields of `gui` |
| `loadScenario` in its nested loop | an entry of `gui.frames`; loads clicked in that loop nest, and only the innermost one can return |
| `BlockingQueuedConnection` to the script thread | `gui.blocked`: nothing of the controller is served |
| `QMetaObject::invokeMethod(scenarioEngine, ...)`, `deleteLater` | `toScript`; `ScriptThreadServes` takes the first |
| calls of a script to the controller, `finished` | `toGui`; `ServeCall`, `ServeLaunch`, `ServeUnlaunch`, `OnFinished` |
| `waitForCommand`: prologue, launch with connected handler, loop, disconnect | `script.pc` = `launch`, `armed`, `wait`, `unlaunch` |
| `m_stopRequested` of each engine | `stop` |
| Lua between two calls of the API | free choice: a call, a wait, the end, or none of them for ever |
| the hook every 10000 instructions | `HookStops` |
| `~PPBController` | `Close`, `CloseDeletes` |

`OnCommandCompleted` runs the handler of the wait at once when it is connected; a loop that
has not started yet is not there to be quit, and the wait then ends with its timeout.  The
completion of an FU command is never forwarded (communicationengine.cpp:731), so
`setFUReceive` and `setFUTransmit` of a script always wait until their timeout.

Assumed: the text of a file outside its functions calls nothing of the API and ends (the
controller is blocked while it runs, so anything else stops both threads); a loop that has
been told to quit takes no more input before it returns; the main event loop is not quit
inside a nested one.

`OnFinished` is one step for two events of the code: the end of a script clears
`m_scenarioRunning` by one handler (ppbcontrollerlib.cpp:1303-1307) and ends the loop of a load
that waits by another (1264-1268).  One `emit` posts them one after the other, and Qt serves what is
posted before it takes input; in between, the timer `statePoll` of the load sees the flag and does what the
second event does.  Not covered is a script thread that is suspended between the two posts for so
long that the user clicks on Run: the load would then replace the engine of the script just started.

### Generator

`GrattenGa1483Controller` on `LanInterface`: one thread, blocked by a call.  `link.out`
and `link.in` are the two directions of the connection, `lan.buffer` the read buffer.
`verifySetCommand` is `Attempt` (command, pause, query), `Hear` or `Timeout` (the query
returns or is sent again), and `Answered`, what the loop makes of it, with the question for
the device's error.  The generator may refuse a value, not answer, and be slow; lines carry no
mark of the query they answer.  A line for another query reads as anything; a silence reads as
0 or OFF.  What is read is taken for the value that was set when it is within `Tolerance` of it (`Near`;
abstractscpicontroller.cpp:47): 1 Hz for a frequency (grattenga1483controller.cpp:112, 174), 0.1 dBm
for the amplitude and 0.1 % for the depth (142, 188), nothing for what is ON or OFF.  So a set that the generator
refuses returns true if the old value is within the tolerance of the new one, and a silence
verifies OFF and every number within the tolerance of 0.  `VerifiedIsApplied` says what is left: what has
been verified by an answer is within the tolerance, what by silence is such a value.  It is about sets
that have asked with no older answer under way (`call.clean`); an answer to a query that was sent again on
timeout may be taken for that of the next query, and nothing in the code tells them apart.  The AKIP generator (`AkipFacade` on `UsbInterface`) has no such loop: it writes a
command and takes it for done; it is not modelled.

### LogFile

One `FileHandler`: a full buffer or the flush timer writes, a file of `MaxSize` rotates.
`Rename` is `QFile::rename`, which does not overwrite; a file that cannot be renamed is appended to.  A user or a tool may remove backups at
any moment (`RemoveBackup`), which is when the names become free again.  Assumed: one thread
(section 5), and that `m_file.write` writes what it is given: `flush` does not look at what it
returns (logdistributor.cpp:118) and clears the buffer, so that on a full disk entries are lost.
`NoLineLost` is about rotation.  That the buffer is written in time is left to the flush timer.

### HexImage

`parseHexToDataBlocks` line by line over every text of up to `MaxTextLines` lines, and
`buildVolumePayloads`.  A line is its record type, its number of data bytes, and whether its address is zero;
a byte of the image is the line and the place it came from.  A line with a wrong checksum or
length is `broken`.

### StatusData

`StatusCommand::parseResponseData`, `processStatusData` and the power settings.  A word is
the number of the answer and its place in the payload, so that it shows of which answer and of
which bit every half of a field is.

### Releases

`handleReleaseList` over every list of `Listings`, `offerUpdate`, `downloadAndInstall`.  A
version is a core rank and its prerelease identifiers.  `Acceptable` is the guard of the code, which
tells a prerelease by GitHub's mark (updatemanager.cpp:174).  `OfferIsBest` does not use it: it goes by
`MayReceive`, the update policy of docs/PROJECT_RULES.md:77-84, by which a stable build ignores
prereleases, told by their versions.  The two agree because `ReleasesAssumption` says that marks
agree with tags (`MarkedByItsTag`), which the workflow that makes a release sees to
(.github/workflows/windows-installer.yml:178-180; PROJECT_RULES.md:95).  A prerelease that somebody
publishes by hand without the mark would be offered to a stable build.  The check for updates is made once per
run of the program, so a behavior is one check.

### MCPeripherals

The five modules above are checked in one run that chooses one of them at the start
(`part`); the others stand still, so the state space is the sum and not the product.
`GeneratorFairness` is met trivially when another part has been chosen.

## 3. Runs

| run | instance | question |
|---|---|---|
| EngineFaults | 1 PPB with PRBS_S2M, TS and a TS group; VOLUME, UPDATE and IS_YOU at address 0; FU; a disconnect and a clear at any moment; 3 calls | do operations keep their identity under stale replies and nested starts and completions: busy is exact, a busy address has its operation, none is replaced unreported or completed twice, what leaves a queue is started |
| GroupsServed | 2 PPBs, TC, VERS groups on every mask, a disconnect, 3 calls | does the engine implement the service; does a group wait only for what is its own, and is there always somebody to wake a waiting group |
| EngineDrain | 2 PPBs, TC, UPDATE, VERS groups, a disconnect and a clear, 2 calls, fairness | does the engine always come to rest, with every group reported or dropped |
| UpdateTwice | 1 PPB, 2 updates of 2 blocks and the version, a user's CLEAN, VERS or IS_YOU; group signal forwarded | are blocks and outcomes of an aborted update kept apart from those of the next; is success announced only after the groups, the whole image and UPDATE |
| UpdateEnds | 2 PPBs, 1 update of 1 block, a user's CLEAN to one of them, fairness; group signal forwarded | does every target confirm before the stream, does the update always return |
| Scenario | 1 PPB, TS, TC and FU; 2 loads, 2 runs, 1 update, 1 command of the user or the auto-poll; fairness | do load, run, stop, update and teardown get along with the script thread |
| Peripherals | see `Peripherals.cfg` and `MCPeripherals` | the safety and liveness of the five small modules |
| BarrierBypass, GroupSignalLost, LateDataConfirms, OthersAnswer, CloseHangs | smallest instance that shows it | disagreements with comments and documents, see 6 |

**Bounds.**  `MaxCalls` bounds the calls that start or queue work, `connectToPPB` (which
queues a TS) included.  Three is enough for the cases that matter: one operation
running, one waiting behind it and one that overtakes, a group that waits for two
single commands, a group that waits behind a group.  The environment is not
bounded: each reply may be repeated for ever, and timeouts may come first.  Two PPBs are the
least for a group that is half finished; one PPB is enough where the question is
about one address and address 0.  Groups go over every nonempty mask.  One
disconnect and one clear, at any moment, leave orphans and holes in every state.

In the update runs one user command before an update is enough for an operation or a
queued command that the update did not start; the update's clearing of the queues and its
waits meet it in every state.  Two updates are needed for a signal, a queued command or a
block that outlives its session, and two blocks and the version for the three
kinds of VOLUME.  `MaxCalls` and `MaxClears` are so large there that they never bind.
`UpdateEnds` has one update of one block: its questions are about the groups and the waits,
and a second PPB is what a group needs to be half answered.

*Scenario* has about 330,000 states.  Two loads and two runs are the least for a load inside a
load, a run of the file that another load is waiting to replace, and an engine that is
deleted while another one exists; stops, starts and stops of the auto-poll and the timeouts are
unbounded.  A script runs for any length of time.

*Peripherals* has about 119,000 states.  A frequency has three values and a tolerance of one
step, so that two of three neighbours are near and the outer ones are not; the output has OFF and
ON.  Two calls of the generator are the least for an answer
that outlives its call; two backups and nine lines rotate more often than there are names; texts
of four lines have every order of data, control and end records, broken and blank lines, and
more blocks than `MaxBlocks`; two answers of a PPB are the least for a code put together from
two; lists of two releases have every pair of versions and flags, marked as their tags say.

**Symmetry** of the PPBs is used in the safety runs only.  In
`GroupsServed` the constants and the properties do not distinguish the PPBs.

**Deadlock** is checked in every run of the engine and of the update: the queue timer
always ticks, so that what must not stop is stated by the liveness properties.  It is not
checked where a behavior really ends: `Scenario`, `OthersAnswer` and `CloseHangs` end when
the controller is destroyed, the parts of `Peripherals` when their bounds are reached or the
installer is started.

**Fairness** (`FairSpec`): weak fairness of the operation timers, of the posted calls
and of the queue timer.  The event loop of the engine's thread runs as long as the
program, single-shot timers are armed by `executeCommandImmediately` and disarmed only by
`completeOperation`, and the queue timer is started by the constructor and never stopped
before the destructor.  Nothing is assumed of the bridge: no reply need ever come.
`FairUpdateSpec` adds that posted calls and signals are served (the event loops of both
threads run, that of the controller as the nested loop of the wait), that the timer of a wait
fires, and that the controller's code between two waits goes on.
`ScenarioFairness`: the event loops of both threads run while they are not blocked, the timers
of a load and of a wait fire, the top level of a file ends.  `HookStops` is strongly fair: Lua
calls the hook again and again while it runs, but a script is outside Lua, in a call, in between,
and the hook's error is assumed not to be caught (a script that calls `pcall` in a loop can).
Nothing is assumed of scripts, which need not end, and of the command engine, which need not
answer.  `GeneratorFairness`: the waits of a call are bounded in time.  Of the network of the update manager nothing is assumed.

Each property of a passing run has a mutant in `PROJECT.json`: an operator next to
the definition it replaces ("Mutant: ..."), a bug one could have written there, which
violates the property under the same configuration.

## 4. Proofs

Every invariant and every action property of a passing run is stated by a theorem, and the
refinement of `GroupService` is proved.  The theorems hold for all values of the constants that
satisfy the named assumptions, which say no more than the code does:

* `ConstantsAssumption` (Engine): which commands users and groups send; the set of PPBs may
  be any set.
* `UpdateAssumption`: finitely many PPBs (`ClearOf` lists them), at least one block, users
  send nothing but IS_YOU to the bridge, and no UPDATE to a PPB: the only place that sends
  UPDATE is the update itself (ppbcontrollerlib.cpp:1746).
* `ScenarioAssumption`: a PPB, and a bound of at least one on the commands in flight.
* `GeneratorAssumption`: at least one attempt, 0 is a value (it is how a silence reads), and no setting has
  the name of the identification or of the error query; tolerances are numbers, any.
* `ReleasesAssumption`: types, and marks that agree with tags (section 2).
* `StatusAssumption`, `HexAssumption`, `LogAssumption`: types, and sizes that are not 0.

One theorem has a hypothesis of its own: `UpdatesStopAtVers` assumes `~GroupSignal`, which is the
repository as it is.

| theorem | module | states |
|---|---|---|
| `Invariance`, `TypeCorrect`, `BusyCorrect`, `NoWedgedAddress`, `GroupsWaitForTheirOwn`, `NoLostWakeup` | EngineProofs | `Inv`; `TypeOK`, `BusyIsExact`, `SendingHasOperation`, `GroupMembersInFlight`, `PendingGroupHasWakeup` |
| `OperationsAreNumbered`, `EveryEndIsReported`, `CompletionsAreExact`, `NoCommandIsDropped` | EngineStepProofs | `StepInvariant`; `NoSilentLoss`, `CompletionIsFinal`, `DequeuedMeansStarted` |
| `BookAgrees`, `GroupsAreServed`, `OnlyDisconnectDrops` | EngineGroupsProofs | `BookInv`; `EveryGroupIsServed` (the refinement), `DroppedByDisconnectOnly` |
| `UpdateInvariance`, `UpdateTypes`, `BlocksLeaveInOrder`, `BootloadersFirst`, `SuccessIsOfWholeImage`, `BlockDataIsAlone`, `UpdatesStopAtVers`, `EngineServesUpdates` | FirmwareUpdateProofs | `UpdateInv`; `UpdateTypeOK`, `BlocksInOrder`, `StreamAfterBootloader`, `SuccessMeansSent`, `BlockDataHasOneUser`; where every update of the program as it is ends; the engine's `Inv` |
| `ScenarioInvariance`, `ScenarioTypes`, `EngineOutlives`, `RunningFlag`, `UpdateExcludes`, `HandlerInside`, `RunsLoaded`, `PollSurvives` | ScenarioProofs | `Inv` and all invariants of the *Scenario* run |
| `GeneratorInvariance`, `GeneratorTyped`, `VerifiedSetIsApplied` | GeneratorProofs | `GeneratorInv`; `GeneratorTypeOK`, `VerifiedIsApplied` |
| `OnlyWholeInstallers`, `BestIsOffered`, `SettingsStayTheUsers`, `FieldsStayWhole`, `HexInvariance`, `ImageIsSent`, `OnlyWellFormedIsSent`, `NoLineIsLost` | PeripheralsProofs | `InstallerIsWhole`, `OfferIsBest`, `AnswersKeepSettings`, `FieldsAreWhole`; `HexInv`, `VolumesAreTheImage`, `SentIfWellFormed`; `NoLineLost` |

### The engine (EngineProofs, EngineStepProofs)

The invariant `Inv` says that the engine's record is `Healthy`: well typed, the four
properties, and no waiting group with an empty mask (without which such a group would be
started with nobody to wait for, so this conjunct is what makes the rest inductive).
Because a slot is a chain of operators, the proof follows the chain.  In the middle of a
slot less holds: an operation is marked completed before its address leaves
SendingCommand, and before the waiting groups have been looked at nobody need be there
to wake them.  `Sound` is `Healthy` without the wake-up, and there is one lemma per
operator (`CompleteHealthy`, `TryStartHealthy`, `ExecuteImmediatelyHealthy`,
`OnActiveHealthy`, ...) that says what it needs and what it restores; `StepInv` has one
step per action, and each is the lemma of its outermost operator.

An action property compares the two ends of a slot, but slots nest, so it is proved of
every state inside the slot against the one in which it began.  Those states form a set that
is *closed* under the private methods (`Closed`: under ending operations and under starting
them), and `SlotStays` says that a slot never leaves a closed set.  Each property then
takes a set and two lemmas.  `During` is the set for the first two properties: what
was active at the start is active still or reported, and what is reported is either that, once, or has
a number given out since (`StepInvariant` says that numbers in use are below `nextOp`).
`Kept` is the set for `DequeuedMeansStarted`: operations that start and end leave the queues
and the reports alone, so that one that was started is active or reported at the end
(`StartedAt`).

### The group service (EngineGroupsProofs)

`BookInv` ties each entry of the history `book` to the engine: an open group is either pending, with
the mask it was accepted with, or runs and waits for exactly those of its members that have
not answered; the operations it counts are those with its start's number.  `Tracks` states
the same tie inside a slot, `TiedClosed` shows that the private methods keep it, and
`WrittenKeeps`, `WrittenRuns` and `WrittenEnds` turn it into the next entry at the end of the
slot.  `TiedIsServed` maps that to a step of the service: `Accepts`, `Completes`, `Drops` or a
stutter, for each group at once.

### The update (FirmwareUpdateProofs)

`UpdateInv` is inductive and consists of

* `AtRest`: the engine's `Inv`, and only such commands active, queued and in groups as the update and
  the users send (`Calm`, `Queued`); no VOLUME is ever active between two slots,
* `Route`: at most one VOLUME is *under way*, in the calls or in the queue of address 0, and behind one that
  an abort has left there is the clear that removes it,
* `WaitsOK`, `EventsOK`: a handler is connected when a wait is on; a signal that still waits for the controller is
  of this stage or the one before (`SignalsAt`), and one of the current wait that says ok speaks of a
  command that has in fact succeeded,
* `StreamOK`: while a VOLUME is under way, the static members hold the next block of the image,
* `ReachedOK`: the stages passed have succeeded.

The conjuncts need each other: a block could only leave twice if two VOLUMEs were under
way, which only a stale signal that is taken for the current one could bring about, which
`SignalsAt` excludes.  `Emits(q, V)` is the closed set that says what a slot does to VOLUME.

`SuccessIsOfWholeImage`: when success is announced the groups and UPDATE have succeeded and the image has left
whole and in order, whatever users send.  UPDATE needs that nobody else sends it, since
`executeAndWait` does not look at the address of a completion; for CLEAN, which users send too, the like is
false (section 6, 8), and the theorem says nothing of it.  `UpdatesStopAtVers` is about the program as
it is: without the group signal nothing that says ok is ever posted for a group's wait, so that a stage after
VERS, a block and a success do not occur (`StopsAtVers`).  `EngineServesUpdates`: the engine is healthy
with this caller too.

### The scenario (ScenarioProofs)

What is hard to see in the code is the argument: the two threads hand each other the turn.
`Modes` says that they are at any moment in one of seven modes (at rest, called, running,
ended, replacing an engine, loading, deleting), and what is posted to either thread in each of
them: nothing but what the mode is about.  So no `load` or `deleteLater` can be in the script
thread's queue while Lua runs, although nothing in the code looks at that queue.  `Others`
says what the controller keeps besides: the name of the file is that of the engine or none; a
waiting load is told of an end only when there is one (without which the innermost load could
replace the engine of a script started in between); no update runs beside a script; the
guard of an update restarts the poll's timer.  `StepInv` has one step per action, the same five
steps under each: the three types, the mode, the others; the lemmas before it say what adding,
telling and returning a frame does to the sequence of frames (`FrameAdded`, `FrameToldToQuit`,
`FramesToldOfEnd`, `FrameReturned`), that what a mode posts has its type (`PostedTypes`), and
what a replacement (`Replaced`) and a call taken from the queue (`Taken`) mean for the mode.

### The generator (GeneratorProofs)

`OwnAnswer`: after a set command has asked with nothing else under way (`call.clean`), its query is the
last line on the way out, nothing has come in while it is, and what comes in answers it with
the value the generator holds, and `NearIsVerified` takes it from there to the value that was set.  `DeviceStep` is the step that needs it: the lines written
before the query are taken before it, so the setting no longer changes once it is answered.

### The small modules (PeripheralsProofs, SequenceInduction)

These are loops over data, written as folds.  The induction theorems of the library take an operator as
a parameter and cannot be instantiated here, so `SequenceInduction` states induction about a set
(`AllNumbers`, from the least element of a set of numbers) and proves that a function defined by
recursion exists (`FoldExists`); `FoldIsRecursive` then makes of a fold a function of the number of turns,
`FlattenAppend` and `FlattenConcat` say what a `FlattenSeq` does, and what a loop does is shown by induction
on its turns.

* **Releases**: `PrecedesTransitive`, `PrecedesIrreflexive` and `ComparesVersions`: the comparison
  orders versions, by the place at which two prereleases part (`Parts`).  The loop of
  `handleReleaseList` holds after each turn a best one of the releases seen (`BestIsBest`); what its
  guard accepts is what the policy lets this build receive (`AcceptableByPolicy`).
* **StatusData**: `StatusShows`: what an answer shows of a field, as a function of its mask; and `ShowsAnswers`: a
  field has the words of the last answer that had all of it (`CodeAfter`).
* **HexImage**: `PiecesFlatten`: cutting into pieces and putting together is the identity, for
  chunks and for volumes, and `FlattenTwice` puts the two together; `Counts` says how many pieces there are.  `Faithful`:
  while a text is read, the blocks are those of its image and the flags tell what kinds of lines have come;
  a line that is refused makes the text one that is not well formed (`LineRead`).
* **LogFile**: `InOrder` says of the rotation what its loop keeps: the files, from the oldest to the base file, are
  in order, and hold the same lines (`Held`); a renaming only moves a file to a free name next to
  it (`RenameKeeps`), so that the order of the loop, last to first, does not matter to it, and a
  file that cannot be renamed is appended to.

### What is only model-checked

Liveness (`AllWorkDrains`, `EveryGroupEnds`, `UpdateEnds`, `StopEndsScript`, `LoadReturns`, `WaitEnds`,
`CallEnds`): fairness and ENABLED are out of the prover's reach.  And the
five properties of section 6 that a run refutes.

## 5. Not modelled

Most C++ files of the repository are not the program's own: sol2, Lua and the CH375 driver are
vendored and make up about 50,000 of its lines.  Of the other 19,000 about half are widgets,
windows and tests.  What has state and an order of its own is in the modules above; the rest is:

* **Packet builder, byte layouts**: pure conversions without state.
* **UDP client**: a socket in the engine's thread; what it does to datagrams is the
  environment of `Engine`.  A failed `bind` is not retried, and every send then fails, which
  is `sentOk = FALSE`.
* **Packet analyzer**: compares two lists by index.  Nothing feeds it: `notifySentPackets` and
  `notifyReceivedPackets` are ignored by the engine (communicationengine.cpp:53-61), so that a
  scenario always analyzes two empty lists.
* **Payloads other than that of TS**: one number each, only shown.  **Data converters**: casts;
  `codeToVSWR` (dataconverter.cpp:34) reads two bytes beyond its variable, but what is
  shown is the subject of no property.
* **Controller**: the flags of a TC, the tables of FU parameters, the full test.
* **Logging**: distribution over channels, formats, and the threads: handlers have no lock, and
  a data race of a buffer has no bounded set of outcomes.  That the base file can be opened
  again after a rotation, and that a write succeeds (its result is not looked at), is assumed; the
  code has no way back if not.
* **Firmware update**: the CRC and the range check of the version.
* **The end of the process**: `quit()` after a download ends also the nested loop in which a
  firmware update waits.
* **The AKIP generator and its USB driver, GUI, performance monitor, vendored libraries.**

## 6. Disagreements between code and comments

Shown by a run:

1. *BarrierBypass.*  A comment of `processCommandQueue` (587) says that address 0 stays behind every
   active or pending group.  Two commands are sent to address 0 before a
   group is; the first one's completion posts `processNextCommandForAddress`, which starts the
   second one beside the group.
2. *GroupSignalLost.*  A comment of `executeGroupAndWait` (1551) says that the handler is connected before
   the call so that no response, however fast, can beat it.  The handler is connected to
   `ICommunication::groupCommandCompleted`; `CommunicationFacade` declares another signal of that
   name and emits this one.  The group completes, the wait does not hear of it and times
   out after 5 s, and every update is aborted at VERS.
3. *LateDataConfirms.*  PROGRAMM expects no packets, and the comment of the default OK handler
   (commandandoperation.h:50) says that only a command that expects some waits for data.  But the default
   data handler accepts any reply.  A user's VERS to a PPB is answered twice; the second answer arrives while the
   user's PROGRAMM to the same PPB is active, and PROGRAMM completes with success although the PPB has not
   confirmed it.  The run ends there.  It is this completion of the engine by which `updateFirmware` would go
   when its comment (1536) demands that every target has confirmed before VOLUME begins; in the program
   as it is no update comes that far, because of 2.
4. *OthersAnswer.*  The documentation of scripts (scripts_incructiom.md:23) says that `sendTC(addr)`
   returns true on success.  `waitForCommand` ignores its address and takes any completion of the kind
   it awaits: the TC a user has sent to another PPB makes the script's call return true.
5. *CloseHangs.*  A comment of the destructor (ppbcontrollerlib.cpp:168) says that the hook and the polling make
   the normal path bounded.  `execute()` clears `m_stopRequested` when it begins: a controller that is
   destroyed between `runScenario` and `execute` loses its request and waits until the script
   ends by itself.

In the model, but not the subject of a run:

6. A comment of `onDataReceived` (communicationengine.cpp:652) says that an ACK of a previous
   operation must not complete the operation that is active now.  TC is active and a
   group waits for the same PPB; the ACK of TC arrives; `onOkReceived` completes TC, and this
   starts the group on the same address, in the same context; the engine then
   finds the context not completed and completes the group's operation with success.
7. A comment of TS (commandandoperation.cpp:120) says that it succeeds only with its packets.  The
   failure reply of an FU RECEIVE is `[addr][0][0]` and reads as the OK of TS; the OK
   handler waits for data, but the engine completes the operation right after it.
8. A comment of `updateFirmware` (ppbcontrollerlib.cpp:1744) says that success is published only after
   both UPDATE and CLEAN have been confirmed.  The handler of `executeAndWait` looks at the command of
   a completion and not at its address.  With two PPBs, a user's CLEAN to one of them (pult.cpp:162)
   that is still active when the update awaits the CLEAN of the bridge is taken for it.  This can
   happen only after VERS, that is, once the group signal is forwarded (2); so it is stated here and no
   run shows it.  `SuccessMeansSent` says what is true of a success: CLEAN is not part of it.

## 7. Plan

Every line is a module or a group of modules.

1. **Engine, GroupService, EngineGroups, EngineProofs**: done.
2. **FirmwareUpdate**: done.
3. **Scenario**, with the controller's guards, auto-poll and the exclusion of update and
   scenario: done.
4. **HexImage, StatusData, Releases**, pure algorithms against reference definitions over bounded
   inputs: done.
5. **Generator, LogFile**: done.
6. **ScenarioProofs**, and the proofs of all other modules (section 4): done.
7. **Proofs**, to do: the engine's action properties with the update as its caller, so that
   `NoSilentLoss`, `CompletionIsFinal` and `DequeuedMeansStarted` are known of `UpdateSpec` too
   (the lemmas on slots do not mention the caller; what is missing is the numbering of the
   update's own calls); and what the disagreements of section 6 leave true: what a
   PROGRAMM that completes, or a `true` that a script's call returns, does say.
