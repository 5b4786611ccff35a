---------------------------- MODULE FirmwareUpdate ----------------------------
(***************************************************************************)
(* PPBController::updateFirmware, on top of the command engine.            *)
(*                                                                         *)
(* The update is one function of the controller's thread that waits in     *)
(* nested event loops; the engine works in a thread of its own.  Calls go  *)
(* to the engine through the event queue of its thread, in order; signals  *)
(* come back through that of the controller's thread.  isBusy and          *)
(* executeGroupCommand block: they run when everything posted before them  *)
(* has run, and nothing of the controller happens meanwhile.               *)
(***************************************************************************)
EXTENDS Engine, SequencesExt

CONSTANTS
  Blocks,       (* VOLUME blocks of the image; one more carries the version   *)
  MaxSessions,  (* bound: updates started                                     *)
  MaxForeign,   (* bound: commands the user sends while no update runs        *)
  GroupSignal   (* TRUE if groupCommandCompleted reaches the controller: the  *)
                (* facade declares a second signal of that name and emits it  *)

(* What the user sends to address 0 is the IS_YOU of the tester's window;  *)
(* nobody but the update sends UPDATE.                                     *)
ASSUME UpdateAssumption ==
  /\ IsFiniteSet(Addr)
  /\ Blocks \in Nat \ {0} /\ MaxSessions \in Nat /\ MaxForeign \in Nat
  /\ GroupSignal \in BOOLEAN /\ ZeroCmds \subseteq {"IS_YOU"} /\ "UPDATE" \notin AddrCmds

VARIABLES
  upd,          (* the update, see Update                                     *)
  foreign,      (* commands of the user so far                                *)
  toEngine,     (* calls posted to the engine's thread                        *)
  toController, (* signals posted to the handlers of the update's waits       *)
  data,         (* the block in VolumeCommand's static members, 0 for none    *)
  wire,         (* history: the blocks that have left since the update began  *)
  reached       (* history: the commands of the update that have succeeded    *)

link    == <<toEngine, toController>>
history == <<wire, reached>>
allVars == <<vars, upd, foreign, link, data, history>>

(***************************************************************************)
(*   stage   where updateFirmware is; off when it does not run             *)
(*   block   the last block given to VOLUME                                *)
(*   target  targetMask                                                    *)
(*   group   groupId                                                       *)
(*   conn    the wait whose handler is connected, 0 if none                *)
(*   waits   the waits so far                                              *)
(*   count   the updates so far                                            *)
(*   verdict what the last one has told the user                           *)
(***************************************************************************)
GroupStages == {"VERS", "PROGRAMM"}
Stages == {"off", "parse", "IS_YOU", "VOLUME", "UPDATE", "CLEAN"} \cup GroupStages
Update == [stage : Stages, block : 0 .. Blocks + 1, target : SUBSET Addr, group : Nat,
           conn : Nat, waits : Nat, count : Nat, verdict : {"none", "success", "failed"}]

Call  == [call : {"exec", "clear"}, addr : Addr0, cmd : Commands \cup {None}]
Event == [wait : Nat, stage : Stages, ok : BOOLEAN, mask : Addr0 \cup {Other, None}]

Exec(a, c) == [call |-> "exec", addr |-> a, cmd |-> c]
Clear(a)   == [call |-> "clear", addr |-> a, cmd |-> None]
ClearOf(as) == [i \in 1 .. Cardinality(as) |-> Clear(SetToSeq(as)[i])]

-----------------------------------------------------------------------------
(* The engine's thread *)

(* The completions in e that the handler of the current wait is told of,   *)
(* as far as the signal gets to the controller.  mask is that of an IS_YOU *)
(* answer; the lambda of IS_YOU waits for the data and not for the         *)
(* completion.                                                             *)
Heard(e) ==
  IF upd.stage \in GroupStages
  THEN {r.ok : r \in {r \in e.reports : GroupSignal /\ r.id = upd.group}}
  ELSE {r.ok : r \in {r \in e.done : r.cmd = upd.stage /\ (upd.stage = "IS_YOU" => r.ok /\ r.addr = Zero)}}

Signals(mask) ==
  toController' =
    IF upd.conn = 0 THEN toController
    ELSE toController \o SetToSeq({[wait |-> upd.conn, stage |-> upd.stage, ok |-> ok, mask |-> mask] :
                                   ok \in Heard(eng')})

(* What a slot of the engine does to VOLUME's data and to the wire.  A     *)
(* VOLUME with no data is not sent; sent or not, its data is gone.         *)
Streams ==
  LET volumes == {r \in eng'.done : r.cmd = "VOLUME"}
  IN  IF volumes = {} THEN UNCHANGED <<data, wire>>
      ELSE /\ \A r \in volumes : r.ok => data # 0
           /\ data' = 0
           /\ wire' = IF \E r \in volumes : r.ok THEN Append(wire, data) ELSE wire

(* The milestones of the update, from the engine's own outcomes. *)
Reaches ==
  reached' = reached
    \cup {upd.stage : r \in {r \in eng'.reports : r.id = upd.group /\ r.ok /\ upd.stage \in GroupStages}}
    \cup {r.cmd : r \in {r \in eng'.done : r.ok /\ r.addr = Zero /\ r.cmd = upd.stage}}

EngineSlot(mask) == Signals(mask) /\ Streams /\ Reaches /\ UNCHANGED <<upd, foreign>>

Serve(sentOk) ==
  /\ toEngine # <<>>
  /\ toEngine' = Tail(toEngine)
  /\ LET c == Head(toEngine)
     IN  \/ c.call = "exec" /\ ExecuteCommand(c.addr, c.cmd, sentOk)
         \/ c.call = "clear" /\ ClearCommandQueue(c.addr)
  /\ EngineSlot(None)

EngineInternal ==
  /\ \/ \E p \in InFlight, stale \in {"completed", "success", "failure"} :
          OnDatagram(p, stale) /\ EngineSlot(IF p.form = "mask2" THEN p.addr ELSE None)
     \/ \E a \in Addr0 : OnOperationTimeout(a) /\ EngineSlot(None)
     \/ \E sentOk \in BOOLEAN : ProcessCommandQueue(sentOk) /\ EngineSlot(None)
     \/ \E a \in Addr0, sentOk \in BOOLEAN :
          ProcessNextCommandForAddress(a, sentOk) /\ EngineSlot(None)
  /\ UNCHANGED toEngine

-----------------------------------------------------------------------------
(* The controller's thread *)

Post(sequence) == toEngine' = toEngine \o sequence

(* A new wait: its handler is connected before its command is posted. *)
Waiting(u, stage) == [u EXCEPT !.stage = stage, !.conn = u.waits + 1, !.waits = @ + 1]

(* The abort of the current stage, and the calls it posts. *)
Failed(u) == [u EXCEPT !.stage = "off", !.conn = 0, !.verdict = "failed"]
Aborts ==
  CASE upd.stage = "IS_YOU" -> <<>>
    [] upd.stage \in GroupStages -> <<Clear(Zero)>> \o ClearOf(upd.target)
    [] OTHER -> <<Clear(Zero)>>

(* updateFirmware up to its first wait, in two steps: the HEX file is read *)
(* between the question whether the engine is busy and the rest.           *)
Start ==
  /\ upd.stage = "off" /\ upd.count < MaxSessions
  /\ toEngine = <<>> /\ ~eng.busy
  /\ upd' = [upd EXCEPT !.stage = "parse", !.count = @ + 1, !.verdict = "none"]
  /\ UNCHANGED <<vars, foreign, link, data, history>>

Begin ==
  /\ upd.stage = "parse"
  /\ upd' = Waiting([upd EXCEPT !.block = 0, !.target = {}], "IS_YOU")
  /\ Post(<<Clear(Zero)>> \o ClearOf(Addr) \o <<Exec(Zero, "IS_YOU")>>)
  /\ wire' = <<>> /\ reached' = {}
  /\ UNCHANGED <<vars, foreign, toController, data>>

(* executeGroupAndWait up to its wait. *)
CallGroup ==
  /\ upd.stage \in GroupStages /\ upd.conn = 0 /\ toEngine = <<>>
  /\ ExecuteGroupCommand(upd.stage, upd.target)
  /\ upd' = [Waiting(upd, upd.stage) EXCEPT !.group = eng.nextGroup]
  /\ UNCHANGED <<foreign, link, data, history>>

(* Mutant: the index of the block is advanced before the data is taken.    *)
SendVolumeNextData(block) ==
  /\ data' = block + 1
  /\ upd' = [Waiting(upd, "VOLUME") EXCEPT !.block = block]
  /\ Post(<<Exec(Zero, "VOLUME")>>)

(* The next VOLUME block: its data is put into the static members first. *)
SendVolume(block) ==
  /\ data' = block
  /\ upd' = [Waiting(upd, "VOLUME") EXCEPT !.block = block]
  /\ Post(<<Exec(Zero, "VOLUME")>>)

(* The masks that agree with an IS_YOU answer: Other is any mask that is   *)
(* not a single PPB of the model.                                          *)
ActiveMasks(m) == IF m \in Addr THEN {{m}} ELSE IF m = Zero THEN {{}} ELSE SUBSET Addr

(* What follows a stage that has succeeded. *)
Proceed(stage, mask) ==
  \/ /\ stage = "IS_YOU"
     /\ \E target \in UNION {SUBSET m : m \in ActiveMasks(mask)} :
          upd' = IF target = {} THEN Failed(upd)
                 ELSE [upd EXCEPT !.stage = "VERS", !.target = target, !.conn = 0]
     /\ UNCHANGED <<toEngine, data>>
  \/ /\ stage = "VERS"
     /\ upd' = [upd EXCEPT !.stage = "PROGRAMM", !.conn = 0]
     /\ UNCHANGED <<toEngine, data>>
  \/ stage = "PROGRAMM" /\ SendVolume(1)
  \/ stage = "VOLUME" /\ upd.block <= Blocks /\ SendVolume(upd.block + 1)
  \/ /\ stage = "VOLUME" /\ upd.block = Blocks + 1
     /\ upd' = Waiting(upd, "UPDATE") /\ Post(<<Exec(Zero, "UPDATE")>>) /\ UNCHANGED data
  \/ /\ stage = "UPDATE"
     /\ upd' = Waiting(upd, "CLEAN") /\ Post(<<Exec(Zero, "CLEAN")>>) /\ UNCHANGED data
  \/ /\ stage = "CLEAN"
     /\ upd' = [upd EXCEPT !.stage = "off", !.conn = 0, !.verdict = "success"]
     /\ UNCHANGED <<toEngine, data>>

Abort == upd' = Failed(upd) /\ Post(Aborts) /\ UNCHANGED data

Listening == upd.stage = "off" \/ upd.conn # 0

(* Mutant: the end of a wait is taken for the success of its command. *)
DeliverIgnoresOutcome ==
  /\ Listening /\ toController # <<>>
  /\ toController' = Tail(toController)
  /\ LET ev == Head(toController)
     IN  \/ ev.wait = upd.conn /\ Proceed(ev.stage, ev.mask)
         \/ ev.wait # upd.conn /\ UNCHANGED <<upd, toEngine, data>>
         \/ /\ ev.wait # upd.conn /\ ev.stage = upd.stage
            /\ Proceed(ev.stage, ev.mask)
  /\ UNCHANGED <<vars, foreign, history>>

(* A signal is delivered by the event loop of the wait or by the main one. *)
(* A signal that was posted for a wait that has ended still runs its       *)
(* lambda, whose captured variables are gone: it writes nothing anyone     *)
(* reads, or what it writes is where a wait of the same kind keeps its     *)
(* variables now.  In a group's wait the lambda then finds the id of the   *)
(* new group there, and returns.                                           *)
Deliver ==
  /\ Listening /\ toController # <<>>
  /\ toController' = Tail(toController)
  /\ LET ev == Head(toController)
     IN  \/ /\ ev.wait = upd.conn \/ (ev.stage = upd.stage /\ upd.stage \notin GroupStages)
            /\ IF ev.ok THEN Proceed(ev.stage, ev.mask) ELSE Abort
         \/ ev.wait # upd.conn /\ UNCHANGED <<upd, toEngine, data>>
  /\ UNCHANGED <<vars, foreign, history>>

(* Mutant: the wait for the answer to IS_YOU has no timer.                 *)
WaitTimeoutNotOfIsYou ==
  /\ upd.conn # 0 /\ upd.stage # "IS_YOU"
  /\ Abort
  /\ UNCHANGED <<vars, foreign, toController, history>>

(* Mutant: success is the outcome that a wait begins with.                 *)
WaitTimeoutSucceeds ==
  /\ upd.conn # 0
  /\ Proceed(upd.stage, Other)
  /\ UNCHANGED <<vars, foreign, toController, history>>

WaitTimeout ==
  /\ upd.conn # 0
  /\ Abort
  /\ UNCHANGED <<vars, foreign, toController, history>>

(* Commands of the user; none gets through while an update runs. *)
UserCommand(a, c) ==
  /\ upd.stage = "off" /\ foreign < MaxForeign /\ foreign' = foreign + 1
  /\ Post(<<Exec(a, c)>>)
  /\ UNCHANGED <<vars, upd, toController, data, history>>

-----------------------------------------------------------------------------
UpdateInit ==
  /\ Init
  /\ upd = [stage |-> "off", block |-> 0, target |-> {}, group |-> 0, conn |-> 0, waits |-> 0,
            count |-> 0, verdict |-> "none"]
  /\ foreign = 0 /\ toEngine = <<>> /\ toController = <<>> /\ data = 0
  /\ wire = <<>> /\ reached = {}

UpdateNext ==
  \/ \E sentOk \in BOOLEAN : Serve(sentOk)
  \/ EngineInternal
  \/ Start
  \/ Begin
  \/ CallGroup
  \/ Deliver
  \/ WaitTimeout
  \/ \E a \in Addr, c \in AddrCmds : UserCommand(a, c)
  \/ \E c \in ZeroCmds : UserCommand(Zero, c)

UpdateSpec == UpdateInit /\ [][UpdateNext]_allVars

(* The engine's timers and events, the queues between the threads, the     *)
(* timers of the waits; and the controller's code goes on when it can.     *)
UpdateFairness ==
  /\ WF_allVars(\E sentOk \in BOOLEAN : Serve(sentOk))
  /\ \A a \in Addr0 : WF_allVars(OnOperationTimeout(a) /\ EngineSlot(None) /\ UNCHANGED toEngine)
  /\ WF_allVars(\E sentOk \in BOOLEAN : ProcessCommandQueue(sentOk) /\ EngineSlot(None) /\ UNCHANGED toEngine)
  /\ WF_allVars(Begin) /\ WF_allVars(CallGroup) /\ WF_allVars(Deliver) /\ WF_allVars(WaitTimeout)

FairUpdateSpec == UpdateSpec /\ UpdateFairness

-----------------------------------------------------------------------------
UpdateTypeOK ==
  /\ upd \in Update /\ foreign \in Nat
  /\ toEngine \in Seq(Call) /\ toController \in Seq(Event)
  /\ data \in 0 .. Blocks + 1 /\ wire \in Seq(1 .. Blocks + 1)
  /\ reached \subseteq Stages

(* The blocks leave in order, each once, and none that the controller has  *)
(* not given out: what is on the wire is the beginning of the image, also  *)
(* after aborts and in later updates (the VOLUME loop, the static data of  *)
(* VolumeCommand and the clearing of the queue).                           *)
BlocksInOrder ==
  /\ Len(wire) <= upd.block
  /\ \A i \in 1 .. Len(wire) : wire[i] = i

(* No block leaves before every target has confirmed VERS and PROGRAMM.    *)
StreamAfterBootloader == wire # <<>> => GroupStages \subseteq reached

(* Success is announced only when VERS and PROGRAMM have succeeded at      *)
(* every target, all blocks and the version have left, and the bridge's    *)
(* UPDATE has succeeded: these stages are not skipped and take no other    *)
(* command's outcome.  CLEAN may: executeAndWait does not look at the      *)
(* address, and a user's CLEAN to a PPB may be under way.                  *)
SuccessMeansSent ==
  upd.verdict = "success" =>
    /\ GroupStages \cup {"UPDATE"} \subseteq reached
    /\ wire = [i \in 1 .. Blocks + 1 |-> i]

(* The data of a block is never replaced while a VOLUME that would send it *)
(* is on its way: the static members have one user at a time, although two *)
(* threads reach them.                                                     *)
BlockDataHasOneUser ==
  [][data' # data /\ data' # 0 =>
       /\ \A i \in 1 .. Len(toEngine) : toEngine[i].cmd # "VOLUME"
       /\ \A i \in 1 .. Len(eng.queues[Zero]) : eng.queues[Zero][i] # "VOLUME"]_allVars

(* Every update ends, whatever the bridge does. *)
UpdateEnds == upd.stage # "off" ~> upd.stage = "off"

-----------------------------------------------------------------------------
(* What a comment of the code says, and the code does not do *)

(* "A very fast response must not be able to beat installation of the        *)
(* completion handler": no answer of a group is missed, so that a group      *)
(* stage whose group has succeeded fails only when the timer beats a signal  *)
(* that is on its way.                                                       *)
GroupOutcomeIsSeen ==
  [][upd.stage \in GroupStages \cap reached /\ upd'.stage = "off" =>
       \E i \in 1 .. Len(toController) : toController[i].wait = upd.conn /\ toController[i].ok]_allVars
=============================================================================
