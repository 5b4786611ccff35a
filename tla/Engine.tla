------------------------------- MODULE Engine -------------------------------
(***************************************************************************)
(* The command engine of PPBCommunicationLib (communicationengine.cpp).    *)
(*                                                                         *)
(* The engine lives in one thread with one event loop, and every public    *)
(* method first moves itself to that thread.  So each slot - a call, a     *)
(* datagram, a timer - runs to its end before the next one, together with  *)
(* everything it calls: an action below is one slot.  What a slot does is  *)
(* written as operators from an engine state to an engine state, chained   *)
(* in the order of the code's calls; eng is the engine's members.          *)
(*                                                                         *)
(* The bridge and the PPBs are the environment.  UDP loses, delays,        *)
(* reorders and duplicates: a reply to any request sent so far may arrive  *)
(* at any moment, any number of times.                                     *)
(***************************************************************************)
EXTENDS Naturals, Sequences, FiniteSets

CONSTANTS
  Addr,        (* addresses of single PPBs: the one-bit masks               *)
  Zero,        (* address 0: the bridge itself (IS_YOU, VOLUME, UPDATE...)  *)
  AddrCmds,    (* commands the callers send to one PPB                      *)
  ZeroCmds,    (* commands the callers send to address 0                    *)
  GroupCmds,   (* commands the callers send to a mask of PPBs               *)
  UseFU,       (* TRUE if FU requests are sent                              *)
  MaxCalls,    (* bound: commands and group commands submitted              *)
  MaxDisconnects, (* bound: calls of disconnect()                           *)
  MaxClears    (* bound: calls of clearCommandQueue()                       *)

(***************************************************************************)
(* The commands, by what their PPBCommand subclass does with a reply.      *)
(* Commands that behave alike are represented by one or two of them.       *)
(***************************************************************************)
DataCmds == {"TS", "VERS"}                       \* expectedResponsePackets() > 0
PlainCmds == {"TC", "PROGRAMM", "UPDATE", "CLEAN"} \* take any reply for an answer
AckCmds == PlainCmds \cup {"DROP"}               \* onOkReceived completes
Commands == DataCmds \cup AckCmds \cup {"PRBS_S2M", "IS_YOU", "VOLUME"}

None  == "none"
Other == "other"     \* an address value for which the engine has no context
Addr0 == Addr \cup {Zero}
States == {"Idle", "Ready", "Sending"}
Causes == {"ok", "data", "error", "bridge", "timeout", "local"}

ASSUME ConstantsAssumption ==
  /\ Zero \notin Addr /\ Other \notin Addr /\ Other # Zero
  /\ AddrCmds \subseteq DataCmds \cup AckCmds \cup {"PRBS_S2M"}
  /\ ZeroCmds \subseteq Commands
  /\ GroupCmds \subseteq Commands \ {"TC", "VOLUME", "IS_YOU"}
  /\ UseFU \in BOOLEAN
  /\ MaxCalls \in Nat /\ MaxDisconnects \in Nat /\ MaxClears \in Nat

VARIABLES
  eng,         (* the engine: a record, see EngineState                     *)
  calls,       (* commands and group commands submitted so far              *)
  disconnects, (* calls of disconnect() so far                              *)
  clears       (* calls of clearCommandQueue() so far                       *)

vars == <<eng, calls, disconnects, clears>>

Op == [op : Nat, cmd : Commands \cup {None}]
NoOp == [op |-> 0, cmd |-> None]

(***************************************************************************)
(*   states   m_states, Idle for an address that has no entry              *)
(*   cur      the PPBContext of an address while its operation is not      *)
(*            completed, else NoOp: every slot treats a completed context  *)
(*            as it treats none.  op numbers the starts                    *)
(*   queues   m_queues                                                     *)
(*   groups   m_groupOperations: waiting is pendingAddresses, bad the      *)
(*            addresses with a FALSE result; op is the start of its        *)
(*            members                                                      *)
(*   pending  m_pendingGroupCommands                                       *)
(*   posted   addresses with a singleShot(0) processNextCommandForAddress  *)
(*            in the event loop                                            *)
(*   sent     requests that have left for the bridge                       *)
(*   done, reports, fu   signals of the last slot: commandCompleted,       *)
(*            groupCommandCompleted, fuCommandCompleted                    *)
(***************************************************************************)
Group == [id : Nat, op : Nat, cmd : Commands, waiting : SUBSET Addr, bad : SUBSET Addr]
PendingGroup == [id : Nat, cmd : Commands, mask : SUBSET Addr]
Completion == [addr : Addr0, op : Nat, cmd : Commands \cup {None}, ok : BOOLEAN, cause : Causes]
Report == [id : Nat, op : Nat, ok : BOOLEAN]
Requests == Addr0 \X (Commands \cup {"FU"})

EngineState ==
  [states : [Addr0 -> States], cur : [Addr0 -> Op], queues : [Addr0 -> Seq(Commands)],
   groups : SUBSET Group, pending : Seq(PendingGroup), posted : SUBSET Addr0,
   busy : BOOLEAN, nextOp : Nat, nextGroup : Nat,
   sent : SUBSET Requests,
   done : SUBSET Completion, reports : SUBSET Report, fu : SUBSET Addr0]

-----------------------------------------------------------------------------
(* Tests of the engine's state *)

Active(e, a) == e.cur[a] # NoOp
(* Mutant: a new command does not wait for SendingCommand to end. *)
FreeAlways(e, a) == e.states[a] \in States

Free(e, a) == e.states[a] \in {"Ready", "Idle"}
(* Mutant: one free PPB is enough to start the group. *)
CanStartAny(e, mask) == \E a \in mask : Free(e, a)

CanStart(e, mask) == \A a \in mask : Free(e, a)
GroupsOutstanding(e) == e.groups # {} \/ e.pending # <<>>
Gated(e, a) == a = Zero /\ GroupsOutstanding(e)

-----------------------------------------------------------------------------
(* The private methods *)

UpdateBusy(e) == [e EXCEPT !.busy = \E a \in Addr0 : Active(e, a)]

Enqueue(e, a, c) == [e EXCEPT !.queues[a] = Append(@, c)]

(* Start the operations of f, a function from addresses to commands: what  *)
(* executeCommandImmediately does when the request is sent (by itself, or  *)
(* once for the whole group) and the timer is armed.                       *)
StartAll(e, f) ==
  IF DOMAIN f = {} THEN e ELSE
    UpdateBusy([e EXCEPT
      !.states = [a \in Addr0 |-> IF a \in DOMAIN f THEN "Sending" ELSE e.states[a]],
      !.cur    = [a \in Addr0 |-> IF a \in DOMAIN f
                                  THEN [op |-> e.nextOp, cmd |-> f[a]] ELSE e.cur[a]],
      !.sent   = @ \cup {<<a, f[a]>> : a \in DOMAIN f},
      !.nextOp = @ + 1])

StartGroup(e, g) ==
  LET op == e.nextOp
  IN  StartAll([e EXCEPT !.groups = @ \cup
                  {[id |-> g.id, op |-> op, cmd |-> g.cmd, waiting |-> g.mask, bad |-> {}]}],
               [a \in g.mask |-> g.cmd])

(* Mutant: the waiting group is taken from the queue before it is checked. *)
TryStartPopsFirst(e) ==
  IF e.pending = <<>> THEN e
  ELSE LET popped == [e EXCEPT !.pending = Tail(@)]
       IN  IF CanStart(e, Head(e.pending).mask) THEN StartGroup(popped, Head(e.pending)) ELSE popped

TryStartPendingGroup(e) ==
  IF e.pending # <<>> /\ CanStart(e, Head(e.pending).mask)
  THEN StartGroup([e EXCEPT !.pending = Tail(@)], Head(e.pending))
  ELSE e

Transition(e, a, s) ==
  IF e.states[a] = s THEN e
  ELSE [e EXCEPT !.states[a] = s,
                 !.posted = IF s = "Ready" THEN @ \cup {a} ELSE @]

(* Mutant: a failed PPB is taken out of the group without a result. *)
MemberDoneAnyResult(g, a, ok) ==
  IF a \in g.waiting THEN [g EXCEPT !.waiting = @ \ {a}] ELSE g

(* The group loop of completeOperation *)
MemberDone(g, a, ok) ==
  IF a \in g.waiting
  THEN [g EXCEPT !.waiting = @ \ {a}, !.bad = IF ok THEN @ ELSE @ \cup {a}]
  ELSE g

SettleGroups(e, a, ok) ==
  LET settled == {MemberDone(g, a, ok) : g \in e.groups}
      over    == {g \in settled : g.waiting = {}}
  IN  [e EXCEPT !.groups = settled \ over,
                !.reports = @ \cup {[id |-> g.id, op |-> g.op, ok |-> g.bad = {}] : g \in over}]

(* Mutant: busy is not recomputed when an operation ends. *)
MarkDoneStaysBusy(e, a, ok, cause) ==
  [e EXCEPT !.cur[a] = NoOp,
            !.done = @ \cup {[addr |-> a, op |-> e.cur[a].op, cmd |-> e.cur[a].cmd,
                              ok |-> ok, cause |-> cause]}]

(* Mutant: operationCompleted is not set. *)
MarkDoneNotCompleted(e, a, ok, cause) ==
  [e EXCEPT !.done = @ \cup {[addr |-> a, op |-> e.cur[a].op, cmd |-> e.cur[a].cmd,
                              ok |-> ok, cause |-> cause]}]

(* completeOperation.  Its last step, singleShot(0) processCommandQueue,   *)
(* is the slot of the 100 ms timer, which may run at any moment anyway.    *)
MarkDone(e, a, ok, cause) ==
  UpdateBusy([e EXCEPT
    !.cur[a] = NoOp,
    !.done = @ \cup {[addr |-> a, op |-> e.cur[a].op, cmd |-> e.cur[a].cmd,
                      ok |-> ok, cause |-> cause]}])

(* Mutant: a failed operation leaves its address in SendingCommand. *)
CompleteFailureKeepsState(e, a, ok, cause) ==
  IF ~Active(e, a) THEN e ELSE
    LET done == MarkDone(e, a, ok, cause)
    IN  TryStartPendingGroup(SettleGroups(IF ok THEN Transition(done, a, "Ready") ELSE done, a, ok))

(* Mutant: nothing starts the waiting groups. *)
CompleteStartsNoGroup(e, a, ok, cause) ==
  IF ~Active(e, a) THEN e ELSE
    SettleGroups(Transition(MarkDone(e, a, ok, cause), a, IF ok THEN "Ready" ELSE "Idle"), a, ok)

Complete(e, a, ok, cause) ==
  IF ~Active(e, a) THEN e ELSE
    TryStartPendingGroup(
      SettleGroups(
        Transition(MarkDone(e, a, ok, cause), a, IF ok THEN "Ready" ELSE "Idle"),
        a, ok))

(* executeCommandImmediately.  VOLUME completes in the same slot: sent is  *)
(* the outcome of the local send, FALSE also when the block's data is gone *)
(* by the time the command is built.                                       *)
ExecuteImmediately(e, a, c, sentOk) ==
  IF ~Free(e, a) THEN e
  ELSE LET started == StartAll(e, [x \in {a} |-> c])
       IN  IF c = "VOLUME" THEN Complete(started, a, sentOk, "local") ELSE started

DequeueAndRun(e, a, sentOk) ==
  ExecuteImmediately([e EXCEPT !.queues[a] = Tail(@)], a, Head(e.queues[a]), sentOk)

(* Every slot begins with no signals emitted. *)
Slot == [eng EXCEPT !.done = {}, !.reports = {}, !.fu = {}]

-----------------------------------------------------------------------------
(* Datagrams, as ProtocolAdapter tells them apart.                         *)
(*   ok4    [addr][0][echo], 4 bytes                                       *)
(*   ok3    [addr][0], the legacy OK without an echo                       *)
(*   err4   [addr][1 or 2][x], 4 bytes                                     *)
(*   err    any other nonzero TU status                                    *)
(*   data   [addr][0] and at least two bytes, which the command can parse  *)
(*   junk   the same, which it cannot                                      *)
(*   mask2  two bytes: the mask of an IS_YOU answer, read as an address    *)
(*   ERR    the three letters                                              *)
(* An FU reply [addr][FU command][status] has no mark of its own: RECEIVE  *)
(* is 0, so it reads as ok4 with echo 1 (TC) or 0 (TS); TRANSMIT and       *)
(* RECEIVE_TRANSMIT are 1 and 2, so they read as err4.                     *)
Packet(form, addr, echo) == [form |-> form, addr |-> addr, echo |-> echo]

IsBridgeResponse(p) == p.form \in {"ok4", "err4", "mask2", "ERR"}

(* The first two bytes of an IS_YOU answer are its mask. *)
MaskPackets == {Packet("mask2", m, None) : m \in Addr \cup {Zero, Other}}

Refusals(a) == {Packet("err", a, None), Packet("err4", a, None)}

RepliesTo(a, c) ==
  CASE c \in DataCmds \cup {"PRBS_S2M", "DROP"} ->
         {Packet("data", a, None), Packet("junk", a, None)} \cup Refusals(a)
    [] c \in PlainCmds ->
         {Packet("ok4", a, c), Packet("ok3", a, None)} \cup Refusals(a)
    [] c = "VOLUME" -> {Packet("ok4", a, c)}
    [] c = "IS_YOU" -> MaskPackets \cup {Packet("ERR", Other, None)}
    [] c = "FU"     -> {Packet("ok4", a, "TC"), Packet("ok4", a, "TS"), Packet("err4", a, None)}

InFlight == UNION {RepliesTo(r[1], r[2]) : r \in eng.sent}

(* onDataReceived, a datagram for an address with an active operation.     *)
(* onOkReceived of an AckCmd completes the operation, and the engine then  *)
(* completes once more if the context is not completed: it is not when the *)
(* first completion started a pending group on the same address.           *)
OnOk(e, a) ==
  LET first == Complete(e, a, TRUE, "ok")
  IN  IF e.cur[a].cmd \in AckCmds THEN Complete(first, a, TRUE, "ok") ELSE first

(* PRBS_S2M completes itself.  After a success the context is there, with  *)
(* its parse results cleared; after a failure it is freed, and what the    *)
(* engine reads from it is arbitrary: stale is the outcome of that read.   *)
OnPrbsData(e, a, good, stale) ==
  LET first == Complete(e, a, good, "data")
  IN  IF good THEN Complete(first, a, FALSE, "data")
      ELSE IF stale = "completed" THEN first
      ELSE Complete(first, a, stale = "success", "data")

OnData(e, a, good, stale) ==
  IF e.cur[a].cmd = "PRBS_S2M" THEN OnPrbsData(e, a, good, stale)
  ELSE Complete(e, a, good \/ e.cur[a].cmd \in PlainCmds, "data")

OnActive(e, p, stale) ==
  LET a == p.addr
      c == e.cur[a].cmd
  IN  IF c = "IS_YOU" /\ IsBridgeResponse(p) THEN Complete(e, a, p.form = "mask2", "bridge")
      ELSE IF p.form = "mask2" THEN Complete(e, a, FALSE, "bridge")
      ELSE IF p.form \in {"err", "err4"} THEN Complete(e, a, FALSE, "error")
      ELSE IF p.form \in {"data", "junk"} THEN OnData(e, a, p.form = "data", stale)
      ELSE IF p.form = "ok4" /\ p.echo # c THEN e
      ELSE OnOk(e, a)

(* Mutant: the FU completion is given the first two bytes as its address. *)
OnIdleRawAddress(e, p) ==
  LET b == IF p.form \in {"mask2", "ERR"} THEN Zero ELSE p.addr
  IN  IF ~IsBridgeResponse(p) THEN e
      ELSE IF Active(e, b)
           THEN Complete(e, b, p.form = "mask2" /\ e.cur[b].cmd = "IS_YOU", "bridge")
      ELSE [e EXCEPT !.fu = @ \cup {p.addr}]

(* onDataReceived otherwise: a bridge response concerns address 0 when it  *)
(* carries none, and is an FU completion when nothing is active there.     *)
OnIdle(e, p) ==
  LET b == IF p.form \in {"mask2", "ERR"} THEN Zero ELSE p.addr
  IN  IF ~IsBridgeResponse(p) THEN e
      ELSE IF Active(e, b)
           THEN Complete(e, b, p.form = "mask2" /\ e.cur[b].cmd = "IS_YOU", "bridge")
      ELSE [e EXCEPT !.fu = @ \cup {b}]

-----------------------------------------------------------------------------
(* The slots *)

Submit == calls < MaxCalls /\ calls' = calls + 1 /\ UNCHANGED <<disconnects, clears>>
Internal == UNCHANGED <<calls, disconnects, clears>>

(* connectToPPB leaves the TS to the queue timer. *)
ConnectToPPB(a) ==
  /\ Submit
  /\ eng' = Enqueue(Slot, a, "TS")

ExecuteCommand(a, c, sentOk) ==
  /\ Submit
  /\ eng' = IF Gated(Slot, a) \/ ~Free(Slot, a) THEN Enqueue(Slot, a, c)
            ELSE ExecuteImmediately(Slot, a, c, sentOk)

ExecuteGroupCommand(c, mask) ==
  /\ Submit
  /\ LET g == [id |-> Slot.nextGroup, cmd |-> c, mask |-> mask]
         e == [Slot EXCEPT !.nextGroup = @ + 1]
     IN  eng' = IF CanStart(e, mask) THEN StartGroup(e, g)
                ELSE [e EXCEPT !.pending = Append(@, g)]

(* sendFUTransmit, sendFUReceive and sendFUReceiveTransmit only send. *)
SendFU(a) ==
  /\ UseFU /\ <<a, "FU">> \notin eng.sent
  /\ eng' = [Slot EXCEPT !.sent = @ \cup {<<a, "FU">>}]
  /\ Internal

(* disconnect() clears queues, groups and states; the contexts, their      *)
(* timers and m_busy stay.                                                 *)
Disconnect ==
  /\ disconnects < MaxDisconnects /\ disconnects' = disconnects + 1
  /\ eng' = [Slot EXCEPT !.queues = [a \in Addr0 |-> <<>>], !.pending = <<>>, !.groups = {},
                         !.states = [a \in Addr0 |-> "Idle"]]
  /\ UNCHANGED <<calls, clears>>

ClearCommandQueue(a) ==
  /\ clears < MaxClears /\ clears' = clears + 1
  /\ eng' = [Slot EXCEPT !.queues[a] = <<>>]
  /\ UNCHANGED <<calls, disconnects>>

OnDatagram(p, stale) ==
  /\ eng' = IF p.addr \in Addr0 /\ Active(Slot, p.addr) THEN OnActive(Slot, p, stale)
            ELSE OnIdle(Slot, p)
  /\ Internal

OnOperationTimeout(a) ==
  /\ Active(eng, a)
  /\ eng' = Complete(Slot, a, FALSE, "timeout")
  /\ Internal

(* One run of the loop over the addresses: address 0 comes first, and the  *)
(* start of a command to a PPB does not touch another address.             *)
Runnable(e, a) == Free(e, a) /\ e.queues[a] # <<>> /\ ~Gated(e, a)

ProcessCommandQueue(sentOk) ==
  /\ LET e == IF Runnable(Slot, Zero) THEN DequeueAndRun(Slot, Zero, sentOk) ELSE Slot
         heads == {a \in Addr : Runnable(e, a)}
     IN  eng' = StartAll([e EXCEPT !.queues =
                            [a \in Addr0 |-> IF a \in heads THEN Tail(e.queues[a]) ELSE e.queues[a]]],
                         [a \in heads |-> Head(e.queues[a])])
  /\ Internal

(* Mutant: the posted call does not look at the state again. *)
ProcessNextUnchecked(a, sentOk) ==
  /\ a \in eng.posted
  /\ LET e == [Slot EXCEPT !.posted = @ \ {a}]
     IN  eng' = IF e.queues[a] # <<>> THEN DequeueAndRun(e, a, sentOk) ELSE e
  /\ Internal

(* The singleShot(0) of a transition to Ready.  It knows no gate. *)
ProcessNextCommandForAddress(a, sentOk) ==
  /\ a \in eng.posted
  /\ LET e == [Slot EXCEPT !.posted = @ \ {a}]
     IN  eng' = IF e.states[a] = "Ready" /\ e.queues[a] # <<>>
                THEN DequeueAndRun(e, a, sentOk) ELSE e
  /\ Internal

-----------------------------------------------------------------------------
Init ==
  /\ eng = [states |-> [a \in Addr0 |-> "Idle"], cur |-> [a \in Addr0 |-> NoOp],
            queues |-> [a \in Addr0 |-> <<>>], groups |-> {}, pending |-> <<>>,
            posted |-> {}, busy |-> FALSE, nextOp |-> 1, nextGroup |-> 1, sent |-> {},
            done |-> {}, reports |-> {}, fu |-> {}]
  /\ calls = 0 /\ disconnects = 0 /\ clears = 0

Next ==
  \/ \E a \in Addr : ConnectToPPB(a)
  \/ \E a \in Addr, c \in AddrCmds : ExecuteCommand(a, c, TRUE)
  \/ \E c \in ZeroCmds, sentOk \in BOOLEAN : ExecuteCommand(Zero, c, sentOk)
  \/ \E c \in GroupCmds, mask \in (SUBSET Addr) \ {{}} : ExecuteGroupCommand(c, mask)
  \/ \E a \in Addr : SendFU(a)
  \/ Disconnect
  \/ \E a \in Addr0 : ClearCommandQueue(a)
  \/ \E p \in InFlight, stale \in {"completed", "success", "failure"} : OnDatagram(p, stale)
  \/ \E a \in Addr0 : OnOperationTimeout(a)
  \/ \E sentOk \in BOOLEAN : ProcessCommandQueue(sentOk)
  \/ \E a \in Addr0, sentOk \in BOOLEAN : ProcessNextCommandForAddress(a, sentOk)

Spec == Init /\ [][Next]_vars

(* The event loop runs: an armed operation timer fires unless the          *)
(* operation ends before, the 100 ms timer and the posted calls are served.*)
Fairness ==
  /\ \A a \in Addr0 : WF_vars(OnOperationTimeout(a))
  /\ \A a \in Addr0 : WF_vars(\E sentOk \in BOOLEAN : ProcessNextCommandForAddress(a, sentOk))
  /\ WF_vars(\E sentOk \in BOOLEAN : ProcessCommandQueue(sentOk))

FairSpec == Spec /\ Fairness

-----------------------------------------------------------------------------
(* Invariants *)

TypeOK ==
  /\ eng \in EngineState
  /\ calls \in Nat /\ disconnects \in Nat /\ clears \in Nat

(* Every call of the firmware updater and of auto-poll trusts m_busy: it is  *)
(* set exactly while some operation is not completed, whatever path started  *)
(* or ended it (updateBusyState).                                            *)
BusyIsExact == eng.busy <=> \E a \in Addr0 : Active(eng, a)

(* An address is never wedged: while its state is SendingCommand, which      *)
(* turns every new command into a queued one, there is an operation whose    *)
(* timer will free it, also after failures, second completions, disconnects. *)
SendingHasOperation ==
  \A a \in Addr0 : eng.states[a] = "Sending" => Active(eng, a)

(* A group that waits for a PPB waits for an operation of its own: the PPB   *)
(* is in SendingCommand with the operation that this start of the group gave *)
(* it.  Otherwise the group would take another command's outcome for the     *)
(* PPB's answer, or never be reported (completeOperation's group loop).      *)
GroupMembersInFlight ==
  \A g \in eng.groups :
    /\ g.waiting # {}
    /\ \A a \in g.waiting : /\ eng.states[a] = "Sending"
                            /\ eng.cur[a] = [op |-> g.op, cmd |-> g.cmd]

(* No lost wake-up: the only place that starts a waiting group command is    *)
(* the end of completeOperation, so while one waits some PPB must still have *)
(* a completion to come.                                                     *)
PendingGroupHasWakeup ==
  eng.pending # <<>> => \E a \in Addr : eng.states[a] = "Sending"

-----------------------------------------------------------------------------
(* What a slot may never do *)

(* An operation that ends is reported by commandCompleted.  The exception is *)
(* one that disconnect() left behind - its address is no longer in           *)
(* SendingCommand - which a new command on the address may overwrite.        *)
NoSilentLoss ==
  [][\A a \in Addr0 :
       eng.states[a] = "Sending" /\ eng'.cur[a] # eng.cur[a]
         => \E r \in eng'.done : r.addr = a /\ r.op = eng.cur[a].op]_vars

(* Completions are exact: a slot completes operations that were in flight    *)
(* when it began or that it started itself, and no operation it completed is *)
(* in flight afterwards, so none is reported again by a later slot.          *)
CompletionIsFinal ==
  [][\A r \in eng'.done :
       /\ r.op = eng.cur[r.addr].op \/ r.op >= eng.nextOp
       /\ eng'.cur[r.addr].op # r.op
       /\ \A q \in eng'.done : q.addr = r.addr /\ q.op = r.op => q = r]_vars

(* A queued command is lost to disconnect() and clearCommandQueue() only;    *)
(* otherwise it leaves from the head of its queue, and only by being started *)
(* in the same slot: executeCommandImmediately, which drops a command when   *)
(* the state does not allow it, is never given one it would drop.            *)
DequeuedMeansStarted ==
  [][\A a \in Addr0 :
       Len(eng'.queues[a]) < Len(eng.queues[a]) =>
         \/ disconnects' # disconnects \/ clears' # clears
         \/ /\ eng'.queues[a] = Tail(eng.queues[a])
            /\ \E o \in {eng'.cur[a]} \cup {[op |-> r.op, cmd |-> r.cmd] :
                                            r \in {q \in eng'.done : q.addr = a}} :
                 o.op >= eng.nextOp /\ o.cmd = Head(eng.queues[a])]_vars

-----------------------------------------------------------------------------
(* Liveness *)

Quiet ==
  /\ ~eng.busy /\ ~GroupsOutstanding(eng)
  /\ \A a \in Addr0 : eng.queues[a] = <<>> /\ eng.states[a] # "Sending"

(* Whatever the bridge does, once the callers stop the engine finishes: all  *)
(* queued commands run, every group command starts and is settled, the gate  *)
(* of address 0 opens, and busy falls.                                       *)
AllWorkDrains == <>[]Quiet

-----------------------------------------------------------------------------
(* What comments of the code say, and the code does not do *)

(* "Keep address 0 behind every active/pending group command": no slot       *)
(* starts an operation at address 0 while a group command is outstanding.    *)
StreamBarrier ==
  [][GroupsOutstanding(eng) /\ GroupsOutstanding(eng')
       => /\ eng'.cur[Zero].op \in {0, eng.cur[Zero].op}
          /\ \A r \in eng'.done : r.addr = Zero => r.op = eng.cur[Zero].op]_vars

(* "VOLUME must not begin unless every target PPB has confirmed the          *)
(* preparatory commands" (updateFirmware, which goes by what the engine says *)
(* of them): PROGRAMM succeeds at a PPB on the PPB's OK only.                *)
ProgrammIsConfirmed ==
  [][\A r \in eng'.done : r.cmd = "PROGRAMM" /\ r.ok => r.cause = "ok"]_vars

=============================================================================
