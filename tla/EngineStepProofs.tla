-------------------------- MODULE EngineStepProofs --------------------------
(***************************************************************************)
(* What a slot of Engine may never do, for every set of PPBs and every     *)
(* bound: the action properties of Engine as theorems.                     *)
(*                                                                         *)
(* A slot is a chain of private methods, so a property of a slot is proved *)
(* as one of every state the slot passes through, compared with the state  *)
(* in which the slot began.  The states that have the property are a set;  *)
(* a set that is closed under the private methods is never left inside a   *)
(* slot (SlotStays), whatever the set.  Each property then needs only a    *)
(* lemma for starting operations and one for ending an operation.          *)
(***************************************************************************)
EXTENDS EngineProofs

(* Functions from some addresses to the commands they are to start *)
Starts == UNION {[D -> Commands] : D \in SUBSET Addr0}

(* What ends operations leads from S to S. *)
ClosedUnderEnds(S) ==
  /\ \A e \in S : e \in EngineState /\ Healthy(e)
  /\ \A e \in S, a \in Addr0, ok \in BOOLEAN, cause \in Causes : Complete(e, a, ok, cause) \in S
  /\ \A e \in S : \A fu \in SUBSET Addr0 : [e EXCEPT !.fu = fu] \in S

(* And what starts operations. *)
ClosedUnderRuns(S) ==
  /\ ClosedUnderEnds(S)
  /\ \A e \in S, f \in Starts : (\A a \in DOMAIN f : Free(e, a)) => StartAll(e, f) \in S

(* And so does what changes the queues, the posted calls or the requests. *)
Closed(S) ==
  /\ ClosedUnderRuns(S)
  /\ \A e \in S : \A qu \in [Addr0 -> Seq(Commands)] : [e EXCEPT !.queues = qu] \in S
  /\ \A e \in S : \A po \in SUBSET Addr0 : [e EXCEPT !.posted = po] \in S
  /\ \A e \in S : \A se \in SUBSET Requests : [e EXCEPT !.sent = se] \in S

-----------------------------------------------------------------------------
(* No slot leaves a closed set, one lemma for each method. *)

LEMMA ExecuteImmediatelyStays ==
  ASSUME NEW S, ClosedUnderRuns(S), NEW e \in S, NEW a \in Addr0, NEW c \in Commands,
         NEW sentOk \in BOOLEAN
  PROVE  ExecuteImmediately(e, a, c, sentOk) \in S
<1> DEFINE f == [x \in {a} |-> c]
<1>1. f \in Starts
  <2>1. {a} \in SUBSET Addr0 /\ f \in [{a} -> Commands]
    OBVIOUS
  <2> QED BY <2>1 DEF Starts
<1>2. Free(e, a) => StartAll(e, f) \in S
  BY <1>1 DEF ClosedUnderRuns, ClosedUnderEnds
<1> HIDE DEF f
<1>3. "local" \in Causes
  BY DEF Causes
<1>4. Free(e, a) => Complete(StartAll(e, f), a, sentOk, "local") \in S
  BY <1>2, <1>3 DEF ClosedUnderRuns, ClosedUnderEnds
<1> QED BY <1>2, <1>4 DEF ExecuteImmediately, f

LEMMA QueueRest ==
  ASSUME NEW e \in EngineState, NEW a \in Addr0, e.queues[a] # <<>>
  PROVE  LET qu == [e.queues EXCEPT ![a] = Tail(@)]
         IN  /\ qu \in [Addr0 -> Seq(Commands)] /\ Head(e.queues[a]) \in Commands
             /\ \A sentOk : DequeueAndRun(e, a, sentOk)
                              = ExecuteImmediately([e EXCEPT !.queues = qu], a, Head(e.queues[a]), sentOk)
<1>1. e.queues[a] \in Seq(Commands)
  BY DEF EngineState
<1>2. Head(e.queues[a]) \in Commands /\ Tail(e.queues[a]) \in Seq(Commands)
  BY <1>1
<1> QED BY <1>2 DEF DequeueAndRun, EngineState

LEMMA DequeueAndRunStays ==
  ASSUME NEW S, Closed(S), NEW e \in S, NEW a \in Addr0, e.queues[a] # <<>>,
         NEW sentOk \in BOOLEAN
  PROVE  DequeueAndRun(e, a, sentOk) \in S
<1> DEFINE qu == [e.queues EXCEPT ![a] = Tail(@)]
           t  == [e EXCEPT !.queues = qu]
<1>1. e \in EngineState
  BY DEF Closed, ClosedUnderRuns, ClosedUnderEnds
<1>2. /\ qu \in [Addr0 -> Seq(Commands)] /\ Head(e.queues[a]) \in Commands
      /\ DequeueAndRun(e, a, sentOk) = ExecuteImmediately(t, a, Head(e.queues[a]), sentOk)
  BY <1>1, QueueRest
<1> HIDE DEF qu
<1>3. t \in S
  BY <1>2 DEF Closed
<1> HIDE DEF t
<1> QED BY <1>2, <1>3, ExecuteImmediatelyStays DEF Closed

LEMMA EnqueueStays ==
  ASSUME NEW S, Closed(S), NEW e \in S, NEW a \in Addr0, NEW c \in Commands
  PROVE  Enqueue(e, a, c) \in S
<1> DEFINE qu == [e.queues EXCEPT ![a] = Append(@, c)]
<1>1. e \in EngineState
  BY DEF Closed, ClosedUnderRuns, ClosedUnderEnds
<1>2. qu \in [Addr0 -> Seq(Commands)] /\ Enqueue(e, a, c) = [e EXCEPT !.queues = qu]
  BY <1>1 DEF Enqueue, EngineState
<1> HIDE DEF qu
<1> QED BY <1>2 DEF Closed

LEMMA OnActiveStays ==
  ASSUME NEW S, ClosedUnderEnds(S), NEW e \in S, NEW p, p.addr \in Addr0, NEW stale
  PROVE  OnActive(e, p, stale) \in S
<1> DEFINE a == p.addr
           c == e.cur[a].cmd
<1>1. Causes = {"ok", "data", "error", "bridge", "timeout", "local"}
  BY DEF Causes
<1>2. \A s \in S, ok \in BOOLEAN, cause \in Causes : Complete(s, a, ok, cause) \in S
  BY DEF ClosedUnderEnds
<1>3. OnOk(e, a) \in S
  BY <1>1, <1>2 DEF OnOk
<1>4. \A good \in BOOLEAN : OnPrbsData(e, a, good, stale) \in S
  <2> TAKE good \in BOOLEAN
  <2> DEFINE first == Complete(e, a, good, "data")
  <2>1. first \in S
    BY <1>1, <1>2
  <2> HIDE DEF first
  <2>2. \A ok \in BOOLEAN : Complete(first, a, ok, "data") \in S
    BY <1>1, <1>2, <2>1
  <2>3. FALSE \in BOOLEAN /\ (stale = "success") \in BOOLEAN
    OBVIOUS
  <2> QED BY <2>1, <2>2, <2>3 DEF OnPrbsData, first
<1>5. OnData(e, a, p.form = "data", stale) \in S
  <2>1. Complete(e, a, p.form = "data" \/ e.cur[a].cmd \in PlainCmds, "data") \in S
    BY <1>1, <1>2
  <2>2. OnPrbsData(e, a, p.form = "data", stale) \in S
    BY <1>4
  <2> QED BY <2>1, <2>2 DEF OnData
<1>6. /\ Complete(e, a, p.form = "mask2", "bridge") \in S
      /\ Complete(e, a, FALSE, "bridge") \in S
      /\ Complete(e, a, FALSE, "error") \in S
  BY <1>1, <1>2
<1> QED BY <1>3, <1>5, <1>6 DEF OnActive

LEMMA OnIdleStays ==
  ASSUME NEW S, ClosedUnderEnds(S), NEW e \in S, NEW p,
         p.form \in {"ok4", "err4"} => p.addr \in Addr0
  PROVE  OnIdle(e, p) \in S
<1> DEFINE b == IF p.form \in {"mask2", "ERR"} THEN Zero ELSE p.addr
           fu == e.fu \cup {b}
<1>1. CASE ~IsBridgeResponse(p)
  BY <1>1 DEF OnIdle
<1>2. CASE IsBridgeResponse(p)
  <2>1. b \in Addr0 /\ e \in EngineState
    BY <1>2 DEF IsBridgeResponse, Addr0, ClosedUnderEnds
  <2>2. fu \in SUBSET Addr0
    BY <2>1 DEF EngineState
  <2> HIDE DEF b
  <2>3. [e EXCEPT !.fu = fu] \in S
    BY <2>2, Zenon DEF ClosedUnderEnds
  <2>4. Complete(e, b, p.form = "mask2" /\ e.cur[b].cmd = "IS_YOU", "bridge") \in S
    <3>1. "bridge" \in Causes /\ (p.form = "mask2" /\ e.cur[b].cmd = "IS_YOU") \in BOOLEAN
      BY DEF Causes
    <3> QED BY <2>1, <3>1 DEF ClosedUnderEnds
  <2> QED BY <1>2, <2>3, <2>4 DEF OnIdle, b
<1> QED BY <1>1, <1>2

(* The slots of the replies and of the timers of operations. *)
LEMMA OnDatagramStays ==
  ASSUME NEW S, ClosedUnderEnds(S), eng \in EngineState, Slot \in S,
         NEW p \in InFlight, NEW stale, OnDatagram(p, stale)
  PROVE  eng' \in S
<1>1. p.form \in {"ok4", "err4"} => p.addr \in Addr0
  BY InFlightPackets
<1>2. OnIdle(Slot, p) \in S
  BY <1>1, OnIdleStays
<1>3. p.addr \in Addr0 => OnActive(Slot, p, stale) \in S
  BY OnActiveStays
<1> QED BY <1>2, <1>3 DEF OnDatagram

LEMMA OnOperationTimeoutStays ==
  ASSUME NEW S, ClosedUnderEnds(S), Slot \in S, NEW a \in Addr0, OnOperationTimeout(a)
  PROVE  eng' \in S
<1>1. "timeout" \in Causes /\ FALSE \in BOOLEAN
  BY DEF Causes
<1> QED BY <1>1 DEF OnOperationTimeout, ClosedUnderEnds

(* The 100 ms timer: the commands it starts at single PPBs. *)
QueueHeads(e) == {a \in Addr : Runnable(e, a)}
WithoutHeads(e) ==
  [a \in Addr0 |-> IF a \in QueueHeads(e) THEN Tail(e.queues[a]) ELSE e.queues[a]]

LEMMA QueueHeadsRun ==
  ASSUME NEW e \in EngineState
  PROVE  LET f == [a \in QueueHeads(e) |-> Head(e.queues[a])]
         IN  /\ WithoutHeads(e) \in [Addr0 -> Seq(Commands)]
             /\ f \in Starts /\ DOMAIN f = QueueHeads(e)
             /\ \A a \in QueueHeads(e) : /\ a \in Addr0 /\ a # Zero /\ Free(e, a)
                                         /\ e.queues[a] # <<>> /\ e.queues[a] \in Seq(Commands)
<1>1. \A a \in QueueHeads(e) : /\ a \in Addr0 /\ a # Zero /\ Free(e, a)
                               /\ e.queues[a] # <<>> /\ e.queues[a] \in Seq(Commands)
  BY ConstantsAssumption DEF QueueHeads, Runnable, Addr0, EngineState
<1>2. \A a \in QueueHeads(e) : /\ Head(e.queues[a]) \in Commands
                               /\ Tail(e.queues[a]) \in Seq(Commands)
  BY <1>1
<1>3. WithoutHeads(e) \in [Addr0 -> Seq(Commands)]
  BY <1>1, <1>2 DEF WithoutHeads, EngineState
<1>4. QueueHeads(e) \in SUBSET Addr0
  BY <1>1
<1>5. [a \in QueueHeads(e) |-> Head(e.queues[a])] \in [QueueHeads(e) -> Commands]
  BY <1>2
<1>6. [a \in QueueHeads(e) |-> Head(e.queues[a])] \in Starts
  BY <1>4, <1>5 DEF Starts
<1> QED BY <1>1, <1>3, <1>6

LEMMA ProcessCommandQueueStays ==
  ASSUME NEW S, Closed(S), Slot \in S, NEW sentOk \in BOOLEAN, ProcessCommandQueue(sentOk)
  PROVE  eng' \in S
<1> DEFINE e == IF Runnable(Slot, Zero) THEN DequeueAndRun(Slot, Zero, sentOk) ELSE Slot
           t == [e EXCEPT !.queues = WithoutHeads(e)]
           f == [a \in QueueHeads(e) |-> Head(e.queues[a])]
<1>1. eng' = StartAll(t, f)
  BY DEF ProcessCommandQueue, QueueHeads, WithoutHeads
<1>2. e \in S
  BY DequeueAndRunStays DEF Runnable, Addr0
<1> HIDE DEF e
<1>3. e \in EngineState
  BY <1>2 DEF Closed, ClosedUnderRuns, ClosedUnderEnds
<1>4. /\ WithoutHeads(e) \in [Addr0 -> Seq(Commands)] /\ f \in Starts /\ DOMAIN f = QueueHeads(e)
      /\ \A a \in QueueHeads(e) : Free(e, a)
  BY <1>3, QueueHeadsRun
<1>5. t \in S /\ t.states = e.states
  BY <1>2, <1>3, <1>4 DEF Closed, EngineState
<1> HIDE DEF t, f
<1>6. \A a \in DOMAIN f : Free(t, a)
  BY <1>4, <1>5 DEF Free
<1> QED BY <1>1, <1>4, <1>5, <1>6 DEF Closed, ClosedUnderRuns, ClosedUnderEnds

LEMMA ProcessNextStays ==
  ASSUME NEW S, Closed(S), Slot \in S, NEW a \in Addr0, NEW sentOk \in BOOLEAN,
         ProcessNextCommandForAddress(a, sentOk)
  PROVE  eng' \in S
<1> DEFINE po == Slot.posted \ {a}
           t  == [Slot EXCEPT !.posted = po]
<1>1. Slot \in EngineState
  BY DEF Closed, ClosedUnderRuns, ClosedUnderEnds
<1>2. po \in SUBSET Addr0
  BY <1>1 DEF EngineState
<1>3. eng' = IF t.states[a] = "Ready" /\ t.queues[a] # <<>> THEN DequeueAndRun(t, a, sentOk) ELSE t
  BY DEF ProcessNextCommandForAddress
<1> HIDE DEF po
<1>4. t \in S
  BY <1>2 DEF Closed
<1> HIDE DEF t
<1> QED BY <1>3, <1>4, DequeueAndRunStays

LEMMA ExecuteCommandStays ==
  ASSUME NEW S, Closed(S), Slot \in S, NEW a \in Addr0, NEW c \in Commands,
         NEW sentOk \in BOOLEAN, ExecuteCommand(a, c, sentOk)
  PROVE  eng' \in S
BY EnqueueStays, ExecuteImmediatelyStays DEF ExecuteCommand, Closed

LEMMA ClearCommandQueueStays ==
  ASSUME NEW S, Closed(S), Slot \in S, NEW a \in Addr0, ClearCommandQueue(a)
  PROVE  eng' \in S
<1> DEFINE qu == [Slot.queues EXCEPT ![a] = <<>>]
<1>1. Slot \in EngineState
  BY DEF Closed, ClosedUnderRuns, ClosedUnderEnds
<1>2. qu \in [Addr0 -> Seq(Commands)] /\ eng' = [Slot EXCEPT !.queues = qu]
  BY <1>1 DEF ClearCommandQueue, EngineState
<1> HIDE DEF qu
<1> QED BY <1>2 DEF Closed

(* All the slots but the two that change the group commands themselves. *)
LEMMA SlotStays ==
  ASSUME NEW S, Closed(S), eng \in EngineState, Slot \in S, Next,
         ~ \E c \in GroupCmds, mask \in (SUBSET Addr) \ {{}} : ExecuteGroupCommand(c, mask),
         ~Disconnect
  PROVE  eng' \in S
<1>1. Addr \subseteq Addr0 /\ Zero \in Addr0 /\ AddrCmds \subseteq Commands
      /\ ZeroCmds \subseteq Commands /\ "TS" \in Commands
  BY ConstantsAssumption DEF Addr0, Commands, DataCmds
<1>2. ASSUME NEW a \in Addr, ConnectToPPB(a) PROVE eng' \in S
  BY <1>1, <1>2, EnqueueStays DEF ConnectToPPB
<1>3. ASSUME NEW a \in Addr0, NEW c \in Commands, NEW sentOk \in BOOLEAN, ExecuteCommand(a, c, sentOk)
      PROVE  eng' \in S
  BY <1>3, ExecuteCommandStays
<1>4. ASSUME NEW a \in Addr, SendFU(a) PROVE eng' \in S
  <2> DEFINE se == Slot.sent \cup {<<a, "FU">>}
  <2>1. Slot \in EngineState /\ Slot.sent \in SUBSET Requests
    BY DEF Closed, ClosedUnderRuns, ClosedUnderEnds, EngineState
  <2>2. se \in SUBSET Requests
    BY <1>1, <2>1 DEF Requests
  <2>3. eng' = [Slot EXCEPT !.sent = se]
    BY <1>4 DEF SendFU
  <2> HIDE DEF se
  <2> QED BY <2>2, <2>3 DEF Closed
<1>5. ASSUME NEW a \in Addr0, ClearCommandQueue(a) PROVE eng' \in S
  BY <1>5, ClearCommandQueueStays
<1>6. ASSUME NEW p \in InFlight, NEW stale, OnDatagram(p, stale) PROVE eng' \in S
  BY <1>6, OnDatagramStays DEF Closed, ClosedUnderRuns
<1>7. ASSUME NEW a \in Addr0, OnOperationTimeout(a) PROVE eng' \in S
  BY <1>7, OnOperationTimeoutStays DEF Closed, ClosedUnderRuns
<1>8. ASSUME NEW sentOk \in BOOLEAN, ProcessCommandQueue(sentOk) PROVE eng' \in S
  BY <1>8, ProcessCommandQueueStays
<1>9. ASSUME NEW a \in Addr0, NEW sentOk \in BOOLEAN, ProcessNextCommandForAddress(a, sentOk)
      PROVE  eng' \in S
  BY <1>9, ProcessNextStays
<1> QED
  BY <1>1, <1>2, <1>3, <1>4, <1>5, <1>6, <1>7, <1>8, <1>9 DEF Next

-----------------------------------------------------------------------------
(* The fields that the lemmas of EngineProofs leave out *)

LEMMA StartAllRest ==
  ASSUME NEW e \in EngineState, NEW f, DOMAIN f # {}
  PROVE  LET s == StartAll(e, f)
         IN  /\ s.nextOp = e.nextOp + 1
             /\ s.done = e.done /\ s.reports = e.reports /\ s.queues = e.queues
             /\ s.nextGroup = e.nextGroup
BY DEF StartAll, UpdateBusy, EngineState

(* What the end of an operation leaves: its completion, and the groups that  *)
(* still wait; those that do not are reported.                               *)
CompletionOf(e, a, ok, cause) ==
  [addr |-> a, op |-> e.cur[a].op, cmd |-> e.cur[a].cmd, ok |-> ok, cause |-> cause]
Settled(e, a, ok) == {MemberDone(g, a, ok) : g \in e.groups}
Over(e, a, ok) == {g \in Settled(e, a, ok) : g.waiting = {}}
ReportOf(g) == [id |-> g.id, op |-> g.op, ok |-> g.bad = {}]

LEMMA EndedFields ==
  ASSUME NEW e \in EngineState, NEW a \in Addr0, NEW ok \in BOOLEAN, NEW cause \in Causes
  PROVE  LET u == Ended(e, a, ok, cause)
         IN  /\ \A x \in Addr0 :
                  /\ u.cur[x] = IF x = a THEN NoOp ELSE e.cur[x]
                  /\ x # a => u.states[x] = e.states[x]
             /\ u.done = e.done \cup {CompletionOf(e, a, ok, cause)}
             /\ u.groups = Settled(e, a, ok) \ Over(e, a, ok)
             /\ u.reports = e.reports \cup {ReportOf(g) : g \in Over(e, a, ok)}
             /\ u.pending = e.pending /\ u.queues = e.queues
             /\ u.nextOp = e.nextOp /\ u.nextGroup = e.nextGroup
<1> DEFINE s == IF ok THEN "Ready" ELSE "Idle"
           r == CompletionOf(e, a, ok, cause)
           m == MarkDone(e, a, ok, cause)
           t == Transition(m, a, s)
           u == SettleGroups(t, a, ok)
<1>1. s \in States
  BY DEF States
<1>2. /\ m \in EngineState
      /\ m.cur = [e.cur EXCEPT ![a] = NoOp]
      /\ m.states = e.states /\ m.groups = e.groups /\ m.pending = e.pending
  BY MarkDoneFields
<1>3. /\ m.done = e.done \cup {r}
      /\ m.reports = e.reports /\ m.queues = e.queues
      /\ m.nextOp = e.nextOp /\ m.nextGroup = e.nextGroup
  BY DEF MarkDone, UpdateBusy, CompletionOf, EngineState
<1> HIDE DEF m, s, r
<1>4. /\ t \in EngineState
      /\ t.states = [m.states EXCEPT ![a] = s]
      /\ t.cur = m.cur /\ t.groups = m.groups /\ t.pending = m.pending
  BY <1>1, <1>2, TransitionFields
<1>5. /\ t.done = m.done /\ t.reports = m.reports /\ t.queues = m.queues
      /\ t.nextOp = m.nextOp /\ t.nextGroup = m.nextGroup
  BY <1>2 DEF Transition, EngineState
<1> HIDE DEF t
<1>6. u.states = t.states /\ u.cur = t.cur /\ u.pending = t.pending
  BY <1>4, SettleGroupsFields
<1>7. /\ u.done = t.done /\ u.queues = t.queues
      /\ u.nextOp = t.nextOp /\ u.nextGroup = t.nextGroup
      /\ u.groups = Settled(t, a, ok) \ Over(t, a, ok)
      /\ u.reports = t.reports \cup {ReportOf(g) : g \in Over(t, a, ok)}
  BY <1>4 DEF SettleGroups, Settled, Over, ReportOf, EngineState
<1>8. Settled(t, a, ok) = Settled(e, a, ok) /\ Over(t, a, ok) = Over(e, a, ok)
  BY <1>2, <1>4 DEF Settled, Over
<1>9. Ended(e, a, ok, cause) = u
  BY DEF Ended, m, t, s
<1> HIDE DEF u
<1>10. e.cur \in [Addr0 -> Op] /\ e.states \in [Addr0 -> States]
  BY DEF EngineState
<1>11. \A x \in Addr0 :
         /\ u.cur[x] = IF x = a THEN NoOp ELSE e.cur[x]
         /\ x # a => u.states[x] = e.states[x]
  BY <1>2, <1>4, <1>6, <1>10
<1> QED BY <1>2, <1>3, <1>4, <1>5, <1>6, <1>7, <1>8, <1>9, <1>11 DEF r

LEMMA HeadOfPending ==
  ASSUME NEW e, Sound(e), e.pending # <<>>
  PROVE  /\ Head(e.pending) \in PendingGroup /\ Head(e.pending).mask # {}
         /\ Head(e.pending).mask \subseteq Addr /\ Head(e.pending).cmd \in Commands
         /\ Tail(e.pending) \in Seq(PendingGroup)
<1>1. e.pending \in Seq(PendingGroup)
  BY DEF Sound, EngineState
<1>2. Head(e.pending) \in PendingGroup /\ Tail(e.pending) \in Seq(PendingGroup)
  BY <1>1
<1>3. Head(e.pending).mask # {}
  BY <1>1 DEF Sound
<1> QED BY <1>2, <1>3 DEF PendingGroup

(* The group that a start of g adds *)
NewGroup(e, g) ==
  [id |-> g.id, op |-> e.nextOp, cmd |-> g.cmd, waiting |-> g.mask, bad |-> {}]

LEMMA StartGroupFields ==
  ASSUME NEW e \in EngineState, NEW g \in PendingGroup, g.mask # {}
  PROVE  LET s == StartGroup(e, g)
         IN  /\ s.groups = e.groups \cup {NewGroup(e, g)}
             /\ \A a \in Addr0 :
                  /\ s.states[a] = IF a \in g.mask THEN "Sending" ELSE e.states[a]
                  /\ s.cur[a] = IF a \in g.mask THEN [op |-> e.nextOp, cmd |-> g.cmd] ELSE e.cur[a]
             /\ s.nextOp = e.nextOp + 1 /\ s.nextGroup = e.nextGroup
             /\ s.done = e.done /\ s.reports = e.reports /\ s.queues = e.queues
             /\ s.pending = e.pending
<1> DEFINE e2 == [e EXCEPT !.groups = @ \cup {NewGroup(e, g)}]
           f  == [a \in g.mask |-> g.cmd]
           s  == StartAll(e2, f)
<1>1. /\ g.mask \subseteq Addr /\ g.cmd \in Commands /\ g.id \in Nat /\ e.nextOp \in Nat
  BY DEF PendingGroup, EngineState
<1>2. e.groups \cup {NewGroup(e, g)} \in SUBSET Group
  BY <1>1 DEF EngineState, NewGroup, Group
<1>3. /\ DOMAIN f = g.mask /\ DOMAIN f \subseteq Addr0 /\ DOMAIN f # {}
      /\ \A a \in DOMAIN f : f[a] = g.cmd /\ f[a] \in Commands
  BY <1>1 DEF Addr0
<1>4. /\ e2 \in EngineState /\ e2.groups = e.groups \cup {NewGroup(e, g)}
      /\ e2.pending = e.pending /\ e2.states = e.states /\ e2.cur = e.cur
      /\ e2.nextOp = e.nextOp /\ e2.nextGroup = e.nextGroup
      /\ e2.done = e.done /\ e2.reports = e.reports /\ e2.queues = e.queues
  BY <1>2, Zenon DEF EngineState
<1>5. StartGroup(e, g) = s
  BY DEF StartGroup, NewGroup
<1> HIDE DEF e2, f
<1>6. /\ s.groups = e2.groups /\ s.pending = e2.pending
      /\ \A a \in Addr0 :
           /\ s.states[a] = IF a \in DOMAIN f THEN "Sending" ELSE e2.states[a]
           /\ s.cur[a] = IF a \in DOMAIN f THEN [op |-> e2.nextOp, cmd |-> f[a]] ELSE e2.cur[a]
  BY <1>3, <1>4, StartAllFields
<1>7. /\ s.nextOp = e2.nextOp + 1 /\ s.nextGroup = e2.nextGroup
      /\ s.done = e2.done /\ s.reports = e2.reports /\ s.queues = e2.queues
  BY <1>3, <1>4, StartAllRest
<1> HIDE DEF s
<1> QED BY <1>3, <1>4, <1>5, <1>6, <1>7

(* tryStartPendingGroupCommands does nothing, or starts the first group.     *)
LEMMA TryStartFields ==
  ASSUME NEW e, Sound(e)
  PROVE  LET s == TryStartPendingGroup(e)
             g == Head(e.pending)
         IN  \/ s = e
             \/ /\ e.pending # <<>> /\ \A a \in g.mask : Free(e, a)
                /\ s.groups = e.groups \cup {NewGroup(e, g)}
                /\ \A a \in Addr0 :
                     /\ s.states[a] = IF a \in g.mask THEN "Sending" ELSE e.states[a]
                     /\ s.cur[a] = IF a \in g.mask THEN [op |-> e.nextOp, cmd |-> g.cmd]
                                   ELSE e.cur[a]
                /\ s.nextOp = e.nextOp + 1 /\ s.nextGroup = e.nextGroup
                /\ s.done = e.done /\ s.reports = e.reports /\ s.queues = e.queues
                /\ s.pending = Tail(e.pending)
<1> DEFINE g  == Head(e.pending)
           e2 == [e EXCEPT !.pending = Tail(@)]
<1>1. CASE ~(e.pending # <<>> /\ CanStart(e, Head(e.pending).mask))
  BY <1>1 DEF TryStartPendingGroup
<1>2. CASE e.pending # <<>> /\ CanStart(e, Head(e.pending).mask)
  <2>1. /\ e \in EngineState /\ g \in PendingGroup /\ g.mask # {}
        /\ Tail(e.pending) \in Seq(PendingGroup)
    BY <1>2, HeadOfPending DEF Sound
  <2>2. /\ e2 \in EngineState /\ e2.pending = Tail(e.pending)
        /\ e2.states = e.states /\ e2.cur = e.cur /\ e2.groups = e.groups
        /\ e2.nextOp = e.nextOp /\ e2.nextGroup = e.nextGroup
        /\ e2.done = e.done /\ e2.reports = e.reports /\ e2.queues = e.queues
    BY <2>1, Zenon DEF EngineState
  <2>3. TryStartPendingGroup(e) = StartGroup(e2, g)
    BY <1>2 DEF TryStartPendingGroup
  <2>4. \A a \in g.mask : Free(e, a)
    BY <1>2 DEF CanStart
  <2> HIDE DEF e2, g
  <2>5. NewGroup(e2, g) = NewGroup(e, g)
    BY <2>2 DEF NewGroup
  <2> DEFINE s == StartGroup(e2, g)
  <2>6. /\ s.groups = e2.groups \cup {NewGroup(e2, g)}
        /\ \A a \in Addr0 :
             /\ s.states[a] = IF a \in g.mask THEN "Sending" ELSE e2.states[a]
             /\ s.cur[a] = IF a \in g.mask THEN [op |-> e2.nextOp, cmd |-> g.cmd] ELSE e2.cur[a]
        /\ s.nextOp = e2.nextOp + 1 /\ s.nextGroup = e2.nextGroup
        /\ s.done = e2.done /\ s.reports = e2.reports /\ s.queues = e2.queues
        /\ s.pending = e2.pending
    BY <2>1, <2>2, StartGroupFields
  <2> HIDE DEF s
  <2>7. TryStartPendingGroup(e) = s
    BY <2>3 DEF s
  <2> QED BY <1>2, <2>2, <2>4, <2>5, <2>6, <2>7 DEF g
<1> QED BY <1>1, <1>2

-----------------------------------------------------------------------------
(* A slot that began in b, seen in a state e on its way *)

(* Operations are numbered in the order of their starts.                     *)
Numbered(e) ==
  /\ 0 < e.nextOp
  /\ \A a \in Addr0 : Active(e, a) => 0 < e.cur[a].op /\ e.cur[a].op < e.nextOp

(* What is in flight was so at the beginning or is new; what was in flight   *)
(* is still, or is reported, or was left behind by disconnect(); and what    *)
(* is reported was in flight or is new, is in flight no more, and is         *)
(* reported once.                                                            *)
During(b, e) ==
  /\ Numbered(e)
  /\ b.nextOp <= e.nextOp
  /\ \A a \in Addr0 : e.cur[a] = NoOp \/ e.cur[a] = b.cur[a] \/ e.cur[a].op >= b.nextOp
  /\ \A a \in Addr0 :
       b.states[a] = "Sending" =>
         \/ e.cur[a] = b.cur[a] /\ e.states[a] = "Sending"
         \/ \E r \in e.done : r.addr = a /\ r.op = b.cur[a].op
  /\ \A r \in e.done :
       /\ 0 < r.op /\ r.op < e.nextOp
       /\ r.op = b.cur[r.addr].op \/ r.op >= b.nextOp
       /\ e.cur[r.addr].op # r.op
       /\ \A q \in e.done : q.addr = r.addr /\ q.op = r.op => q = r

(* Starting operations where no command is being sent, with the next number. *)
LEMMA StartDuring ==
  ASSUME NEW b \in EngineState, NEW e \in EngineState, NEW s \in EngineState, During(b, e),
         NEW D \in SUBSET Addr0, \A a \in D : Free(e, a),
         s.nextOp = e.nextOp + 1, s.done = e.done,
         \A a \in D : s.cur[a].op = e.nextOp,
         \A a \in Addr0 \ D : s.states[a] = e.states[a] /\ s.cur[a] = e.cur[a]
  PROVE  During(b, s)
<1>1. /\ b.nextOp \in Nat /\ e.nextOp \in Nat
      /\ \A r \in e.done : r \in Completion /\ r.addr \in Addr0 /\ r.op \in Nat
      /\ \A a \in Addr0 : e.cur[a].op \in Nat /\ b.cur[a].op \in Nat
  BY DEF EngineState, Completion, Op
<1>2. Numbered(s)
  BY <1>1 DEF During, Numbered, Active
<1>3. ASSUME NEW a \in Addr0
      PROVE  s.cur[a] = NoOp \/ s.cur[a] = b.cur[a] \/ s.cur[a].op >= b.nextOp
  BY <1>1 DEF During
<1>4. ASSUME NEW a \in Addr0, b.states[a] = "Sending"
      PROVE  \/ s.cur[a] = b.cur[a] /\ s.states[a] = "Sending"
             \/ \E r \in s.done : r.addr = a /\ r.op = b.cur[a].op
  <2>1. CASE a \in D
    BY <1>4, <2>1 DEF During, Free
  <2>2. CASE a \notin D
    BY <1>4, <2>2 DEF During
  <2> QED BY <2>1, <2>2
<1>5. ASSUME NEW r \in s.done
      PROVE  /\ 0 < r.op /\ r.op < s.nextOp
             /\ r.op = b.cur[r.addr].op \/ r.op >= b.nextOp
             /\ s.cur[r.addr].op # r.op
             /\ \A q \in s.done : q.addr = r.addr /\ q.op = r.op => q = r
  <2>1. /\ 0 < r.op /\ r.op < e.nextOp
        /\ r.op = b.cur[r.addr].op \/ r.op >= b.nextOp
        /\ e.cur[r.addr].op # r.op
        /\ \A q \in e.done : q.addr = r.addr /\ q.op = r.op => q = r
    BY DEF During
  <2>2. s.cur[r.addr].op # r.op
    BY <1>1, <2>1
  <2> QED BY <1>1, <2>1, <2>2
<1>6. b.nextOp <= s.nextOp
  BY <1>1 DEF During
<1> QED BY <1>2, <1>3, <1>4, <1>5, <1>6 DEF During

LEMMA EndedDuring ==
  ASSUME NEW b \in EngineState, NEW e \in EngineState, During(b, e), Healthy(e),
         NEW a \in Addr0, Active(e, a), NEW ok \in BOOLEAN, NEW cause \in Causes
  PROVE  During(b, Ended(e, a, ok, cause))
<1> DEFINE u == Ended(e, a, ok, cause)
           r == CompletionOf(e, a, ok, cause)
<1>1. /\ \A x \in Addr0 :
           /\ u.cur[x] = IF x = a THEN NoOp ELSE e.cur[x]
           /\ x # a => u.states[x] = e.states[x]
      /\ u.done = e.done \cup {r}
      /\ u.nextOp = e.nextOp
  BY EndedFields
<1> HIDE DEF u
<1>2. /\ b.nextOp \in Nat /\ e.nextOp \in Nat
      /\ \A q \in e.done : q \in Completion /\ q.addr \in Addr0 /\ q.op \in Nat
      /\ e.cur \in [Addr0 -> Op] /\ e.states \in [Addr0 -> States]
      /\ \A x \in Addr0 : e.cur[x].op \in Nat /\ b.cur[x].op \in Nat
  BY DEF EngineState, Completion, Op
<1>3. r.addr = a /\ r.op = e.cur[a].op
  BY DEF CompletionOf
<1> HIDE DEF r
<1>4. /\ u.cur[a] = NoOp /\ NoOp.op = 0
      /\ \A x \in Addr0 : x # a => u.cur[x] = e.cur[x] /\ u.states[x] = e.states[x]
  <2>1. NoOp.op = 0
    BY DEF NoOp
  <2> QED BY <1>1, <2>1
<1>5. 0 < e.cur[a].op /\ e.cur[a].op < e.nextOp
  BY DEF During, Numbered
<1>6. Numbered(u)
  BY <1>1, <1>4 DEF During, Numbered, Active
<1>7. \A x \in Addr0 : u.cur[x] = NoOp \/ u.cur[x] = b.cur[x] \/ u.cur[x].op >= b.nextOp
  BY <1>4 DEF During
<1>8. ASSUME NEW x \in Addr0, b.states[x] = "Sending"
      PROVE  \/ u.cur[x] = b.cur[x] /\ u.states[x] = "Sending"
             \/ \E q \in u.done : q.addr = x /\ q.op = b.cur[x].op
  <2>1. CASE \E q \in e.done : q.addr = x /\ q.op = b.cur[x].op
    BY <1>1, <2>1
  <2>2. CASE e.cur[x] = b.cur[x] /\ e.states[x] = "Sending"
    BY <1>1, <1>3, <1>4, <2>2
  <2> QED BY <1>8, <2>1, <2>2 DEF During
<1>9. ASSUME NEW q \in u.done
      PROVE  /\ 0 < q.op /\ q.op < u.nextOp
             /\ q.op = b.cur[q.addr].op \/ q.op >= b.nextOp
             /\ u.cur[q.addr].op # q.op
             /\ \A p \in u.done : p.addr = q.addr /\ p.op = q.op => p = q
  <2>1. /\ 0 < r.op /\ r.op < e.nextOp
        /\ r.op = b.cur[r.addr].op \/ r.op >= b.nextOp
    BY <1>3, <1>5 DEF During, Active
  <2>2. \A p \in e.done : p.addr = a => p.op # r.op
    BY <1>3 DEF During
  <2>3. CASE q = r
    BY <1>1, <1>2, <1>3, <1>4, <2>1, <2>2, <2>3
  <2>4. CASE q # r
    <3>1. /\ q \in e.done /\ 0 < q.op /\ q.op < e.nextOp
          /\ q.op = b.cur[q.addr].op \/ q.op >= b.nextOp
          /\ e.cur[q.addr].op # q.op
          /\ \A p \in e.done : p.addr = q.addr /\ p.op = q.op => p = q
      BY <1>1, <2>4 DEF During
    <3>2. u.cur[q.addr].op # q.op
      BY <1>2, <1>4, <3>1
    <3>3. \A p \in u.done : p.addr = q.addr /\ p.op = q.op => p = q
      BY <1>1, <1>3, <2>2, <3>1
    <3> QED BY <1>1, <3>1, <3>2, <3>3
  <2> QED BY <2>3, <2>4
<1>10. b.nextOp <= u.nextOp
  BY <1>1 DEF During
<1> QED BY <1>6, <1>7, <1>8, <1>9, <1>10 DEF During, u

LEMMA TryStartDuring ==
  ASSUME NEW b \in EngineState, NEW e, Sound(e), During(b, e)
  PROVE  During(b, TryStartPendingGroup(e))
<1> DEFINE s == TryStartPendingGroup(e)
           g == Head(e.pending)
<1>1. CASE s = e
  BY <1>1
<1>2. CASE s # e
  <2>1. /\ e.pending # <<>> /\ \A a \in g.mask : Free(e, a)
        /\ \A a \in Addr0 :
             /\ s.states[a] = IF a \in g.mask THEN "Sending" ELSE e.states[a]
             /\ s.cur[a] = IF a \in g.mask THEN [op |-> e.nextOp, cmd |-> g.cmd] ELSE e.cur[a]
        /\ s.nextOp = e.nextOp + 1 /\ s.done = e.done
    BY <1>2, TryStartFields
  <2>2. e \in EngineState /\ s \in EngineState
    BY TryStartHealthy DEF Healthy, Sound
  <2>3. g.mask \in SUBSET Addr0
    BY <2>1, HeadOfPending DEF Addr0
  <2> HIDE DEF s
  <2>4. \A a \in g.mask : s.cur[a].op = e.nextOp
    BY <2>1, <2>3
  <2>5. \A a \in Addr0 \ g.mask : s.states[a] = e.states[a] /\ s.cur[a] = e.cur[a]
    BY <2>1
  <2> HIDE DEF g
  <2>6. During(b, s)
    BY <2>1, <2>2, <2>3, <2>4, <2>5, StartDuring
  <2> QED BY <2>6 DEF s
<1> QED BY <1>1, <1>2

(* What During does not see *)
LEMMA UnseenDuring ==
  ASSUME NEW b, NEW e, During(b, e), NEW t,
         t.states = e.states, t.cur = e.cur, t.nextOp = e.nextOp, t.done = e.done
  PROVE  During(b, t)
BY DEF During, Numbered, Active

(* The fields of a state whose queues, posted calls, requests or FU signals  *)
(* have changed.                                                             *)
LEMMA OtherFields ==
  ASSUME NEW e \in EngineState, Healthy(e), NEW t,
         \/ \E qu \in [Addr0 -> Seq(Commands)] : t = [e EXCEPT !.queues = qu]
         \/ \E po \in SUBSET Addr0 : t = [e EXCEPT !.posted = po]
         \/ \E se \in SUBSET Requests : t = [e EXCEPT !.sent = se]
         \/ \E fu \in SUBSET Addr0 : t = [e EXCEPT !.fu = fu]
  PROVE  /\ t \in EngineState /\ Healthy(t)
         /\ t.states = e.states /\ t.cur = e.cur /\ t.groups = e.groups
         /\ t.pending = e.pending /\ t.busy = e.busy
         /\ t.nextOp = e.nextOp /\ t.nextGroup = e.nextGroup
         /\ t.done = e.done /\ t.reports = e.reports
<1>1. /\ t \in EngineState
      /\ t.states = e.states /\ t.cur = e.cur /\ t.groups = e.groups
      /\ t.pending = e.pending /\ t.busy = e.busy
      /\ t.nextOp = e.nextOp /\ t.nextGroup = e.nextGroup
      /\ t.done = e.done /\ t.reports = e.reports
  <2>1. CASE \E qu \in [Addr0 -> Seq(Commands)] : t = [e EXCEPT !.queues = qu]
    BY <2>1, Zenon DEF EngineState
  <2>2. CASE \E po \in SUBSET Addr0 : t = [e EXCEPT !.posted = po]
    BY <2>2, Zenon DEF EngineState
  <2>3. CASE \E se \in SUBSET Requests : t = [e EXCEPT !.sent = se]
    BY <2>3, Zenon DEF EngineState
  <2>4. CASE \E fu \in SUBSET Addr0 : t = [e EXCEPT !.fu = fu]
    BY <2>4, Zenon DEF EngineState
  <2> QED BY <2>1, <2>2, <2>3, <2>4
<1> QED BY <1>1, UnseenHealthy

LEMMA DuringClosed ==
  ASSUME NEW b \in EngineState
  PROVE  Closed({e \in EngineState : Healthy(e) /\ During(b, e)})
<1> DEFINE S == {e \in EngineState : Healthy(e) /\ During(b, e)}
<1>1. ASSUME NEW e \in S, NEW a \in Addr0, NEW ok \in BOOLEAN, NEW cause \in Causes
      PROVE  Complete(e, a, ok, cause) \in S
  <2>1. CASE ~Active(e, a)
    BY <2>1 DEF Complete
  <2>2. CASE Active(e, a)
    <3> DEFINE u == Ended(e, a, ok, cause)
    <3>1. Sound(u) /\ During(b, u)
      BY <2>2, EndedSound, EndedDuring
    <3>2. Complete(e, a, ok, cause) = TryStartPendingGroup(u)
      BY <2>2, CompleteIsEndedThenTryStart
    <3> HIDE DEF u
    <3>3. /\ During(b, TryStartPendingGroup(u)) /\ Healthy(TryStartPendingGroup(u))
          /\ TryStartPendingGroup(u) \in EngineState
      BY <3>1, TryStartDuring, TryStartHealthy DEF Healthy, Sound
    <3> QED BY <3>2, <3>3
  <2> QED BY <2>1, <2>2
<1>2. ASSUME NEW e \in S, NEW f \in Starts, \A a \in DOMAIN f : Free(e, a)
      PROVE  StartAll(e, f) \in S
  <2>1. DOMAIN f \in SUBSET Addr0 /\ \A a \in DOMAIN f : f[a] \in Commands
    BY DEF Starts
  <2>2. CASE DOMAIN f = {}
    BY <2>2 DEF StartAll
  <2>3. CASE DOMAIN f # {}
    <3> DEFINE s == StartAll(e, f)
    <3>1. /\ s \in EngineState
          /\ \A a \in Addr0 :
               /\ s.states[a] = IF a \in DOMAIN f THEN "Sending" ELSE e.states[a]
               /\ s.cur[a] = IF a \in DOMAIN f THEN [op |-> e.nextOp, cmd |-> f[a]] ELSE e.cur[a]
      BY <2>1, <2>3, StartAllFields
    <3>2. s.nextOp = e.nextOp + 1 /\ s.done = e.done
      BY <2>3, StartAllRest
    <3>3. Healthy(s)
      BY <1>2, <2>1, StartAllSound DEF Healthy
    <3> HIDE DEF s
    <3>4. \A a \in DOMAIN f : s.cur[a].op = e.nextOp
      <4> TAKE a \in DOMAIN f
      <4>1. s.cur[a] = [op |-> e.nextOp, cmd |-> f[a]]
        BY <2>1, <3>1
      <4> QED BY <4>1
    <3>5. \A a \in Addr0 \ DOMAIN f : s.states[a] = e.states[a] /\ s.cur[a] = e.cur[a]
      BY <3>1
    <3>6. During(b, s)
      BY <1>2, <2>1, <3>1, <3>2, <3>4, <3>5, StartDuring
    <3> QED BY <3>1, <3>3, <3>6 DEF s
  <2> QED BY <2>2, <2>3
<1>3. ASSUME NEW e \in S, NEW t,
             \/ \E qu \in [Addr0 -> Seq(Commands)] : t = [e EXCEPT !.queues = qu]
             \/ \E po \in SUBSET Addr0 : t = [e EXCEPT !.posted = po]
             \/ \E se \in SUBSET Requests : t = [e EXCEPT !.sent = se]
             \/ \E fu \in SUBSET Addr0 : t = [e EXCEPT !.fu = fu]
      PROVE  t \in S
  <2>1. /\ t \in EngineState /\ Healthy(t)
        /\ t.states = e.states /\ t.cur = e.cur /\ t.nextOp = e.nextOp /\ t.done = e.done
    BY <1>3, OtherFields
  <2> QED BY <2>1, UnseenDuring
<1>4. \A e \in S : \A fu \in SUBSET Addr0 : [e EXCEPT !.fu = fu] \in S
  BY <1>3
<1>5. \A e \in S : \A qu \in [Addr0 -> Seq(Commands)] : [e EXCEPT !.queues = qu] \in S
  BY <1>3
<1>6. \A e \in S : \A po \in SUBSET Addr0 : [e EXCEPT !.posted = po] \in S
  BY <1>3
<1>7. \A e \in S : \A se \in SUBSET Requests : [e EXCEPT !.sent = se] \in S
  BY <1>3
<1>8. \A e \in S : e \in EngineState /\ Healthy(e)
  OBVIOUS
<1> HIDE DEF S
<1>9. ClosedUnderRuns(S)
  BY <1>1, <1>2, <1>4, <1>8 DEF ClosedUnderRuns, ClosedUnderEnds
<1>10. Closed(S)
  BY <1>5, <1>6, <1>7, <1>9 DEF Closed
<1> QED BY <1>10 DEF S

-----------------------------------------------------------------------------
(* The steps *)

StepInvariant == Inv /\ Numbered(eng)

LEMMA SlotFields ==
  ASSUME Inv
  PROVE  /\ eng \in EngineState /\ Slot \in EngineState /\ Healthy(Slot)
         /\ Slot.states = eng.states /\ Slot.cur = eng.cur /\ Slot.queues = eng.queues
         /\ Slot.groups = eng.groups /\ Slot.pending = eng.pending
         /\ Slot.nextOp = eng.nextOp /\ Slot.nextGroup = eng.nextGroup
         /\ Slot.done = {} /\ Slot.reports = {}
<1>1. eng \in EngineState
  BY DEF Inv, Healthy, Sound
<1>2. Slot.nextOp = eng.nextOp /\ Slot.done = {} /\ Slot.reports = {}
  BY <1>1 DEF Slot, EngineState
<1> QED BY <1>1, <1>2, SlotHealthy DEF Inv, Healthy, Sound

LEMMA SlotDuring ==
  ASSUME StepInvariant
  PROVE  During(Slot, Slot)
BY SlotFields DEF StepInvariant, During, Numbered, Active, EngineState

(* A group command is started at once, or waits. *)
LEMMA ExecuteGroupCommandFields ==
  ASSUME Inv, NEW c \in Commands, NEW mask \in SUBSET Addr, mask # {},
         ExecuteGroupCommand(c, mask)
  PROVE  LET g == [id |-> eng.nextGroup, cmd |-> c, mask |-> mask]
         IN  /\ eng' \in EngineState
             /\ eng'.done = {} /\ eng'.reports = {} /\ eng'.queues = eng.queues
             /\ eng'.nextGroup = eng.nextGroup + 1
             /\ \/ /\ eng'.groups = eng.groups /\ eng'.pending = Append(eng.pending, g)
                   /\ eng'.states = eng.states /\ eng'.cur = eng.cur
                   /\ eng'.nextOp = eng.nextOp
                \/ /\ \A a \in mask : Free(eng, a)
                   /\ eng'.groups = eng.groups \cup {NewGroup(eng, g)}
                   /\ eng'.pending = eng.pending
                   /\ \A a \in Addr0 :
                        /\ eng'.states[a] = IF a \in mask THEN "Sending" ELSE eng.states[a]
                        /\ eng'.cur[a] = IF a \in mask THEN [op |-> eng.nextOp, cmd |-> c]
                                         ELSE eng.cur[a]
                   /\ eng'.nextOp = eng.nextOp + 1
<1> DEFINE g  == [id |-> eng.nextGroup, cmd |-> c, mask |-> mask]
           e  == [Slot EXCEPT !.nextGroup = @ + 1]
           pe == Append(e.pending, g)
           t  == [e EXCEPT !.pending = pe]
<1>1. Slot.nextGroup + 1 \in Nat /\ Slot \in EngineState /\ eng.nextGroup \in Nat
  BY SlotFields DEF EngineState
<1>2. g \in PendingGroup /\ g.mask = mask /\ g.cmd = c
  BY <1>1, ConstantsAssumption DEF PendingGroup
<1>3. /\ e \in EngineState /\ e.nextGroup = eng.nextGroup + 1
      /\ e.states = eng.states /\ e.cur = eng.cur /\ e.queues = eng.queues
      /\ e.groups = eng.groups /\ e.pending = eng.pending
      /\ e.nextOp = eng.nextOp /\ e.done = {} /\ e.reports = {}
  BY <1>1, SlotFields, Zenon DEF EngineState
<1>4. eng' = IF CanStart(e, mask) THEN StartGroup(e, g) ELSE t
  BY SlotFields DEF ExecuteGroupCommand
<1>5. eng' \in EngineState
  BY ExecuteGroupCommandHealthy DEF Inv, Healthy, Sound
<1> HIDE DEF e, g
<1>6. CASE CanStart(e, mask)
  <2> DEFINE s == StartGroup(e, g)
  <2>1. eng' = s
    BY <1>4, <1>6
  <2>2. \A a \in mask : Free(eng, a)
    BY <1>3, <1>6 DEF CanStart, Free
  <2>3. NewGroup(e, g) = NewGroup(eng, g)
    BY <1>3 DEF NewGroup
  <2>4. /\ s.groups = e.groups \cup {NewGroup(e, g)}
        /\ \A a \in Addr0 :
             /\ s.states[a] = IF a \in g.mask THEN "Sending" ELSE e.states[a]
             /\ s.cur[a] = IF a \in g.mask THEN [op |-> e.nextOp, cmd |-> g.cmd] ELSE e.cur[a]
        /\ s.nextOp = e.nextOp + 1 /\ s.nextGroup = e.nextGroup
        /\ s.done = e.done /\ s.reports = e.reports /\ s.queues = e.queues
        /\ s.pending = e.pending
    BY <1>2, <1>3, StartGroupFields
  <2> HIDE DEF s
  <2> QED BY <1>2, <1>3, <1>5, <2>1, <2>2, <2>3, <2>4 DEF g
<1>7. CASE ~CanStart(e, mask)
  <2>1. e.pending \in Seq(PendingGroup)
    BY <1>3 DEF EngineState
  <2>2. pe \in Seq(PendingGroup)
    BY <1>2, <2>1
  <2>3. pe = Append(eng.pending, g)
    BY <1>3
  <2> HIDE DEF pe
  <2>4. /\ t.pending = pe /\ t.states = e.states /\ t.cur = e.cur /\ t.queues = e.queues
        /\ t.groups = e.groups /\ t.nextOp = e.nextOp /\ t.nextGroup = e.nextGroup
        /\ t.done = e.done /\ t.reports = e.reports
    BY <1>3, <2>2, Zenon DEF EngineState
  <2> HIDE DEF t
  <2>5. eng' = t
    BY <1>4, <1>7
  <2> QED BY <1>3, <1>5, <2>3, <2>4, <2>5 DEF g
<1> QED BY <1>6, <1>7

LEMMA DisconnectFields ==
  ASSUME Inv, Disconnect
  PROVE  /\ eng'.cur = eng.cur /\ eng'.nextOp = eng.nextOp /\ eng'.nextGroup = eng.nextGroup
         /\ eng'.done = {} /\ eng'.reports = {}
         /\ eng'.groups = {} /\ eng'.pending = <<>>
         /\ disconnects' = disconnects + 1
BY SlotFields DEF Disconnect, EngineState

(* Every slot but disconnect() goes as During says, from its beginning to    *)
(* its end.                                                                  *)
LEMMA StepDuring ==
  ASSUME StepInvariant, Next, ~Disconnect
  PROVE  During(Slot, eng')
<1> DEFINE S == {e \in EngineState : Healthy(e) /\ During(Slot, e)}
<1>1. eng \in EngineState /\ Slot \in S
  BY SlotFields, SlotDuring DEF StepInvariant
<1>2. Closed(S)
  BY <1>1, DuringClosed
<1>3. ASSUME NEW c \in GroupCmds, NEW mask \in (SUBSET Addr) \ {{}}, ExecuteGroupCommand(c, mask)
      PROVE  During(Slot, eng')
  <2>1. /\ eng' \in EngineState
        /\ eng'.done = {}
        /\ \/ /\ eng'.states = eng.states /\ eng'.cur = eng.cur /\ eng'.nextOp = eng.nextOp
           \/ /\ \A a \in mask : Free(eng, a)
              /\ \A a \in Addr0 :
                   /\ eng'.states[a] = IF a \in mask THEN "Sending" ELSE eng.states[a]
                   /\ eng'.cur[a] = IF a \in mask THEN [op |-> eng.nextOp, cmd |-> c]
                                    ELSE eng.cur[a]
              /\ eng'.nextOp = eng.nextOp + 1
    <3>1. Inv /\ c \in Commands /\ mask \in SUBSET Addr /\ mask # {}
      BY <1>3, ConstantsAssumption DEF StepInvariant
    <3>2. ExecuteGroupCommand(c, mask)
      BY <1>3
    <3> QED BY <3>1, <3>2, ExecuteGroupCommandFields
  <2>2. /\ Slot \in EngineState /\ Slot.states = eng.states /\ Slot.cur = eng.cur
        /\ Slot.nextOp = eng.nextOp /\ Slot.done = {}
    BY SlotFields DEF StepInvariant
  <2>3. CASE eng'.states = eng.states /\ eng'.cur = eng.cur /\ eng'.nextOp = eng.nextOp
    BY <2>1, <2>2, <2>3, SlotDuring, UnseenDuring
  <2>4. CASE ~(eng'.states = eng.states /\ eng'.cur = eng.cur /\ eng'.nextOp = eng.nextOp)
    <3>1. mask \in SUBSET Addr0
      BY DEF Addr0
    <3>2. \A a \in mask : Free(Slot, a)
      BY <2>1, <2>2, <2>4 DEF Free
    <3>3. \A a \in mask : eng'.cur[a].op = Slot.nextOp
      <4> TAKE a \in mask
      <4>1. eng'.cur[a] = [op |-> eng.nextOp, cmd |-> c]
        BY <2>1, <2>4, <3>1
      <4> QED BY <2>2, <4>1
    <3>4. \A a \in Addr0 \ mask : eng'.states[a] = Slot.states[a] /\ eng'.cur[a] = Slot.cur[a]
      BY <2>1, <2>2, <2>4
    <3>5. eng'.nextOp = Slot.nextOp + 1 /\ eng'.done = Slot.done
      BY <2>1, <2>2, <2>4
    <3>6. During(Slot, Slot)
      BY SlotDuring
    <3>7. eng' \in EngineState /\ Slot \in EngineState
      BY <2>1, <2>2
    <3> QED BY <3>1, <3>2, <3>3, <3>4, <3>5, <3>6, <3>7, StartDuring
  <2> QED BY <2>3, <2>4
<1>4. CASE \E c \in GroupCmds, mask \in (SUBSET Addr) \ {{}} : ExecuteGroupCommand(c, mask)
  BY <1>3, <1>4
<1>5. CASE ~ \E c \in GroupCmds, mask \in (SUBSET Addr) \ {{}} : ExecuteGroupCommand(c, mask)
  <2> HIDE DEF S
  <2>1. eng' \in S
    BY <1>1, <1>2, <1>5, SlotStays
  <2> QED BY <2>1 DEF S
<1> QED BY <1>4, <1>5

LEMMA InitStepInvariant == Init => StepInvariant
BY InitInv DEF Init, StepInvariant, Numbered, Active

LEMMA StepStepInvariant == StepInvariant /\ [Next]_vars => StepInvariant'
<1> SUFFICES ASSUME StepInvariant, [Next]_vars PROVE Numbered(eng')
  BY StepInv DEF StepInvariant, Numbered, Active
<1>1. CASE Disconnect
  BY <1>1, DisconnectFields DEF StepInvariant, Numbered, Active
<1>2. CASE Next /\ ~Disconnect
  BY <1>2, StepDuring DEF During
<1>3. CASE UNCHANGED vars
  BY <1>3 DEF vars, StepInvariant, Numbered, Active
<1> QED BY <1>1, <1>2, <1>3

(* In every reachable state the operations in flight carry numbers that have *)
(* been given and are not 0, so a new start never reuses one.                *)
THEOREM OperationsAreNumbered == Spec => []StepInvariant
  BY InitStepInvariant, StepStepInvariant, PTL DEF Spec

(* An operation that ends while its address is in SendingCommand is reported *)
(* in the slot that ends it.                                                 *)
THEOREM EveryEndIsReported == Spec => NoSilentLoss
<1>1. ASSUME StepInvariant, [Next]_vars
      PROVE  [\A a \in Addr0 :
                eng.states[a] = "Sending" /\ eng'.cur[a] # eng.cur[a]
                  => \E r \in eng'.done : r.addr = a /\ r.op = eng.cur[a].op]_vars
  <2>1. CASE Next /\ ~Disconnect
    BY <1>1, <2>1, StepDuring, SlotFields DEF StepInvariant, During
  <2>2. CASE Disconnect
    BY <1>1, <2>2, DisconnectFields DEF StepInvariant
  <2> QED BY <1>1, <2>1, <2>2
<1> QED BY <1>1, OperationsAreNumbered, PTL DEF Spec, NoSilentLoss

(* A slot reports only what was in flight or what it started itself, once,   *)
(* and leaves nothing in flight that it has reported.                        *)
THEOREM CompletionsAreExact == Spec => CompletionIsFinal
<1>1. ASSUME StepInvariant, [Next]_vars
      PROVE  [\A r \in eng'.done :
                /\ r.op = eng.cur[r.addr].op \/ r.op >= eng.nextOp
                /\ eng'.cur[r.addr].op # r.op
                /\ \A q \in eng'.done : q.addr = r.addr /\ q.op = r.op => q = r]_vars
  <2>1. CASE Next /\ ~Disconnect
    BY <1>1, <2>1, StepDuring, SlotFields DEF StepInvariant, During
  <2>2. CASE Disconnect
    BY <1>1, <2>2, DisconnectFields DEF StepInvariant
  <2> QED BY <1>1, <2>1, <2>2
<1> QED BY <1>1, OperationsAreNumbered, PTL DEF Spec, CompletionIsFinal

-----------------------------------------------------------------------------
(* The queues *)

(* An operation of command c, numbered n or later, was started at a: it is   *)
(* in flight, or it is reported already.                                     *)
StartedAt(e, a, n, c) ==
  \E o \in {e.cur[a]} \cup {[op |-> r.op, cmd |-> r.cmd] : r \in {q \in e.done : q.addr = a}} :
    o.op >= n /\ o.cmd = c

(* Runs of operations leave the queues alone and keep what was reported.     *)
Kept(b) ==
  {e \in EngineState : /\ Healthy(e) /\ e.queues = b.queues
                       /\ b.done \subseteq e.done /\ b.nextOp <= e.nextOp}

LEMMA CompleteKeeps ==
  ASSUME NEW e \in EngineState, Healthy(e), NEW a \in Addr0, Active(e, a),
         NEW ok \in BOOLEAN, NEW cause \in Causes
  PROVE  LET s == Complete(e, a, ok, cause)
         IN  /\ s \in EngineState /\ Healthy(s)
             /\ s.queues = e.queues /\ e.nextOp <= s.nextOp
             /\ s.done = e.done \cup {CompletionOf(e, a, ok, cause)}
<1> DEFINE u == Ended(e, a, ok, cause)
           s == TryStartPendingGroup(u)
<1>1. Complete(e, a, ok, cause) = s
  BY CompleteIsEndedThenTryStart
<1>2. /\ Sound(u) /\ u.queues = e.queues /\ u.nextOp = e.nextOp
      /\ u.done = e.done \cup {CompletionOf(e, a, ok, cause)}
  <2>1. Sound(u)
    BY EndedSound
  <2>2. /\ u.queues = e.queues /\ u.nextOp = e.nextOp
        /\ u.done = e.done \cup {CompletionOf(e, a, ok, cause)}
    BY EndedFields
  <2> QED BY <2>1, <2>2
<1> HIDE DEF u
<1>3. s = u \/ (s.nextOp = u.nextOp + 1 /\ s.done = u.done /\ s.queues = u.queues)
  BY <1>2, TryStartFields
<1>4. s \in EngineState /\ Healthy(s)
  BY <1>2, TryStartHealthy DEF Healthy, Sound
<1>5. e.nextOp \in Nat
  BY DEF EngineState
<1> HIDE DEF s
<1>6. e.nextOp <= s.nextOp
  BY <1>2, <1>3, <1>5
<1> QED BY <1>1, <1>2, <1>3, <1>4, <1>6

LEMMA KeptClosed ==
  ASSUME NEW b \in EngineState
  PROVE  ClosedUnderRuns(Kept(b))
<1> DEFINE S == Kept(b)
<1>1. ASSUME NEW e \in S
      PROVE  /\ e \in EngineState /\ Healthy(e) /\ e.queues = b.queues
             /\ b.done \subseteq e.done /\ b.nextOp <= e.nextOp
             /\ b.nextOp \in Nat /\ e.nextOp \in Nat
  BY DEF Kept, EngineState
<1>2. ASSUME NEW e \in S, NEW a \in Addr0, NEW ok \in BOOLEAN, NEW cause \in Causes
      PROVE  Complete(e, a, ok, cause) \in S
  <2>1. CASE ~Active(e, a)
    BY <2>1 DEF Complete
  <2>2. CASE Active(e, a)
    <3> DEFINE s == Complete(e, a, ok, cause)
    <3>1. /\ s \in EngineState /\ Healthy(s)
          /\ s.queues = e.queues /\ e.nextOp <= s.nextOp /\ e.done \subseteq s.done
      BY <1>1, <2>2, CompleteKeeps
    <3> HIDE DEF s
    <3>2. b.nextOp <= s.nextOp
      <4>1. s.nextOp \in Nat
        BY <3>1 DEF EngineState
      <4> QED BY <1>1, <3>1, <4>1
    <3>3. s \in S
      BY <1>1, <3>1, <3>2 DEF Kept
    <3> QED BY <3>3 DEF s
  <2> QED BY <2>1, <2>2
<1>3. ASSUME NEW e \in S, NEW f \in Starts, \A a \in DOMAIN f : Free(e, a)
      PROVE  StartAll(e, f) \in S
  <2>1. DOMAIN f \in SUBSET Addr0 /\ \A a \in DOMAIN f : f[a] \in Commands
    BY DEF Starts
  <2>2. CASE DOMAIN f = {}
    BY <2>2 DEF StartAll
  <2>3. CASE DOMAIN f # {}
    <3> DEFINE s == StartAll(e, f)
    <3>1. s \in EngineState /\ s.nextOp = e.nextOp + 1 /\ s.done = e.done /\ s.queues = e.queues
      BY <1>1, <2>1, <2>3, StartAllFields, StartAllRest
    <3>2. Healthy(s)
      BY <1>1, <1>3, <2>1, StartAllSound DEF Healthy
    <3> HIDE DEF s
    <3>3. s \in S
      BY <1>1, <3>1, <3>2 DEF Kept
    <3> QED BY <3>3 DEF s
  <2> QED BY <2>2, <2>3
<1>4. ASSUME NEW e \in S, NEW fu \in SUBSET Addr0
      PROVE  [e EXCEPT !.fu = fu] \in S
  <2> DEFINE t == [e EXCEPT !.fu = fu]
  <2>1. t \in EngineState /\ Healthy(t) /\ t.done = e.done /\ t.nextOp = e.nextOp
    BY <1>1, OtherFields
  <2>2. t.queues = e.queues
    BY <1>1, Zenon DEF EngineState
  <2> HIDE DEF t
  <2>3. t \in S
    BY <1>1, <2>1, <2>2 DEF Kept
  <2> QED BY <2>3 DEF t
<1> QED BY <1>1, <1>2, <1>3, <1>4 DEF ClosedUnderRuns, ClosedUnderEnds

(* A command that is taken from its queue while its address is free is       *)
(* started.                                                                  *)
LEMMA DequeuedIsStarted ==
  ASSUME NEW e \in EngineState, Healthy(e), NEW a \in Addr0, Free(e, a), e.queues[a] # <<>>,
         NEW sentOk \in BOOLEAN
  PROVE  LET s == DequeueAndRun(e, a, sentOk)
         IN  /\ s \in EngineState /\ Healthy(s)
             /\ s.queues = [e.queues EXCEPT ![a] = Tail(@)]
             /\ e.nextOp <= s.nextOp
             /\ StartedAt(s, a, e.nextOp, Head(e.queues[a]))
<1> DEFINE qu == [e.queues EXCEPT ![a] = Tail(@)]
           t  == [e EXCEPT !.queues = qu]
           c  == Head(e.queues[a])
           f  == [x \in {a} |-> c]
           s  == StartAll(t, f)
           v  == Complete(s, a, sentOk, "local")
<1>1. /\ qu \in [Addr0 -> Seq(Commands)] /\ c \in Commands
      /\ DequeueAndRun(e, a, sentOk) = ExecuteImmediately(t, a, c, sentOk)
  BY QueueRest
<1>2. t \in EngineState /\ Healthy(t) /\ t.states = e.states /\ t.nextOp = e.nextOp
  <2> HIDE DEF qu
  <2> QED BY <1>1, OtherFields
<1>3. t.queues = qu /\ t.nextOp \in Nat
  <2> HIDE DEF qu
  <2> QED BY <1>1, Zenon DEF EngineState
<1>4. Free(t, a)
  BY <1>2 DEF Free
<1>5. DequeueAndRun(e, a, sentOk) = IF c = "VOLUME" THEN v ELSE s
  BY <1>1, <1>4 DEF ExecuteImmediately
<1> HIDE DEF t, qu, c
<1>6. DOMAIN f = {a} /\ f[a] = c
  OBVIOUS
<1> HIDE DEF f
<1>7. /\ s \in EngineState /\ s.nextOp = t.nextOp + 1 /\ s.queues = t.queues
      /\ s.cur[a] = [op |-> t.nextOp, cmd |-> c]
  <2>1. /\ s \in EngineState
        /\ s.cur[a] = IF a \in DOMAIN f THEN [op |-> t.nextOp, cmd |-> f[a]] ELSE t.cur[a]
    BY <1>1, <1>2, <1>6, StartAllFields
  <2>2. s.nextOp = t.nextOp + 1 /\ s.queues = t.queues
    BY <1>2, <1>6, StartAllRest
  <2> HIDE DEF s
  <2> QED BY <1>6, <2>1, <2>2
<1>8. Healthy(s)
  BY <1>1, <1>2, <1>4, <1>6, StartAllSound DEF Healthy
<1> HIDE DEF s
<1>9. StartedAt(s, a, t.nextOp, c)
  <2>1. s.cur[a].op >= t.nextOp /\ s.cur[a].cmd = c
    BY <1>3, <1>7
  <2> QED BY <2>1 DEF StartedAt
<1>10. CASE c # "VOLUME"
  BY <1>2, <1>3, <1>5, <1>7, <1>8, <1>9, <1>10 DEF qu, c
<1>11. CASE c = "VOLUME"
  <2> DEFINE r == CompletionOf(s, a, sentOk, "local")
  <2>1. Active(s, a)
    BY <1>1, <1>7, StartedIsActive DEF Active
  <2>2. "local" \in Causes
    BY DEF Causes
  <2>3. /\ v \in EngineState /\ Healthy(v) /\ v.queues = s.queues /\ s.nextOp <= v.nextOp
        /\ r \in v.done
    BY <1>7, <1>8, <2>1, <2>2, CompleteKeeps
  <2>4. r.addr = a /\ r.op = t.nextOp /\ r.cmd = c
    BY <1>7 DEF CompletionOf
  <2> HIDE DEF r, v
  <2>5. StartedAt(v, a, t.nextOp, c)
    <3>1. [op |-> r.op, cmd |-> r.cmd] \in {[op |-> q.op, cmd |-> q.cmd] : q \in {q \in v.done : q.addr = a}}
      BY <2>3, <2>4
    <3>2. [op |-> r.op, cmd |-> r.cmd].op >= t.nextOp /\ [op |-> r.op, cmd |-> r.cmd].cmd = c
      BY <1>3, <2>4
    <3> QED BY <3>1, <3>2 DEF StartedAt
  <2>6. t.nextOp <= v.nextOp
    <3>1. v.nextOp \in Nat /\ s.nextOp \in Nat
      BY <1>7, <2>3 DEF EngineState
    <3> QED BY <1>3, <1>7, <2>3, <3>1
  <2>7. DequeueAndRun(e, a, sentOk) = v
    BY <1>5, <1>11
  <2> QED BY <1>2, <1>3, <1>7, <2>3, <2>5, <2>6, <2>7 DEF qu, c
<1> QED BY <1>10, <1>11

LEMMA StartAllEffect ==
  ASSUME NEW e \in EngineState, NEW f \in Starts
  PROVE  LET s == StartAll(e, f)
         IN  /\ s.queues = e.queues /\ s.done = e.done
             /\ \A a \in Addr0 : a \in DOMAIN f => s.cur[a] = [op |-> e.nextOp, cmd |-> f[a]]
             /\ \A a \in Addr0 : a \notin DOMAIN f => s.cur[a] = e.cur[a]
<1>1. DOMAIN f \in SUBSET Addr0 /\ \A a \in DOMAIN f : f[a] \in Commands
  BY DEF Starts
<1>2. CASE DOMAIN f = {}
  BY <1>2 DEF StartAll
<1>3. CASE DOMAIN f # {}
  <2> DEFINE s == StartAll(e, f)
  <2>1. \A a \in Addr0 :
          s.cur[a] = IF a \in DOMAIN f THEN [op |-> e.nextOp, cmd |-> f[a]] ELSE e.cur[a]
    BY <1>1, <1>3, StartAllFields
  <2>2. s.queues = e.queues /\ s.done = e.done
    BY <1>3, StartAllRest
  <2> HIDE DEF s
  <2>3. \A a \in Addr0 : a \in DOMAIN f => s.cur[a] = [op |-> e.nextOp, cmd |-> f[a]]
    BY <2>1
  <2>4. \A a \in Addr0 : a \notin DOMAIN f => s.cur[a] = e.cur[a]
    BY <2>1
  <2> QED BY <2>2, <2>3, <2>4 DEF s
<1> QED BY <1>2, <1>3

(* What a step may do to the queue of a, when nobody clears it. *)
QueueStep(a) ==
  \/ eng'.queues[a] = eng.queues[a]
  \/ \E c \in Commands : eng'.queues[a] = Append(eng.queues[a], c)
  \/ /\ eng.queues[a] # <<>> /\ eng'.queues[a] = Tail(eng.queues[a])
     /\ StartedAt(eng', a, eng.nextOp, Head(eng.queues[a]))

LEMMA ProcessCommandQueueSteps ==
  ASSUME Inv, NEW sentOk \in BOOLEAN, ProcessCommandQueue(sentOk), NEW a \in Addr0
  PROVE  QueueStep(a)
<1> DEFINE e == IF Runnable(Slot, Zero) THEN DequeueAndRun(Slot, Zero, sentOk) ELSE Slot
           t == [e EXCEPT !.queues = WithoutHeads(e)]
           f == [x \in QueueHeads(e) |-> Head(e.queues[x])]
<1>1. eng' = StartAll(t, f)
  BY DEF ProcessCommandQueue, QueueHeads, WithoutHeads
<1>2. /\ Slot \in EngineState /\ Healthy(Slot)
      /\ Slot.queues = eng.queues /\ Slot.nextOp = eng.nextOp
      /\ Slot.queues \in [Addr0 -> Seq(Commands)] /\ Slot.nextOp \in Nat
  BY SlotFields DEF EngineState
<1>3. /\ e \in EngineState /\ eng.nextOp <= e.nextOp
      /\ \A x \in Addr0 : x # Zero => e.queues[x] = eng.queues[x]
      /\ \/ e.queues[Zero] = eng.queues[Zero]
         \/ /\ eng.queues[Zero] # <<>> /\ e.queues[Zero] = Tail(eng.queues[Zero])
            /\ StartedAt(e, Zero, eng.nextOp, Head(eng.queues[Zero]))
  <2>1. CASE ~Runnable(Slot, Zero)
    BY <1>2, <2>1
  <2>2. CASE Runnable(Slot, Zero)
    <3> DEFINE s == DequeueAndRun(Slot, Zero, sentOk)
    <3>1. Zero \in Addr0 /\ Free(Slot, Zero) /\ Slot.queues[Zero] # <<>>
      BY <2>2 DEF Runnable, Addr0
    <3>2. /\ s \in EngineState
          /\ s.queues = [Slot.queues EXCEPT ![Zero] = Tail(@)]
          /\ Slot.nextOp <= s.nextOp
          /\ StartedAt(s, Zero, Slot.nextOp, Head(Slot.queues[Zero]))
      BY <1>2, <3>1, DequeuedIsStarted
    <3> HIDE DEF s
    <3>3. /\ s.queues[Zero] = Tail(eng.queues[Zero])
          /\ \A x \in Addr0 : x # Zero => s.queues[x] = eng.queues[x]
      BY <1>2, <3>1, <3>2
    <3>4. e = s
      BY <2>2 DEF s
    <3> HIDE DEF e
    <3> QED BY <1>2, <3>1, <3>2, <3>3, <3>4
  <2> QED BY <2>1, <2>2
<1> HIDE DEF e
<1>4. /\ WithoutHeads(e) \in [Addr0 -> Seq(Commands)] /\ f \in Starts /\ DOMAIN f = QueueHeads(e)
      /\ \A x \in QueueHeads(e) : x \in Addr0 /\ x # Zero /\ e.queues[x] # <<>>
  BY <1>3, QueueHeadsRun
<1>5. /\ t \in EngineState /\ t.queues = WithoutHeads(e) /\ t.cur = e.cur
      /\ t.done = e.done /\ t.nextOp = e.nextOp /\ t.nextOp \in Nat
  <2> DEFINE qu == WithoutHeads(e)
  <2> HIDE DEF qu
  <2>1. [e EXCEPT !.queues = qu] \in EngineState /\ [e EXCEPT !.queues = qu].queues = qu
        /\ [e EXCEPT !.queues = qu].cur = e.cur /\ [e EXCEPT !.queues = qu].done = e.done
        /\ [e EXCEPT !.queues = qu].nextOp = e.nextOp /\ e.nextOp \in Nat
    <3>1. qu \in [Addr0 -> Seq(Commands)]
      BY <1>4 DEF qu
    <3> QED BY <1>3, <3>1, Zenon DEF EngineState
  <2> QED BY <2>1 DEF qu
<1>6. \A x \in QueueHeads(e) : f[x] = Head(e.queues[x])
  OBVIOUS
<1> HIDE DEF t, f
<1> DEFINE s == StartAll(t, f)
<1>7. /\ s.queues = t.queues /\ s.done = t.done
      /\ \A x \in Addr0 : x \in DOMAIN f => s.cur[x] = [op |-> t.nextOp, cmd |-> f[x]]
      /\ \A x \in Addr0 : x \notin DOMAIN f => s.cur[x] = t.cur[x]
  BY <1>4, <1>5, StartAllEffect
<1>8. eng' = s
  BY <1>1
<1> HIDE DEF s
<1>9. CASE a \in QueueHeads(e)
  <2>1. a # Zero /\ e.queues[a] # <<>> /\ e.queues[a] = eng.queues[a]
    BY <1>3, <1>4, <1>9
  <2>2. s.queues[a] = Tail(eng.queues[a])
    BY <1>5, <1>7, <1>9, <2>1 DEF WithoutHeads
  <2>3. s.cur[a] = [op |-> t.nextOp, cmd |-> Head(eng.queues[a])]
    BY <1>4, <1>6, <1>7, <1>9, <2>1
  <2>4. s.cur[a].op >= eng.nextOp /\ s.cur[a].cmd = Head(eng.queues[a])
    <3>1. eng.nextOp \in Nat /\ s.cur[a].op = t.nextOp
      BY <1>2, <2>3
    <3> QED BY <1>3, <1>5, <2>3, <3>1
  <2>5. StartedAt(s, a, eng.nextOp, Head(eng.queues[a]))
    BY <2>4 DEF StartedAt
  <2> QED BY <1>8, <2>1, <2>2, <2>5 DEF QueueStep
<1>10. CASE a \notin QueueHeads(e)
  <2>1. s.queues[a] = e.queues[a] /\ s.cur[a] = e.cur[a] /\ s.done = e.done
    BY <1>4, <1>5, <1>7, <1>10 DEF WithoutHeads
  <2>2. \A n, c : StartedAt(e, a, n, c) => StartedAt(s, a, n, c)
    BY <2>1 DEF StartedAt
  <2> QED BY <1>3, <1>8, <2>1, <2>2 DEF QueueStep
<1> QED BY <1>9, <1>10

LEMMA ProcessNextSteps ==
  ASSUME Inv, NEW x \in Addr0, NEW sentOk \in BOOLEAN, ProcessNextCommandForAddress(x, sentOk),
         NEW a \in Addr0
  PROVE  QueueStep(a)
<1> DEFINE po == Slot.posted \ {x}
           t  == [Slot EXCEPT !.posted = po]
           s  == DequeueAndRun(t, x, sentOk)
<1>1. /\ Slot \in EngineState /\ Healthy(Slot)
      /\ Slot.queues = eng.queues /\ Slot.nextOp = eng.nextOp
  BY SlotFields
<1>2. eng' = IF t.states[x] = "Ready" /\ t.queues[x] # <<>> THEN s ELSE t
  BY DEF ProcessNextCommandForAddress
<1>3. po \in SUBSET Addr0
  BY <1>1 DEF EngineState
<1> HIDE DEF po
<1>4. /\ t \in EngineState /\ Healthy(t) /\ t.states = Slot.states /\ t.nextOp = Slot.nextOp
  BY <1>1, <1>3, OtherFields
<1>5. t.queues = eng.queues /\ t.queues \in [Addr0 -> Seq(Commands)]
  BY <1>1, <1>3, Zenon DEF EngineState
<1> HIDE DEF t
<1>6. CASE t.states[x] = "Ready" /\ t.queues[x] # <<>>
  <2>1. Free(t, x)
    BY <1>6 DEF Free
  <2>2. /\ s.queues = [t.queues EXCEPT ![x] = Tail(@)]
        /\ StartedAt(s, x, t.nextOp, Head(t.queues[x]))
    BY <1>4, <1>6, <2>1, DequeuedIsStarted
  <2> HIDE DEF s
  <2>3. eng' = s
    BY <1>2, <1>6
  <2>4. CASE a = x
    BY <1>1, <1>4, <1>5, <1>6, <2>2, <2>3, <2>4 DEF QueueStep
  <2>5. CASE a # x
    BY <1>5, <2>2, <2>3, <2>5 DEF QueueStep
  <2> QED BY <2>4, <2>5
<1>7. CASE ~(t.states[x] = "Ready" /\ t.queues[x] # <<>>)
  BY <1>2, <1>5, <1>7 DEF QueueStep
<1> QED BY <1>6, <1>7

LEMMA QueueSteps ==
  ASSUME Inv, Next, ~Disconnect, ~ \E a \in Addr0 : ClearCommandQueue(a), NEW a \in Addr0
  PROVE  QueueStep(a)
<1> DEFINE S == Kept(Slot)
<1>1. /\ eng \in EngineState /\ Slot \in EngineState /\ Healthy(Slot)
      /\ Slot.queues = eng.queues /\ Slot.nextOp \in Nat
  BY SlotFields DEF EngineState
<1>2. Slot \in S /\ ClosedUnderRuns(S)
  BY <1>1, KeptClosed DEF Kept
<1>3. \A e \in S : e.queues = eng.queues
  BY <1>1 DEF Kept
<1> HIDE DEF S
<1>4. Addr \subseteq Addr0 /\ Zero \in Addr0 /\ AddrCmds \subseteq Commands
      /\ ZeroCmds \subseteq Commands /\ "TS" \in Commands
  BY ConstantsAssumption DEF Addr0, Commands, DataCmds
<1>5. ASSUME NEW x \in Addr0, NEW c \in Commands, eng' = Enqueue(Slot, x, c)
      PROVE  QueueStep(a)
  <2>1. /\ eng'.queues = [eng.queues EXCEPT ![x] = Append(@, c)]
        /\ eng.queues \in [Addr0 -> Seq(Commands)]
    BY <1>1, <1>5 DEF Enqueue, EngineState
  <2>2. CASE a = x
    BY <2>1, <2>2 DEF QueueStep
  <2>3. CASE a # x
    BY <2>1, <2>3 DEF QueueStep
  <2> QED BY <2>2, <2>3
<1>6. ASSUME NEW x \in Addr, ConnectToPPB(x) PROVE QueueStep(a)
  BY <1>4, <1>5, <1>6 DEF ConnectToPPB
<1>7. ASSUME NEW x \in Addr0, NEW c \in Commands, NEW sentOk \in BOOLEAN, ExecuteCommand(x, c, sentOk)
      PROVE  QueueStep(a)
  <2>1. ExecuteImmediately(Slot, x, c, sentOk).queues = eng.queues
    BY <1>2, <1>3, ExecuteImmediatelyStays
  <2> QED BY <1>5, <1>7, <2>1 DEF ExecuteCommand, QueueStep
<1>8. ASSUME NEW c \in GroupCmds, NEW mask \in (SUBSET Addr) \ {{}}, ExecuteGroupCommand(c, mask)
      PROVE  QueueStep(a)
  BY <1>8, ExecuteGroupCommandFields, ConstantsAssumption DEF QueueStep
<1>9. ASSUME NEW x \in Addr, SendFU(x) PROVE QueueStep(a)
  BY <1>1, <1>9 DEF SendFU, QueueStep, EngineState
<1>10. ASSUME NEW p \in InFlight, NEW stale, OnDatagram(p, stale) PROVE QueueStep(a)
  BY <1>1, <1>2, <1>3, <1>10, OnDatagramStays DEF QueueStep, ClosedUnderRuns
<1>11. ASSUME NEW x \in Addr0, OnOperationTimeout(x) PROVE QueueStep(a)
  BY <1>2, <1>3, <1>11, OnOperationTimeoutStays DEF QueueStep, ClosedUnderRuns
<1>12. ASSUME NEW sentOk \in BOOLEAN, ProcessCommandQueue(sentOk) PROVE QueueStep(a)
  BY <1>12, ProcessCommandQueueSteps
<1>13. ASSUME NEW x \in Addr0, NEW sentOk \in BOOLEAN, ProcessNextCommandForAddress(x, sentOk)
       PROVE  QueueStep(a)
  BY <1>13, ProcessNextSteps
<1> QED
  BY <1>4, <1>6, <1>7, <1>8, <1>9, <1>10, <1>11, <1>12, <1>13 DEF Next

(* A queued command that is not cleared away leaves from the head of its     *)
(* queue, and in the same slot it is started.                                *)
THEOREM NoCommandIsDropped == Spec => DequeuedMeansStarted
<1> DEFINE A == \A a \in Addr0 :
                  Len(eng'.queues[a]) < Len(eng.queues[a]) =>
                    \/ disconnects' # disconnects \/ clears' # clears
                    \/ /\ eng'.queues[a] = Tail(eng.queues[a])
                       /\ \E o \in {eng'.cur[a]} \cup {[op |-> r.op, cmd |-> r.cmd] :
                                                       r \in {q \in eng'.done : q.addr = a}} :
                            o.op >= eng.nextOp /\ o.cmd = Head(eng.queues[a])
<1>1. ASSUME Inv, [Next]_vars PROVE [A]_vars
  <2>1. CASE Disconnect \/ \E a \in Addr0 : ClearCommandQueue(a)
    <3>1. disconnects \in Nat /\ clears \in Nat
      BY <1>1 DEF Inv
    <3>2. disconnects' = disconnects + 1 \/ clears' = clears + 1
      BY <2>1 DEF Disconnect, ClearCommandQueue
    <3>3. disconnects' # disconnects \/ clears' # clears
      BY <3>1, <3>2
    <3> QED BY <3>3
  <2>2. CASE Next /\ ~Disconnect /\ ~ \E a \in Addr0 : ClearCommandQueue(a)
    <3>1. ASSUME NEW a \in Addr0, Len(eng'.queues[a]) < Len(eng.queues[a])
          PROVE  /\ eng'.queues[a] = Tail(eng.queues[a])
                 /\ StartedAt(eng', a, eng.nextOp, Head(eng.queues[a]))
      <4>1. eng.queues[a] \in Seq(Commands)
        BY <1>1 DEF Inv, Healthy, Sound, EngineState
      <4>2. ~(eng'.queues[a] = eng.queues[a])
        BY <3>1, <4>1
      <4>3. \A c \in Commands : eng'.queues[a] # Append(eng.queues[a], c)
        BY <3>1, <4>1
      <4> QED BY <1>1, <2>2, <4>2, <4>3, QueueSteps DEF QueueStep
    <3> QED BY <3>1 DEF StartedAt
  <2> QED BY <1>1, <2>1, <2>2
<1> QED BY <1>1, Invariance, PTL DEF Spec, DequeuedMeansStarted
=============================================================================
