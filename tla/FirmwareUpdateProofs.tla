------------------------ MODULE FirmwareUpdateProofs ------------------------
(***************************************************************************)
(* The invariants and action properties of FirmwareUpdate, for every set   *)
(* of PPBs, every image, every number of updates and of commands the user  *)
(* sends between them.                                                     *)
(*                                                                         *)
(* The first part says what a slot of the engine may do to the one VOLUME  *)
(* that is under way: it passes from the calls to the queue of address 0   *)
(* and leaves it in a slot that starts and completes it.  The second part  *)
(* is the inductive invariant: where that VOLUME may be at each stage of   *)
(* the update, and which signals may still wait for the controller.  The   *)
(* third part is about the program as it is: without the group signal no   *)
(* update gets beyond VERS.                                                *)
(***************************************************************************)
EXTENDS FirmwareUpdate, EngineStepProofs, SequenceTheorems, FiniteSetTheorems

(* The commands that may be under way at each address: the update's own     *)
(* ones and IS_YOU at address 0, the user's and the groups' at a PPB.       *)
ZeroOwn == {"IS_YOU", "VOLUME", "UPDATE", "CLEAN"}
PPBOwn  == AddrCmds \cup GroupStages
Own     == [a \in Addr0 |-> IF a = Zero THEN ZeroOwn ELSE PPBOwn]

(* VOLUME is never in flight between two slots. *)
InFlightAt(a) == (Own[a] \ {"VOLUME"}) \cup {None}

(* The operations of an engine state, and those that wait in its groups.    *)
UpdatesGroups(e) ==
  /\ \A g \in e.groups : g.cmd \in GroupStages
  /\ \A i \in 1 .. Len(e.pending) : e.pending[i].cmd \in GroupStages
Calm(e) ==
  /\ UpdatesGroups(e)
  /\ \A a \in Addr0 : e.cur[a].cmd \in InFlightAt(a)

(* The states with queues q in which the completions of VOLUME are V. *)
Volumes(e) == {r \in e.done : r.cmd = "VOLUME"}
Emits(q, V) ==
  {e \in EngineState :
     /\ Healthy(e) /\ Calm(e) /\ e.queues = q /\ Volumes(e) = V
     /\ \A r \in e.done : r.cmd \in Own[r.addr] \cup {None}}

-----------------------------------------------------------------------------
(* What a slot of the engine does to VOLUME *)

LEMMA OwnCommands ==
  /\ ZeroOwn \subseteq Commands /\ PPBOwn \subseteq Commands
  /\ GroupStages \subseteq PPBOwn /\ "VOLUME" \notin PPBOwn
  /\ None \notin Commands /\ "VOLUME" # None
  /\ Zero \in Addr0 /\ Zero \notin Addr /\ Addr \subseteq Addr0
  /\ Own[Zero] = ZeroOwn /\ \A a \in Addr : Own[a] = PPBOwn
  /\ \A a \in Addr0 : Own[a] \subseteq Commands
<1>1. ZeroOwn \subseteq Commands /\ PPBOwn \subseteq Commands /\ None \notin Commands
  BY ConstantsAssumption
  DEF ZeroOwn, PPBOwn, GroupStages, Commands, DataCmds, AckCmds, PlainCmds, None
<1>2. GroupStages \subseteq PPBOwn /\ "VOLUME" \notin PPBOwn /\ "VOLUME" # None
  BY ConstantsAssumption DEF PPBOwn, GroupStages, DataCmds, AckCmds, PlainCmds, None
<1>3. Zero \in Addr0 /\ Zero \notin Addr /\ Addr \subseteq Addr0
  BY ConstantsAssumption DEF Addr0
<1>4. Own[Zero] = ZeroOwn /\ \A a \in Addr : Own[a] = PPBOwn
  BY <1>3 DEF Own
<1>5. \A a \in Addr0 : Own[a] \subseteq Commands
  BY <1>1, <1>3 DEF Own
<1> QED BY <1>1, <1>2, <1>3, <1>4, <1>5

LEMMA StartAllCalm ==
  ASSUME NEW q, NEW V, NEW e \in Emits(q, V), NEW f \in Starts,
         \A a \in DOMAIN f : Free(e, a) /\ f[a] \in Own[a] \ {"VOLUME"}
  PROVE  StartAll(e, f) \in Emits(q, V)
<1> DEFINE s == StartAll(e, f)
<1>1. /\ e \in EngineState /\ Healthy(e) /\ Calm(e) /\ e.queues = q /\ Volumes(e) = V
      /\ \A r \in e.done : r.cmd \in Own[r.addr] \cup {None}
  BY DEF Emits
<1>2. DOMAIN f \subseteq Addr0 /\ \A a \in DOMAIN f : f[a] \in Commands
  BY DEF Starts
<1>3. CASE DOMAIN f = {}
  BY <1>3 DEF StartAll
<1>4. CASE DOMAIN f # {}
  <2>1. /\ s \in EngineState
        /\ s.groups = e.groups /\ s.pending = e.pending
        /\ \A a \in Addr0 : s.cur[a] = IF a \in DOMAIN f THEN [op |-> e.nextOp, cmd |-> f[a]]
                                       ELSE e.cur[a]
    BY <1>1, <1>2, <1>4, StartAllFields
  <2>2. s.done = e.done /\ s.queues = e.queues
    BY <1>1, <1>4, StartAllRest
  <2>3. Healthy(s)
    BY <1>1, <1>2, StartAllSound DEF Healthy
  <2> HIDE DEF s
  <2>4. Calm(s)
    <3>1. \A a \in Addr0 : s.cur[a].cmd \in InFlightAt(a)
      <4>1. ASSUME NEW a \in Addr0, a \in DOMAIN f PROVE s.cur[a].cmd \in InFlightAt(a)
        <5>1. s.cur[a] = [op |-> e.nextOp, cmd |-> f[a]]
          BY <2>1, <4>1
        <5> QED BY <4>1, <5>1 DEF InFlightAt
      <4>2. ASSUME NEW a \in Addr0, a \notin DOMAIN f PROVE s.cur[a].cmd \in InFlightAt(a)
        BY <1>1, <2>1, <4>2 DEF Calm
      <4> QED BY <4>1, <4>2
    <3> QED BY <1>1, <2>1, <3>1 DEF Calm, UpdatesGroups
  <2>5. Volumes(s) = V
    BY <1>1, <2>2 DEF Volumes
  <2> QED BY <1>1, <2>1, <2>2, <2>3, <2>4, <2>5 DEF Emits, s
<1> QED BY <1>3, <1>4

(* The end of an operation, whatever the operation is. *)
LEMMA CompleteCalm ==
  ASSUME NEW e \in EngineState, Healthy(e), UpdatesGroups(e), NEW a \in Addr0, Active(e, a),
         \A x \in Addr0 \ {a} : e.cur[x].cmd \in InFlightAt(x),
         NEW ok \in BOOLEAN, NEW cause \in Causes
  PROVE  LET s == Complete(e, a, ok, cause)
         IN  /\ s \in EngineState /\ Healthy(s) /\ Calm(s) /\ s.queues = e.queues
             /\ s.done = e.done \cup {CompletionOf(e, a, ok, cause)}
<1> DEFINE u == Ended(e, a, ok, cause)
           s == TryStartPendingGroup(u)
           g == Head(u.pending)
<1>1. Complete(e, a, ok, cause) = s
  BY CompleteIsEndedThenTryStart
<1>2. /\ s \in EngineState /\ Healthy(s) /\ s.queues = e.queues
      /\ s.done = e.done \cup {CompletionOf(e, a, ok, cause)}
  BY <1>1, CompleteKeeps
<1>3. /\ Sound(u)
      /\ \A x \in Addr0 : u.cur[x] = IF x = a THEN NoOp ELSE e.cur[x]
      /\ u.groups = Settled(e, a, ok) \ Over(e, a, ok) /\ u.pending = e.pending
  BY EndedSound, EndedFields
<1>4. \A x \in Addr0 : u.cur[x].cmd \in InFlightAt(x)
  <2>1. NoOp.cmd = None
    BY DEF NoOp
  <2> QED BY <1>3, <2>1 DEF InFlightAt
<1>5. \A h \in u.groups : h.cmd \in GroupStages
  <2>1. \A h \in e.groups : MemberDone(h, a, ok).cmd = h.cmd
    <3>1. \A h \in e.groups : h \in Group
      BY DEF EngineState
    <3> QED BY <3>1 DEF MemberDone, Group
  <2> QED BY <1>3, <2>1 DEF Settled, UpdatesGroups
<1>6. UpdatesGroups(u)
  BY <1>3, <1>5 DEF UpdatesGroups
<1> HIDE DEF u
<1>7. CASE s = u
  BY <1>2, <1>4, <1>6, <1>7, <1>1 DEF Calm
<1>8. CASE /\ u.pending # <<>>
           /\ s.groups = u.groups \cup {NewGroup(u, g)}
           /\ \A x \in Addr0 : s.cur[x] = IF x \in g.mask THEN [op |-> u.nextOp, cmd |-> g.cmd]
                                          ELSE u.cur[x]
           /\ s.pending = Tail(u.pending)
  <2>1. u.pending \in Seq(PendingGroup)
    BY <1>3 DEF Sound, EngineState
  <2>2. g.cmd \in GroupStages
    BY <1>6, <1>8, <2>1, HeadTailProperties DEF UpdatesGroups
  <2>3. \A i \in 1 .. Len(s.pending) : s.pending[i].cmd \in GroupStages
    <3>1. \A i \in 1 .. Len(Tail(u.pending)) :
            i + 1 \in 1 .. Len(u.pending) /\ Tail(u.pending)[i] = u.pending[i + 1]
      BY <1>8, <2>1
    <3> QED BY <1>6, <1>8, <3>1 DEF UpdatesGroups
  <2>4. NewGroup(u, g).cmd = g.cmd
    BY DEF NewGroup
  <2>5. UpdatesGroups(s)
    BY <1>6, <1>8, <2>2, <2>3, <2>4 DEF UpdatesGroups
  <2>6. g \in PendingGroup /\ g.mask \subseteq Addr
    BY <1>3, <1>8, HeadOfPending
  <2>7. \A x \in Addr0 : s.cur[x].cmd \in InFlightAt(x)
    <3>1. ASSUME NEW x \in Addr0, x \in g.mask PROVE s.cur[x].cmd \in InFlightAt(x)
      <4>1. s.cur[x].cmd = g.cmd
        BY <1>8, <3>1
      <4>2. Own[x] = PPBOwn
        BY <2>6, <3>1, OwnCommands
      <4> QED BY <2>2, <4>1, <4>2, OwnCommands DEF InFlightAt
    <3>2. ASSUME NEW x \in Addr0, x \notin g.mask PROVE s.cur[x].cmd \in InFlightAt(x)
      BY <1>4, <1>8, <3>2
    <3> QED BY <3>1, <3>2
  <2> HIDE DEF s, g
  <2> QED BY <1>1, <1>2, <2>5, <2>7 DEF Calm
<1>9. \/ s = u
      \/ /\ u.pending # <<>>
         /\ s.groups = u.groups \cup {NewGroup(u, g)}
         /\ \A x \in Addr0 : s.cur[x] = IF x \in g.mask THEN [op |-> u.nextOp, cmd |-> g.cmd]
                                        ELSE u.cur[x]
         /\ s.pending = Tail(u.pending)
  BY <1>3, TryStartFields
<1> QED BY <1>7, <1>8, <1>9

(* The end of an operation that is in flight between two slots. *)
LEMMA CompleteStaysCalm ==
  ASSUME NEW q, NEW V, NEW e \in Emits(q, V), NEW a \in Addr0,
         NEW ok \in BOOLEAN, NEW cause \in Causes
  PROVE  Complete(e, a, ok, cause) \in Emits(q, V)
<1> DEFINE s == Complete(e, a, ok, cause)
           r == CompletionOf(e, a, ok, cause)
<1>1. /\ e \in EngineState /\ Healthy(e) /\ Calm(e) /\ e.queues = q /\ Volumes(e) = V
      /\ \A x \in e.done : x.cmd \in Own[x.addr] \cup {None}
  BY DEF Emits
<1>2. CASE ~Active(e, a)
  BY <1>2 DEF Complete
<1>3. CASE Active(e, a)
  <2>1. /\ s \in EngineState /\ Healthy(s) /\ Calm(s) /\ s.queues = e.queues
        /\ s.done = e.done \cup {r}
    BY <1>1, <1>3, CompleteCalm DEF Calm
  <2>2. r.cmd = e.cur[a].cmd /\ r.addr = a
    BY DEF CompletionOf
  <2>3. r.cmd \in Own[a] \cup {None} /\ r.cmd # "VOLUME"
    BY <1>1, <2>2, OwnCommands DEF Calm, InFlightAt
  <2> HIDE DEF s, r
  <2>4. Volumes(s) = V
    BY <1>1, <2>1, <2>3 DEF Volumes
  <2> QED BY <1>1, <2>1, <2>2, <2>3, <2>4 DEF Emits, s
<1> QED BY <1>2, <1>3

LEMMA EmitsClosed ==
  ASSUME NEW q, NEW V
  PROVE  ClosedUnderEnds(Emits(q, V))
<1>1. ASSUME NEW e \in Emits(q, V), NEW fu \in SUBSET Addr0
      PROVE  [e EXCEPT !.fu = fu] \in Emits(q, V)
  <2> DEFINE t == [e EXCEPT !.fu = fu]
  <2>1. /\ e \in EngineState /\ Healthy(e) /\ Calm(e) /\ e.queues = q /\ Volumes(e) = V
        /\ \A r \in e.done : r.cmd \in Own[r.addr] \cup {None}
    BY DEF Emits
  <2>2. /\ t \in EngineState /\ Healthy(t) /\ t.cur = e.cur /\ t.groups = e.groups
        /\ t.pending = e.pending /\ t.done = e.done
    BY <2>1, OtherFields
  <2>3. t.queues = e.queues
    BY <2>1 DEF EngineState
  <2> HIDE DEF t
  <2>4. Calm(t) /\ Volumes(t) = V
    BY <2>1, <2>2 DEF Calm, UpdatesGroups, Volumes
  <2> QED BY <2>1, <2>2, <2>3, <2>4 DEF Emits, t
<1>2. \A e \in Emits(q, V) : e \in EngineState /\ Healthy(e)
  BY DEF Emits
<1>3. \A e \in Emits(q, V), a \in Addr0, ok \in BOOLEAN, cause \in Causes :
        Complete(e, a, ok, cause) \in Emits(q, V)
  BY CompleteStaysCalm
<1> QED BY <1>1, <1>2, <1>3 DEF ClosedUnderEnds


(* The completions of VOLUME in a slot that starts c; ok is the outcome of   *)
(* its local send.                                                           *)
Sends(V, c, ok) ==
  IF c = "VOLUME" THEN \E r : V = {r} /\ r.addr = Zero /\ r.cmd = "VOLUME" /\ r.ok = ok
  ELSE V = {}

(* executeCommandImmediately: VOLUME is started and completed in the slot.  *)
LEMMA ExecuteVolume ==
  ASSUME NEW q, NEW e \in Emits(q, {}), Free(e, Zero), NEW ok \in BOOLEAN
  PROVE  \E V : Sends(V, "VOLUME", ok) /\ ExecuteImmediately(e, Zero, "VOLUME", ok) \in Emits(q, V)
<1> DEFINE f == [x \in {Zero} |-> "VOLUME"]
           t == StartAll(e, f)
           s == Complete(t, Zero, ok, "local")
           r == CompletionOf(t, Zero, ok, "local")
<1>1. /\ e \in EngineState /\ Healthy(e) /\ Calm(e) /\ e.queues = q /\ Volumes(e) = {}
      /\ \A x \in e.done : x.cmd \in Own[x.addr] \cup {None}
  BY DEF Emits
<1>2. Zero \in Addr0 /\ "VOLUME" \in Commands /\ Own[Zero] = ZeroOwn /\ "VOLUME" \in ZeroOwn
  BY OwnCommands DEF ZeroOwn
<1>3. ExecuteImmediately(e, Zero, "VOLUME", ok) = s
  BY DEF ExecuteImmediately
<1>4. /\ t \in EngineState /\ t.groups = e.groups /\ t.pending = e.pending
      /\ \A a \in Addr0 : t.cur[a] = IF a = Zero THEN [op |-> e.nextOp, cmd |-> "VOLUME"]
                                     ELSE e.cur[a]
  <2>1. DOMAIN f = {Zero} /\ f[Zero] = "VOLUME"
    OBVIOUS
  <2> HIDE DEF f
  <2>2. /\ t \in EngineState /\ t.groups = e.groups /\ t.pending = e.pending
        /\ \A a \in Addr0 : t.cur[a] = IF a \in DOMAIN f THEN [op |-> e.nextOp, cmd |-> f[a]]
                                       ELSE e.cur[a]
    BY <1>1, <1>2, <2>1, StartAllFields
  <2> QED BY <2>1, <2>2
<1>5. t.done = e.done /\ t.queues = e.queues
  BY <1>1, StartAllRest
<1>6. Healthy(t)
  BY <1>1, <1>2, StartAllSound DEF Healthy
<1>7. Active(t, Zero) /\ t.cur[Zero].cmd = "VOLUME"
  BY <1>2, <1>4, StartedIsActive DEF Active
<1>8. UpdatesGroups(t) /\ \A x \in Addr0 \ {Zero} : t.cur[x].cmd \in InFlightAt(x)
  BY <1>1, <1>4 DEF Calm, UpdatesGroups
<1> HIDE DEF t
<1>9. "local" \in Causes
  BY DEF Causes
<1>10. /\ s \in EngineState /\ Healthy(s) /\ Calm(s) /\ s.queues = q
       /\ s.done = e.done \cup {r}
  BY <1>1, <1>2, <1>4, <1>5, <1>6, <1>7, <1>8, <1>9, CompleteCalm
<1>11. r.addr = Zero /\ r.cmd = "VOLUME" /\ r.ok = ok
  BY <1>7 DEF CompletionOf
<1> HIDE DEF s, r
<1>12. Volumes(s) = {r}
  BY <1>1, <1>10, <1>11 DEF Volumes
<1>13. \A x \in s.done : x.cmd \in Own[x.addr] \cup {None}
  BY <1>1, <1>2, <1>10, <1>11
<1>14. s \in Emits(q, {r})
  BY <1>10, <1>12, <1>13 DEF Emits
<1>15. Sends({r}, "VOLUME", ok)
  BY <1>11 DEF Sends
<1> QED BY <1>3, <1>14, <1>15

LEMMA ExecuteEmits ==
  ASSUME NEW q, NEW e \in Emits(q, {}), NEW a \in Addr0, Free(e, a), NEW c \in Own[a],
         NEW ok \in BOOLEAN
  PROVE  \E V : Sends(V, c, ok) /\ ExecuteImmediately(e, a, c, ok) \in Emits(q, V)
<1>1. CASE c = "VOLUME"
  <2>1. a = Zero
    BY <1>1, OwnCommands DEF Addr0
  <2> QED BY <1>1, <2>1, ExecuteVolume
<1>2. CASE c # "VOLUME"
  <2> DEFINE f == [x \in {a} |-> c]
  <2>1. f \in Starts
    <3>1. {a} \in SUBSET Addr0 /\ f \in [{a} -> Commands]
      BY OwnCommands
    <3> QED BY <3>1 DEF Starts
  <2>2. StartAll(e, f) \in Emits(q, {})
    BY <1>2, <2>1, StartAllCalm
  <2>3. ExecuteImmediately(e, a, c, ok) = StartAll(e, f)
    BY <1>2 DEF ExecuteImmediately
  <2> QED BY <1>2, <2>2, <2>3 DEF Sends
<1> QED BY <1>1, <1>2

(* The queues and the posted calls are not looked at by the rest. *)
LEMMA OthersEmit ==
  ASSUME NEW q, NEW V, NEW e \in Emits(q, V)
  PROVE  /\ \A qu \in [Addr0 -> Seq(Commands)] : [e EXCEPT !.queues = qu] \in Emits(qu, V)
         /\ \A po \in SUBSET Addr0 : [e EXCEPT !.posted = po] \in Emits(q, V)
<1>1. /\ e \in EngineState /\ Healthy(e) /\ Calm(e) /\ e.queues = q /\ Volumes(e) = V
      /\ \A r \in e.done : r.cmd \in Own[r.addr] \cup {None}
  BY DEF Emits
<1>2. ASSUME NEW t \in EngineState, Healthy(t), t.cur = e.cur, t.groups = e.groups,
             t.pending = e.pending, t.done = e.done
      PROVE  t \in Emits(t.queues, V)
  <2>1. Calm(t) /\ Volumes(t) = V
    BY <1>1, <1>2 DEF Calm, UpdatesGroups, Volumes
  <2> QED BY <1>1, <1>2, <2>1 DEF Emits
<1>3. ASSUME NEW qu \in [Addr0 -> Seq(Commands)]
      PROVE  [e EXCEPT !.queues = qu] \in Emits(qu, V)
  <2> DEFINE t == [e EXCEPT !.queues = qu]
  <2>1. /\ t \in EngineState /\ Healthy(t) /\ t.cur = e.cur /\ t.groups = e.groups
        /\ t.pending = e.pending /\ t.done = e.done
    BY <1>1, OtherFields
  <2>2. t.queues = qu
    BY <1>1 DEF EngineState
  <2> HIDE DEF t
  <2> QED BY <1>2, <2>1, <2>2 DEF t
<1>4. ASSUME NEW po \in SUBSET Addr0
      PROVE  [e EXCEPT !.posted = po] \in Emits(q, V)
  <2> DEFINE t == [e EXCEPT !.posted = po]
  <2>1. /\ t \in EngineState /\ Healthy(t) /\ t.cur = e.cur /\ t.groups = e.groups
        /\ t.pending = e.pending /\ t.done = e.done
    BY <1>1, OtherFields
  <2>2. t.queues = q
    BY <1>1 DEF EngineState
  <2> HIDE DEF t
  <2> QED BY <1>2, <2>1, <2>2 DEF t
<1> QED BY <1>3, <1>4

(* The head of a queue is run. *)
LEMMA DequeueEmits ==
  ASSUME NEW q, NEW e \in Emits(q, {}), NEW a \in Addr0, Free(e, a), q[a] # <<>>,
         q[a] \in Seq(Own[a]), NEW ok \in BOOLEAN
  PROVE  \E V : /\ Sends(V, Head(q[a]), ok)
                /\ DequeueAndRun(e, a, ok) \in Emits([q EXCEPT ![a] = Tail(@)], V)
<1> DEFINE qu == [q EXCEPT ![a] = Tail(@)]
           t  == [e EXCEPT !.queues = qu]
<1>1. e \in EngineState /\ e.queues = q
  BY DEF Emits
<1>2. /\ qu \in [Addr0 -> Seq(Commands)]
      /\ DequeueAndRun(e, a, ok) = ExecuteImmediately(t, a, Head(q[a]), ok)
  BY <1>1, QueueRest
<1> HIDE DEF qu
<1>3. t \in Emits(qu, {})
  BY <1>2, OthersEmit
<1>4. Free(t, a)
  <2>1. t.states = e.states
    BY <1>1 DEF EngineState
  <2> QED BY <2>1 DEF Free
<1>5. Head(q[a]) \in Own[a]
  BY HeadTailProperties
<1> HIDE DEF t
<1>6. \E V : Sends(V, Head(q[a]), ok) /\ ExecuteImmediately(t, a, Head(q[a]), ok) \in Emits(qu, V)
  BY <1>3, <1>4, <1>5, ExecuteEmits
<1> QED BY <1>2, <1>6 DEF qu


-----------------------------------------------------------------------------
(* The slots *)

(* Between two slots.  eng is then one that has emitted nothing.            *)
Queued(e) == \A a \in Addr0 : e.queues[a] \in Seq(Own[a])
AtRest == Inv /\ Calm(eng) /\ Queued(eng)

(* What a slot does to the queue of address 0: nothing, or its head is run. *)
Moved(V) ==
  \/ eng'.queues[Zero] = eng.queues[Zero] /\ V = {}
  \/ /\ eng.queues[Zero] # <<>>
     /\ eng'.queues[Zero] = Tail(eng.queues[Zero])
     /\ \E ok \in BOOLEAN : Sends(V, Head(eng.queues[Zero]), ok)

LEMMA SlotEmits ==
  ASSUME AtRest
  PROVE  Slot \in Emits(eng.queues, {})
<1>1. /\ Slot \in EngineState /\ Healthy(Slot) /\ Slot.queues = eng.queues
      /\ Slot.cur = eng.cur /\ Slot.groups = eng.groups /\ Slot.pending = eng.pending
      /\ Slot.done = {}
  BY SlotFields DEF AtRest
<1>2. Calm(Slot) /\ Volumes(Slot) = {}
  BY <1>1 DEF AtRest, Calm, UpdatesGroups, Volumes
<1> QED BY <1>1, <1>2 DEF Emits

LEMMA OnDatagramEmits ==
  ASSUME AtRest, NEW p \in InFlight, NEW stale, OnDatagram(p, stale)
  PROVE  eng' \in Emits(eng.queues, {})
<1>1. eng \in EngineState
  BY SlotFields DEF AtRest
<1> QED BY <1>1, SlotEmits, EmitsClosed, OnDatagramStays

LEMMA OnOperationTimeoutEmits ==
  ASSUME AtRest, NEW a \in Addr0, OnOperationTimeout(a)
  PROVE  eng' \in Emits(eng.queues, {})
BY SlotEmits, EmitsClosed, OnOperationTimeoutStays

LEMMA ProcessNextEmits ==
  ASSUME AtRest, NEW a \in Addr0, NEW sentOk \in BOOLEAN, ProcessNextCommandForAddress(a, sentOk)
  PROVE  \E V : eng' \in Emits(eng'.queues, V) /\ Queued(eng') /\ Moved(V)
<1> DEFINE po == Slot.posted \ {a}
           t  == [Slot EXCEPT !.posted = po]
           q  == eng.queues
<1>1. /\ Slot \in EngineState /\ Slot.queues = q /\ Slot \in Emits(q, {})
  BY SlotEmits, SlotFields DEF AtRest
<1>2. po \in SUBSET Addr0
  BY <1>1 DEF EngineState
<1>3. eng' = IF t.states[a] = "Ready" /\ t.queues[a] # <<>> THEN DequeueAndRun(t, a, sentOk) ELSE t
  BY DEF ProcessNextCommandForAddress
<1> HIDE DEF po
<1>4. t \in Emits(q, {}) /\ t.queues = q
  <2>1. t \in Emits(q, {})
    BY <1>1, <1>2, OthersEmit
  <2> HIDE DEF t
  <2> QED BY <2>1 DEF Emits
<1> HIDE DEF t
<1>5. CASE t.states[a] = "Ready" /\ t.queues[a] # <<>>
  <2>1. Free(t, a) /\ q[a] # <<>> /\ q[a] \in Seq(Own[a])
    BY <1>4, <1>5 DEF Free, AtRest, Queued
  <2>2. PICK V : /\ Sends(V, Head(q[a]), sentOk)
                 /\ DequeueAndRun(t, a, sentOk) \in Emits([q EXCEPT ![a] = Tail(@)], V)
    BY <1>4, <2>1, DequeueEmits
  <2>3. eng' \in Emits([q EXCEPT ![a] = Tail(@)], V)
    BY <1>3, <1>5, <2>2
  <2>4. eng'.queues = [q EXCEPT ![a] = Tail(@)]
    BY <2>3 DEF Emits
  <2>5. q \in [Addr0 -> Seq(Commands)]
    BY SlotFields DEF AtRest, EngineState
  <2>6. \A x \in Addr0 : eng'.queues[x] = IF x = a THEN Tail(q[x]) ELSE q[x]
    BY <2>4, <2>5
  <2>7. Queued(eng')
    <3>1. Tail(q[a]) \in Seq(Own[a])
      BY <2>1, HeadTailProperties
    <3> QED BY <2>6, <3>1 DEF AtRest, Queued
  <2>8. Moved(V)
    <3>1. Zero \in Addr0
      BY OwnCommands
    <3>2. CASE a = Zero
      BY <2>1, <2>2, <2>6, <3>1, <3>2 DEF Moved
    <3>3. CASE a # Zero
      <4>1. Head(q[a]) \in Own[a]
        BY <2>1, HeadTailProperties
      <4>2. Head(q[a]) # "VOLUME"
        BY <3>3, <4>1, OwnCommands DEF Addr0
      <4> QED BY <2>2, <2>6, <3>1, <3>3, <4>2 DEF Moved, Sends
    <3> QED BY <3>2, <3>3
  <2> QED BY <2>3, <2>4, <2>7, <2>8
<1>6. CASE ~(t.states[a] = "Ready" /\ t.queues[a] # <<>>)
  <2>1. eng' = t
    BY <1>3, <1>6
  <2> QED BY <1>4, <2>1 DEF AtRest, Queued, Moved
<1> QED BY <1>5, <1>6

LEMMA ProcessCommandQueueEmits ==
  ASSUME AtRest, NEW sentOk \in BOOLEAN, ProcessCommandQueue(sentOk)
  PROVE  \E V : eng' \in Emits(eng'.queues, V) /\ Queued(eng') /\ Moved(V)
<1> DEFINE q == eng.queues
           e == IF Runnable(Slot, Zero) THEN DequeueAndRun(Slot, Zero, sentOk) ELSE Slot
           t == [e EXCEPT !.queues = WithoutHeads(e)]
           f == [a \in QueueHeads(e) |-> Head(e.queues[a])]
<1>1. eng' = StartAll(t, f)
  BY DEF ProcessCommandQueue, QueueHeads, WithoutHeads
<1>2. /\ Slot.queues = q /\ Slot \in Emits(q, {}) /\ Zero \in Addr0
      /\ q \in [Addr0 -> Seq(Commands)] /\ \A a \in Addr0 : q[a] \in Seq(Own[a])
  BY SlotEmits, SlotFields, OwnCommands DEF AtRest, Queued, EngineState
<1>3. \E V : /\ e \in Emits(e.queues, V)
             /\ \A a \in Addr0 \ {Zero} : e.queues[a] = q[a]
             /\ \/ e.queues[Zero] = q[Zero] /\ V = {}
                \/ /\ q[Zero] # <<>> /\ e.queues[Zero] = Tail(q[Zero])
                   /\ \E ok \in BOOLEAN : Sends(V, Head(q[Zero]), ok)
  <2>1. CASE Runnable(Slot, Zero)
    <3>1. Free(Slot, Zero) /\ q[Zero] # <<>>
      BY <1>2, <2>1 DEF Runnable
    <3>2. PICK V : /\ Sends(V, Head(q[Zero]), sentOk)
                   /\ DequeueAndRun(Slot, Zero, sentOk) \in Emits([q EXCEPT ![Zero] = Tail(@)], V)
      <4>1. Zero \in Addr0 /\ Slot \in Emits(q, {}) /\ q[Zero] \in Seq(Own[Zero])
        BY <1>2
      <4> HIDE DEF q
      <4> QED BY <3>1, <4>1, DequeueEmits
    <3>3. e \in Emits([q EXCEPT ![Zero] = Tail(@)], V)
      BY <2>1, <3>2
    <3> HIDE DEF e
    <3>4. e.queues = [q EXCEPT ![Zero] = Tail(@)]
      BY <3>3 DEF Emits
    <3>5. \A x \in Addr0 : e.queues[x] = IF x = Zero THEN Tail(q[x]) ELSE q[x]
      BY <1>2, <3>4
    <3> QED BY <1>2, <3>1, <3>2, <3>3, <3>4, <3>5
  <2>2. CASE ~Runnable(Slot, Zero)
    BY <1>2, <2>2
  <2> QED BY <2>1, <2>2
<1>4. PICK V : /\ e \in Emits(e.queues, V)
               /\ \A a \in Addr0 \ {Zero} : e.queues[a] = q[a]
               /\ \/ e.queues[Zero] = q[Zero] /\ V = {}
                  \/ /\ q[Zero] # <<>> /\ e.queues[Zero] = Tail(q[Zero])
                     /\ \E ok \in BOOLEAN : Sends(V, Head(q[Zero]), ok)
  BY <1>3
<1> HIDE DEF e
<1>5. e \in EngineState
  BY <1>4 DEF Emits
<1>6. /\ WithoutHeads(e) \in [Addr0 -> Seq(Commands)] /\ f \in Starts /\ DOMAIN f = QueueHeads(e)
      /\ \A a \in QueueHeads(e) : /\ a \in Addr0 /\ a # Zero /\ Free(e, a)
                                  /\ e.queues[a] # <<>> /\ e.queues[a] \in Seq(Commands)
  BY <1>5, QueueHeadsRun
<1>7. \A a \in Addr0 : e.queues[a] \in Seq(Own[a])
  <2>1. e.queues[Zero] \in Seq(Own[Zero])
    <3>1. q[Zero] \in Seq(Own[Zero])
      BY <1>2
    <3>2. q[Zero] # <<>> => Tail(q[Zero]) \in Seq(Own[Zero])
      BY <3>1, HeadTailProperties
    <3> QED BY <1>4, <3>1, <3>2
  <2> QED BY <1>2, <1>4, <2>1
<1>8. \A a \in QueueHeads(e) : /\ Head(e.queues[a]) \in Own[a] \ {"VOLUME"}
                               /\ Tail(e.queues[a]) \in Seq(Own[a])
  <2> TAKE a \in QueueHeads(e)
  <2>1. a \in Addr /\ e.queues[a] \in Seq(Own[a]) /\ e.queues[a] # <<>>
    BY <1>6, <1>7 DEF Addr0
  <2>2. Own[a] = PPBOwn /\ "VOLUME" \notin Own[a]
    BY <2>1, OwnCommands
  <2> QED BY <2>1, <2>2, HeadTailProperties
<1>9. t \in Emits(WithoutHeads(e), V) /\ t.states = e.states
  BY <1>4, <1>5, <1>6, OthersEmit DEF EngineState
<1> HIDE DEF t
<1>10. \A a \in DOMAIN f : Free(t, a) /\ f[a] \in Own[a] \ {"VOLUME"}
  BY <1>6, <1>8, <1>9 DEF Free
<1> HIDE DEF f
<1>11. eng' \in Emits(WithoutHeads(e), V)
  BY <1>1, <1>6, <1>9, <1>10, StartAllCalm
<1>12. eng'.queues = WithoutHeads(e)
  BY <1>11 DEF Emits
<1>13. eng'.queues[Zero] = e.queues[Zero]
  BY <1>2, <1>6, <1>12 DEF WithoutHeads
<1>14. Queued(eng')
  <2>1. \A a \in Addr0 : eng'.queues[a] = IF a \in QueueHeads(e) THEN Tail(e.queues[a])
                                          ELSE e.queues[a]
    BY <1>12 DEF WithoutHeads
  <2> QED BY <1>7, <1>8, <2>1 DEF Queued
<1>15. Moved(V)
  BY <1>4, <1>13 DEF Moved
<1> QED BY <1>11, <1>12, <1>14, <1>15


(* A call of executeCommand: c is queued, or it is run.                     *)
Called(a, c, V) ==
  \/ eng'.queues[Zero] = eng.queues[Zero] /\ V = {} /\ (a # Zero \/ c # "VOLUME")
  \/ a = Zero /\ eng'.queues[Zero] = Append(eng.queues[Zero], c) /\ V = {}
  \/ a = Zero /\ eng'.queues[Zero] = eng.queues[Zero] /\ \E ok \in BOOLEAN : Sends(V, c, ok)

LEMMA ExecuteCommandEmits ==
  ASSUME AtRest, NEW a \in Addr0, NEW c \in Own[a], NEW sentOk \in BOOLEAN,
         ExecuteCommand(a, c, sentOk)
  PROVE  \E V : eng' \in Emits(eng'.queues, V) /\ Queued(eng') /\ Called(a, c, V)
<1> DEFINE q  == eng.queues
           qu == [q EXCEPT ![a] = Append(@, c)]
<1>1. /\ Slot.queues = q /\ Slot \in Emits(q, {}) /\ Zero \in Addr0 /\ c \in Commands
      /\ q \in [Addr0 -> Seq(Commands)] /\ \A x \in Addr0 : q[x] \in Seq(Own[x])
  BY SlotEmits, SlotFields, OwnCommands DEF AtRest, Queued, EngineState
<1>2. CASE Gated(Slot, a) \/ ~Free(Slot, a)
  <2>1. eng' = [Slot EXCEPT !.queues = qu]
    <3>1. Slot \in EngineState
      BY <1>1 DEF Emits
    <3> QED BY <1>1, <1>2, <3>1 DEF ExecuteCommand, Enqueue, EngineState
  <2>2. qu \in [Addr0 -> Seq(Commands)]
    BY <1>1
  <2>3. \A x \in Addr0 : qu[x] = IF x = a THEN Append(q[x], c) ELSE q[x]
    BY <1>1
  <2> HIDE DEF qu
  <2>4. eng' \in Emits(qu, {})
    BY <1>1, <2>1, <2>2, OthersEmit
  <2>5. eng'.queues = qu
    BY <2>4 DEF Emits
  <2>6. Queued(eng')
    <3>1. Append(q[a], c) \in Seq(Own[a])
      BY <1>1, AppendProperties
    <3> QED BY <1>1, <2>3, <2>5, <3>1 DEF Queued
  <2>7. Called(a, c, {})
    BY <1>1, <2>3, <2>5 DEF Called
  <2> QED BY <2>4, <2>5, <2>6, <2>7
<1>3. CASE ~Gated(Slot, a) /\ Free(Slot, a)
  <2>1. PICK V : Sends(V, c, sentOk) /\ ExecuteImmediately(Slot, a, c, sentOk) \in Emits(q, V)
    BY <1>1, <1>3, ExecuteEmits
  <2>2. eng' \in Emits(q, V)
    BY <1>3, <2>1 DEF ExecuteCommand
  <2>3. eng'.queues = q
    BY <2>2 DEF Emits
  <2>4. a # Zero => c # "VOLUME"
    BY OwnCommands DEF Addr0
  <2>5. Called(a, c, V)
    BY <2>1, <2>3, <2>4 DEF Called, Sends
  <2> QED BY <1>1, <2>2, <2>3, <2>5 DEF Queued
<1> QED BY <1>2, <1>3

LEMMA ClearCommandQueueEmits ==
  ASSUME AtRest, NEW a \in Addr0, ClearCommandQueue(a)
  PROVE  /\ eng' \in Emits(eng'.queues, {}) /\ Queued(eng')
         /\ eng'.queues[Zero] = IF a = Zero THEN <<>> ELSE eng.queues[Zero]
<1> DEFINE q  == eng.queues
           qu == [q EXCEPT ![a] = <<>>]
<1>1. /\ Slot.queues = q /\ Slot \in Emits(q, {}) /\ Zero \in Addr0
      /\ q \in [Addr0 -> Seq(Commands)] /\ \A x \in Addr0 : q[x] \in Seq(Own[x])
  BY SlotEmits, SlotFields, OwnCommands DEF AtRest, Queued, EngineState
<1>2. eng' = [Slot EXCEPT !.queues = qu]
  <2>1. Slot \in EngineState
    BY <1>1 DEF Emits
  <2> QED BY <1>1, <2>1 DEF ClearCommandQueue, EngineState
<1>3. /\ qu \in [Addr0 -> Seq(Commands)]
      /\ \A x \in Addr0 : qu[x] = IF x = a THEN <<>> ELSE q[x]
  BY <1>1
<1> HIDE DEF qu
<1>4. eng' \in Emits(qu, {})
  BY <1>1, <1>2, <1>3, OthersEmit
<1>5. eng'.queues = qu
  BY <1>4 DEF Emits
<1>6. \A x \in Addr0 : <<>> \in Seq(Own[x])
  BY EmptySeq
<1> QED BY <1>1, <1>3, <1>4, <1>5, <1>6 DEF Queued

LEMMA ExecuteGroupCommandEmits ==
  ASSUME AtRest, NEW c \in GroupStages, NEW mask \in SUBSET Addr, mask # {},
         ExecuteGroupCommand(c, mask)
  PROVE  eng' \in Emits(eng.queues, {}) /\ eng'.queues = eng.queues
<1> DEFINE g == [id |-> eng.nextGroup, cmd |-> c, mask |-> mask]
<1>1. c \in Commands /\ c \in PPBOwn
  BY OwnCommands
<1>2. /\ eng' \in EngineState /\ eng'.done = {} /\ eng'.queues = eng.queues
      /\ \/ /\ eng'.groups = eng.groups /\ eng'.pending = Append(eng.pending, g)
            /\ eng'.cur = eng.cur
         \/ /\ eng'.groups = eng.groups \cup {NewGroup(eng, g)}
            /\ eng'.pending = eng.pending
            /\ \A a \in Addr0 : eng'.cur[a] = IF a \in mask THEN [op |-> eng.nextOp, cmd |-> c]
                                              ELSE eng.cur[a]
  BY <1>1, ExecuteGroupCommandFields DEF AtRest
<1>3. Healthy(eng')
  BY <1>1, ExecuteGroupCommandHealthy DEF AtRest, Inv
<1>4. UpdatesGroups(eng) /\ \A a \in Addr0 : eng.cur[a].cmd \in InFlightAt(a)
  BY DEF AtRest, Calm
<1>5. NewGroup(eng, g).cmd = c
  BY DEF NewGroup
<1>6. eng.pending \in Seq(PendingGroup) /\ g.cmd = c
  BY SlotFields DEF AtRest, EngineState
<1> HIDE DEF g
<1>7. UpdatesGroups(eng')
  <2>1. \A h \in eng'.groups : h.cmd \in GroupStages
    BY <1>2, <1>4, <1>5 DEF UpdatesGroups
  <2>2. \A i \in 1 .. Len(Append(eng.pending, g)) :
          \/ i \in 1 .. Len(eng.pending) /\ Append(eng.pending, g)[i] = eng.pending[i]
          \/ Append(eng.pending, g)[i] = g
    BY <1>6
  <2>3. \A i \in 1 .. Len(eng'.pending) : eng'.pending[i].cmd \in GroupStages
    BY <1>2, <1>4, <1>6, <2>2 DEF UpdatesGroups
  <2> QED BY <2>1, <2>3 DEF UpdatesGroups
<1>8. \A a \in Addr0 : eng'.cur[a].cmd \in InFlightAt(a)
  <2>1. ASSUME NEW a \in Addr0, a \in mask PROVE c \in InFlightAt(a)
    BY <1>1, <2>1, OwnCommands DEF InFlightAt
  <2>2. \A a \in Addr0 : eng'.cur[a] = eng.cur[a] \/ (a \in mask /\ eng'.cur[a].cmd = c)
    BY <1>2
  <2> QED BY <1>4, <2>1, <2>2
<1>9. Volumes(eng') = {}
  BY <1>2 DEF Volumes
<1> QED BY <1>2, <1>3, <1>7, <1>8, <1>9 DEF Emits, Calm


-----------------------------------------------------------------------------
(* Where an element of a sequence is *)

Holds(s, v) == \E i \in 1 .. Len(s) : s[i] = v
Once(s, v)  == \A i, j \in 1 .. Len(s) : s[i] = v /\ s[j] = v => i = j
Before(s, v, w) ==
  \A i \in 1 .. Len(s) : s[i] = v => \E j \in 1 .. Len(s) : i < j /\ s[j] = w

LEMMA TailHolds ==
  ASSUME NEW T, NEW s \in Seq(T), s # <<>>, NEW v, NEW w
  PROVE  /\ Holds(Tail(s), v) => Holds(s, v)
         /\ Head(s) = v => Holds(s, v)
         /\ Head(s) # v /\ Holds(s, v) => Holds(Tail(s), v)
         /\ Once(s, v) => Once(Tail(s), v)
         /\ Once(s, v) /\ Head(s) = v => ~Holds(Tail(s), v)
         /\ Before(s, v, w) => Before(Tail(s), v, w)
         /\ Before(s, v, w) /\ Head(s) = v => Holds(Tail(s), w)
<1> DEFINE t == Tail(s)
<1>1. /\ Len(s) \in Nat \ {0} /\ Len(t) = Len(s) - 1 /\ Head(s) = s[1]
      /\ \A i \in 1 .. Len(t) : t[i] = s[i + 1]
  BY HeadTailProperties, EmptySeq
<1> HIDE DEF t
<1>2. \A i \in 1 .. Len(t) : i + 1 \in 1 .. Len(s) /\ i + 1 # 1
  BY <1>1
<1>3. \A i \in 1 .. Len(s) : i # 1 => i - 1 \in 1 .. Len(t) /\ t[i - 1] = s[i]
  BY <1>1
<1>4. 1 \in 1 .. Len(s)
  BY <1>1
<1>5. Holds(t, v) => Holds(s, v)
  BY <1>1, <1>2 DEF Holds
<1>6. Head(s) = v => Holds(s, v)
  BY <1>1, <1>4 DEF Holds
<1>7. Head(s) # v /\ Holds(s, v) => Holds(t, v)
  BY <1>1, <1>3 DEF Holds
<1>8. Once(s, v) => Once(t, v)
  BY <1>1, <1>2 DEF Once
<1>9. Once(s, v) /\ Head(s) = v => ~Holds(t, v)
  BY <1>1, <1>2, <1>4 DEF Once, Holds
<1>10. ASSUME Before(s, v, w) PROVE Before(t, v, w)
  <2> SUFFICES ASSUME NEW i \in 1 .. Len(t), t[i] = v
               PROVE  \E j \in 1 .. Len(t) : i < j /\ t[j] = w
    BY DEF Before
  <2>1. PICK j \in 1 .. Len(s) : i + 1 < j /\ s[j] = w
    BY <1>1, <1>2, <1>10 DEF Before
  <2>2. j - 1 \in 1 .. Len(t) /\ t[j - 1] = w /\ i < j - 1
    BY <1>3, <2>1
  <2> QED BY <2>2
<1>11. Before(s, v, w) /\ Head(s) = v => Holds(t, w)
  BY <1>1, <1>3, <1>4 DEF Before, Holds
<1> QED BY <1>5, <1>6, <1>7, <1>8, <1>9, <1>10, <1>11 DEF t

LEMMA ConcatHolds ==
  ASSUME NEW T, NEW s \in Seq(T), NEW t \in Seq(T), NEW v, NEW w
  PROVE  /\ Holds(s \o t, v) <=> Holds(s, v) \/ Holds(t, v)
         /\ Once(s, v) /\ ~Holds(t, v) => Once(s \o t, v)
         /\ ~Holds(s, v) /\ Once(t, v) => Once(s \o t, v)
         /\ Before(s, v, w) /\ ~Holds(t, v) => Before(s \o t, v, w)
         /\ Holds(t, w) /\ ~Holds(t, v) => Before(s \o t, v, w)
<1> DEFINE c == s \o t
           m == Len(s)
           n == Len(t)
<1>1. /\ m \in Nat /\ n \in Nat /\ Len(c) = m + n
      /\ \A i \in 1 .. m + n : c[i] = IF i <= m THEN s[i] ELSE t[i - m]
  BY ConcatProperties, LenProperties
<1> HIDE DEF c, m, n
<1>2. \A i \in 1 .. m : i \in 1 .. Len(c) /\ c[i] = s[i]
  BY <1>1
<1>3. \A i \in 1 .. n : m + i \in 1 .. Len(c) /\ c[m + i] = t[i] /\ m < m + i
  BY <1>1
<1>4. \A i \in 1 .. Len(c) : \/ i \in 1 .. m /\ c[i] = s[i]
                             \/ i > m /\ i - m \in 1 .. n /\ c[i] = t[i - m]
  BY <1>1
<1>5. Holds(c, v) <=> Holds(s, v) \/ Holds(t, v)
  <2>1. Holds(c, v) => Holds(s, v) \/ Holds(t, v)
    BY <1>4 DEF Holds, m, n
  <2>2. Holds(s, v) => Holds(c, v)
    BY <1>2 DEF Holds, m
  <2>3. Holds(t, v) => Holds(c, v)
    BY <1>3 DEF Holds, n
  <2> QED BY <2>1, <2>2, <2>3
<1>6. Once(s, v) /\ ~Holds(t, v) => Once(c, v)
  BY <1>4 DEF Once, Holds, m, n
<1>7. ASSUME ~Holds(s, v), Once(t, v) PROVE Once(c, v)
  <2> SUFFICES ASSUME NEW i \in 1 .. Len(c), NEW j \in 1 .. Len(c), c[i] = v, c[j] = v
               PROVE  i = j
    BY DEF Once
  <2>1. i - m \in 1 .. n /\ t[i - m] = v /\ j - m \in 1 .. n /\ t[j - m] = v
    BY <1>4, <1>7 DEF Holds, m
  <2>2. i - m = j - m
    BY <1>7, <2>1 DEF Once, n
  <2> QED BY <1>1, <2>2
<1>8. Before(s, v, w) /\ ~Holds(t, v) => Before(c, v, w)
  BY <1>2, <1>4 DEF Before, Holds, m, n
<1>9. ASSUME Holds(t, w), ~Holds(t, v) PROVE Before(c, v, w)
  <2> SUFFICES ASSUME NEW i \in 1 .. Len(c), c[i] = v
               PROVE  \E j \in 1 .. Len(c) : i < j /\ c[j] = w
    BY DEF Before
  <2>1. i \in 1 .. m
    BY <1>4, <1>9 DEF Holds, n
  <2>2. PICK k \in 1 .. n : t[k] = w
    BY <1>9 DEF Holds, n
  <2>3. m + k \in 1 .. Len(c) /\ c[m + k] = w /\ i < m + k
    BY <1>1, <1>3, <2>1, <2>2
  <2> QED BY <2>3
<1> QED BY <1>5, <1>6, <1>7, <1>8, <1>9 DEF c

LEMMA OneElement ==
  ASSUME NEW x, NEW v
  PROVE  /\ Holds(<<x>>, v) <=> x = v
         /\ Once(<<x>>, v)
         /\ ~Holds(<<>>, v) /\ Once(<<>>, v)
BY DEF Holds, Once

LEMMA AppendHolds ==
  ASSUME NEW T, NEW s \in Seq(T), NEW x \in T, NEW v
  PROVE  /\ Holds(Append(s, x), v) <=> Holds(s, v) \/ x = v
         /\ Once(s, v) /\ x # v => Once(Append(s, x), v)
         /\ ~Holds(s, v) => Once(Append(s, x), v)
<1>1. Append(s, x) = s \o <<x>> /\ <<x>> \in Seq(T)
  OBVIOUS
<1> DEFINE one == <<x>>
<1>2. (Holds(one, v) <=> x = v) /\ Once(one, v)
  BY OneElement
<1> HIDE DEF one
<1>3. /\ Holds(s \o one, v) <=> Holds(s, v) \/ Holds(one, v)
      /\ Once(s, v) /\ ~Holds(one, v) => Once(s \o one, v)
      /\ ~Holds(s, v) /\ Once(one, v) => Once(s \o one, v)
  <2>1. one \in Seq(T)
    BY <1>1 DEF one
  <2> QED BY <2>1, ConcatHolds
<1>4. Append(s, x) = s \o one
  BY <1>1 DEF one
<1> QED BY <1>2, <1>3, <1>4

(* The sequence of a finite set is one of its elements, each once. *)
LEMMA SequenceOfSet ==
  ASSUME NEW S, IsFiniteSet(S)
  PROVE  /\ SetToSeq(S) \in Seq(S)
         /\ Len(SetToSeq(S)) = Cardinality(S) /\ Cardinality(S) \in Nat
         /\ \A i, j \in 1 .. Len(SetToSeq(S)) : SetToSeq(S)[i] = SetToSeq(S)[j] => i = j
         /\ \A x \in S : Holds(SetToSeq(S), x)
<1> DEFINE n == Cardinality(S)
<1>1. n \in Nat /\ ExistsBijection(1 .. n, S)
  BY FS_CardinalityType
<1>2. \E f \in [1 .. n -> S] : IsInjective(f)
  BY <1>1 DEF ExistsBijection, Bijection, Injection
<1>3. SetToSeq(S) \in [1 .. n -> S] /\ IsInjective(SetToSeq(S))
  BY <1>2 DEF SetToSeq
<1> HIDE DEF n
<1>4. SetToSeq(S) \in Seq(S) /\ Len(SetToSeq(S)) = n
  BY <1>1, <1>3
<1>5. DOMAIN SetToSeq(S) = 1 .. n
  BY <1>3
<1>6. \A i, j \in 1 .. n : SetToSeq(S)[i] = SetToSeq(S)[j] => i = j
  BY <1>3, <1>5 DEF IsInjective
<1>7. ASSUME NEW x \in S PROVE Holds(SetToSeq(S), x)
  <2>1. IsFiniteSet(1 .. n) /\ Cardinality(1 .. n) = n
    BY <1>1, FS_Interval
  <2>2. SetToSeq(S) \in Injection(1 .. n, S)
    BY <1>3, <1>6 DEF Injection, IsInjective
  <2>3. SetToSeq(S) \in Surjection(1 .. n, S)
    BY <2>1, <2>2, FS_Injection DEF n
  <2>4. \E i \in 1 .. n : SetToSeq(S)[i] = x
    BY <2>3 DEF Surjection
  <2> QED BY <1>4, <2>4 DEF Holds
<1> QED BY <1>1, <1>4, <1>6, <1>7 DEF n


-----------------------------------------------------------------------------
(* The way of the one VOLUME through the calls and the queue *)

OwnCalls ==
  {c \in Call : /\ c.call = "exec" => c.cmd \in Own[c.addr]
                /\ c.call = "clear" => c.cmd = None}
VolumeCall == Exec(Zero, "VOLUME")
Underway   == Holds(toEngine, VolumeCall) \/ Holds(eng.queues[Zero], "VOLUME")

(* One is under way, and behind one that an abort has left there is a clear. *)
Route ==
  /\ toEngine \in Seq(OwnCalls)
  /\ Once(toEngine, VolumeCall) /\ Once(eng.queues[Zero], "VOLUME")
  /\ ~(Holds(toEngine, VolumeCall) /\ Holds(eng.queues[Zero], "VOLUME"))
  /\ upd.stage = "off" => /\ Before(toEngine, VolumeCall, Clear(Zero))
                          /\ Holds(eng.queues[Zero], "VOLUME") => Holds(toEngine, Clear(Zero))

(* What a slot does to it: nothing emerges, or it is sent and gone. *)
Flow(V) ==
  \/ V = {} /\ (Underway' => Underway)
  \/ Underway /\ ~Underway' /\ \E ok \in BOOLEAN : Sends(V, "VOLUME", ok)

LEMMA OwnCallKinds ==
  ASSUME NEW c \in OwnCalls
  PROVE  /\ c.addr \in Addr0
         /\ c.call = "exec" => c.cmd \in Own[c.addr] /\ c = Exec(c.addr, c.cmd)
         /\ c.call # "exec" => c = Clear(c.addr)
         /\ c.cmd = "VOLUME" <=> c = VolumeCall
         /\ c # Clear(Zero) => c.call = "exec" \/ c.addr # Zero
<1>1. c \in Call
  BY DEF OwnCalls
<1>2. /\ c = [call |-> c.call, addr |-> c.addr, cmd |-> c.cmd]
      /\ c.call \in {"exec", "clear"} /\ c.addr \in Addr0
  BY <1>1 DEF Call
<1>3. c.call = "exec" => c.cmd \in Own[c.addr] /\ c = Exec(c.addr, c.cmd)
  BY <1>2 DEF OwnCalls, Exec
<1>4. c.call # "exec" => c.cmd = None /\ c = Clear(c.addr)
  BY <1>2 DEF OwnCalls, Clear
<1>5. VolumeCall.cmd = "VOLUME" /\ VolumeCall.addr = Zero
  BY DEF VolumeCall, Exec
<1>6. c.cmd = "VOLUME" => c = VolumeCall
  <2> SUFFICES ASSUME c.cmd = "VOLUME" PROVE c = VolumeCall
    OBVIOUS
  <2>1. c.call = "exec"
    BY <1>4, OwnCommands
  <2>2. c.addr = Zero
    BY <1>2, <1>3, <2>1, OwnCommands DEF Addr0
  <2> QED BY <1>3, <2>1, <2>2 DEF VolumeCall
<1> QED BY <1>2, <1>3, <1>4, <1>5, <1>6

(* The slots that serve a queue. *)
LEMMA MovedFlows ==
  ASSUME AtRest, Route, NEW V, Moved(V), toEngine' = toEngine, upd' = upd
  PROVE  Flow(V) /\ Route'
<1> DEFINE q == eng.queues[Zero]
           p == eng'.queues[Zero]
<1>1. q \in Seq(Own[Zero])
  BY OwnCommands DEF AtRest, Queued
<1>2. CASE p = q /\ V = {}
  BY <1>2 DEF Flow, Route, Underway
<1>3. CASE /\ q # <<>> /\ p = Tail(q)
           /\ \E ok \in BOOLEAN : Sends(V, Head(q), ok)
  <2>1. /\ Holds(p, "VOLUME") => Holds(q, "VOLUME")
        /\ Head(q) = "VOLUME" => Holds(q, "VOLUME") /\ ~Holds(p, "VOLUME")
        /\ Once(p, "VOLUME")
    <3>1. Once(q, "VOLUME")
      BY DEF Route
    <3> HIDE DEF q
    <3>2. /\ Holds(Tail(q), "VOLUME") => Holds(q, "VOLUME")
          /\ Head(q) = "VOLUME" => Holds(q, "VOLUME")
          /\ Once(q, "VOLUME") => Once(Tail(q), "VOLUME")
          /\ Once(q, "VOLUME") /\ Head(q) = "VOLUME" => ~Holds(Tail(q), "VOLUME")
      BY <1>1, <1>3, TailHolds
    <3> QED BY <1>3, <3>1, <3>2
  <2> HIDE DEF p, q
  <2>2. Route'
    BY <2>1 DEF Route, p, q
  <2>3. CASE Head(q) = "VOLUME"
    <3>1. Underway /\ ~Underway'
      BY <2>1, <2>3 DEF Route, Underway, p, q
    <3> QED BY <1>3, <2>2, <2>3, <3>1 DEF Flow
  <2>4. CASE Head(q) # "VOLUME"
    <3>1. V = {}
      BY <1>3, <2>4 DEF Sends
    <3>2. Underway' => Underway
      BY <2>1 DEF Underway, p, q
    <3> QED BY <2>2, <3>1, <3>2 DEF Flow
  <2> QED BY <2>3, <2>4
<1> QED BY <1>2, <1>3 DEF Moved

(* The slot of a call of executeCommand. *)
LEMMA CalledFlows ==
  ASSUME AtRest, Route, toEngine # <<>>, toEngine' = Tail(toEngine), upd' = upd,
         Head(toEngine).call = "exec",
         NEW V, Called(Head(toEngine).addr, Head(toEngine).cmd, V)
  PROVE  Flow(V) /\ Route'
<1> DEFINE q == eng.queues[Zero]
           p == eng'.queues[Zero]
           c == Head(toEngine)
           s == toEngine
           t == Tail(toEngine)
<1>1. q \in Seq(Own[Zero])
  BY OwnCommands DEF AtRest, Queued
<1>2. c \in OwnCalls /\ t \in Seq(OwnCalls) /\ s \in Seq(OwnCalls)
  BY HeadTailProperties DEF Route
<1>3. /\ Holds(t, VolumeCall) => Holds(s, VolumeCall)
      /\ c = VolumeCall => Holds(s, VolumeCall) /\ ~Holds(t, VolumeCall)
      /\ Once(t, VolumeCall)
      /\ Before(s, VolumeCall, Clear(Zero)) => Before(t, VolumeCall, Clear(Zero))
      /\ Before(s, VolumeCall, Clear(Zero)) /\ c = VolumeCall => Holds(t, Clear(Zero))
  BY <1>2, TailHolds DEF Route
<1>4. Holds(s, Clear(Zero)) => Holds(t, Clear(Zero))
  <2>1. c # Clear(Zero)
    BY DEF Clear
  <2> QED BY <1>2, <2>1, TailHolds
<1>5. /\ c.cmd \in Own[c.addr] /\ c.addr \in Addr0
      /\ c.cmd = "VOLUME" <=> c = VolumeCall
  BY <1>2, OwnCallKinds
<1>6. c.addr # Zero => c.cmd # "VOLUME"
  BY <1>5, OwnCommands DEF Addr0
<1>7. CASE p = q /\ V = {} /\ c.cmd # "VOLUME"
  <2> HIDE DEF c, s, t, p, q
  <2>1. Route'
    BY <1>2, <1>3, <1>4, <1>7 DEF Route, s, t, p, q
  <2>2. Underway' => Underway
    BY <1>3, <1>7 DEF Underway, s, t, p, q
  <2> QED BY <1>7, <2>1, <2>2 DEF Flow
<1>8. CASE c.addr = Zero /\ p = Append(q, c.cmd) /\ V = {}
  <2>1. /\ Holds(p, "VOLUME") <=> Holds(q, "VOLUME") \/ c.cmd = "VOLUME"
        /\ Once(q, "VOLUME") /\ c.cmd # "VOLUME" => Once(p, "VOLUME")
        /\ ~Holds(q, "VOLUME") => Once(p, "VOLUME")
    BY <1>1, <1>5, <1>8, AppendHolds
  <2> HIDE DEF c, s, t, p, q
  <2>2. Once(p, "VOLUME")
    BY <1>3, <1>5, <2>1 DEF Route, s, q
  <2>3. ~(Holds(t, VolumeCall) /\ Holds(p, "VOLUME"))
    BY <1>3, <1>5, <2>1 DEF Route, s, q
  <2>4. upd.stage = "off" => /\ Before(t, VolumeCall, Clear(Zero))
                             /\ Holds(p, "VOLUME") => Holds(t, Clear(Zero))
    BY <1>3, <1>4, <1>5, <2>1 DEF Route, s, q
  <2>5. Route'
    BY <1>2, <1>3, <2>2, <2>3, <2>4 DEF Route, t, p
  <2>6. Underway' => Underway
    BY <1>3, <1>5, <2>1 DEF Underway, s, t, p, q
  <2> QED BY <1>8, <2>5, <2>6 DEF Flow
<1>9. CASE p = q /\ \E ok \in BOOLEAN : Sends(V, c.cmd, ok)
  <2> HIDE DEF c, s, t, p, q
  <2>1. CASE c.cmd = "VOLUME"
    <3>1. Holds(s, VolumeCall) /\ ~Holds(t, VolumeCall) /\ ~Holds(q, "VOLUME")
      BY <1>3, <1>5, <2>1 DEF Route, s, q
    <3>2. Route'
      BY <1>2, <1>3, <1>9, <3>1 DEF Route, s, t, p, q
    <3>3. Underway /\ ~Underway'
      BY <1>9, <3>1 DEF Underway, s, t, p, q
    <3> QED BY <1>9, <2>1, <3>2, <3>3 DEF Flow
  <2>2. CASE c.cmd # "VOLUME"
    <3>1. V = {}
      BY <1>9, <2>2 DEF Sends
    <3> QED BY <1>7, <1>9, <2>2, <3>1
  <2> QED BY <2>1, <2>2
<1> QED BY <1>6, <1>7, <1>8, <1>9 DEF Called

(* The slot of a call of clearCommandQueue. *)
LEMMA ClearedFlows ==
  ASSUME AtRest, Route, toEngine # <<>>, toEngine' = Tail(toEngine), upd' = upd,
         Head(toEngine) = Clear(Head(toEngine).addr),
         eng'.queues[Zero] = IF Head(toEngine).addr = Zero THEN <<>> ELSE eng.queues[Zero]
  PROVE  Flow({}) /\ Route'
<1> DEFINE q == eng.queues[Zero]
           p == eng'.queues[Zero]
           c == Head(toEngine)
           s == toEngine
           t == Tail(toEngine)
<1>1. c \in OwnCalls /\ t \in Seq(OwnCalls) /\ s \in Seq(OwnCalls)
  BY HeadTailProperties DEF Route
<1>2. /\ Holds(t, VolumeCall) => Holds(s, VolumeCall)
      /\ Once(t, VolumeCall)
      /\ Before(s, VolumeCall, Clear(Zero)) => Before(t, VolumeCall, Clear(Zero))
  BY <1>1, TailHolds DEF Route
<1>3. c.addr # Zero => (Holds(s, Clear(Zero)) => Holds(t, Clear(Zero)))
  <2>1. c.addr # Zero => c # Clear(Zero)
    BY DEF Clear
  <2> QED BY <1>1, <2>1, TailHolds
<1>4. p = q \/ p = <<>>
  OBVIOUS
<1>5. /\ Holds(p, "VOLUME") => p = q /\ Holds(q, "VOLUME") /\ c.addr # Zero
      /\ Once(p, "VOLUME")
  BY OneElement DEF Route
<1> HIDE DEF c, s, t, p, q
<1>6. Route'
  BY <1>1, <1>2, <1>3, <1>5 DEF Route, s, t, p, q
<1>7. Underway' => Underway
  BY <1>2, <1>5 DEF Underway, s, t, p, q
<1> QED BY <1>6, <1>7 DEF Flow


LEMMA StaysAtRest ==
  ASSUME NEW V, eng' \in Emits(eng'.queues, V), Queued(eng'),
         calls' \in Nat, disconnects' \in Nat, clears' \in Nat
  PROVE  AtRest'
BY DEF Emits, AtRest, Inv, Queued

(* Every slot of the engine. *)
LEMMA EngineFlows ==
  ASSUME AtRest, Route, upd' = upd, (\E sentOk \in BOOLEAN : Serve(sentOk)) \/ EngineInternal
  PROVE  /\ AtRest' /\ Route'
         /\ \E V : eng' \in Emits(eng'.queues, V) /\ Flow(V)
<1>1. calls \in Nat /\ disconnects \in Nat /\ clears \in Nat
  BY DEF AtRest, Inv
<1>2. ASSUME NEW sentOk \in BOOLEAN, Serve(sentOk)
      PROVE  AtRest' /\ Route' /\ \E V : eng' \in Emits(eng'.queues, V) /\ Flow(V)
  <2> DEFINE c == Head(toEngine)
  <2>1. /\ toEngine # <<>> /\ toEngine' = Tail(toEngine)
        /\ \/ c.call = "exec" /\ ExecuteCommand(c.addr, c.cmd, sentOk)
           \/ c.call = "clear" /\ ClearCommandQueue(c.addr)
    BY <1>2 DEF Serve
  <2>2. c \in OwnCalls
    BY <2>1, HeadTailProperties DEF Route
  <2>3. CASE c.call = "exec" /\ ExecuteCommand(c.addr, c.cmd, sentOk)
    <3>1. c.addr \in Addr0 /\ c.cmd \in Own[c.addr]
      BY <2>2, <2>3, OwnCallKinds
    <3>2. PICK V : eng' \in Emits(eng'.queues, V) /\ Queued(eng') /\ Called(c.addr, c.cmd, V)
      <4> HIDE DEF c
      <4> QED BY <2>3, <3>1, ExecuteCommandEmits
    <3>3. calls' \in Nat /\ disconnects' \in Nat /\ clears' \in Nat
      BY <1>1, <2>3 DEF ExecuteCommand, Submit
    <3>4. Flow(V) /\ Route'
      BY <2>1, <2>3, <3>2, CalledFlows
    <3> QED BY <3>2, <3>3, <3>4, StaysAtRest
  <2>4. CASE c.call = "clear" /\ ClearCommandQueue(c.addr)
    <3>1. c.addr \in Addr0 /\ c = Clear(c.addr)
      BY <2>2, <2>4, OwnCallKinds
    <3>2. /\ eng' \in Emits(eng'.queues, {}) /\ Queued(eng')
          /\ eng'.queues[Zero] = IF c.addr = Zero THEN <<>> ELSE eng.queues[Zero]
      <4> HIDE DEF c
      <4> QED BY <2>4, <3>1, ClearCommandQueueEmits
    <3>3. calls' \in Nat /\ disconnects' \in Nat /\ clears' \in Nat
      BY <1>1, <2>4 DEF ClearCommandQueue
    <3>4. Flow({}) /\ Route'
      BY <2>1, <3>1, <3>2, ClearedFlows
    <3> QED BY <3>2, <3>3, <3>4, StaysAtRest
  <2> QED BY <2>1, <2>3, <2>4
<1>3. ASSUME toEngine' = toEngine, Internal,
             NEW V, eng' \in Emits(eng'.queues, V), Queued(eng'), Moved(V)
      PROVE  AtRest' /\ Route' /\ \E W : eng' \in Emits(eng'.queues, W) /\ Flow(W)
  <2>1. calls' \in Nat /\ disconnects' \in Nat /\ clears' \in Nat
    BY <1>1, <1>3 DEF Internal
  <2>2. Flow(V) /\ Route'
    BY <1>3, MovedFlows
  <2> QED BY <1>3, <2>1, <2>2, StaysAtRest
<1>4. ASSUME eng' \in Emits(eng.queues, {})
      PROVE  eng' \in Emits(eng'.queues, {}) /\ Queued(eng') /\ Moved({})
  <2>1. eng'.queues = eng.queues
    BY <1>4 DEF Emits
  <2> QED BY <1>4, <2>1 DEF AtRest, Queued, Moved
<1>5. ASSUME EngineInternal
      PROVE  AtRest' /\ Route' /\ \E V : eng' \in Emits(eng'.queues, V) /\ Flow(V)
  <2>1. toEngine' = toEngine
    BY <1>5 DEF EngineInternal
  <2>2. ASSUME NEW p \in InFlight, NEW stale, OnDatagram(p, stale)
        PROVE  AtRest' /\ Route' /\ \E V : eng' \in Emits(eng'.queues, V) /\ Flow(V)
    BY <1>3, <1>4, <2>1, <2>2, OnDatagramEmits DEF OnDatagram
  <2>3. ASSUME NEW a \in Addr0, OnOperationTimeout(a)
        PROVE  AtRest' /\ Route' /\ \E V : eng' \in Emits(eng'.queues, V) /\ Flow(V)
    BY <1>3, <1>4, <2>1, <2>3, OnOperationTimeoutEmits DEF OnOperationTimeout
  <2>4. ASSUME NEW sentOk \in BOOLEAN, ProcessCommandQueue(sentOk)
        PROVE  AtRest' /\ Route' /\ \E V : eng' \in Emits(eng'.queues, V) /\ Flow(V)
    BY <1>3, <2>1, <2>4, ProcessCommandQueueEmits DEF ProcessCommandQueue
  <2>5. ASSUME NEW a \in Addr0, NEW sentOk \in BOOLEAN, ProcessNextCommandForAddress(a, sentOk)
        PROVE  AtRest' /\ Route' /\ \E V : eng' \in Emits(eng'.queues, V) /\ Flow(V)
    BY <1>3, <2>1, <2>5, ProcessNextEmits DEF ProcessNextCommandForAddress
  <2> QED BY <1>5, <2>2, <2>3, <2>4, <2>5 DEF EngineInternal
<1> QED BY <1>2, <1>5


-----------------------------------------------------------------------------
(* What a slot tells the controller, and what it does to the histories *)

(* UPDATE and CLEAN, as far as no user sends them to a PPB.                 *)
Private == {"UPDATE", "CLEAN"} \ AddrCmds

LEMMA SignalsEffect ==
  ASSUME upd \in Update, toController \in Seq(Event), eng' \in EngineState,
         NEW mask \in Addr0 \cup {Other, None}, Signals(mask)
  PROVE  \E x \in Seq(Event) :
           /\ toController' = toController \o x
           /\ \A i \in 1 .. Len(x) : /\ upd.conn # 0 /\ x[i].wait = upd.conn
                                     /\ x[i].stage = upd.stage /\ x[i].ok \in Heard(eng')
           /\ \A i, j \in 1 .. Len(x) : x[i].ok = x[j].ok => i = j
           /\ \A ok \in Heard(eng') : upd.conn # 0 => \E i \in 1 .. Len(x) : x[i].ok = ok
<1> DEFINE event(ok) == [wait |-> upd.conn, stage |-> upd.stage, ok |-> ok, mask |-> mask]
           S == {event(ok) : ok \in Heard(eng')}
           x == SetToSeq(S)
<1>1. CASE upd.conn = 0
  <2>1. toController' = toController \o <<>> /\ <<>> \in Seq(Event)
    BY <1>1, ConcatEmptySeq, EmptySeq DEF Signals
  <2>2. 1 .. Len(<<>>) = {}
    OBVIOUS
  <2> QED BY <1>1, <2>1, <2>2
<1>2. CASE upd.conn # 0
  <2>1. Heard(eng') \subseteq BOOLEAN
    <3>1. \A r \in eng'.done : r.ok \in BOOLEAN
      BY DEF EngineState, Completion
    <3>2. \A r \in eng'.reports : r.ok \in BOOLEAN
      BY DEF EngineState, Report
    <3> QED BY <3>1, <3>2 DEF Heard
  <2>2. upd.conn \in Nat /\ upd.stage \in Stages
    BY DEF Update
  <2>3. \A ok \in BOOLEAN : event(ok) \in Event
    BY <2>2 DEF Event
  <2>4. IsFiniteSet(S)
    <3>1. IsFiniteSet({event(TRUE)} \cup {event(FALSE)})
      BY FS_Singleton, FS_Union
    <3>2. S \in SUBSET ({event(TRUE)} \cup {event(FALSE)})
      BY <2>1
    <3> HIDE DEF S
    <3> QED BY <3>1, <3>2, FS_Subset
  <2>5. \A ev \in S : /\ ev \in Event /\ ev.wait = upd.conn /\ ev.stage = upd.stage
                      /\ ev.ok \in Heard(eng') /\ ev = event(ev.ok)
    BY <2>1, <2>3
  <2>6. toController' = toController \o x
    BY <1>2 DEF Signals
  <2>7. \A ok \in Heard(eng') : event(ok) \in S /\ event(ok).ok = ok
    OBVIOUS
  <2> HIDE DEF S
  <2>8. /\ x \in Seq(S) /\ \A i, j \in 1 .. Len(x) : x[i] = x[j] => i = j
        /\ \A ev \in S : Holds(x, ev)
    BY <2>4, SequenceOfSet
  <2> HIDE DEF x
  <2>9. \A i \in 1 .. Len(x) : x[i] \in S
    BY <2>8, ElementOfSeq
  <2>10. S \subseteq Event
    BY <2>5
  <2>11. x \in Seq(Event)
    BY <2>8, <2>10, SeqMonotonic
  <2>12. \A i, j \in 1 .. Len(x) : x[i].ok = x[j].ok => i = j
    BY <2>5, <2>8, <2>9
  <2>13. ASSUME NEW ok \in Heard(eng') PROVE \E i \in 1 .. Len(x) : x[i].ok = ok
    <3>1. PICK ev \in S : ev.ok = ok
      BY <2>7
    <3> QED BY <2>8, <3>1 DEF Holds
  <2> QED BY <1>2, <2>5, <2>6, <2>9, <2>11, <2>12, <2>13
<1> QED BY <1>1, <1>2

LEMMA StreamsEffect ==
  ASSUME NEW V, eng' \in Emits(eng'.queues, V), Streams
  PROVE  /\ V = {} => data' = data /\ wire' = wire
         /\ \A ok \in BOOLEAN :
              Sends(V, "VOLUME", ok) => /\ ok => data # 0
                                        /\ data' = 0
                                        /\ wire' = IF ok THEN Append(wire, data) ELSE wire
<1>1. {r \in eng'.done : r.cmd = "VOLUME"} = V
  BY DEF Emits, Volumes
<1>2. V = {} => data' = data /\ wire' = wire
  BY <1>1 DEF Streams
<1>3. ASSUME NEW ok \in BOOLEAN, Sends(V, "VOLUME", ok)
      PROVE  /\ ok => data # 0
             /\ data' = 0
             /\ wire' = IF ok THEN Append(wire, data) ELSE wire
  <2>1. PICK r : V = {r} /\ r.ok = ok
    BY <1>3 DEF Sends
  <2>2. V # {} /\ r \in V /\ \A s \in V : s = r
    BY <2>1
  <2>3. /\ \A s \in V : s.ok => data # 0
        /\ data' = 0
        /\ wire' = IF \E s \in V : s.ok THEN Append(wire, data) ELSE wire
    BY <1>1, <2>2 DEF Streams
  <2> QED BY <2>1, <2>2, <2>3
<1> QED BY <1>2, <1>3

(* The stages whose success the engine's own outcome stands behind. *)
LEMMA ReachesEffect ==
  ASSUME NEW V, eng' \in Emits(eng'.queues, V), Reaches, upd \in Update, reached \subseteq Stages
  PROVE  /\ reached \subseteq reached' /\ reached' \subseteq reached \cup {upd.stage}
         /\ reached' \subseteq Stages
         /\ TRUE \in Heard(eng') /\ upd.stage \in GroupStages \cup Private => upd.stage \in reached'
<1> DEFINE R == {r \in eng'.reports : r.id = upd.group /\ r.ok /\ upd.stage \in GroupStages}
           D == {r \in eng'.done : r.ok /\ r.addr = Zero /\ r.cmd = upd.stage}
<1>1. reached' = reached \cup {upd.stage : r \in R} \cup {r.cmd : r \in D}
  BY DEF Reaches
<1>2. reached \subseteq reached' /\ reached' \subseteq reached \cup {upd.stage}
  BY <1>1
<1>3. upd.stage \in Stages
  BY DEF Update
<1>4. ASSUME TRUE \in Heard(eng'), upd.stage \in GroupStages
      PROVE  upd.stage \in reached'
  <2>1. PICK r \in eng'.reports : r.id = upd.group /\ r.ok = TRUE
    BY <1>4 DEF Heard
  <2>2. r \in R
    BY <1>4, <2>1
  <2> QED BY <1>1, <2>2
<1>5. ASSUME TRUE \in Heard(eng'), upd.stage \in Private, upd.stage \notin GroupStages
      PROVE  upd.stage \in reached'
  <2>1. PICK r \in eng'.done : r.cmd = upd.stage /\ r.ok = TRUE
    BY <1>5 DEF Heard
  <2>2. r.addr \in Addr0 /\ r.cmd \in Own[r.addr] \cup {None}
    BY DEF Emits, EngineState, Completion
  <2>3. r.cmd \in Private /\ r.cmd \notin GroupStages /\ r.cmd # None
    BY <1>5, <2>1 DEF Private, None
  <2>4. r.cmd \notin PPBOwn
    BY <2>3 DEF PPBOwn, Private
  <2>5. r.addr = Zero
    BY <2>2, <2>3, <2>4, OwnCommands DEF Addr0
  <2>6. r \in D
    BY <2>1, <2>5
  <2> QED BY <1>1, <2>1, <2>6
<1> QED BY <1>2, <1>3, <1>4, <1>5

(* A completion of VOLUME is what a wait for VOLUME hears. *)
LEMMA HeardVolume ==
  ASSUME NEW V, eng' \in Emits(eng'.queues, V), upd.stage = "VOLUME", NEW ok \in Heard(eng')
  PROVE  \E r \in V : r.ok = ok
<1>1. "VOLUME" \notin GroupStages
  BY DEF GroupStages
<1>2. PICK r \in eng'.done : r.cmd = "VOLUME" /\ r.ok = ok
  BY <1>1 DEF Heard
<1> QED BY <1>2 DEF Emits, Volumes


-----------------------------------------------------------------------------
(* The inductive invariant *)

(* The wait of the current stage. *)
WaitsOK ==
  /\ upd.stage \in {"off", "parse"} => upd.conn = 0
  /\ upd.stage \in {"IS_YOU", "VOLUME", "UPDATE", "CLEAN"} => upd.conn # 0
  /\ upd.conn # 0 => upd.conn = upd.waits
  /\ upd.stage = "VOLUME" => upd.block # 0
  /\ upd.stage \in GroupStages => upd.target # {}

(* The stages whose signals may still wait for the controller in a stage:   *)
(* a stage ends with a signal of its own wait, so nothing older is left.    *)
SignalsAt(stage) ==
  CASE stage = "PROGRAMM" -> {"VERS", "PROGRAMM"}
    [] stage = "VOLUME"   -> {"PROGRAMM", "VOLUME"}
    [] stage = "UPDATE"   -> {"VOLUME", "UPDATE"}
    [] stage = "CLEAN"    -> {"UPDATE", "CLEAN"}
    [] OTHER              -> Stages \ {"off", "parse"}

EventOK(ev) ==
  /\ 0 < ev.wait /\ ev.wait <= upd.waits
  /\ ev.stage \in SignalsAt(upd.stage)
  /\ ev.wait = upd.conn => ev.stage = upd.stage
  /\ upd.stage \in {"VOLUME", "UPDATE", "CLEAN"} /\ ev.stage = upd.stage => ev.wait = upd.conn
  /\ ev.wait = upd.conn /\ ev.ok /\ ev.stage \in GroupStages \cup Private => ev.stage \in reached
  /\ upd.stage = "VOLUME" /\ ev.stage = "VOLUME" =>
       ~Underway /\ (ev.ok => Len(wire) = upd.block)

EventsOK ==
  /\ \A i \in 1 .. Len(toController) : EventOK(toController[i])
  /\ \A i, j \in 1 .. Len(toController) : i < j => toController[i].wait <= toController[j].wait
  /\ \A i, j \in 1 .. Len(toController) :
       /\ upd.stage = "VOLUME"
       /\ toController[i].stage = "VOLUME" /\ toController[j].stage = "VOLUME"
       => i = j

(* The blocks.  While a VOLUME is under way the static members hold the      *)
(* next block of the image.                                                  *)
StreamOK ==
  /\ Len(wire) <= upd.block
  /\ \A i \in 1 .. Len(wire) : wire[i] = i
  /\ wire # <<>> => GroupStages \subseteq reached
  /\ upd.stage \in {"IS_YOU", "VERS", "PROGRAMM"} => wire = <<>>
  /\ upd.stage \in {"UPDATE", "CLEAN"} => Len(wire) = Blocks + 1
  /\ Underway => /\ upd.stage \in {"off", "VOLUME"} /\ upd.verdict # "success"
                 /\ data = upd.block /\ upd.block = Len(wire) + 1
                 /\ GroupStages \subseteq reached

ReachedOK ==
  /\ upd.stage \in {"PROGRAMM", "VOLUME", "UPDATE", "CLEAN"} => "VERS" \in reached
  /\ upd.stage \in {"VOLUME", "UPDATE", "CLEAN"} => "PROGRAMM" \in reached
  /\ upd.stage = "CLEAN" => Private \cap {"UPDATE"} \subseteq reached
  /\ upd.verdict = "success" => /\ upd.stage = "off" /\ Len(wire) = Blocks + 1
                                /\ GroupStages \cup Private \subseteq reached

UpdateInv ==
  /\ AtRest /\ UpdateTypeOK /\ Route
  /\ WaitsOK /\ EventsOK /\ StreamOK /\ ReachedOK

-----------------------------------------------------------------------------
(* The slots of the engine keep it *)

LEMMA SlotStreams ==
  ASSUME UpdateInv, upd' = upd, NEW V, eng' \in Emits(eng'.queues, V), Flow(V),
         Streams, Reaches
  PROVE  /\ StreamOK' /\ ReachedOK'
         /\ data' \in 0 .. Blocks + 1 /\ wire' \in Seq(1 .. Blocks + 1) /\ reached' \subseteq Stages
         /\ ~Underway => V = {} /\ wire' = wire /\ ~Underway'
         /\ \A ok \in BOOLEAN : Sends(V, "VOLUME", ok) =>
              /\ Underway /\ ~Underway' /\ (ok => Len(wire') = upd.block)
<1>1. /\ upd \in Update /\ data \in 0 .. Blocks + 1 /\ wire \in Seq(1 .. Blocks + 1)
      /\ reached \subseteq Stages /\ Len(wire) \in Nat /\ upd.block \in 0 .. Blocks + 1
      /\ Blocks \in Nat
  BY UpdateAssumption DEF UpdateInv, UpdateTypeOK, Update
<1>2. reached \subseteq reached' /\ reached' \subseteq Stages
  BY <1>1, ReachesEffect
<1>3. CASE V = {} /\ (Underway' => Underway)
  <2>1. data' = data /\ wire' = wire
    BY <1>3, StreamsEffect
  <2>2. StreamOK'
    BY <1>2, <1>3, <2>1 DEF UpdateInv, StreamOK
  <2>3. ReachedOK'
    BY <1>2, <2>1 DEF UpdateInv, ReachedOK
  <2>4. \A ok \in BOOLEAN : ~Sends(V, "VOLUME", ok)
    BY <1>3 DEF Sends
  <2> QED BY <1>1, <1>2, <1>3, <2>1, <2>2, <2>3, <2>4
<1>4. ASSUME Underway, ~Underway', NEW ok \in BOOLEAN, Sends(V, "VOLUME", ok)
      PROVE  /\ StreamOK' /\ ReachedOK'
             /\ data' \in 0 .. Blocks + 1 /\ wire' \in Seq(1 .. Blocks + 1)
             /\ ok => Len(wire') = upd.block
  <2>1. /\ ok => data # 0
        /\ data' = 0
        /\ wire' = IF ok THEN Append(wire, data) ELSE wire
    BY <1>4, StreamsEffect
  <2>2. /\ upd.stage \in {"off", "VOLUME"} /\ upd.verdict # "success"
        /\ data = upd.block /\ upd.block = Len(wire) + 1
        /\ GroupStages \subseteq reached
        /\ \A i \in 1 .. Len(wire) : wire[i] = i
    BY <1>4 DEF UpdateInv, StreamOK
  <2>3. ReachedOK'
    BY <1>2, <2>2 DEF UpdateInv, ReachedOK
  <2>4. CASE ok
    <3>1. data \in 1 .. Blocks + 1 /\ wire' = Append(wire, data)
      BY <1>1, <2>1, <2>4
    <3>2. /\ wire' \in Seq(1 .. Blocks + 1) /\ Len(wire') = Len(wire) + 1
          /\ \A i \in 1 .. Len(wire') : wire'[i] = IF i \in 1 .. Len(wire) THEN wire[i] ELSE data
      BY <1>1, <3>1
    <3>3. \A i \in 1 .. Len(wire') : wire'[i] = i
      <4> SUFFICES ASSUME NEW i \in 1 .. Len(wire') PROVE wire'[i] = i
        OBVIOUS
      <4>1. CASE i \in 1 .. Len(wire)
        BY <2>2, <3>2, <4>1
      <4>2. CASE i \notin 1 .. Len(wire)
        <5>1. i = Len(wire) + 1
          BY <1>1, <3>2, <4>2
        <5>2. wire'[i] = data
          BY <3>2, <4>2
        <5> QED BY <2>2, <5>1, <5>2
      <4> QED BY <4>1, <4>2
    <3>4. StreamOK'
      BY <1>1, <1>2, <1>4, <2>2, <3>2, <3>3 DEF StreamOK
    <3> QED BY <1>1, <2>1, <2>2, <2>3, <3>2, <3>4
  <2>5. CASE ~ok
    <3>1. wire' = wire
      BY <2>1, <2>5
    <3>2. StreamOK'
      BY <1>2, <1>4, <3>1 DEF UpdateInv, StreamOK
    <3> QED BY <1>1, <2>1, <2>3, <2>5, <3>1, <3>2
  <2> QED BY <2>4, <2>5
<1>5. ASSUME NEW ok \in BOOLEAN, NEW no \in BOOLEAN,
             Sends(V, "VOLUME", ok), Sends(V, "VOLUME", no)
      PROVE  ok = no
  BY <1>5 DEF Sends
<1> QED BY <1>2, <1>3, <1>4, <1>5 DEF Flow


LEMMA SlotEvents ==
  ASSUME UpdateInv, upd' = upd, NEW V, eng' \in Emits(eng'.queues, V), Flow(V),
         Streams, Reaches, NEW mask \in Addr0 \cup {Other, None}, Signals(mask)
  PROVE  EventsOK' /\ toController' \in Seq(Event)
<1> DEFINE old == toController
           new == toController'
           m   == Len(old)
<1>1. /\ upd \in Update /\ old \in Seq(Event) /\ reached \subseteq Stages /\ EventsOK
      /\ WaitsOK /\ upd.conn \in Nat /\ upd.waits \in Nat
      /\ \A i \in 1 .. m : old[i] \in Event
  BY ElementOfSeq DEF UpdateInv, UpdateTypeOK, Update
<1>2. eng' \in EngineState
  BY DEF Emits
<1>3. PICK x \in Seq(Event) :
        /\ new = old \o x
        /\ \A i \in 1 .. Len(x) : /\ upd.conn # 0 /\ x[i].wait = upd.conn
                                  /\ x[i].stage = upd.stage /\ x[i].ok \in Heard(eng')
        /\ \A i, j \in 1 .. Len(x) : x[i].ok = x[j].ok => i = j
  BY <1>1, <1>2, SignalsEffect
<1>4. /\ new \in Seq(Event) /\ m \in Nat /\ Len(x) \in Nat /\ Len(new) = m + Len(x)
      /\ \A i \in 1 .. m + Len(x) : new[i] = IF i <= m THEN old[i] ELSE x[i - m]
  BY <1>1, <1>3, ConcatProperties, LenProperties
<1>5. \A i \in 1 .. Len(new) : \/ i \in 1 .. m /\ new[i] = old[i]
                               \/ m < i /\ i - m \in 1 .. Len(x) /\ new[i] = x[i - m]
  BY <1>4
<1> HIDE DEF old, new, m
<1>6. /\ reached \subseteq reached'
      /\ TRUE \in Heard(eng') /\ upd.stage \in GroupStages \cup Private => upd.stage \in reached'
  BY <1>1, ReachesEffect
<1>7. /\ ~Underway => V = {} /\ wire' = wire /\ ~Underway'
      /\ \A ok \in BOOLEAN : Sends(V, "VOLUME", ok) =>
           /\ Underway /\ ~Underway' /\ (ok => Len(wire') = upd.block)
  BY SlotStreams
(* What the handler of a wait for VOLUME hears is the end of the one VOLUME. *)
<1>8. ASSUME upd.stage = "VOLUME", NEW ok \in Heard(eng')
      PROVE  /\ Underway /\ ~Underway' /\ (ok => Len(wire') = upd.block)
             /\ \A no \in Heard(eng') : no = ok
  <2>1. PICK r \in V : r.ok = ok
    BY <1>8, HeardVolume
  <2>2. PICK b \in BOOLEAN : Sends(V, "VOLUME", b)
    BY <2>1 DEF Flow
  <2>3. \A s \in V : s.ok = b
    BY <2>2 DEF Sends
  <2>4. \A no \in Heard(eng') : no = b
    BY <1>8, <2>3, HeardVolume
  <2> QED BY <1>7, <1>8, <2>1, <2>2, <2>3, <2>4
<1>9. upd.conn # 0 => /\ upd.conn = upd.waits /\ upd.stage \in SignalsAt(upd.stage)
                       /\ upd.stage \in Stages
  BY <1>1 DEF WaitsOK, SignalsAt, Update, Stages, GroupStages
<1>10. ASSUME NEW i \in 1 .. Len(new), i \in 1 .. m, new[i] = old[i]
       PROVE  /\ EventOK(toController[i])'
              /\ upd.stage = "VOLUME" /\ new[i].stage = "VOLUME" => ~Underway
  <2>1. EventOK(old[i])
    BY <1>1, <1>10 DEF EventsOK, old, m
  <2>2. upd.stage = "VOLUME" /\ new[i].stage = "VOLUME" => ~Underway
    BY <1>10, <2>1 DEF EventOK
  <2>3. EventOK(toController[i])'
    BY <1>6, <1>7, <1>10, <2>1 DEF EventOK, new
  <2> QED BY <2>2, <2>3
<1>11. ASSUME NEW i \in 1 .. Len(new), m < i, i - m \in 1 .. Len(x), new[i] = x[i - m]
       PROVE  /\ EventOK(toController[i])'
              /\ new[i].wait = upd.conn /\ upd.conn = upd.waits
              /\ upd.stage = "VOLUME" => Underway
  <2> DEFINE ev == new[i]
  <2>1. /\ upd.conn # 0 /\ ev.wait = upd.conn /\ ev.stage = upd.stage /\ ev.ok \in Heard(eng')
    BY <1>3, <1>11
  <2>2. upd.stage = "VOLUME" => Underway /\ ~Underway' /\ (ev.ok => Len(wire') = upd.block)
    BY <1>8, <2>1
  <2>3. ev.ok /\ ev.stage \in GroupStages \cup Private => ev.stage \in reached'
    <3>1. x[i - m] \in Event
      BY <1>11, ElementOfSeq
    <3>2. ev.ok \in BOOLEAN
      BY <1>11, <3>1 DEF Event
    <3> HIDE DEF ev
    <3> QED BY <1>6, <2>1, <3>2
  <2>4. EventOK(toController[i])'
    <3> HIDE DEF ev
    <3>1. /\ 0 < ev.wait /\ ev.wait <= upd.waits /\ ev.stage \in SignalsAt(upd.stage)
      BY <1>1, <1>9, <2>1
    <3>2. ev = toController'[i]
      BY DEF ev, new
    <3> QED BY <2>1, <2>2, <2>3, <3>1, <3>2 DEF EventOK
  <2> QED BY <1>9, <2>1, <2>2, <2>4
<1>12. \A i \in 1 .. Len(new) : EventOK(toController[i])'
  BY <1>5, <1>10, <1>11
<1>13. ASSUME NEW i \in 1 .. Len(new), NEW j \in 1 .. Len(new), i < j
       PROVE  new[i].wait <= new[j].wait
  <2>1. i \in 1 .. m => old[i].wait <= upd.waits /\ old[i].wait \in Nat
    BY <1>1 DEF EventsOK, EventOK, Event, old, m
  <2>2. CASE i \in 1 .. m /\ new[i] = old[i] /\ j \in 1 .. m /\ new[j] = old[j]
    BY <1>1, <1>13, <2>2 DEF EventsOK, old, m
  <2>3. CASE m < j /\ j - m \in 1 .. Len(x) /\ new[j] = x[j - m]
    <3>1. new[j].wait = upd.waits
      BY <1>11, <2>3
    <3>2. CASE i \in 1 .. m /\ new[i] = old[i]
      BY <2>1, <3>1, <3>2
    <3>3. CASE m < i /\ i - m \in 1 .. Len(x) /\ new[i] = x[i - m]
      BY <1>1, <1>11, <3>1, <3>3
    <3> QED BY <1>5, <3>2, <3>3
  <2>4. CASE j \in 1 .. m /\ new[j] = old[j]
    <3>1. i \in 1 .. m /\ new[i] = old[i]
      BY <1>4, <1>5, <1>13, <2>4
    <3> QED BY <2>2, <2>4, <3>1
  <2> QED BY <1>5, <2>3, <2>4
<1>14. ASSUME NEW i \in 1 .. Len(new), NEW j \in 1 .. Len(new), upd.stage = "VOLUME",
              new[i].stage = "VOLUME", new[j].stage = "VOLUME"
       PROVE  i = j
  <2>1. CASE i \in 1 .. m /\ new[i] = old[i] /\ j \in 1 .. m /\ new[j] = old[j]
    BY <1>1, <1>14, <2>1 DEF EventsOK, old, m
  <2>2. CASE /\ m < i /\ i - m \in 1 .. Len(x) /\ new[i] = x[i - m]
             /\ m < j /\ j - m \in 1 .. Len(x) /\ new[j] = x[j - m]
    <3>1. x[i - m].ok \in Heard(eng') /\ x[j - m].ok \in Heard(eng')
      BY <1>3, <2>2
    <3>2. x[i - m].ok = x[j - m].ok
      BY <1>8, <1>14, <3>1
    <3>3. i - m = j - m
      BY <1>3, <2>2, <3>2
    <3> QED BY <1>4, <3>3
  <2>3. CASE i \in 1 .. m /\ new[i] = old[i] /\ m < j /\ j - m \in 1 .. Len(x) /\ new[j] = x[j - m]
    BY <1>10, <1>11, <1>14, <2>3
  <2>4. CASE j \in 1 .. m /\ new[j] = old[j] /\ m < i /\ i - m \in 1 .. Len(x) /\ new[i] = x[i - m]
    BY <1>10, <1>11, <1>14, <2>4
  <2> QED BY <1>5, <2>1, <2>2, <2>3, <2>4
<1>15. EventsOK'
  BY <1>12, <1>13, <1>14 DEF EventsOK, new
<1> QED BY <1>4, <1>15 DEF new


LEMMA CallsAreCalls ==
  ASSUME NEW s \in Seq(OwnCalls)
  PROVE  s \in Seq(Call)
BY SeqMonotonic DEF OwnCalls

(* The mask of its signals is that of an IS_YOU answer, or none. *)
LEMMA SlotOfEngine ==
  ASSUME UpdateInv, (\E sentOk \in BOOLEAN : Serve(sentOk)) \/ EngineInternal
  PROVE  \E mask \in Addr0 \cup {Other, None} : EngineSlot(mask)
<1>1. CASE \E sentOk \in BOOLEAN : Serve(sentOk)
  BY <1>1 DEF Serve
<1>2. CASE EngineInternal
  <2>1. ASSUME NEW p \in InFlight
        PROVE  (IF p.form = "mask2" THEN p.addr ELSE None) \in Addr0 \cup {Other, None}
    <3>1. eng \in EngineState
      BY DEF UpdateInv, AtRest, Inv, Healthy, Sound
    <3>2. p.addr \in Addr0 \cup {Other}
      BY <2>1, <3>1, InFlightPackets
    <3> QED BY <3>2
  <2> QED BY <1>2, <2>1 DEF EngineInternal
<1> QED BY <1>1, <1>2

(* A slot of the engine keeps the invariant. *)
LEMMA SlotKeeps ==
  ASSUME UpdateInv, (\E sentOk \in BOOLEAN : Serve(sentOk)) \/ EngineInternal
  PROVE  UpdateInv'
<1>1. PICK mask \in Addr0 \cup {Other, None} : EngineSlot(mask)
  BY SlotOfEngine
<1>2. upd' = upd /\ foreign' = foreign /\ Signals(mask) /\ Streams /\ Reaches
  BY <1>1 DEF EngineSlot
<1>3. AtRest /\ Route
  BY DEF UpdateInv
<1>4. PICK V : AtRest' /\ Route' /\ eng' \in Emits(eng'.queues, V) /\ Flow(V)
  BY <1>2, <1>3, EngineFlows
<1>5. EventsOK' /\ toController' \in Seq(Event)
  BY <1>2, <1>4, SlotEvents
<1>6. /\ StreamOK' /\ ReachedOK'
      /\ data' \in 0 .. Blocks + 1 /\ wire' \in Seq(1 .. Blocks + 1) /\ reached' \subseteq Stages
  BY <1>2, <1>4, SlotStreams
<1>7. WaitsOK'
  BY <1>2 DEF UpdateInv, WaitsOK
<1>8. toEngine' \in Seq(Call)
  BY <1>4, CallsAreCalls DEF Route
<1>9. UpdateTypeOK'
  BY <1>2, <1>5, <1>6, <1>8 DEF UpdateInv, UpdateTypeOK
<1> QED BY <1>4, <1>5, <1>6, <1>7, <1>9 DEF UpdateInv


-----------------------------------------------------------------------------
(* The controller's steps *)

(* The calls it posts, none of them a VOLUME. *)
LEMMA PostedFlows ==
  ASSUME Route, eng' = eng, NEW x \in Seq(OwnCalls), toEngine' = toEngine \o x,
         ~Holds(x, VolumeCall),
         upd'.stage = "off" => upd.stage = "off" \/ ~Underway \/ Holds(x, Clear(Zero))
  PROVE  Route' /\ (Underway' <=> Underway)
<1> DEFINE s == toEngine
           t == toEngine \o x
           q == eng.queues[Zero]
<1>1. s \in Seq(OwnCalls) /\ t \in Seq(OwnCalls)
  BY ConcatProperties DEF Route
<1>2. /\ Holds(t, VolumeCall) <=> Holds(s, VolumeCall)
      /\ Once(s, VolumeCall) => Once(t, VolumeCall)
      /\ Before(s, VolumeCall, Clear(Zero)) => Before(t, VolumeCall, Clear(Zero))
      /\ Holds(x, Clear(Zero)) => Before(t, VolumeCall, Clear(Zero))
  BY <1>1, ConcatHolds
<1>3. Holds(t, Clear(Zero)) <=> Holds(s, Clear(Zero)) \/ Holds(x, Clear(Zero))
  BY <1>1, ConcatHolds
<1>4. toEngine' = t /\ eng'.queues[Zero] = q
  OBVIOUS
<1> HIDE DEF s, t, q
<1>5. Underway' <=> Underway
  BY <1>2, <1>4 DEF Underway, s, q
<1>6. ~Underway => Before(t, VolumeCall, Clear(Zero))
  BY <1>2 DEF Underway, Before, Holds, s
<1>7. upd'.stage = "off" => /\ Before(t, VolumeCall, Clear(Zero))
                            /\ Holds(q, "VOLUME") => Holds(t, Clear(Zero))
  BY <1>2, <1>3, <1>6 DEF Route, Underway, s, q
<1>8. /\ Once(t, VolumeCall) /\ Once(q, "VOLUME")
      /\ ~(Holds(t, VolumeCall) /\ Holds(q, "VOLUME"))
  BY <1>2 DEF Route, s, q
<1>9. Route'
  BY <1>1, <1>4, <1>7, <1>8 DEF Route
<1> QED BY <1>5, <1>9

LEMMA NothingPosted ==
  ASSUME Route, eng' = eng, toEngine' = toEngine,
         upd'.stage = "off" => upd.stage = "off" \/ ~Underway
  PROVE  Route' /\ (Underway' <=> Underway)
<1>1. /\ <<>> \in Seq(OwnCalls) /\ ~Holds(<<>>, VolumeCall)
      /\ toEngine' = toEngine \o <<>>
  BY OneElement, EmptySeq, ConcatEmptySeq DEF Route
<1> DEFINE none == <<>>
<1> HIDE DEF none
<1>2. none \in Seq(OwnCalls) /\ ~Holds(none, VolumeCall) /\ toEngine' = toEngine \o none
  BY <1>1 DEF none
<1> QED BY <1>2, PostedFlows

(* The call that begins a VOLUME. *)
LEMMA VolumePosted ==
  ASSUME Route, eng' = eng, toEngine' = toEngine \o <<VolumeCall>>, ~Underway, upd'.stage # "off"
  PROVE  Route' /\ Underway'
<1> DEFINE x == <<VolumeCall>>
           t == toEngine \o x
<1>1. VolumeCall \in OwnCalls
  BY OwnCommands DEF VolumeCall, Exec, OwnCalls, Call, ZeroOwn
<1>2. x \in Seq(OwnCalls) /\ toEngine \in Seq(OwnCalls) /\ Holds(x, VolumeCall) /\ Once(x, VolumeCall)
  BY <1>1, OneElement DEF Route
<1>3. toEngine' = t
  OBVIOUS
<1> HIDE DEF x
<1>4. t \in Seq(OwnCalls)
  BY <1>2, ConcatProperties
<1>5. /\ Holds(t, VolumeCall)
      /\ ~Holds(toEngine, VolumeCall) => Once(t, VolumeCall)
  BY <1>2, ConcatHolds
<1> HIDE DEF t
<1> QED BY <1>3, <1>4, <1>5 DEF Route, Underway

(* Signals that are still there when a stage or a wait begins are those of   *)
(* earlier waits.                                                            *)
LEMMA OlderEvents ==
  ASSUME UpdateInv, upd'.waits \in Nat, upd.waits <= upd'.waits,
         upd'.conn = 0 \/ upd'.conn = upd.waits + 1,
         NEW k \in {0, 1}, Len(toController') = Len(toController) - k,
         \A i \in 1 .. Len(toController') : toController'[i] = toController[i + k],
         \A i \in 1 .. Len(toController') :
           /\ toController'[i].stage \in SignalsAt(upd'.stage)
           /\ upd'.stage \in {"VOLUME", "UPDATE", "CLEAN"} => toController'[i].stage # upd'.stage
  PROVE  EventsOK'
<1>1. /\ toController \in Seq(Event) /\ upd.waits \in Nat /\ Len(toController) \in Nat /\ EventsOK
      /\ \A i \in 1 .. Len(toController) : toController[i] \in Event
  BY ElementOfSeq DEF UpdateInv, UpdateTypeOK, Update
<1>2. \A i \in 1 .. Len(toController') : i + k \in 1 .. Len(toController)
  BY <1>1
<1>3. ASSUME NEW i \in 1 .. Len(toController')
      PROVE  EventOK(toController[i])'
  <2>1. EventOK(toController[i + k]) /\ toController[i + k].wait \in Nat
    BY <1>1, <1>2, <1>3 DEF EventsOK, Event
  <2>2. 0 < toController'[i].wait /\ toController'[i].wait <= upd.waits /\ toController'[i].wait \in Nat
    BY <1>3, <2>1 DEF EventOK
  <2>3. toController'[i].wait <= upd'.waits /\ toController'[i].wait # upd'.conn
    BY <1>1, <2>2
  <2> QED BY <1>3, <2>2, <2>3 DEF EventOK
<1>4. ASSUME NEW i \in 1 .. Len(toController'), NEW j \in 1 .. Len(toController'), i < j
      PROVE  toController'[i].wait <= toController'[j].wait
  <2>1. i + k < j + k /\ i + k \in 1 .. Len(toController) /\ j + k \in 1 .. Len(toController)
    BY <1>2, <1>4
  <2>2. toController[i + k].wait <= toController[j + k].wait
    BY <1>1, <2>1 DEF EventsOK
  <2> QED BY <1>4, <2>2
<1>5. \A i, j \in 1 .. Len(toController') :
        upd'.stage = "VOLUME" /\ toController'[i].stage = "VOLUME" => i = j
  OBVIOUS
<1> QED BY <1>3, <1>4, <1>5 DEF EventsOK


LEMMA EngineRests ==
  ASSUME AtRest, UNCHANGED vars
  PROVE  AtRest' /\ eng' = eng
BY DEF AtRest, Inv, Queued, vars

(* Every signal is that of a wait of the update. *)
LEMMA EventsAreOfWaits ==
  ASSUME UpdateInv, NEW i \in 1 .. Len(toController)
  PROVE  /\ toController[i] \in Event /\ EventOK(toController[i])
         /\ toController[i].stage \in Stages \ {"off", "parse"}
         /\ toController[i].wait \in Nat /\ toController[i].wait # 0
<1>1. toController[i] \in Event /\ EventOK(toController[i])
  BY ElementOfSeq DEF UpdateInv, UpdateTypeOK, EventsOK
<1>2. SignalsAt(upd.stage) \subseteq Stages \ {"off", "parse"}
  BY DEF SignalsAt, Stages, GroupStages
<1> QED BY <1>1, <1>2 DEF EventOK, Event

(* In these stages every signal of an earlier wait may still be there. *)
LEMMA EarlierEvents ==
  ASSUME UpdateInv, upd'.stage \in {"off", "parse", "IS_YOU", "VERS"},
         upd'.waits \in Nat, upd.waits <= upd'.waits,
         upd'.conn = 0 \/ upd'.conn = upd.waits + 1,
         NEW k \in {0, 1}, Len(toController') = Len(toController) - k,
         \A i \in 1 .. Len(toController') : toController'[i] = toController[i + k]
  PROVE  EventsOK'
<1>1. SignalsAt(upd'.stage) = Stages \ {"off", "parse"} /\ upd'.stage \notin {"VOLUME", "UPDATE", "CLEAN"}
  BY DEF SignalsAt
<1>2. Len(toController) \in Nat
  BY DEF UpdateInv, UpdateTypeOK
<1>3. \A i \in 1 .. Len(toController') : i + k \in 1 .. Len(toController)
  BY <1>2
<1>4. \A i \in 1 .. Len(toController') : toController'[i].stage \in SignalsAt(upd'.stage)
  BY <1>1, <1>3, EventsAreOfWaits
<1> QED BY <1>1, <1>4, OlderEvents

LEMMA StartKeeps ==
  ASSUME UpdateInv, Start
  PROVE  UpdateInv'
<1>1. /\ upd \in Update /\ upd.stage = "off" /\ toEngine = <<>> /\ UNCHANGED vars
      /\ upd' = [upd EXCEPT !.stage = "parse", !.count = @ + 1, !.verdict = "none"]
      /\ UNCHANGED <<foreign, toEngine, toController, data, wire, reached>>
  BY DEF Start, UpdateInv, UpdateTypeOK, link, history
<1>2. /\ upd' \in Update /\ upd'.stage = "parse" /\ upd'.verdict = "none"
      /\ upd'.conn = upd.conn /\ upd'.waits = upd.waits /\ upd'.block = upd.block
      /\ upd'.target = upd.target /\ upd.waits \in Nat
  <2>1. upd.count \in Nat /\ upd.waits \in Nat
    BY <1>1 DEF Update
  <2>2. upd' \in Update
    <3>1. upd \in Update /\ upd' = [upd EXCEPT !.stage = "parse", !.count = upd.count + 1, !.verdict = "none"]
      BY <1>1
    <3>2. "parse" \in Stages /\ upd.count + 1 \in Nat
      BY <2>1 DEF Stages
    <3> QED BY <3>1, <3>2 DEF Update
  <2>3. upd'.stage = "parse" /\ upd'.verdict = "none"
    BY <1>1 DEF Update
  <2>4. /\ upd'.conn = upd.conn /\ upd'.waits = upd.waits /\ upd'.block = upd.block
        /\ upd'.target = upd.target
    BY <1>1 DEF Update
  <2> QED BY <2>1, <2>2, <2>3, <2>4
<1>3. AtRest' /\ eng' = eng
  BY <1>1, EngineRests DEF UpdateInv
<1>4. Route' /\ (Underway' <=> Underway)
  BY <1>1, <1>2, <1>3, NothingPosted DEF UpdateInv
<1>5. ~Underway
  BY <1>1, OneElement DEF UpdateInv, Route, Underway
<1>6. upd.conn = 0
  BY <1>1 DEF UpdateInv, WaitsOK
<1>7. WaitsOK'
  BY <1>2, <1>6 DEF WaitsOK, GroupStages
<1>8. EventsOK'
  <2>1. Len(toController) \in Nat
    BY DEF UpdateInv, UpdateTypeOK
  <2>2. Len(toController') = Len(toController) - 0
    BY <1>1, <2>1
  <2>3. \A i \in 1 .. Len(toController') : toController'[i] = toController[i + 0]
    BY <1>1
  <2> QED BY <1>2, <1>6, <2>2, <2>3, EarlierEvents
<1>9. StreamOK'
  BY <1>1, <1>2, <1>4, <1>5 DEF UpdateInv, StreamOK
<1>10. ReachedOK'
  BY <1>2 DEF ReachedOK
<1>11. UpdateTypeOK'
  BY <1>1, <1>2 DEF UpdateInv, UpdateTypeOK
<1> QED BY <1>3, <1>4, <1>7, <1>8, <1>9, <1>10, <1>11 DEF UpdateInv

LEMMA UserCommandKeeps ==
  ASSUME UpdateInv, NEW a \in Addr0, NEW c \in Own[a], c # "VOLUME", UserCommand(a, c)
  PROVE  UpdateInv'
<1> DEFINE x == <<Exec(a, c)>>
<1>1. /\ upd.stage = "off" /\ foreign' = foreign + 1 /\ toEngine' = toEngine \o x
      /\ UNCHANGED vars /\ UNCHANGED <<upd, toController, data, wire, reached>>
  BY DEF UserCommand, Post, history
<1>2. AtRest' /\ eng' = eng
  BY <1>1, EngineRests DEF UpdateInv
<1>3. c \in Commands
  BY OwnCommands
<1>4. Exec(a, c) \in OwnCalls /\ Exec(a, c) # VolumeCall
  BY <1>3 DEF Exec, OwnCalls, Call, VolumeCall
<1>5. x \in Seq(OwnCalls) /\ ~Holds(x, VolumeCall)
  BY <1>4, OneElement
<1> HIDE DEF x
<1>6. Route' /\ (Underway' <=> Underway)
  BY <1>1, <1>2, <1>5, PostedFlows DEF UpdateInv
<1>7. WaitsOK' /\ ReachedOK'
  BY <1>1 DEF UpdateInv, WaitsOK, ReachedOK
<1>8. StreamOK'
  BY <1>1, <1>6 DEF UpdateInv, StreamOK
<1>9. EventsOK'
  <2>1. ASSUME NEW i \in 1 .. Len(toController) PROVE EventOK(toController[i])'
    BY <1>1, <1>6, <2>1 DEF UpdateInv, EventsOK, EventOK
  <2> QED BY <1>1, <2>1 DEF UpdateInv, EventsOK
<1>10. UpdateTypeOK'
  <2>1. toEngine' \in Seq(Call)
    BY <1>6, CallsAreCalls DEF Route
  <2> QED BY <1>1, <2>1 DEF UpdateInv, UpdateTypeOK
<1> QED BY <1>2, <1>6, <1>7, <1>8, <1>9, <1>10 DEF UpdateInv

(* The clears an update posts. *)
LEMMA ClearsOf ==
  ASSUME NEW as \in SUBSET Addr
  PROVE  ClearOf(as) \in Seq(OwnCalls) /\ ~Holds(ClearOf(as), VolumeCall)
<1>1. IsFiniteSet(as)
  BY UpdateAssumption, FS_Subset
<1> DEFINE n == Cardinality(as)
           s == SetToSeq(as)
<1>2. /\ s \in Seq(as) /\ Len(s) = n /\ n \in Nat
  BY <1>1, SequenceOfSet
<1>3. \A i \in 1 .. n : s[i] \in as
  BY <1>2, ElementOfSeq
<1>4. \A b \in Addr0 : Clear(b) \in OwnCalls /\ Clear(b) # VolumeCall
  BY DEF Clear, OwnCalls, Call, VolumeCall, Exec
<1>5. \A i \in 1 .. n : Clear(s[i]) \in OwnCalls /\ Clear(s[i]) # VolumeCall
  BY <1>3, <1>4, OwnCommands
<1>6. ClearOf(as) = [i \in 1 .. n |-> Clear(s[i])]
  BY DEF ClearOf
<1> HIDE DEF n, s
<1>7. ClearOf(as) \in [1 .. n -> OwnCalls]
  BY <1>5, <1>6
<1>8. ClearOf(as) \in Seq(OwnCalls) /\ Len(ClearOf(as)) = n
  <2>1. n \in Nat
    BY <1>2
  <2> DEFINE c == ClearOf(as)
  <2>2. c \in [1 .. n -> OwnCalls]
    BY <1>7
  <2> HIDE DEF c
  <2>3. c \in Seq(OwnCalls) /\ Len(c) = n
    BY <2>1, <2>2
  <2> QED BY <2>3 DEF c
<1> QED BY <1>5, <1>6, <1>8 DEF Holds

LEMMA AbortsPost ==
  ASSUME upd \in Update
  PROVE  /\ Aborts \in Seq(OwnCalls) /\ ~Holds(Aborts, VolumeCall)
         /\ upd.stage # "IS_YOU" => Holds(Aborts, Clear(Zero))
<1> DEFINE x == <<Clear(Zero)>>
           y == ClearOf(upd.target)
<1>1. Clear(Zero) \in OwnCalls /\ Clear(Zero) # VolumeCall
  BY OwnCommands DEF Clear, OwnCalls, Call, VolumeCall, Exec
<1>2. x \in Seq(OwnCalls) /\ ~Holds(x, VolumeCall) /\ Holds(x, Clear(Zero))
  BY <1>1, OneElement
<1>3. y \in Seq(OwnCalls) /\ ~Holds(y, VolumeCall)
  BY ClearsOf DEF Update
<1>4. Aborts = IF upd.stage = "IS_YOU" THEN <<>>
               ELSE IF upd.stage \in GroupStages THEN x \o y ELSE x
  BY DEF Aborts, GroupStages
<1>5. <<>> \in Seq(OwnCalls) /\ ~Holds(<<>>, VolumeCall)
  BY OneElement, EmptySeq
<1> HIDE DEF x, y
<1>6. /\ x \o y \in Seq(OwnCalls) /\ ~Holds(x \o y, VolumeCall)
      /\ Holds(x \o y, Clear(Zero))
  BY <1>2, <1>3, ConcatHolds, ConcatProperties
<1> QED BY <1>2, <1>4, <1>5, <1>6


LEMMA BeginKeeps ==
  ASSUME UpdateInv, Begin
  PROVE  UpdateInv'
<1> DEFINE x == <<Clear(Zero)>>
           y == ClearOf(Addr)
           z == <<Exec(Zero, "IS_YOU")>>
<1>1. /\ upd \in Update /\ upd.stage = "parse" /\ UNCHANGED vars
      /\ toEngine' = toEngine \o (x \o y \o z) /\ wire' = <<>> /\ reached' = {}
      /\ UNCHANGED <<foreign, toController, data>>
  BY DEF Begin, Post, UpdateInv, UpdateTypeOK
<1>2. upd.waits \in Nat /\ upd.waits + 1 \in Nat
  BY <1>1 DEF Update
<1>3. upd' = [[upd EXCEPT !.block = 0, !.target = {}] EXCEPT
                !.stage = "IS_YOU", !.conn = upd.waits + 1, !.waits = upd.waits + 1]
  BY <1>1 DEF Begin, Waiting, Update
<1>4. /\ upd'.stage = "IS_YOU" /\ upd'.conn = upd.waits + 1 /\ upd'.waits = upd.waits + 1
      /\ upd'.block = 0 /\ upd'.target = {} /\ upd'.verdict = upd.verdict
  BY <1>1, <1>3 DEF Update
<1>5. upd' \in Update
  <2>1. "IS_YOU" \in Stages /\ 0 \in 0 .. Blocks + 1
    BY UpdateAssumption DEF Stages
  <2>2. upd \in Update
    BY <1>1
  <2> QED BY <1>2, <1>3, <2>1, <2>2 DEF Update
<1>6. AtRest' /\ eng' = eng
  BY <1>1, EngineRests DEF UpdateInv
<1>7. x \o y \o z \in Seq(OwnCalls) /\ ~Holds(x \o y \o z, VolumeCall)
  <2>1. /\ Clear(Zero) \in OwnCalls /\ Clear(Zero) # VolumeCall
        /\ Exec(Zero, "IS_YOU") \in OwnCalls /\ Exec(Zero, "IS_YOU") # VolumeCall
    BY OwnCommands DEF Clear, Exec, OwnCalls, Call, VolumeCall, ZeroOwn
  <2>2. /\ x \in Seq(OwnCalls) /\ ~Holds(x, VolumeCall)
        /\ z \in Seq(OwnCalls) /\ ~Holds(z, VolumeCall)
    BY <2>1, OneElement
  <2>3. y \in Seq(OwnCalls) /\ ~Holds(y, VolumeCall)
    BY ClearsOf
  <2> HIDE DEF x, y, z
  <2>4. x \o y \in Seq(OwnCalls) /\ ~Holds(x \o y, VolumeCall)
    BY <2>2, <2>3, ConcatHolds, ConcatProperties
  <2> DEFINE xy == x \o y
  <2>5. xy \in Seq(OwnCalls) /\ ~Holds(xy, VolumeCall)
    BY <2>4
  <2> HIDE DEF xy
  <2>6. xy \o z \in Seq(OwnCalls) /\ ~Holds(xy \o z, VolumeCall)
    BY <2>2, <2>5, ConcatHolds, ConcatProperties
  <2> QED BY <2>6 DEF xy
<1> DEFINE posted == x \o y \o z
<1>8. posted \in Seq(OwnCalls) /\ ~Holds(posted, VolumeCall) /\ toEngine' = toEngine \o posted
  BY <1>1, <1>7
<1> HIDE DEF posted, x, y, z
<1>9. Route' /\ (Underway' <=> Underway)
  BY <1>4, <1>6, <1>8, PostedFlows DEF UpdateInv
<1>10. ~Underway /\ upd.verdict # "success"
  BY <1>1 DEF UpdateInv, StreamOK, ReachedOK
<1>11. WaitsOK'
  BY <1>2, <1>4 DEF WaitsOK, GroupStages
<1>12. EventsOK'
  <2>1. Len(toController) \in Nat
    BY DEF UpdateInv, UpdateTypeOK
  <2>2. Len(toController') = Len(toController) - 0 /\ upd.waits <= upd'.waits /\ upd'.waits \in Nat
    BY <1>1, <1>2, <1>4, <2>1
  <2>3. \A i \in 1 .. Len(toController') : toController'[i] = toController[i + 0]
    BY <1>1
  <2> QED BY <1>4, <2>2, <2>3, EarlierEvents
<1>13. wire' \in Seq(1 .. Blocks + 1) /\ Len(wire') = 0
  BY <1>1, EmptySeq
<1>14. StreamOK'
  BY <1>1, <1>4, <1>9, <1>10, <1>13 DEF StreamOK
<1>15. ReachedOK'
  BY <1>4, <1>10 DEF ReachedOK
<1>16. UpdateTypeOK'
  <2>1. toEngine' \in Seq(Call)
    BY <1>9, CallsAreCalls DEF Route
  <2> QED BY <1>1, <1>5, <1>13, <2>1 DEF UpdateInv, UpdateTypeOK
<1> QED BY <1>6, <1>9, <1>11, <1>12, <1>14, <1>15, <1>16 DEF UpdateInv

LEMMA CallGroupKeeps ==
  ASSUME UpdateInv, CallGroup
  PROVE  UpdateInv'
<1>1. /\ upd \in Update /\ upd.stage \in GroupStages /\ upd.target # {}
      /\ ExecuteGroupCommand(upd.stage, upd.target)
      /\ UNCHANGED <<foreign, toEngine, toController, data, wire, reached>>
  BY DEF CallGroup, link, history, UpdateInv, UpdateTypeOK, WaitsOK
<1>2. AtRest
  BY DEF UpdateInv
<1>3. eng' \in Emits(eng.queues, {}) /\ eng'.queues = eng.queues
  BY <1>1, <1>2, ExecuteGroupCommandEmits DEF Update
<1>4. AtRest'
  <2>1. eng' \in Emits(eng'.queues, {}) /\ Queued(eng')
    BY <1>2, <1>3 DEF AtRest, Queued
  <2>2. calls' \in Nat /\ disconnects' \in Nat /\ clears' \in Nat
    <3>1. calls \in Nat /\ disconnects \in Nat /\ clears \in Nat
      BY <1>2 DEF AtRest, Inv
    <3> QED BY <1>1, <3>1 DEF ExecuteGroupCommand, Submit
  <2> QED BY <2>1, <2>2, StaysAtRest
<1>5. upd.waits \in Nat /\ upd.waits + 1 \in Nat /\ eng.nextGroup \in Nat
  BY <1>1, <1>2 DEF Update, AtRest, Inv, Healthy, Sound, EngineState
<1>6. upd' = [[upd EXCEPT !.stage = upd.stage, !.conn = upd.waits + 1, !.waits = upd.waits + 1]
                EXCEPT !.group = eng.nextGroup]
  BY <1>1 DEF CallGroup, Waiting, Update
<1>7. /\ upd'.stage = upd.stage /\ upd'.conn = upd.waits + 1 /\ upd'.waits = upd.waits + 1
      /\ upd'.block = upd.block /\ upd'.target = upd.target /\ upd'.verdict = upd.verdict
  BY <1>1, <1>6 DEF Update
<1>8. upd' \in Update
  <2>1. upd \in Update /\ upd.stage \in Stages
    BY <1>1 DEF Update
  <2> QED BY <1>5, <1>6, <2>1 DEF Update
<1>9. ~Underway /\ ~Underway'
  BY <1>1, <1>3 DEF UpdateInv, StreamOK, Underway, GroupStages
<1>10. Route'
  BY <1>1, <1>3, <1>7 DEF UpdateInv, Route
<1>11. WaitsOK'
  BY <1>1, <1>5, <1>7 DEF UpdateInv, WaitsOK, GroupStages
<1>12. EventsOK'
  <2>1. Len(toController) \in Nat
    BY DEF UpdateInv, UpdateTypeOK
  <2>2. Len(toController') = Len(toController) - 0 /\ upd.waits <= upd'.waits /\ upd'.waits \in Nat
    BY <1>1, <1>5, <1>7, <2>1
  <2>3. \A i \in 1 .. Len(toController') : toController'[i] = toController[i + 0]
    BY <1>1
  <2>4. \A i \in 1 .. Len(toController') : toController'[i].stage \in SignalsAt(upd'.stage)
    BY <1>1, <1>7, EventsAreOfWaits DEF EventOK
  <2>5. upd'.stage \notin {"VOLUME", "UPDATE", "CLEAN"}
    BY <1>1, <1>7 DEF GroupStages
  <2> QED BY <1>7, <2>2, <2>3, <2>4, <2>5, OlderEvents
<1>13. StreamOK'
  BY <1>1, <1>7, <1>9 DEF UpdateInv, StreamOK
<1>14. ReachedOK'
  BY <1>1, <1>7 DEF UpdateInv, ReachedOK
<1>15. UpdateTypeOK'
  BY <1>1, <1>8 DEF UpdateInv, UpdateTypeOK
<1> QED BY <1>4, <1>10, <1>11, <1>12, <1>13, <1>14, <1>15 DEF UpdateInv


LEMMA AbortKeeps ==
  ASSUME UpdateInv, Abort, upd.stage \notin {"off", "parse"}, UNCHANGED <<vars, foreign, wire, reached>>,
         toController' \in Seq(Event), NEW k \in {0, 1},
         Len(toController') = Len(toController) - k,
         \A i \in 1 .. Len(toController') : toController'[i] = toController[i + k]
  PROVE  UpdateInv'
<1>1. /\ upd \in Update /\ toEngine' = toEngine \o Aborts /\ data' = data
      /\ upd' = [upd EXCEPT !.stage = "off", !.conn = 0, !.verdict = "failed"]
  BY DEF Abort, Failed, Post, UpdateInv, UpdateTypeOK
<1>2. /\ upd'.stage = "off" /\ upd'.conn = 0 /\ upd'.verdict = "failed"
      /\ upd'.block = upd.block /\ upd'.waits = upd.waits /\ upd.waits \in Nat
  BY <1>1 DEF Update
<1>3. upd' \in Update
  <2>1. upd \in Update /\ "off" \in Stages
    BY <1>1 DEF Stages
  <2> QED BY <1>1, <2>1 DEF Update
<1>4. AtRest' /\ eng' = eng
  BY EngineRests DEF UpdateInv
<1>5. upd.stage = "IS_YOU" => ~Underway
  BY DEF UpdateInv, StreamOK
<1>6. Route' /\ (Underway' <=> Underway)
  BY <1>1, <1>4, <1>5, AbortsPost, PostedFlows DEF UpdateInv
<1>7. WaitsOK'
  BY <1>2 DEF WaitsOK, GroupStages
<1>8. EventsOK'
  BY <1>2, EarlierEvents
<1>9. StreamOK'
  BY <1>1, <1>2, <1>6 DEF UpdateInv, StreamOK
<1>10. ReachedOK'
  BY <1>2 DEF ReachedOK
<1>11. UpdateTypeOK'
  <2>1. toEngine' \in Seq(Call)
    BY <1>6, CallsAreCalls DEF Route
  <2> QED BY <1>1, <1>3, <2>1 DEF UpdateInv, UpdateTypeOK
<1> QED BY <1>4, <1>6, <1>7, <1>8, <1>9, <1>10, <1>11 DEF UpdateInv

LEMMA WaitTimeoutKeeps ==
  ASSUME UpdateInv, WaitTimeout
  PROVE  UpdateInv'
<1>1. /\ upd.conn # 0 /\ Abort /\ UNCHANGED <<vars, foreign, wire, reached>>
      /\ toController' = toController
  BY DEF WaitTimeout, history
<1>2. upd.stage \notin {"off", "parse"}
  BY <1>1 DEF UpdateInv, WaitsOK
<1>3. /\ toController' \in Seq(Event) /\ Len(toController') = Len(toController) - 0
      /\ \A i \in 1 .. Len(toController') : toController'[i] = toController[i + 0]
  BY <1>1 DEF UpdateInv, UpdateTypeOK
<1> QED BY <1>1, <1>2, <1>3, AbortKeeps

(* The signal that is delivered, and those behind it. *)
LEMMA Delivered ==
  ASSUME UpdateInv, toController # <<>>, toController' = Tail(toController)
  PROVE  /\ 1 \in 1 .. Len(toController) /\ Head(toController) = toController[1]
         /\ Len(toController') = Len(toController) - 1 /\ Len(toController) \in Nat
         /\ toController' \in Seq(Event)
         /\ \A i \in 1 .. Len(toController') : /\ i + 1 \in 1 .. Len(toController)
                                               /\ toController'[i] = toController[i + 1]
<1>1. toController \in Seq(Event)
  BY DEF UpdateInv, UpdateTypeOK
<1>2. /\ Len(toController) \in Nat \ {0} /\ Len(toController') = Len(toController) - 1
      /\ Head(toController) = toController[1] /\ toController' \in Seq(Event)
      /\ \A i \in 1 .. Len(toController') : toController'[i] = toController[i + 1]
  BY <1>1, HeadTailProperties, EmptySeq
<1> QED BY <1>2

(* A signal of the current wait, and all that is behind one. *)
LEMMA CurrentSignal ==
  ASSUME UpdateInv, toController # <<>>, toController' = Tail(toController),
         NEW ev, ev = Head(toController), Listening,
         ev.wait = upd.conn \/ (ev.stage = upd.stage /\ upd.stage \notin GroupStages)
  PROVE  /\ ev \in Event /\ EventOK(ev) /\ ev.stage = upd.stage
         /\ upd.stage \notin {"off", "parse"} /\ upd.conn # 0
         /\ upd.stage # "IS_YOU" =>
              /\ ev.wait = upd.conn
              /\ \A i \in 1 .. Len(toController') : /\ toController'[i].wait = upd.conn
                                                    /\ toController'[i].stage = upd.stage
         /\ upd.stage = "VOLUME" => Len(toController') = 0
<1>1. 1 \in 1 .. Len(toController) /\ ev = toController[1]
  BY Delivered
<1>2. /\ ev \in Event /\ EventOK(ev) /\ ev.stage \notin {"off", "parse"} /\ ev.wait # 0
  BY <1>1, EventsAreOfWaits
<1>3. ev.stage = upd.stage
  BY <1>2 DEF EventOK
<1>4. upd.stage \notin {"off", "parse"} /\ upd.conn # 0
  BY <1>2, <1>3 DEF Listening
<1>5. upd \in Update /\ upd.conn = upd.waits /\ upd.waits \in Nat
  BY <1>4 DEF UpdateInv, UpdateTypeOK, WaitsOK, Update
<1>6. upd.stage # "IS_YOU" => ev.wait = upd.conn
  <2>1. upd.stage \in {"VOLUME", "UPDATE", "CLEAN"} \cup GroupStages \cup {"IS_YOU"}
    BY <1>4, <1>5 DEF Update, Stages
  <2> QED BY <1>2, <1>3, <2>1 DEF EventOK
<1>7. ASSUME upd.stage # "IS_YOU", NEW i \in 1 .. Len(toController')
      PROVE  toController'[i].wait = upd.conn /\ toController'[i].stage = upd.stage
  <2>1. /\ i + 1 \in 1 .. Len(toController) /\ toController'[i] = toController[i + 1]
        /\ 1 < i + 1
    BY <1>7, Delivered
  <2>2. toController[1].wait <= toController[i + 1].wait
    BY <1>1, <2>1 DEF UpdateInv, EventsOK
  <2>3. EventOK(toController[i + 1]) /\ toController[i + 1].wait \in Nat
    BY <2>1, EventsAreOfWaits
  <2>4. toController[i + 1].wait <= upd.waits
    BY <2>3 DEF EventOK
  <2>5. toController[i + 1].wait = upd.conn
    BY <1>1, <1>5, <1>6, <1>7, <2>2, <2>3, <2>4
  <2> QED BY <2>1, <2>3, <2>5 DEF EventOK
<1>8. ASSUME upd.stage = "VOLUME", Len(toController') # 0 PROVE FALSE
  <2>1. 1 \in 1 .. Len(toController') /\ 1 + 1 \in 1 .. Len(toController)
    BY <1>8, Delivered
  <2>2. toController[1 + 1].stage = "VOLUME" /\ toController[1].stage = "VOLUME"
    BY <1>1, <1>3, <1>7, <1>8, <2>1, Delivered
  <2>3. 1 = 1 + 1
    BY <1>1, <1>8, <2>1, <2>2 DEF UpdateInv, EventsOK
  <2> QED BY <2>3
<1> QED BY <1>2, <1>3, <1>4, <1>6, <1>7, <1>8


(* The next VOLUME is given out when none is under way. *)
LEMMA SendVolumeKeeps ==
  ASSUME UpdateInv, UNCHANGED <<vars, foreign, wire, reached>>, NEW block \in 1 .. Blocks + 1,
         SendVolume(block), ~Underway, block = Len(wire) + 1, GroupStages \subseteq reached,
         upd.verdict # "success", toController' \in Seq(Event), NEW k \in {0, 1},
         Len(toController') = Len(toController) - k,
         \A i \in 1 .. Len(toController') : /\ toController'[i] = toController[i + k]
                                            /\ toController'[i].stage = "PROGRAMM"
  PROVE  UpdateInv'
<1>1. /\ upd \in Update /\ toEngine' = toEngine \o <<VolumeCall>> /\ data' = block
      /\ upd.waits \in Nat /\ upd.waits + 1 \in Nat /\ Blocks \in Nat
  <2>1. upd \in Update /\ Blocks \in Nat
    BY UpdateAssumption DEF UpdateInv, UpdateTypeOK
  <2>2. upd.waits \in Nat /\ upd.waits + 1 \in Nat
    BY <2>1 DEF Update
  <2>3. toEngine' = toEngine \o <<VolumeCall>> /\ data' = block
    BY DEF SendVolume, Post, VolumeCall
  <2> QED BY <2>1, <2>2, <2>3
<1>2. upd' = [[upd EXCEPT !.stage = "VOLUME", !.conn = upd.waits + 1, !.waits = upd.waits + 1]
                EXCEPT !.block = block]
  BY <1>1 DEF SendVolume, Waiting, Update
<1>3. /\ upd'.stage = "VOLUME" /\ upd'.conn = upd.waits + 1 /\ upd'.waits = upd.waits + 1
      /\ upd'.block = block /\ upd'.target = upd.target /\ upd'.verdict = upd.verdict
  BY <1>1, <1>2 DEF Update
<1>4. upd' \in Update
  <2>1. upd \in Update /\ "VOLUME" \in Stages /\ block \in 0 .. Blocks + 1
    BY <1>1 DEF Stages
  <2> QED BY <1>1, <1>2, <2>1 DEF Update
<1>5. AtRest' /\ eng' = eng
  BY EngineRests DEF UpdateInv
<1>6. Route' /\ Underway'
  BY <1>1, <1>3, <1>5, VolumePosted DEF UpdateInv
<1>7. WaitsOK'
  BY <1>1, <1>3 DEF WaitsOK, GroupStages
<1>8. EventsOK'
  <2>1. "PROGRAMM" \in SignalsAt(upd'.stage)
    BY <1>3 DEF SignalsAt
  <2>2. \A i \in 1 .. Len(toController') :
          /\ toController'[i].stage \in SignalsAt(upd'.stage)
          /\ toController'[i].stage # upd'.stage
    BY <1>3, <2>1
  <2>3. upd'.waits \in Nat /\ upd.waits <= upd'.waits /\ upd'.conn = upd.waits + 1
    BY <1>1, <1>3
  <2>4. \A i \in 1 .. Len(toController') : toController'[i] = toController[i + k]
    OBVIOUS
  <2> QED BY <2>2, <2>3, <2>4, OlderEvents
<1>9. StreamOK'
  <2>1. Len(wire') \in Nat /\ wire' = wire
    BY DEF UpdateInv, UpdateTypeOK
  <2> QED BY <1>1, <1>3, <1>6, <2>1 DEF UpdateInv, StreamOK
<1>10. ReachedOK'
  BY <1>3 DEF ReachedOK, GroupStages
<1>11. UpdateTypeOK'
  <2>1. toEngine' \in Seq(Call)
    BY <1>6, CallsAreCalls DEF Route
  <2> QED BY <1>1, <1>4, <2>1 DEF UpdateInv, UpdateTypeOK
<1> QED BY <1>5, <1>6, <1>7, <1>8, <1>9, <1>10, <1>11 DEF UpdateInv

(* The stages after the last block. *)
LEMMA NextStageKeeps ==
  ASSUME UpdateInv, UNCHANGED <<vars, foreign, wire, reached, data>>, NEW c \in {"UPDATE", "CLEAN"},
         upd' = Waiting(upd, c), Post(<<Exec(Zero, c)>>),
         ~Underway, Len(wire) = Blocks + 1, GroupStages \subseteq reached,
         c = "CLEAN" => Private \cap {"UPDATE"} \subseteq reached,
         upd.verdict # "success", toController' \in Seq(Event), NEW k \in {0, 1},
         Len(toController') = Len(toController) - k,
         \A i \in 1 .. Len(toController') :
           /\ toController'[i] = toController[i + k]
           /\ toController'[i].stage = IF c = "UPDATE" THEN "VOLUME" ELSE "UPDATE"
  PROVE  UpdateInv'
<1> DEFINE x == <<Exec(Zero, c)>>
<1>1. /\ upd \in Update /\ toEngine' = toEngine \o x
      /\ upd.waits \in Nat /\ upd.waits + 1 \in Nat
  BY DEF Post, UpdateInv, UpdateTypeOK, Update
<1>2. upd' = [upd EXCEPT !.stage = c, !.conn = upd.waits + 1, !.waits = upd.waits + 1]
  BY <1>1 DEF Waiting, Update
<1>3. /\ upd'.stage = c /\ upd'.conn = upd.waits + 1 /\ upd'.waits = upd.waits + 1
      /\ upd'.block = upd.block /\ upd'.target = upd.target /\ upd'.verdict = upd.verdict
  BY <1>1, <1>2 DEF Update
<1>4. upd' \in Update
  <2>1. upd \in Update /\ c \in Stages
    BY <1>1 DEF Stages
  <2> QED BY <1>1, <1>2, <2>1 DEF Update
<1>5. AtRest' /\ eng' = eng
  BY EngineRests DEF UpdateInv
<1>6. x \in Seq(OwnCalls) /\ ~Holds(x, VolumeCall)
  <2>1. Exec(Zero, c) \in OwnCalls /\ Exec(Zero, c) # VolumeCall
    BY OwnCommands DEF Exec, OwnCalls, Call, VolumeCall, ZeroOwn
  <2> QED BY <2>1, OneElement
<1> HIDE DEF x
<1>7. Route' /\ (Underway' <=> Underway)
  BY <1>1, <1>3, <1>5, <1>6, PostedFlows DEF UpdateInv
<1>8. WaitsOK'
  BY <1>1, <1>3 DEF WaitsOK, GroupStages
<1>9. EventsOK'
  <2>1. (IF c = "UPDATE" THEN "VOLUME" ELSE "UPDATE") \in SignalsAt(upd'.stage)
    BY <1>3 DEF SignalsAt
  <2>2. \A i \in 1 .. Len(toController') :
          /\ toController'[i].stage \in SignalsAt(upd'.stage)
          /\ toController'[i].stage # upd'.stage
    BY <1>3, <2>1
  <2>3. upd'.waits \in Nat /\ upd.waits <= upd'.waits /\ upd'.conn = upd.waits + 1
    BY <1>1, <1>3
  <2>4. \A i \in 1 .. Len(toController') : toController'[i] = toController[i + k]
    OBVIOUS
  <2> QED BY <2>2, <2>3, <2>4, OlderEvents
<1>10. StreamOK'
  BY <1>3, <1>7 DEF UpdateInv, StreamOK
<1>11. ReachedOK'
  BY <1>3 DEF ReachedOK, GroupStages
<1>12. UpdateTypeOK'
  <2>1. toEngine' \in Seq(Call)
    BY <1>7, CallsAreCalls DEF Route
  <2> QED BY <1>4, <2>1 DEF UpdateInv, UpdateTypeOK
<1> QED BY <1>5, <1>7, <1>8, <1>9, <1>10, <1>11, <1>12 DEF UpdateInv

(* The steps that post nothing: to a group stage, and to the end. *)
LEMMA QuietStageKeeps ==
  ASSUME UpdateInv, UNCHANGED <<vars, foreign, wire, reached, data, toEngine>>,
         upd.stage \notin {"off", "parse"}, ~Underway,
         upd' \in Update, upd'.stage \in GroupStages \cup {"off"}, upd'.conn = 0,
         upd'.waits = upd.waits, upd'.block = upd.block,
         upd'.stage \in GroupStages => upd'.target # {} /\ wire = <<>>,
         EventsOK', ReachedOK', toController' \in Seq(Event)
  PROVE  UpdateInv'
<1>1. AtRest' /\ eng' = eng
  BY EngineRests DEF UpdateInv
<1>2. Route' /\ (Underway' <=> Underway)
  BY <1>1, NothingPosted DEF UpdateInv
<1>3. WaitsOK'
  BY DEF WaitsOK, GroupStages
<1>4. StreamOK'
  BY <1>2 DEF UpdateInv, StreamOK, GroupStages
<1>5. UpdateTypeOK'
  BY DEF UpdateInv, UpdateTypeOK
<1> QED BY <1>1, <1>2, <1>3, <1>4, <1>5 DEF UpdateInv


LEMMA ProceedKeeps ==
  ASSUME UpdateInv, UNCHANGED <<vars, foreign, wire, reached>>,
         toController # <<>>, toController' = Tail(toController), Listening,
         NEW ev, ev = Head(toController), ev.ok,
         ev.wait = upd.conn \/ (ev.stage = upd.stage /\ upd.stage \notin GroupStages),
         Proceed(ev.stage, ev.mask)
  PROVE  UpdateInv'
<1>1. /\ EventOK(ev) /\ ev.stage = upd.stage
      /\ upd.stage \notin {"off", "parse"} /\ upd.conn # 0
      /\ upd.stage # "IS_YOU" =>
           /\ ev.wait = upd.conn
           /\ \A i \in 1 .. Len(toController') : /\ toController'[i].wait = upd.conn
                                                 /\ toController'[i].stage = upd.stage
      /\ upd.stage = "VOLUME" => Len(toController') = 0
  BY CurrentSignal
<1>2. PICK k \in {0, 1} :
        /\ Len(toController') = Len(toController) - k /\ toController' \in Seq(Event)
        /\ \A i \in 1 .. Len(toController') : toController'[i] = toController[i + k]
  <2>1. 1 \in {0, 1}
    OBVIOUS
  <2> QED BY <2>1, Delivered
<1>3. /\ upd \in Update /\ upd.waits \in Nat /\ upd.block \in 0 .. Blocks + 1 /\ Blocks \in Nat
      /\ upd.target \in SUBSET Addr
  BY UpdateAssumption DEF UpdateInv, UpdateTypeOK, Update
<1>4. /\ upd.verdict # "success"
      /\ upd.stage # "VOLUME" => ~Underway
  BY <1>1 DEF UpdateInv, StreamOK, ReachedOK
<1>5. upd.stage # "IS_YOU" /\ upd.stage \in GroupStages \cup Private => upd.stage \in reached
  BY <1>1 DEF EventOK
<1>6. CASE upd.stage = "IS_YOU"
  <2>1. PICK target \in UNION {SUBSET m : m \in ActiveMasks(ev.mask)} :
          /\ upd' = IF target = {} THEN Failed(upd)
                    ELSE [upd EXCEPT !.stage = "VERS", !.target = target, !.conn = 0]
          /\ UNCHANGED <<toEngine, data>>
    BY <1>1, <1>6 DEF Proceed
  <2>2. target \in SUBSET Addr
    BY <2>1 DEF ActiveMasks
  <2>3. CASE target = {}
    <3>1. Aborts = <<>>
      BY <1>6 DEF Aborts, GroupStages
    <3>2. toEngine' = toEngine \o <<>>
      BY <2>1, ConcatEmptySeq DEF UpdateInv, Route
    <3>3. Abort
      BY <2>1, <2>3, <3>1, <3>2 DEF Abort, Post
    <3> QED BY <1>1, <1>2, <3>3, AbortKeeps
  <2>4. CASE target # {}
    <3>1. upd' = [upd EXCEPT !.stage = "VERS", !.target = target, !.conn = 0]
      BY <2>1, <2>4
    <3>2. upd' \in Update
      <4>1. "VERS" \in Stages
        BY DEF Stages, GroupStages
      <4> QED BY <1>3, <2>2, <3>1, <4>1 DEF Update
    <3>3. /\ upd'.stage = "VERS" /\ upd'.conn = 0 /\ upd'.waits = upd.waits
          /\ upd'.block = upd.block /\ upd'.target = target /\ upd'.verdict = upd.verdict
      BY <1>3, <3>1 DEF Update
    <3>4. EventsOK'
      BY <1>2, <1>3, <3>3, EarlierEvents
    <3>5. ReachedOK'
      BY <1>4, <3>3 DEF ReachedOK
    <3>6. wire = <<>>
      BY <1>6 DEF UpdateInv, StreamOK
    <3>7. "VERS" \in GroupStages
      BY DEF GroupStages
    <3> QED BY <1>1, <1>2, <1>4, <1>6, <2>1, <2>4, <3>2, <3>3, <3>4, <3>5, <3>6, <3>7, QuietStageKeeps
  <2> QED BY <2>3, <2>4
<1>7. CASE upd.stage = "VERS"
  <2>1. upd' = [upd EXCEPT !.stage = "PROGRAMM", !.conn = 0] /\ UNCHANGED <<toEngine, data>>
    BY <1>1, <1>7 DEF Proceed
  <2>2. upd' \in Update
    <3>1. "PROGRAMM" \in Stages
      BY DEF Stages, GroupStages
    <3> QED BY <1>3, <2>1, <3>1 DEF Update
  <2>3. /\ upd'.stage = "PROGRAMM" /\ upd'.conn = 0 /\ upd'.waits = upd.waits
        /\ upd'.block = upd.block /\ upd'.target = upd.target /\ upd'.verdict = upd.verdict
    BY <1>3, <2>1 DEF Update
  <2>4. EventsOK'
    <3>1. SignalsAt(upd'.stage) = {"VERS", "PROGRAMM"}
      BY <2>3 DEF SignalsAt
    <3>2. \A i \in 1 .. Len(toController') : toController'[i].stage \in SignalsAt(upd'.stage)
      BY <1>1, <1>7, <3>1
    <3> QED BY <1>2, <1>3, <2>3, <3>2, OlderEvents
  <2>5. "VERS" \in reached
    BY <1>5, <1>7 DEF GroupStages
  <2>6. ReachedOK'
    BY <1>4, <2>3, <2>5 DEF ReachedOK
  <2>7. wire = <<>> /\ upd.target # {}
    BY <1>7 DEF UpdateInv, StreamOK, WaitsOK, GroupStages
  <2>8. "PROGRAMM" \in GroupStages
    BY DEF GroupStages
  <2> QED BY <1>1, <1>2, <1>4, <1>7, <2>1, <2>2, <2>3, <2>4, <2>6, <2>7, <2>8, QuietStageKeeps
<1>8. CASE upd.stage = "PROGRAMM"
  <2>1. SendVolume(1)
    BY <1>1, <1>8 DEF Proceed
  <2>2. 1 \in 1 .. Blocks + 1 /\ wire = <<>> /\ 1 = Len(wire) + 1
    BY <1>3, <1>8, EmptySeq DEF UpdateInv, StreamOK
  <2>3. GroupStages \subseteq reached
    BY <1>5, <1>8 DEF UpdateInv, ReachedOK, GroupStages
  <2> QED BY <1>1, <1>2, <1>4, <1>8, <2>1, <2>2, <2>3, SendVolumeKeeps
<1>9. CASE upd.stage = "VOLUME"
  <2>1. ~Underway /\ Len(wire) = upd.block /\ upd.block # 0
    BY <1>1, <1>9 DEF EventOK, UpdateInv, WaitsOK
  <2>2. GroupStages \subseteq reached
    BY <1>9 DEF UpdateInv, ReachedOK, GroupStages
  <2>3. \A i \in 1 .. Len(toController') : FALSE
    <3>1. Len(toController') = 0
      BY <1>1, <1>9
    <3>2. \A i \in 1 .. 0 : FALSE
      OBVIOUS
    <3> QED BY <3>1, <3>2
  <2>4. CASE upd.block <= Blocks /\ SendVolume(upd.block + 1)
    <3>1. upd.block + 1 \in 1 .. Blocks + 1 /\ upd.block + 1 = Len(wire) + 1
      BY <1>3, <2>1, <2>4
    <3> QED BY <1>2, <1>4, <2>1, <2>2, <2>3, <2>4, <3>1, SendVolumeKeeps
  <2>5. CASE /\ upd.block = Blocks + 1
             /\ upd' = Waiting(upd, "UPDATE") /\ Post(<<Exec(Zero, "UPDATE")>>) /\ UNCHANGED data
    BY <1>2, <1>4, <2>1, <2>2, <2>3, <2>5, NextStageKeeps
  <2> QED BY <1>1, <1>9, <2>4, <2>5 DEF Proceed
<1>10. CASE upd.stage = "UPDATE"
  <2>1. upd' = Waiting(upd, "CLEAN") /\ Post(<<Exec(Zero, "CLEAN")>>) /\ UNCHANGED data
    BY <1>1, <1>10 DEF Proceed
  <2>2. Len(wire) = Blocks + 1 /\ GroupStages \subseteq reached
    BY <1>10 DEF UpdateInv, StreamOK, ReachedOK, GroupStages
  <2>3. Private \cap {"UPDATE"} \subseteq reached
    BY <1>5, <1>10
  <2> QED BY <1>1, <1>2, <1>4, <1>10, <2>1, <2>2, <2>3, NextStageKeeps
<1>11. CASE upd.stage = "CLEAN"
  <2>1. /\ upd' = [upd EXCEPT !.stage = "off", !.conn = 0, !.verdict = "success"]
        /\ UNCHANGED <<toEngine, data>>
    BY <1>1, <1>11 DEF Proceed
  <2>2. upd' \in Update
    <3>1. "off" \in Stages
      BY DEF Stages
    <3> QED BY <1>3, <2>1, <3>1 DEF Update
  <2>3. /\ upd'.stage = "off" /\ upd'.conn = 0 /\ upd'.waits = upd.waits
        /\ upd'.block = upd.block /\ upd'.verdict = "success"
    BY <1>3, <2>1 DEF Update
  <2>4. EventsOK'
    BY <1>2, <1>3, <2>3, EarlierEvents
  <2>5. Len(wire) = Blocks + 1 /\ GroupStages \cup Private \subseteq reached
    BY <1>5, <1>11 DEF UpdateInv, StreamOK, ReachedOK, GroupStages, Private
  <2>6. ReachedOK'
    BY <2>3, <2>5 DEF ReachedOK
  <2>7. "off" \notin GroupStages
    BY DEF GroupStages
  <2> QED BY <1>1, <1>2, <1>4, <1>11, <2>1, <2>2, <2>3, <2>4, <2>6, <2>7, QuietStageKeeps
<1>12. upd.stage \in {"IS_YOU", "VERS", "PROGRAMM", "VOLUME", "UPDATE", "CLEAN"}
  BY <1>1, <1>3 DEF Update, Stages, GroupStages
<1> QED BY <1>6, <1>7, <1>8, <1>9, <1>10, <1>11, <1>12

LEMMA DeliverKeeps ==
  ASSUME UpdateInv, Deliver
  PROVE  UpdateInv'
<1> DEFINE ev == Head(toController)
<1>1. /\ Listening /\ toController # <<>> /\ toController' = Tail(toController)
      /\ UNCHANGED <<vars, foreign, wire, reached>>
      /\ \/ /\ ev.wait = upd.conn \/ (ev.stage = upd.stage /\ upd.stage \notin GroupStages)
            /\ IF ev.ok THEN Proceed(ev.stage, ev.mask) ELSE Abort
         \/ UNCHANGED <<upd, toEngine, data>>
  BY DEF Deliver, history
<1>2. /\ Len(toController') = Len(toController) - 1 /\ Len(toController) \in Nat
      /\ toController' \in Seq(Event)
      /\ \A i \in 1 .. Len(toController') : /\ i + 1 \in 1 .. Len(toController)
                                            /\ toController'[i] = toController[i + 1]
  BY <1>1, Delivered
<1>3. CASE /\ ev.wait = upd.conn \/ (ev.stage = upd.stage /\ upd.stage \notin GroupStages)
           /\ IF ev.ok THEN Proceed(ev.stage, ev.mask) ELSE Abort
  <2>1. PICK head : head = ev
    OBVIOUS
  <2>2. upd.stage \notin {"off", "parse"}
    BY <1>1, <1>3, <2>1, CurrentSignal
  <2>3. CASE ev.ok
    BY <1>1, <1>3, <2>1, <2>3, ProceedKeeps
  <2>4. CASE ~ev.ok
    <3>1. PICK k \in {0, 1} : k = 1
      OBVIOUS
    <3>2. /\ Len(toController') = Len(toController) - k
          /\ \A i \in 1 .. Len(toController') : toController'[i] = toController[i + k]
      BY <1>2, <3>1
    <3>3. Abort /\ toController' \in Seq(Event) /\ UNCHANGED <<vars, foreign, wire, reached>>
      BY <1>1, <1>2, <1>3, <2>4
    <3> QED BY <2>2, <3>2, <3>3, AbortKeeps
  <2> QED BY <2>3, <2>4
<1>4. CASE UNCHANGED <<upd, toEngine, data>>
  <2>1. AtRest' /\ eng' = eng
    BY <1>1, EngineRests DEF UpdateInv
  <2>2. Route' /\ (Underway' <=> Underway)
    BY <1>4, <2>1, NothingPosted DEF UpdateInv
  <2>3. WaitsOK' /\ ReachedOK'
    BY <1>1, <1>4 DEF UpdateInv, WaitsOK, ReachedOK
  <2>4. StreamOK'
    BY <1>1, <1>4, <2>2 DEF UpdateInv, StreamOK
  <2>5. EventsOK'
    <3>1. ASSUME NEW i \in 1 .. Len(toController') PROVE EventOK(toController[i])'
      <4>1. EventOK(toController[i + 1]) /\ toController'[i] = toController[i + 1]
        BY <1>2, <3>1, EventsAreOfWaits
      <4> QED BY <1>1, <1>4, <2>2, <4>1 DEF EventOK
    <3>2. ASSUME NEW i \in 1 .. Len(toController'), NEW j \in 1 .. Len(toController'), i < j
          PROVE  toController'[i].wait <= toController'[j].wait
      <4>1. i + 1 < j + 1
        BY <3>2
      <4>2. toController[i + 1].wait <= toController[j + 1].wait
        BY <1>2, <3>2, <4>1 DEF UpdateInv, EventsOK
      <4> QED BY <1>2, <3>2, <4>2
    <3>3. ASSUME NEW i \in 1 .. Len(toController'), NEW j \in 1 .. Len(toController'),
                 upd.stage = "VOLUME",
                 toController'[i].stage = "VOLUME", toController'[j].stage = "VOLUME"
          PROVE  i = j
      <4>1. i + 1 = j + 1
        BY <1>2, <3>3 DEF UpdateInv, EventsOK
      <4> QED BY <4>1
    <3> QED BY <1>4, <3>1, <3>2, <3>3 DEF EventsOK
  <2>6. UpdateTypeOK'
    BY <1>1, <1>2, <1>4 DEF UpdateInv, UpdateTypeOK
  <2> QED BY <2>1, <2>2, <2>3, <2>4, <2>5, <2>6 DEF UpdateInv
<1> QED BY <1>1, <1>3, <1>4


LEMMA UpdateStarts ==
  ASSUME UpdateInit
  PROVE  UpdateInv
<1>1. Init /\ toEngine = <<>> /\ toController = <<>> /\ wire = <<>> /\ reached = {}
  BY DEF UpdateInit
<1>2. /\ upd.stage = "off" /\ upd.conn = 0 /\ upd.block = 0 /\ upd.verdict = "none"
      /\ upd \in Update /\ data = 0 /\ foreign = 0
  BY UpdateAssumption DEF UpdateInit, Update, Stages
<1>3. Inv
  BY <1>1, InitInv
<1>4. /\ \A a \in Addr0 : eng.cur[a] = NoOp /\ eng.queues[a] = <<>>
      /\ eng.groups = {} /\ eng.pending = <<>>
  BY <1>1 DEF Init
<1>5. \A a \in Addr0 : eng.queues[a] \in Seq(Own[a])
  BY <1>4, EmptySeq
<1>6. AtRest
  BY <1>3, <1>4, <1>5 DEF AtRest, Queued, Calm, UpdatesGroups, InFlightAt, NoOp
<1>7. ~Holds(<<>>, VolumeCall) /\ Once(<<>>, VolumeCall) /\ <<>> \in Seq(OwnCalls)
  BY OneElement, EmptySeq
<1>8. ~Holds(<<>>, "VOLUME") /\ Once(<<>>, "VOLUME")
  BY OneElement
<1>9. Before(<<>>, VolumeCall, Clear(Zero))
  BY DEF Before
<1>10. eng.queues[Zero] = <<>>
  BY <1>4, OwnCommands
<1>11. Route /\ ~Underway
  BY <1>1, <1>7, <1>8, <1>9, <1>10 DEF Route, Underway
<1>12. WaitsOK
  BY <1>2 DEF WaitsOK, GroupStages
<1>13. EventsOK
  BY <1>1 DEF EventsOK
<1>14. Len(wire) = 0
  BY <1>1
<1>15. StreamOK
  BY <1>1, <1>2, <1>11, <1>14 DEF StreamOK
<1>16. ReachedOK
  BY <1>2 DEF ReachedOK
<1>17. UpdateTypeOK
  <2>1. /\ toEngine \in Seq(Call) /\ toController \in Seq(Event)
        /\ wire \in Seq(1 .. Blocks + 1)
    BY <1>1, EmptySeq
  <2>2. data \in 0 .. Blocks + 1
    BY <1>2, UpdateAssumption
  <2> QED BY <1>1, <1>2, <2>1, <2>2 DEF UpdateTypeOK
<1> QED BY <1>6, <1>11, <1>12, <1>13, <1>15, <1>16, <1>17 DEF UpdateInv

LEMMA UpdateSteps ==
  ASSUME UpdateInv, [UpdateNext]_allVars
  PROVE  UpdateInv'
<1>1. CASE \E sentOk \in BOOLEAN : Serve(sentOk)
  BY <1>1, SlotKeeps
<1>2. CASE EngineInternal
  BY <1>2, SlotKeeps
<1>3. CASE Start
  BY <1>3, StartKeeps
<1>4. CASE Begin
  BY <1>4, BeginKeeps
<1>5. CASE CallGroup
  BY <1>5, CallGroupKeeps
<1>6. CASE Deliver
  BY <1>6, DeliverKeeps
<1>7. CASE WaitTimeout
  BY <1>7, WaitTimeoutKeeps
<1>8. ASSUME NEW a \in Addr, NEW c \in AddrCmds, UserCommand(a, c)
      PROVE  UpdateInv'
  <2>1. a \in Addr0 /\ c \in Own[a] /\ c # "VOLUME"
    BY <1>8, OwnCommands DEF PPBOwn
  <2> QED BY <1>8, <2>1, UserCommandKeeps
<1>9. ASSUME NEW c \in ZeroCmds, UserCommand(Zero, c)
      PROVE  UpdateInv'
  <2>1. Zero \in Addr0 /\ c \in Own[Zero] /\ c # "VOLUME"
    BY <1>9, OwnCommands, UpdateAssumption DEF ZeroOwn
  <2> QED BY <1>9, <2>1, UserCommandKeeps
<1>10. CASE UNCHANGED allVars
  <2>1. /\ eng' = eng /\ calls' = calls /\ disconnects' = disconnects /\ clears' = clears
        /\ upd' = upd /\ foreign' = foreign /\ toEngine' = toEngine
        /\ toController' = toController /\ data' = data /\ wire' = wire /\ reached' = reached
    BY <1>10 DEF allVars, vars, link, history
  <2>2. AtRest'
    BY <2>1, EngineRests DEF UpdateInv, vars
  <2>3. Route' /\ (Underway' <=> Underway)
    BY <2>1, NothingPosted DEF UpdateInv
  <2>4. EventsOK'
    <3>1. ASSUME NEW i \in 1 .. Len(toController) PROVE EventOK(toController[i])'
      BY <2>1, <2>3, <3>1 DEF UpdateInv, EventsOK, EventOK
    <3> QED BY <2>1, <3>1 DEF UpdateInv, EventsOK
  <2>5. StreamOK'
    BY <2>1, <2>3 DEF UpdateInv, StreamOK
  <2>6. WaitsOK' /\ ReachedOK' /\ UpdateTypeOK'
    BY <2>1 DEF UpdateInv, WaitsOK, ReachedOK, UpdateTypeOK
  <2> QED BY <2>2, <2>3, <2>4, <2>5, <2>6 DEF UpdateInv
<1> QED BY <1>1, <1>2, <1>3, <1>4, <1>5, <1>6, <1>7, <1>8, <1>9, <1>10 DEF UpdateNext

(* The inductive invariant of the update: the engine is healthy, at most one *)
(* VOLUME is on its way and the data waits for it, every signal still to be  *)
(* delivered agrees with the stage, the blocks on the wire and the stages    *)
(* that have succeeded agree with where updateFirmware is.                   *)
THEOREM UpdateInvariance == UpdateSpec => []UpdateInv
<1>1. UpdateInit => UpdateInv
  BY UpdateStarts
<1>2. UpdateInv /\ [UpdateNext]_allVars => UpdateInv'
  BY UpdateSteps
<1> QED BY <1>1, <1>2, PTL DEF UpdateSpec

(* The state of updateFirmware, the calls and signals between the threads,   *)
(* and the histories keep their types.                                       *)
THEOREM UpdateTypes == UpdateSpec => []UpdateTypeOK
<1>1. UpdateInv => UpdateTypeOK
  BY DEF UpdateInv
<1> QED BY <1>1, UpdateInvariance, PTL

(* The update is a caller that Spec does not have: it sends UPDATE and CLEAN *)
(* to the bridge, clears queues and runs groups while the user's commands    *)
(* are still queued.  The engine is exact for it too: busy, the operations,  *)
(* the members of its groups and the wake-up of a waiting one.               *)
THEOREM EngineServesUpdates == UpdateSpec => []Inv
<1>1. UpdateInv => Inv
  BY DEF UpdateInv, AtRest
<1> QED BY <1>1, UpdateInvariance, PTL

(* The blocks leave in order, each once, and none that the VOLUME loop has   *)
(* not given out, in any number of updates, after aborts too.                *)
THEOREM BlocksLeaveInOrder == UpdateSpec => []BlocksInOrder
<1>1. UpdateInv => BlocksInOrder
  BY DEF UpdateInv, StreamOK, BlocksInOrder
<1> QED BY <1>1, UpdateInvariance, PTL

(* No VOLUME leaves before every target has confirmed VERS and PROGRAMM.     *)
THEOREM BootloadersFirst == UpdateSpec => []StreamAfterBootloader
<1>1. UpdateInv => StreamAfterBootloader
  BY DEF UpdateInv, StreamOK, StreamAfterBootloader
<1> QED BY <1>1, UpdateInvariance, PTL

(* updateFirmware tells the user of a success only when VERS and PROGRAMM    *)
(* have succeeded at every target, the whole image with the version has left *)
(* in order, and the bridge's UPDATE has succeeded, whatever users send:     *)
(* nobody else sends UPDATE.  Of CLEAN this is not said, because             *)
(* executeAndWait takes a user's for its own.                                *)
THEOREM SuccessIsOfWholeImage == UpdateSpec => []SuccessMeansSent
<1>1. ASSUME UpdateInv PROVE SuccessMeansSent
  <2> SUFFICES ASSUME upd.verdict = "success"
               PROVE  /\ GroupStages \cup {"UPDATE"} \subseteq reached
                      /\ wire = [i \in 1 .. Blocks + 1 |-> i]
    BY DEF SuccessMeansSent
  <2>1. "UPDATE" \in Private
    BY UpdateAssumption DEF Private
  <2>2. GroupStages \cup {"UPDATE"} \subseteq reached /\ Len(wire) = Blocks + 1
    BY <1>1, <2>1 DEF UpdateInv, ReachedOK
  <2>3. wire \in Seq(1 .. Blocks + 1) /\ \A i \in 1 .. Len(wire) : wire[i] = i
    BY <1>1 DEF UpdateInv, UpdateTypeOK, StreamOK
  <2>4. wire = [i \in 1 .. Len(wire) |-> wire[i]]
    BY <2>3
  <2> QED BY <2>2, <2>3, <2>4
<1> QED BY <1>1, UpdateInvariance, PTL


(* A new block's data is put in only when no VOLUME is on its way. *)
LEMMA NewDataIsAlone ==
  ASSUME UpdateInv, UpdateNext, data' # data, data' # 0
  PROVE  ~Underway
<1>1. ASSUME \E mask : EngineSlot(mask) PROVE FALSE
  BY <1>1 DEF EngineSlot, Streams
<1>2. ~(\E sentOk \in BOOLEAN : Serve(sentOk)) /\ ~EngineInternal
  BY <1>1 DEF Serve, EngineInternal
<1>3. ~Start /\ ~Begin /\ ~CallGroup /\ ~WaitTimeout
  BY DEF Start, Begin, CallGroup, WaitTimeout, Abort
<1>4. \A a, c : ~UserCommand(a, c)
  BY DEF UserCommand
<1>5. Deliver
  BY <1>2, <1>3, <1>4 DEF UpdateNext
<1> DEFINE ev == Head(toController)
<1>6. /\ Listening /\ toController # <<>> /\ toController' = Tail(toController)
      /\ ev.wait = upd.conn \/ (ev.stage = upd.stage /\ upd.stage \notin GroupStages)
      /\ ev.ok /\ Proceed(ev.stage, ev.mask)
  BY <1>5 DEF Deliver, Abort
<1>7. PICK head : head = ev
  OBVIOUS
<1>8. EventOK(ev) /\ ev.stage = upd.stage
  BY <1>6, <1>7, CurrentSignal
<1>9. ev.stage \in {"PROGRAMM", "VOLUME"}
  BY <1>6 DEF Proceed
<1>10. upd.stage = "PROGRAMM" => ~Underway
  BY DEF UpdateInv, StreamOK
<1> QED BY <1>8, <1>9, <1>10 DEF EventOK

(* The data of a block is never replaced while a VOLUME that would send it   *)
(* is posted to the engine or queued there.                                  *)
THEOREM BlockDataIsAlone == UpdateSpec => BlockDataHasOneUser
<1>1. ASSUME UpdateInv, [UpdateNext]_allVars
      PROVE  [data' # data /\ data' # 0 =>
                /\ \A i \in 1 .. Len(toEngine) : toEngine[i].cmd # "VOLUME"
                /\ \A i \in 1 .. Len(eng.queues[Zero]) : eng.queues[Zero][i] # "VOLUME"]_allVars
  <2> SUFFICES ASSUME UpdateNext, data' # data, data' # 0
               PROVE  /\ \A i \in 1 .. Len(toEngine) : toEngine[i].cmd # "VOLUME"
                      /\ \A i \in 1 .. Len(eng.queues[Zero]) : eng.queues[Zero][i] # "VOLUME"
    BY <1>1
  <2>1. ~Underway
    BY <1>1, NewDataIsAlone
  <2>2. ASSUME NEW i \in 1 .. Len(toEngine) PROVE toEngine[i].cmd # "VOLUME"
    <3>1. toEngine[i] \in OwnCalls
      BY <1>1, <2>2, ElementOfSeq DEF UpdateInv, Route
    <3>2. toEngine[i] # VolumeCall
      BY <2>1, <2>2 DEF Underway, Holds
    <3> QED BY <3>1, <3>2, OwnCallKinds
  <2> QED BY <2>1, <2>2 DEF Underway, Holds
<1> QED BY <1>1, UpdateInvariance, PTL DEF UpdateSpec, BlockDataHasOneUser


-----------------------------------------------------------------------------
(* The program as it is: the group signal does not reach the controller *)

(* The update gets no further than VERS, whose report nobody hears. *)
StopsAtVers ==
  /\ upd.stage \in {"off", "parse", "IS_YOU", "VERS"} /\ upd.verdict # "success"
  /\ \A i \in 1 .. Len(toController) : toController[i].stage = "IS_YOU"
  /\ "PROGRAMM" \notin reached

LEMMA SlotStopsAtVers ==
  ASSUME UpdateInv, StopsAtVers, ~GroupSignal, NEW mask \in Addr0 \cup {Other, None},
         EngineSlot(mask), eng' \in EngineState
  PROVE  StopsAtVers'
<1>1. /\ upd' = upd /\ Signals(mask) /\ Reaches
      /\ upd \in Update /\ toController \in Seq(Event) /\ WaitsOK
  BY DEF EngineSlot, UpdateInv, UpdateTypeOK
<1>2. PICK x \in Seq(Event) :
        /\ toController' = toController \o x
        /\ \A i \in 1 .. Len(x) : /\ upd.conn # 0 /\ x[i].stage = upd.stage /\ x[i].ok \in Heard(eng')
  BY <1>1, SignalsEffect
<1>3. \A i \in 1 .. Len(x) : x[i].stage = "IS_YOU"
  <2>1. upd.stage \in {"off", "parse"} => upd.conn = 0
    BY <1>1 DEF WaitsOK
  <2>2. upd.stage = "VERS" => Heard(eng') = {}
    BY DEF Heard, GroupStages
  <2> QED BY <1>2, <2>1, <2>2 DEF StopsAtVers
<1>4. \A i \in 1 .. Len(toController') : toController'[i].stage = "IS_YOU"
  <2>1. /\ Len(toController') = Len(toController) + Len(x)
        /\ \A i \in 1 .. Len(toController) + Len(x) :
             toController'[i] = IF i <= Len(toController) THEN toController[i]
                                ELSE x[i - Len(toController)]
    BY <1>1, <1>2, ConcatProperties
  <2>2. Len(toController) \in Nat /\ Len(x) \in Nat
    BY <1>1, LenProperties
  <2>3. ASSUME NEW i \in 1 .. Len(toController) + Len(x) PROVE toController'[i].stage = "IS_YOU"
    <3>1. CASE i <= Len(toController)
      <4>1. i \in 1 .. Len(toController) /\ toController'[i] = toController[i]
        BY <2>1, <2>2, <3>1
      <4> QED BY <4>1 DEF StopsAtVers
    <3>2. CASE ~(i <= Len(toController))
      <4>1. i - Len(toController) \in 1 .. Len(x) /\ toController'[i] = x[i - Len(toController)]
        BY <2>1, <2>2, <3>2
      <4> QED BY <1>3, <4>1
    <3> QED BY <3>1, <3>2
  <2> QED BY <2>1, <2>3
<1>5. reached' \subseteq reached \cup {upd.stage}
  BY <1>1 DEF Reaches
<1> QED BY <1>1, <1>4, <1>5 DEF StopsAtVers

LEMMA DeliverStopsAtVers ==
  ASSUME UpdateInv, StopsAtVers, Deliver
  PROVE  StopsAtVers'
<1> DEFINE ev == Head(toController)
<1>1. /\ Listening /\ toController # <<>> /\ toController' = Tail(toController) /\ reached' = reached
      /\ \/ /\ ev.wait = upd.conn \/ (ev.stage = upd.stage /\ upd.stage \notin GroupStages)
            /\ IF ev.ok THEN Proceed(ev.stage, ev.mask) ELSE Abort
         \/ ev.wait # upd.conn /\ upd' = upd
  BY DEF Deliver, history
<1>2. upd \in Update
  BY DEF UpdateInv, UpdateTypeOK
<1>3. /\ ev.stage = "IS_YOU"
      /\ \A i \in 1 .. Len(toController') : toController'[i].stage = "IS_YOU"
  BY <1>1, Delivered DEF StopsAtVers
<1>4. Abort => upd'.stage = "off" /\ upd'.verdict = "failed"
  BY <1>2 DEF Abort, Failed, Update
<1>5. ASSUME Proceed(ev.stage, ev.mask)
      PROVE  upd'.stage \in {"off", "VERS"} /\ upd'.verdict \in {"failed", upd.verdict}
  BY <1>2, <1>3, <1>5 DEF Proceed, Failed, Update
<1> QED BY <1>1, <1>3, <1>4, <1>5 DEF StopsAtVers

LEMMA StepStopsAtVers ==
  ASSUME UpdateInv, StopsAtVers, ~GroupSignal, [UpdateNext]_allVars, UpdateInv'
  PROVE  StopsAtVers'
<1>1. upd \in Update /\ eng' \in EngineState
  BY DEF UpdateInv, UpdateTypeOK, AtRest, Inv, Healthy, Sound
<1>2. CASE (\E sentOk \in BOOLEAN : Serve(sentOk)) \/ EngineInternal
  BY <1>1, <1>2, SlotOfEngine, SlotStopsAtVers
<1>3. CASE Start
  BY <1>1, <1>3 DEF Start, StopsAtVers, Update, link, history
<1>4. CASE Begin
  BY <1>1, <1>4 DEF Begin, Waiting, StopsAtVers, Update
<1>5. CASE CallGroup
  <2>1. /\ upd'.stage = upd.stage /\ upd'.verdict = upd.verdict
        /\ toController' = toController /\ reached' = reached
    BY <1>1, <1>5 DEF CallGroup, Waiting, Update, link, history
  <2> QED BY <2>1 DEF StopsAtVers
<1>6. CASE Deliver
  BY <1>6, DeliverStopsAtVers
<1>7. CASE WaitTimeout
  BY <1>1, <1>7 DEF WaitTimeout, Abort, Failed, StopsAtVers, Update, history
<1>8. ASSUME NEW a, NEW c, UserCommand(a, c) PROVE StopsAtVers'
  BY <1>8 DEF UserCommand, StopsAtVers, history
<1>9. CASE UNCHANGED allVars
  BY <1>9 DEF allVars, link, history, StopsAtVers
<1> QED BY <1>2, <1>3, <1>4, <1>5, <1>6, <1>7, <1>8, <1>9 DEF UpdateNext

(* In the program as it is, where updateFirmware connects to a signal that   *)
(* the facade does not emit, no update tells of a success and no block ever  *)
(* leaves: whatever the PPBs answer, the wait for VERS ends by its timer.    *)
THEOREM UpdatesStopAtVers ==
  ASSUME ~GroupSignal
  PROVE  UpdateSpec => [](upd.verdict # "success" /\ wire = <<>>)
<1>1. UpdateInit => StopsAtVers
  BY DEF UpdateInit, StopsAtVers
<1>2. UpdateInv /\ UpdateInv' /\ StopsAtVers /\ [UpdateNext]_allVars => StopsAtVers'
  BY StepStopsAtVers
<1>3. UpdateInv /\ StopsAtVers => upd.verdict # "success" /\ wire = <<>>
  BY DEF UpdateInv, StreamOK, StopsAtVers, GroupStages
<1> QED BY <1>1, <1>2, <1>3, UpdateInvariance, PTL DEF UpdateSpec
=============================================================================
