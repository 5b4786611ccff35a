---------------------------- MODULE EngineProofs ----------------------------
(***************************************************************************)
(* The invariants of Engine, for every set of PPBs and every bound.        *)
(*                                                                         *)
(* Healthy is the inductive invariant, as a predicate on an engine state.  *)
(* A slot passes through states that are not healthy (an operation is      *)
(* marked completed before its address leaves SendingCommand), so there is *)
(* one lemma for each private method that says which parts of Healthy it   *)
(* needs and which it restores; a slot is then a chain of lemmas.          *)
(***************************************************************************)
EXTENDS Engine, TLAPS

BusyOK(e) == e.busy <=> \E a \in Addr0 : Active(e, a)
SendingOK(e) == \A a \in Addr0 : e.states[a] = "Sending" => Active(e, a)
GroupsOK(e) ==
  \A g \in e.groups :
    /\ g.waiting # {}
    /\ \A a \in g.waiting : /\ e.states[a] = "Sending"
                            /\ e.cur[a] = [op |-> g.op, cmd |-> g.cmd]
PendingOK(e) == e.pending # <<>> => \E a \in Addr : e.states[a] = "Sending"

(* What holds in the middle of a slot too. *)
Sound(e) ==
  /\ e \in EngineState
  /\ BusyOK(e) /\ SendingOK(e) /\ GroupsOK(e)
  /\ \A k \in 1 .. Len(e.pending) : e.pending[k].mask # {}

Healthy(e) == Sound(e) /\ PendingOK(e)

Inv == Healthy(eng) /\ calls \in Nat /\ disconnects \in Nat /\ clears \in Nat

-----------------------------------------------------------------------------
(* A started operation is not the empty one. *)
LEMMA StartedIsActive ==
  ASSUME NEW n, NEW c \in Commands
  PROVE  [op |-> n, cmd |-> c] # NoOp
<1>1. c # None
  BY DEF Commands, DataCmds, AckCmds, PlainCmds, None
<1>2. [op |-> n, cmd |-> c].cmd = c /\ NoOp.cmd = None
  BY DEF NoOp
<1> QED BY <1>1, <1>2

(* StartAll on free addresses touches only those, and keeps the state sound. *)
LEMMA StartAllFields ==
  ASSUME NEW e \in EngineState, NEW f, DOMAIN f \subseteq Addr0, DOMAIN f # {},
         \A a \in DOMAIN f : f[a] \in Commands
  PROVE  LET s == StartAll(e, f)
         IN  /\ s \in EngineState
             /\ BusyOK(s)
             /\ s.groups = e.groups /\ s.pending = e.pending
             /\ \A a \in Addr0 :
                  /\ s.states[a] = IF a \in DOMAIN f THEN "Sending" ELSE e.states[a]
                  /\ s.cur[a] = IF a \in DOMAIN f THEN [op |-> e.nextOp, cmd |-> f[a]]
                                ELSE e.cur[a]
<1> DEFINE st == [a \in Addr0 |-> IF a \in DOMAIN f THEN "Sending" ELSE e.states[a]]
           cu == [a \in Addr0 |-> IF a \in DOMAIN f THEN [op |-> e.nextOp, cmd |-> f[a]]
                                  ELSE e.cur[a]]
           se == e.sent \cup {<<a, f[a]>> : a \in DOMAIN f}
           t  == [e EXCEPT !.states = st, !.cur = cu, !.sent = se, !.nextOp = @ + 1]
<1>1. st \in [Addr0 -> States]
  BY DEF EngineState, States
<1>2. cu \in [Addr0 -> Op]
  BY DEF EngineState, Op
<1>3. se \in SUBSET Requests
  BY DEF EngineState, Requests
<1> HIDE DEF st, cu, se
<1>4. StartAll(e, f) = [t EXCEPT !.busy = \E a \in Addr0 : Active(t, a)]
  BY DEF StartAll, UpdateBusy, st, cu, se
<1>5. e.nextOp + 1 \in Nat
  BY DEF EngineState
<1>6. /\ t \in EngineState
      /\ t.states = st /\ t.cur = cu /\ t.groups = e.groups /\ t.pending = e.pending
  BY <1>1, <1>2, <1>3, <1>5, Zenon DEF EngineState
<1> HIDE DEF t
<1>7. /\ StartAll(e, f) \in EngineState
      /\ StartAll(e, f).states = st /\ StartAll(e, f).cur = cu
      /\ StartAll(e, f).groups = e.groups /\ StartAll(e, f).pending = e.pending
      /\ StartAll(e, f).busy <=> \E a \in Addr0 : Active(t, a)
  BY <1>4, <1>6, Zenon DEF EngineState
<1>8. BusyOK(StartAll(e, f))
  BY <1>6, <1>7 DEF BusyOK, Active
<1> QED
  BY <1>7, <1>8 DEF st, cu

LEMMA StartAllSound ==
  ASSUME NEW e, Sound(e), NEW f, DOMAIN f \subseteq Addr0,
         \A a \in DOMAIN f : f[a] \in Commands /\ Free(e, a)
  PROVE  /\ Sound(StartAll(e, f))
         /\ PendingOK(e) => PendingOK(StartAll(e, f))
<1>1. CASE DOMAIN f = {}
  BY <1>1 DEF StartAll
<1>2. CASE DOMAIN f # {}
  <2> DEFINE s == StartAll(e, f)
  <2>1. /\ s \in EngineState /\ BusyOK(s)
        /\ s.groups = e.groups /\ s.pending = e.pending
        /\ \A a \in Addr0 :
             /\ s.states[a] = IF a \in DOMAIN f THEN "Sending" ELSE e.states[a]
             /\ s.cur[a] = IF a \in DOMAIN f THEN [op |-> e.nextOp, cmd |-> f[a]]
                           ELSE e.cur[a]
    BY <1>2, StartAllFields DEF Sound
  <2> HIDE DEF s
  <2>2. SendingOK(s)
    <3> SUFFICES ASSUME NEW a \in Addr0, s.states[a] = "Sending"
                 PROVE  s.cur[a] # NoOp
      BY DEF SendingOK, Active
    <3>1. CASE a \in DOMAIN f
      BY <2>1, <3>1, StartedIsActive
    <3>2. CASE a \notin DOMAIN f
      BY <2>1, <3>2 DEF Sound, SendingOK, Active
    <3> QED BY <3>1, <3>2
  <2>3. GroupsOK(s)
    <3> SUFFICES ASSUME NEW g \in e.groups
                 PROVE  /\ g.waiting # {}
                        /\ \A a \in g.waiting : /\ s.states[a] = "Sending"
                                                /\ s.cur[a] = [op |-> g.op, cmd |-> g.cmd]
      BY <2>1 DEF GroupsOK
    <3>1. g.waiting \subseteq Addr0
      BY DEF Sound, EngineState, Group, Addr0
    <3>2. \A a \in g.waiting : a \notin DOMAIN f
      BY DEF Sound, GroupsOK, Free
    <3> QED BY <2>1, <3>1, <3>2 DEF Sound, GroupsOK
  <2>4. PendingOK(e) => PendingOK(s)
    BY <2>1 DEF PendingOK, Addr0
  <2> QED BY <2>1, <2>2, <2>3, <2>4 DEF Sound, s
<1> QED BY <1>1, <1>2

(* The start of a group on free PPBs: its members are in SendingCommand, so  *)
(* whatever still waits has a completion to come.                            *)
LEMMA StartGroupHealthy ==
  ASSUME NEW e, Sound(e), NEW g \in PendingGroup, g.mask # {}, CanStart(e, g.mask)
  PROVE  Healthy(StartGroup(e, g))
<1> DEFINE new == [id |-> g.id, op |-> e.nextOp, cmd |-> g.cmd, waiting |-> g.mask, bad |-> {}]
           e2  == [e EXCEPT !.groups = @ \cup {new}]
           f   == [a \in g.mask |-> g.cmd]
           s   == StartAll(e2, f)
<1>1. /\ g.mask \subseteq Addr /\ g.cmd \in Commands /\ g.id \in Nat
      /\ e.nextOp \in Nat /\ e \in EngineState
  BY DEF PendingGroup, Sound, EngineState
<1>2. new \in Group
  BY <1>1 DEF Group
<1>3. /\ DOMAIN f = g.mask /\ DOMAIN f \subseteq Addr0 /\ DOMAIN f # {}
      /\ \A a \in DOMAIN f : f[a] = g.cmd /\ f[a] \in Commands
  BY <1>1 DEF Addr0
<1>4. e.groups \cup {new} \in SUBSET Group
  BY <1>1, <1>2 DEF EngineState
<1>5. /\ e2 \in EngineState
      /\ e2.groups = e.groups \cup {new} /\ e2.pending = e.pending
      /\ e2.states = e.states /\ e2.cur = e.cur /\ e2.nextOp = e.nextOp
  <2> HIDE DEF new
  <2> QED BY <1>1, <1>4, Zenon DEF EngineState
<1>6. StartGroup(e, g) = s
  BY DEF StartGroup
<1> HIDE DEF e2, f
<1>7. /\ s \in EngineState /\ BusyOK(s)
      /\ s.groups = e.groups \cup {new} /\ s.pending = e.pending
      /\ \A a \in Addr0 :
           /\ s.states[a] = IF a \in g.mask THEN "Sending" ELSE e.states[a]
           /\ s.cur[a] = IF a \in g.mask THEN [op |-> e.nextOp, cmd |-> g.cmd] ELSE e.cur[a]
  <2>1. /\ s \in EngineState /\ BusyOK(s)
        /\ s.groups = e2.groups /\ s.pending = e2.pending
        /\ \A a \in Addr0 :
             /\ s.states[a] = IF a \in DOMAIN f THEN "Sending" ELSE e2.states[a]
             /\ s.cur[a] = IF a \in DOMAIN f THEN [op |-> e2.nextOp, cmd |-> f[a]]
                           ELSE e2.cur[a]
    BY <1>3, <1>5, StartAllFields
  <2> HIDE DEF s
  <2> QED BY <1>3, <1>5, <2>1
<1> HIDE DEF s
<1>8. SendingOK(s)
  BY <1>1, <1>7, StartedIsActive DEF SendingOK, Active, Sound
<1>9. GroupsOK(s)
  <2>1. ASSUME NEW h \in e.groups
        PROVE  /\ h.waiting # {}
               /\ \A a \in h.waiting : /\ s.states[a] = "Sending"
                                       /\ s.cur[a] = [op |-> h.op, cmd |-> h.cmd]
    <3>1. h.waiting \subseteq Addr0
      BY <1>1 DEF EngineState, Group, Addr0
    <3>2. \A a \in h.waiting : a \notin g.mask
      BY DEF Sound, GroupsOK, CanStart, Free
    <3> QED BY <1>7, <3>1, <3>2 DEF Sound, GroupsOK
  <2>2. /\ new.waiting # {}
        /\ \A a \in new.waiting : /\ s.states[a] = "Sending"
                                  /\ s.cur[a] = [op |-> new.op, cmd |-> new.cmd]
    BY <1>1, <1>7 DEF Addr0
  <2> QED BY <1>7, <2>1, <2>2 DEF GroupsOK
<1>10. PendingOK(s)
  BY <1>1, <1>7 DEF PendingOK, Addr0
<1>11. \A k \in 1 .. Len(s.pending) : s.pending[k].mask # {}
  BY <1>7 DEF Sound
<1> QED
  BY <1>6, <1>7, <1>8, <1>9, <1>10, <1>11 DEF Healthy, Sound

(* After tryStartPendingGroupCommands a group waits only for a PPB that is   *)
(* in SendingCommand.                                                        *)
LEMMA TryStartHealthy ==
  ASSUME NEW e, Sound(e)
  PROVE  Healthy(TryStartPendingGroup(e))
<1>1. e \in EngineState /\ e.pending \in Seq(PendingGroup)
  BY DEF Sound, EngineState
<1>2. CASE e.pending = <<>>
  BY <1>2 DEF TryStartPendingGroup, Healthy, PendingOK
<1>3. CASE e.pending # <<>> /\ ~CanStart(e, Head(e.pending).mask)
  <2> DEFINE g == Head(e.pending)
  <2>1. g \in PendingGroup
    BY <1>1, <1>3
  <2>2. g.mask \subseteq Addr
    BY <2>1 DEF PendingGroup
  <2>3. \E a \in Addr : e.states[a] = "Sending"
    BY <1>1, <1>3, <2>2 DEF CanStart, Free, EngineState, States, Addr0
  <2> QED BY <1>3, <2>3 DEF TryStartPendingGroup, Healthy, PendingOK
<1>4. CASE e.pending # <<>> /\ CanStart(e, Head(e.pending).mask)
  <2> DEFINE g  == Head(e.pending)
             e2 == [e EXCEPT !.pending = Tail(@)]
  <2>1. g \in PendingGroup /\ g.mask # {} /\ Tail(e.pending) \in Seq(PendingGroup)
    BY <1>1, <1>4 DEF Sound
  <2>2. \A k \in 1 .. Len(Tail(e.pending)) : Tail(e.pending)[k].mask # {}
    BY <1>1, <1>4 DEF Sound
  <2>3. /\ e2 \in EngineState /\ e2.pending = Tail(e.pending)
        /\ e2.states = e.states /\ e2.cur = e.cur /\ e2.groups = e.groups /\ e2.busy = e.busy
    BY <1>1, <2>1, Zenon DEF EngineState
  <2>4. TryStartPendingGroup(e) = StartGroup(e2, g)
    BY <1>4 DEF TryStartPendingGroup
  <2> HIDE DEF e2, g
  <2>5. Sound(e2)
    BY <2>2, <2>3 DEF Sound, BusyOK, SendingOK, GroupsOK, Active
  <2>6. CanStart(e2, g.mask)
    BY <1>4, <2>3 DEF CanStart, Free, g
  <2> QED BY <2>1, <2>4, <2>5, <2>6, StartGroupHealthy
<1> QED BY <1>2, <1>3, <1>4

-----------------------------------------------------------------------------
(* completeOperation, step by step *)

LEMMA MarkDoneFields ==
  ASSUME NEW e \in EngineState, NEW a \in Addr0, NEW ok \in BOOLEAN, NEW cause \in Causes
  PROVE  LET m == MarkDone(e, a, ok, cause)
         IN  /\ m \in EngineState /\ BusyOK(m)
             /\ m.cur = [e.cur EXCEPT ![a] = NoOp]
             /\ m.states = e.states /\ m.groups = e.groups /\ m.pending = e.pending
<1> DEFINE r == [addr |-> a, op |-> e.cur[a].op, cmd |-> e.cur[a].cmd, ok |-> ok, cause |-> cause]
           cu == [e.cur EXCEPT ![a] = NoOp]
           do == e.done \cup {r}
           t == [e EXCEPT !.cur = cu, !.done = do]
<1>1. cu \in [Addr0 -> Op]
  BY DEF EngineState, Op, NoOp
<1>2. e.cur[a] \in Op
  BY DEF EngineState
<1>3. r \in Completion
  BY <1>2 DEF Op, Completion
<1>4. do \in SUBSET Completion
  BY <1>3 DEF EngineState
<1> HIDE DEF cu, do
<1>5. /\ t \in EngineState /\ t.cur = cu
      /\ t.states = e.states /\ t.groups = e.groups /\ t.pending = e.pending
  BY <1>1, <1>4, Zenon DEF EngineState
<1>6. MarkDone(e, a, ok, cause) = [t EXCEPT !.busy = \E x \in Addr0 : Active(t, x)]
  <2>1. t = [e EXCEPT !.cur[a] = NoOp, !.done = @ \cup {r}]
    BY DEF cu, do, EngineState
  <2> HIDE DEF t, r
  <2> QED BY <2>1 DEF MarkDone, UpdateBusy, r
<1> HIDE DEF t
<1>7. LET m == MarkDone(e, a, ok, cause)
      IN  /\ m \in EngineState /\ m.cur = cu /\ m.states = e.states
          /\ m.groups = e.groups /\ m.pending = e.pending
          /\ m.busy <=> \E x \in Addr0 : Active(t, x)
  BY <1>5, <1>6, Zenon DEF EngineState
<1>8. BusyOK(MarkDone(e, a, ok, cause))
  BY <1>5, <1>7 DEF BusyOK, Active
<1> QED BY <1>7, <1>8 DEF cu

LEMMA TransitionFields ==
  ASSUME NEW e \in EngineState, NEW a \in Addr0, NEW s \in States
  PROVE  LET t == Transition(e, a, s)
         IN  /\ t \in EngineState
             /\ t.states = [e.states EXCEPT ![a] = s]
             /\ t.cur = e.cur /\ t.groups = e.groups /\ t.pending = e.pending /\ t.busy = e.busy
<1>1. CASE e.states[a] = s
  BY <1>1 DEF Transition, EngineState
<1>2. CASE e.states[a] # s
  <2> DEFINE st == [e.states EXCEPT ![a] = s]
             po == IF s = "Ready" THEN e.posted \cup {a} ELSE e.posted
             t  == [e EXCEPT !.states = st, !.posted = po]
  <2>1. st \in [Addr0 -> States] /\ po \in SUBSET Addr0
    BY DEF EngineState
  <2>2. Transition(e, a, s) = t
    BY <1>2 DEF Transition, EngineState
  <2> HIDE DEF st, po
  <2>3. /\ t \in EngineState /\ t.states = st
        /\ t.cur = e.cur /\ t.groups = e.groups /\ t.pending = e.pending /\ t.busy = e.busy
    BY <2>1, Zenon DEF EngineState
  <2> QED BY <2>2, <2>3 DEF st
<1> QED BY <1>1, <1>2

(* The group loop leaves exactly the groups that still wait for somebody,    *)
(* none of them for the address that has completed.                          *)
LEMMA SettleGroupsFields ==
  ASSUME NEW e \in EngineState, NEW a \in Addr0, NEW ok \in BOOLEAN
  PROVE  LET s == SettleGroups(e, a, ok)
         IN  /\ s \in EngineState
             /\ s.states = e.states /\ s.cur = e.cur /\ s.pending = e.pending /\ s.busy = e.busy
             /\ \A h \in s.groups :
                  /\ h.waiting # {}
                  /\ \E g \in e.groups : /\ h.waiting = g.waiting \ {a}
                                         /\ h.op = g.op /\ h.cmd = g.cmd
<1> DEFINE settled == {MemberDone(g, a, ok) : g \in e.groups}
           over    == {g \in settled : g.waiting = {}}
           told    == {[id |-> g.id, op |-> g.op, ok |-> g.bad = {}] : g \in over}
           gr      == settled \ over
           re      == e.reports \cup told
           s       == [e EXCEPT !.groups = gr, !.reports = re]
<1>1. ASSUME NEW g \in Group
      PROVE  /\ MemberDone(g, a, ok) \in Group
             /\ MemberDone(g, a, ok).waiting = g.waiting \ {a}
             /\ MemberDone(g, a, ok).op = g.op /\ MemberDone(g, a, ok).cmd = g.cmd
  BY DEF MemberDone, Group
<1>2. e.groups \subseteq Group
  BY DEF EngineState
<1>3. gr \in SUBSET Group /\ over \subseteq Group
  BY <1>1, <1>2
<1>4. told \subseteq Report
  <2> SUFFICES ASSUME NEW g \in over
               PROVE  [id |-> g.id, op |-> g.op, ok |-> g.bad = {}] \in Report
    OBVIOUS
  <2>1. g.id \in Nat /\ g.op \in Nat
    BY <1>3 DEF Group
  <2> QED BY <2>1 DEF Report
<1>5. re \in SUBSET Report
  BY <1>4 DEF EngineState
<1>6. \A h \in gr : /\ h.waiting # {}
                    /\ \E g \in e.groups : /\ h.waiting = g.waiting \ {a}
                                           /\ h.op = g.op /\ h.cmd = g.cmd
  BY <1>1, <1>2
<1>7. SettleGroups(e, a, ok) = s
  BY DEF SettleGroups
<1> HIDE DEF gr, re
<1>8. /\ s \in EngineState /\ s.groups = gr
      /\ s.states = e.states /\ s.cur = e.cur /\ s.pending = e.pending /\ s.busy = e.busy
  BY <1>3, <1>5, Zenon DEF EngineState
<1> QED BY <1>6, <1>7, <1>8

(* completeOperation up to its last call, tryStartPendingGroupCommands. *)
Ended(e, a, ok, cause) ==
  SettleGroups(Transition(MarkDone(e, a, ok, cause), a, IF ok THEN "Ready" ELSE "Idle"), a, ok)

LEMMA CompleteIsEndedThenTryStart ==
  ASSUME NEW e, NEW a, NEW ok, NEW cause, Active(e, a)
  PROVE  Complete(e, a, ok, cause) = TryStartPendingGroup(Ended(e, a, ok, cause))
BY DEF Complete, Ended

LEMMA EndedSound ==
  ASSUME NEW e, Healthy(e), NEW a \in Addr0, NEW ok \in BOOLEAN, NEW cause \in Causes
  PROVE  Sound(Ended(e, a, ok, cause))
<1> DEFINE s == IF ok THEN "Ready" ELSE "Idle"
           m == MarkDone(e, a, ok, cause)
           t == Transition(m, a, s)
           u == SettleGroups(t, a, ok)
<1>1. e \in EngineState /\ Sound(e) /\ s \in States /\ s # "Sending"
  BY DEF Healthy, Sound, States
<1>2. /\ m \in EngineState /\ BusyOK(m)
      /\ m.cur = [e.cur EXCEPT ![a] = NoOp]
      /\ m.states = e.states /\ m.groups = e.groups /\ m.pending = e.pending
  BY <1>1, MarkDoneFields
<1> HIDE DEF m, s
<1>3. /\ t \in EngineState
      /\ t.states = [m.states EXCEPT ![a] = s]
      /\ t.cur = m.cur /\ t.groups = m.groups /\ t.pending = m.pending /\ t.busy = m.busy
  BY <1>1, <1>2, TransitionFields
<1> HIDE DEF t
<1>4. /\ u \in EngineState
      /\ u.states = t.states /\ u.cur = t.cur /\ u.pending = t.pending /\ u.busy = t.busy
      /\ \A h \in u.groups :
           /\ h.waiting # {}
           /\ \E g \in t.groups : /\ h.waiting = g.waiting \ {a}
                                  /\ h.op = g.op /\ h.cmd = g.cmd
  BY <1>3, SettleGroupsFields
<1>5. Ended(e, a, ok, cause) = u
  BY DEF Ended, m, t, s
<1> HIDE DEF u
<1>6. /\ e.cur \in [Addr0 -> Op] /\ e.states \in [Addr0 -> States]
      /\ e.groups \subseteq Group
  BY <1>1 DEF EngineState
<1>7. BusyOK(u)
  BY <1>2, <1>3, <1>4 DEF BusyOK, Active
<1>8. SendingOK(u)
  BY <1>1, <1>2, <1>3, <1>4, <1>6 DEF SendingOK, Active, Sound
<1>9. GroupsOK(u)
  <2> SUFFICES ASSUME NEW h \in u.groups
               PROVE  /\ h.waiting # {}
                      /\ \A x \in h.waiting : /\ u.states[x] = "Sending"
                                              /\ u.cur[x] = [op |-> h.op, cmd |-> h.cmd]
    BY DEF GroupsOK
  <2>1. PICK g \in e.groups : /\ h.waiting = g.waiting \ {a}
                              /\ h.op = g.op /\ h.cmd = g.cmd
    BY <1>2, <1>3, <1>4
  <2>2. g.waiting \subseteq Addr0
    BY <1>6 DEF Group, Addr0
  <2>3. \A x \in g.waiting : /\ e.states[x] = "Sending"
                             /\ e.cur[x] = [op |-> g.op, cmd |-> g.cmd]
    BY <1>1 DEF Sound, GroupsOK
  <2> QED BY <1>2, <1>3, <1>4, <1>6, <2>1, <2>2, <2>3
<1>10. Sound(u)
  BY <1>1, <1>2, <1>3, <1>4, <1>7, <1>8, <1>9 DEF Sound
<1> QED BY <1>5, <1>10

(* A completion keeps the engine healthy, whatever its outcome. *)
LEMMA CompleteHealthy ==
  ASSUME NEW e, Healthy(e), NEW a \in Addr0, NEW ok \in BOOLEAN, NEW cause \in Causes
  PROVE  Healthy(Complete(e, a, ok, cause))
<1>1. CASE ~Active(e, a)
  BY <1>1 DEF Complete
<1>2. CASE Active(e, a)
  BY <1>2, CompleteIsEndedThenTryStart, EndedSound, TryStartHealthy
<1> QED BY <1>1, <1>2

-----------------------------------------------------------------------------
(* The other private methods *)

(* Healthy does not see the queues, the posted calls, the signals and the    *)
(* requests sent, so what changes only those keeps it.                       *)
LEMMA UnseenHealthy ==
  ASSUME NEW e, Healthy(e), NEW t \in EngineState,
         t.states = e.states, t.cur = e.cur, t.groups = e.groups,
         t.pending = e.pending, t.busy = e.busy
  PROVE  Healthy(t)
BY DEF Healthy, Sound, BusyOK, SendingOK, GroupsOK, PendingOK, Active

LEMMA EnqueueHealthy ==
  ASSUME NEW e, Healthy(e), NEW a \in Addr0, NEW c \in Commands
  PROVE  Healthy(Enqueue(e, a, c))
<1> DEFINE q == [e.queues EXCEPT ![a] = Append(@, c)]
           t == [e EXCEPT !.queues = q]
<1>1. e \in EngineState
  BY DEF Healthy, Sound
<1>2. q \in [Addr0 -> Seq(Commands)]
  BY <1>1 DEF EngineState
<1>3. Enqueue(e, a, c) = t
  BY <1>1 DEF Enqueue, EngineState
<1> HIDE DEF q
<1>4. /\ t \in EngineState /\ t.states = e.states /\ t.cur = e.cur
      /\ t.groups = e.groups /\ t.pending = e.pending /\ t.busy = e.busy
  BY <1>1, <1>2, Zenon DEF EngineState
<1> HIDE DEF t
<1> QED BY <1>3, <1>4, UnseenHealthy

LEMMA ExecuteImmediatelyHealthy ==
  ASSUME NEW e, Healthy(e), NEW a \in Addr0, NEW c \in Commands, NEW sentOk \in BOOLEAN
  PROVE  Healthy(ExecuteImmediately(e, a, c, sentOk))
<1> DEFINE f == [x \in {a} |-> c]
<1>1. CASE ~Free(e, a)
  BY <1>1 DEF ExecuteImmediately
<1>2. CASE Free(e, a)
  <2>1. Healthy(StartAll(e, f))
    BY <1>2, StartAllSound DEF Healthy
  <2>2. Healthy(Complete(StartAll(e, f), a, sentOk, "local"))
    <3> HIDE DEF f
    <3>1. "local" \in Causes
      BY DEF Causes
    <3> QED BY <2>1, <3>1, CompleteHealthy
  <2> QED BY <1>2, <2>1, <2>2 DEF ExecuteImmediately
<1> QED BY <1>1, <1>2

LEMMA DequeueAndRunHealthy ==
  ASSUME NEW e, Healthy(e), NEW a \in Addr0, NEW sentOk \in BOOLEAN, e.queues[a] # <<>>
  PROVE  Healthy(DequeueAndRun(e, a, sentOk))
<1> DEFINE q == [e.queues EXCEPT ![a] = Tail(@)]
           t == [e EXCEPT !.queues = q]
<1>1. e \in EngineState
  BY DEF Healthy, Sound
<1>2. e.queues[a] \in Seq(Commands)
  BY <1>1 DEF EngineState
<1>3. Head(e.queues[a]) \in Commands /\ q \in [Addr0 -> Seq(Commands)]
  BY <1>1, <1>2 DEF EngineState
<1>4. DequeueAndRun(e, a, sentOk) = ExecuteImmediately(t, a, Head(e.queues[a]), sentOk)
  BY <1>1 DEF DequeueAndRun, EngineState
<1> HIDE DEF q
<1>5. /\ t \in EngineState /\ t.states = e.states /\ t.cur = e.cur
      /\ t.groups = e.groups /\ t.pending = e.pending /\ t.busy = e.busy
  BY <1>1, <1>3, Zenon DEF EngineState
<1> HIDE DEF t
<1>6. Healthy(t)
  BY <1>5, UnseenHealthy
<1> QED BY <1>3, <1>4, <1>6, ExecuteImmediatelyHealthy

(* An answer that may be taken for an FU completion has an address the       *)
(* engine knows, or none; only masks and the letters ERR have any other.     *)
LEMMA InFlightPackets ==
  ASSUME eng \in EngineState, NEW p \in InFlight
  PROVE  /\ p.addr \in Addr0 \cup {Other}
         /\ p.form \in {"ok4", "err4"} => p.addr \in Addr0
<1>1. PICK r \in eng.sent : p \in RepliesTo(r[1], r[2])
  BY DEF InFlight
<1> DEFINE a == r[1]
           c == r[2]
<1>2. a \in Addr0 /\ c \in Commands \cup {"FU"} /\ p \in RepliesTo(a, c)
  BY <1>1 DEF EngineState, Requests
<1> HIDE DEF a, c
<1>3. \A form, addr, echo : /\ Packet(form, addr, echo).form = form
                           /\ Packet(form, addr, echo).addr = addr
  BY DEF Packet
<1>4. CASE c \in DataCmds \cup {"PRBS_S2M", "DROP"}
  <2>1. c \notin PlainCmds /\ c \notin {"VOLUME", "IS_YOU", "FU"}
    BY <1>4 DEF DataCmds, PlainCmds
  <2>2. p \in {Packet("data", a, None), Packet("junk", a, None)} \cup Refusals(a)
    BY <1>2, <1>4, <2>1 DEF RepliesTo
  <2> QED BY <1>2, <1>3, <2>2 DEF Refusals
<1>5. CASE c \notin DataCmds \cup {"PRBS_S2M", "DROP"}
  <2>1. CASE c \in PlainCmds
    <3>1. p \in {Packet("ok4", a, c), Packet("ok3", a, None)} \cup Refusals(a)
      BY <1>2, <1>5, <2>1 DEF RepliesTo, PlainCmds
    <3> QED BY <1>2, <1>3, <3>1 DEF Refusals
  <2>2. CASE c = "VOLUME"
    <3>1. c \notin PlainCmds /\ c # "IS_YOU" /\ c # "FU"
      BY <2>2 DEF PlainCmds
    <3>2. p \in {Packet("ok4", a, c)}
      BY <1>2, <1>5, <2>2, <3>1 DEF RepliesTo
    <3> QED BY <1>2, <1>3, <3>2
  <2>3. CASE c = "IS_YOU"
    <3>1. c \notin PlainCmds /\ c # "VOLUME" /\ c # "FU"
      BY <2>3 DEF PlainCmds
    <3>2. p \in MaskPackets \cup {Packet("ERR", Other, None)}
      BY <1>2, <1>5, <2>3, <3>1 DEF RepliesTo
    <3>3. p.form \in {"mask2", "ERR"} /\ p.addr \in Addr0 \cup {Other}
      BY <1>3, <3>2 DEF MaskPackets, Addr0
    <3> QED BY <3>3
  <2>4. CASE c = "FU"
    <3>1. c \notin PlainCmds /\ c # "VOLUME" /\ c # "IS_YOU"
      BY <2>4 DEF PlainCmds
    <3>2. p \in {Packet("ok4", a, "TC"), Packet("ok4", a, "TS"), Packet("err4", a, None)}
      BY <1>2, <1>5, <2>4, <3>1 DEF RepliesTo
    <3> QED BY <1>2, <1>3, <3>2
  <2> QED BY <1>2, <1>5, <2>1, <2>2, <2>3, <2>4 DEF Commands, AckCmds
<1> QED
  BY <1>4, <1>5

LEMMA OnActiveHealthy ==
  ASSUME NEW e, Healthy(e), NEW p, p.addr \in Addr0, NEW stale
  PROVE  Healthy(OnActive(e, p, stale))
<1> DEFINE a == p.addr
           c == e.cur[a].cmd
<1>1. Causes = {"ok", "data", "error", "bridge", "timeout", "local"}
  BY DEF Causes
<1>2. \A ok \in BOOLEAN, cause \in Causes : Healthy(Complete(e, a, ok, cause))
  BY CompleteHealthy
<1>3. Healthy(OnOk(e, a))
  BY <1>1, <1>2, CompleteHealthy DEF OnOk
<1>4. \A good \in BOOLEAN : Healthy(OnPrbsData(e, a, good, stale))
  <2> TAKE good \in BOOLEAN
  <2> DEFINE first == Complete(e, a, good, "data")
  <2>1. Healthy(first)
    BY <1>1, <1>2
  <2> HIDE DEF first
  <2>2. \A ok \in BOOLEAN : Healthy(Complete(first, a, ok, "data"))
    BY <1>1, <2>1, CompleteHealthy
  <2>3. FALSE \in BOOLEAN /\ (stale = "success") \in BOOLEAN
    OBVIOUS
  <2> QED BY <2>1, <2>2, <2>3 DEF OnPrbsData, first
<1>5. Healthy(OnData(e, a, p.form = "data", stale))
  <2>1. Healthy(Complete(e, a, p.form = "data" \/ e.cur[a].cmd \in PlainCmds, "data"))
    BY <1>1, <1>2
  <2>2. Healthy(OnPrbsData(e, a, p.form = "data", stale))
    BY <1>4
  <2> QED BY <2>1, <2>2 DEF OnData
<1>6. /\ Healthy(Complete(e, a, p.form = "mask2", "bridge"))
      /\ Healthy(Complete(e, a, FALSE, "bridge"))
      /\ Healthy(Complete(e, a, FALSE, "error"))
  BY <1>1, <1>2
<1> QED BY <1>3, <1>5, <1>6 DEF OnActive

LEMMA OnIdleHealthy ==
  ASSUME NEW e, Healthy(e), NEW p, p.form \in {"ok4", "err4"} => p.addr \in Addr0
  PROVE  Healthy(OnIdle(e, p))
<1> DEFINE b == IF p.form \in {"mask2", "ERR"} THEN Zero ELSE p.addr
           t == [e EXCEPT !.fu = @ \cup {b}]
<1>1. CASE ~IsBridgeResponse(p)
  BY <1>1 DEF OnIdle
<1>2. CASE IsBridgeResponse(p)
  <2>1. b \in Addr0 /\ e \in EngineState
    BY <1>2 DEF IsBridgeResponse, Addr0, Healthy, Sound
  <2> HIDE DEF b
  <2>2. e.fu \cup {b} \in SUBSET Addr0
    BY <2>1 DEF EngineState
  <2>3. /\ t \in EngineState /\ t.states = e.states /\ t.cur = e.cur
        /\ t.groups = e.groups /\ t.pending = e.pending /\ t.busy = e.busy
    BY <2>1, <2>2, Zenon DEF EngineState
  <2>4. Healthy(t)
    BY <2>3, UnseenHealthy
  <2>5. Healthy(Complete(e, b, p.form = "mask2" /\ e.cur[b].cmd = "IS_YOU", "bridge"))
    <3>1. "bridge" \in Causes /\ (p.form = "mask2" /\ e.cur[b].cmd = "IS_YOU") \in BOOLEAN
      BY DEF Causes
    <3> QED BY <2>1, <3>1, CompleteHealthy
  <2> QED BY <1>2, <2>4, <2>5 DEF OnIdle, b
<1> QED BY <1>1, <1>2

-----------------------------------------------------------------------------
(* The slots *)

LEMMA SlotHealthy ==
  ASSUME Healthy(eng)
  PROVE  /\ Healthy(Slot)
         /\ Slot.states = eng.states /\ Slot.cur = eng.cur /\ Slot.queues = eng.queues
         /\ Slot.groups = eng.groups /\ Slot.pending = eng.pending /\ Slot.busy = eng.busy
         /\ Slot.nextGroup = eng.nextGroup /\ Slot.sent = eng.sent /\ Slot.posted = eng.posted
<1>1. eng \in EngineState
  BY DEF Healthy, Sound
<1>2. {} \in SUBSET Completion /\ {} \in SUBSET Report /\ {} \in SUBSET Addr0
  OBVIOUS
<1>3. /\ Slot \in EngineState
      /\ Slot.states = eng.states /\ Slot.cur = eng.cur /\ Slot.queues = eng.queues
      /\ Slot.groups = eng.groups /\ Slot.pending = eng.pending /\ Slot.busy = eng.busy
      /\ Slot.nextGroup = eng.nextGroup /\ Slot.sent = eng.sent /\ Slot.posted = eng.posted
  BY <1>1, <1>2, Zenon DEF EngineState, Slot
<1> QED BY <1>3, UnseenHealthy

LEMMA ExecuteGroupCommandHealthy ==
  ASSUME Healthy(eng), NEW c \in Commands, NEW mask \in SUBSET Addr, mask # {},
         ExecuteGroupCommand(c, mask)
  PROVE  Healthy(eng')
<1> DEFINE g  == [id |-> Slot.nextGroup, cmd |-> c, mask |-> mask]
           e  == [Slot EXCEPT !.nextGroup = @ + 1]
           pe == Append(e.pending, g)
           t  == [e EXCEPT !.pending = pe]
<1>1. Healthy(Slot) /\ Slot \in EngineState /\ Slot.nextGroup + 1 \in Nat
  BY SlotHealthy DEF Healthy, Sound, EngineState
<1>2. g \in PendingGroup /\ g.mask = mask /\ g.mask # {}
  BY <1>1, ConstantsAssumption DEF PendingGroup, EngineState
<1>3. /\ e \in EngineState /\ e.states = Slot.states /\ e.cur = Slot.cur
      /\ e.groups = Slot.groups /\ e.pending = Slot.pending /\ e.busy = Slot.busy
  BY <1>1, Zenon DEF EngineState
<1>4. eng' = IF CanStart(e, mask) THEN StartGroup(e, g) ELSE t
  BY DEF ExecuteGroupCommand
<1> HIDE DEF e, g
<1>5. Healthy(e)
  BY <1>1, <1>3, UnseenHealthy
<1>6. CASE CanStart(e, mask)
  BY <1>2, <1>4, <1>5, <1>6, StartGroupHealthy DEF Healthy
<1>7. CASE ~CanStart(e, mask)
  <2>1. e.pending \in Seq(PendingGroup)
    BY <1>3 DEF EngineState
  <2>2. pe \in Seq(PendingGroup)
    BY <1>2, <2>1
  <2>3. \A k \in 1 .. Len(pe) : pe[k].mask # {}
    <3>1. \A k \in 1 .. Len(pe) : pe[k] = g \/ (k \in 1 .. Len(e.pending) /\ pe[k] = e.pending[k])
      BY <1>2, <2>1
    <3> QED BY <1>2, <1>5, <3>1 DEF Healthy, Sound
  <2> HIDE DEF pe
  <2>4. /\ t \in EngineState /\ t.pending = pe /\ t.states = e.states /\ t.cur = e.cur
        /\ t.groups = e.groups /\ t.busy = e.busy
    BY <1>3, <2>2, Zenon DEF EngineState
  <2>5. \E a \in Addr : e.states[a] = "Sending"
    BY <1>3, <1>7 DEF CanStart, Free, EngineState, States, Addr0
  <2> QED
    BY <1>4, <1>5, <1>7, <2>3, <2>4, <2>5
    DEF Healthy, Sound, BusyOK, SendingOK, GroupsOK, PendingOK, Active
<1> QED BY <1>6, <1>7

LEMMA DisconnectHealthy ==
  ASSUME Healthy(eng), Disconnect
  PROVE  Healthy(eng')
<1> DEFINE qu == [a \in Addr0 |-> <<>>]
           st == [a \in Addr0 |-> "Idle"]
           t  == [Slot EXCEPT !.queues = qu, !.pending = <<>>, !.groups = {}, !.states = st]
<1>1. Healthy(Slot) /\ Slot \in EngineState
  BY SlotHealthy DEF Healthy, Sound
<1>2. qu \in [Addr0 -> Seq(Commands)] /\ st \in [Addr0 -> States]
  BY DEF States
<1>3. <<>> \in Seq(PendingGroup) /\ {} \in SUBSET Group
  OBVIOUS
<1>4. \A a \in Addr0 : st[a] # "Sending"
  OBVIOUS
<1>5. eng' = t
  BY DEF Disconnect
<1> HIDE DEF qu, st
<1>6. /\ t \in EngineState /\ t.pending = <<>> /\ t.groups = {} /\ t.states = st
      /\ t.cur = Slot.cur /\ t.busy = Slot.busy
  BY <1>1, <1>2, <1>3, Zenon DEF EngineState
<1> HIDE DEF t
<1> QED
  BY <1>1, <1>4, <1>5, <1>6
  DEF Healthy, Sound, BusyOK, SendingOK, GroupsOK, PendingOK, Active

LEMMA ProcessCommandQueueHealthy ==
  ASSUME Healthy(eng), NEW sentOk \in BOOLEAN, ProcessCommandQueue(sentOk)
  PROVE  Healthy(eng')
<1> DEFINE e     == IF Runnable(Slot, Zero) THEN DequeueAndRun(Slot, Zero, sentOk) ELSE Slot
           heads == {a \in Addr : Runnable(e, a)}
           qu    == [a \in Addr0 |-> IF a \in heads THEN Tail(e.queues[a]) ELSE e.queues[a]]
           t     == [e EXCEPT !.queues = qu]
           f     == [a \in heads |-> Head(e.queues[a])]
<1>1. eng' = StartAll(t, f)
  BY DEF ProcessCommandQueue
<1>2. Healthy(e)
  BY SlotHealthy, DequeueAndRunHealthy DEF Runnable, Addr0
<1> HIDE DEF e
<1>3. e \in EngineState
  BY <1>2 DEF Healthy, Sound
<1>4. \A a \in heads : /\ a \in Addr0 /\ Free(e, a)
                       /\ Head(e.queues[a]) \in Commands /\ Tail(e.queues[a]) \in Seq(Commands)
  <2> SUFFICES ASSUME NEW a \in heads
               PROVE  /\ a \in Addr0 /\ Free(e, a)
                      /\ Head(e.queues[a]) \in Commands /\ Tail(e.queues[a]) \in Seq(Commands)
    OBVIOUS
  <2>1. a \in Addr0 /\ Free(e, a) /\ e.queues[a] # <<>>
    BY DEF Runnable, Addr0
  <2>2. e.queues[a] \in Seq(Commands)
    BY <1>3, <2>1 DEF EngineState
  <2> QED BY <2>1, <2>2
<1> HIDE DEF heads
<1>5. qu \in [Addr0 -> Seq(Commands)]
  BY <1>3, <1>4 DEF EngineState
<1> HIDE DEF qu
<1>6. /\ t \in EngineState /\ t.states = e.states /\ t.cur = e.cur
      /\ t.groups = e.groups /\ t.pending = e.pending /\ t.busy = e.busy
  BY <1>3, <1>5, Zenon DEF EngineState
<1> HIDE DEF t
<1>7. Healthy(t)
  BY <1>2, <1>6, UnseenHealthy
<1>8. DOMAIN f \subseteq Addr0 /\ \A a \in DOMAIN f : f[a] \in Commands /\ Free(t, a)
  BY <1>4, <1>6 DEF Free
<1> HIDE DEF f
<1> QED BY <1>1, <1>7, <1>8, StartAllSound DEF Healthy

LEMMA ProcessNextHealthy ==
  ASSUME Healthy(eng), NEW a \in Addr0, NEW sentOk \in BOOLEAN,
         ProcessNextCommandForAddress(a, sentOk)
  PROVE  Healthy(eng')
<1> DEFINE po == Slot.posted \ {a}
           t  == [Slot EXCEPT !.posted = po]
<1>1. Healthy(Slot) /\ Slot \in EngineState
  BY SlotHealthy DEF Healthy, Sound
<1>2. po \in SUBSET Addr0
  BY <1>1 DEF EngineState
<1>3. eng' = IF t.states[a] = "Ready" /\ t.queues[a] # <<>> THEN DequeueAndRun(t, a, sentOk) ELSE t
  BY DEF ProcessNextCommandForAddress
<1> HIDE DEF po
<1>4. /\ t \in EngineState /\ t.states = Slot.states /\ t.cur = Slot.cur
      /\ t.groups = Slot.groups /\ t.pending = Slot.pending /\ t.busy = Slot.busy
  BY <1>1, <1>2, Zenon DEF EngineState
<1> HIDE DEF t
<1>5. Healthy(t)
  BY <1>1, <1>4, UnseenHealthy
<1> QED BY <1>3, <1>5, DequeueAndRunHealthy

-----------------------------------------------------------------------------
LEMMA InitInv == Init => Inv
<1> SUFFICES ASSUME Init PROVE Inv
  OBVIOUS
<1>1. eng \in EngineState
  <2>1. NoOp \in Op /\ "Idle" \in States
    BY DEF NoOp, Op, States
  <2>2. /\ [a \in Addr0 |-> "Idle"] \in [Addr0 -> States]
        /\ [a \in Addr0 |-> NoOp] \in [Addr0 -> Op]
        /\ [a \in Addr0 |-> <<>>] \in [Addr0 -> Seq(Commands)]
        /\ <<>> \in Seq(PendingGroup) /\ 1 \in Nat
    BY <2>1
  <2> QED BY <2>2 DEF Init, EngineState
<1>2. /\ eng.pending = <<>> /\ eng.groups = {} /\ eng.busy = FALSE
      /\ \A a \in Addr0 : eng.states[a] = "Idle" /\ eng.cur[a] = NoOp
  BY DEF Init
<1> QED
  BY <1>1, <1>2 DEF Init, Inv, Healthy, Sound, BusyOK, SendingOK, GroupsOK, PendingOK, Active

LEMMA StepInv == Inv /\ [Next]_vars => Inv'
<1> SUFFICES ASSUME Inv, [Next]_vars PROVE Inv'
  OBVIOUS
<1>1. Healthy(eng) /\ Healthy(Slot)
  BY SlotHealthy DEF Inv
<1>2. calls' \in Nat /\ disconnects' \in Nat /\ clears' \in Nat
  <2>1. /\ \A a : ConnectToPPB(a) => Submit
        /\ \A a, c, sentOk : ExecuteCommand(a, c, sentOk) => Submit
        /\ \A c, mask : ExecuteGroupCommand(c, mask) => Submit
        /\ \A a : SendFU(a) => Internal
        /\ \A p, stale : OnDatagram(p, stale) => Internal
        /\ \A a : OnOperationTimeout(a) => Internal
        /\ \A sentOk : ProcessCommandQueue(sentOk) => Internal
        /\ \A a, sentOk : ProcessNextCommandForAddress(a, sentOk) => Internal
    BY Zenon DEF ConnectToPPB, ExecuteCommand, ExecuteGroupCommand, SendFU, OnDatagram,
         OnOperationTimeout, ProcessCommandQueue, ProcessNextCommandForAddress
  <2>2. Submit \/ Internal \/ Disconnect \/ (\E a \in Addr0 : ClearCommandQueue(a)) \/ UNCHANGED vars
    BY <2>1, Zenon DEF Next
  <2>3. calls \in Nat /\ disconnects \in Nat /\ clears \in Nat
    BY DEF Inv
  <2>4. /\ calls + 1 \in Nat /\ disconnects + 1 \in Nat /\ clears + 1 \in Nat
    BY <2>3
  <2>5. Disconnect => disconnects' = disconnects + 1 /\ calls' = calls /\ clears' = clears
    BY DEF Disconnect
  <2>6. \A a : ClearCommandQueue(a) => clears' = clears + 1 /\ UNCHANGED <<calls, disconnects>>
    BY DEF ClearCommandQueue
  <2>7. CASE Submit
    BY <2>3, <2>4, <2>7 DEF Submit
  <2>8. CASE Internal
    BY <2>3, <2>8 DEF Internal
  <2>9. CASE Disconnect
    BY <2>3, <2>4, <2>5, <2>9
  <2>10. CASE \E a \in Addr0 : ClearCommandQueue(a)
    BY <2>3, <2>4, <2>6, <2>10
  <2>11. CASE UNCHANGED vars
    BY <2>3, <2>11 DEF vars
  <2> QED BY <2>2, <2>7, <2>8, <2>9, <2>10, <2>11
<1>3. Healthy(eng')
  <2>1. ASSUME NEW a \in Addr, ConnectToPPB(a) PROVE Healthy(eng')
    <3>1. "TS" \in Commands /\ a \in Addr0
      BY DEF Commands, DataCmds, Addr0
    <3> QED BY <1>1, <2>1, <3>1, EnqueueHealthy DEF ConnectToPPB
  <2>2. ASSUME NEW a \in Addr0, NEW c \in Commands, NEW sentOk \in BOOLEAN,
               ExecuteCommand(a, c, sentOk)
        PROVE  Healthy(eng')
    BY <1>1, <2>2, EnqueueHealthy, ExecuteImmediatelyHealthy DEF ExecuteCommand
  <2>3. ASSUME NEW c \in GroupCmds, NEW mask \in (SUBSET Addr) \ {{}}, ExecuteGroupCommand(c, mask)
        PROVE  Healthy(eng')
    BY <1>1, <2>3, ExecuteGroupCommandHealthy, ConstantsAssumption
  <2>4. ASSUME NEW a \in Addr, SendFU(a) PROVE Healthy(eng')
    <3> DEFINE se == Slot.sent \cup {<<a, "FU">>}
               t  == [Slot EXCEPT !.sent = se]
    <3>1. Slot \in EngineState
      BY <1>1 DEF Healthy, Sound
    <3>2. se \in SUBSET Requests
      BY <3>1 DEF EngineState, Requests, Addr0
    <3>3. eng' = t
      BY <2>4 DEF SendFU
    <3> HIDE DEF se
    <3>4. /\ t \in EngineState /\ t.states = Slot.states /\ t.cur = Slot.cur
          /\ t.groups = Slot.groups /\ t.pending = Slot.pending /\ t.busy = Slot.busy
      BY <3>1, <3>2, Zenon DEF EngineState
    <3> HIDE DEF t
    <3> QED BY <1>1, <3>3, <3>4, UnseenHealthy
  <2>5. ASSUME Disconnect PROVE Healthy(eng')
    BY <1>1, <2>5, DisconnectHealthy
  <2>6. ASSUME NEW a \in Addr0, ClearCommandQueue(a) PROVE Healthy(eng')
    <3> DEFINE qu == [Slot.queues EXCEPT ![a] = <<>>]
               t  == [Slot EXCEPT !.queues = qu]
    <3>1. Slot \in EngineState
      BY <1>1 DEF Healthy, Sound
    <3>2. qu \in [Addr0 -> Seq(Commands)]
      BY <3>1 DEF EngineState
    <3>3. eng' = t
      BY <2>6, <3>1 DEF ClearCommandQueue, EngineState
    <3> HIDE DEF qu
    <3>4. /\ t \in EngineState /\ t.states = Slot.states /\ t.cur = Slot.cur
          /\ t.groups = Slot.groups /\ t.pending = Slot.pending /\ t.busy = Slot.busy
      BY <3>1, <3>2, Zenon DEF EngineState
    <3> HIDE DEF t
    <3> QED BY <1>1, <3>3, <3>4, UnseenHealthy
  <2>7. ASSUME NEW p \in InFlight, NEW stale, OnDatagram(p, stale) PROVE Healthy(eng')
    <3>1. p.form \in {"ok4", "err4"} => p.addr \in Addr0
      BY <1>1, InFlightPackets DEF Healthy, Sound
    <3>2. Healthy(OnIdle(Slot, p))
      BY <1>1, <3>1, OnIdleHealthy
    <3>3. p.addr \in Addr0 => Healthy(OnActive(Slot, p, stale))
      BY <1>1, OnActiveHealthy
    <3> QED BY <2>7, <3>2, <3>3 DEF OnDatagram
  <2>8. ASSUME NEW a \in Addr0, OnOperationTimeout(a) PROVE Healthy(eng')
    <3>1. "timeout" \in Causes /\ FALSE \in BOOLEAN
      BY DEF Causes
    <3> QED BY <1>1, <2>8, <3>1, CompleteHealthy DEF OnOperationTimeout
  <2>9. ASSUME NEW sentOk \in BOOLEAN, ProcessCommandQueue(sentOk) PROVE Healthy(eng')
    BY <1>1, <2>9, ProcessCommandQueueHealthy
  <2>10. ASSUME NEW a \in Addr0, NEW sentOk \in BOOLEAN, ProcessNextCommandForAddress(a, sentOk)
         PROVE  Healthy(eng')
    BY <1>1, <2>10, ProcessNextHealthy
  <2>11. CASE UNCHANGED vars
    BY <1>1, <2>11 DEF vars, Healthy, Sound, BusyOK, SendingOK, GroupsOK, PendingOK, Active
  <2>12. Addr \subseteq Addr0 /\ Zero \in Addr0 /\ AddrCmds \subseteq Commands
         /\ ZeroCmds \subseteq Commands /\ TRUE \in BOOLEAN
    BY ConstantsAssumption DEF Addr0, Commands
  <2> QED
    BY <2>1, <2>2, <2>3, <2>4, <2>5, <2>6, <2>7, <2>8, <2>9, <2>10, <2>11, <2>12 DEF Next
<1> QED
  BY <1>2, <1>3 DEF Inv, Healthy, Sound, BusyOK, SendingOK, GroupsOK, PendingOK, Active

(* Healthy holds in every reachable state. *)
THEOREM Invariance == Spec => []Inv
  BY InitInv, StepInv, PTL DEF Spec

(* The engine's state has its type in every reachable state. *)
THEOREM TypeCorrect == Spec => []TypeOK
<1>1. Inv => TypeOK
  BY DEF Inv, Healthy, Sound, TypeOK
<1> QED BY <1>1, Invariance, PTL

(* m_busy is set exactly while an operation is not completed. *)
THEOREM BusyCorrect == Spec => []BusyIsExact
<1>1. Inv => BusyIsExact
  BY DEF Inv, Healthy, Sound, BusyOK, BusyIsExact
<1> QED BY <1>1, Invariance, PTL

(* No address is in SendingCommand without an operation that will end. *)
THEOREM NoWedgedAddress == Spec => []SendingHasOperation
<1>1. Inv => SendingHasOperation
  BY DEF Inv, Healthy, Sound, SendingOK, SendingHasOperation
<1> QED BY <1>1, Invariance, PTL

(* A group waits only for operations of its own. *)
THEOREM GroupsWaitForTheirOwn == Spec => []GroupMembersInFlight
<1>1. Inv => GroupMembersInFlight
  BY DEF Inv, Healthy, Sound, GroupsOK, GroupMembersInFlight
<1> QED BY <1>1, Invariance, PTL

(* While a group command waits to start, a completion is still to come. *)
THEOREM NoLostWakeup == Spec => []PendingGroupHasWakeup
<1>1. Inv => PendingGroupHasWakeup
  BY DEF Inv, Healthy, PendingOK, PendingGroupHasWakeup
<1> QED BY <1>1, Invariance, PTL
=============================================================================
