------------------------- MODULE EngineGroupsProofs -------------------------
(***************************************************************************)
(* The engine implements GroupService, for every set of PPBs and every     *)
(* bound: each step of BookSpec is a step of the service or a stutter, and *)
(* only disconnect() drops a group.                                        *)
(*                                                                         *)
(* Tracks is what ties the entry w of group i, as it stood when the slot   *)
(* began, to a state e inside the slot.  The states that are tied to w     *)
(* form a set that the private methods do not leave, so SlotStays carries  *)
(* the tie to the end of the slot; there Written turns w into the next     *)
(* entry.                                                                  *)
(***************************************************************************)
EXTENDS EngineGroups, EngineStepProofs

(* What has been reported of operation n *)
Mine(e, n) == {r \in e.done : r.op = n}
Answered(R) == {r.addr : r \in R}
Failed(R) == {r.addr : r \in {x \in R : ~x.ok}}

NotPending(p, i) == \A k \in DOMAIN p : p[k].id # i
PendingOnce(p, i, m) ==
  \E k \in DOMAIN p : /\ p[k].id = i /\ p[k].mask = m
                      /\ \A l \in DOMAIN p : p[l].id = i => l = k

NotRunning(e, i) == \A g \in e.groups : g.id # i
NotReported(e, i) == \A r \in e.reports : r.id # i

(* The group command waits to be started. *)
Waits(w, i, e) ==
  /\ PendingOnce(e.pending, i, w.mask) /\ NotRunning(e, i) /\ NotReported(e, i)
  /\ w.mask # {} /\ w.op = 0 /\ w.answered = {} /\ w.bad = {}

(* Its group g is outstanding: it waits for the members that have not        *)
(* completed, and these are the only ones with an operation of its number.   *)
Runs(w, i, e, g) ==
  /\ g \in e.groups /\ g.id = i /\ \A h \in e.groups : h.id = i => h = g
  /\ NotPending(e.pending, i) /\ NotReported(e, i)
  /\ 0 < g.op /\ g.op < e.nextOp /\ w.op \in {0, g.op}
  /\ Answered(Mine(e, g.op)) \subseteq w.mask \ w.answered
  /\ g.waiting = (w.mask \ w.answered) \ Answered(Mine(e, g.op))
  /\ g.bad = w.bad \cup Failed(Mine(e, g.op))
  /\ \A a \in Addr0 : e.cur[a].op = g.op => a \in g.waiting

(* Its report r is given in this slot. *)
Ends(w, i, e, r) ==
  /\ r \in e.reports /\ r.id = i /\ \A q \in e.reports : q.id = i => q = r
  /\ NotPending(e.pending, i) /\ NotRunning(e, i)
  /\ 0 < r.op /\ r.op < e.nextOp /\ w.op \in {0, r.op}
  /\ Answered(Mine(e, r.op)) # {}
  /\ Answered(Mine(e, r.op)) = w.mask \ w.answered
  /\ r.ok <=> w.bad \cup Failed(Mine(e, r.op)) = {}
  /\ \A a \in Addr0 : e.cur[a].op # r.op

(* It was reported in an earlier slot. *)
IsOver(w, i, e) ==
  /\ NotPending(e.pending, i) /\ NotRunning(e, i) /\ NotReported(e, i)
  /\ 0 < w.op /\ w.op < e.nextOp
  /\ Mine(e, w.op) = {} /\ \A a \in Addr0 : e.cur[a].op # w.op

Tracks(w, i, e) ==
  /\ w.status = "new" => i >= e.nextGroup
  /\ w.status # "new" => i < e.nextGroup
  /\ w.status = "open" => \/ Waits(w, i, e)
                          \/ \E g \in e.groups : Runs(w, i, e, g)
                          \/ \E r \in e.reports : Ends(w, i, e, r)
  /\ w.status \in {"ok", "failed"} => IsOver(w, i, e)

(* Groups are numbered in the order of their acceptance. *)
GroupsNumbered(e) ==
  /\ \A g \in e.groups : g.id < e.nextGroup
  /\ \A k \in DOMAIN e.pending : e.pending[k].id < e.nextGroup
  /\ \A r \in e.reports : r.id < e.nextGroup

BookEntry ==
  [status : {"new", "open", "ok", "failed", "dropped"}, op : Nat,
   mask : SUBSET Addr, answered : SUBSET Addr, bad : SUBSET Addr]

EntryOK(w) ==
  /\ w \in BookEntry
  /\ w.status = "new" => w = Entry
  /\ w.answered \subseteq w.mask /\ w.bad \subseteq w.answered

BookInv ==
  /\ StepInvariant /\ GroupsNumbered(Slot)
  /\ book \in [Ids -> BookEntry]
  /\ \A i \in Ids : EntryOK(book[i]) /\ Tracks(book[i], i, Slot)

-----------------------------------------------------------------------------
(* What a completion adds to the answers of a group *)

LEMMA AnswersGrow ==
  ASSUME NEW R, NEW r
  PROVE  /\ Answered(R \cup {r}) = Answered(R) \cup {r.addr}
         /\ r.ok => Failed(R \cup {r}) = Failed(R)
         /\ ~r.ok => Failed(R \cup {r}) = Failed(R) \cup {r.addr}
         /\ Failed(R) \subseteq Answered(R)
<1>1. Answered(R \cup {r}) = Answered(R) \cup {r.addr}
  BY DEF Answered
<1>2. r.ok => Failed(R \cup {r}) = Failed(R)
  BY DEF Failed
<1>3. ~r.ok => Failed(R \cup {r}) = Failed(R) \cup {r.addr}
  BY DEF Failed
<1>4. Failed(R) \subseteq Answered(R)
  BY DEF Failed, Answered
<1> QED BY <1>1, <1>2, <1>3, <1>4

(* The waiting groups, when one is added or the first is taken. *)
LEMMA PendingHead ==
  ASSUME NEW p \in Seq(PendingGroup), p # <<>>, NEW i
  PROVE  /\ NotPending(p, i) => NotPending(Tail(p), i) /\ Head(p).id # i
         /\ \A m : PendingOnce(p, i, m) /\ Head(p).id = i
                     => Head(p).mask = m /\ NotPending(Tail(p), i)
         /\ \A m : PendingOnce(p, i, m) /\ Head(p).id # i => PendingOnce(Tail(p), i, m)
<1>1. /\ Head(p) = p[1] /\ 1 \in DOMAIN p
      /\ DOMAIN p = 1 .. Len(p) /\ Len(p) \in Nat /\ Len(p) > 0
      /\ DOMAIN Tail(p) = 1 .. (Len(p) - 1)
      /\ \A k \in DOMAIN Tail(p) : Tail(p)[k] = p[k + 1] /\ k + 1 \in DOMAIN p /\ k + 1 # 1
  OBVIOUS
<1>2. NotPending(p, i) => NotPending(Tail(p), i) /\ Head(p).id # i
  BY <1>1 DEF NotPending
<1>3. ASSUME NEW m, PendingOnce(p, i, m), Head(p).id = i
      PROVE  Head(p).mask = m /\ NotPending(Tail(p), i)
  <2>1. PICK k \in DOMAIN p : /\ p[k].id = i /\ p[k].mask = m
                             /\ \A l \in DOMAIN p : p[l].id = i => l = k
    BY <1>3 DEF PendingOnce
  <2>2. k = 1
    BY <1>1, <1>3, <2>1
  <2> QED BY <1>1, <2>1, <2>2 DEF NotPending
<1>4. ASSUME NEW m, PendingOnce(p, i, m), Head(p).id # i
      PROVE  PendingOnce(Tail(p), i, m)
  <2>1. PICK k \in DOMAIN p : /\ p[k].id = i /\ p[k].mask = m
                             /\ \A l \in DOMAIN p : p[l].id = i => l = k
    BY <1>4 DEF PendingOnce
  <2>2. k # 1
    BY <1>1, <1>4, <2>1
  <2>3. k - 1 \in DOMAIN Tail(p) /\ Tail(p)[k - 1] = p[k]
    BY <1>1, <2>1, <2>2
  <2>4. \A l \in DOMAIN Tail(p) : Tail(p)[l].id = i => l = k - 1
    <3> TAKE l \in DOMAIN Tail(p)
    <3>1. Tail(p)[l] = p[l + 1] /\ l + 1 \in DOMAIN p
      BY <1>1
    <3>2. p[l + 1].id = i => l + 1 = k
      BY <2>1, <3>1
    <3> QED BY <1>1, <2>1, <3>1, <3>2
  <2> QED BY <2>1, <2>3, <2>4 DEF PendingOnce
<1> QED BY <1>2, <1>3, <1>4

LEMMA PendingAppend ==
  ASSUME NEW p \in Seq(PendingGroup), NEW g \in PendingGroup, NEW i
  PROVE  /\ g.id # i /\ NotPending(p, i) => NotPending(Append(p, g), i)
         /\ \A m : g.id # i /\ PendingOnce(p, i, m) => PendingOnce(Append(p, g), i, m)
         /\ g.id = i /\ NotPending(p, i) => PendingOnce(Append(p, g), i, g.mask)
<1> DEFINE q == Append(p, g)
<1>1. /\ DOMAIN p = 1 .. Len(p) /\ DOMAIN q = 1 .. (Len(p) + 1) /\ Len(p) \in Nat
      /\ q[Len(p) + 1] = g /\ \A k \in DOMAIN p : q[k] = p[k]
  OBVIOUS
<1> HIDE DEF q
<1>2. /\ \A k \in DOMAIN q : k = Len(p) + 1 \/ (k \in DOMAIN p /\ q[k] = p[k])
      /\ \A k \in DOMAIN p : k \in DOMAIN q
      /\ Len(p) + 1 \in DOMAIN q
  BY <1>1
<1>3. g.id # i /\ NotPending(p, i) => NotPending(q, i)
  BY <1>1, <1>2 DEF NotPending
<1>4. ASSUME NEW m, g.id # i, PendingOnce(p, i, m) PROVE PendingOnce(q, i, m)
  <2>1. PICK k \in DOMAIN p : /\ p[k].id = i /\ p[k].mask = m
                             /\ \A l \in DOMAIN p : p[l].id = i => l = k
    BY <1>4 DEF PendingOnce
  <2>2. k \in DOMAIN q /\ q[k] = p[k]
    BY <1>1, <1>2
  <2>3. \A l \in DOMAIN q : q[l].id = i => l = k
    BY <1>1, <1>2, <1>4, <2>1
  <2> QED BY <2>1, <2>2, <2>3 DEF PendingOnce
<1>5. g.id = i /\ NotPending(p, i) => PendingOnce(q, i, g.mask)
  <2> SUFFICES ASSUME g.id = i, NotPending(p, i) PROVE PendingOnce(q, i, g.mask)
    OBVIOUS
  <2>1. \A l \in DOMAIN q : q[l].id = i => l = Len(p) + 1
    BY <1>2 DEF NotPending
  <2>2. q[Len(p) + 1].id = i /\ q[Len(p) + 1].mask = g.mask
    BY <1>1
  <2> QED BY <1>2, <2>1, <2>2 DEF PendingOnce
<1> QED BY <1>3, <1>4, <1>5 DEF q

-----------------------------------------------------------------------------
(* The tie, method by method *)

(* What starts operations, but none of group i. *)
LEMMA OthersTrack ==
  ASSUME NEW e \in EngineState, NEW s \in EngineState, NEW w \in BookEntry, NEW i, Tracks(w, i, e),
         i < s.nextGroup <=> i < e.nextGroup, i >= s.nextGroup <=> i >= e.nextGroup,
         e.nextOp <= s.nextOp,
         s.done = e.done, s.reports = e.reports,
         \A g : g.id = i => (g \in s.groups <=> g \in e.groups),
         NotPending(e.pending, i) => NotPending(s.pending, i),
         \A m : PendingOnce(e.pending, i, m) => PendingOnce(s.pending, i, m),
         \A a \in Addr0 : s.cur[a] = e.cur[a] \/ s.cur[a].op >= e.nextOp
  PROVE  Tracks(w, i, s)
<1>1. /\ e.nextOp \in Nat /\ s.nextOp \in Nat
      /\ \A a \in Addr0 : s.cur[a].op \in Nat
      /\ \A g \in e.groups : g.op \in Nat
      /\ \A r \in e.reports : r.op \in Nat
      /\ w.op \in Nat
  BY DEF EngineState, Op, Group, Report, BookEntry
<1>2. NotRunning(e, i) => NotRunning(s, i)
  BY DEF NotRunning
<1>3. NotReported(e, i) => NotReported(s, i)
  BY DEF NotReported
<1>4. \A n : Mine(s, n) = Mine(e, n)
  BY DEF Mine
<1>5. \A n \in Nat : n < e.nextOp => \A a \in Addr0 : s.cur[a].op = n => e.cur[a].op = n
  BY <1>1
<1>6. Waits(w, i, e) => Waits(w, i, s)
  BY <1>2, <1>3 DEF Waits
<1>7. ASSUME NEW g \in e.groups, Runs(w, i, e, g) PROVE g \in s.groups /\ Runs(w, i, s, g)
  <2>1. /\ g.id = i /\ g.op \in Nat /\ 0 < g.op /\ g.op < e.nextOp /\ w.op \in {0, g.op}
        /\ \A h \in e.groups : h.id = i => h = g
        /\ NotPending(e.pending, i) /\ NotReported(e, i)
        /\ Answered(Mine(e, g.op)) \subseteq w.mask \ w.answered
        /\ g.waiting = (w.mask \ w.answered) \ Answered(Mine(e, g.op))
        /\ g.bad = w.bad \cup Failed(Mine(e, g.op))
        /\ \A a \in Addr0 : e.cur[a].op = g.op => a \in g.waiting
    BY <1>1, <1>7 DEF Runs
  <2>2. g \in s.groups /\ \A h \in s.groups : h.id = i => h = g
    BY <2>1
  <2>3. \A a \in Addr0 : s.cur[a].op = g.op => a \in g.waiting
    BY <1>5, <2>1
  <2>4. g.op < s.nextOp
    BY <1>1, <2>1
  <2> QED BY <1>3, <1>4, <2>1, <2>2, <2>3, <2>4 DEF Runs
<1>8. ASSUME NEW r \in e.reports, Ends(w, i, e, r) PROVE r \in s.reports /\ Ends(w, i, s, r)
  <2>1. /\ r.id = i /\ r.op \in Nat /\ 0 < r.op /\ r.op < e.nextOp
        /\ \A a \in Addr0 : e.cur[a].op # r.op
    BY <1>1, <1>8 DEF Ends
  <2>2. \A a \in Addr0 : s.cur[a].op # r.op
    BY <1>5, <2>1
  <2>3. r.op < s.nextOp
    BY <1>1, <2>1
  <2> QED BY <1>2, <1>4, <1>8, <2>2, <2>3 DEF Ends
<1>9. ASSUME IsOver(w, i, e) PROVE IsOver(w, i, s)
  <2>1. 0 < w.op /\ w.op < e.nextOp /\ \A a \in Addr0 : e.cur[a].op # w.op
    BY <1>9 DEF IsOver
  <2>2. \A a \in Addr0 : s.cur[a].op # w.op
    BY <1>1, <1>5, <2>1
  <2>3. w.op < s.nextOp
    BY <1>1, <2>1
  <2> QED BY <1>2, <1>3, <1>4, <1>9, <2>2, <2>3 DEF IsOver
<1> QED BY <1>6, <1>7, <1>8, <1>9 DEF Tracks

(* The start of group i itself: nothing has been reported of its number.     *)
LEMMA StartedTracks ==
  ASSUME NEW e \in EngineState, NEW s \in EngineState, NEW w \in BookEntry, NEW i \in Nat,
         Waits(w, i, e), During(Slot, e),
         NEW h \in PendingGroup, h.id = i, h.mask = w.mask,
         s.groups = e.groups \cup {NewGroup(e, h)}, NotPending(s.pending, i),
         s.nextOp = e.nextOp + 1, s.done = e.done, s.reports = e.reports,
         \A a \in Addr0 : a \notin h.mask => s.cur[a] = e.cur[a]
  PROVE  Runs(w, i, s, NewGroup(e, h))
<1> DEFINE g == NewGroup(e, h)
<1>1. g.id = i /\ g.op = e.nextOp /\ g.waiting = w.mask /\ g.bad = {}
  BY DEF NewGroup
<1> HIDE DEF g
<1>2. /\ e.nextOp \in Nat /\ 0 < e.nextOp /\ NoOp.op = 0
      /\ \A r \in e.done : r.op < e.nextOp /\ r.op \in Nat
      /\ \A a \in Addr0 : e.cur[a].op \in Nat
  BY DEF During, Numbered, EngineState, Completion, Op, NoOp
<1>3. \A a \in Addr0 : e.cur[a].op # e.nextOp
  <2> TAKE a \in Addr0
  <2>1. CASE Active(e, a)
    BY <1>2, <2>1 DEF During, Numbered
  <2>2. CASE e.cur[a] = NoOp
    BY <1>2, <2>2
  <2> QED BY <2>1, <2>2 DEF Active
<1>4. /\ g \in s.groups /\ \A x \in s.groups : x.id = i => x = g
      /\ NotReported(s, i)
  BY DEF Waits, NotRunning, NotReported, g
<1>5. Mine(s, g.op) = {}
  BY <1>1, <1>2 DEF Mine
<1>6. Answered(Mine(s, g.op)) = {} /\ Failed(Mine(s, g.op)) = {}
  BY <1>5 DEF Answered, Failed
<1>7. /\ w.op = 0 /\ w.answered = {} /\ w.bad = {}
  BY DEF Waits
<1>8. \A a \in Addr0 : s.cur[a].op = g.op => a \in g.waiting
  <2> SUFFICES ASSUME NEW a \in Addr0, a \notin w.mask PROVE s.cur[a].op # g.op
    BY <1>1
  <2> QED BY <1>1, <1>3
<1>9. 0 < g.op /\ g.op < s.nextOp
  BY <1>1, <1>2
<1>10. Runs(w, i, s, g)
  BY <1>1, <1>4, <1>6, <1>7, <1>8, <1>9 DEF Runs
<1> QED BY <1>10 DEF g

LEMMA TryStartTracks ==
  ASSUME NEW e, Sound(e), NEW w \in BookEntry, NEW i \in Nat,
         Tracks(w, i, e), During(Slot, e), GroupsNumbered(e)
  PROVE  LET s == TryStartPendingGroup(e)
         IN  Tracks(w, i, s) /\ GroupsNumbered(s)
<1> DEFINE s == TryStartPendingGroup(e)
           h == Head(e.pending)
<1>1. CASE s = e
  BY <1>1
<1>2. CASE s # e
  <2>1. /\ e.pending # <<>>
        /\ s.groups = e.groups \cup {NewGroup(e, h)}
        /\ \A a \in Addr0 : s.cur[a] = IF a \in h.mask THEN [op |-> e.nextOp, cmd |-> h.cmd]
                                       ELSE e.cur[a]
        /\ s.nextOp = e.nextOp + 1 /\ s.nextGroup = e.nextGroup
        /\ s.done = e.done /\ s.reports = e.reports
        /\ s.pending = Tail(e.pending)
    BY <1>2, TryStartFields
  <2>2. /\ e \in EngineState /\ s \in EngineState /\ e.nextOp \in Nat
        /\ e.pending \in Seq(PendingGroup)
    BY TryStartHealthy DEF Healthy, Sound, EngineState
  <2>3. h \in PendingGroup
    BY <2>1, HeadOfPending
  <2> HIDE DEF s
  <2>4. /\ NotPending(e.pending, i) => NotPending(s.pending, i) /\ h.id # i
        /\ \A m : PendingOnce(e.pending, i, m) /\ h.id = i
                    => h.mask = m /\ NotPending(s.pending, i)
        /\ \A m : PendingOnce(e.pending, i, m) /\ h.id # i => PendingOnce(s.pending, i, m)
    <3> DEFINE p == e.pending
    <3>1. p \in Seq(PendingGroup) /\ p # <<>> /\ s.pending = Tail(p) /\ h = Head(p)
      BY <2>1, <2>2
    <3> HIDE DEF p, h
    <3>2. /\ NotPending(p, i) => NotPending(Tail(p), i) /\ Head(p).id # i
          /\ \A m : PendingOnce(p, i, m) /\ Head(p).id = i
                      => Head(p).mask = m /\ NotPending(Tail(p), i)
          /\ \A m : PendingOnce(p, i, m) /\ Head(p).id # i => PendingOnce(Tail(p), i, m)
      BY <3>1, PendingHead
    <3> QED BY <3>1, <3>2, Zenon DEF p
  <2>5. \A a \in Addr0 : a \notin h.mask => s.cur[a] = e.cur[a]
    BY <2>1
  <2>6. \A a \in Addr0 : s.cur[a] = e.cur[a] \/ s.cur[a].op >= e.nextOp
    <3> TAKE a \in Addr0
    <3>1. CASE a \in h.mask
      <4>1. s.cur[a].op = e.nextOp
        BY <2>1, <3>1
      <4> QED BY <2>2, <4>1
    <3>2. CASE a \notin h.mask
      BY <2>5, <3>2
    <3> QED BY <3>1, <3>2
  <2>7. NewGroup(e, h).id = h.id
    BY DEF NewGroup
  <2>8. GroupsNumbered(s)
    <3>1. /\ 1 \in DOMAIN e.pending /\ h = e.pending[1]
          /\ \A k \in DOMAIN Tail(e.pending) :
               Tail(e.pending)[k] = e.pending[k + 1] /\ k + 1 \in DOMAIN e.pending
      BY <2>1, <2>2
    <3>2. h.id < e.nextGroup
      BY <3>1 DEF GroupsNumbered
    <3>3. \A g \in s.groups : g.id < s.nextGroup
      BY <2>1, <2>7, <3>2 DEF GroupsNumbered
    <3>4. \A k \in DOMAIN s.pending : s.pending[k].id < s.nextGroup
      BY <2>1, <3>1 DEF GroupsNumbered
    <3>5. \A r \in s.reports : r.id < s.nextGroup
      BY <2>1 DEF GroupsNumbered
    <3> QED BY <3>3, <3>4, <3>5 DEF GroupsNumbered
  <2> HIDE DEF h
  <2>9. CASE h.id # i
    <3>1. \A g : g.id = i => (g \in s.groups <=> g \in e.groups)
      BY <2>1, <2>7, <2>9
    <3>2. e.nextOp <= s.nextOp
      BY <2>1, <2>2
    <3>3. NotPending(e.pending, i) => NotPending(s.pending, i)
      BY <2>4
    <3>4. \A m : PendingOnce(e.pending, i, m) => PendingOnce(s.pending, i, m)
      BY <2>4, <2>9
    <3>5. Tracks(w, i, s)
      BY <2>1, <2>2, <2>6, <3>1, <3>2, <3>3, <3>4, OthersTrack
    <3> QED BY <2>8, <3>5 DEF s
  <2>10. CASE h.id = i
    <3>1. ~NotPending(e.pending, i)
      BY <2>4, <2>10
    <3>2. w.status \notin {"ok", "failed"}
      BY <3>1 DEF Tracks, IsOver
    <3>3. CASE w.status = "open"
      <4>1. Waits(w, i, e)
        BY <3>1, <3>3 DEF Tracks, Runs, Ends
      <4>2. h.mask = w.mask /\ NotPending(s.pending, i)
        BY <2>4, <2>10, <4>1 DEF Waits
      <4>3. Runs(w, i, s, NewGroup(e, h))
        BY <2>1, <2>2, <2>3, <2>5, <2>10, <4>1, <4>2, StartedTracks
      <4>4. NewGroup(e, h) \in s.groups
        BY <2>1
      <4>5. Tracks(w, i, s)
        BY <2>1, <3>3, <4>3, <4>4 DEF Tracks
      <4> QED BY <2>8, <4>5 DEF s
    <3>4. CASE w.status \notin {"open", "ok", "failed"}
      <4>1. Tracks(w, i, s)
        BY <2>1, <3>4 DEF Tracks
      <4> QED BY <2>8, <4>1 DEF s
    <3> QED BY <3>2, <3>3, <3>4
  <2> QED BY <2>9, <2>10
<1> QED BY <1>1, <1>2

(* The end of an operation, as the groups see it *)
LEMMA MemberDoneFields ==
  ASSUME NEW g \in Group, NEW a, NEW ok \in BOOLEAN
  PROVE  LET h == MemberDone(g, a, ok)
         IN  /\ h.id = g.id /\ h.op = g.op /\ h.waiting = g.waiting \ {a}
             /\ a \notin g.waiting => h = g
             /\ a \in g.waiting /\ ok => h.bad = g.bad
             /\ a \in g.waiting /\ ~ok => h.bad = g.bad \cup {a}
BY DEF MemberDone, Group

LEMMA EndedGroups ==
  ASSUME NEW e \in EngineState, NEW a \in Addr0, NEW ok \in BOOLEAN, NEW cause \in Causes
  PROVE  LET u == Ended(e, a, ok, cause)
         IN  /\ \A h \in u.groups :
                  \E g \in e.groups : h = MemberDone(g, a, ok) /\ h.waiting # {}
             /\ \A g \in e.groups :
                  MemberDone(g, a, ok).waiting # {} => MemberDone(g, a, ok) \in u.groups
             /\ \A g \in e.groups :
                  MemberDone(g, a, ok).waiting = {}
                    => ReportOf(MemberDone(g, a, ok)) \in u.reports
             /\ \A r \in u.reports :
                  \/ r \in e.reports
                  \/ \E g \in e.groups : /\ MemberDone(g, a, ok).waiting = {}
                                         /\ r = ReportOf(MemberDone(g, a, ok))
             /\ e.reports \subseteq u.reports
<1> DEFINE u == Ended(e, a, ok, cause)
<1>1. /\ u.groups = Settled(e, a, ok) \ Over(e, a, ok)
      /\ u.reports = e.reports \cup {ReportOf(g) : g \in Over(e, a, ok)}
  BY EndedFields
<1> HIDE DEF u
<1>2. \A h \in u.groups : \E g \in e.groups : h = MemberDone(g, a, ok) /\ h.waiting # {}
  BY <1>1 DEF Settled, Over
<1>3. \A g \in e.groups :
        MemberDone(g, a, ok).waiting # {} => MemberDone(g, a, ok) \in u.groups
  BY <1>1 DEF Settled, Over
<1>4. \A g \in e.groups :
        MemberDone(g, a, ok).waiting = {} => ReportOf(MemberDone(g, a, ok)) \in u.reports
  BY <1>1 DEF Settled, Over
<1>5. ASSUME NEW r \in u.reports, r \notin e.reports
      PROVE  \E g \in e.groups : /\ MemberDone(g, a, ok).waiting = {}
                                 /\ r = ReportOf(MemberDone(g, a, ok))
  <2>1. PICK h \in Over(e, a, ok) : r = ReportOf(h)
    BY <1>1, <1>5
  <2>2. PICK g \in e.groups : h = MemberDone(g, a, ok)
    BY DEF Over, Settled
  <2>3. h.waiting = {}
    BY DEF Over
  <2> QED BY <2>1, <2>2, <2>3
<1>6. e.reports \subseteq u.reports
  BY <1>1
<1> QED BY <1>2, <1>3, <1>4, <1>5, <1>6 DEF u

(* The group of i is outstanding, and an operation ends. *)
LEMMA EndedRuns ==
  ASSUME NEW e \in EngineState, Healthy(e), NEW a \in Addr0, Active(e, a),
         NEW ok \in BOOLEAN, NEW cause \in Causes,
         NEW w \in BookEntry, NEW i \in Nat, NEW g \in e.groups, Runs(w, i, e, g)
  PROVE  LET u == Ended(e, a, ok, cause)
         IN  \/ \E h \in u.groups : Runs(w, i, u, h)
             \/ \E r \in u.reports : Ends(w, i, u, r)
<1> DEFINE u == Ended(e, a, ok, cause)
           c == CompletionOf(e, a, ok, cause)
           h == MemberDone(g, a, ok)
           R == Mine(e, g.op)
<1>1. /\ \A x \in Addr0 :
           /\ u.cur[x] = IF x = a THEN NoOp ELSE e.cur[x]
           /\ x # a => u.states[x] = e.states[x]
      /\ u.done = e.done \cup {c}
      /\ u.pending = e.pending /\ u.nextOp = e.nextOp
  BY EndedFields
<1>2. /\ \A y \in u.groups : \E x \in e.groups : y = MemberDone(x, a, ok) /\ y.waiting # {}
      /\ \A x \in e.groups : MemberDone(x, a, ok).waiting # {} => MemberDone(x, a, ok) \in u.groups
      /\ \A x \in e.groups :
           MemberDone(x, a, ok).waiting = {} => ReportOf(MemberDone(x, a, ok)) \in u.reports
      /\ \A r \in u.reports :
           \/ r \in e.reports
           \/ \E x \in e.groups : /\ MemberDone(x, a, ok).waiting = {}
                                  /\ r = ReportOf(MemberDone(x, a, ok))
  BY EndedGroups
<1> HIDE DEF u
<1>3. /\ g.id = i /\ 0 < g.op /\ g.op < e.nextOp /\ w.op \in {0, g.op}
      /\ \A x \in e.groups : x.id = i => x = g
      /\ NotPending(e.pending, i) /\ NotReported(e, i)
      /\ Answered(R) \subseteq w.mask \ w.answered
      /\ g.waiting = (w.mask \ w.answered) \ Answered(R)
      /\ g.bad = w.bad \cup Failed(R)
      /\ \A x \in Addr0 : e.cur[x].op = g.op => x \in g.waiting
  BY DEF Runs
<1>4. /\ e.groups \subseteq Group /\ g \in Group /\ g.waiting # {}
      /\ a \in g.waiting => e.cur[a].op = g.op
      /\ g.op \in Nat
  <2>1. e.groups \subseteq Group
    BY DEF EngineState
  <2>2. g.waiting # {} /\ \A x \in g.waiting : e.cur[x] = [op |-> g.op, cmd |-> g.cmd]
    BY DEF Healthy, Sound, GroupsOK
  <2> QED BY <2>1, <2>2 DEF Group
<1>5. /\ h.id = g.id /\ h.op = g.op /\ h.waiting = g.waiting \ {a}
      /\ a \notin g.waiting => h = g
      /\ a \in g.waiting /\ ok => h.bad = g.bad
      /\ a \in g.waiting /\ ~ok => h.bad = g.bad \cup {a}
  BY <1>4, MemberDoneFields
<1>6. \A x \in e.groups : MemberDone(x, a, ok).id = i => x = g
  <2> TAKE x \in e.groups
  <2>1. MemberDone(x, a, ok).id = x.id
    BY <1>4, MemberDoneFields
  <2> QED BY <1>3, <2>1
<1>7. c.addr = a /\ c.op = e.cur[a].op /\ c.ok = ok
  BY DEF CompletionOf
<1>8. /\ c.op = g.op => Mine(u, g.op) = R \cup {c}
      /\ c.op # g.op => Mine(u, g.op) = R
  <2> HIDE DEF c
  <2>1. u.done = e.done \cup {c}
    BY <1>1
  <2>2. c.op = g.op => Mine(u, g.op) = R \cup {c}
    BY <2>1 DEF Mine
  <2>3. c.op # g.op => Mine(u, g.op) = R
    BY <2>1 DEF Mine
  <2> QED BY <2>2, <2>3
<1> HIDE DEF c, h
<1>9. /\ Answered(R \cup {c}) = Answered(R) \cup {a}
      /\ ok => Failed(R \cup {c}) = Failed(R)
      /\ ~ok => Failed(R \cup {c}) = Failed(R) \cup {a}
  BY <1>7, AnswersGrow
<1> HIDE DEF R
<1>10. a \in g.waiting <=> c.op = g.op
  BY <1>3, <1>4, <1>7
<1> DEFINE R2 == Mine(u, g.op)
<1>11. /\ Answered(R2) \subseteq w.mask \ w.answered
       /\ h.waiting = (w.mask \ w.answered) \ Answered(R2)
       /\ h.bad = w.bad \cup Failed(R2)
       /\ a \in g.waiting => a \in Answered(R2)
  <2>1. CASE a \notin g.waiting
    BY <1>3, <1>5, <1>8, <1>10, <2>1
  <2>2. CASE a \in g.waiting
    <3>1. Answered(R2) = Answered(R) \cup {a}
      BY <1>8, <1>9, <1>10, <2>2
    <3>2. h.bad = w.bad \cup Failed(R2)
      BY <1>3, <1>5, <1>8, <1>9, <1>10, <2>2
    <3> QED BY <1>3, <1>5, <2>2, <3>1, <3>2
  <2> QED BY <2>1, <2>2
<1>12. \A x \in Addr0 : u.cur[x].op = g.op => x \in h.waiting
  <2> SUFFICES ASSUME NEW x \in Addr0, u.cur[x].op = g.op PROVE x \in h.waiting
    OBVIOUS
  <2>1. NoOp.op = 0
    BY DEF NoOp
  <2>2. x # a
    BY <1>1, <1>3, <1>4, <2>1
  <2> QED BY <1>1, <1>3, <1>5, <2>2
<1>13. NotPending(u.pending, i)
  BY <1>1, <1>3
<1> HIDE DEF R2
<1>14. CASE h.waiting # {}
  <2>1. h \in u.groups /\ \A y \in u.groups : y.id = i => y = h
    BY <1>2, <1>6, <1>14 DEF h
  <2>2. NotReported(u, i)
    <3> SUFFICES ASSUME NEW r \in u.reports, r.id = i PROVE FALSE
      BY DEF NotReported
    <3>1. r \notin e.reports
      BY <1>3 DEF NotReported
    <3>2. PICK x \in e.groups : /\ MemberDone(x, a, ok).waiting = {}
                                /\ r = ReportOf(MemberDone(x, a, ok))
      BY <1>2, <3>1
    <3>3. MemberDone(x, a, ok).id = i
      BY <3>2 DEF ReportOf
    <3> QED BY <1>6, <1>14, <3>2, <3>3 DEF h
  <2>3. Runs(w, i, u, h)
    <3>1. h.id = i /\ h.op = g.op /\ 0 < h.op /\ h.op < u.nextOp /\ w.op \in {0, h.op}
      BY <1>1, <1>3, <1>5
    <3> QED BY <1>11, <1>12, <1>13, <2>1, <2>2, <3>1 DEF Runs, R2
  <2> QED BY <2>1, <2>3 DEF u
<1>15. CASE h.waiting = {}
  <2> DEFINE r == ReportOf(h)
  <2>1. r.id = i /\ r.op = g.op /\ (r.ok <=> h.bad = {})
    BY <1>3, <1>5 DEF ReportOf
  <2>2. r \in u.reports
    BY <1>2, <1>15 DEF h
  <2>3. \A q \in u.reports : q.id = i => q = r
    <3> SUFFICES ASSUME NEW q \in u.reports, q.id = i PROVE q = r
      OBVIOUS
    <3>1. q \notin e.reports
      BY <1>3 DEF NotReported
    <3>2. PICK x \in e.groups : q = ReportOf(MemberDone(x, a, ok))
      BY <1>2, <3>1
    <3>3. MemberDone(x, a, ok).id = i
      BY <3>2 DEF ReportOf
    <3> QED BY <1>6, <3>2, <3>3 DEF h
  <2> HIDE DEF r
  <2>4. NotRunning(u, i)
    <3> SUFFICES ASSUME NEW y \in u.groups, y.id = i PROVE FALSE
      BY DEF NotRunning
    <3>1. PICK x \in e.groups : y = MemberDone(x, a, ok) /\ y.waiting # {}
      BY <1>2
    <3> QED BY <1>6, <1>15, <3>1 DEF h
  <2>5. Answered(R2) # {} /\ Answered(R2) = w.mask \ w.answered
    <3>1. a \in g.waiting
      BY <1>4, <1>5, <1>15
    <3> QED BY <1>11, <1>15, <3>1
  <2>6. \A x \in Addr0 : u.cur[x].op # r.op
    BY <1>12, <1>15, <2>1
  <2>7. 0 < r.op /\ r.op < u.nextOp /\ w.op \in {0, r.op}
    BY <1>1, <1>3, <2>1
  <2>8. Mine(u, r.op) = R2 /\ (r.ok <=> w.bad \cup Failed(R2) = {})
    BY <1>11, <2>1 DEF R2
  <2>9. Ends(w, i, u, r)
    BY <1>13, <2>1, <2>2, <2>3, <2>4, <2>5, <2>6, <2>7, <2>8 DEF Ends
  <2> QED BY <2>2, <2>9 DEF u
<1> QED BY <1>14, <1>15

LEMMA EndedTracks ==
  ASSUME NEW e \in EngineState, Healthy(e), NEW a \in Addr0, Active(e, a),
         NEW ok \in BOOLEAN, NEW cause \in Causes,
         NEW w \in BookEntry, NEW i \in Nat, Tracks(w, i, e), GroupsNumbered(e)
  PROVE  LET u == Ended(e, a, ok, cause)
         IN  Tracks(w, i, u) /\ GroupsNumbered(u)
<1> DEFINE u == Ended(e, a, ok, cause)
           c == CompletionOf(e, a, ok, cause)
<1>1. /\ \A x \in Addr0 :
           /\ u.cur[x] = IF x = a THEN NoOp ELSE e.cur[x]
           /\ x # a => u.states[x] = e.states[x]
      /\ u.done = e.done \cup {c}
      /\ u.pending = e.pending /\ u.nextOp = e.nextOp /\ u.nextGroup = e.nextGroup
  BY EndedFields
<1>2. /\ \A y \in u.groups : \E x \in e.groups : y = MemberDone(x, a, ok) /\ y.waiting # {}
      /\ \A x \in e.groups : MemberDone(x, a, ok).waiting # {} => MemberDone(x, a, ok) \in u.groups
      /\ \A x \in e.groups :
           MemberDone(x, a, ok).waiting = {} => ReportOf(MemberDone(x, a, ok)) \in u.reports
      /\ \A r \in u.reports :
           \/ r \in e.reports
           \/ \E x \in e.groups : /\ MemberDone(x, a, ok).waiting = {}
                                  /\ r = ReportOf(MemberDone(x, a, ok))
      /\ e.reports \subseteq u.reports
  BY EndedGroups, SMTT(30)
<1>3. ASSUME \E g \in e.groups : Runs(w, i, e, g) PROVE Tracks(w, i, u)
  <2>1. \/ \E h \in u.groups : Runs(w, i, u, h)
        \/ \E r \in u.reports : Ends(w, i, u, r)
    BY <1>3, EndedRuns
  <2> HIDE DEF u
  <2>2. w.status \notin {"ok", "failed"}
    BY <1>3 DEF Tracks, Runs, IsOver, NotRunning
  <2> QED BY <1>1, <2>1, <2>2 DEF Tracks
<1> HIDE DEF u
<1>4. e.groups \subseteq Group
  BY DEF EngineState
<1>5. \A x \in e.groups : MemberDone(x, a, ok).id = x.id
  BY <1>4, MemberDoneFields
<1>6. c.op = e.cur[a].op
  BY DEF CompletionOf
<1>7. NotRunning(e, i) => NotRunning(u, i) /\ \A r \in u.reports : r.id = i => r \in e.reports
  <2> SUFFICES ASSUME NotRunning(e, i)
               PROVE  NotRunning(u, i) /\ \A r \in u.reports : r.id = i => r \in e.reports
    OBVIOUS
  <2>1. NotRunning(u, i)
    BY <1>2, <1>5 DEF NotRunning
  <2>2. ASSUME NEW r \in u.reports, r.id = i, r \notin e.reports PROVE FALSE
    <3>1. PICK x \in e.groups : r = ReportOf(MemberDone(x, a, ok))
      BY <1>2, <2>2
    <3> QED BY <1>5, <2>2, <3>1 DEF NotRunning, ReportOf
  <2> QED BY <2>1, <2>2
<1>8. \A n : n # e.cur[a].op => Mine(u, n) = Mine(e, n)
  BY <1>1, <1>6 DEF Mine
<1>9. \A n \in Nat : 0 < n /\ (\A x \in Addr0 : e.cur[x].op # n) => \A x \in Addr0 : u.cur[x].op # n
  <2>1. NoOp.op = 0
    BY DEF NoOp
  <2> QED BY <1>1, <2>1
<1>10. GroupsNumbered(u)
  <2>1. \A g \in u.groups : g.id < u.nextGroup
    BY <1>1, <1>2, <1>5 DEF GroupsNumbered
  <2>2. \A k \in DOMAIN u.pending : u.pending[k].id < u.nextGroup
    BY <1>1 DEF GroupsNumbered
  <2>3. ASSUME NEW r \in u.reports PROVE r.id < u.nextGroup
    <3>1. CASE r \in e.reports
      BY <1>1, <3>1 DEF GroupsNumbered
    <3>2. CASE r \notin e.reports
      <4>1. PICK x \in e.groups : r = ReportOf(MemberDone(x, a, ok))
        BY <1>2, <3>2
      <4> QED BY <1>1, <1>5, <4>1 DEF GroupsNumbered, ReportOf
    <3> QED BY <3>1, <3>2
  <2> QED BY <2>1, <2>2, <2>3 DEF GroupsNumbered
<1>11. CASE ~ \E g \in e.groups : Runs(w, i, e, g)
  <2>1. Waits(w, i, e) => Waits(w, i, u)
    BY <1>1, <1>7 DEF Waits, NotReported
  <2>2. ASSUME NEW r \in e.reports, Ends(w, i, e, r) PROVE r \in u.reports /\ Ends(w, i, u, r)
    <3>1. r.op \in Nat
      BY DEF EngineState, Report
    <3>2. /\ r.id = i /\ 0 < r.op /\ NotRunning(e, i) /\ \A x \in Addr0 : e.cur[x].op # r.op
          /\ \A q \in e.reports : q.id = i => q = r
      BY <2>2 DEF Ends
    <3>3. r \in u.reports /\ \A q \in u.reports : q.id = i => q = r
      BY <1>2, <1>7, <3>2
    <3>4. Mine(u, r.op) = Mine(e, r.op) /\ \A x \in Addr0 : u.cur[x].op # r.op
      BY <1>8, <1>9, <3>1, <3>2
    <3> QED BY <1>1, <1>7, <2>2, <3>2, <3>3, <3>4 DEF Ends
  <2>3. ASSUME IsOver(w, i, e) PROVE IsOver(w, i, u)
    <3>1. w.op \in Nat
      BY DEF BookEntry
    <3>2. 0 < w.op /\ NotRunning(e, i) /\ \A x \in Addr0 : e.cur[x].op # w.op
      BY <2>3 DEF IsOver
    <3>3. Mine(u, w.op) = Mine(e, w.op) /\ \A x \in Addr0 : u.cur[x].op # w.op
      BY <1>8, <1>9, <3>1, <3>2
    <3>4. NotReported(u, i) /\ NotRunning(u, i)
      BY <1>7, <2>3 DEF IsOver, NotReported
    <3> QED BY <1>1, <2>3, <3>3, <3>4 DEF IsOver
  <2>4. Tracks(w, i, u)
    BY <1>1, <1>11, <2>1, <2>2, <2>3 DEF Tracks
  <2> QED BY <1>10, <2>4 DEF u
<1>12. CASE \E g \in e.groups : Runs(w, i, e, g)
  BY <1>3, <1>10, <1>12 DEF u
<1> QED BY <1>11, <1>12

-----------------------------------------------------------------------------
(* The states inside the slot that w is tied to *)
Tied(w, i) ==
  {e \in EngineState : /\ Healthy(e) /\ During(Slot, e)
                       /\ GroupsNumbered(e) /\ Tracks(w, i, e)}

LEMMA TiedClosed ==
  ASSUME Slot \in EngineState, NEW w \in BookEntry, NEW i \in Nat
  PROVE  Closed(Tied(w, i))
<1> DEFINE S == Tied(w, i)
           D == {e \in EngineState : Healthy(e) /\ During(Slot, e)}
<1>1. /\ \A e \in S : e \in EngineState /\ Healthy(e) /\ During(Slot, e) /\ e \in D
                      /\ GroupsNumbered(e) /\ Tracks(w, i, e)
      /\ \A e \in D : GroupsNumbered(e) /\ Tracks(w, i, e) => e \in S
  BY DEF Tied
<1>2. Closed(D)
  BY DuringClosed
<1>3. \A e \in D : e \in EngineState /\ Healthy(e) /\ During(Slot, e)
  OBVIOUS
<1> HIDE DEF S, D
<1>4. ASSUME NEW e \in S, NEW a \in Addr0, NEW ok \in BOOLEAN, NEW cause \in Causes
      PROVE  Complete(e, a, ok, cause) \in S
  <2>1. CASE ~Active(e, a)
    BY <2>1 DEF Complete
  <2>2. CASE Active(e, a)
    <3> DEFINE u == Ended(e, a, ok, cause)
    <3>1. Sound(u)
      BY <1>1, EndedSound
    <3>2. During(Slot, u)
      BY <1>1, <2>2, EndedDuring
    <3>3. Tracks(w, i, u) /\ GroupsNumbered(u)
      BY <1>1, <2>2, EndedTracks
    <3>4. Complete(e, a, ok, cause) = TryStartPendingGroup(u)
      BY <2>2, CompleteIsEndedThenTryStart
    <3> HIDE DEF u
    <3>5. Tracks(w, i, TryStartPendingGroup(u)) /\ GroupsNumbered(TryStartPendingGroup(u))
      BY <3>1, <3>2, <3>3, TryStartTracks
    <3>6. Complete(e, a, ok, cause) \in D
      BY <1>1, <1>2 DEF Closed, ClosedUnderRuns, ClosedUnderEnds
    <3> QED BY <1>1, <3>4, <3>5, <3>6
  <2> QED BY <2>1, <2>2
<1>5. ASSUME NEW e \in S, NEW f \in Starts, \A a \in DOMAIN f : Free(e, a)
      PROVE  StartAll(e, f) \in S
  <2>1. StartAll(e, f) \in D
    BY <1>1, <1>2, <1>5 DEF Closed, ClosedUnderRuns, ClosedUnderEnds
  <2>2. CASE DOMAIN f = {}
    BY <2>2 DEF StartAll
  <2>3. CASE DOMAIN f # {}
    <3> DEFINE s == StartAll(e, f)
    <3>1. e \in EngineState /\ DOMAIN f \subseteq Addr0 /\ \A a \in DOMAIN f : f[a] \in Commands
      BY <1>1 DEF Starts
    <3>2. /\ s \in EngineState /\ s.groups = e.groups /\ s.pending = e.pending
          /\ \A a \in Addr0 :
               s.cur[a] = IF a \in DOMAIN f THEN [op |-> e.nextOp, cmd |-> f[a]] ELSE e.cur[a]
      BY <2>3, <3>1, StartAllFields
    <3>3. s.nextOp = e.nextOp + 1 /\ s.done = e.done /\ s.reports = e.reports
          /\ s.nextGroup = e.nextGroup
      BY <2>3, <3>1, StartAllRest
    <3> HIDE DEF s
    <3>4. \A a \in Addr0 : s.cur[a] = e.cur[a] \/ s.cur[a].op >= e.nextOp
      <4> TAKE a \in Addr0
      <4>1. e.nextOp \in Nat
        BY <3>1 DEF EngineState
      <4>2. CASE a \in DOMAIN f
        <5>1. s.cur[a] = [op |-> e.nextOp, cmd |-> f[a]]
          BY <3>2, <4>2
        <5> QED BY <4>1, <5>1
      <4>3. CASE a \notin DOMAIN f
        BY <3>2, <4>3
      <4> QED BY <4>2, <4>3
    <3>5. GroupsNumbered(s)
      BY <1>1, <3>2, <3>3 DEF GroupsNumbered
    <3>6. e.nextOp <= s.nextOp
      BY <3>1, <3>3 DEF EngineState
    <3>7. Tracks(w, i, s)
      BY <1>1, <3>1, <3>2, <3>3, <3>4, <3>6, OthersTrack
    <3> QED BY <1>1, <2>1, <3>5, <3>7 DEF s
  <2> QED BY <2>2, <2>3
<1>6. ASSUME NEW e \in S, NEW t \in D,
             \/ \E qu \in [Addr0 -> Seq(Commands)] : t = [e EXCEPT !.queues = qu]
             \/ \E po \in SUBSET Addr0 : t = [e EXCEPT !.posted = po]
             \/ \E se \in SUBSET Requests : t = [e EXCEPT !.sent = se]
             \/ \E fu \in SUBSET Addr0 : t = [e EXCEPT !.fu = fu]
      PROVE  t \in S
  <2>1. /\ t \in EngineState /\ t.cur = e.cur /\ t.groups = e.groups /\ t.pending = e.pending
        /\ t.nextOp = e.nextOp /\ t.nextGroup = e.nextGroup
        /\ t.done = e.done /\ t.reports = e.reports
    BY <1>1, <1>6, OtherFields
  <2>2. GroupsNumbered(t)
    BY <1>1, <2>1 DEF GroupsNumbered
  <2>3. e.nextOp <= t.nextOp
    BY <1>1, <2>1 DEF EngineState
  <2>4. Tracks(w, i, t)
    BY <1>1, <2>1, <2>3, OthersTrack
  <2> QED BY <1>1, <2>2, <2>4
<1>7. \A e \in S : \A fu \in SUBSET Addr0 : [e EXCEPT !.fu = fu] \in S
  <2> TAKE e \in S
  <2> TAKE fu \in SUBSET Addr0
  <2> DEFINE t == [e EXCEPT !.fu = fu]
  <2>1. t \in D
    BY <1>1, <1>2, Zenon DEF Closed, ClosedUnderRuns, ClosedUnderEnds
  <2> QED BY <1>6, <2>1
<1>8. \A e \in S : \A qu \in [Addr0 -> Seq(Commands)] : [e EXCEPT !.queues = qu] \in S
  <2> TAKE e \in S
  <2> TAKE qu \in [Addr0 -> Seq(Commands)]
  <2>1. [e EXCEPT !.queues = qu] \in D
    BY <1>1, <1>2, Zenon DEF Closed
  <2> QED BY <1>6, <2>1
<1>9. \A e \in S : \A po \in SUBSET Addr0 : [e EXCEPT !.posted = po] \in S
  <2> TAKE e \in S
  <2> TAKE po \in SUBSET Addr0
  <2>1. [e EXCEPT !.posted = po] \in D
    BY <1>1, <1>2, Zenon DEF Closed
  <2> QED BY <1>6, <2>1
<1>10. \A e \in S : \A se \in SUBSET Requests : [e EXCEPT !.sent = se] \in S
  <2> TAKE e \in S
  <2> TAKE se \in SUBSET Requests
  <2>1. [e EXCEPT !.sent = se] \in D
    BY <1>1, <1>2, Zenon DEF Closed
  <2> QED BY <1>6, <2>1
<1>11. ClosedUnderRuns(S)
  BY <1>1, <1>4, <1>5, <1>7 DEF ClosedUnderRuns, ClosedUnderEnds
<1>12. Closed(S)
  BY <1>8, <1>9, <1>10, <1>11 DEF Closed
<1> QED BY <1>12 DEF S


-----------------------------------------------------------------------------
(* The end of the slot: what Written makes of an entry *)

(* What the service sees of an entry *)
Shown(b) == [status |-> b.status, mask |-> b.mask, answered |-> b.answered, bad |-> b.bad]

ServiceStep(b, b2) ==
  \/ b2 = b
  \/ Service!Accepts(b, b2)
  \/ Service!Completes(b, b2)
  \/ Service!Drops(b, b2)

(* What the book needs at the end of a slot that leads from the entry w to   *)
(* v: the next slot begins in u, which is e without its signals.             *)
Served(w, v, i, u) ==
  /\ EntryOK(v) /\ Tracks(v, i, u) /\ GroupsNumbered(u)
  /\ ServiceStep(Shown(w), Shown(v))

SignalsTaken(e, u) ==
  /\ u.cur = e.cur /\ u.groups = e.groups /\ u.pending = e.pending
  /\ u.nextOp = e.nextOp /\ u.nextGroup = e.nextGroup
  /\ u.done = {} /\ u.reports = {}

WrittenOf(w, e, i, op) ==
  [status   |-> NextStatus(w, e, i), op |-> op,
   mask     |-> IF w.status = "new" THEN MaskOf(e, i) ELSE w.mask,
   answered |-> w.answered \cup (IF op = 0 THEN {} ELSE Answered(Mine(e, op))),
   bad      |-> w.bad \cup (IF op = 0 THEN {} ELSE Failed(Mine(e, op)))]

(* The outcomes that Written collects are those of the group's start op. *)
LEMMA WrittenFields ==
  ASSUME NEW e, NEW w \in BookEntry, NEW i, NEW op, w.status # "dropped",
         \/ StartOf(e, i) = {op}
         \/ StartOf(e, i) = {} /\ op = w.op
  PROVE  Written(w, e, i) = WrittenOf(w, e, i, op)
<1>1. (IF StartOf(e, i) = {} THEN w.op ELSE CHOOSE o \in StartOf(e, i) : TRUE) = op
  OBVIOUS
<1>2. {r \in e.done : r.op = op /\ r.op # 0} = IF op = 0 THEN {} ELSE Mine(e, op)
  BY DEF Mine
<1>3. {r.addr : r \in IF op = 0 THEN {} ELSE Mine(e, op)}
        = IF op = 0 THEN {} ELSE Answered(Mine(e, op))
  BY DEF Answered
<1>4. {r.addr : r \in {x \in IF op = 0 THEN {} ELSE Mine(e, op) : ~x.ok}}
        = IF op = 0 THEN {} ELSE Failed(Mine(e, op))
  BY DEF Failed
<1> QED BY <1>1, <1>2, <1>3, <1>4 DEF Written, WrittenOf

(* The tie does not need the signals of the slot that is over, unless they   *)
(* are of the group itself.                                                  *)
LEMMA WrittenKeeps ==
  ASSUME NEW e \in EngineState, NEW u \in EngineState, SignalsTaken(e, u), GroupsNumbered(e),
         NEW w, EntryOK(w), NEW i \in Nat, Tracks(w, i, e),
         NotReported(e, i), NotRunning(e, i)
  PROVE  Written(w, e, i) = w /\ Served(w, w, i, u)
<1>1. w \in BookEntry /\ (w.status = "new" => w = Entry)
  BY DEF EntryOK
<1>2. StartOf(e, i) = {}
  BY DEF StartOf, NotRunning, NotReported
<1>3. GroupsNumbered(u)
  BY DEF SignalsTaken, GroupsNumbered
<1>4. ServiceStep(Shown(w), Shown(w))
  BY DEF ServiceStep
<1>5. CASE w.status = "dropped"
  <2>1. Tracks(w, i, u)
    BY <1>5 DEF Tracks, SignalsTaken
  <2> QED BY <1>3, <1>4, <1>5, <2>1 DEF Served, Written
<1>6. CASE w.status # "dropped"
  <2> DEFINE A == IF w.op = 0 THEN {} ELSE Answered(Mine(e, w.op))
             B == IF w.op = 0 THEN {} ELSE Failed(Mine(e, w.op))
             m == IF w.status = "new" THEN MaskOf(e, i) ELSE w.mask
  <2>1. Written(w, e, i) = [status |-> NextStatus(w, e, i), op |-> w.op, mask |-> m,
                            answered |-> w.answered \cup A, bad |-> w.bad \cup B]
    <3>1. Written(w, e, i) = WrittenOf(w, e, i, w.op)
      BY <1>1, <1>2, <1>6, WrittenFields
    <3> QED BY <3>1 DEF WrittenOf
  <2>2. NextStatus(w, e, i) = IF w.status = "new" /\ Known(e, i) THEN "open"
                              ELSE IF w.status = "open" /\ ~Known(e, i) THEN "dropped"
                              ELSE w.status
    BY DEF NextStatus, NotReported
  <2>3. w.status \in {"new", "open", "ok", "failed"}
    BY <1>1, <1>6 DEF BookEntry
  <2>4. w.status = "open" => Waits(w, i, e)
    BY DEF Tracks, Runs, Ends, NotReported, NotRunning
  <2>5. w.status = "open" => Known(e, i)
    BY <2>4 DEF Known, Waits, PendingOnce
  <2>6. w.status = "new" => ~Known(e, i) /\ MaskOf(e, i) = {}
    <3> SUFFICES ASSUME w.status = "new" PROVE ~Known(e, i) /\ MaskOf(e, i) = {}
      OBVIOUS
    <3>1. i >= e.nextGroup /\ e.nextGroup \in Nat
      BY DEF Tracks, EngineState
    <3>2. \A k \in DOMAIN e.pending : e.pending[k].id # i
      <4> TAKE k \in DOMAIN e.pending
      <4>1. e.pending[k].id < e.nextGroup
        BY DEF GroupsNumbered
      <4>2. e.pending \in Seq(PendingGroup)
        BY DEF EngineState
      <4>3. e.pending[k] \in PendingGroup
        BY <4>2
      <4>4. e.pending[k].id \in Nat
        BY <4>3 DEF PendingGroup
      <4> QED BY <3>1, <4>1, <4>4
    <3>3. \A g \in e.groups : g.id # i
      BY DEF NotRunning
    <3> QED BY <3>2, <3>3 DEF Known, MaskOf
  <2>7. NextStatus(w, e, i) = w.status
    BY <2>2, <2>5, <2>6
  <2>8. m = w.mask
    BY <1>1, <2>6 DEF Entry
  <2>9. A = {} /\ B = {}
    <3>1. CASE w.status = "new"
      BY <1>1, <3>1 DEF Entry
    <3>2. CASE w.status = "open"
      BY <2>4, <3>2 DEF Waits
    <3>3. CASE w.status \in {"ok", "failed"}
      <4>1. Mine(e, w.op) = {}
        BY <3>3 DEF Tracks, IsOver
      <4> QED BY <4>1 DEF Answered, Failed
    <3> QED BY <2>3, <3>1, <3>2, <3>3
  <2> HIDE DEF A, B, m
  <2>10. Written(w, e, i) = w
    BY <1>1, <2>1, <2>7, <2>8, <2>9 DEF BookEntry
  <2>11. Tracks(w, i, u)
    <3>1. Waits(w, i, e) => Waits(w, i, u)
      BY DEF Waits, SignalsTaken, NotRunning, NotReported
    <3>2. IsOver(w, i, e) => IsOver(w, i, u)
      BY DEF IsOver, SignalsTaken, NotRunning, NotReported, Mine
    <3>3. u.nextGroup = e.nextGroup
      BY DEF SignalsTaken
    <3> QED BY <2>4, <3>1, <3>2, <3>3 DEF Tracks
  <2> QED BY <1>3, <1>4, <2>10, <2>11 DEF Served
<1> QED BY <1>5, <1>6


(* Some members of a running group may have completed. *)
LEMMA WrittenRuns ==
  ASSUME NEW e \in EngineState, NEW u \in EngineState, SignalsTaken(e, u), GroupsOK(e),
         GroupsNumbered(e),
         NEW w, EntryOK(w), NEW i \in Nat, Tracks(w, i, e), w.status = "open",
         NEW g \in e.groups, Runs(w, i, e, g)
  PROVE  Written(w, e, i).status = "open" /\ Served(w, Written(w, e, i), i, u)
<1> DEFINE R == Mine(e, g.op)
           v == Written(w, e, i)
<1>1. /\ g.id = i /\ g.op \in Nat /\ 0 < g.op /\ g.op < e.nextOp
      /\ \A h \in e.groups : h.id = i => h = g
      /\ NotPending(e.pending, i) /\ NotReported(e, i)
      /\ Answered(R) \subseteq w.mask \ w.answered
      /\ g.waiting = (w.mask \ w.answered) \ Answered(R)
      /\ g.bad = w.bad \cup Failed(R)
      /\ \A a \in Addr0 : e.cur[a].op = g.op => a \in g.waiting
  BY DEF Runs, EngineState, Group
<1>2. Failed(R) \subseteq Answered(R)
  BY AnswersGrow
<1>3. /\ w \in BookEntry /\ w.answered \subseteq w.mask /\ w.bad \subseteq w.answered
      /\ w.mask \subseteq Addr
  BY DEF EntryOK, BookEntry
<1>4. /\ v.status = "open" /\ v.op = g.op /\ v.mask = w.mask
      /\ v.answered = w.answered \cup Answered(R) /\ v.bad = w.bad \cup Failed(R)
      /\ v = [status |-> v.status, op |-> v.op, mask |-> v.mask, answered |-> v.answered,
              bad |-> v.bad]
  <2>1. StartOf(e, i) = {g.op}
    BY <1>1 DEF StartOf, NotReported
  <2>2. Written(w, e, i) = WrittenOf(w, e, i, g.op)
    BY <1>3, <2>1, WrittenFields
  <2>3. NextStatus(w, e, i) = "open"
    BY <1>1 DEF NextStatus, NotReported, Known
  <2> HIDE DEF R
  <2>4. v = [status |-> "open", op |-> g.op, mask |-> w.mask,
             answered |-> w.answered \cup Answered(R), bad |-> w.bad \cup Failed(R)]
    <3>1. /\ (IF g.op = 0 THEN {} ELSE Answered(Mine(e, g.op))) = Answered(R)
          /\ (IF g.op = 0 THEN {} ELSE Failed(Mine(e, g.op))) = Failed(R)
      BY <1>1 DEF R
    <3>2. (IF w.status = "new" THEN MaskOf(e, i) ELSE w.mask) = w.mask
      OBVIOUS
    <3> QED BY <2>2, <2>3, <3>1, <3>2 DEF WrittenOf
  <2> HIDE DEF v
  <2> QED BY <2>4
<1> HIDE DEF R, v
<1>5. EntryOK(v)
  <2>1. v \in BookEntry
    BY <1>1, <1>2, <1>3, <1>4 DEF BookEntry
  <2>2. v.status # "new" /\ v.answered \subseteq v.mask /\ v.bad \subseteq v.answered
    <3> HIDE DEF v
    <3>1. /\ v.status = "open" /\ v.mask = w.mask
          /\ v.answered = w.answered \cup Answered(R) /\ v.bad = w.bad \cup Failed(R)
      BY <1>4
    <3> QED BY <1>1, <1>2, <1>3, <3>1
  <2> QED BY <2>1, <2>2 DEF EntryOK
<1>6. Tracks(v, i, u)
  <2>1. Answered(Mine(u, g.op)) = {} /\ Failed(Mine(u, g.op)) = {}
    BY DEF SignalsTaken, Mine, Answered, Failed
  <2>2. NotPending(u.pending, i) /\ NotReported(u, i)
    BY <1>1 DEF SignalsTaken, NotReported
  <2>3. g.waiting = v.mask \ v.answered /\ g.bad = v.bad
    BY <1>1, <1>4
  <2>4. /\ g \in u.groups /\ \A h \in u.groups : h.id = i => h = g
        /\ 0 < g.op /\ g.op < u.nextOp /\ v.op = g.op
        /\ \A a \in Addr0 : u.cur[a].op = g.op => a \in g.waiting
    BY <1>1, <1>4 DEF SignalsTaken
  <2>5. Runs(v, i, u, g)
    BY <1>1, <2>1, <2>2, <2>3, <2>4 DEF Runs
  <2>6. i < u.nextGroup
    BY DEF Tracks, SignalsTaken
  <2> QED BY <1>4, <2>4, <2>5, <2>6 DEF Tracks
<1>7. ServiceStep(Shown(w), Shown(v))
  <2>1. CASE Answered(R) = {}
    BY <1>2, <1>4, <2>1 DEF ServiceStep, Shown
  <2>2. CASE Answered(R) # {}
    <3>1. g.waiting # {}
      BY DEF GroupsOK
    <3>2. v.answered # v.mask
      BY <1>1, <1>4, <3>1
    <3>3. v.answered \ w.answered = Answered(R)
      BY <1>1, <1>4
    <3>4. Service!Verdict(Shown(v)) = "open"
      BY <3>2 DEF Service!Verdict, Shown
    <3>5. Service!Completes(Shown(w), Shown(v))
      BY <1>1, <1>2, <1>4, <2>2, <3>3, <3>4 DEF Service!Completes, Shown
    <3> QED BY <3>5 DEF ServiceStep
  <2> QED BY <2>1, <2>2
<1>8. GroupsNumbered(u)
  BY DEF SignalsTaken, GroupsNumbered
<1> QED BY <1>4, <1>5, <1>6, <1>7, <1>8 DEF Served, v

(* A group that is reported has all its outcomes, and the report says of     *)
(* them what the service says.                                               *)
LEMMA WrittenEnds ==
  ASSUME NEW e \in EngineState, NEW u \in EngineState, SignalsTaken(e, u),
         GroupsNumbered(e),
         NEW w, EntryOK(w), NEW i \in Nat, Tracks(w, i, e), w.status = "open",
         NEW q \in e.reports, Ends(w, i, e, q)
  PROVE  Written(w, e, i).status # "dropped" /\ Served(w, Written(w, e, i), i, u)
<1> DEFINE R == Mine(e, q.op)
           v == Written(w, e, i)
<1>1. /\ q.id = i /\ q.op \in Nat /\ 0 < q.op /\ q.op < e.nextOp
      /\ \A x \in e.reports : x.id = i => x = q
      /\ NotPending(e.pending, i) /\ NotRunning(e, i)
      /\ Answered(R) # {} /\ Answered(R) = w.mask \ w.answered
      /\ q.ok <=> w.bad \cup Failed(R) = {}
      /\ \A a \in Addr0 : e.cur[a].op # q.op
  BY DEF Ends, EngineState, Report
<1>2. Failed(R) \subseteq Answered(R)
  BY AnswersGrow
<1>3. /\ w \in BookEntry /\ w.answered \subseteq w.mask /\ w.bad \subseteq w.answered
      /\ w.mask \subseteq Addr
  BY DEF EntryOK, BookEntry
<1>4. /\ v.status = (IF q.ok THEN "ok" ELSE "failed") /\ v.op = q.op /\ v.mask = w.mask
      /\ v.answered = w.answered \cup Answered(R) /\ v.bad = w.bad \cup Failed(R)
      /\ v = [status |-> v.status, op |-> v.op, mask |-> v.mask, answered |-> v.answered,
              bad |-> v.bad]
  <2>1. StartOf(e, i) = {q.op}
    BY <1>1 DEF StartOf, NotRunning
  <2>2. Written(w, e, i) = WrittenOf(w, e, i, q.op)
    BY <1>3, <2>1, WrittenFields
  <2>3. NextStatus(w, e, i) = IF q.ok THEN "ok" ELSE "failed"
    BY <1>1 DEF NextStatus
  <2> HIDE DEF R
  <2>4. v = [status |-> IF q.ok THEN "ok" ELSE "failed", op |-> q.op, mask |-> w.mask,
             answered |-> w.answered \cup Answered(R), bad |-> w.bad \cup Failed(R)]
    <3>1. /\ (IF q.op = 0 THEN {} ELSE Answered(Mine(e, q.op))) = Answered(R)
          /\ (IF q.op = 0 THEN {} ELSE Failed(Mine(e, q.op))) = Failed(R)
      BY <1>1 DEF R
    <3>2. (IF w.status = "new" THEN MaskOf(e, i) ELSE w.mask) = w.mask
      OBVIOUS
    <3> QED BY <2>2, <2>3, <3>1, <3>2 DEF WrittenOf
  <2> HIDE DEF v
  <2> QED BY <2>4
<1> HIDE DEF R, v
<1>5. v.status \in {"ok", "failed"}
  BY <1>4
<1>6. v.answered = v.mask
  BY <1>1, <1>3, <1>4
<1>7. EntryOK(v)
  <2>1. v.bad \subseteq v.answered
    BY <1>2, <1>3, <1>4
  <2>2. v \in BookEntry
    BY <1>1, <1>3, <1>4, <1>5, <1>6, <2>1 DEF BookEntry
  <2> QED BY <1>5, <1>6, <2>1, <2>2 DEF EntryOK
<1>8. Tracks(v, i, u)
  <2>1. NotPending(u.pending, i) /\ NotReported(u, i) /\ NotRunning(u, i)
    BY <1>1 DEF SignalsTaken, NotReported, NotRunning
  <2>2. /\ 0 < v.op /\ v.op < u.nextOp
        /\ Mine(u, v.op) = {} /\ \A a \in Addr0 : u.cur[a].op # v.op
    BY <1>1, <1>4 DEF SignalsTaken, Mine
  <2>3. i < u.nextGroup
    BY DEF Tracks, SignalsTaken
  <2> QED BY <1>5, <2>1, <2>2, <2>3 DEF Tracks, IsOver
<1>9. ServiceStep(Shown(w), Shown(v))
  <2>1. v.answered \ w.answered = Answered(R)
    BY <1>1, <1>4
  <2>2. Service!Verdict(Shown(v)) = v.status
    BY <1>1, <1>4, <1>6 DEF Service!Verdict, Shown
  <2>3. Service!Completes(Shown(w), Shown(v))
    BY <1>1, <1>2, <1>4, <2>1, <2>2 DEF Service!Completes, Shown
  <2> QED BY <2>3 DEF ServiceStep
<1>10. GroupsNumbered(u)
  BY DEF SignalsTaken, GroupsNumbered
<1> QED BY <1>5, <1>7, <1>8, <1>9, <1>10 DEF Served, v

(* So whatever the tie says of the entry, the slot ends with a step of the   *)
(* service, and drops no group.                                              *)
LEMMA TiedIsServed ==
  ASSUME NEW e \in EngineState, NEW u \in EngineState, SignalsTaken(e, u), GroupsOK(e),
         GroupsNumbered(e), NEW w, EntryOK(w), NEW i \in Nat, Tracks(w, i, e)
  PROVE  /\ Served(w, Written(w, e, i), i, u)
         /\ Written(w, e, i).status = "dropped" => w.status = "dropped"
<1>1. CASE w.status = "open" /\ \E g \in e.groups : Runs(w, i, e, g)
  BY <1>1, WrittenRuns
<1>2. CASE w.status = "open" /\ \E q \in e.reports : Ends(w, i, e, q)
  BY <1>2, WrittenEnds
<1>3. CASE NotReported(e, i) /\ NotRunning(e, i)
  BY <1>3, WrittenKeeps
<1>4. CASE w.status = "dropped"
  <2>1. Tracks(w, i, u) /\ GroupsNumbered(u)
    BY <1>4 DEF Tracks, SignalsTaken, GroupsNumbered
  <2> QED BY <1>4, <2>1 DEF Served, ServiceStep, Written
<1>5. w.status \in {"new", "open", "ok", "failed", "dropped"}
  BY DEF EntryOK, BookEntry
<1>6. w.status = "new" => NotReported(e, i) /\ NotRunning(e, i)
  <2> SUFFICES ASSUME w.status = "new" PROVE NotReported(e, i) /\ NotRunning(e, i)
    OBVIOUS
  <2>1. i >= e.nextGroup /\ e.nextGroup \in Nat
    BY DEF Tracks, EngineState
  <2>2. \A g \in e.groups : g.id < e.nextGroup /\ g.id \in Nat
    BY DEF GroupsNumbered, EngineState, Group
  <2>3. \A r \in e.reports : r.id < e.nextGroup /\ r.id \in Nat
    BY DEF GroupsNumbered, EngineState, Report
  <2> QED BY <2>1, <2>2, <2>3 DEF NotReported, NotRunning
<1>7. CASE w.status = "open" /\ Waits(w, i, e)
  BY <1>3, <1>7 DEF Waits
<1>8. CASE w.status \in {"ok", "failed"}
  BY <1>3, <1>8 DEF Tracks, IsOver
<1> QED BY <1>1, <1>2, <1>3, <1>4, <1>5, <1>6, <1>7, <1>8 DEF Tracks


-----------------------------------------------------------------------------
(* The steps *)

LEMMA NextSlot ==
  ASSUME eng' \in EngineState
  PROVE  Slot' \in EngineState /\ SignalsTaken(eng', Slot')
<1> DEFINE e == eng'
           u == [e EXCEPT !.done = {}, !.reports = {}, !.fu = {}]
<1>1. Slot' = u
  BY DEF Slot
<1>2. {} \in SUBSET Completion /\ {} \in SUBSET Report /\ {} \in SUBSET Addr0
  OBVIOUS
<1> HIDE DEF e
<1>3. e \in EngineState
  BY DEF e
<1>4. u \in EngineState
  BY <1>2, <1>3, Zenon DEF EngineState
<1>5. SignalsTaken(e, u)
  BY <1>3 DEF EngineState, SignalsTaken
<1> HIDE DEF u
<1> QED BY <1>1, <1>4, <1>5 DEF e

LEMMA AcceptsANewOne ==
  ASSUME NEW b \in Service!Request, NEW b2 \in Service!Request,
         b.status = "new", b2.status = "open", b2.mask # {},
         b2.answered = b.answered, b2.bad = b.bad
  PROVE  Service!Accepts(b, b2)
BY DEF Service!Accepts, Service!Request

(* Groups stay numbered in the order of their acceptance. *)
LEMMA GroupCommandNumbered ==
  ASSUME StepInvariant, GroupsNumbered(Slot),
         NEW c \in GroupCmds, NEW mask \in (SUBSET Addr) \ {{}}, ExecuteGroupCommand(c, mask)
  PROVE  GroupsNumbered(eng')
<1> DEFINE g == [id |-> eng.nextGroup, cmd |-> c, mask |-> mask]
<1>1. /\ eng' \in EngineState /\ eng'.reports = {}
      /\ eng'.nextGroup = eng.nextGroup + 1
      /\ \/ eng'.groups = eng.groups /\ eng'.pending = Append(eng.pending, g)
         \/ eng'.groups = eng.groups \cup {NewGroup(eng, g)} /\ eng'.pending = eng.pending
  BY ExecuteGroupCommandFields, ConstantsAssumption DEF StepInvariant
<1>2. /\ eng \in EngineState /\ eng.nextGroup \in Nat
      /\ eng.pending \in Seq(PendingGroup)
      /\ Slot.groups = eng.groups /\ Slot.pending = eng.pending /\ Slot.nextGroup = eng.nextGroup
  BY SlotFields DEF StepInvariant, EngineState
<1>3. g.id = eng.nextGroup /\ NewGroup(eng, g).id = eng.nextGroup
  BY DEF NewGroup
<1> HIDE DEF g
<1>4. ASSUME NEW x \in eng'.groups PROVE x.id < eng'.nextGroup
  <2>1. x \in eng.groups \/ x = NewGroup(eng, g)
    BY <1>1
  <2>2. ASSUME x \in eng.groups PROVE x.id \in Nat /\ x.id < eng.nextGroup
    BY <1>2, <2>2 DEF GroupsNumbered, EngineState, Group
  <2> QED BY <1>1, <1>2, <1>3, <2>1, <2>2
<1>5. ASSUME NEW k \in DOMAIN eng'.pending PROVE eng'.pending[k].id < eng'.nextGroup
  <2>1. ASSUME k \in DOMAIN eng.pending PROVE eng.pending[k].id < eng.nextGroup + 1
    <3>1. eng.pending[k].id < eng.nextGroup
      BY <1>2, <2>1 DEF GroupsNumbered
    <3>2. eng.pending[k] \in PendingGroup
      BY <1>2, <2>1
    <3> QED BY <1>2, <3>1, <3>2 DEF PendingGroup
  <2>2. CASE eng'.pending = eng.pending
    BY <1>1, <2>1, <2>2
  <2>3. CASE eng'.pending = Append(eng.pending, g)
    <3>1. eng'.pending[k] = g \/ (k \in DOMAIN eng.pending /\ eng'.pending[k] = eng.pending[k])
      BY <1>2, <2>3
    <3> QED BY <1>1, <1>2, <1>3, <2>1, <3>1
  <2> QED BY <1>1, <2>2, <2>3
<1> QED BY <1>1, <1>4, <1>5 DEF GroupsNumbered

(* The group that executeGroupCommand accepts *)
LEMMA AcceptedTracks ==
  ASSUME StepInvariant, GroupsNumbered(Slot),
         NEW c \in GroupCmds, NEW mask \in (SUBSET Addr) \ {{}}, ExecuteGroupCommand(c, mask),
         NEW w, EntryOK(w), NEW i \in Nat, Tracks(w, i, Slot), i = eng.nextGroup
  PROVE  /\ Served(w, Written(w, eng', i), i, Slot')
         /\ Written(w, eng', i).status # "dropped"
<1> DEFINE g == [id |-> eng.nextGroup, cmd |-> c, mask |-> mask]
           v == Written(w, eng', i)
<1>1. /\ eng' \in EngineState /\ eng'.done = {} /\ eng'.reports = {}
      /\ eng'.nextGroup = eng.nextGroup + 1
      /\ \/ /\ eng'.groups = eng.groups /\ eng'.pending = Append(eng.pending, g)
            /\ eng'.cur = eng.cur /\ eng'.nextOp = eng.nextOp
         \/ /\ eng'.groups = eng.groups \cup {NewGroup(eng, g)}
            /\ eng'.pending = eng.pending
            /\ \A a \in Addr0 : eng'.cur[a] = IF a \in mask THEN [op |-> eng.nextOp, cmd |-> c]
                                              ELSE eng.cur[a]
            /\ eng'.nextOp = eng.nextOp + 1
  BY ExecuteGroupCommandFields, ConstantsAssumption DEF StepInvariant
<1>2. /\ Slot' \in EngineState
      /\ Slot'.cur = eng'.cur /\ Slot'.groups = eng'.groups /\ Slot'.pending = eng'.pending
      /\ Slot'.nextOp = eng'.nextOp /\ Slot'.nextGroup = eng'.nextGroup
      /\ Slot'.done = {} /\ Slot'.reports = {}
  BY <1>1, NextSlot DEF SignalsTaken
<1>3. /\ eng \in EngineState /\ eng.nextGroup \in Nat /\ eng.nextOp \in Nat /\ 0 < eng.nextOp
      /\ eng.pending \in Seq(PendingGroup)
      /\ Slot.groups = eng.groups /\ Slot.pending = eng.pending /\ Slot.nextGroup = eng.nextGroup
  BY SlotFields DEF StepInvariant, Numbered, EngineState
<1>4. /\ \A x \in eng.groups : x.id # i
      /\ NotPending(eng.pending, i)
  <2>1. \A x \in eng.groups : x.id \in Nat /\ x.id < i
    BY <1>3 DEF GroupsNumbered, EngineState, Group
  <2>2. ASSUME NEW k \in DOMAIN eng.pending PROVE eng.pending[k].id # i
    <3>1. eng.pending[k].id < i
      BY <1>3 DEF GroupsNumbered
    <3>2. eng.pending[k] \in PendingGroup
      BY <1>3
    <3> QED BY <1>3, <3>1, <3>2 DEF PendingGroup
  <2> QED BY <2>1, <2>2 DEF NotPending
<1>5. w = Entry
  <2>1. w.status = "new"
    BY <1>3 DEF Tracks
  <2> QED BY <2>1 DEF EntryOK
<1>6. GroupsNumbered(Slot')
  BY <1>1, <1>2, GroupCommandNumbered DEF GroupsNumbered
<1>7. ASSUME v = [status |-> "open", op |-> v.op, mask |-> mask, answered |-> {}, bad |-> {}],
             v.op \in Nat,
             \/ Waits(v, i, Slot')
             \/ \E x \in Slot'.groups : Runs(v, i, Slot', x)
      PROVE  Served(w, v, i, Slot') /\ v.status # "dropped"
  <2> HIDE DEF v
  <2>1. /\ v.status = "open" /\ v.mask = mask /\ v.answered = {} /\ v.bad = {}
    BY <1>7
  <2>2. v \in BookEntry
    BY <1>7 DEF BookEntry
  <2>3. EntryOK(v)
    BY <2>1, <2>2 DEF EntryOK
  <2>4. Tracks(v, i, Slot')
    BY <1>1, <1>2, <1>3, <1>7, <2>1 DEF Tracks
  <2>5. Service!Accepts(Shown(w), Shown(v))
    <3>1. w \in BookEntry
      BY DEF EntryOK
    <3>2. Shown(w) \in Service!Request /\ Shown(v) \in Service!Request
      BY <2>2, <3>1 DEF Shown, BookEntry, Service!Request
    <3>3. /\ Shown(w).status = "new" /\ Shown(w).answered = {} /\ Shown(w).bad = {}
          /\ Shown(v).status = "open" /\ Shown(v).mask # {}
          /\ Shown(v).answered = {} /\ Shown(v).bad = {}
      BY <1>5, <2>1 DEF Shown, Entry
    <3> QED BY <3>2, <3>3, AcceptsANewOne
  <2> QED BY <1>6, <2>1, <2>3, <2>4, <2>5 DEF Served, ServiceStep
<1>8. CASE eng'.groups = eng.groups /\ eng'.pending = Append(eng.pending, g)
  <2>1. g \in PendingGroup /\ g.id = i /\ g.mask = mask
    BY <1>3, ConstantsAssumption DEF PendingGroup
  <2> HIDE DEF g
  <2>2. PendingOnce(eng'.pending, i, mask)
    BY <1>3, <1>4, <1>8, <2>1, PendingAppend
  <2>3. PICK k \in DOMAIN eng'.pending :
             /\ eng'.pending[k].id = i /\ eng'.pending[k].mask = mask
             /\ \A l \in DOMAIN eng'.pending : eng'.pending[l].id = i => l = k
    BY <2>2 DEF PendingOnce
  <2>4. StartOf(eng', i) = {}
    BY <1>1, <1>4, <1>8 DEF StartOf
  <2>5. MaskOf(eng', i) = mask
    <3>1. {x \in eng'.groups : x.id = i} = {}
      BY <1>4, <1>8
    <3>2. {l \in DOMAIN eng'.pending : eng'.pending[l].id = i} = {k}
      BY <2>3
    <3>3. {eng'.pending[l].mask : l \in {l \in DOMAIN eng'.pending : eng'.pending[l].id = i}}
            = {mask}
      BY <2>3, <3>2
    <3> QED BY <3>1, <3>3 DEF MaskOf
  <2>6. NextStatus(w, eng', i) = "open"
    BY <1>1, <1>5, <2>3 DEF NextStatus, Known, Entry
  <2>7. w \in BookEntry /\ w.status = "new" /\ w.op = 0 /\ w.answered = {} /\ w.bad = {}
    BY <1>5 DEF EntryOK, Entry
  <2>8. v = WrittenOf(w, eng', i, 0)
    BY <2>4, <2>7, WrittenFields
  <2>9. v = [status |-> "open", op |-> 0, mask |-> mask, answered |-> {}, bad |-> {}]
    BY <2>5, <2>6, <2>7, <2>8 DEF WrittenOf
  <2> HIDE DEF v
  <2>10. /\ v.op = 0 /\ v.mask = mask /\ v.answered = {} /\ v.bad = {}
    BY <2>9
  <2>11. Waits(v, i, Slot')
    <3>1. NotRunning(Slot', i) /\ NotReported(Slot', i)
      BY <1>2, <1>4, <1>8 DEF NotRunning, NotReported
    <3> QED BY <1>2, <2>2, <2>10, <3>1 DEF Waits
  <2>12. Served(w, v, i, Slot') /\ v.status # "dropped"
    BY <1>7, <2>9, <2>10, <2>11 DEF v
  <2> QED BY <2>12 DEF v
<1>9. CASE eng'.groups = eng.groups \cup {NewGroup(eng, g)} /\ eng'.pending = eng.pending
  <2> DEFINE x == NewGroup(eng, g)
  <2>1. x.id = i /\ x.op = eng.nextOp /\ x.waiting = mask /\ x.bad = {}
    BY DEF NewGroup
  <2> HIDE DEF x
  <2>2. eng'.groups = eng.groups \cup {x}
    BY <1>9 DEF x
  <2>3. x \in eng'.groups /\ \A y \in eng'.groups : y.id = i => y = x
    BY <1>4, <2>2
  <2>4. StartOf(eng', i) = {eng.nextOp}
    BY <1>1, <2>1, <2>3 DEF StartOf
  <2>5. MaskOf(eng', i) = mask
    <3>1. {y \in eng'.groups : y.id = i} = {x}
      BY <2>1, <2>3
    <3>2. {k \in DOMAIN eng'.pending : eng'.pending[k].id = i} = {}
      BY <1>4, <1>9 DEF NotPending
    <3>3. {y.waiting : y \in {y \in eng'.groups : y.id = i}} = {mask}
      BY <2>1, <3>1
    <3> QED BY <3>2, <3>3 DEF MaskOf
  <2>6. NextStatus(w, eng', i) = "open"
    BY <1>1, <1>5, <2>1, <2>3 DEF NextStatus, Known, Entry
  <2>7. w \in BookEntry /\ w.status = "new" /\ w.op = 0 /\ w.answered = {} /\ w.bad = {}
    BY <1>5 DEF EntryOK, Entry
  <2>8. v = WrittenOf(w, eng', i, eng.nextOp)
    BY <2>4, <2>7, WrittenFields
  <2>9. Answered(Mine(eng', eng.nextOp)) = {} /\ Failed(Mine(eng', eng.nextOp)) = {}
    BY <1>1 DEF Mine, Answered, Failed
  <2>10. v = [status |-> "open", op |-> eng.nextOp, mask |-> mask, answered |-> {}, bad |-> {}]
    BY <1>3, <2>5, <2>6, <2>7, <2>8, <2>9 DEF WrittenOf
  <2> HIDE DEF v
  <2>11. /\ v.op = eng.nextOp /\ v.mask = mask /\ v.answered = {} /\ v.bad = {}
    BY <2>10
  <2>12. /\ eng'.nextOp = eng.nextOp + 1
         /\ \A a \in Addr0 : eng'.cur[a] = IF a \in mask THEN [op |-> eng.nextOp, cmd |-> c]
                                           ELSE eng.cur[a]
    <3>1. x \notin eng.groups
      BY <1>4, <2>1
    <3> QED BY <1>1, <2>2, <3>1
  <2>13. \A a \in Addr0 : eng'.cur[a].op = x.op => a \in x.waiting
    <3> SUFFICES ASSUME NEW a \in Addr0, a \notin mask PROVE eng'.cur[a].op # eng.nextOp
      BY <2>1
    <3>1. eng'.cur[a] = eng.cur[a]
      BY <2>12
    <3>2. NoOp.op = 0
      BY DEF NoOp
    <3>3. CASE Active(eng, a)
      <4>1. eng.cur[a].op < eng.nextOp /\ eng.cur[a].op \in Nat
        BY <1>3, <3>3 DEF StepInvariant, Numbered, EngineState, Op
      <4> QED BY <1>3, <3>1, <4>1
    <3>4. CASE ~Active(eng, a)
      BY <1>3, <3>1, <3>2, <3>4 DEF Active
    <3> QED BY <3>3, <3>4
  <2>14. Runs(v, i, Slot', x)
    <3>1. NotPending(Slot'.pending, i) /\ NotReported(Slot', i)
      BY <1>2, <1>4, <1>9 DEF NotReported
    <3>2. Answered(Mine(Slot', x.op)) = {} /\ Failed(Mine(Slot', x.op)) = {}
      BY <1>2 DEF Mine, Answered, Failed
    <3>3. 0 < x.op /\ x.op < Slot'.nextOp /\ v.op \in {0, x.op}
      BY <1>2, <1>3, <2>1, <2>11, <2>12
    <3>4. x \in Slot'.groups /\ \A h \in Slot'.groups : h.id = i => h = x
      BY <1>2, <2>3
    <3>5. \A a \in Addr0 : Slot'.cur[a].op = x.op => a \in x.waiting
      BY <1>2, <2>13
    <3> QED BY <2>1, <2>11, <3>1, <3>2, <3>3, <3>4, <3>5 DEF Runs
  <2>15. x \in Slot'.groups
    BY <1>2, <2>3
  <2>16. Served(w, v, i, Slot') /\ v.status # "dropped"
    BY <1>3, <1>7, <2>10, <2>11, <2>14, <2>15 DEF v
  <2> QED BY <2>16 DEF v
<1> QED BY <1>1, <1>8, <1>9


(* The groups that executeGroupCommand does not accept *)
LEMMA OthersOfGroupCommand ==
  ASSUME StepInvariant, GroupsNumbered(Slot),
         NEW c \in GroupCmds, NEW mask \in (SUBSET Addr) \ {{}}, ExecuteGroupCommand(c, mask),
         NEW w, EntryOK(w), NEW i \in Nat, Tracks(w, i, Slot), i # eng.nextGroup
  PROVE  Tracks(w, i, eng')
<1> DEFINE g == [id |-> eng.nextGroup, cmd |-> c, mask |-> mask]
<1>1. /\ eng' \in EngineState /\ eng'.done = {} /\ eng'.reports = {}
      /\ eng'.nextGroup = eng.nextGroup + 1
      /\ \/ /\ eng'.groups = eng.groups /\ eng'.pending = Append(eng.pending, g)
            /\ eng'.cur = eng.cur /\ eng'.nextOp = eng.nextOp
         \/ /\ eng'.groups = eng.groups \cup {NewGroup(eng, g)}
            /\ eng'.pending = eng.pending
            /\ \A a \in Addr0 : eng'.cur[a] = IF a \in mask THEN [op |-> eng.nextOp, cmd |-> c]
                                              ELSE eng.cur[a]
            /\ eng'.nextOp = eng.nextOp + 1
  BY ExecuteGroupCommandFields, ConstantsAssumption DEF StepInvariant
<1>2. /\ Slot \in EngineState /\ Slot.cur = eng.cur /\ Slot.groups = eng.groups
      /\ Slot.pending = eng.pending /\ Slot.nextOp = eng.nextOp
      /\ Slot.nextGroup = eng.nextGroup /\ Slot.done = {} /\ Slot.reports = {}
  BY SlotFields DEF StepInvariant
<1>3. eng.nextGroup \in Nat /\ eng.nextOp \in Nat /\ eng.pending \in Seq(PendingGroup)
  BY SlotFields DEF StepInvariant, EngineState
<1>4. g \in PendingGroup /\ g.id # i /\ NewGroup(eng, g).id # i
  BY <1>3, ConstantsAssumption DEF PendingGroup, NewGroup
<1> HIDE DEF g
<1>5. /\ NotPending(Slot.pending, i) => NotPending(eng'.pending, i)
      /\ \A m : PendingOnce(Slot.pending, i, m) => PendingOnce(eng'.pending, i, m)
  <2>1. CASE eng'.pending = eng.pending
    BY <1>2, <2>1
  <2>2. CASE eng'.pending = Append(eng.pending, g)
    BY <1>2, <1>3, <1>4, <2>2, PendingAppend
  <2> QED BY <1>1, <2>1, <2>2
<1>6. \A x : x.id = i => (x \in eng'.groups <=> x \in Slot.groups)
  BY <1>1, <1>2, <1>4
<1>7. Slot.nextOp <= eng'.nextOp
  BY <1>1, <1>2, <1>3
<1>8. \A a \in Addr0 : eng'.cur[a] = Slot.cur[a] \/ eng'.cur[a].op >= Slot.nextOp
  <2> TAKE a \in Addr0
  <2>1. CASE eng'.cur[a] = [op |-> eng.nextOp, cmd |-> c]
    <3>1. eng'.cur[a].op = eng.nextOp
      BY <2>1
    <3> QED BY <1>2, <1>3, <3>1
  <2>2. CASE eng'.cur[a] = eng.cur[a]
    BY <1>2, <2>2
  <2> QED BY <1>1, <2>1, <2>2
<1>9. (i < eng'.nextGroup <=> i < Slot.nextGroup) /\ (i >= eng'.nextGroup <=> i >= Slot.nextGroup)
  BY <1>1, <1>2, <1>3
<1>10. w \in BookEntry
  BY DEF EntryOK
<1> QED BY <1>1, <1>2, <1>5, <1>6, <1>7, <1>8, <1>9, <1>10, OthersTrack

(* disconnect() drops the groups that are open, and no other. *)
LEMMA DisconnectServes ==
  ASSUME StepInvariant, Disconnect,
         NEW w, EntryOK(w), NEW i \in Nat, Tracks(w, i, Slot)
  PROVE  Served(w, Written(w, eng', i), i, Slot')
<1> DEFINE v == Written(w, eng', i)
<1>1. /\ eng'.cur = eng.cur /\ eng'.nextOp = eng.nextOp /\ eng'.nextGroup = eng.nextGroup
      /\ eng'.done = {} /\ eng'.reports = {} /\ eng'.groups = {} /\ eng'.pending = <<>>
  BY DisconnectFields DEF StepInvariant
<1>2. eng' \in EngineState
  BY DisconnectHealthy DEF StepInvariant, Inv, Healthy, Sound
<1>3. /\ Slot'.cur = eng'.cur /\ Slot'.groups = eng'.groups /\ Slot'.pending = eng'.pending
      /\ Slot'.nextOp = eng'.nextOp /\ Slot'.nextGroup = eng'.nextGroup
      /\ Slot'.done = {} /\ Slot'.reports = {}
  BY <1>2, NextSlot DEF SignalsTaken
<1>4. /\ Slot.cur = eng.cur /\ Slot.nextOp = eng.nextOp /\ Slot.nextGroup = eng.nextGroup
  BY SlotFields DEF StepInvariant
<1>5. GroupsNumbered(Slot')
  BY <1>1, <1>3 DEF GroupsNumbered
<1>6. w \in BookEntry /\ (w.status = "new" => w = Entry)
  BY DEF EntryOK
<1>7. CASE w.status = "dropped"
  <2>1. v = w
    BY <1>7 DEF Written
  <2> HIDE DEF v
  <2>2. Tracks(w, i, Slot')
    BY <1>1, <1>3, <1>4, <1>7 DEF Tracks
  <2>3. Served(w, v, i, Slot')
    BY <1>5, <2>1, <2>2 DEF Served, ServiceStep
  <2> QED BY <2>3 DEF v
<1>8. CASE w.status # "dropped"
  <2>1. StartOf(eng', i) = {} /\ ~Known(eng', i) /\ MaskOf(eng', i) = {}
    BY <1>1 DEF StartOf, Known, MaskOf
  <2>2. Answered(Mine(eng', w.op)) = {} /\ Failed(Mine(eng', w.op)) = {}
    BY <1>1 DEF Mine, Answered, Failed
  <2>3. v = WrittenOf(w, eng', i, w.op)
    BY <1>6, <1>8, <2>1, WrittenFields
  <2>4. NextStatus(w, eng', i) = IF w.status = "open" THEN "dropped" ELSE w.status
    BY <1>1, <2>1 DEF NextStatus
  <2>5. (IF w.status = "new" THEN MaskOf(eng', i) ELSE w.mask) = w.mask
    BY <1>6, <2>1 DEF Entry
  <2>6. v = [status |-> IF w.status = "open" THEN "dropped" ELSE w.status, op |-> w.op,
             mask |-> w.mask, answered |-> w.answered, bad |-> w.bad]
    BY <2>2, <2>3, <2>4, <2>5 DEF WrittenOf
  <2> HIDE DEF v
  <2>7. CASE w.status = "open"
    <3>1. /\ v.status = "dropped" /\ v.op = w.op /\ v.mask = w.mask
          /\ v.answered = w.answered /\ v.bad = w.bad
      BY <2>6, <2>7
    <3>2. EntryOK(v)
      BY <2>6, <2>7, <3>1 DEF EntryOK, BookEntry
    <3>3. Tracks(v, i, Slot')
      BY <1>1, <1>3, <1>4, <2>7, <3>1 DEF Tracks
    <3>4. Service!Drops(Shown(w), Shown(v))
      BY <2>7, <3>1 DEF Service!Drops, Shown
    <3>5. Served(w, v, i, Slot')
      BY <1>5, <3>2, <3>3, <3>4 DEF Served, ServiceStep
    <3> QED BY <3>5 DEF v
  <2>8. CASE w.status # "open"
    <3>1. v = w
      BY <1>6, <2>6, <2>8 DEF BookEntry
    <3>2. w.status \in {"ok", "failed"} => IsOver(w, i, Slot')
      BY <1>1, <1>3, <1>4
      DEF Tracks, IsOver, NotPending, NotRunning, NotReported, Mine
    <3>3. Tracks(w, i, Slot')
      BY <1>1, <1>3, <1>4, <2>8, <3>2 DEF Tracks
    <3>4. Served(w, v, i, Slot')
      BY <1>5, <3>1, <3>3 DEF Served, ServiceStep
    <3> QED BY <3>4 DEF v
  <2> QED BY <2>7, <2>8
<1> QED BY <1>7, <1>8

(* Every slot moves every group by a step of the service, and only           *)
(* disconnect() drops one.                                                   *)
LEMMA StepServes ==
  ASSUME StepInvariant, GroupsNumbered(Slot), Next,
         NEW w, EntryOK(w), NEW i \in Nat, Tracks(w, i, Slot)
  PROVE  /\ Served(w, Written(w, eng', i), i, Slot')
         /\ Written(w, eng', i).status = "dropped" /\ w.status # "dropped"
              => disconnects' # disconnects
<1>1. StepInvariant'
  BY StepStepInvariant
<1>2. eng' \in EngineState /\ GroupsOK(eng')
  BY <1>1 DEF StepInvariant, Inv, Healthy, Sound
<1>3. Slot' \in EngineState /\ SignalsTaken(eng', Slot')
  BY <1>2, NextSlot
<1>4. CASE Disconnect
  <2>1. disconnects' = disconnects + 1 /\ disconnects \in Nat
    BY <1>4, DisconnectFields DEF StepInvariant, Inv
  <2> QED BY <1>4, <2>1, DisconnectServes
<1>5. CASE \E c \in GroupCmds, mask \in (SUBSET Addr) \ {{}} : ExecuteGroupCommand(c, mask)
  <2>1. PICK c \in GroupCmds, mask \in (SUBSET Addr) \ {{}} : ExecuteGroupCommand(c, mask)
    BY <1>5
  <2>2. CASE i = eng.nextGroup
    BY <2>1, <2>2, AcceptedTracks
  <2>3. CASE i # eng.nextGroup
    <3>1. Tracks(w, i, eng')
      BY <2>1, <2>3, OthersOfGroupCommand
    <3>2. GroupsNumbered(eng')
      BY <2>1, GroupCommandNumbered
    <3> QED BY <1>2, <1>3, <3>1, <3>2, TiedIsServed
  <2> QED BY <2>2, <2>3
<1>6. CASE /\ ~Disconnect
           /\ ~ \E c \in GroupCmds, mask \in (SUBSET Addr) \ {{}} : ExecuteGroupCommand(c, mask)
  <2> DEFINE S == Tied(w, i)
  <2>1. w \in BookEntry /\ eng \in EngineState /\ Slot \in EngineState /\ Healthy(Slot)
    BY SlotFields DEF EntryOK, StepInvariant
  <2>2. Slot \in S
    BY <2>1, SlotDuring DEF Tied
  <2>3. Closed(S)
    BY <2>1, TiedClosed
  <2> HIDE DEF S
  <2>4. eng' \in S
    BY <1>6, <2>1, <2>2, <2>3, SlotStays
  <2>5. Tracks(w, i, eng') /\ GroupsNumbered(eng')
    BY <2>4 DEF S, Tied
  <2> QED BY <1>2, <1>3, <2>5, TiedIsServed
<1> QED BY <1>4, <1>5, <1>6

-----------------------------------------------------------------------------
(* The theorems *)

LEMMA BookInitInv == BookInit => BookInv
<1> SUFFICES ASSUME BookInit PROVE BookInv
  OBVIOUS
<1>1. StepInvariant
  BY InitStepInvariant DEF BookInit
<1>2. /\ Slot.groups = {} /\ Slot.pending = <<>> /\ Slot.reports = {} /\ Slot.nextGroup = 1
  BY <1>1, SlotFields DEF BookInit, Init, StepInvariant
<1>3. GroupsNumbered(Slot)
  BY <1>2 DEF GroupsNumbered
<1>4. Ids \subseteq Nat /\ \A i \in Ids : i >= 1
  BY ConstantsAssumption DEF Ids
<1>5. Entry \in BookEntry /\ EntryOK(Entry) /\ Entry.status = "new"
  BY DEF Entry, BookEntry, EntryOK
<1>6. book \in [Ids -> BookEntry] /\ \A i \in Ids : book[i] = Entry
  BY <1>5 DEF BookInit
<1>7. \A i \in Ids : Tracks(Entry, i, Slot)
  BY <1>2, <1>4, <1>5 DEF Tracks
<1> QED BY <1>1, <1>3, <1>5, <1>6, <1>7 DEF BookInv

LEMMA BookStep ==
  ASSUME BookInv, BookNext
  PROVE  /\ BookInv'
         /\ \A i \in Ids :
              /\ ServiceStep(Shown(book[i]), Shown(book'[i]))
              /\ book'[i].status = "dropped" /\ book[i].status # "dropped"
                   => disconnects' # disconnects
<1>1. Ids \subseteq Nat
  BY ConstantsAssumption DEF Ids
<1>2. StepInvariant'
  BY StepStepInvariant DEF BookInv, BookNext
<1>3. \A i \in Ids : /\ Served(book[i], book'[i], i, Slot')
                     /\ book'[i].status = "dropped" /\ book[i].status # "dropped"
                          => disconnects' # disconnects
  <2> TAKE i \in Ids
  <2>1. book'[i] = Written(book[i], eng', i)
    BY DEF BookNext
  <2>2. EntryOK(book[i]) /\ Tracks(book[i], i, Slot) /\ StepInvariant /\ GroupsNumbered(Slot)
    BY DEF BookInv
  <2> QED BY <1>1, <2>1, <2>2, StepServes DEF BookNext
<1>4. book' \in [Ids -> BookEntry]
  BY <1>3 DEF BookNext, Served, EntryOK
<1>5. GroupsNumbered(Slot')
  <2>1. EntryOK(Entry) /\ Entry.status = "new"
    BY DEF EntryOK, Entry, BookEntry
  <2>2. Slot.nextGroup = eng.nextGroup /\ eng.nextGroup \in Nat /\ StepInvariant
    BY SlotFields DEF BookInv, StepInvariant, EngineState
  <2>3. Tracks(Entry, eng.nextGroup, Slot)
    BY <2>1, <2>2 DEF Tracks
  <2>4. Served(Entry, Written(Entry, eng', eng.nextGroup), eng.nextGroup, Slot')
    BY <2>1, <2>2, <2>3, StepServes DEF BookInv, BookNext
  <2> QED BY <2>4 DEF Served
<1> QED BY <1>2, <1>3, <1>4, <1>5 DEF BookInv, Served


LEMMA BookStutter == BookInv /\ UNCHANGED <<vars, book>> => BookInv'
BY DEF vars, BookInv, StepInvariant, Inv, GroupsNumbered, Tracks, Slot, Numbered, Active

(* What the engine's records say of a group and what its callers were told   *)
(* of it agree in every reachable state.                                     *)
THEOREM BookAgrees == BookSpec => []BookInv
<1>1. BookInv /\ [BookNext]_<<vars, book>> => BookInv'
  BY BookStep, BookStutter
<1> QED BY BookInitInv, <1>1, PTL DEF BookSpec

(* The engine implements the group service: executeGroupCommand is answered  *)
(* in the slot in which the last PPB of its mask completes, once, and with   *)
(* success exactly if every PPB succeeded (completeOperation's group loop).  *)
THEOREM GroupsAreServed == BookSpec => EveryGroupIsServed
<1> DEFINE shown == [i \in Ids |-> Shown(book[i])]
<1>1. BookInit => Service!Init
  <2> SUFFICES ASSUME BookInit PROVE Service!Init
    OBVIOUS
  <2>1. \A i \in Ids : book[i] = Entry
    BY DEF BookInit
  <2> QED BY <2>1 DEF Service!Init, Service!NewRequest, Entry
<1>2. BookInv /\ [BookNext]_<<vars, book>> => [Service!Next]_(shown)
  <2> SUFFICES ASSUME BookInv, BookNext PROVE Service!Next
    BY DEF Shown
  <2>1. BookInv' /\ \A i \in Ids : ServiceStep(Shown(book[i]), Shown(book'[i]))
    BY BookStep
  <2>2. \A i \in Ids : Shown(book'[i]) \in Service!Request
    BY <2>1 DEF BookInv, BookEntry, Shown, Service!Request
  <2> QED BY <2>1, <2>2 DEF Service!Next, ServiceStep, Shown
<1> QED BY BookAgrees, <1>1, <1>2, PTL DEF BookSpec, EveryGroupIsServed, Service!Spec, Shown

(* No path of the engine but disconnect() forgets a group command. *)
THEOREM OnlyDisconnectDrops == BookSpec => DroppedByDisconnectOnly
<1>1. BookInv /\ [BookNext]_<<vars, book>>
        => [\A i \in Ids : book'[i].status = "dropped" /\ book[i].status # "dropped"
              => disconnects' # disconnects]_<<vars, book>>
  BY BookStep
<1> QED BY BookAgrees, <1>1, PTL DEF BookSpec, DroppedByDisconnectOnly
=============================================================================
