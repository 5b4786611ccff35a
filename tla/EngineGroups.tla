---------------------------- MODULE EngineGroups ----------------------------
(***************************************************************************)
(* The engine implements GroupService, for all its group commands. book is a  *)
(* history variable: what a caller who listens to commandCompleted and     *)
(* groupCommandCompleted could write down about each group.  It takes      *)
(* outcomes from the completions and not from the engine's own group       *)
(* records, so that the two are compared.  The operations of a dropped     *)
(* group may still complete; nobody waits for them.                        *)
(***************************************************************************)
EXTENDS Engine

VARIABLE book

Ids == 1 .. MaxCalls
Entry == [status |-> "new", op |-> 0, mask |-> {}, answered |-> {}, bad |-> {}]

(* The start that group i has in e: while it runs, or in its report. *)
StartOf(e, i) == {g.op : g \in {x \in e.groups \cup e.reports : x.id = i}}

Known(e, i) == \/ \E g \in e.groups : g.id = i
               \/ \E k \in DOMAIN e.pending : e.pending[k].id = i

(* The members of a group that has just been accepted. *)
MaskOf(e, i) ==
  UNION ({g.waiting : g \in {x \in e.groups : x.id = i}}
         \cup {e.pending[k].mask : k \in {k \in DOMAIN e.pending : e.pending[k].id = i}})

NextStatus(b, e, i) ==
  IF \E r \in e.reports : r.id = i
  THEN IF \A r \in e.reports : r.id = i => r.ok THEN "ok" ELSE "failed"
  ELSE IF b.status = "new" /\ Known(e, i) THEN "open"
  ELSE IF b.status = "open" /\ ~Known(e, i) THEN "dropped"
  ELSE b.status

Written(b, e, i) ==
  LET op   == IF StartOf(e, i) = {} THEN b.op ELSE CHOOSE o \in StartOf(e, i) : TRUE
      mine == {r \in e.done : r.op = op /\ r.op # 0}
  IN  IF b.status = "dropped" THEN b ELSE
      [status   |-> NextStatus(b, e, i),
       op       |-> op,
       mask     |-> IF b.status = "new" THEN MaskOf(e, i) ELSE b.mask,
       answered |-> b.answered \cup {r.addr : r \in mine},
       bad      |-> b.bad \cup {r.addr : r \in {x \in mine : ~x.ok}}]

BookInit == Init /\ book = [i \in Ids |-> Entry]
BookNext == Next /\ book' = [i \in Ids |-> Written(book[i], eng', i)]
BookSpec == BookInit /\ [][BookNext]_<<vars, book>>
FairBookSpec == BookSpec /\ Fairness

Service == INSTANCE GroupService WITH
  book <- [i \in Ids |-> [status |-> book[i].status, mask |-> book[i].mask,
                          answered |-> book[i].answered, bad |-> book[i].bad]]

-----------------------------------------------------------------------------
(* The engine implements GroupService: a group is reported in the slot in   *)
(* which its last PPB completes, never before, once, and with success       *)
(* exactly if all its PPBs succeeded (completeOperation's group loop).      *)
EveryGroupIsServed == Service!Spec

(* And every accepted group is reported in the end, or dropped. *)
EveryGroupEnds == Service!EveryGroupEnds

(* No path of the engine but disconnect() forgets a group.                  *)
DroppedByDisconnectOnly ==
  [][\A i \in Ids : book'[i].status = "dropped" /\ book[i].status # "dropped"
                      => disconnects' # disconnects]_<<vars, book>>
=============================================================================
