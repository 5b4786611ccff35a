---------------------------- MODULE GroupService ----------------------------
(***************************************************************************)
(* What executeGroupCommand promises its callers.  Once a group command is *)
(* accepted, every PPB of its mask completes once, and in the step that    *)
(* completes the last of them the caller is told whether all succeeded.    *)
(* Only disconnect() may leave an accepted group without an answer.        *)
(*                                                                         *)
(* A step of the service may move several groups: one completion can end   *)
(* one group and start the next.                                           *)
(***************************************************************************)
CONSTANTS Ids, Addr

VARIABLE book    (* what is known of each group command *)

Request ==
  [status : {"new", "open", "ok", "failed", "dropped"},
   mask : SUBSET Addr,       \* the PPBs it is for
   answered : SUBSET Addr,   \* those that have completed
   bad : SUBSET Addr]        \* those that have failed

NewRequest == [status |-> "new", mask |-> {}, answered |-> {}, bad |-> {}]

Verdict(b) == IF b.answered # b.mask THEN "open" ELSE IF b.bad = {} THEN "ok" ELSE "failed"

Init == book = [i \in Ids |-> NewRequest]

Accepts(b, b2) ==
  /\ b.status = "new" /\ b2.mask # {}
  /\ b2 = [b EXCEPT !.status = "open", !.mask = b2.mask]

Completes(b, b2) ==
  LET members == b2.answered \ b.answered
  IN  /\ b.status = "open"
      /\ members # {} /\ members \subseteq b.mask
      /\ b2.bad \ b.bad \subseteq members
      /\ b.bad \subseteq b2.bad /\ b.answered \subseteq b2.answered
      /\ b2.mask = b.mask
      /\ b2.status = Verdict(b2)

Drops(b, b2) == b.status = "open" /\ b2 = [b EXCEPT !.status = "dropped"]

Next ==
  /\ book' \in [Ids -> Request]
  /\ \A i \in Ids : \/ book'[i] = book[i]
                    \/ Accepts(book[i], book'[i])
                    \/ Completes(book[i], book'[i])
                    \/ Drops(book[i], book'[i])

Spec == Init /\ [][Next]_book

(* Every accepted group command ends. *)
EveryGroupEnds == \A i \in Ids : book[i].status = "open" ~> book[i].status # "open"
=============================================================================
