--------------------------- MODULE MCPeripherals ---------------------------
(* The parts that share no state with the engine and none with each other: *)
(* a behavior of this module is one of one of them, chosen at the start.   *)
EXTENDS Generator, LogFile, HexImage, StatusData, Releases

VARIABLE part

(* The frequency is a number, with a tolerance; the output is on or off. *)
Ranges == [s \in Settings |-> IF s = "OUTP" THEN {0, 1} ELSE Values]
Tolerances == [s \in Settings |-> IF s = "OUTP" THEN 0 ELSE 1]

HexLines ==
  {[kind |-> k, type |-> 0, zero |-> TRUE, size |-> 0] : k \in {"blank", "broken"}}
  \cup {[kind |-> "record", type |-> 0, zero |-> FALSE, size |-> s] : s \in {0, 2, 5}}
  \cup {[kind |-> "record", type |-> t, zero |-> z, size |-> s] : t \in 1 .. 6, z \in BOOLEAN, s \in {0, 2, 4}}

StatusMasks == SUBSET {1, 2, 3, 4, 9, 24}

Numbered(n) == [number |-> TRUE, rank |-> n]
Worded(n) == [number |-> FALSE, rank |-> n]
ReleaseVersions ==
  {[core |-> 1, prerelease |-> p] : p \in {<<>>, <<Numbered(2)>>, <<Worded(1)>>, <<Worded(1), Numbered(1)>>}}
  \cup {[core |-> 2, prerelease |-> p] : p \in {<<>>, <<Worded(1)>>}}
Usable(v) == [version |-> v, tagged |-> TRUE, draft |-> FALSE, marked |-> v.prerelease # <<>>,
              installer |-> TRUE, digest |-> TRUE]
ReleaseKinds ==
  UNION {LET r == Usable(v) IN
    {r, [r EXCEPT !.tagged = FALSE, !.marked = FALSE], [r EXCEPT !.draft = TRUE],
     [r EXCEPT !.installer = FALSE], [r EXCEPT !.digest = FALSE]} : v \in ReleaseVersions}
ReleaseListings == {<<>>} \cup {<<r>> : r \in ReleaseKinds} \cup (ReleaseKinds \X ReleaseKinds)

PeripheralsInit ==
  /\ part \in {"generator", "log", "image", "status", "releases"}
  /\ GeneratorInit /\ LogInit /\ HexInit /\ StatusInit /\ ReleasesInit
  /\ part # "releases" => current = [core |-> 1, prerelease |-> <<>>]
  /\ part # "generator" => device = [s \in Settings |-> 0]

PeripheralsNext ==
  /\ UNCHANGED part
  /\ \/ part = "generator" /\ GeneratorNext /\ UNCHANGED <<logVars, hexVars, statusVars, releaseVars>>
     \/ part = "log" /\ LogNext /\ UNCHANGED <<genVars, hexVars, statusVars, releaseVars>>
     \/ part = "image" /\ HexNext /\ UNCHANGED <<genVars, logVars, statusVars, releaseVars>>
     \/ part = "status" /\ StatusNext /\ UNCHANGED <<genVars, logVars, hexVars, releaseVars>>
     \/ part = "releases" /\ ReleasesNext /\ UNCHANGED <<genVars, logVars, hexVars, statusVars>>

(* Only the generator needs fairness; in the other parts it is disabled. *)
PeripheralsSpec ==
  /\ PeripheralsInit /\ [][PeripheralsNext]_<<part, genVars, logVars, hexVars, statusVars, releaseVars>>
  /\ GeneratorFairness
=============================================================================
