------------------------------ MODULE Releases ------------------------------
(***************************************************************************)
(* UpdateManager: the list of the releases, the one that is offered, its   *)
(* download, its check and its start.                                      *)
(*                                                                         *)
(* A version is its core and its prerelease identifiers, an identifier a   *)
(* number or a word; cores, numbers and words are ranks.                   *)
(***************************************************************************)
EXTENDS Integers, Sequences, SequencesExt

CONSTANTS
  Versions,  (* the versions there are                                       *)
  Listings   (* the lists of releases that can come: see Release             *)

Identifier == [number : BOOLEAN, rank : Nat]
Version == [core : Nat, prerelease : Seq(Identifier)]

(* tagged: the tag is a version; marked: the prerelease mark; installer:   *)
(* an asset of the right name and place; digest: parseSha256Digest has one *)
Release == [version : Versions, tagged : BOOLEAN, draft : BOOLEAN, marked : BOOLEAN, installer : BOOLEAN, digest : BOOLEAN]

(* GitHub's mark agrees with the tag: the workflow that makes a release    *)
(* marks it exactly if its version has a hyphen.                           *)
MarkedByItsTag(r) == r.tagged => (r.marked <=> r.version.prerelease # <<>>)

ASSUME ReleasesAssumption ==
  /\ Versions \subseteq Version /\ Listings \subseteq Seq(Release)
  /\ \A list \in Listings : \A i \in DOMAIN list : MarkedByItsTag(list[i])

VARIABLES
  current,  (* the version that runs                                         *)
  listing,  (* history: the list that came                                   *)
  offered,  (* best, then m_downloadCandidate                                *)
  pc,       (* start, listed, offer, download, failed, declined, installed   *)
  saved     (* the file at m_downloadPath: no, whole, other                  *)

releaseVars == <<current, listing, offered, pc, saved>>

Nothing == <<>>

ReleasesInit ==
  /\ current \in Versions /\ listing = <<>> /\ offered = Nothing
  /\ pc = "start" /\ saved = "no"

-----------------------------------------------------------------------------
Sign(a, b) == IF a < b THEN -1 ELSE IF a > b THEN 1 ELSE 0

(* Mutant: identifiers are compared as words, numbers or not.              *)
CompareIdentifiersAsWords(a, b) == Sign(a.rank, b.rank)

ComparePrereleaseIdentifier(a, b) ==
  IF a.number = b.number THEN Sign(a.rank, b.rank) ELSE IF a.number THEN -1 ELSE 1

(* The first identifier that differs decides, else the number of them.     *)
ComparePrereleases(a, b) ==
  LET first == SelectInSeq([i \in 1 .. Len(a) |-> i],
                           LAMBDA i : i <= Len(b) /\ ComparePrereleaseIdentifier(a[i], b[i]) # 0)
  IN  IF first # 0 THEN ComparePrereleaseIdentifier(a[first], b[first]) ELSE Sign(Len(a), Len(b))

CompareSemVer(a, b) ==
  IF a.core # b.core THEN Sign(a.core, b.core)
  ELSE IF a.prerelease = <<>> \/ b.prerelease = <<>> THEN Sign(Len(b.prerelease), Len(a.prerelease))
  ELSE ComparePrereleases(a.prerelease, b.prerelease)

Acceptable(r) ==
  /\ ~r.draft /\ (r.marked => current.prerelease # <<>>)
  /\ r.tagged /\ r.installer

Best(list) ==
  FoldLeft(LAMBDA best, r :
    IF /\ Acceptable(r) /\ CompareSemVer(r.version, current) > 0
       /\ best = Nothing \/ CompareSemVer(r.version, best[1].version) > 0
    THEN <<r>> ELSE best, Nothing, list)

-----------------------------------------------------------------------------
HandleReleaseList(list) ==
  /\ pc = "start"
  /\ listing' = list /\ offered' = Best(list)
  /\ pc' = IF Best(list) = Nothing THEN "listed" ELSE "offer"
  /\ UNCHANGED <<current, saved>>

(* offerUpdate; downloadAndInstall may find no place for the file *)
OfferUpdate ==
  /\ pc = "offer"
  /\ \/ pc' = "declined" /\ UNCHANGED saved
     \/ pc' = "failed" /\ saved' = "no"
     \/ pc' = "download" /\ saved' = "other"
  /\ UNCHANGED <<current, listing, offered>>

(* Mutant: what does not match the digest is not started, but stays.       *)
FinishedLeavesFile ==
  /\ pc = "download"
  /\ \/ saved' = "no" /\ pc' \in {"failed", "declined"}
     \/ /\ saved' \in {"whole", "other"}
        /\ pc' \in IF offered[1].digest /\ saved' # "whole" THEN {"failed"} ELSE {"failed", "installed"}
  /\ UNCHANGED <<current, listing, offered>>

(* The reply has finished: with an error, or by the user's cancel, and the *)
(* file is removed; or without, and the file is what could be written.     *)
(* With a digest it is checked; what is left may still fail to start.      *)
Finished ==
  /\ pc = "download"
  /\ \/ saved' = "no" /\ pc' \in {"failed", "declined"}
     \/ \E content \in {"whole", "other"} :
          IF offered[1].digest /\ content # "whole"
          THEN saved' = "no" /\ pc' = "failed"
          ELSE saved' = content /\ pc' \in {"failed", "installed"}
  /\ UNCHANGED <<current, listing, offered>>

ReleasesNext == (\E list \in Listings : HandleReleaseList(list)) \/ OfferUpdate \/ Finished

ReleasesSpec == ReleasesInit /\ [][ReleasesNext]_releaseVars

-----------------------------------------------------------------------------
(* The precedence of the rules of semantic versioning: a prerelease comes  *)
(* before its release and, of two, the one that is a beginning of the      *)
(* other or has the lower identifier where they part, numbers before words *)
PrecedesIdentifier(a, b) == \/ a.number /\ ~b.number
                            \/ a.number = b.number /\ a.rank < b.rank

Precedes(a, b) ==
  \/ a.core < b.core
  \/ /\ a.core = b.core /\ a.prerelease # <<>>
     /\ \/ b.prerelease = <<>>
        \/ a.prerelease # b.prerelease /\ IsPrefix(a.prerelease, b.prerelease)
        \/ \E i \in DOMAIN a.prerelease \cap DOMAIN b.prerelease :
             /\ PrecedesIdentifier(a.prerelease[i], b.prerelease[i])
             /\ \A j \in 1 .. i - 1 : a.prerelease[j] = b.prerelease[j]

(* The update policy of docs/PROJECT_RULES.md: a stable build ignores      *)
(* prereleases, which are told by their versions, a prerelease build takes *)
(* both; drafts and what has no version or no installer are ignored.       *)
MayReceive(r) ==
  /\ r.tagged /\ ~r.draft /\ r.installer
  /\ current.prerelease = <<>> => r.version.prerelease = <<>>

(* In whatever order the releases are listed, what is offered is one that  *)
(* the policy lets this build receive, newer than it is, and no such       *)
(* release is newer; nothing is offered only if there is none.  So the     *)
(* update is never a step back, nor a stop at a release in between, nor a  *)
(* prerelease for a stable build, whose code looks at GitHub's mark only.  *)
OfferIsBest ==
  LET newer == {r \in ToSet(listing) : MayReceive(r) /\ Precedes(current, r.version)} IN
  /\ offered # Nothing => offered[1] \in newer /\ \A r \in newer : ~Precedes(offered[1].version, r.version)
  /\ pc = "listed" => newer = {}

(* If there is a digest, the installer that runs is the whole one, and so  *)
(* is any that is left behind for the user to find when the start fails.   *)
InstallerIsWhole ==
  pc \in {"failed", "declined", "installed"} /\ offered[1].digest => saved \in {"no", "whole"}
=============================================================================
