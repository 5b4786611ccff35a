-------------------------- MODULE PeripheralsProofs --------------------------
(***************************************************************************)
(* What holds of the parts that share no state with the engine, for every  *)
(* list of releases, every sequence of answers, every HEX file and every   *)
(* sequence of log entries: the update manager, the status of the PPBs,    *)
(* the firmware image and the log files.                                   *)
(*                                                                         *)
(* All are loops over data.  A loop is a fold in the model; a lemma turns  *)
(* it into a function of the number of its turns, with the lemmas of       *)
(* SequenceInduction, and what the loop does is then shown by induction on *)
(* that number.                                                            *)
(***************************************************************************)
EXTENDS Releases, StatusData, HexImage, LogFile, SequenceInduction, FiniteSetTheorems

-----------------------------------------------------------------------------
(* Releases: the installer *)

(* How far the manager is says what is at the place of the download: there *)
(* is no file before one is downloaded; while it is, anything; and when it *)
(* is over, a file that a digest vouches for, if there is a digest.        *)
ReleasesInv ==
  /\ pc \in {"start", "listed", "offer", "download", "failed", "declined", "installed"}
  /\ pc \in {"start", "listed", "offer"} => saved = "no"
  /\ InstallerIsWhole

(* Each step of the manager keeps it. *)
LEMMA ReleasesStep == ReleasesInv /\ [ReleasesNext]_releaseVars => ReleasesInv'
<1> SUFFICES ASSUME ReleasesInv, [ReleasesNext]_releaseVars PROVE ReleasesInv'
  OBVIOUS
<1> USE DEF ReleasesInv, InstallerIsWhole
<1>1. ASSUME NEW list \in Listings, HandleReleaseList(list) PROVE ReleasesInv'
  BY <1>1 DEF HandleReleaseList
<1>2. CASE OfferUpdate
  <2>1. CASE pc' = "declined" /\ UNCHANGED saved
    BY <1>2, <2>1 DEF OfferUpdate
  <2>2. CASE pc' = "failed" /\ saved' = "no"
    BY <2>2
  <2>3. CASE pc' = "download"
    BY <2>3
  <2> QED BY <1>2, <2>1, <2>2, <2>3 DEF OfferUpdate
<1>3. CASE Finished
  <2>1. CASE saved' = "no" /\ pc' \in {"failed", "declined"}
    BY <2>1
  <2>2. ASSUME NEW content \in {"whole", "other"}, offered[1].digest /\ content # "whole",
               saved' = "no" /\ pc' = "failed"
        PROVE  ReleasesInv'
    BY <2>2
  <2>3. ASSUME NEW content \in {"whole", "other"}, ~(offered[1].digest /\ content # "whole"),
               saved' = content /\ pc' \in {"failed", "installed"}
        PROVE  ReleasesInv'
    BY <1>3, <2>3 DEF Finished
  <2> QED BY <1>3, <2>1, <2>2, <2>3 DEF Finished
<1>4. CASE UNCHANGED releaseVars
  BY <1>4 DEF releaseVars
<1> QED BY <1>1, <1>2, <1>3, <1>4 DEF ReleasesNext

(* The installer that runs, or that is left behind, is the whole one when   *)
(* there is a digest: whatever ended the download - an error, a cancel, a   *)
(* short file - and also if the start then fails (onDownloadFinished).      *)
THEOREM OnlyWholeInstallers == ReleasesSpec => []InstallerIsWhole
<1>1. ReleasesInit => ReleasesInv
  BY DEF ReleasesInit, ReleasesInv, InstallerIsWhole
<1>2. ReleasesInv => InstallerIsWhole
  BY DEF ReleasesInv
<1> QED BY <1>1, <1>2, ReleasesStep, PTL DEF ReleasesSpec

-----------------------------------------------------------------------------
(* Releases: the precedence of versions *)

(* Where two prereleases part: they are equal up to the place n, and there  *)
(* the first has ended or has the lower identifier.                         *)
PartsAt(p, q, n) ==
  /\ n \in Nat \ {0} /\ n <= Len(q) /\ n <= Len(p) + 1
  /\ \A j \in 1 .. n - 1 : p[j] = q[j]
  /\ n <= Len(p) => PrecedesIdentifier(p[n], q[n])

Parts(p, q) == \E n \in Nat : PartsAt(p, q, n)

(* The identifiers are ordered. *)
LEMMA PrecedesIdentifierOrders ==
  /\ \A a \in Identifier : ~PrecedesIdentifier(a, a)
  /\ \A a, b, c \in Identifier :
       PrecedesIdentifier(a, b) /\ PrecedesIdentifier(b, c) => PrecedesIdentifier(a, c)
BY DEF Identifier, PrecedesIdentifier

(* The comparison of two identifiers is their order. *)
LEMMA ComparesIdentifiers ==
  ASSUME NEW a \in Identifier, NEW b \in Identifier
  PROVE  /\ ComparePrereleaseIdentifier(a, b) \in Int
         /\ ComparePrereleaseIdentifier(a, b) > 0 <=> PrecedesIdentifier(b, a)
         /\ ComparePrereleaseIdentifier(a, b) = 0 <=> a = b
<1>1. /\ a.number \in BOOLEAN /\ a.rank \in Nat /\ b.number \in BOOLEAN /\ b.rank \in Nat
      /\ a = b <=> a.number = b.number /\ a.rank = b.rank
  BY DEF Identifier
<1>2. CASE a.number = b.number
  <2>1. ComparePrereleaseIdentifier(a, b) = Sign(a.rank, b.rank)
    BY <1>2 DEF ComparePrereleaseIdentifier
  <2>2. PrecedesIdentifier(b, a) <=> b.rank < a.rank
    BY <1>1, <1>2 DEF PrecedesIdentifier
  <2> QED BY <1>1, <1>2, <2>1, <2>2 DEF Sign
<1>3. CASE a.number # b.number
  <2>1. ComparePrereleaseIdentifier(a, b) = IF a.number THEN -1 ELSE 1
    BY <1>3 DEF ComparePrereleaseIdentifier
  <2>2. PrecedesIdentifier(b, a) <=> b.number
    BY <1>1, <1>3 DEF PrecedesIdentifier
  <2> QED BY <1>1, <1>3, <2>1, <2>2
<1> QED BY <1>2, <1>3

(* A prerelease that parts from one that parts from a third *)
LEMMA PartsTransitive ==
  ASSUME NEW p \in Seq(Identifier), NEW q \in Seq(Identifier), NEW r \in Seq(Identifier),
         Parts(p, q), Parts(q, r)
  PROVE  Parts(p, r)
<1>1. PICK m \in Nat : PartsAt(p, q, m)
  BY DEF Parts
<1>2. PICK n \in Nat : PartsAt(q, r, n)
  BY DEF Parts
<1>3. /\ m # 0 /\ m <= Len(q) /\ m <= Len(p) + 1 /\ \A j \in 1 .. m - 1 : p[j] = q[j]
      /\ n # 0 /\ n <= Len(r) /\ n <= Len(q) + 1 /\ \A j \in 1 .. n - 1 : q[j] = r[j]
      /\ m <= Len(p) => PrecedesIdentifier(p[m], q[m])
      /\ n <= Len(q) => PrecedesIdentifier(q[n], r[n])
      /\ Len(p) \in Nat /\ Len(q) \in Nat /\ Len(r) \in Nat
      /\ \A j \in 1 .. Len(p) : p[j] \in Identifier
      /\ \A j \in 1 .. Len(q) : q[j] \in Identifier
      /\ \A j \in 1 .. Len(r) : r[j] \in Identifier
  BY <1>1, <1>2 DEF PartsAt
<1>4. CASE m < n
  <2>1. q[m] = r[m] /\ \A j \in 1 .. m - 1 : p[j] = r[j]
    BY <1>3, <1>4
  <2>2. m <= Len(p) => PrecedesIdentifier(p[m], r[m])
    BY <1>3, <2>1
  <2>3. m <= Len(r)
    BY <1>3, <1>4
  <2>4. PartsAt(p, r, m)
    BY <1>3, <2>1, <2>2, <2>3 DEF PartsAt
  <2> QED BY <2>4 DEF Parts
<1>5. CASE n < m
  <2>1. p[n] = q[n] /\ n <= Len(p) /\ n <= Len(q) /\ \A j \in 1 .. n - 1 : p[j] = r[j]
    BY <1>3, <1>5
  <2>2. PrecedesIdentifier(p[n], r[n])
    BY <1>3, <2>1
  <2>3. PartsAt(p, r, n)
    BY <1>3, <2>1, <2>2 DEF PartsAt
  <2> QED BY <2>3 DEF Parts
<1>6. CASE m = n
  <2>1. \A j \in 1 .. m - 1 : p[j] = r[j]
    BY <1>3, <1>6
  <2>2. m <= Len(p) => PrecedesIdentifier(p[m], r[m])
    BY <1>3, <1>6, PrecedesIdentifierOrders
  <2> QED BY <1>3, <1>6, <2>1, <2>2 DEF Parts, PartsAt
<1> QED BY <1>3, <1>4, <1>5, <1>6

(* The comparison of the code finds the place where they part. *)
LEMMA ComparesPrereleases ==
  ASSUME NEW a \in Seq(Identifier), NEW b \in Seq(Identifier)
  PROVE  ComparePrereleases(a, b) > 0 <=> Parts(b, a)
<1> DEFINE s == [i \in 1 .. Len(a) |-> i]
           I == {i \in 1 .. Len(s) : s[i] <= Len(b) /\ ComparePrereleaseIdentifier(a[s[i]], b[s[i]]) # 0}
           first == IF I # {} THEN Min(I) ELSE 0
<1>0. /\ Len(a) \in Nat /\ Len(b) \in Nat
      /\ \A i \in 1 .. Len(a) : a[i] \in Identifier
      /\ \A i \in 1 .. Len(b) : b[i] \in Identifier
  OBVIOUS
<1>1. ComparePrereleases(a, b) =
        IF first # 0 THEN ComparePrereleaseIdentifier(a[first], b[first]) ELSE Sign(Len(a), Len(b))
  BY DEF ComparePrereleases, SelectInSeq
<1>2. I = {i \in 1 .. Len(a) : i <= Len(b) /\ a[i] # b[i]}
  <2>1. \A i \in 1 .. Len(a) : i <= Len(b) =>
          (ComparePrereleaseIdentifier(a[i], b[i]) # 0 <=> a[i] # b[i])
    <3> SUFFICES ASSUME NEW i \in 1 .. Len(a), i <= Len(b)
                 PROVE  ComparePrereleaseIdentifier(a[i], b[i]) # 0 <=> a[i] # b[i]
      OBVIOUS
    <3>1. a[i] \in Identifier /\ b[i] \in Identifier
      BY <1>0
    <3> QED BY <3>1, ComparesIdentifiers
  <2>2. 1 .. Len(s) = 1 .. Len(a) /\ \A i \in 1 .. Len(a) : s[i] = i
    BY <1>0
  <2> HIDE DEF s
  <2> QED BY <2>1, <2>2
<1> HIDE DEF I
<1>3. CASE I = {}
  <2>1. \A i \in 1 .. Len(a) : i <= Len(b) => a[i] = b[i]
    BY <1>2, <1>3
  <2>2. ComparePrereleases(a, b) > 0 <=> Len(b) < Len(a)
    BY <1>0, <1>1, <1>3 DEF Sign
  <2>3. ASSUME Len(b) < Len(a) PROVE PartsAt(b, a, Len(b) + 1)
    BY <1>0, <2>1, <2>3 DEF PartsAt
  <2>4. ASSUME NEW n \in Nat, PartsAt(b, a, n) PROVE Len(b) < Len(a)
    <3>1. n # 0 /\ n <= Len(a) /\ n <= Len(b) + 1 /\ (n <= Len(b) => PrecedesIdentifier(b[n], a[n]))
      BY <2>4 DEF PartsAt
    <3>2. ~(n <= Len(b))
      BY <1>0, <2>1, <3>1, PrecedesIdentifierOrders
    <3> QED BY <1>0, <3>1, <3>2
  <2>5. Len(b) + 1 \in Nat
    BY <1>0
  <2> QED BY <2>2, <2>3, <2>4, <2>5 DEF Parts
<1>4. CASE I # {}
  <2>1. PICK d \in I : \A i \in I : d <= i
    <3>1. I \in SUBSET Nat
      BY <1>2
    <3> QED BY <1>4, <3>1, LeastNumber
  <2>2. Min(I) \in I /\ \A i \in I : Min(I) <= i
    BY <2>1 DEF Min
  <2>3. first = Min(I) /\ first \in I
    BY <1>4, <2>2
  <2> HIDE DEF first
  <2>4. /\ first \in Nat /\ first # 0 /\ first <= Len(a) /\ first <= Len(b) /\ a[first] # b[first]
        /\ \A j \in 1 .. first - 1 : a[j] = b[j]
    <3>1. first \in 1 .. Len(a) /\ first <= Len(b) /\ a[first] # b[first]
      BY <1>2, <2>3
    <3>2. ASSUME NEW j \in 1 .. first - 1, a[j] # b[j] PROVE FALSE
      <4>1. j \in I
        BY <1>0, <1>2, <3>1, <3>2
      <4> QED BY <2>2, <2>3, <3>1, <4>1
    <3> QED BY <3>1, <3>2
  <2>5. ComparePrereleases(a, b) > 0 <=> PrecedesIdentifier(b[first], a[first])
    <3>1. ComparePrereleases(a, b) = ComparePrereleaseIdentifier(a[first], b[first])
      BY <1>1, <2>4
    <3>2. a[first] \in Identifier /\ b[first] \in Identifier
      BY <1>0, <2>4
    <3> QED BY <3>1, <3>2, ComparesIdentifiers
  <2>6. ASSUME PrecedesIdentifier(b[first], a[first]) PROVE PartsAt(b, a, first)
    BY <1>0, <2>4, <2>6 DEF PartsAt
  <2>7. ASSUME NEW n \in Nat, PartsAt(b, a, n) PROVE PrecedesIdentifier(b[first], a[first])
    <3>1. /\ n # 0 /\ n <= Len(a) /\ n <= Len(b) + 1 /\ \A j \in 1 .. n - 1 : b[j] = a[j]
          /\ n <= Len(b) => PrecedesIdentifier(b[n], a[n])
      BY <2>7 DEF PartsAt
    <3>2. n <= first
      BY <2>4, <3>1
    <3>3. ~(n < first)
      BY <1>0, <2>4, <3>1, PrecedesIdentifierOrders
    <3> QED BY <2>4, <3>1, <3>2, <3>3
  <2>8. Parts(b, a) <=> \E n \in Nat : PartsAt(b, a, n)
    BY DEF Parts
  <2> QED BY <2>4, <2>5, <2>6, <2>7, <2>8
<1> QED BY <1>3, <1>4

(* The precedence of the rules in these terms *)
LEMMA PrecedesByParts ==
  ASSUME NEW a \in Version, NEW b \in Version
  PROVE  Precedes(a, b) <=>
           \/ a.core < b.core
           \/ /\ a.core = b.core /\ a.prerelease # <<>>
              /\ b.prerelease = <<>> \/ Parts(a.prerelease, b.prerelease)
<1> DEFINE p == a.prerelease
           q == b.prerelease
           C == DOMAIN p \cap DOMAIN q
<1>1. /\ p \in Seq(Identifier) /\ q \in Seq(Identifier) /\ Len(p) \in Nat /\ Len(q) \in Nat
      /\ DOMAIN p = 1 .. Len(p) /\ DOMAIN q = 1 .. Len(q)
  BY DEF Version
<1> HIDE DEF p, q
<1>2. ASSUME p # q, IsPrefix(p, q) PROVE Parts(p, q)
  <2>1. Len(p) <= Len(q) /\ \A j \in 1 .. Len(p) : p[j] = q[j]
    <3>1. Len(p) <= Len(q) /\ SubSeq(p, 1, Len(p)) = SubSeq(q, 1, Len(p))
      BY <1>2 DEF IsPrefix
    <3>2. \A j \in 1 .. Len(p) : SubSeq(p, 1, Len(p))[j] = p[j] /\ SubSeq(q, 1, Len(p))[j] = q[j]
      BY <1>1, <3>1
    <3> QED BY <3>1, <3>2
  <2>2. Len(p) # Len(q)
    <3> SUFFICES ASSUME Len(p) = Len(q) PROVE p = q
      BY <1>2
    <3> QED BY <1>1, <2>1
  <2>3. PartsAt(p, q, Len(p) + 1)
    <3>1. /\ Len(p) + 1 \in Nat \ {0} /\ Len(p) + 1 <= Len(q) /\ ~(Len(p) + 1 <= Len(p))
          /\ (Len(p) + 1) - 1 = Len(p)
      <4>1. Len(p) \in Nat /\ Len(q) \in Nat /\ Len(p) <= Len(q) /\ Len(p) # Len(q)
        BY <1>1, <2>1, <2>2
      <4> QED BY <4>1
    <3> QED BY <2>1, <3>1 DEF PartsAt
  <2>4. Len(p) + 1 \in Nat
    BY <1>1
  <2> QED BY <2>3, <2>4 DEF Parts
<1>3. ASSUME NEW i \in C, PrecedesIdentifier(p[i], q[i]), \A j \in 1 .. i - 1 : p[j] = q[j]
      PROVE  Parts(p, q)
  <2>1. PartsAt(p, q, i) /\ i \in Nat
    BY <1>1, <1>3 DEF PartsAt
  <2> QED BY <2>1 DEF Parts
<1>4. ASSUME NEW n \in Nat, PartsAt(p, q, n)
      PROVE  \/ p # q /\ IsPrefix(p, q)
             \/ \E i \in C : PrecedesIdentifier(p[i], q[i]) /\ \A j \in 1 .. i - 1 : p[j] = q[j]
  <2>1. /\ n # 0 /\ n <= Len(q) /\ n <= Len(p) + 1 /\ \A j \in 1 .. n - 1 : p[j] = q[j]
        /\ n <= Len(p) => PrecedesIdentifier(p[n], q[n])
    BY <1>4 DEF PartsAt
  <2>2. CASE n <= Len(p)
    BY <1>1, <2>1, <2>2
  <2>3. CASE n = Len(p) + 1
    <3>1. Len(p) < Len(q) /\ p # q
      BY <1>1, <2>1, <2>3
    <3>2. SubSeq(p, 1, Len(p)) = SubSeq(q, 1, Len(p))
      <4>1. \A j \in 1 .. Len(p) : SubSeq(p, 1, Len(p))[j] = SubSeq(q, 1, Len(p))[j]
        BY <1>1, <2>1, <2>3, <3>1
      <4>2. /\ SubSeq(p, 1, Len(p)) \in Seq(Identifier) /\ Len(SubSeq(p, 1, Len(p))) = Len(p)
            /\ SubSeq(q, 1, Len(p)) \in Seq(Identifier) /\ Len(SubSeq(q, 1, Len(p))) = Len(p)
        BY <1>1, <3>1
      <4> DEFINE x == SubSeq(p, 1, Len(p))
                 y == SubSeq(q, 1, Len(p))
      <4>3. x \in Seq(Identifier) /\ y \in Seq(Identifier) /\ Len(x) = Len(y) /\ Len(x) = Len(p)
        BY <4>2
      <4>4. \A j \in 1 .. Len(x) : x[j] = y[j]
        BY <4>1, <4>3
      <4> HIDE DEF x, y
      <4>5. x = y
        BY <4>3, <4>4, SeqEqual
      <4> QED BY <4>5 DEF x, y
    <3> QED BY <3>1, <3>2 DEF IsPrefix
  <2> QED BY <1>1, <2>1, <2>2, <2>3
<1>5. Parts(p, q) <=> \/ p # q /\ IsPrefix(p, q)
                     \/ \E i \in C : PrecedesIdentifier(p[i], q[i]) /\ \A j \in 1 .. i - 1 : p[j] = q[j]
  BY <1>2, <1>3, <1>4 DEF Parts
<1> QED BY <1>5 DEF Precedes, p, q

(* The precedence is a strict partial order: transitive, *)
LEMMA PrecedesTransitive ==
  ASSUME NEW a \in Version, NEW b \in Version, NEW c \in Version, Precedes(a, b), Precedes(b, c)
  PROVE  Precedes(a, c)
<1>1. /\ a.core \in Nat /\ b.core \in Nat /\ c.core \in Nat
      /\ a.prerelease \in Seq(Identifier) /\ b.prerelease \in Seq(Identifier)
      /\ c.prerelease \in Seq(Identifier)
  BY DEF Version
<1> QED BY <1>1, PrecedesByParts, PartsTransitive

(* and irreflexive. *)
LEMMA PrecedesIrreflexive == \A a \in Version : ~Precedes(a, a)
<1> SUFFICES ASSUME NEW a \in Version, Precedes(a, a) PROVE FALSE
  OBVIOUS
<1>1. a.core \in Nat /\ a.prerelease \in Seq(Identifier)
  BY DEF Version
<1>2. Parts(a.prerelease, a.prerelease)
  BY <1>1, PrecedesByParts
<1>3. PICK n \in Nat : PartsAt(a.prerelease, a.prerelease, n)
  BY <1>2 DEF Parts
<1>4. n \in 1 .. Len(a.prerelease) /\ PrecedesIdentifier(a.prerelease[n], a.prerelease[n])
  BY <1>1, <1>3 DEF PartsAt
<1>5. a.prerelease[n] \in Identifier
  BY <1>1, <1>4
<1> QED BY <1>4, <1>5, PrecedesIdentifierOrders

(* The comparison of the code is the precedence of the rules. *)
LEMMA ComparesVersions ==
  ASSUME NEW a \in Version, NEW b \in Version
  PROVE  CompareSemVer(a, b) > 0 <=> Precedes(b, a)
<1>1. /\ a.core \in Nat /\ b.core \in Nat
      /\ a.prerelease \in Seq(Identifier) /\ b.prerelease \in Seq(Identifier)
      /\ Len(a.prerelease) \in Nat /\ Len(b.prerelease) \in Nat
      /\ Len(a.prerelease) = 0 <=> a.prerelease = <<>>
      /\ Len(b.prerelease) = 0 <=> b.prerelease = <<>>
  BY DEF Version
<1>2. CASE a.core # b.core
  BY <1>1, <1>2, PrecedesByParts DEF CompareSemVer, Sign
<1>3. CASE a.core = b.core /\ (a.prerelease = <<>> \/ b.prerelease = <<>>)
  <2>1. CompareSemVer(a, b) > 0 <=> Len(a.prerelease) < Len(b.prerelease)
    BY <1>1, <1>3 DEF CompareSemVer, Sign
  <2>2. Precedes(b, a) <=> b.prerelease # <<>> /\ (a.prerelease = <<>> \/ Parts(b.prerelease, a.prerelease))
    BY <1>1, <1>3, PrecedesByParts
  <2> QED BY <1>1, <1>3, <2>1, <2>2
<1>4. CASE a.core = b.core /\ a.prerelease # <<>> /\ b.prerelease # <<>>
  <2>1. CompareSemVer(a, b) = ComparePrereleases(a.prerelease, b.prerelease)
    BY <1>4 DEF CompareSemVer
  <2>2. Precedes(b, a) <=> Parts(b.prerelease, a.prerelease)
    BY <1>1, <1>4, PrecedesByParts
  <2> QED BY <1>1, <2>1, <2>2, ComparesPrereleases
<1> QED BY <1>2, <1>3, <1>4

-----------------------------------------------------------------------------
(* One turn of the loop of handleReleaseList. *)
BestOf(best, r) ==
  IF /\ Acceptable(r) /\ CompareSemVer(r.version, current) > 0
     /\ best = Nothing \/ CompareSemVer(r.version, best[1].version) > 0
  THEN <<r>> ELSE best

(* The loop of handleReleaseList, turn by turn *)
LEMMA BestIsRecursive ==
  ASSUME NEW list \in Seq(Release)
  PROVE  \E h : /\ IsRecursive(h, Seq(Release), Len(list), Nothing,
                     [p \in (1 .. Len(list)) \X Seq(Release) |-> BestOf(p[2], list[p[1]])])
                /\ Best(list) = h[Len(list)]
<1> DEFINE N == Len(list)
           V == Seq(Release)
           F == [p \in (1 .. N) \X V |-> BestOf(p[2], list[p[1]])]
           Body(it) == [s \in SUBSET (DOMAIN list) |->
                         IF s = {} THEN Nothing ELSE BestOf(it[s \ {Max(s)}], list[Max(s)])]
           iter == CHOOSE it : it = Body(it)
<1>1. N \in Nat /\ Nothing \in V /\ DOMAIN list = 1 .. N
  BY DEF Nothing
<1>2. F \in [(1 .. N) \X V -> V]
  <2>1. ASSUME NEW i \in 1 .. N, NEW v \in V PROVE BestOf(v, list[i]) \in V
    BY <2>1 DEF BestOf
  <2> QED BY <2>1
<1>3. Best(list) = iter[DOMAIN list]
  BY DEF Best, FoldLeft, MapThenFoldSet, BestOf
<1>4. PICK g : IsFold(g, V, N, Nothing, F)
  BY <1>1, <1>2, FoldExists
<1>5. g = Body(g)
  <2>1. \A s \in SUBSET (1 .. N) :
           g[s] = IF s = {} THEN Nothing ELSE F[<<Max(s), g[s \ {Max(s)}]>>]
    BY <1>4 DEF IsFold
  <2>2. \A s \in SUBSET (1 .. N) : s # {} =>
          F[<<Max(s), g[s \ {Max(s)}]>>] = BestOf(g[s \ {Max(s)}], list[Max(s)])
    <3> SUFFICES ASSUME NEW s \in SUBSET (1 .. N), s # {}
                 PROVE  F[<<Max(s), g[s \ {Max(s)}]>>] = BestOf(g[s \ {Max(s)}], list[Max(s)])
      OBVIOUS
    <3>1. Max(s) \in 1 .. N
      BY <1>1, MaxOfNumbers
    <3>2. g[s \ {Max(s)}] \in V
      BY <1>4 DEF IsFold
    <3> QED BY <3>1, <3>2
  <2>3. g = [s \in SUBSET (1 .. N) |-> g[s]]
    BY <1>4 DEF IsFold
  <2> HIDE DEF F
  <2> QED BY <1>1, <2>1, <2>2, <2>3
<1>6. iter = Body(iter)
  <2>1. \E it : it = Body(it)
    BY <1>5
  <2> HIDE DEF Body
  <2> QED BY <2>1
<1> HIDE DEF iter
<1>7. ASSUME NEW s \in SUBSET (1 .. N), s # {}, iter[s \ {Max(s)}] \in V
      PROVE  iter[s] = F[<<Max(s), iter[s \ {Max(s)}]>>]
  <2>1. Max(s) \in 1 .. N
    BY <1>1, <1>7, MaxOfNumbers
  <2>2. iter[s] = BestOf(iter[s \ {Max(s)}], list[Max(s)])
    BY <1>1, <1>6, <1>7
  <2> QED BY <1>7, <2>1, <2>2
<1>8. \E h : Follows(h, iter, V, N, Nothing, F)
  <2>1. iter[{}] = Nothing
    BY <1>6
  <2>2. \A s \in SUBSET (1 .. N) :
           s # {} /\ iter[s \ {Max(s)}] \in V => iter[s] = F[<<Max(s), iter[s \ {Max(s)}]>>]
    BY <1>7
  <2> HIDE DEF F
  <2>3. N \in Nat /\ Nothing \in V
    BY <1>1
  <2> HIDE DEF V, N
  <2>4. Iterates(iter, V, N, Nothing, F)
    BY <1>2, <2>1, <2>2, <2>3 DEF Iterates
  <2> QED BY <2>4, FoldIsRecursive
<1>9. Best(list) = iter[1 .. N]
  BY <1>1, <1>3
<1> QED BY <1>8, <1>9 DEF Follows

(* The releases that the guards of the loop let through. *)
Newer(r) == Acceptable(r) /\ Precedes(current, r.version)

BestSoFar(list, i, best) ==
  /\ best = Nothing => \A k \in 1 .. i : ~Newer(list[k])
  /\ best # Nothing =>
       \E j \in 1 .. i : /\ best = <<list[j]>> /\ Newer(list[j])
                         /\ \A k \in 1 .. i : Newer(list[k]) => ~Precedes(list[j].version, list[k].version)

(* What the loop has found after its last turn *)
LEMMA BestIsBest ==
  ASSUME ReleasesAssumption, NEW list \in Seq(Release), current \in Versions
  PROVE  BestSoFar(list, Len(list), Best(list))
<1> DEFINE N == Len(list)
           V == Seq(Release)
           F == [p \in (1 .. N) \X V |-> BestOf(p[2], list[p[1]])]
<1>1. PICK h : IsRecursive(h, V, N, Nothing, F) /\ Best(list) = h[N]
  BY BestIsRecursive
<1>2. /\ N \in Nat /\ \A i \in 0 .. N : h[i] \in V
      /\ h[0] = Nothing /\ \A i \in 1 .. N : h[i] = F[<<i, h[i - 1]>>]
  <2>1. N \in Nat
    OBVIOUS
  <2> HIDE DEF F, N, V
  <2> QED BY <1>1, <2>1 DEF IsRecursive
<1>3. \A i \in 1 .. N : h[i] = BestOf(h[i - 1], list[i])
  <2> SUFFICES ASSUME NEW i \in 1 .. N PROVE h[i] = BestOf(h[i - 1], list[i])
    OBVIOUS
  <2>1. h[i - 1] \in V /\ h[i] = F[<<i, h[i - 1]>>]
    <3>1. i \in 1 .. N /\ i - 1 \in 0 .. N
      BY <1>2
    <3> HIDE DEF F, V
    <3> QED BY <1>2, <3>1
  <2> QED BY <2>1
<1>4. \A i \in 1 .. N : list[i] \in Release /\ list[i].version \in Version
  <2>1. \A i \in 1 .. N : list[i] \in Release
    OBVIOUS
  <2>2. \A r \in Release : r.version \in Version
    BY ReleasesAssumption DEF Release
  <2> QED BY <2>1, <2>2
<1>5. current \in Version
  BY ReleasesAssumption
<1> HIDE DEF F, V, N
<1> DEFINE S == {n \in Nat : n <= N => BestSoFar(list, n, h[n])}
<1>6. 0 \in S
  BY <1>2 DEF BestSoFar
<1>7. ASSUME NEW n \in Nat, n \in S PROVE n + 1 \in S
  <2> SUFFICES ASSUME n + 1 <= N PROVE BestSoFar(list, n + 1, h[n + 1])
    OBVIOUS
  <2> DEFINE r == list[n + 1]
             best == h[n]
  <2>1. BestSoFar(list, n, best) /\ n \in 0 .. N /\ n + 1 \in 1 .. N /\ (n + 1) - 1 = n
    BY <1>2, <1>7
  <2>2. h[n + 1] = BestOf(best, r)
    BY <1>3, <2>1
  <2>3. r.version \in Version /\ \A k \in 1 .. n : list[k].version \in Version
    <3>1. \A k \in 1 .. n : k \in 1 .. N
      BY <1>2
    <3> QED BY <1>4, <2>1, <3>1
  <2>4. \A k \in 1 .. n + 1 : k \in 1 .. n \/ k = n + 1
    OBVIOUS
  <2>5. Acceptable(r) /\ CompareSemVer(r.version, current) > 0 <=> Newer(r)
    BY <1>5, <2>3, ComparesVersions DEF Newer
  <2> HIDE DEF S
  <2>6. CASE best = Nothing
    <3>1. \A k \in 1 .. n : ~Newer(list[k])
      BY <2>1, <2>6 DEF BestSoFar
    <3>2. CASE Newer(r)
      <4>1. h[n + 1] = <<r>>
        BY <2>2, <2>5, <2>6, <3>2 DEF BestOf
      <4>2. ~Precedes(r.version, r.version)
        BY <2>3, PrecedesIrreflexive
      <4>3. \A k \in 1 .. n + 1 : Newer(list[k]) => ~Precedes(r.version, list[k].version)
        BY <2>4, <3>1, <4>2
      <4>4. n + 1 \in 1 .. n + 1 /\ <<r>> # Nothing
        BY DEF Nothing
      <4> QED BY <3>2, <4>1, <4>3, <4>4 DEF BestSoFar
    <3>3. CASE ~Newer(r)
      <4>1. h[n + 1] = Nothing
        BY <2>2, <2>5, <2>6, <3>3 DEF BestOf
      <4> QED BY <2>4, <3>1, <3>3, <4>1 DEF BestSoFar
    <3> QED BY <3>2, <3>3
  <2>7. CASE best # Nothing
    <3>1. PICK j \in 1 .. n :
            /\ best = <<list[j]>> /\ Newer(list[j])
            /\ \A k \in 1 .. n : Newer(list[k]) => ~Precedes(list[j].version, list[k].version)
      BY <2>1, <2>7 DEF BestSoFar
    <3>2. best[1] = list[j] /\ j \in 1 .. n + 1 /\ n + 1 \in 1 .. n + 1
      BY <3>1
    <3>3. CompareSemVer(r.version, best[1].version) > 0 <=> Precedes(list[j].version, r.version)
      BY <2>3, <3>2, ComparesVersions
    <3>4. CASE Newer(r) /\ Precedes(list[j].version, r.version)
      <4>1. h[n + 1] = <<r>> /\ <<r>> # Nothing
        BY <2>2, <2>5, <3>3, <3>4 DEF BestOf, Nothing
      <4>2. ASSUME NEW k \in 1 .. n + 1, Newer(list[k]), Precedes(r.version, list[k].version) PROVE FALSE
        <5>1. CASE k \in 1 .. n
          <6>1. Precedes(list[j].version, list[k].version)
            BY <2>3, <3>4, <4>2, <5>1, PrecedesTransitive
          <6> QED BY <3>1, <4>2, <5>1, <6>1
        <5>2. CASE k = n + 1
          BY <2>3, <4>2, <5>2, PrecedesIrreflexive
        <5> QED BY <2>4, <5>1, <5>2
      <4> QED BY <3>2, <3>4, <4>1, <4>2 DEF BestSoFar
    <3>5. CASE ~(Newer(r) /\ Precedes(list[j].version, r.version))
      <4>1. h[n + 1] = best
        BY <2>2, <2>5, <2>7, <3>3, <3>5 DEF BestOf
      <4>2. \A k \in 1 .. n + 1 : Newer(list[k]) => ~Precedes(list[j].version, list[k].version)
        BY <2>4, <3>1, <3>5
      <4> QED BY <2>7, <3>1, <3>2, <4>1, <4>2 DEF BestSoFar
    <3> QED BY <3>4, <3>5
  <2> QED BY <2>6, <2>7
<1> HIDE DEF S
<1>8. \A n \in Nat : n \in S
  BY <1>6, <1>7, AllNumbers
<1>9. BestSoFar(list, N, h[N])
  BY <1>2, <1>8 DEF S
<1> QED BY <1>1, <1>9 DEF N

(* Where GitHub's mark agrees with the tag, the guards of handleReleaseList  *)
(* let through what the policy does.                                         *)
LEMMA AcceptableByPolicy ==
  ASSUME NEW r, r.tagged \in BOOLEAN, r.marked \in BOOLEAN, MarkedByItsTag(r)
  PROVE  Acceptable(r) <=> MayReceive(r)
BY DEF MarkedByItsTag, Acceptable, MayReceive

ReleasesOffer ==
  /\ current \in Versions
  /\ pc = "start" => listing = <<>> /\ offered = Nothing
  /\ OfferIsBest

(* Each step of the manager keeps the offer the best. *)
LEMMA OfferStep == ReleasesOffer /\ [ReleasesNext]_releaseVars => ReleasesOffer'
<1> SUFFICES ASSUME ReleasesOffer, [ReleasesNext]_releaseVars PROVE ReleasesOffer'
  OBVIOUS
<1>1. ASSUME NEW list \in Listings, HandleReleaseList(list) PROVE ReleasesOffer'
  <2>1. /\ list \in Seq(Release) /\ current \in Versions
        /\ listing' = list /\ offered' = Best(list) /\ current' = current
        /\ pc' = IF Best(list) = Nothing THEN "listed" ELSE "offer"
    BY <1>1, ReleasesAssumption DEF HandleReleaseList, ReleasesOffer
  <2>2. BestSoFar(list, Len(list), Best(list))
    BY <2>1, BestIsBest, ReleasesAssumption
  <2> DEFINE newer == {r \in ToSet(list) : MayReceive(r) /\ Precedes(current, r.version)}
  <2>3. \A r : r \in newer <=> \E k \in 1 .. Len(list) : r = list[k] /\ Newer(list[k])
    <3>1. ASSUME NEW k \in 1 .. Len(list) PROVE Acceptable(list[k]) <=> MayReceive(list[k])
      <4>1. list[k] \in Release /\ MarkedByItsTag(list[k])
        BY <2>1, ReleasesAssumption
      <4> QED BY <4>1, AcceptableByPolicy DEF Release
    <3> QED BY <2>1, <3>1 DEF ToSet, Newer
  <2>4. \A r : MayReceive(r)' <=> MayReceive(r)
    BY <2>1 DEF MayReceive
  <2>5. newer = {r \in ToSet(listing') : MayReceive(r)' /\ Precedes(current', r.version)}
    BY <2>1, <2>4
  <2> HIDE DEF newer
  <2>6. /\ Best(list) # Nothing =>
            Best(list)[1] \in newer /\ \A r \in newer : ~Precedes(Best(list)[1].version, r.version)
        /\ Best(list) = Nothing => newer = {}
    BY <2>2, <2>3 DEF BestSoFar
  <2>7. OfferIsBest'
    BY <2>1, <2>5, <2>6 DEF OfferIsBest
  <2> QED BY <2>1, <2>7 DEF ReleasesOffer
<1>2. CASE OfferUpdate \/ Finished
  <2>1. UNCHANGED <<current, listing, offered>> /\ pc' \notin {"start", "listed"}
    BY <1>2 DEF OfferUpdate, Finished
  <2> QED BY <2>1 DEF ReleasesOffer, OfferIsBest, MayReceive
<1>3. CASE UNCHANGED releaseVars
  BY <1>3 DEF releaseVars, ReleasesOffer, OfferIsBest, MayReceive
<1> QED BY <1>1, <1>2, <1>3 DEF ReleasesNext

(* Whatever releases are listed, in whatever order: what is offered is a     *)
(* release that the policy lets this build receive and that is newer than    *)
(* it, and no other such release is newer; nothing is offered only if there  *)
(* is none.                                                                  *)
THEOREM BestIsOffered == ReleasesSpec => []OfferIsBest
<1>1. ReleasesInit => ReleasesOffer
  BY DEF ReleasesInit, ReleasesOffer, OfferIsBest, ToSet, Nothing
<1>2. ReleasesOffer => OfferIsBest
  BY DEF ReleasesOffer
<1> QED BY <1>1, <1>2, OfferStep, PTL DEF ReleasesSpec

-----------------------------------------------------------------------------
(* StatusData: the settings *)

(* The settings of a PPB are known exactly since its first answer. *)
KnownByAnswers ==
  /\ answers \in [PPBs -> Seq(Masks)]
  /\ known = {p \in PPBs : answers[p] # <<>>}
  /\ DOMAIN settings = PPBs

(* What an answer does to the histories of the answers *)
LEMMA AnswerTaken ==
  ASSUME KnownByAnswers, NEW p \in PPBs, NEW mask \in Masks, NEW words, StatusReceived(p, mask, words)
  PROVE  /\ answers' \in [PPBs -> Seq(Masks)]
         /\ answers'[p] # <<>> /\ \A q \in PPBs \ {p} : answers'[q] = answers[q]
<1>1. answers' = [answers EXCEPT ![p] = Append(@, mask)]
  BY DEF StatusReceived
<1>2. answers[p] \in Seq(Masks) /\ answers \in [PPBs -> Seq(Masks)]
  BY DEF KnownByAnswers
<1>3. Append(answers[p], mask) \in Seq(Masks) /\ Append(answers[p], mask) # <<>>
  BY <1>2, AppendProperties, EmptySeq
<1> QED BY <1>1, <1>2, <1>3

(* Each step keeps it. *)
LEMMA KnownByAnswersStep == KnownByAnswers /\ [StatusNext]_statusVars => KnownByAnswers'
<1> SUFFICES ASSUME KnownByAnswers, [StatusNext]_statusVars PROVE KnownByAnswers'
  OBVIOUS
<1>1. ASSUME NEW p \in PPBs, NEW mask \in Masks, NEW words \in 0 .. MaxWords, StatusReceived(p, mask, words)
      PROVE  KnownByAnswers'
  <2>1. known' = known \cup {p}
    BY <1>1 DEF StatusReceived
  <2>2. DOMAIN settings' = PPBs
    BY <1>1 DEF StatusReceived, ToReal, KnownByAnswers
  <2> QED BY <1>1, <2>1, <2>2, AnswerTaken DEF KnownByAnswers
<1>2. ASSUME NEW p \in PPBs, NEW f \in Powers, NEW w \in Watts, SetPowerSetting(p, f, w)
      PROVE  KnownByAnswers'
  BY <1>2 DEF SetPowerSetting, KnownByAnswers
<1>3. ASSUME NEW p \in PPBs, ResetSettingsToReal(p) PROVE KnownByAnswers'
  BY <1>3 DEF ResetSettingsToReal, ToReal, KnownByAnswers
<1>4. CASE UNCHANGED statusVars
  BY <1>4 DEF statusVars, KnownByAnswers
<1> QED BY <1>1, <1>2, <1>3, <1>4 DEF StatusNext

(* No answer, of whichever PPB, changes the settings of a PPB that has       *)
(* answered before: what a TC sends is what the user has set last            *)
(* (onStatusReceived, m_settingsInitialized).                                *)
THEOREM SettingsStayTheUsers == StatusSpec => AnswersKeepSettings
<1>1. StatusInit => KnownByAnswers
  BY EmptySeq DEF StatusInit, KnownByAnswers
<1>2. KnownByAnswers /\ [StatusNext]_statusVars
        => [answers' # answers => \A p \in known : settings'[p] = settings[p]]_statusVars
  <2> SUFFICES ASSUME KnownByAnswers, StatusNext, answers' # answers, NEW q \in known
               PROVE  settings'[q] = settings[q]
    OBVIOUS
  <2>1. PICK p \in PPBs, mask \in Masks, words \in 0 .. MaxWords : StatusReceived(p, mask, words)
    BY DEF StatusNext, SetPowerSetting, ResetSettingsToReal
  <2>2. CASE p \in known
    BY <2>1, <2>2 DEF StatusReceived
  <2>3. CASE p \notin known
    <3>1. q # p /\ q \in DOMAIN settings
      BY <2>3 DEF KnownByAnswers
    <3> QED BY <2>1, <2>3, <3>1 DEF StatusReceived, ToReal
  <2> QED BY <2>2, <2>3
<1> QED BY <1>1, <1>2, KnownByAnswersStep, PTL DEF StatusSpec, AnswersKeepSettings

-----------------------------------------------------------------------------
(* StatusData: the fields *)

Fields == Singles \cup Pairs
Word == Nat \X Nat
Codes == Seq(Word)
Accumulator == [state : [Fields -> Codes], high : [Pairs -> Codes], answer : Nat, next : Nat]

(* The bits that carry fields *)
LEMMA BitsOfFields ==
  /\ Singles \cap Pairs = {}
  /\ \A f \in Singles : WordBit[f] \in 0 .. 23
  /\ \A f \in Pairs : HighBit[f] \in 0 .. 22
  /\ Powers \subseteq Fields
BY DEF Singles, Pairs, WordBit, HighBit, Powers, Fields

TakeBit(mask, acc, bit) == IF bit \in mask THEN TakeWord(acc, bit) ELSE acc

(* A code of two words *)
LEMMA AppendsOne == \A v, w : Append(<<v>>, w) = <<v, w>>
<1> SUFFICES ASSUME NEW v, NEW w PROVE Append(<<v>>, w) = <<v, w>>
  OBVIOUS
<1>1. <<v>> \in Seq({v, w}) /\ <<v, w>> \in Seq({v, w}) /\ w \in {v, w}
  OBVIOUS
<1>2. /\ Append(<<v>>, w) \in Seq({v, w}) /\ Len(Append(<<v>>, w)) = Len(<<v, w>>)
      /\ \A i \in 1 .. Len(<<v, w>>) : Append(<<v>>, w)[i] = <<v, w>>[i]
  BY <1>1
<1> QED BY <1>1, <1>2, SeqEqual

(* What taking a word does to the codes *)
LEMMA TakeWordTyped ==
  ASSUME NEW acc \in Accumulator, NEW bit
  PROVE  LET word == <<acc.answer, acc.next>>
             new == TakeWord(acc, bit)
         IN  /\ new \in Accumulator
             /\ new.answer = acc.answer /\ new.next = acc.next + 1
             /\ \A f \in Pairs : new.high[f] = IF HighBit[f] = bit THEN <<word>> ELSE acc.high[f]
             /\ \A f \in Singles : new.state[f] = IF WordBit[f] = bit THEN <<word>> ELSE acc.state[f]
             /\ \A f \in Pairs : new.state[f] =
                  IF HighBit[f] + 1 = bit /\ acc.high[f] # Zero THEN Append(acc.high[f], word) ELSE acc.state[f]
<1> DEFINE word == <<acc.answer, acc.next>>
           high == [f \in Pairs |-> IF HighBit[f] = bit THEN <<word>> ELSE acc.high[f]]
           state == [f \in DOMAIN acc.state |->
      CASE f \in Singles /\ WordBit[f] = bit -> <<word>>
        [] f \in Pairs /\ HighBit[f] + 1 = bit /\ acc.high[f] # Zero -> Append(acc.high[f], word)
        [] OTHER -> acc.state[f]]
<1>1. /\ acc.state \in [Fields -> Codes] /\ acc.high \in [Pairs -> Codes]
      /\ acc.answer \in Nat /\ acc.next \in Nat /\ word \in Word
  BY DEF Accumulator, Word
<1>2. <<word>> \in Codes /\ \A c \in Codes : Append(c, word) \in Codes
  BY <1>1 DEF Codes
<1>3. \A f \in Fields : state[f] \in Codes
  BY <1>1, <1>2 DEF Fields
<1>4. state \in [Fields -> Codes] /\ high \in [Pairs -> Codes]
  BY <1>1, <1>2, <1>3
<1>5. TakeWord(acc, bit) = [acc EXCEPT !.next = @ + 1, !.high = high, !.state = state]
  BY DEF TakeWord
<1>6. \A f \in Pairs : state[f] =
        IF HighBit[f] + 1 = bit /\ acc.high[f] # Zero THEN Append(acc.high[f], word) ELSE acc.state[f]
  BY <1>1, BitsOfFields DEF Fields
<1>7. \A f \in Singles : state[f] = IF WordBit[f] = bit THEN <<word>> ELSE acc.state[f]
  BY <1>1, BitsOfFields DEF Fields
<1>8. \A f \in Pairs : high[f] = IF HighBit[f] = bit THEN <<word>> ELSE acc.high[f]
  OBVIOUS
<1> HIDE DEF high, state
<1>9. /\ TakeWord(acc, bit) \in Accumulator
      /\ TakeWord(acc, bit).answer = acc.answer /\ TakeWord(acc, bit).next = acc.next + 1
      /\ TakeWord(acc, bit).high = high /\ TakeWord(acc, bit).state = state
  <2>1. TakeWord(acc, bit) = [state |-> state, high |-> high, answer |-> acc.answer, next |-> acc.next + 1]
    BY <1>5 DEF Accumulator
  <2>2. acc.next + 1 \in Nat
    BY <1>1
  <2> QED BY <1>1, <1>4, <2>1, <2>2 DEF Accumulator
<1> QED BY <1>6, <1>7, <1>8, <1>9

Start(state, n) == [state |-> state, high |-> [f \in Pairs |-> Zero], answer |-> n, next |-> 1]

(* processStatusData is one turn of its loop for each bit. *)
LEMMA StatusIsRecursive ==
  ASSUME NEW state \in [Fields -> Codes], NEW n \in Nat, NEW mask
  PROVE  \E h : /\ IsRecursive(h, Accumulator, 24, Start(state, n),
                      [p \in (1 .. 24) \X Accumulator |-> TakeBit(mask, p[2], p[1] - 1)])
                /\ ProcessStatusData(state, n, mask) = h[24].state
<1> DEFINE N == 24
           base == Start(state, n)
           F == [p \in (1 .. N) \X Accumulator |-> TakeBit(mask, p[2], p[1] - 1)]
           Body(it) == [s \in SUBSET (DOMAIN Bits) |->
                         IF s = {} THEN base ELSE TakeBit(mask, it[s \ {Max(s)}], Bits[Max(s)])]
           iter == CHOOSE it : it = Body(it)
<1>1. /\ N \in Nat /\ DOMAIN Bits = 1 .. N /\ \A i \in 1 .. N : Bits[i] = i - 1
      /\ base \in Accumulator
  <2>1. Zero \in Codes
    BY DEF Zero, Codes
  <2> QED BY <2>1 DEF Bits, Start, Accumulator
<1>2. F \in [(1 .. N) \X Accumulator -> Accumulator]
  <2>1. ASSUME NEW i \in 1 .. N, NEW acc \in Accumulator PROVE TakeBit(mask, acc, i - 1) \in Accumulator
    BY TakeWordTyped DEF TakeBit
  <2> QED BY <2>1
<1>3. ProcessStatusData(state, n, mask) = iter[DOMAIN Bits].state
  BY DEF ProcessStatusData, FoldLeft, MapThenFoldSet, TakeBit, Start
<1> HIDE DEF base
<1>4. PICK g : IsFold(g, Accumulator, N, base, F)
  <2> HIDE DEF F
  <2> QED BY <1>1, <1>2, FoldExists
<1>5. g = Body(g)
  <2>1. /\ g \in [SUBSET (1 .. N) -> Accumulator]
        /\ \A s \in SUBSET (1 .. N) :
             g[s] = IF s = {} THEN base ELSE F[<<Max(s), g[s \ {Max(s)}]>>]
    BY <1>4 DEF IsFold
  <2>2. \A s \in SUBSET (1 .. N) : s # {} =>
          F[<<Max(s), g[s \ {Max(s)}]>>] = TakeBit(mask, g[s \ {Max(s)}], Bits[Max(s)])
    <3> SUFFICES ASSUME NEW s \in SUBSET (1 .. N), s # {}
                 PROVE  F[<<Max(s), g[s \ {Max(s)}]>>] = TakeBit(mask, g[s \ {Max(s)}], Bits[Max(s)])
      OBVIOUS
    <3>1. Max(s) \in 1 .. N
      BY <1>1, MaxOfNumbers
    <3>2. g[s \ {Max(s)}] \in Accumulator
      BY <2>1
    <3> QED BY <1>1, <3>1, <3>2
  <2> HIDE DEF F
  <2> QED BY <1>1, <2>1, <2>2
<1>6. iter = Body(iter)
  <2>1. \E it : it = Body(it)
    BY <1>5
  <2> HIDE DEF Body
  <2> QED BY <2>1
<1> HIDE DEF iter
<1>7. ASSUME NEW s \in SUBSET (1 .. N), s # {}, iter[s \ {Max(s)}] \in Accumulator
      PROVE  iter[s] = F[<<Max(s), iter[s \ {Max(s)}]>>]
  <2>1. Max(s) \in 1 .. N
    BY <1>1, <1>7, MaxOfNumbers
  <2>2. iter[s] = TakeBit(mask, iter[s \ {Max(s)}], Bits[Max(s)])
    BY <1>1, <1>6, <1>7
  <2> QED BY <1>1, <1>7, <2>1, <2>2
<1>8. \E h : Follows(h, iter, Accumulator, N, base, F)
  <2>1. iter[{}] = base
    BY <1>6
  <2>2. \A s \in SUBSET (1 .. N) :
           s # {} /\ iter[s \ {Max(s)}] \in Accumulator => iter[s] = F[<<Max(s), iter[s \ {Max(s)}]>>]
    BY <1>7
  <2> HIDE DEF F
  <2>3. N \in Nat /\ base \in Accumulator
    BY <1>1
  <2> HIDE DEF N
  <2>4. Iterates(iter, Accumulator, N, base, F)
    BY <1>2, <2>1, <2>2, <2>3 DEF Iterates
  <2> QED BY <2>4, FoldIsRecursive
<1>9. ProcessStatusData(state, n, mask) = iter[1 .. N].state
  BY <1>1, <1>3
<1> QED BY <1>8, <1>9 DEF Follows, base

-----------------------------------------------------------------------------
(* The word of a bit in the answer n with this mask, and what the first     *)
(* bits of it make of the fields.                                           *)
WordIn(mask, n, bit) == <<n, 1 + Cardinality({b \in mask : b < bit})>>

Shown(mask, n, i, acc, state) ==
  /\ acc \in Accumulator
  /\ acc.answer = n /\ acc.next = 1 + Cardinality({b \in mask : b < i})
  /\ \A f \in Pairs : acc.high[f] =
       IF HighBit[f] < i /\ HighBit[f] \in mask THEN <<WordIn(mask, n, HighBit[f])>> ELSE Zero
  /\ \A f \in Singles : acc.state[f] =
       IF WordBit[f] < i /\ WordBit[f] \in mask THEN <<WordIn(mask, n, WordBit[f])>> ELSE state[f]
  /\ \A f \in Pairs : acc.state[f] =
       IF HighBit[f] + 1 < i /\ HighBit[f] \in mask /\ HighBit[f] + 1 \in mask
       THEN <<WordIn(mask, n, HighBit[f]), WordIn(mask, n, HighBit[f] + 1)>> ELSE state[f]

(* One more bit of a mask *)
LEMMA BitsBelow ==
  ASSUME NEW mask \in SUBSET (0 .. 31), NEW i \in Nat
  PROVE  /\ Cardinality({b \in mask : b < i}) \in Nat
         /\ Cardinality({b \in mask : b < i + 1}) =
              Cardinality({b \in mask : b < i}) + (IF i \in mask THEN 1 ELSE 0)
<1> DEFINE A == {b \in mask : b < i}
           B == {b \in mask : b < i + 1}
<1>1. IsFiniteSet(mask)
  <2>1. 0 \in Int /\ 31 \in Int
    OBVIOUS
  <2>2. IsFiniteSet(0 .. 31)
    BY <2>1, FS_Interval, Zenon
  <2> QED BY <2>2, FS_Subset
<1>2. IsFiniteSet(A) /\ Cardinality(A) \in Nat
  BY <1>1, FS_Subset, FS_CardinalityType
<1>3. CASE i \in mask
  <2>1. B = A \cup {i} /\ i \notin A
    <3>1. \A b \in mask : b \in Int /\ (b < i + 1 <=> b < i \/ b = i)
      OBVIOUS
    <3>2. \A b : b \in B <=> b \in A \cup {i}
      BY <1>3, <3>1
    <3>3. i \notin A
      OBVIOUS
    <3> QED BY <3>2, <3>3
  <2> QED BY <1>2, <1>3, <2>1, FS_AddElement
<1>4. CASE i \notin mask
  <2>1. B = A
    <3>1. \A b \in mask : b \in Int /\ (b < i + 1 <=> b < i \/ b = i)
      OBVIOUS
    <3> QED BY <1>4, <3>1
  <2> QED BY <1>2, <1>4, <2>1
<1> QED BY <1>3, <1>4

(* One turn of the loop *)
LEMMA ShowsBit ==
  ASSUME NEW mask \in SUBSET (0 .. 31), NEW n \in Nat, NEW i \in 0 .. 23, NEW state, NEW acc,
         Shown(mask, n, i, acc, state)
  PROVE  Shown(mask, n, i + 1, TakeBit(mask, acc, i), state)
<1> DEFINE new == TakeBit(mask, acc, i)
           word == <<acc.answer, acc.next>>
<1>1. /\ acc \in Accumulator
      /\ acc.answer = n /\ acc.next = 1 + Cardinality({b \in mask : b < i})
      /\ \A f \in Pairs : acc.high[f] =
           IF HighBit[f] < i /\ HighBit[f] \in mask THEN <<WordIn(mask, n, HighBit[f])>> ELSE Zero
      /\ \A f \in Singles : acc.state[f] =
           IF WordBit[f] < i /\ WordBit[f] \in mask THEN <<WordIn(mask, n, WordBit[f])>> ELSE state[f]
      /\ \A f \in Pairs : acc.state[f] =
           IF HighBit[f] + 1 < i /\ HighBit[f] \in mask /\ HighBit[f] + 1 \in mask
           THEN <<WordIn(mask, n, HighBit[f]), WordIn(mask, n, HighBit[f] + 1)>> ELSE state[f]
  BY DEF Shown
<1>2. word = WordIn(mask, n, i) /\ i \in Nat
  BY <1>1 DEF WordIn
<1>3. CASE i \in mask
  <2>1. /\ new \in Accumulator
        /\ new.answer = acc.answer /\ new.next = acc.next + 1
        /\ \A f \in Pairs : new.high[f] = IF HighBit[f] = i THEN <<word>> ELSE acc.high[f]
        /\ \A f \in Singles : new.state[f] = IF WordBit[f] = i THEN <<word>> ELSE acc.state[f]
        /\ \A f \in Pairs : new.state[f] =
             IF HighBit[f] + 1 = i /\ acc.high[f] # Zero THEN Append(acc.high[f], word) ELSE acc.state[f]
    <3>1. new = TakeWord(acc, i)
      BY <1>3 DEF TakeBit
    <3>2. acc \in Accumulator
      BY <1>1
    <3> HIDE DEF new
    <3> QED BY <3>1, <3>2, TakeWordTyped
  <2> HIDE DEF new, word
  <2>2. new.answer = n /\ new.next = 1 + Cardinality({b \in mask : b < i + 1})
    BY <1>1, <1>2, <1>3, <2>1, BitsBelow
  <2>3. ASSUME NEW f \in Pairs
        PROVE  new.high[f] =
                 IF HighBit[f] < i + 1 /\ HighBit[f] \in mask THEN <<WordIn(mask, n, HighBit[f])>> ELSE Zero
    <3>1. HighBit[f] \in Nat
      BY BitsOfFields
    <3>2. CASE HighBit[f] = i
      BY <1>2, <1>3, <2>1, <3>1, <3>2
    <3>3. CASE HighBit[f] # i
      <4>1. HighBit[f] < i <=> HighBit[f] < i + 1
        BY <1>2, <3>1, <3>3
      <4> QED BY <1>1, <2>1, <3>3, <4>1
    <3> QED BY <3>2, <3>3
  <2>4. ASSUME NEW f \in Singles
        PROVE  new.state[f] =
                 IF WordBit[f] < i + 1 /\ WordBit[f] \in mask THEN <<WordIn(mask, n, WordBit[f])>> ELSE state[f]
    <3>1. WordBit[f] \in Nat
      BY BitsOfFields
    <3>2. CASE WordBit[f] = i
      BY <1>2, <1>3, <2>1, <3>1, <3>2
    <3>3. CASE WordBit[f] # i
      <4>1. WordBit[f] < i <=> WordBit[f] < i + 1
        BY <1>2, <3>1, <3>3
      <4> QED BY <1>1, <2>1, <3>3, <4>1
    <3> QED BY <3>2, <3>3
  <2>5. ASSUME NEW f \in Pairs
        PROVE  new.state[f] =
                 IF HighBit[f] + 1 < i + 1 /\ HighBit[f] \in mask /\ HighBit[f] + 1 \in mask
                 THEN <<WordIn(mask, n, HighBit[f]), WordIn(mask, n, HighBit[f] + 1)>> ELSE state[f]
    <3>1. HighBit[f] \in Nat
      BY BitsOfFields
    <3>2. CASE HighBit[f] + 1 = i
      <4>1. HighBit[f] < i /\ ~(HighBit[f] + 1 < i) /\ HighBit[f] + 1 < i + 1 /\ HighBit[f] + 1 \in mask
        BY <1>2, <1>3, <3>1, <3>2
      <4>2. CASE HighBit[f] \in mask
        <5>1. acc.high[f] = <<WordIn(mask, n, HighBit[f])>> /\ acc.high[f] # Zero
          <6>1. acc.high[f] = <<WordIn(mask, n, HighBit[f])>>
            BY <1>1, <4>1, <4>2
          <6>2. \A w : <<w>> # Zero
            BY DEF Zero
          <6> QED BY <6>1, <6>2
        <5>2. new.state[f] = Append(<<WordIn(mask, n, HighBit[f])>>, WordIn(mask, n, i))
          BY <1>2, <2>1, <3>2, <5>1
        <5>3. Append(<<WordIn(mask, n, HighBit[f])>>, WordIn(mask, n, i))
                = <<WordIn(mask, n, HighBit[f]), WordIn(mask, n, i)>>
          BY AppendsOne
        <5> QED BY <3>2, <4>1, <4>2, <5>2, <5>3
      <4>3. CASE HighBit[f] \notin mask
        <5>1. acc.high[f] = Zero
          BY <1>1, <4>3
        <5> QED BY <1>1, <2>1, <4>3, <5>1
      <4> QED BY <4>2, <4>3
    <3>3. CASE HighBit[f] + 1 # i
      <4>1. HighBit[f] + 1 < i <=> HighBit[f] + 1 < i + 1
        BY <1>2, <3>1, <3>3
      <4> QED BY <1>1, <2>1, <3>3, <4>1
    <3> QED BY <3>2, <3>3
  <2> QED BY <2>1, <2>2, <2>3, <2>4, <2>5 DEF Shown, new
<1>4. CASE i \notin mask
  <2>1. new = acc
    BY <1>4 DEF TakeBit
  <2>2. acc.next = 1 + Cardinality({b \in mask : b < i + 1})
    BY <1>1, <1>2, <1>4, BitsBelow
  <2>3. ASSUME NEW b \in Int, b # i PROVE b < i <=> b < i + 1
    BY <1>2, <2>3
  <2>4. /\ \A f \in Pairs : HighBit[f] \in Int /\ HighBit[f] + 1 \in Int
        /\ \A f \in Singles : WordBit[f] \in Int
    BY BitsOfFields
  <2>5. \A b \in Int : b \in mask => (b < i <=> b < i + 1)
    BY <1>4, <2>3
  <2>6. \A f \in Pairs : HighBit[f] \in mask => (HighBit[f] < i <=> HighBit[f] < i + 1)
    BY <2>4, <2>5
  <2>7. \A f \in Singles : WordBit[f] \in mask => (WordBit[f] < i <=> WordBit[f] < i + 1)
    BY <2>4, <2>5
  <2>8. \A f \in Pairs : HighBit[f] + 1 \in mask => (HighBit[f] + 1 < i <=> HighBit[f] + 1 < i + 1)
    BY <2>4, <2>5
  <2> HIDE DEF new
  <2>9. \A f \in Pairs : acc.high[f] =
           IF HighBit[f] < i + 1 /\ HighBit[f] \in mask THEN <<WordIn(mask, n, HighBit[f])>> ELSE Zero
    BY <1>1, <2>6
  <2>10. \A f \in Singles : acc.state[f] =
           IF WordBit[f] < i + 1 /\ WordBit[f] \in mask THEN <<WordIn(mask, n, WordBit[f])>> ELSE state[f]
    BY <1>1, <2>7
  <2>11. \A f \in Pairs : acc.state[f] =
           IF HighBit[f] + 1 < i + 1 /\ HighBit[f] \in mask /\ HighBit[f] + 1 \in mask
           THEN <<WordIn(mask, n, HighBit[f]), WordIn(mask, n, HighBit[f] + 1)>> ELSE state[f]
    BY <1>1, <2>8
  <2>12. Shown(mask, n, i + 1, acc, state)
    BY <1>1, <2>2, <2>9, <2>10, <2>11 DEF Shown
  <2> QED BY <2>1, <2>12 DEF new
<1> QED BY <1>3, <1>4

(* What an answer shows: the words of the fields it has whole. *)
Covers(mask, f) == ToSet(BitsOf(f)) \subseteq mask
WordsIn(mask, n, f) == [i \in DOMAIN BitsOf(f) |-> WordIn(mask, n, BitsOf(f)[i])]

(* An answer shows the fields that it has whole. *)
LEMMA StatusShows ==
  ASSUME NEW state \in [Fields -> Codes], NEW n \in Nat, NEW mask \in SUBSET (0 .. 31)
  PROVE  /\ ProcessStatusData(state, n, mask) \in [Fields -> Codes]
         /\ \A f \in Fields : ProcessStatusData(state, n, mask)[f] =
              IF Covers(mask, f) THEN WordsIn(mask, n, f) ELSE state[f]
<1> DEFINE N == 24
           F == [p \in (1 .. N) \X Accumulator |-> TakeBit(mask, p[2], p[1] - 1)]
           new == ProcessStatusData(state, n, mask)
<1>1. PICK h : /\ IsRecursive(h, Accumulator, N, Start(state, n), F)
               /\ new = h[N].state
  BY StatusIsRecursive
<1>2. /\ \A i \in 0 .. N : h[i] \in Accumulator
      /\ h[0] = Start(state, n) /\ \A i \in 1 .. N : h[i] = TakeBit(mask, h[i - 1], i - 1)
  <2>1. N \in Nat /\ \A i \in 1 .. N : i \in 0 .. N /\ i - 1 \in 0 .. N /\ i # 0
    OBVIOUS
  <2>2. \A i \in 1 .. N, acc \in Accumulator : F[<<i, acc>>] = TakeBit(mask, acc, i - 1)
    OBVIOUS
  <2> HIDE DEF F, N
  <2>3. /\ \A i \in 0 .. N : h[i] \in Accumulator
        /\ h[0] = Start(state, n) /\ \A i \in 1 .. N : h[i] = F[<<i, h[i - 1]>>]
    <3>1. /\ h \in [0 .. N -> Accumulator]
          /\ \A i \in 0 .. N : h[i] = IF i = 0 THEN Start(state, n) ELSE F[<<i, h[i - 1]>>]
      BY <1>1 DEF IsRecursive
    <3>2. 0 \in 0 .. N
      BY <2>1
    <3> QED BY <2>1, <3>1, <3>2
  <2> QED BY <2>1, <2>2, <2>3
<1> DEFINE S == {i \in Nat : i <= N => Shown(mask, n, i, h[i], state)}
<1>3. 0 \in S
  <2>1. \A b \in mask : b \in Nat /\ ~(b < 0)
    OBVIOUS
  <2>2. {b \in mask : b < 0} = {}
    BY <2>1
  <2>3. Start(state, n) \in Accumulator
    BY <1>2
  <2>4. Start(state, n).next = 1 + Cardinality({b \in mask : b < 0})
    BY <2>2, FS_EmptySet DEF Start
  <2>5. Shown(mask, n, 0, Start(state, n), state)
    BY <2>3, <2>4, BitsOfFields DEF Shown, Start
  <2> QED BY <1>2, <2>5
<1>4. ASSUME NEW i \in Nat, i \in S PROVE i + 1 \in S
  <2> SUFFICES ASSUME i + 1 <= N PROVE Shown(mask, n, i + 1, h[i + 1], state)
    OBVIOUS
  <2>1. Shown(mask, n, i, h[i], state) /\ i \in 0 .. 23
    BY <1>4
  <2>2. h[i + 1] = TakeBit(mask, h[i], i)
    <3>1. i + 1 \in 1 .. N /\ (i + 1) - 1 = i
      OBVIOUS
    <3> HIDE DEF N
    <3> QED BY <1>2, <3>1
  <2> QED BY <2>1, <2>2, ShowsBit
<1> HIDE DEF S
<1>5. Shown(mask, n, N, h[N], state)
  <2>1. N \in S /\ N <= N
    BY <1>3, <1>4, AllNumbers
  <2> QED BY <2>1 DEF S
<1>6. new \in [Fields -> Codes]
  BY <1>1, <1>5 DEF Shown, Accumulator
<1>7. ASSUME NEW f \in Fields
      PROVE  new[f] = IF Covers(mask, f) THEN WordsIn(mask, n, f) ELSE state[f]
  <2>1. CASE f \in Singles
    <3>1. BitsOf(f) = <<WordBit[f]>> /\ DOMAIN BitsOf(f) = {1} /\ ToSet(BitsOf(f)) = {WordBit[f]}
      BY <2>1 DEF BitsOf, ToSet
    <3>2. WordsIn(mask, n, f) = <<WordIn(mask, n, WordBit[f])>>
      BY <3>1 DEF WordsIn
    <3>3. WordBit[f] < N
      BY <2>1, BitsOfFields
    <3>4. new[f] = IF WordBit[f] \in mask THEN <<WordIn(mask, n, WordBit[f])>> ELSE state[f]
      BY <1>1, <1>5, <2>1, <3>3 DEF Shown
    <3> QED BY <3>1, <3>2, <3>4 DEF Covers
  <2>2. CASE f \in Pairs
    <3>1. f \notin Singles
      BY <2>2, BitsOfFields
    <3>2. /\ BitsOf(f) = <<HighBit[f], HighBit[f] + 1>> /\ DOMAIN BitsOf(f) = {1, 2}
          /\ ToSet(BitsOf(f)) = {HighBit[f], HighBit[f] + 1}
      BY <3>1 DEF BitsOf, ToSet
    <3>3. WordsIn(mask, n, f) = <<WordIn(mask, n, HighBit[f]), WordIn(mask, n, HighBit[f] + 1)>>
      BY <3>2 DEF WordsIn
    <3>4. HighBit[f] + 1 < N
      BY <2>2, BitsOfFields
    <3>5. new[f] = IF HighBit[f] \in mask /\ HighBit[f] + 1 \in mask
                   THEN <<WordIn(mask, n, HighBit[f]), WordIn(mask, n, HighBit[f] + 1)>> ELSE state[f]
      BY <1>1, <1>5, <2>2, <3>4 DEF Shown
    <3> QED BY <3>2, <3>3, <3>5 DEF Covers
  <2> QED BY <2>1, <2>2 DEF Fields
<1> QED BY <1>6, <1>7

-----------------------------------------------------------------------------
(* What a field shows after the answers with these masks. *)
CarriersIn(masks, f) == {m \in DOMAIN masks : Covers(masks[m], f)}
CodeAfter(masks, f) ==
  IF CarriersIn(masks, f) = {} THEN Zero
  ELSE WordsIn(masks[Max(CarriersIn(masks, f))], Max(CarriersIn(masks, f)), f)

(* One more answer *)
LEMMA CodeAfterOneMore ==
  ASSUME NEW masks \in Seq(Masks), NEW mask \in Masks, NEW f
  PROVE  CodeAfter(Append(masks, mask), f) =
           IF Covers(mask, f) THEN WordsIn(mask, Len(masks) + 1, f) ELSE CodeAfter(masks, f)
<1> DEFINE more == Append(masks, mask)
           n == Len(masks) + 1
           old == CarriersIn(masks, f)
           all == CarriersIn(more, f)
<1>1. /\ n \in Nat \ {0} /\ DOMAIN masks = 1 .. n - 1 /\ DOMAIN more = 1 .. n
      /\ more[n] = mask /\ \A m \in 1 .. n - 1 : more[m] = masks[m]
  BY AppendProperties
<1> HIDE DEF more, n
<1>2. old \in SUBSET (1 .. n) /\ all \in SUBSET (1 .. n)
  BY <1>1 DEF CarriersIn
<1>3. CASE Covers(mask, f)
  <2>1. n \in all
    <3>1. n \in 1 .. n
      BY <1>1
    <3> QED BY <1>1, <1>3, <3>1 DEF CarriersIn
  <2>2. Max(all) = n
    <3>1. Max(all) \in all /\ Max(all) >= n
      BY <1>1, <1>2, <2>1, MaxOfNumbers
    <3> QED BY <1>1, <1>2, <3>1
  <2> QED BY <1>1, <1>3, <2>1, <2>2 DEF CodeAfter, more, n
<1>4. CASE ~Covers(mask, f)
  <2>1. all = old
    <3>1. \A m \in 1 .. n : m \in all <=> m \in old
      <4>1. \A m \in 1 .. n : m = n \/ m \in 1 .. n - 1
        BY <1>1
      <4> QED BY <1>1, <1>4, <4>1 DEF CarriersIn
    <3> QED BY <1>2, <3>1
  <2>2. CASE old = {}
    BY <1>4, <2>1, <2>2 DEF CodeAfter, more
  <2>3. CASE old # {}
    <3>1. Max(old) \in old
      BY <1>1, <1>2, <2>3, MaxOfNumbers
    <3>2. more[Max(old)] = masks[Max(old)]
      BY <1>1, <3>1 DEF CarriersIn
    <3> QED BY <1>4, <2>1, <2>3, <3>2 DEF CodeAfter, more
  <2> QED BY <2>2, <2>3
<1> QED BY <1>3, <1>4

(* The fields of every PPB are those of its answers. *)
ShowsAnswers ==
  /\ answers \in [PPBs -> Seq(Masks)]
  /\ real \in [PPBs -> [Fields -> Codes]]
  /\ \A p \in PPBs : \A f \in Fields : real[p][f] = CodeAfter(answers[p], f)

(* Each step keeps it. *)
LEMMA ShowsAnswersStep == ShowsAnswers /\ [StatusNext]_statusVars => ShowsAnswers'
<1> SUFFICES ASSUME ShowsAnswers, [StatusNext]_statusVars PROVE ShowsAnswers'
  OBVIOUS
<1>1. ASSUME NEW p \in PPBs, NEW mask \in Masks, NEW words \in 0 .. MaxWords, StatusReceived(p, mask, words)
      PROVE  ShowsAnswers'
  <2> DEFINE n == Len(answers[p]) + 1
             state == ProcessStatusData(real[p], n, mask)
             masks == Append(answers[p], mask)
  <2>1. real' = [real EXCEPT ![p] = state] /\ answers' = [answers EXCEPT ![p] = masks]
    BY <1>1 DEF StatusReceived
  <2>2. /\ answers \in [PPBs -> Seq(Masks)] /\ real \in [PPBs -> [Fields -> Codes]]
        /\ answers[p] \in Seq(Masks) /\ real[p] \in [Fields -> Codes] /\ n \in Nat
        /\ mask \in SUBSET (0 .. 31) /\ masks \in Seq(Masks)
    BY StatusAssumption DEF ShowsAnswers
  <2>3. /\ state \in [Fields -> Codes]
        /\ \A f \in Fields : state[f] = IF Covers(mask, f) THEN WordsIn(mask, n, f) ELSE real[p][f]
    <3> HIDE DEF n
    <3> QED BY <2>2, StatusShows
  <2>4. \A f \in Fields : state[f] = CodeAfter(masks, f)
    BY <2>2, <2>3, CodeAfterOneMore DEF ShowsAnswers
  <2> HIDE DEF state, masks, n
  <2>5. /\ real' \in [PPBs -> [Fields -> Codes]] /\ answers' \in [PPBs -> Seq(Masks)]
        /\ real'[p] = state /\ answers'[p] = masks
        /\ \A q \in PPBs \ {p} : real'[q] = real[q] /\ answers'[q] = answers[q]
    BY <2>1, <2>2, <2>3
  <2> QED BY <2>4, <2>5 DEF ShowsAnswers
<1>2. ASSUME UNCHANGED <<real, answers>> PROVE ShowsAnswers'
  BY <1>2 DEF ShowsAnswers
<1> QED BY <1>1, <1>2 DEF StatusNext, SetPowerSetting, ResetSettingsToReal, statusVars

(* Every field of a PPB shows the words of its own bits in one and the same  *)
(* answer, the last one that had them all, for all answers and masks.        *)
THEOREM FieldsStayWhole == StatusSpec => []FieldsAreWhole
<1>1. StatusInit => ShowsAnswers
  <2> SUFFICES ASSUME StatusInit PROVE ShowsAnswers
    OBVIOUS
  <2>1. Zero \in Codes
    BY DEF Zero, Codes
  <2>2. /\ real = [p \in PPBs |-> [f \in Fields |-> Zero]] /\ answers = [p \in PPBs |-> <<>>]
    BY DEF StatusInit, Fields
  <2>3. \A f : CodeAfter(<<>>, f) = Zero
    BY DEF CodeAfter, CarriersIn
  <2> QED BY <2>1, <2>2, <2>3, EmptySeq DEF ShowsAnswers
<1>2. ShowsAnswers => FieldsAreWhole
  <2> SUFFICES ASSUME ShowsAnswers, NEW p \in PPBs, NEW f \in DOMAIN real[p]
               PROVE  LET carriers == {n \in DOMAIN answers[p] : Carries(p, n, f)}
                      IN  real[p][f] = IF carriers = {} THEN Zero
                            ELSE [i \in DOMAIN BitsOf(f) |-> WordOf(p, Max(carriers), BitsOf(f)[i])]
    BY DEF FieldsAreWhole
  <2>1. f \in Fields /\ real[p][f] = CodeAfter(answers[p], f)
    BY DEF ShowsAnswers
  <2>2. CarriersIn(answers[p], f) = {n \in DOMAIN answers[p] : Carries(p, n, f)}
    BY DEF CarriersIn, Covers, Carries
  <2>3. \A n : WordsIn(answers[p][n], n, f) = [i \in DOMAIN BitsOf(f) |-> WordOf(p, n, BitsOf(f)[i])]
    BY DEF WordsIn, WordIn, WordOf
  <2> QED BY <2>1, <2>2, <2>3 DEF CodeAfter
<1> QED BY <1>1, <1>2, ShowsAnswersStep, PTL DEF StatusSpec

-----------------------------------------------------------------------------
(* HexImage: chunks and volumes *)

(* The quotient that is rounded up *)
LEMMA RoundedUp ==
  ASSUME NEW L \in Nat, NEW k \in Nat \ {0}
  PROVE  LET c == (L + k - 1) \div k IN
         /\ c \in Nat /\ L <= c * k
         /\ \A n \in Nat : n < c => n * k \in Nat /\ n * k < L /\ (n + 1 < c => (n + 1) * k <= L)
         /\ c = 0 <=> L = 0
         /\ \A m \in Nat : c <= m <=> L <= m * k
<1> DEFINE c == (L + k - 1) \div k
<1>1. c \in Nat /\ c * k <= L + k - 1 /\ L + k - 1 < c * k + k
  OBVIOUS
<1> HIDE DEF c
<1>2. L <= c * k
  BY <1>1
<1>3. ASSUME NEW n \in Nat, n < c PROVE n * k \in Nat /\ n * k < L
  <2>1. n * k \in Nat
    OBVIOUS
  <2>2. (c - 1 - n) * k \in Nat
    BY <1>1, <1>3
  <2>3. (c - 1 - n) * k = c * k - k - n * k
    BY <1>1
  <2>4. c * k \in Nat
    BY <1>1
  <2> QED BY <1>1, <2>1, <2>2, <2>3, <2>4
<1>4. c = 0 <=> L = 0
  <2>1. c = 0 => L = 0
    BY <1>2
  <2>2. c # 0 => L # 0
    <3> SUFFICES ASSUME c # 0 PROVE L # 0
      OBVIOUS
    <3>1. 0 < c
      BY <1>1
    <3>2. 0 * k < L
      BY <1>3, <3>1
    <3> QED BY <3>2
  <2> QED BY <2>1, <2>2
<1>5. ASSUME NEW m \in Nat PROVE c <= m <=> L <= m * k
  <2>1. CASE c <= m
    <3>1. (m - c) * k \in Nat /\ (m - c) * k = m * k - c * k /\ m * k \in Nat /\ c * k \in Nat
      BY <1>1, <2>1
    <3> QED BY <1>2, <2>1, <3>1
  <2>2. CASE m < c
    <3>1. m * k \in Nat /\ m * k < L
      BY <1>3, <2>2
    <3> QED BY <1>1, <2>2, <3>1
  <2> QED BY <1>1, <2>1, <2>2
<1>6. \A n \in Nat : n + 1 < c => (n + 1) * k <= L
  <2>1. \A n \in Nat : n + 1 < c => (n + 1) * k \in Nat /\ (n + 1) * k < L
    BY <1>3
  <2> QED BY <2>1
<1> QED BY <1>1, <1>2, <1>3, <1>4, <1>5, <1>6 DEF c

(* The smaller of two numbers *)
LEMMA MinOfTwo == \A a, b \in Int : Min({a, b}) = IF a <= b THEN a ELSE b
<1> SUFFICES ASSUME NEW a \in Int, NEW b \in Int PROVE Min({a, b}) = IF a <= b THEN a ELSE b
  OBVIOUS
<1> DEFINE m == IF a <= b THEN a ELSE b
<1>1. m \in {a, b} /\ \A y \in {a, b} : m <= y
  OBVIOUS
<1>2. \A x \in {a, b} : (\A y \in {a, b} : x <= y) => x = m
  OBVIOUS
<1> HIDE DEF m
<1>3. Min({a, b}) \in {a, b} /\ \A y \in {a, b} : Min({a, b}) <= y
  BY <1>1 DEF Min
<1> QED BY <1>2, <1>3 DEF m

(* The pieces of a sequence are the sequence. *)
LEMMA PiecesFlatten ==
  ASSUME NEW A, NEW s \in Seq(A), NEW k \in Nat \ {0}
  PROVE  /\ Pieces(s, k) \in Seq(Seq(A))
         /\ Len(Pieces(s, k)) = (Len(s) + k - 1) \div k
         /\ FlattenSeq(Pieces(s, k)) = s
<1> DEFINE L == Len(s)
           c == (L + k - 1) \div k
           p == Pieces(s, k)
           Upto(n) == IF n < c THEN n * k ELSE L
<1>1. /\ L \in Nat /\ c \in Nat /\ L <= c * k
      /\ \A n \in Nat : n < c => n * k \in Nat /\ n * k < L
      /\ c = 0 <=> L = 0
  <2>1. L \in Nat
    OBVIOUS
  <2> HIDE DEF L
  <2> QED BY <2>1, RoundedUp
<1>2. p = [i \in 1 .. c |-> SubSeq(s, (i - 1) * k + 1, Min({i * k, L}))]
  BY DEF Pieces
<1> HIDE DEF p, c, L
<1>3. \A n \in 0 .. c : Upto(n) \in 0 .. L
  BY <1>1
<1>4. ASSUME NEW i \in 1 .. c
      PROVE  p[i] = SubSeq(s, Upto(i - 1) + 1, Upto(i)) /\ Upto(i - 1) <= Upto(i) /\ p[i] \in Seq(A)
  <2>1. i - 1 \in Nat /\ i - 1 < c /\ i \in Nat /\ i <= c /\ i - 1 \in 0 .. c /\ i \in 0 .. c
    BY <1>1
  <2>2. Upto(i - 1) = (i - 1) * k
    BY <2>1
  <2>3. Min({i * k, L}) = Upto(i)
    <3>1. i * k \in Nat
      BY <2>1
    <3>2. Min({i * k, L}) = IF i * k <= L THEN i * k ELSE L
      BY <1>1, <3>1, MinOfTwo
    <3>3. CASE i < c
      <4>1. i * k < L
        BY <1>1, <2>1, <3>3
      <4> QED BY <1>1, <3>1, <3>2, <3>3, <4>1
    <3>4. CASE i = c
      BY <1>1, <3>1, <3>2, <3>4
    <3> QED BY <1>1, <2>1, <3>3, <3>4
  <2>4. p[i] = SubSeq(s, Upto(i - 1) + 1, Upto(i))
    BY <1>2, <2>2, <2>3
  <2>5. (i - 1) * k < L /\ (i - 1) * k \in Nat
    BY <1>1, <2>1
  <2>6. Upto(i - 1) <= Upto(i)
    <3>1. (i - 1) * k <= i * k
      <4>1. i * k = (i - 1) * k + k
        BY <2>1
      <4> QED BY <2>5, <4>1
    <3> QED BY <1>1, <2>2, <2>5, <3>1
  <2>7. p[i] \in Seq(A)
    <3>1. Upto(i - 1) \in 0 .. L /\ Upto(i) \in 0 .. L
      BY <1>3, <2>1
    <3> HIDE DEF Upto
    <3>2. \A j \in Upto(i - 1) + 1 .. Upto(i) : s[j] \in A
      BY <1>1, <3>1 DEF L
    <3>3. Upto(i - 1) + 1 \in Int /\ Upto(i) \in Int
      BY <1>1, <3>1
    <3> QED BY <2>4, <3>2, <3>3, SubSeqProperties
  <2> QED BY <2>4, <2>6, <2>7
<1>5. p \in Seq(Seq(A)) /\ Len(p) = c
  <2>1. p = [i \in 1 .. c |-> p[i]]
    BY <1>2
  <2>2. p \in [1 .. c -> Seq(A)]
    BY <1>4, <2>1
  <2> QED BY <1>1, <2>2
<1>6. PICK h : Flattens(h, p, A)
  BY <1>5, FlattensExists
<1>7. h[0] = <<>> /\ \A i \in 1 .. c : h[i] = h[i - 1] \o p[i]
  BY <1>5, <1>6 DEF Flattens
<1> DEFINE S == {n \in Nat : n <= c => h[n] = SubSeq(s, 1, Upto(n))}
<1>8. 0 \in S
  <2>1. Upto(0) = 0
    BY <1>1
  <2>2. SubSeq(s, 1, 0) = <<>>
    BY SubSeqEmpty
  <2> QED BY <1>7, <2>1, <2>2
<1>9. ASSUME NEW n \in Nat, n \in S PROVE n + 1 \in S
  <2> HIDE DEF Upto
  <2> SUFFICES ASSUME n + 1 <= c PROVE h[n + 1] = SubSeq(s, 1, Upto(n + 1))
    OBVIOUS
  <2>1. n + 1 \in 1 .. c /\ (n + 1) - 1 = n /\ n \in 0 .. c /\ n + 1 \in 0 .. c /\ n <= c
    BY <1>1
  <2>2. h[n] = SubSeq(s, 1, Upto(n)) /\ h[n + 1] = h[n] \o p[n + 1]
    BY <1>7, <1>9, <2>1
  <2>3. p[n + 1] = SubSeq(s, Upto(n) + 1, Upto(n + 1)) /\ Upto(n) <= Upto(n + 1)
    BY <1>4, <2>1
  <2>4. Upto(n) \in 0 .. L /\ Upto(n + 1) \in Upto(n) .. L
    <3>1. Upto(n) \in 0 .. L /\ Upto(n + 1) \in 0 .. L
      BY <1>3, <2>1
    <3> QED BY <1>1, <2>3, <3>1
  <2>5. SubSeq(s, 1, Upto(n)) \o SubSeq(s, Upto(n) + 1, Upto(n + 1)) = SubSeq(s, 1, Upto(n + 1))
    <3>1. 1 \in 1 .. L + 1 /\ Upto(n) \in 1 - 1 .. L
      BY <1>1, <2>4
    <3> QED BY <2>4, <3>1, ConcatAdjacentSubSeq DEF L
  <2> QED BY <2>2, <2>3, <2>5
<1>10. h[c] = SubSeq(s, 1, Upto(c)) /\ Upto(c) = L
  <2>1. \A n \in Nat : n \in S
    <3> HIDE DEF S
    <3> QED BY <1>8, <1>9, AllNumbers
  <2>2. Upto(c) = L
    BY <1>1
  <2> HIDE DEF Upto
  <2>3. h[c] = SubSeq(s, 1, Upto(c))
    BY <1>1, <2>1
  <2> QED BY <2>2, <2>3
<1>11. SubSeq(s, 1, L) = s
  BY SubSeqFull DEF L
<1>12. FlattenSeq(p) = h[c]
  BY <1>5, <1>6, FlattensToEnd
<1> QED BY <1>5, <1>10, <1>11, <1>12 DEF p, c, L

(* Pieces that are put together first *)
LEMMA FlattenTwice ==
  ASSUME NEW A, NEW p \in Seq(Seq(Seq(A)))
  PROVE  LET volumesOf == [v \in DOMAIN p |-> FlattenSeq(p[v])] IN
         /\ volumesOf \in Seq(Seq(A)) /\ Len(volumesOf) = Len(p)
         /\ FlattenSeq(volumesOf) = FlattenSeq(FlattenSeq(p))
<1> DEFINE N == Len(p)
           q == [v \in DOMAIN p |-> FlattenSeq(p[v])]
<1>1. /\ N \in Nat /\ DOMAIN p = 1 .. N /\ \A i \in 1 .. N : p[i] \in Seq(Seq(A))
      /\ \A s \in Seq(Seq(A)) : FlattenSeq(s) \in Seq(A)
  <2>1. <<>> \in Seq(A)
    BY EmptySeq
  <2> QED BY <2>1, FlattenAppend
<1>2. q \in Seq(Seq(A)) /\ Len(q) = N /\ \A i \in 1 .. N : q[i] = FlattenSeq(p[i])
  <2>1. q \in [1 .. N -> Seq(A)] /\ \A i \in 1 .. N : q[i] = FlattenSeq(p[i])
    BY <1>1
  <2> HIDE DEF q, N
  <2> QED BY <1>1, <2>1
<1> HIDE DEF q
<1>3. PICK h : Flattens(h, p, Seq(A))
  BY FlattensExists
<1>4. /\ h \in [0 .. N -> Seq(Seq(A))] /\ h[0] = <<>> /\ \A i \in 1 .. N : h[i] = h[i - 1] \o p[i]
      /\ FlattenSeq(p) = h[N]
  BY <1>3, FlattensToEnd DEF Flattens
<1> DEFINE g == [i \in 0 .. N |-> FlattenSeq(h[i])]
<1>5. Flattens(g, q, A)
  <2>1. g \in [0 .. N -> Seq(A)]
    BY <1>1, <1>4
  <2>2. g[0] = <<>>
    BY <1>1, <1>4, FlattenEmpty
  <2>3. ASSUME NEW i \in 1 .. N PROVE g[i] = g[i - 1] \o q[i]
    <3>1. i \in 0 .. N /\ i - 1 \in 0 .. N
      BY <1>1
    <3>2. h[i] = h[i - 1] \o p[i] /\ h[i - 1] \in Seq(Seq(A)) /\ p[i] \in Seq(Seq(A))
      BY <1>1, <1>4, <3>1
    <3>3. FlattenSeq(h[i]) = FlattenSeq(h[i - 1]) \o FlattenSeq(p[i])
      BY <3>2, FlattenConcat
    <3> QED BY <1>2, <3>1, <3>3
  <2> HIDE DEF g
  <2> QED BY <1>2, <2>1, <2>2, <2>3 DEF Flattens
<1>6. FlattenSeq(q) = g[N] /\ g[N] = FlattenSeq(h[N])
  <2>1. N \in 0 .. N
    BY <1>1
  <2>2. g[N] = FlattenSeq(h[N])
    BY <2>1
  <2> HIDE DEF g
  <2> QED BY <1>2, <1>5, <2>2, FlattensToEnd
<1> QED BY <1>2, <1>4, <1>6 DEF q

-----------------------------------------------------------------------------
(* The number of chunks is the sum over the lines. *)
Counts(h, t) ==
  /\ h \in [0 .. Len(t) -> Nat] /\ h[0] = 0
  /\ \A i \in 1 .. Len(t) : h[i] = h[i - 1] + ChunksIn(t[i])

(* A line has a number of chunks. *)
LEMMA ChunksTyped == HexAssumption => \A l \in HexLine : ChunksIn(l) \in Nat
<1> SUFFICES ASSUME HexAssumption, NEW l \in HexLine PROVE ChunksIn(l) \in Nat
  OBVIOUS
<1>1. l.size \in Nat /\ ChunkSize \in Nat \ {0}
  BY DEF HexLine, HexAssumption
<1>2. (l.size + ChunkSize - 1) \div ChunkSize \in Nat
  BY <1>1, RoundedUp
<1> QED BY <1>2 DEF ChunksIn

(* Some h counts them. *)
LEMMA ChunksCount ==
  ASSUME HexAssumption, NEW t \in Seq(HexLine)
  PROVE  \E h : Counts(h, t) /\ Chunks(t) = h[Len(t)]
<1> DEFINE N == Len(t)
           F == [p \in (1 .. N) \X Nat |-> p[2] + ChunksIn(t[p[1]])]
           Body(it) == [s \in SUBSET (DOMAIN t) |->
                         IF s = {} THEN 0 ELSE it[s \ {Max(s)}] + ChunksIn(t[Max(s)])]
           iter == CHOOSE it : it = Body(it)
<1>1. N \in Nat /\ DOMAIN t = 1 .. N /\ \A i \in 1 .. N : ChunksIn(t[i]) \in Nat
  BY ChunksTyped
<1>2. Chunks(t) = iter[DOMAIN t]
  BY DEF Chunks, FoldLeft, MapThenFoldSet
<1>3. /\ F \in [(1 .. N) \X Nat -> Nat]
      /\ \A i \in 1 .. N, v \in Nat : F[<<i, v>>] = v + ChunksIn(t[i])
  BY <1>1
<1> HIDE DEF F, N
<1>4. PICK g : IsFold(g, Nat, N, 0, F)
  BY <1>1, <1>3, FoldExists
<1>5. /\ g \in [SUBSET (1 .. N) -> Nat]
      /\ \A s \in SUBSET (1 .. N) : g[s] = IF s = {} THEN 0 ELSE F[<<Max(s), g[s \ {Max(s)}]>>]
  BY <1>4 DEF IsFold
<1>6. \A s \in SUBSET (1 .. N) : s # {} => Max(s) \in 1 .. N
  BY <1>1, MaxOfNumbers
<1>7. g = Body(g)
  <2>1. ASSUME NEW s \in SUBSET (1 .. N), s # {}
        PROVE  g[s] = g[s \ {Max(s)}] + ChunksIn(t[Max(s)])
    <3>1. Max(s) \in 1 .. N /\ g[s \ {Max(s)}] \in Nat
      BY <1>5, <1>6, <2>1
    <3> QED BY <1>3, <1>5, <2>1, <3>1
  <2> QED BY <1>1, <1>5, <2>1
<1>8. iter = Body(iter)
  <2>1. \E it : it = Body(it)
    BY <1>7
  <2> HIDE DEF Body
  <2> QED BY <2>1
<1> HIDE DEF iter
<1>9. iter[{}] = 0
  BY <1>8
<1>10. ASSUME NEW s \in SUBSET (1 .. N), s # {}, iter[s \ {Max(s)}] \in Nat
       PROVE  iter[s] = F[<<Max(s), iter[s \ {Max(s)}]>>]
  <2>1. iter[s] = iter[s \ {Max(s)}] + ChunksIn(t[Max(s)])
    BY <1>1, <1>8, <1>10
  <2> QED BY <1>3, <1>6, <1>10, <2>1
<1>11. Iterates(iter, Nat, N, 0, F)
  BY <1>1, <1>3, <1>9, <1>10 DEF Iterates
<1>12. PICK h : Follows(h, iter, Nat, N, 0, F)
  BY <1>11, FoldIsRecursive
<1>13. /\ h \in [0 .. N -> Nat] /\ h[N] = iter[1 .. N]
       /\ \A i \in 0 .. N : h[i] = IF i = 0 THEN 0 ELSE F[<<i, h[i - 1]>>]
  BY <1>12 DEF Follows, IsRecursive
<1>14. /\ 0 \in 0 .. N
       /\ \A i \in 1 .. N : i \in 0 .. N /\ i - 1 \in 0 .. N /\ i # 0
  BY <1>1
<1>15. h[0] = 0 /\ \A i \in 1 .. N : h[i] = h[i - 1] + ChunksIn(t[i])
  BY <1>3, <1>13, <1>14
<1> QED BY <1>1, <1>2, <1>13, <1>15 DEF Counts, N

(* One line more *)
LEMMA ChunksAppend ==
  ASSUME HexAssumption, NEW t \in Seq(HexLine), NEW l \in HexLine
  PROVE  /\ Chunks(<<>>) = 0 /\ Chunks(t) \in Nat
         /\ Chunks(Append(t, l)) = Chunks(t) + ChunksIn(l)
<1> DEFINE N == Len(t)
           u == Append(t, l)
<1>1. /\ N \in Nat /\ u \in Seq(HexLine) /\ Len(u) = N + 1 /\ u[N + 1] = l
      /\ \A i \in 1 .. N : u[i] = t[i]
  BY AppendProperties
<1> HIDE DEF u
<1>2. PICK g : Counts(g, t) /\ Chunks(t) = g[N]
  BY ChunksCount
<1>3. PICK h : Counts(h, u) /\ Chunks(u) = h[N + 1]
  BY <1>1, ChunksCount
<1>4. /\ g \in [0 .. N -> Nat] /\ g[0] = 0 /\ \A i \in 1 .. N : g[i] = g[i - 1] + ChunksIn(t[i])
      /\ h[0] = 0 /\ \A i \in 1 .. N + 1 : h[i] = h[i - 1] + ChunksIn(u[i])
  BY <1>1, <1>2, <1>3 DEF Counts
<1> HIDE DEF N
<1> DEFINE S == {n \in Nat : n <= N => h[n] = g[n]}
<1>5. 0 \in S
  BY <1>4
<1>6. ASSUME NEW n \in Nat, n \in S PROVE n + 1 \in S
  <2> SUFFICES ASSUME n + 1 <= N PROVE h[n + 1] = g[n + 1]
    OBVIOUS
  <2>1. n + 1 \in 1 .. N /\ n + 1 \in 1 .. N + 1 /\ (n + 1) - 1 = n /\ h[n] = g[n]
    BY <1>1, <1>6
  <2> QED BY <1>1, <1>4, <2>1
<1>7. h[N] = g[N]
  <2>1. \A n \in Nat : n \in S
    <3> HIDE DEF S
    <3> QED BY <1>5, <1>6, AllNumbers
  <2> QED BY <1>1, <2>1
<1>8. h[N + 1] = h[N] + ChunksIn(l) /\ g[N] \in Nat
  <2>1. N + 1 \in 1 .. N + 1 /\ (N + 1) - 1 = N /\ N \in 0 .. N
    BY <1>1
  <2> QED BY <1>1, <1>4, <2>1
<1>9. Chunks(<<>>) = 0
  <2>1. <<>> \in Seq(HexLine) /\ Len(<<>>) = 0
    BY EmptySeq
  <2>2. PICK f : Counts(f, <<>>) /\ Chunks(<<>>) = f[Len(<<>>)]
    BY <2>1, ChunksCount
  <2> QED BY <2>1, <2>2 DEF Counts
<1> QED BY <1>2, <1>3, <1>7, <1>8, <1>9 DEF u

-----------------------------------------------------------------------------
Byte == Nat \X Nat

(* The bytes of a record *)
LEMMA BytesTyped == \A n \in Nat, size \in Nat : Bytes(n, size) \in Seq(Byte) /\ Len(Bytes(n, size)) = size
<1> SUFFICES ASSUME NEW n \in Nat, NEW size \in Nat
             PROVE  Bytes(n, size) \in Seq(Byte) /\ Len(Bytes(n, size)) = size
  OBVIOUS
<1>1. Bytes(n, size) \in [1 .. size -> Byte]
  BY DEF Bytes, Byte
<1> QED BY <1>1

(* The data of a line are bytes. *)
LEMMA DataTyped ==
  ASSUME NEW n \in Nat, NEW l \in HexLine
  PROVE  Data(n, l) \in Seq(Byte) /\ Len(Data(n, l)) = IF l.kind = "record" /\ l.type = 0 THEN l.size ELSE 0
<1>1. l.size \in Nat
  BY DEF HexLine
<1>2. <<>> \in Seq(Byte) /\ Len(<<>>) = 0
  BY EmptySeq
<1> HIDE DEF Byte
<1> QED BY <1>1, <1>2, BytesTyped DEF Data

(* The image of one line more *)
LEMMA ImageAppend ==
  ASSUME NEW t \in Seq(HexLine), NEW l \in HexLine
  PROVE  Image(t) \in Seq(Byte) /\ Image(Append(t, l)) = Image(t) \o Data(Len(t) + 1, l)
<1> DEFINE N == Len(t)
           u == Append(t, l)
           old == [n \in DOMAIN t |-> Data(n, t[n])]
           new == [n \in DOMAIN u |-> Data(n, u[n])]
           x == Data(N + 1, l)
<1>1. /\ N \in Nat /\ DOMAIN t = 1 .. N /\ DOMAIN u = 1 .. N + 1 /\ u[N + 1] = l
      /\ \A n \in 1 .. N : u[n] = t[n] /\ t[n] \in HexLine
  BY AppendProperties
<1> HIDE DEF u
<1>2. x \in Seq(Byte)
  BY <1>1, DataTyped
<1>3. old \in Seq(Seq(Byte)) /\ Len(old) = N /\ \A n \in 1 .. N : old[n] = Data(n, t[n])
  <2>1. \A n \in 1 .. N : Data(n, t[n]) \in Seq(Byte)
    BY <1>1, DataTyped
  <2>2. old \in [1 .. N -> Seq(Byte)]
    BY <1>1, <2>1
  <2> HIDE DEF N
  <2> QED BY <1>1, <2>2
<1>4. new = Append(old, x)
  <2>1. Append(old, x) \in Seq(Seq(Byte)) /\ Len(Append(old, x)) = N + 1
        /\ Append(old, x)[N + 1] = x /\ \A n \in 1 .. N : Append(old, x)[n] = old[n]
    <3> HIDE DEF old, x, N
    <3> QED BY <1>2, <1>3, AppendProperties
  <2>2. Append(old, x) = [n \in 1 .. N + 1 |-> Append(old, x)[n]]
    <3> DEFINE y == Append(old, x)
    <3>1. y \in Seq(Seq(Byte)) /\ Len(y) = N + 1
      BY <2>1
    <3> HIDE DEF y, N
    <3>2. y = [n \in 1 .. N + 1 |-> y[n]]
      BY <3>1
    <3> QED BY <3>2 DEF y
  <2>3. \A n \in 1 .. N + 1 : Append(old, x)[n] = Data(n, u[n])
    <3>1. \A n \in 1 .. N + 1 : n \in 1 .. N \/ n = N + 1
      BY <1>1
    <3> HIDE DEF old
    <3> QED BY <1>1, <1>3, <2>1, <3>1
  <2> QED BY <1>1, <2>2, <2>3
<1> HIDE DEF old, x, N
<1>5. FlattenSeq(old) \in Seq(Byte) /\ FlattenSeq(Append(old, x)) = FlattenSeq(old) \o x
  BY <1>2, <1>3, FlattenAppend
<1> QED BY <1>4, <1>5 DEF Image, old, x, N, u

-----------------------------------------------------------------------------
EndRecord(t, n) == t[n].kind = "record" /\ t[n].type = 1
Sound(t, n) ==
  t[n].kind # "broken" /\ (t[n].kind = "record" /\ t[n].type # 0 => RequireControlRecord(t[n]))

(* What has been read is what the lines say. *)
Faithful ==
  /\ FlattenSeq(parser.blocks) = Image(text)
  /\ Len(parser.blocks) = Chunks(text)
  /\ \A n \in DOMAIN text : Sound(text, n)
  /\ parser.eofSeen <=> \E n \in DOMAIN text : EndRecord(text, n)
  /\ \A n, m \in DOMAIN text : n < m /\ EndRecord(text, n) => text[m].kind = "blank"
  /\ parser.dataSeen <=> Image(text) # <<>>

Parser == [pc : {"reading", "failed", "returned"}, blocks : Seq(Seq(Byte)), eofSeen : BOOLEAN, dataSeen : BOOLEAN]

(* The texts, the parser, and both promises *)
HexInv ==
  /\ text \in Seq(HexLine) /\ parser \in Parser
  /\ parser.pc = "reading" => Faithful
  /\ VolumesAreTheImage /\ SentIfWellFormed

(* A well-formed file ends with its end record. *)
LEMMA WellFormedEnds ==
  ASSUME NEW t \in Seq(HexLine)
  PROVE  WellFormed(t) <=>
           /\ Image(t) # <<>> /\ \E n \in DOMAIN t : EndRecord(t, n)
           /\ \A n \in DOMAIN t : Sound(t, n)
           /\ \A n, m \in DOMAIN t : n < m /\ EndRecord(t, n) => t[m].kind = "blank"
<1> DEFINE N == Len(t)
           records == {n \in DOMAIN t : t[n].kind # "blank"}
<1>1. /\ N \in Nat /\ DOMAIN t = 1 .. N /\ records \in SUBSET (1 .. N)
      /\ \A n \in 1 .. N : t[n].kind \in {"blank", "broken", "record"}
      /\ \A n \in records : n \in Int
  <2>1. \A l \in HexLine : l.kind \in {"blank", "broken", "record"}
    BY DEF HexLine
  <2> QED BY <2>1
<1>2. records # {} => Max(records) \in records /\ \A n \in records : n <= Max(records)
  <2>1. records # {} => Max(records) \in records /\ \A n \in records : Max(records) >= n
    <3> HIDE DEF records, N
    <3> QED BY <1>1, MaxOfNumbers
  <2> HIDE DEF records
  <2>2. records # {} => Max(records) \in Int
    BY <1>1, <2>1
  <2> QED BY <1>1, <2>1, <2>2
<1>3. WellFormed(t) <=>
        /\ records # {} /\ Image(t) # <<>>
        /\ \A n \in records : /\ t[n].kind = "record" /\ (t[n].type = 1 <=> n = Max(records))
                              /\ t[n].type # 0 => RequireControlRecord(t[n])
  BY DEF WellFormed
<1>4. \A n \in records : n \in 1 .. N /\ t[n].kind # "blank"
  BY <1>1
<1>5. \A n \in 1 .. N : t[n].kind # "blank" => n \in records
  BY <1>1
<1> HIDE DEF records, N
<1>6. ASSUME WellFormed(t)
      PROVE  /\ Image(t) # <<>> /\ \E n \in DOMAIN t : EndRecord(t, n)
             /\ \A n \in DOMAIN t : Sound(t, n)
             /\ \A n, m \in DOMAIN t : n < m /\ EndRecord(t, n) => t[m].kind = "blank"
  <2>1. EndRecord(t, Max(records)) /\ Max(records) \in DOMAIN t
    BY <1>1, <1>2, <1>3, <1>4, <1>6 DEF EndRecord
  <2>2. \A n \in DOMAIN t : Sound(t, n)
    <3> SUFFICES ASSUME NEW n \in DOMAIN t PROVE Sound(t, n)
      OBVIOUS
    <3>1. CASE t[n].kind = "blank"
      BY <3>1 DEF Sound
    <3>2. CASE t[n].kind # "blank"
      <4>1. n \in records
        BY <1>1, <1>5, <3>2
      <4> QED BY <1>3, <1>6, <4>1 DEF Sound
    <3> QED BY <3>1, <3>2
  <2>3. ASSUME NEW n \in DOMAIN t, NEW m \in DOMAIN t, n < m, EndRecord(t, n), t[m].kind # "blank"
        PROVE  FALSE
    <3>1. n \in records /\ m \in records /\ t[n].type = 1
      BY <1>1, <1>5, <2>3 DEF EndRecord
    <3>2. n = Max(records) /\ m <= Max(records) /\ n \in Int /\ m \in Int
      BY <1>1, <1>2, <1>3, <1>6, <3>1
    <3> QED BY <2>3, <3>2
  <2> QED BY <1>3, <1>6, <2>1, <2>2, <2>3
<1>7. ASSUME Image(t) # <<>>, NEW e \in DOMAIN t, EndRecord(t, e), \A n \in DOMAIN t : Sound(t, n),
             \A n, m \in DOMAIN t : n < m /\ EndRecord(t, n) => t[m].kind = "blank"
      PROVE  WellFormed(t)
  <2>1. e \in records
    BY <1>1, <1>5, <1>7 DEF EndRecord
  <2>2. \A n \in records : EndRecord(t, n) => n = Max(records)
    <3> SUFFICES ASSUME NEW n \in records, EndRecord(t, n), n # Max(records) PROVE FALSE
      OBVIOUS
    <3>1. Max(records) \in records /\ n <= Max(records) /\ n \in Int /\ Max(records) \in Int
      BY <1>1, <1>2
    <3>2. n < Max(records) /\ n \in DOMAIN t /\ Max(records) \in DOMAIN t
      BY <1>1, <1>4, <3>1
    <3> QED BY <1>4, <1>7, <3>1, <3>2
  <2>3. EndRecord(t, Max(records))
    BY <1>7, <2>1, <2>2
  <2>4. ASSUME NEW n \in records
        PROVE  /\ t[n].kind = "record" /\ (t[n].type = 1 <=> n = Max(records))
               /\ t[n].type # 0 => RequireControlRecord(t[n])
    <3>1. t[n].kind = "record" /\ Sound(t, n)
      BY <1>1, <1>4, <1>7 DEF Sound
    <3> QED BY <2>2, <2>3, <3>1 DEF Sound, EndRecord
  <2> QED BY <1>3, <1>7, <2>1, <2>4
<1> QED BY <1>6, <1>7

(* One line more: the text is faithful still, or is not well formed. *)
LEMMA LineRead ==
  ASSUME HexAssumption, HexInv, NEW l \in HexLine, ReadLine(l)
  PROVE  HexInv'
<1> DEFINE N == Len(text)
           t == Append(text, l)
<1>1. /\ text \in Seq(HexLine) /\ parser \in Parser /\ Faithful /\ parser.pc = "reading"
      /\ text' = t /\ parser' = ParseLine(parser, N + 1, l)
  BY DEF HexInv, ReadLine
<1>2. /\ N \in Nat /\ t \in Seq(HexLine) /\ DOMAIN text = 1 .. N /\ DOMAIN t = 1 .. N + 1
      /\ t[N + 1] = l /\ \A n \in 1 .. N : t[n] = text[n] /\ n \in 1 .. N + 1
  BY <1>1, AppendProperties
<1>3. /\ \A n \in 1 .. N + 1 : n \in 1 .. N \/ n = N + 1
      /\ N + 1 \in 1 .. N + 1 /\ \A n \in 1 .. N : n < N + 1
  BY <1>2
<1>4. Image(text) \in Seq(Byte) /\ Image(t) = Image(text) \o Data(N + 1, l)
  BY <1>1, ImageAppend
<1>5. Chunks(t) = Chunks(text) + ChunksIn(l) /\ Chunks(text) \in Nat
  BY <1>1, ChunksAppend
<1>6. l.kind \in {"blank", "broken", "record"} /\ l.size \in Nat /\ l.type \in Nat
  BY DEF HexLine
<1> HIDE DEF t, N
<1>7. /\ \A n \in 1 .. N : EndRecord(t, n) <=> EndRecord(text, n)
      /\ EndRecord(t, N + 1) <=> l.kind = "record" /\ l.type = 1
      /\ \A n \in 1 .. N : Sound(t, n) <=> Sound(text, n)
      /\ Sound(t, N + 1) <=> l.kind # "broken" /\ (l.kind = "record" /\ l.type # 0 => RequireControlRecord(l))
  <2>1. \A n \in 1 .. N : t[n] = text[n]
    BY <1>2
  <2> QED BY <1>2, <2>1 DEF EndRecord, Sound
<1>8. WellFormed(t) <=>
        /\ Image(t) # <<>> /\ \E n \in DOMAIN t : EndRecord(t, n)
        /\ \A n \in DOMAIN t : Sound(t, n)
        /\ \A n, m \in DOMAIN t : n < m /\ EndRecord(t, n) => t[m].kind = "blank"
  BY <1>2, WellFormedEnds
<1>9. /\ FlattenSeq(parser.blocks) = Image(text) /\ Len(parser.blocks) = Chunks(text)
      /\ \A n \in 1 .. N : Sound(text, n)
      /\ parser.eofSeen <=> \E n \in 1 .. N : EndRecord(text, n)
      /\ \A n, m \in 1 .. N : n < m /\ EndRecord(text, n) => text[m].kind = "blank"
      /\ parser.dataSeen <=> Image(text) # <<>>
      /\ parser.blocks \in Seq(Seq(Byte)) /\ parser.eofSeen \in BOOLEAN /\ parser.dataSeen \in BOOLEAN
  BY <1>1, <1>2 DEF Faithful, Parser
(* The line ends the parsing. *)
<1>10. ASSUME parser' = Fail(parser), ~WellFormed(t) PROVE HexInv'
  <2>1. parser' \in Parser /\ parser'.pc = "failed"
    <3>1. <<>> \in Seq(Seq(Byte))
      BY EmptySeq
    <3> QED BY <1>1, <1>10, <3>1 DEF Fail, Parser
  <2> QED BY <1>1, <1>2, <1>10, <2>1 DEF HexInv, VolumesAreTheImage, SentIfWellFormed
(* The line is taken. *)
<1>11. ASSUME parser' \in Parser, parser'.pc = "reading",
              Sound(t, N + 1), l.kind # "blank" => ~parser.eofSeen,
              FlattenSeq(parser'.blocks) = Image(t), Len(parser'.blocks) = Chunks(t),
              parser'.eofSeen <=> parser.eofSeen \/ EndRecord(t, N + 1),
              parser'.dataSeen <=> Image(t) # <<>>
       PROVE  HexInv'
  <2>1. \A n \in 1 .. N + 1 : Sound(t, n)
    BY <1>3, <1>7, <1>9, <1>11
  <2>2. parser'.eofSeen <=> \E n \in 1 .. N + 1 : EndRecord(t, n)
    BY <1>2, <1>3, <1>7, <1>9, <1>11
  <2>3. ASSUME NEW n \in 1 .. N + 1, NEW m \in 1 .. N + 1, n < m, EndRecord(t, n)
        PROVE  t[m].kind = "blank"
    <3>1. n \in 1 .. N
      BY <1>2, <2>3
    <3>2. EndRecord(text, n) /\ parser.eofSeen
      BY <1>7, <1>9, <2>3, <3>1
    <3>3. CASE m \in 1 .. N
      BY <1>2, <1>9, <2>3, <3>1, <3>2, <3>3
    <3>4. CASE m = N + 1
      BY <1>2, <1>11, <3>2, <3>4
    <3> QED BY <1>3, <3>3, <3>4
  <2>4. Faithful'
    BY <1>1, <1>2, <1>11, <2>1, <2>2, <2>3 DEF Faithful
  <2> QED BY <1>1, <1>2, <1>11, <2>4 DEF HexInv, VolumesAreTheImage, SentIfWellFormed
<1>12. CASE l.kind = "blank"
  <2>1. parser' = parser
    BY <1>1, <1>12 DEF ParseLine
  <2>2. Data(N + 1, l) = <<>> /\ ChunksIn(l) = 0
    BY <1>12 DEF Data, ChunksIn
  <2>3. Image(t) = Image(text) /\ Chunks(t) = Chunks(text)
    BY <1>4, <1>5, <2>2, ConcatEmptySeq
  <2>4. Sound(t, N + 1) /\ ~EndRecord(t, N + 1)
    BY <1>7, <1>12
  <2> QED BY <1>1, <1>9, <1>11, <1>12, <2>1, <2>3, <2>4
<1>13. CASE l.kind # "blank" /\ (parser.eofSeen \/ l.kind = "broken")
  <2>1. parser' = Fail(parser)
    BY <1>1, <1>13 DEF ParseLine
  <2>2. CASE l.kind = "broken"
    BY <1>2, <1>3, <1>7, <1>8, <1>10, <2>1, <2>2
  <2>3. CASE parser.eofSeen
    <3>1. PICK n \in 1 .. N : EndRecord(text, n)
      BY <1>9, <2>3
    <3>2. EndRecord(t, n) /\ n < N + 1 /\ n \in 1 .. N + 1
      BY <1>2, <1>3, <1>7, <3>1
    <3> QED BY <1>2, <1>3, <1>8, <1>10, <1>13, <2>1, <3>2
  <2> QED BY <1>13, <2>2, <2>3
<1>14. CASE l.kind = "record" /\ ~parser.eofSeen /\ l.type = 0
  <2> DEFINE bytes == Bytes(N + 1, l.size)
             p == Pieces(bytes, ChunkSize)
             blocks == parser.blocks \o p
  <2>1. parser' = [parser EXCEPT !.blocks = blocks, !.dataSeen = @ \/ l.size > 0]
    BY <1>1, <1>14 DEF ParseLine
  <2>2. bytes \in Seq(Byte) /\ Len(bytes) = l.size
    <3>1. N + 1 \in Nat /\ l.size \in Nat
      BY <1>2, <1>6
    <3> QED BY <3>1, BytesTyped
  <2> HIDE DEF bytes
  <2>3. /\ p \in Seq(Seq(Byte)) /\ Len(p) = (l.size + ChunkSize - 1) \div ChunkSize
        /\ FlattenSeq(p) = bytes
    BY <2>2, PiecesFlatten DEF HexAssumption
  <2> HIDE DEF p
  <2>4. Data(N + 1, l) = bytes /\ ChunksIn(l) = Len(p)
    BY <1>14, <2>3 DEF Data, ChunksIn, bytes
  <2>5. /\ blocks \in Seq(Seq(Byte)) /\ Len(blocks) = Len(parser.blocks) + Len(p)
        /\ FlattenSeq(blocks) = FlattenSeq(parser.blocks) \o bytes
    <3>1. parser.blocks \in Seq(Seq(Byte)) /\ p \in Seq(Seq(Byte))
      BY <1>9, <2>3
    <3>2. FlattenSeq(blocks) = FlattenSeq(parser.blocks) \o FlattenSeq(p)
      BY <3>1, FlattenConcat
    <3>3. blocks \in Seq(Seq(Byte)) /\ Len(blocks) = Len(parser.blocks) + Len(p)
      BY <3>1, ConcatProperties
    <3> QED BY <2>3, <3>2, <3>3
  <2> HIDE DEF blocks
  <2>6. FlattenSeq(blocks) = Image(t) /\ Len(blocks) = Chunks(t)
    BY <1>4, <1>5, <1>9, <2>4, <2>5
  <2>7. Image(t) # <<>> <=> Image(text) # <<>> \/ l.size > 0
    <3>1. Image(t) = Image(text) \o bytes
      BY <1>4, <2>4
    <3>2. Image(t) = <<>> <=> Image(text) = <<>> /\ bytes = <<>>
      BY <1>4, <2>2, <3>1, ConcatEqualIffEmpty
    <3>3. bytes = <<>> <=> ~(l.size > 0)
      BY <1>6, <2>2, EmptySeq
    <3> QED BY <3>2, <3>3
  <2>8. /\ parser' \in Parser /\ parser'.pc = "reading" /\ parser'.blocks = blocks
        /\ parser'.eofSeen = parser.eofSeen /\ (parser'.dataSeen <=> parser.dataSeen \/ l.size > 0)
    BY <1>1, <2>1, <2>5 DEF Parser
  <2>9. Sound(t, N + 1) /\ ~EndRecord(t, N + 1)
    BY <1>7, <1>14
  <2> QED BY <1>9, <1>11, <1>14, <2>6, <2>7, <2>8, <2>9
<1>15. CASE l.kind = "record" /\ ~parser.eofSeen /\ l.type # 0 /\ RequireControlRecord(l)
  <2>1. parser' = [parser EXCEPT !.eofSeen = @ \/ l.type = 1]
    BY <1>1, <1>15 DEF ParseLine
  <2>2. Data(N + 1, l) = <<>> /\ ChunksIn(l) = 0
    BY <1>15 DEF Data, ChunksIn
  <2>3. Image(t) = Image(text) /\ Chunks(t) = Chunks(text)
    BY <1>4, <1>5, <2>2, ConcatEmptySeq
  <2>4. Sound(t, N + 1) /\ (EndRecord(t, N + 1) <=> l.type = 1)
    BY <1>7, <1>15
  <2>5. /\ parser' \in Parser /\ parser'.pc = "reading" /\ parser'.blocks = parser.blocks
        /\ parser'.dataSeen = parser.dataSeen /\ (parser'.eofSeen <=> parser.eofSeen \/ l.type = 1)
    BY <1>1, <2>1 DEF Parser
  <2> QED BY <1>9, <1>11, <1>15, <2>3, <2>4, <2>5
<1>16. CASE l.kind = "record" /\ ~parser.eofSeen /\ l.type # 0 /\ ~RequireControlRecord(l)
  <2>1. parser' = Fail(parser)
    BY <1>1, <1>16 DEF ParseLine
  <2>2. ~Sound(t, N + 1)
    BY <1>7, <1>16
  <2> QED BY <1>2, <1>3, <1>8, <1>10, <2>1, <2>2
<1> QED BY <1>6, <1>12, <1>13, <1>14, <1>15, <1>16

(* The file is sent as its lines say, if they say so. *)
LEMMA TextRead ==
  ASSUME HexAssumption, HexInv, EndOfText
  PROVE  HexInv'
<1> DEFINE p == Pieces(parser.blocks, BlocksPerVolume)
           payloads == BuildVolumePayloads(parser.blocks)
           usable == /\ parser.eofSeen /\ parser.dataSeen /\ parser.blocks # <<>>
                     /\ payloads # <<>> /\ Len(payloads) <= MaxBlocks
           chunks == Chunks(text)
<1>1. /\ text \in Seq(HexLine) /\ parser \in Parser /\ Faithful /\ text' = text
      /\ parser' = [parser EXCEPT !.pc = IF usable THEN "returned" ELSE "failed"]
      /\ volumes' = IF usable THEN payloads ELSE <<>>
      /\ BlocksPerVolume \in Nat \ {0} /\ MaxBlocks \in Nat
  BY DEF HexInv, EndOfText, HexAssumption
<1>2. /\ FlattenSeq(parser.blocks) = Image(text) /\ Len(parser.blocks) = chunks
      /\ parser.dataSeen <=> Image(text) # <<>>
      /\ parser.blocks \in Seq(Seq(Byte)) /\ chunks \in Nat
  BY <1>1, ChunksAppend DEF Faithful, Parser
<1>3. /\ p \in Seq(Seq(Seq(Byte))) /\ Len(p) = (chunks + BlocksPerVolume - 1) \div BlocksPerVolume
      /\ FlattenSeq(p) = parser.blocks
  <2>1. /\ p \in Seq(Seq(Seq(Byte))) /\ FlattenSeq(p) = parser.blocks
        /\ Len(p) = (Len(parser.blocks) + BlocksPerVolume - 1) \div BlocksPerVolume
    <3> HIDE DEF Byte
    <3> QED BY <1>1, <1>2, PiecesFlatten
  <2> QED BY <1>2, <2>1
<1>4. payloads = [v \in DOMAIN p |-> FlattenSeq(p[v])]
  BY DEF BuildVolumePayloads
<1> HIDE DEF p, payloads
<1>5. /\ payloads \in Seq(Seq(Byte)) /\ Len(payloads) = Len(p)
      /\ FlattenSeq(payloads) = FlattenSeq(FlattenSeq(p))
  BY <1>3, <1>4, FlattenTwice
<1>6. /\ Len(payloads) = 0 <=> chunks = 0
      /\ Len(payloads) <= MaxBlocks <=> chunks <= MaxBlocks * BlocksPerVolume
  <2> DEFINE c == (chunks + BlocksPerVolume - 1) \div BlocksPerVolume
  <2>1. Len(payloads) = c
    BY <1>3, <1>5
  <2>2. (c = 0 <=> chunks = 0) /\ \A m \in Nat : c <= m <=> chunks <= m * BlocksPerVolume
    <3> HIDE DEF chunks
    <3> QED BY <1>1, <1>2, RoundedUp
  <2> HIDE DEF c, chunks
  <2> QED BY <1>1, <2>1, <2>2
<1>7. usable <=> WellFormed(text) /\ chunks <= MaxBlocks * BlocksPerVolume
  <2>1. WellFormed(text) <=> parser.dataSeen /\ parser.eofSeen
    BY <1>1, <1>2, WellFormedEnds DEF Faithful
  <2>2. ASSUME parser.dataSeen PROVE parser.blocks # <<>> /\ payloads # <<>>
    <3>1. parser.blocks # <<>>
      BY <1>2, <2>2, FlattenEmpty
    <3>2. chunks # 0
      BY <1>2, <3>1, EmptySeq
    <3> QED BY <1>5, <1>6, <3>1, <3>2, EmptySeq
  <2> HIDE DEF chunks
  <2> QED BY <1>6, <2>1, <2>2
<1>8. usable => FlattenSeq(payloads) = Image(text)
  BY <1>2, <1>3, <1>5
<1> HIDE DEF usable, chunks
<1>9. parser' \in Parser /\ parser'.pc = IF usable THEN "returned" ELSE "failed"
  BY <1>1 DEF Parser
<1>10. VolumesAreTheImage'
  BY <1>1, <1>8, <1>9 DEF VolumesAreTheImage
<1>11. SentIfWellFormed'
  BY <1>1, <1>7, <1>9 DEF SentIfWellFormed, chunks
<1> QED BY <1>1, <1>9, <1>10, <1>11 DEF HexInv

(* For every text, chunk and volume: while a file is read, the blocks are    *)
(* its data and the flags what its lines say, so that a file that fails was  *)
(* not well formed (parseHexToDataBlocks, buildVolumePayloads).              *)
THEOREM HexInvariance == HexSpec => []HexInv
<1> USE HexAssumption
<1>1. HexInit => HexInv
  <2> SUFFICES ASSUME HexInit PROVE HexInv
    OBVIOUS
  <2>1. /\ text = <<>> /\ volumes = <<>>
        /\ parser = [pc |-> "reading", blocks |-> <<>>, eofSeen |-> FALSE, dataSeen |-> FALSE]
    BY DEF HexInit
  <2>2. text \in Seq(HexLine) /\ <<>> \in Seq(Seq(Byte)) /\ DOMAIN text = {} /\ Len(<<>>) = 0
    BY <2>1, EmptySeq
  <2>3. parser \in Parser /\ parser.pc = "reading"
    BY <2>1, <2>2 DEF Parser
  <2>4. Chunks(text) = 0
    <3>1. [kind |-> "blank", type |-> 0, zero |-> TRUE, size |-> 0] \in HexLine
      BY DEF HexLine
    <3> QED BY <2>1, <2>2, <3>1, ChunksAppend
  <2>5. Image(text) = <<>>
    <3>1. [n \in DOMAIN text |-> Data(n, text[n])] = <<>>
      BY <2>1, <2>2
    <3> QED BY <3>1, FlattenEmpty DEF Image
  <2>6. Faithful
    BY <2>1, <2>2, <2>4, <2>5, FlattenEmpty DEF Faithful
  <2> QED BY <2>2, <2>3, <2>6 DEF HexInv, VolumesAreTheImage, SentIfWellFormed
<1>2. HexInv /\ [HexNext]_hexVars => HexInv'
  <2> SUFFICES ASSUME HexInv, [HexNext]_hexVars PROVE HexInv'
    OBVIOUS
  <2>1. ASSUME NEW l \in Lines, ReadLine(l) PROVE HexInv'
    BY <2>1, LineRead DEF HexAssumption
  <2>2. CASE EndOfText
    BY <2>2, TextRead
  <2>3. CASE UNCHANGED hexVars
    BY <2>3 DEF hexVars, HexInv, Faithful, VolumesAreTheImage, SentIfWellFormed
  <2> QED BY <2>1, <2>2, <2>3 DEF HexNext
<1> QED BY <1>1, <1>2, PTL DEF HexSpec

(* The payloads of the VOLUME packets are the image of the file, whatever    *)
(* the sizes of records, chunks and volumes.                                 *)
THEOREM ImageIsSent == HexSpec => []VolumesAreTheImage
<1>1. HexInv => VolumesAreTheImage
  BY DEF HexInv
<1> QED BY <1>1, HexInvariance, PTL

(* A file is sent exactly if it is well formed and its volumes fit the       *)
(* number of blocks (parseHexToDataBlocks, updateFirmware).                  *)
THEOREM OnlyWellFormedIsSent == HexSpec => []SentIfWellFormed
<1>1. HexInv => SentIfWellFormed
  BY DEF HexInv
<1> QED BY <1>1, HexInvariance, PTL

-----------------------------------------------------------------------------
(* LogFile *)

(* A line that is written is the number of an entry, and none is 0. *)
Line == Nat \ {0}
File == Seq(Line) \cup {NoFile}
Content(f, i) == IF Exists(f, i) THEN f[i] ELSE <<>>

Rises(s) == \A i, j \in 1 .. Len(s) : i < j => s[i] < s[j]
Before(S, T) == \A x \in S, y \in T : x < y

(* The files, each in its order and the older before the newer *)
InOrder(f) ==
  /\ f \in [Numbers -> File]
  /\ \A i \in Numbers : Rises(Content(f, i))
  /\ \A i, j \in Numbers : i < j => Before(ToSet(Content(f, j)), ToSet(Content(f, i)))

Held(f) == UNION {ToSet(Content(f, i)) : i \in Numbers}

(* What a file holds are lines. *)
LEMMA ContentTyped ==
  ASSUME NEW f \in [Numbers -> File], NEW i \in Numbers
  PROVE  /\ Content(f, i) \in Seq(Line)
         /\ Exists(f, i) => f[i] \in Seq(Line)
         /\ ToSet(Content(f, i)) \subseteq Line
<1>1. <<>> \in Seq(Line)
  BY EmptySeq
<1>2. f[i] \in File
  OBVIOUS
<1>3. Content(f, i) \in Seq(Line) /\ (Exists(f, i) => f[i] \in Seq(Line))
  BY <1>1, <1>2 DEF Content, Exists, File
<1> HIDE DEF Content, Line
<1> QED BY <1>3 DEF ToSet

(* No file, no lines *)
LEMMA ContentOfNone == /\ ToSet(<<>>) = {} /\ Rises(<<>>)
                       /\ \A f, i : ~Exists(f, i) => Content(f, i) = <<>>
                       /\ \A f, i : Exists(f, i) => Content(f, i) = f[i]
BY DEF ToSet, Rises, Content

(* What is no file is not the content of one. *)
LEMMA NoFileIsNone == NoFile \notin Seq(Line) /\ \A s \in Seq(Line) : s # NoFile
<1>1. 0 \notin Line
  BY DEF Line
<1>2. NoFile[1] = 0 /\ Len(NoFile) = 1
  BY DEF NoFile
<1> HIDE DEF Line, NoFile
<1> QED BY <1>1, <1>2

(* A sequence that rises, and another behind it *)
LEMMA RisesConcat ==
  ASSUME NEW s \in Seq(Nat), NEW t \in Seq(Nat), Rises(s), Rises(t), Before(ToSet(s), ToSet(t))
  PROVE  /\ s \o t \in Seq(Nat) /\ Rises(s \o t)
         /\ ToSet(s \o t) = ToSet(s) \cup ToSet(t)
<1> DEFINE m == Len(s)
           n == Len(t)
           u == s \o t
<1>1. /\ m \in Nat /\ n \in Nat /\ u \in Seq(Nat) /\ Len(u) = m + n /\ DOMAIN u = 1 .. m + n
      /\ DOMAIN s = 1 .. m /\ DOMAIN t = 1 .. n
      /\ \A i \in 1 .. m : u[i] = s[i] /\ s[i] \in ToSet(s)
      /\ \A i \in m + 1 .. m + n : u[i] = t[i - m] /\ i - m \in 1 .. n /\ t[i - m] \in ToSet(t)
      /\ \A i \in 1 .. n : u[i + m] = t[i] /\ i + m \in m + 1 .. m + n
      /\ \A i \in 1 .. m + n : i \in 1 .. m \/ i \in m + 1 .. m + n
  <2>1. m \in Nat /\ n \in Nat /\ u \in Seq(Nat) /\ Len(u) = m + n /\ DOMAIN u = 1 .. m + n
    BY ConcatProperties
  <2>2. \A i \in 1 .. m + n : u[i] = IF i <= m THEN s[i] ELSE t[i - m]
    BY ConcatProperties
  <2>3. DOMAIN s = 1 .. m /\ DOMAIN t = 1 .. n
    BY <2>1
  <2> HIDE DEF u, m, n
  <2>4. \A i \in 1 .. m : u[i] = s[i] /\ s[i] \in ToSet(s)
    <3>1. \A i \in 1 .. m : i \in 1 .. m + n /\ i <= m
      BY <2>1
    <3> QED BY <2>2, <2>3, <3>1 DEF ToSet
  <2>5. \A i \in m + 1 .. m + n : i - m \in 1 .. n
    BY <2>1
  <2>6. \A i \in m + 1 .. m + n : u[i] = t[i - m] /\ t[i - m] \in ToSet(t)
    <3>1. \A i \in m + 1 .. m + n : i \in 1 .. m + n /\ ~(i <= m)
      BY <2>1
    <3> QED BY <2>2, <2>3, <2>5, <3>1 DEF ToSet
  <2>7. \A i \in 1 .. n : i + m \in m + 1 .. m + n /\ (i + m) - m = i
    BY <2>1
  <2>8. \A i \in 1 .. n : u[i + m] = t[i]
    BY <2>6, <2>7
  <2> QED BY <2>1, <2>3, <2>4, <2>5, <2>6, <2>7, <2>8
<1> HIDE DEF u, m, n
<1>2. ASSUME NEW i \in 1 .. m + n, NEW j \in 1 .. m + n, i < j PROVE u[i] < u[j]
  <2>1. CASE i \in 1 .. m /\ j \in 1 .. m
    BY <1>1, <1>2, <2>1 DEF Rises, m
  <2>2. CASE i \in 1 .. m /\ j \in m + 1 .. m + n
    BY <1>1, <2>2 DEF Before
  <2>3. CASE i \in m + 1 .. m + n /\ j \in m + 1 .. m + n
    <3>1. i - m \in 1 .. n /\ j - m \in 1 .. n /\ i - m < j - m
      BY <1>1, <1>2, <2>3
    <3> QED BY <1>1, <2>3, <3>1 DEF Rises, n
  <2>4. ~(i \in m + 1 .. m + n /\ j \in 1 .. m)
    BY <1>1, <1>2
  <2> QED BY <1>1, <2>1, <2>2, <2>3, <2>4
<1>3. ToSet(u) = ToSet(s) \cup ToSet(t)
  <2>1. ASSUME NEW x \in ToSet(u) PROVE x \in ToSet(s) \cup ToSet(t)
    BY <1>1, <2>1 DEF ToSet
  <2>2. ASSUME NEW x \in ToSet(s) PROVE x \in ToSet(u)
    <3>1. PICK i \in 1 .. m : x = s[i]
      BY <1>1 DEF ToSet
    <3>2. i \in 1 .. m + n
      BY <1>1
    <3> QED BY <1>1, <3>1, <3>2 DEF ToSet
  <2>3. ASSUME NEW x \in ToSet(t) PROVE x \in ToSet(u)
    <3>1. PICK i \in 1 .. n : x = t[i]
      BY <1>1 DEF ToSet
    <3>2. i + m \in 1 .. m + n /\ u[i + m] = x
      BY <1>1, <3>1
    <3> QED BY <1>1, <3>2 DEF ToSet
  <2> QED BY <2>1, <2>2, <2>3
<1> QED BY <1>1, <1>2, <1>3 DEF Rises, u

-----------------------------------------------------------------------------
(* A rename takes no name that is taken, and keeps the order of the files. *)
LEMMA RenameKeeps ==
  ASSUME LogAssumption, NEW f, InOrder(f), NEW i \in 0 .. MaxBackups
  PROVE  LET g == Rename(f, i, i + 1) IN
         /\ InOrder(g) /\ Held(g) = Held(f) /\ (i # 0 => g[0] = f[0])
<1> DEFINE g == Rename(f, i, i + 1)
<1>1. /\ i \in Numbers /\ i + 1 \in Numbers /\ i \in Int /\ i # i + 1 /\ Numbers \in SUBSET Int
      /\ 0 \in Numbers /\ i + 1 # 0 /\ f \in [Numbers -> File]
  BY DEF LogAssumption, Numbers, InOrder
<1>2. CASE ~(Exists(f, i) /\ ~Exists(f, i + 1))
  <2>1. g = f
    BY <1>2 DEF Rename
  <2> QED BY <2>1
<1>3. CASE Exists(f, i) /\ ~Exists(f, i + 1)
  <2>1. g = [f EXCEPT ![i + 1] = f[i], ![i] = NoFile]
    BY <1>3 DEF Rename
  <2>2. /\ g \in [Numbers -> File] /\ g[i + 1] = f[i] /\ g[i] = NoFile
        /\ \A k \in Numbers \ {i, i + 1} : g[k] = f[k]
    <3>1. NoFile \in File /\ f[i] \in File
      BY <1>1 DEF File
    <3> HIDE DEF g
    <3> QED BY <1>1, <2>1, <3>1
  <2> HIDE DEF g
  <2>3. /\ Content(g, i + 1) = Content(f, i) /\ Content(g, i) = <<>> /\ Content(f, i + 1) = <<>>
        /\ \A k \in Numbers \ {i, i + 1} : Content(g, k) = Content(f, k)
    BY <1>3, <2>2 DEF Content, Exists
  <2>4. /\ \A k \in Numbers : Rises(Content(f, k))
        /\ \A k, l \in Numbers : k < l => Before(ToSet(Content(f, l)), ToSet(Content(f, k)))
    BY DEF InOrder
  <2>5. ASSUME NEW k \in Numbers PROVE Rises(Content(g, k))
    BY <1>1, <2>3, <2>4, ContentOfNone
  <2>6. ASSUME NEW k \in Numbers, NEW l \in Numbers, k < l
        PROVE  Before(ToSet(Content(g, l)), ToSet(Content(g, k)))
    <3>1. CASE k = i \/ l = i
      BY <2>3, <3>1, ContentOfNone DEF Before
    <3>2. CASE k = i + 1 /\ l # i
      <4>1. i < l /\ l \notin {i, i + 1}
        BY <1>1, <2>6, <3>2
      <4> QED BY <1>1, <2>3, <2>4, <3>2, <4>1
    <3>3. CASE l = i + 1 /\ k # i
      <4>1. k < i /\ k \notin {i, i + 1}
        BY <1>1, <2>6, <3>3
      <4> QED BY <1>1, <2>3, <2>4, <3>3, <4>1
    <3>4. CASE k \notin {i, i + 1} /\ l \notin {i, i + 1}
      BY <2>3, <2>4, <2>6, <3>4
    <3> QED BY <3>1, <3>2, <3>3, <3>4
  <2>7. InOrder(g)
    BY <2>2, <2>5, <2>6 DEF InOrder
  <2>8. Held(g) = Held(f)
    <3>1. ASSUME NEW x \in Held(g) PROVE x \in Held(f)
      <4>1. PICK k \in Numbers : x \in ToSet(Content(g, k))
        BY DEF Held
      <4>2. \E l \in Numbers : ToSet(Content(g, k)) = ToSet(Content(f, l))
        BY <1>1, <2>3
      <4> QED BY <4>1, <4>2 DEF Held
    <3>2. ASSUME NEW x \in Held(f) PROVE x \in Held(g)
      <4>1. PICK k \in Numbers : x \in ToSet(Content(f, k))
        BY DEF Held
      <4>2. \E l \in Numbers : ToSet(Content(f, k)) = ToSet(Content(g, l))
        BY <1>1, <2>3
      <4> QED BY <4>1, <4>2 DEF Held
    <3> QED BY <3>1, <3>2
  <2> QED BY <1>1, <2>2, <2>7, <2>8 DEF g
<1> QED BY <1>2, <1>3

(* The rotation does as the renames do, and there is a base file again. *)
LEMMA RotateKeeps ==
  ASSUME LogAssumption, NEW f, InOrder(f)
  PROVE  InOrder(Rotate(f)) /\ Held(Rotate(f)) = Held(f) /\ Exists(Rotate(f), 0)
<1> DEFINE names == [i \in 1 .. MaxBackups |-> MaxBackups + 1 - i]
           V == {g \in [Numbers -> File] : InOrder(g) /\ Held(g) = Held(f)}
           Step(g, i) == Rename(g, MaxBackups + 1 - i, MaxBackups + 1 - i + 1)
           F == [p \in (1 .. MaxBackups) \X V |-> Step(p[2], p[1])]
           Body(it) == [s \in SUBSET (DOMAIN names) |->
             IF s = {} THEN f ELSE Rename(it[s \ {Max(s)}], names[Max(s)], names[Max(s)] + 1)]
           iter == CHOOSE it : it = Body(it)
           moved == iter[DOMAIN names]
           based == Rename(moved, 0, 1)
<1>1. /\ MaxBackups \in Nat /\ DOMAIN names = 1 .. MaxBackups /\ f \in V
      /\ \A i \in 1 .. MaxBackups : names[i] = MaxBackups + 1 - i /\ MaxBackups + 1 - i \in 0 .. MaxBackups
      /\ 0 \in 0 .. MaxBackups /\ 0 \in Numbers
  BY DEF LogAssumption, InOrder, Numbers
<1>2. Rotate(f) = IF Exists(based, 0) THEN based ELSE [based EXCEPT ![0] = <<>>]
  BY DEF Rotate, FoldLeft, MapThenFoldSet
<1>3. F \in [(1 .. MaxBackups) \X V -> V] /\ \A i \in 1 .. MaxBackups, g \in V : F[<<i, g>>] = Step(g, i)
  <2>1. ASSUME NEW i \in 1 .. MaxBackups, NEW g \in V PROVE Step(g, i) \in V
    <3>1. InOrder(Step(g, i)) /\ Held(Step(g, i)) = Held(g)
      BY <1>1, RenameKeeps
    <3> QED BY <3>1 DEF InOrder
  <2> HIDE DEF Step, V
  <2> QED BY <2>1
<1> HIDE DEF names
<1>4. moved \in V
  <2> HIDE DEF V, F
  <2>1. PICK g : IsFold(g, V, MaxBackups, f, F)
    BY <1>1, <1>3, FoldExists
  <2>2. /\ g \in [SUBSET (1 .. MaxBackups) -> V]
        /\ \A s \in SUBSET (1 .. MaxBackups) :
             g[s] = IF s = {} THEN f ELSE F[<<Max(s), g[s \ {Max(s)}]>>]
    BY <2>1 DEF IsFold
  <2>3. \A s \in SUBSET (1 .. MaxBackups) : s # {} => Max(s) \in 1 .. MaxBackups
    BY <1>1, MaxOfNumbers
  <2>4. \A s \in SUBSET (1 .. MaxBackups) : s # {} =>
          F[<<Max(s), g[s \ {Max(s)}]>>] = Rename(g[s \ {Max(s)}], names[Max(s)], names[Max(s)] + 1)
    <3> SUFFICES ASSUME NEW s \in SUBSET (1 .. MaxBackups), s # {}
                 PROVE  F[<<Max(s), g[s \ {Max(s)}]>>] = Rename(g[s \ {Max(s)}], names[Max(s)], names[Max(s)] + 1)
      OBVIOUS
    <3>1. Max(s) \in 1 .. MaxBackups /\ g[s \ {Max(s)}] \in V
      BY <2>2, <2>3
    <3>2. F[<<Max(s), g[s \ {Max(s)}]>>] = Step(g[s \ {Max(s)}], Max(s))
      BY <1>3, <3>1
    <3> QED BY <1>1, <3>1, <3>2
  <2>5. g = Body(g)
    BY <1>1, <2>2, <2>4
  <2>6. iter = Body(iter)
    <3>1. \E it : it = Body(it)
      BY <2>5
    <3> HIDE DEF Body
    <3> QED BY <3>1
  <2> HIDE DEF iter
  <2>7. iter[{}] = f
    BY <2>6
  <2>8. ASSUME NEW s \in SUBSET (1 .. MaxBackups), s # {}, iter[s \ {Max(s)}] \in V
        PROVE  iter[s] = F[<<Max(s), iter[s \ {Max(s)}]>>]
    <3>1. iter[s] = Rename(iter[s \ {Max(s)}], names[Max(s)], names[Max(s)] + 1)
      BY <1>1, <2>6, <2>8
    <3> QED BY <1>1, <1>3, <2>3, <2>8, <3>1
  <2>9. Iterates(iter, V, MaxBackups, f, F)
    BY <1>1, <1>3, <2>7, <2>8 DEF Iterates
  <2>10. PICK h : Follows(h, iter, V, MaxBackups, f, F)
    BY <2>9, FoldIsRecursive
  <2>11. h \in [0 .. MaxBackups -> V] /\ h[MaxBackups] = iter[1 .. MaxBackups]
    BY <2>10 DEF Follows, IsRecursive
  <2> QED BY <1>1, <2>11
<1> HIDE DEF moved
<1>5. InOrder(based) /\ Held(based) = Held(f) /\ based \in [Numbers -> File]
  <2>1. InOrder(based) /\ Held(based) = Held(moved)
    BY <1>1, <1>4, RenameKeeps
  <2> QED BY <1>4, <2>1 DEF InOrder
<1> HIDE DEF based
<1>6. CASE Exists(based, 0)
  BY <1>2, <1>5, <1>6
<1>7. CASE ~Exists(based, 0)
  <2> DEFINE g == Rotate(f)
  <2>1. g = [based EXCEPT ![0] = <<>>] /\ <<>> \in Seq(Line) /\ <<>> \in File
    BY <1>2, <1>7, EmptySeq DEF File
  <2>2. g \in [Numbers -> File] /\ g[0] = <<>> /\ \A k \in Numbers \ {0} : g[k] = based[k]
    <3> HIDE DEF g
    <3> QED BY <1>1, <1>5, <2>1
  <2> HIDE DEF g
  <2>3. Exists(g, 0)
    BY <2>1, <2>2, NoFileIsNone DEF Exists
  <2>4. \A k \in Numbers : Content(g, k) = Content(based, k)
    BY <1>7, <2>2 DEF Content, Exists
  <2> QED BY <1>5, <2>2, <2>3, <2>4 DEF InOrder, Held, g
<1> QED BY <1>6, <1>7

(* What is written comes behind everything that was. *)
LEMMA FlushedKeeps ==
  ASSUME LogAssumption, NEW f, InOrder(f), Exists(f, 0),
         NEW lines \in Seq(Line), Rises(lines), Before(Held(f), ToSet(lines))
  PROVE  /\ InOrder(Flushed(f, lines)) /\ Exists(Flushed(f, lines), 0)
         /\ Held(Flushed(f, lines)) = Held(f) \cup ToSet(lines)
<1> DEFINE g == [f EXCEPT ![0] = @ \o lines]
<1>1. /\ f \in [Numbers -> File] /\ 0 \in Numbers /\ \A k \in Numbers : k >= 0 /\ k \in Nat
      /\ f[0] \in Seq(Line) /\ Content(f, 0) = f[0]
  BY ContentTyped, ContentOfNone DEF InOrder, Numbers, LogAssumption
<1>2. /\ f[0] \o lines \in Seq(Line) /\ Rises(f[0] \o lines)
      /\ ToSet(f[0] \o lines) = ToSet(f[0]) \cup ToSet(lines)
  <2>1. f[0] \in Seq(Nat) /\ lines \in Seq(Nat)
    BY <1>1 DEF Line
  <2>2. Rises(f[0]) /\ Before(ToSet(f[0]), ToSet(lines))
    BY <1>1 DEF InOrder, Held, Before
  <2>3. f[0] \o lines \in Seq(Line)
    BY <1>1, ConcatProperties
  <2> QED BY <2>1, <2>2, <2>3, RisesConcat
<1>3. /\ g \in [Numbers -> File] /\ g[0] = f[0] \o lines
      /\ \A k \in Numbers \ {0} : g[k] = f[k]
  <2>1. f[0] \o lines \in File
    BY <1>2 DEF File
  <2> QED BY <1>1, <2>1
<1> HIDE DEF g
<1>4. /\ Exists(g, 0) /\ Content(g, 0) = f[0] \o lines
      /\ \A k \in Numbers \ {0} : Content(g, k) = Content(f, k)
  BY <1>2, <1>3, NoFileIsNone DEF Exists, Content
<1>5. InOrder(g)
  <2>1. \A k \in Numbers : Rises(Content(g, k))
    BY <1>2, <1>4 DEF InOrder
  <2>2. ASSUME NEW k \in Numbers, NEW l \in Numbers, k < l
        PROVE  Before(ToSet(Content(g, l)), ToSet(Content(g, k)))
    <3>1. l # 0 /\ Content(g, l) = Content(f, l)
      BY <1>1, <1>4, <2>2
    <3>2. CASE k = 0
      <4>1. Before(ToSet(Content(f, l)), ToSet(f[0]))
        BY <1>1, <2>2, <3>2 DEF InOrder
      <4>2. Before(ToSet(Content(f, l)), ToSet(lines))
        BY DEF Held, Before
      <4> QED BY <1>2, <1>4, <3>1, <3>2, <4>1, <4>2 DEF Before
    <3>3. CASE k # 0
      BY <1>4, <2>2, <3>1, <3>3 DEF InOrder
    <3> QED BY <3>2, <3>3
  <2> QED BY <1>3, <2>1, <2>2 DEF InOrder
<1>6. Held(g) = Held(f) \cup ToSet(lines)
  <2>1. ASSUME NEW x \in Held(g) PROVE x \in Held(f) \cup ToSet(lines)
    <3>1. PICK k \in Numbers : x \in ToSet(Content(g, k))
      BY DEF Held
    <3> QED BY <1>1, <1>2, <1>4, <3>1 DEF Held
  <2>2. ASSUME NEW x \in Held(f) PROVE x \in Held(g)
    <3>1. PICK k \in Numbers : x \in ToSet(Content(f, k))
      BY DEF Held
    <3> QED BY <1>1, <1>2, <1>4, <3>1 DEF Held
  <2>3. ToSet(lines) \subseteq Held(g)
    BY <1>1, <1>2, <1>4 DEF Held
  <2> QED BY <2>1, <2>2, <2>3
<1>7. CASE lines = <<>>
  BY <1>7, ContentOfNone DEF Flushed
<1>8. CASE lines # <<>>
  <2>1. Flushed(f, lines) = g \/ Flushed(f, lines) = Rotate(g)
    BY <1>8 DEF Flushed, g
  <2>2. InOrder(Rotate(g)) /\ Held(Rotate(g)) = Held(g) /\ Exists(Rotate(g), 0)
    BY <1>5, RotateKeeps
  <2> QED BY <1>4, <1>5, <1>6, <2>1, <2>2
<1> QED BY <1>7, <1>8

-----------------------------------------------------------------------------
(* What is on disk, then what is in the buffer, rises; together they are    *)
(* the entries that nobody has removed.                                     *)
LogInv ==
  /\ handled \in Nat /\ removed \subseteq 1 .. handled
  /\ InOrder(files) /\ Exists(files, 0)
  /\ buffer \in Seq(Line) /\ Rises(buffer) /\ Before(Held(files), ToSet(buffer))
  /\ Held(files) \cup ToSet(buffer) = (1 .. handled) \ removed

(* The next entry, behind the buffer *)
LEMMA NextLine ==
  ASSUME LogInv
  PROVE  LET lines == Append(buffer, handled + 1) IN
         /\ lines \in Seq(Line) /\ Rises(lines) /\ Before(Held(files), ToSet(lines))
         /\ Held(files) \cup ToSet(lines) = (1 .. handled + 1) \ removed
<1> DEFINE new == handled + 1
           lines == Append(buffer, new)
<1>1. /\ handled \in Nat /\ removed \subseteq 1 .. handled /\ new \in Line
      /\ buffer \in Seq(Line) /\ Rises(buffer) /\ Before(Held(files), ToSet(buffer))
      /\ Held(files) \cup ToSet(buffer) = (1 .. handled) \ removed
  BY DEF LogInv, Line
<1>2. lines = buffer \o <<new>> /\ lines \in Seq(Line)
  BY <1>1, AppendIsConcat, AppendProperties
<1>3. <<new>> \in Seq(Nat) /\ Rises(<<new>>) /\ ToSet(<<new>>) = {new} /\ buffer \in Seq(Nat)
  BY <1>1 DEF Rises, ToSet, Line
<1>4. \A x \in Held(files) \cup ToSet(buffer) : x < new
  BY <1>1
<1> HIDE DEF new, lines
<1>5. Before(ToSet(buffer), ToSet(<<new>>))
  BY <1>3, <1>4 DEF Before
<1>6. Rises(lines) /\ ToSet(lines) = ToSet(buffer) \cup {new}
  BY <1>1, <1>2, <1>3, <1>5, RisesConcat
<1>7. Before(Held(files), ToSet(lines))
  BY <1>1, <1>4, <1>6 DEF Before
<1>8. (1 .. handled + 1) \ removed = ((1 .. handled) \ removed) \cup {new}
  BY <1>1 DEF new
<1>9. Held(files) \cup ToSet(lines) = (1 .. handled + 1) \ removed
  BY <1>1, <1>6, <1>8
<1> QED BY <1>2, <1>6, <1>7, <1>9 DEF lines, new

(* Each step keeps the order, and what it takes away has been removed.      *)
LEMMA LogStep == LogAssumption /\ LogInv /\ [LogNext]_logVars => LogInv'
<1> SUFFICES ASSUME LogAssumption, LogInv, [LogNext]_logVars PROVE LogInv'
  OBVIOUS
<1>0. /\ handled \in Nat /\ removed \subseteq 1 .. handled
      /\ InOrder(files) /\ Exists(files, 0)
      /\ buffer \in Seq(Line) /\ Rises(buffer) /\ Before(Held(files), ToSet(buffer))
      /\ Held(files) \cup ToSet(buffer) = (1 .. handled) \ removed
  BY DEF LogInv
<1>1. ASSUME NEW lines \in Seq(Line), Rises(lines), Before(Held(files), ToSet(lines)),
             handled' \in Nat, removed' \subseteq 1 .. handled',
             Held(files) \cup ToSet(lines) = (1 .. handled') \ removed',
             files' = Flushed(files, lines), buffer' = <<>>
      PROVE  LogInv'
  <2>1. /\ InOrder(files') /\ Exists(files', 0)
        /\ Held(files') = Held(files) \cup ToSet(lines)
    BY <1>0, <1>1, FlushedKeeps
  <2>2. buffer' \in Seq(Line) /\ Rises(buffer') /\ ToSet(buffer') = {}
    BY <1>1, EmptySeq, ContentOfNone
  <2> QED BY <1>1, <2>1, <2>2 DEF LogInv, InOrder, Held, Before
<1>2. CASE Handle
  <2> DEFINE lines == Append(buffer, handled + 1)
  <2>1. /\ lines \in Seq(Line) /\ Rises(lines) /\ Before(Held(files), ToSet(lines))
        /\ Held(files) \cup ToSet(lines) = (1 .. handled') \ removed'
        /\ handled' \in Nat /\ removed' \subseteq 1 .. handled'
    BY <1>0, <1>2, NextLine DEF Handle
  <2>2. CASE files' = Flushed(files, lines) /\ buffer' = <<>>
    <3> HIDE DEF lines
    <3> QED BY <1>1, <2>1, <2>2
  <2>3. CASE buffer' = lines /\ files' = files
    <3> HIDE DEF lines
    <3> QED BY <1>0, <2>1, <2>3 DEF LogInv
  <2> QED BY <1>2, <2>2, <2>3 DEF Handle
<1>3. CASE Flush
  BY <1>0, <1>1, <1>3 DEF Flush
<1>4. ASSUME NEW i \in Numbers, RemoveBackup(i) PROVE LogInv'
  <2>1. /\ i # 0 /\ Exists(files, i) /\ UNCHANGED <<buffer, handled>>
        /\ removed' = removed \cup ToSet(files[i]) /\ files' = [files EXCEPT ![i] = NoFile]
        /\ files \in [Numbers -> File] /\ Numbers \in SUBSET Int /\ 0 \in Numbers
    BY <1>0, <1>4 DEF RemoveBackup, InOrder, Numbers, LogAssumption
  <2>2. /\ files' \in [Numbers -> File] /\ files'[i] = NoFile
        /\ \A k \in Numbers \ {i} : files'[k] = files[k]
    BY <2>1 DEF File
  <2>3. /\ Content(files', i) = <<>> /\ Content(files, i) = files[i]
        /\ \A k \in Numbers \ {i} : Content(files', k) = Content(files, k)
    BY <2>1, <2>2 DEF Content, Exists
  <2>4. /\ \A k \in Numbers : Rises(Content(files', k))
        /\ \A k, l \in Numbers : k < l => Before(ToSet(Content(files', l)), ToSet(Content(files', k)))
    <3>1. /\ \A k \in Numbers : Rises(Content(files, k))
          /\ \A k, l \in Numbers : k < l => Before(ToSet(Content(files, l)), ToSet(Content(files, k)))
      BY <1>0 DEF InOrder
    <3> QED BY <2>3, <3>1, ContentOfNone DEF Before
  <2>5. Held(files') = Held(files) \ ToSet(files[i])
    <3>1. ASSUME NEW k \in Numbers \ {i}, NEW x \in ToSet(Content(files, k)), x \in ToSet(files[i])
          PROVE  FALSE
      <4>1. x \in Int
        BY <2>1, <3>1, ContentTyped DEF Line
      <4>2. Before(ToSet(Content(files, k)), ToSet(Content(files, i))) \/ Before(ToSet(Content(files, i)), ToSet(Content(files, k)))
        <5>1. k < i \/ i < k
          BY <2>1
        <5> QED BY <1>0, <5>1 DEF InOrder
      <4> QED BY <2>3, <3>1, <4>1, <4>2 DEF Before
    <3>2. ASSUME NEW x \in Held(files') PROVE x \in Held(files) \ ToSet(files[i])
      <4>1. PICK k \in Numbers : x \in ToSet(Content(files', k))
        BY <3>2 DEF Held
      <4>2. k # i /\ Content(files', k) = Content(files, k)
        BY <2>3, <4>1, ContentOfNone
      <4> QED BY <3>1, <4>1, <4>2 DEF Held
    <3>3. ASSUME NEW x \in Held(files), x \notin ToSet(files[i]) PROVE x \in Held(files')
      <4>1. PICK k \in Numbers : x \in ToSet(Content(files, k))
        BY DEF Held
      <4> QED BY <2>3, <3>3, <4>1 DEF Held
    <3> QED BY <3>2, <3>3
  <2>6. ToSet(files[i]) \subseteq Held(files) /\ \A x \in Held(files), y \in ToSet(buffer) : x < y
    BY <1>0, <2>3 DEF Held, Before
  <2>7. Held(files) \subseteq Int
    BY <1>0
  <2>8. Held(files') \cup ToSet(buffer') = (1 .. handled') \ removed'
    <3>1. \A y \in ToSet(buffer) : y \notin ToSet(files[i])
      BY <2>6, <2>7
    <3> QED BY <1>0, <2>1, <2>5, <3>1
  <2>9. removed' \subseteq 1 .. handled'
    BY <1>0, <2>1, <2>6
  <2>10. Exists(files', 0)
    BY <1>0, <2>1, <2>2 DEF Exists
  <2>11. Before(Held(files'), ToSet(buffer')) /\ buffer' \in Seq(Line) /\ Rises(buffer')
    BY <1>0, <2>1, <2>5 DEF Before
  <2> HIDE DEF InOrder, Held
  <2>12. InOrder(files')
    BY <2>2, <2>4 DEF InOrder
  <2> QED BY <1>0, <2>1, <2>8, <2>9, <2>10, <2>11, <2>12 DEF LogInv
<1>5. CASE UNCHANGED logVars
  BY <1>5 DEF logVars, LogInv, InOrder, Held, Before, Content, Exists
<1> QED BY <1>2, <1>3, <1>4, <1>5 DEF LogNext

(* The files read one after the other *)
LEMMA LogReadsFiles ==
  ASSUME LogAssumption, InOrder(files)
  PROVE  Log \in Seq(Nat) /\ Rises(Log) /\ ToSet(Log) = Held(files)
<1> DEFINE N == MaxBackups + 2
           pieces == [i \in 1 .. N |-> Content(files, N - i)]
           Read(n) == UNION {ToSet(Content(files, N - i)) : i \in 1 .. n}
<1>1. /\ N \in Nat /\ pieces \in Seq(Seq(Nat)) /\ Len(pieces) = N
      /\ \A i \in 1 .. N : pieces[i] = Content(files, N - i) /\ N - i \in Numbers /\ pieces[i] \in Seq(Nat)
  <2>1. N \in Nat /\ \A i \in 1 .. N : N - i \in Numbers
    BY DEF LogAssumption, Numbers
  <2>2. \A i \in 1 .. N : Content(files, N - i) \in Seq(Nat)
    <3>1. \A s \in Seq(Line) : s \in Seq(Nat)
      BY DEF Line
    <3> QED BY <2>1, <3>1, ContentTyped DEF InOrder
  <2> HIDE DEF N
  <2>3. pieces \in [1 .. N -> Seq(Nat)]
    BY <2>2
  <2> QED BY <2>1, <2>2, <2>3
<1>2. Log = FlattenSeq(pieces)
  BY DEF Log, Content
<1> HIDE DEF pieces, N
<1>3. PICK h : Flattens(h, pieces, Nat)
  BY <1>1, FlattensExists
<1>4. /\ h \in [0 .. N -> Seq(Nat)] /\ h[0] = <<>>
      /\ \A i \in 1 .. N : h[i] = h[i - 1] \o pieces[i]
  BY <1>1, <1>3 DEF Flattens
<1>5. Log = h[N]
  BY <1>1, <1>2, <1>3, FlattensToEnd
<1> DEFINE S == {n \in Nat : n <= N => Rises(h[n]) /\ ToSet(h[n]) = Read(n)}
<1>6. 0 \in S
  <2>1. 1 .. 0 = {}
    OBVIOUS
  <2>2. Read(0) = {}
    BY <2>1
  <2> HIDE DEF Read
  <2> QED BY <1>4, <2>2, ContentOfNone
<1>7. ASSUME NEW n \in Nat, n \in S PROVE n + 1 \in S
  <2> SUFFICES ASSUME n + 1 <= N PROVE Rises(h[n + 1]) /\ ToSet(h[n + 1]) = Read(n + 1)
    <3> HIDE DEF Read
    <3> QED OBVIOUS
  <2>1. n + 1 \in 1 .. N /\ (n + 1) - 1 = n /\ n \in 0 .. N /\ n <= N
    BY <1>1
  <2>2. Rises(h[n]) /\ ToSet(h[n]) = Read(n)
    <3> HIDE DEF Read
    <3> QED BY <1>7, <2>1
  <2>3. h[n + 1] = h[n] \o pieces[n + 1] /\ pieces[n + 1] = Content(files, N - (n + 1)) /\ N - (n + 1) \in Numbers
    BY <1>1, <1>4, <2>1
  <2>4. Rises(pieces[n + 1]) /\ pieces[n + 1] \in Seq(Nat) /\ h[n] \in Seq(Nat)
    BY <1>1, <1>4, <2>1, <2>3 DEF InOrder
  <2>5. \A i \in 1 .. n : N - (n + 1) < N - i /\ N - i \in Numbers
    <3>1. \A i \in 1 .. n : N - (n + 1) < N - i /\ i \in 1 .. N
      BY <1>1, <2>1
    <3> QED BY <1>1, <3>1
  <2>6. Before(ToSet(h[n]), ToSet(pieces[n + 1]))
    <3>1. \A i \in 1 .. n : Before(ToSet(Content(files, N - i)), ToSet(Content(files, N - (n + 1))))
      BY <2>3, <2>5 DEF InOrder
    <3> QED BY <2>2, <2>3, <3>1 DEF Before
  <2>7. Rises(h[n + 1]) /\ ToSet(h[n + 1]) = ToSet(h[n]) \cup ToSet(pieces[n + 1])
    <3> DEFINE a == h[n]
               b == pieces[n + 1]
    <3>1. /\ a \in Seq(Nat) /\ b \in Seq(Nat) /\ Rises(a) /\ Rises(b) /\ Before(ToSet(a), ToSet(b))
      BY <2>2, <2>4, <2>6
    <3> HIDE DEF a, b
    <3>2. Rises(a \o b) /\ ToSet(a \o b) = ToSet(a) \cup ToSet(b)
      BY <3>1, RisesConcat
    <3> QED BY <2>3, <3>2 DEF a, b
  <2>8. Read(n + 1) = Read(n) \cup ToSet(Content(files, N - (n + 1)))
    <3>1. 1 .. n + 1 = (1 .. n) \cup {n + 1}
      OBVIOUS
    <3> QED BY <3>1
  <2> HIDE DEF Read
  <2> QED BY <2>2, <2>3, <2>7, <2>8
<1>8. Rises(h[N]) /\ ToSet(h[N]) = Read(N)
  <2> HIDE DEF Read
  <2>1. \A n \in Nat : n \in S
    <3> HIDE DEF S
    <3> QED BY <1>6, <1>7, AllNumbers
  <2> QED BY <1>1, <2>1
<1>9. Read(N) = Held(files)
  <2>1. ASSUME NEW k \in Numbers PROVE \E i \in 1 .. N : k = N - i
    <3>1. N - k \in 1 .. N /\ k = N - (N - k)
      BY DEF Numbers, N, LogAssumption
    <3> QED BY <3>1
  <2>2. \A i \in 1 .. N : N - i \in Numbers
    BY <1>1
  <2> QED BY <2>1, <2>2 DEF Held
<1>10. h[N] \in Seq(Nat)
  BY <1>1, <1>4
<1> QED BY <1>5, <1>8, <1>9, <1>10

(* No entry is lost or written twice, and all are in the order in which     *)
(* they came, for any sizes and any number of backups, whichever of them    *)
(* have gone when the names are taken (rotateIfNeeded, handle, flush).      *)
THEOREM NoLineIsLost == LogSpec => []NoLineLost
<1> USE LogAssumption
<1>1. LogInit => LogInv
  <2> SUFFICES ASSUME LogInit PROVE LogInv
    OBVIOUS
  <2>1. /\ files = [i \in Numbers |-> IF i = 0 THEN <<>> ELSE NoFile]
        /\ buffer = <<>> /\ handled = 0 /\ removed = {} /\ 0 \in Numbers
    BY DEF LogInit, Numbers
  <2>2. <<>> \in Seq(Line) /\ files \in [Numbers -> File]
    BY <2>1, EmptySeq DEF File
  <2>3. \A i \in Numbers : Content(files, i) = <<>>
    BY <2>1 DEF Content, Exists
  <2>4. Exists(files, 0)
    BY <2>1, <2>2, NoFileIsNone DEF Exists
  <2>5. InOrder(files) /\ Held(files) = {}
    BY <2>2, <2>3, ContentOfNone DEF InOrder, Held, Before
  <2>6. Held(files) \cup ToSet(buffer) = (1 .. handled) \ removed
    BY <2>1, <2>5, ContentOfNone
  <2> QED BY <2>1, <2>2, <2>4, <2>5, <2>6, ContentOfNone DEF LogInv, Before
<1>2. LogInv => NoLineLost
  <2> SUFFICES ASSUME LogInv PROVE NoLineLost
    OBVIOUS
  <2>1. Log \in Seq(Nat) /\ Rises(Log) /\ ToSet(Log) = Held(files)
    BY LogReadsFiles DEF LogInv
  <2>2. buffer \in Seq(Nat) /\ Rises(buffer) /\ Before(Held(files), ToSet(buffer))
    BY DEF LogInv, Line
  <2>3. /\ Log \o buffer \in Seq(Nat) /\ Rises(Log \o buffer)
        /\ ToSet(Log \o buffer) = Held(files) \cup ToSet(buffer)
    BY <2>1, <2>2, RisesConcat
  <2>4. DOMAIN (Log \o buffer) = 1 .. Len(Log \o buffer)
    BY <2>3
  <2> QED BY <2>3, <2>4 DEF NoLineLost, Rises, LogInv
<1>3. LogInv /\ [LogNext]_logVars => LogInv'
  BY LogStep
<1> QED BY <1>1, <1>2, <1>3, PTL DEF LogSpec
==============================================================================
