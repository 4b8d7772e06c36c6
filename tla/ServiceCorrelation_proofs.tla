--------------------- MODULE ServiceCorrelation_proofs ---------------------
(***************************************************************************)
(* Between scans the data store holds what a whole scan of the last        *)
(* completed run's commit would have found, for every repository and every *)
(* number of scans.  What an incremental scan does not read again is below *)
(* a directory in which nothing changed, so its rows are still right; that *)
(* needs the rows to match the commit the scan starts from while the scan  *)
(* runs, and to know of what the scan extracted that it is complete.       *)
(*                                                                         *)
(* That is proved of the scans of CodeIndexing; the scan with the agents   *)
(* in it is one of them, what the agents correlate stays in the scope of   *)
(* the artifacts, and the services are read in an order that puts what     *)
(* they depend on first.                                                   *)
(***************************************************************************)
EXTENDS ServiceCorrelation, FiniteSetTheorems, SequenceTheorems,
        WellFoundedInduction, TLAPS

-----------------------------------------------------------------------------
(* The scan of the code (CodeIndexing).                                    *)

\* The rows of a whole scan of commit t.
ServicesMatch(t) ==
    \A m \in Manifests : Readable(t, m) => service[ServiceOf(t, m)] = t[m]
ModulesMatch(t) ==
    \A f \in Sources : Readable(t, f) /\ Described(t, f) => rows[f] = t[f]
ArtifactsMatch(t) == \A a \in Artifacts : Readable(t, a) => rows[a] = t[a]
Match(t) == ServicesMatch(t) /\ ModulesMatch(t) /\ ArtifactsMatch(t)

\* What a scan of commit t extracts when `changed` changed.
ServicesToRead(t, changed) ==
    {ServiceOf(t, m) : m \in ManifestsToRead(t, changed)}
FilesToRead(t, changed) ==
    ModulesToRead(t, changed) \cup ArtifactsToRead(t, changed)

\* What the scan takes for changed.
Read == IF scan.whole THEN Files ELSE Changed(scan.since, scan.read)

Types ==
    /\ tree \in Trees /\ known \subseteq Trees /\ base \in Trees \cup {NoTree}
    /\ DOMAIN rows = Sources \cup Artifacts /\ DOMAIN service = Services
    /\ DOMAIN scan = DOMAIN NoScan /\ scan.head \in Trees \cup {NoTree}
    /\ scan.at \in {"idle", "extract", "store", "correlate", "finish"}
    /\ scan.clean \in BOOLEAN /\ scan.whole \in BOOLEAN /\ torn \in BOOLEAN

\* The scan starts from the commit of the last completed run, or from none.
SinceIsBase == scan.since \in {base, NoTree}

StoreMatches ==
    base # NoTree /\ ~torn /\ scan.at \in {"idle", "extract", "store"}
        => Match(base)

HeadIsTree ==
    scan.at = "extract" /\ scan.clean /\ scan.head # NoTree => scan.head = tree

HeadIsRead ==
    scan.at \in {"store", "correlate", "finish"} /\ scan.clean /\ scan.head # NoTree
        => scan.head = scan.read

ExtractionIsComplete ==
    scan.at = "store" /\ scan.clean =>
        /\ scan.read \in Trees
        /\ ~scan.whole => scan.since = base /\ base # NoTree
        /\ scan.services = ServicesToRead(scan.read, Read)
        /\ scan.files = FilesToRead(scan.read, Read)

ScanMatches ==
    scan.at \in {"correlate", "finish"} /\ scan.clean /\ (scan.whole \/ ~torn)
        => scan.read \in Trees /\ Match(scan.read)

IInv == /\ Types /\ SinceIsBase /\ StoreMatches /\ HeadIsTree /\ HeadIsRead
        /\ ExtractionIsComplete /\ ScanMatches

-----------------------------------------------------------------------------
(* What a scan reads.                                                      *)

LEMMA NameOfManifest ==
    ASSUME NEW t \in Trees, NEW m \in Manifests, Readable(t, m)
    PROVE  ServiceOf(t, m) \in Services /\ ServiceOf(t, m)[1] = m
BY FilesAssumption DEF Readable, ServiceOf, Services

\* A row that the scan did not read belongs to what did not change.
LEMMA UnreadIsUnchanged ==
    ASSUME NEW s \in Trees, NEW t \in Trees, NEW m \in Manifests, Readable(t, m),
           m \notin ManifestsToRead(t, Changed(s, t))
    PROVE  /\ s[m] = t[m]
           /\ \A f \in Modules[m] : s[f] = t[f]
<1>1. Under[m] \cap Changed(s, t) = {}
  BY DEF ManifestsToRead
<1>2. m \in Under[m] /\ Modules[m] \subseteq Under[m] /\ Under[m] \subseteq Files
  BY FilesAssumption
<1>3. \A f \in Under[m] : s[f] = t[f]
  BY <1>1, <1>2 DEF Changed
<1> QED BY <1>2, <1>3

\* A whole scan reads every manifest.
LEMMA WholeReadsAll ==
    ASSUME NEW t \in Trees, NEW m \in Manifests, Readable(t, m)
    PROVE  m \in ManifestsToRead(t, Files)
<1>1. m \in Under[m] \cap Files
  BY FilesAssumption DEF Files
<1> QED BY <1>1 DEF ManifestsToRead

-----------------------------------------------------------------------------
(* The invariant holds at first, and every step keeps it.                  *)

LEMMA Start == CodeInit => IInv
<1> SUFFICES ASSUME CodeInit PROVE IInv OBVIOUS
<1>1. Types
  <2>1. tree \in Trees /\ known \subseteq Trees /\ base = NoTree
    BY FilesAssumption DEF CodeInit
  <2>2. DOMAIN rows = Sources \cup Artifacts /\ DOMAIN service = Services
    BY DEF CodeInit
  <2>3. /\ scan.at = "idle" /\ scan.clean = TRUE /\ scan.whole = FALSE
        /\ torn = FALSE /\ DOMAIN scan = DOMAIN NoScan /\ scan.head = NoTree
    BY DEF CodeInit, NoScan
  <2> QED BY <2>1, <2>2, <2>3 DEF Types
<1>2. scan.at = "idle" /\ scan.since = NoTree /\ base = NoTree
  BY DEF CodeInit, NoScan
<1> QED
  BY <1>1, <1>2
  DEF IInv, SinceIsBase, StoreMatches, HeadIsTree, HeadIsRead,
      ExtractionIsComplete, ScanMatches

\* What only the rows tell.
RowsSame == rows' = rows /\ service' = service

LEMMA MatchSame ==
    ASSUME RowsSame, NEW t \in Trees, Match(t)
    PROVE  Match(t)'
BY DEF RowsSame, Match, ServicesMatch, ModulesMatch, ArtifactsMatch,
       Readable, Described, ServiceOf

LEMMA MoveStep ==
    ASSUME IInv, MayMove, tree' \in Trees, known' \subseteq Trees
    PROVE  IInv'
<1> USE DEF IInv
<1>1. /\ DOMAIN scan' = DOMAIN scan
      /\ scan'.at = scan.at /\ scan'.since = scan.since /\ scan'.head = scan.head
      /\ scan'.whole = scan.whole /\ scan'.read = scan.read
      /\ scan'.files = scan.files /\ scan'.services = scan.services
      /\ scan'.clean = (scan.clean /\ scan.at # "extract")
  BY DEF MayMove, Types, NoScan
<1>2. RowsSame /\ base' = base /\ torn' = torn
  BY DEF MayMove, RowsSame
<1>3. Types'
  BY <1>1, <1>2 DEF Types, RowsSame
<1>4. SinceIsBase' /\ HeadIsTree' /\ HeadIsRead'
  BY <1>1, <1>2 DEF SinceIsBase, HeadIsTree, HeadIsRead
<1>5. StoreMatches'
  BY <1>1, <1>2, MatchSame DEF StoreMatches, Types
<1>6. ExtractionIsComplete'
  <2>1. Read' = Read
    BY <1>1 DEF Read, Changed
  <2> QED BY <1>1, <1>2, <2>1 DEF ExtractionIsComplete
<1>7. ScanMatches'
  BY <1>1, <1>2 DEF ScanMatches, Match, ServicesMatch, ModulesMatch,
     ArtifactsMatch, RowsSame
<1> QED BY <1>3, <1>4, <1>5, <1>6, <1>7

LEMMA EnvironmentStep ==
    ASSUME IInv, NEW edit \in Edits, Pull(edit) \/ CloneAgain(edit)
    PROVE  IInv'
<1>1. edit[1] \in Files /\ edit[2] \in Contents \cup {Broken, Absent}
  BY FilesAssumption
<1>2. MayMove /\ tree' = [tree EXCEPT ![edit[1]] = edit[2]]
  BY DEF Pull, CloneAgain
<1>3. tree' \in Trees
  BY <1>1, <1>2 DEF IInv, Types, Trees
<1>4. known' \subseteq Trees
  BY <1>3 DEF IInv, Types, Pull, CloneAgain
<1> QED BY <1>2, <1>3, <1>4, MoveStep

LEMMA StartScanStep ==
    ASSUME IInv, NEW i \in BOOLEAN, NEW l \in BOOLEAN, NEW q \in BOOLEAN,
           StartScan(i, l, q)
    PROVE  IInv'
<1>1. /\ scan'.at = "extract" /\ scan'.head \in {tree, NoTree}
      /\ scan'.since \in {base, NoTree}
      /\ scan'.clean = TRUE /\ scan'.whole = FALSE
      /\ DOMAIN scan' = DOMAIN NoScan
  BY DEF StartScan, NoScan
<1>2. /\ RowsSame /\ UNCHANGED <<tree, known, base, torn>> /\ scan.at = "idle"
  BY DEF StartScan, RowsSame
<1>3. Types'
  BY <1>1, <1>2 DEF IInv, Types, RowsSame
<1>4. StoreMatches'
  BY <1>2, MatchSame DEF IInv, StoreMatches, Types
<1> QED
  BY <1>1, <1>2, <1>3, <1>4
  DEF IInv, SinceIsBase, HeadIsTree, HeadIsRead, ExtractionIsComplete, ScanMatches

\* A scan that ends without a step of its own before it.
LEMMA IdleStep ==
    ASSUME Types, RowsSame, scan' = NoScan, tree' = tree, known' = known,
           base' \in Trees \cup {NoTree}, torn' \in BOOLEAN,
           base' # NoTree /\ ~torn' => Match(base')
    PROVE  IInv'
<1>1. /\ scan'.at = "idle" /\ scan'.since = NoTree /\ scan'.head = NoTree
      /\ scan'.clean = TRUE /\ scan'.whole = FALSE
      /\ DOMAIN scan' = DOMAIN NoScan
  BY DEF NoScan
<1>2. Types'
  BY <1>1 DEF Types, RowsSame
<1>3. StoreMatches'
  <2> SUFFICES ASSUME base' # NoTree, ~torn' PROVE Match(base)'
    BY DEF StoreMatches
  <2>1. Match(base')
    OBVIOUS
  <2> QED
    BY <2>1 DEF RowsSame, Match, ServicesMatch, ModulesMatch, ArtifactsMatch,
       Readable, Described, ServiceOf
<1> QED
  BY <1>1, <1>2, <1>3
  DEF IInv, SinceIsBase, HeadIsTree, HeadIsRead, ExtractionIsComplete, ScanMatches

LEMMA SkipStep ==
    ASSUME IInv, NEW r \in BOOLEAN, SkipUnchanged(r)
    PROVE  IInv'
<1> USE DEF IInv
<1>1. /\ scan.at = "extract" /\ Diff = {} /\ Complete(r) /\ scan' = NoScan
      /\ torn' = (torn \/ (r /\ scan.head # tree))
      /\ tree' = tree /\ known' = known /\ RowsSame
  BY DEF SkipUnchanged, RowsSame
<1>2. torn' \in BOOLEAN
  BY <1>1 DEF Types
<1>3. CASE ~r
  <2>1. base' = base
    BY <1>1, <1>3 DEF Complete
  <2> QED BY <1>1, <1>2, <2>1, IdleStep DEF Types, StoreMatches
<1>4. CASE r /\ scan.head # tree
  <2>1. torn' = TRUE
    BY <1>1, <1>4
  <2>2. base' = scan.head
    BY <1>1, <1>4 DEF Complete
  <2> QED BY <1>1, <1>2, <2>1, <2>2, IdleStep DEF Types
<1>5. CASE r /\ scan.head = tree
  <2>1. base' = tree /\ torn' = torn
    BY <1>1, <1>5 DEF Complete, Types
  <2>2. CASE scan.since \in known
    <3>1. scan.since \in Trees /\ scan.since = base /\ Changed(base, tree) = {}
      BY <1>1, <2>2, FilesAssumption DEF Diff, Types, SinceIsBase
    <3>2. base = tree
      BY <3>1 DEF Changed, Trees, Types
    <3> QED
      BY <1>1, <1>2, <2>1, <3>1, <3>2, IdleStep, FilesAssumption DEF Types, StoreMatches
  <2>3. CASE scan.since \notin known
    <3>1. Files = {}
      BY <1>1, <2>3 DEF Diff
    <3>2. Manifests = {} /\ Sources = {} /\ Artifacts = {}
      BY <3>1 DEF Files
    <3>3. Match(tree)
      BY <3>2 DEF Match, ServicesMatch, ModulesMatch, ArtifactsMatch
    <3> QED BY <1>1, <1>2, <2>1, <3>3, IdleStep DEF Types
  <2> QED BY <2>2, <2>3
<1> QED BY <1>3, <1>4, <1>5

\* A step of the scan that leaves the rows alone.
LEMMA ExtractStep ==
    ASSUME IInv, NEW fails \in BOOLEAN, Extract(fails)
    PROVE  IInv'
<1> USE DEF IInv
<1> DEFINE changed == Diff
           found == ServicesToRead(tree, changed)
           files == FilesToRead(tree, changed)
<1>1. PICK kept \in Findings(found, files, fails) :
        /\ scan'.at = "store" /\ scan'.read = tree
        /\ scan'.clean = (scan.clean /\ ~fails)
        /\ scan'.whole = (scan.since \notin known)
        /\ scan'.services = kept[1] /\ scan'.files = kept[2]
        /\ scan'.since = scan.since /\ scan'.head = scan.head
        /\ DOMAIN scan' = DOMAIN scan
  BY DEF Extract, Types, NoScan, ServicesToRead, FilesToRead
<1>2. /\ scan.at = "extract" /\ RowsSame
      /\ UNCHANGED <<tree, known, base, torn>>
  BY DEF Extract, RowsSame
<1>3. ~fails => kept = <<found, files>>
  BY <1>1 DEF Findings
<1> HIDE DEF changed, found, files
<1>4. Types'
  BY <1>1, <1>2 DEF Types, RowsSame
<1>5. SinceIsBase' /\ HeadIsTree' /\ ScanMatches'
  BY <1>1, <1>2 DEF SinceIsBase, HeadIsTree, ScanMatches
<1>6. HeadIsRead'
  BY <1>1, <1>2 DEF HeadIsRead, HeadIsTree, Types
<1>7. StoreMatches'
  BY <1>1, <1>2, MatchSame DEF StoreMatches, Types
<1>8. ExtractionIsComplete'
  <2> SUFFICES ASSUME scan'.clean PROVE
        /\ scan'.read \in Trees
        /\ ~scan'.whole => scan'.since = base' /\ base' # NoTree
        /\ scan'.services = ServicesToRead(scan.read, Read)'
        /\ scan'.files = FilesToRead(scan.read, Read)'
    BY DEF ExtractionIsComplete
  <2>1. kept = <<found, files>> /\ scan'.read \in Trees
    BY <1>1, <1>2, <1>3 DEF Types
  <2>2. ~scan'.whole => scan'.since = base' /\ base' # NoTree
    BY <1>1, <1>2, FilesAssumption DEF SinceIsBase, Types
  <2>3. Read' = changed
    BY <1>1, <1>2 DEF Read, changed, Diff, Types, Changed
  <2>4. scan'.services = found /\ scan'.files = files
    BY <2>1, <1>1
  <2>5. found = ServicesToRead(tree, Read') /\ files = FilesToRead(tree, Read')
    BY <2>3 DEF found, files
  <2>6. /\ ServicesToRead(scan.read, Read)' = ServicesToRead(scan'.read, Read')
        /\ FilesToRead(scan.read, Read)' = FilesToRead(scan'.read, Read')
    OBVIOUS
  <2> QED BY <1>1, <2>1, <2>2, <2>4, <2>5, <2>6
<1> QED BY <1>4, <1>5, <1>6, <1>7, <1>8

LEMMA SameStoreStep ==
    ASSUME IInv, StoreFails \/ Correlate
    PROVE  IInv'
<1> USE DEF IInv
<1>1. /\ RowsSame /\ UNCHANGED <<tree, known, base, torn>>
      /\ DOMAIN scan' = DOMAIN scan
      /\ scan'.since = scan.since /\ scan'.head = scan.head
      /\ scan'.whole = scan.whole /\ scan'.read = scan.read
  BY DEF StoreFails, Correlate, RowsSame, Types, NoScan
<1>2. \/ scan.at = "store" /\ scan'.at = "correlate" /\ scan'.clean = FALSE
      \/ scan.at = "correlate" /\ scan'.at = "finish" /\ scan'.clean = scan.clean
  BY DEF StoreFails, Correlate, Types, NoScan
<1>3. Types'
  BY <1>1, <1>2 DEF Types, RowsSame
<1>4. ScanMatches'
  BY <1>1, <1>2, MatchSame DEF ScanMatches, Types,
     Match, ServicesMatch, ModulesMatch, ArtifactsMatch, RowsSame
<1> QED
  BY <1>1, <1>2, <1>3, <1>4
  DEF SinceIsBase, StoreMatches, HeadIsTree, HeadIsRead, ExtractionIsComplete

\* Where the rows come from when a clean scan is stored.
LEMMA StoredRows ==
    ASSUME Types, Store
    PROVE  /\ \A f \in Sources \cup Artifacts :
                 rows'[f] = IF f \in scan.files THEN scan.read[f] ELSE rows[f]
           /\ \A s \in Services :
                 service'[s] = IF s \in scan.services THEN scan.read[s[1]]
                               ELSE service[s]
BY DEF Types, Store

\* A whole scan overwrites everything that the commit describes, and an
\* incremental one all that is not as it was in a commit that was stored.
LEMMA StoreMatchesRead ==
    ASSUME IInv, Store, scan.clean, scan.whole \/ ~torn
    PROVE  Match(scan.read)'
<1> USE DEF IInv
<1>1. scan.at = "store"
  BY DEF Store
<1> DEFINE t == scan.read
<1>2. /\ t \in Trees
      /\ ~scan.whole => scan.since = base /\ base \in Trees
      /\ scan.services = ServicesToRead(t, Read)
      /\ scan.files = FilesToRead(t, Read)
  BY <1>1 DEF ExtractionIsComplete, Types
<1>3. scan'.read = t
  BY DEF Store, Types, NoScan
<1>4. \/ Read = Files
      \/ Read = Changed(base, t) /\ base \in Trees /\ Match(base)
  BY <1>1, <1>2, FilesAssumption DEF Read, StoreMatches, Types
<1> HIDE DEF t
<1>5. ASSUME NEW m \in Manifests, Readable(t, m)
      PROVE  service'[ServiceOf(t, m)] = t[m]
  <2>1. ServiceOf(t, m) \in Services /\ ServiceOf(t, m)[1] = m
    BY <1>2, <1>5, NameOfManifest
  <2>2. CASE ServiceOf(t, m) \in scan.services
    BY <2>1, <2>2, StoredRows DEF t
  <2>3. CASE ServiceOf(t, m) \notin scan.services
    <3>1. m \notin ManifestsToRead(t, Read)
      BY <1>2, <2>3 DEF ServicesToRead
    <3>2. Read # Files
      BY <1>2, <1>5, <3>1, WholeReadsAll
    <3>3. base \in Trees /\ Match(base) /\ base[m] = t[m]
      BY <1>2, <1>4, <1>5, <3>1, <3>2, UnreadIsUnchanged
    <3>4. Readable(base, m) /\ ServiceOf(base, m) = ServiceOf(t, m)
      BY <1>5, <3>3 DEF Readable, ServiceOf
    <3>5. service[ServiceOf(t, m)] = t[m]
      BY <3>3, <3>4 DEF Match, ServicesMatch
    <3> QED BY <2>1, <2>3, <3>5, StoredRows
  <2> QED BY <2>2, <2>3
<1>6. ASSUME NEW f \in Sources, Readable(t, f), Described(t, f)
      PROVE  rows'[f] = t[f]
  <2>1. CASE f \in scan.files
    BY <2>1, StoredRows DEF t
  <2>2. CASE f \notin scan.files
    <3>1. PICK m \in Manifests : Readable(t, m) /\ f \in Modules[m]
      BY <1>6 DEF Described
    <3>2. m \notin ManifestsToRead(t, Read)
      BY <1>2, <1>6, <2>2, <3>1 DEF FilesToRead, ModulesToRead
    <3>3. Read # Files
      BY <1>2, <3>1, <3>2, WholeReadsAll
    <3>4. base \in Trees /\ Match(base) /\ base[m] = t[m] /\ base[f] = t[f]
      BY <1>2, <1>4, <3>1, <3>2, <3>3, UnreadIsUnchanged
    <3>5. Readable(base, f) /\ Described(base, f)
      BY <1>6, <3>1, <3>4 DEF Readable, Described
    <3>6. rows[f] = t[f]
      BY <3>4, <3>5 DEF Match, ModulesMatch
    <3> QED BY <2>2, <3>6, StoredRows
  <2> QED BY <2>1, <2>2
<1>7. ASSUME NEW a \in Artifacts, Readable(t, a)
      PROVE  rows'[a] = t[a]
  <2>1. CASE a \in scan.files
    BY <2>1, StoredRows DEF t
  <2>2. CASE a \notin scan.files
    <3>1. a \notin Read /\ a \in Files
      BY <1>2, <1>7, <2>2 
      DEF FilesToRead, ArtifactsToRead, BuildsToRead, DeploymentsToRead, Artifacts, Files
    <3>2. base \in Trees /\ Match(base) /\ base[a] = t[a]
      BY <1>4, <3>1 DEF Changed
    <3>3. rows[a] = t[a]
      BY <1>7, <3>2 DEF Readable, Match, ArtifactsMatch
    <3> QED BY <2>2, <3>3, StoredRows
  <2> QED BY <2>1, <2>2
<1> QED
  BY <1>3, <1>5, <1>6, <1>7
  DEF Match, ServicesMatch, ModulesMatch, ArtifactsMatch, Readable, Described,
      ServiceOf

LEMMA StoreStep ==
    ASSUME IInv, Store
    PROVE  IInv'
<1> USE DEF IInv
<1>1. /\ UNCHANGED <<tree, known, base, torn>>
      /\ scan.at = "store" /\ scan'.at = "correlate"
      /\ DOMAIN scan' = DOMAIN scan /\ DOMAIN rows' = DOMAIN rows
      /\ DOMAIN service' = Services
      /\ scan'.since = scan.since /\ scan'.head = scan.head
      /\ scan'.clean = scan.clean /\ scan'.whole = scan.whole
      /\ scan'.read = scan.read
  BY DEF Store, Types, NoScan
<1>2. Types'
  BY <1>1 DEF Types
<1>3. ScanMatches'
  <2>1. scan.clean => scan.read \in Trees
    BY <1>1 DEF ExtractionIsComplete
  <2> QED
    BY <1>1, <2>1, StoreMatchesRead DEF ScanMatches
<1> QED
  BY <1>1, <1>2, <1>3
  DEF SinceIsBase, StoreMatches, HeadIsTree, HeadIsRead, ExtractionIsComplete

LEMMA FinishStep ==
    ASSUME IInv, NEW r \in BOOLEAN, Finish(r)
    PROVE  IInv'
<1> USE DEF IInv
<1>1. /\ scan.at = "finish" /\ Complete(r) /\ scan' = NoScan /\ RowsSame
      /\ tree' = tree /\ known' = known
      /\ torn' = (~r \/ ~scan.clean \/ (torn /\ ~scan.whole))
  BY DEF Finish, RowsSame
<1>2. base' \in Trees \cup {NoTree} /\ torn' \in BOOLEAN
  BY <1>1 DEF Complete, Types
<1>3. base' # NoTree /\ ~torn' => Match(base')
  <2> SUFFICES ASSUME base' # NoTree, ~torn' PROVE Match(base')
    OBVIOUS
  <2>1. r /\ scan.clean /\ (scan.whole \/ ~torn)
    BY <1>1 DEF Types
  <2>2. base' = scan.head /\ scan.head = scan.read
    BY <1>1, <2>1 DEF Complete, HeadIsRead
  <2> QED BY <1>1, <2>1, <2>2 DEF ScanMatches
<1> QED BY <1>1, <1>2, <1>3, IdleStep

LEMMA FailStep ==
    ASSUME IInv, Fail
    PROVE  IInv'
<1> USE DEF IInv
<1>1. /\ scan' = NoScan /\ RowsSame /\ UNCHANGED <<tree, known, base>>
      /\ torn' = (torn \/ scan.at \in {"correlate", "finish"})
  BY DEF Fail, RowsSame
<1>2. base' # NoTree /\ ~torn' => Match(base')
  BY <1>1 DEF StoreMatches, Types
<1> QED BY <1>1, <1>2, IdleStep DEF Types

LEMMA StutterStep ==
    ASSUME IInv, UNCHANGED codeVars
    PROVE  IInv'
BY Zenon DEF codeVars, IInv, Types, SinceIsBase, StoreMatches, HeadIsTree,
   HeadIsRead, ExtractionIsComplete, ScanMatches, Match, ServicesMatch,
   ModulesMatch, ArtifactsMatch, Readable, Described, ServiceOf, Read, Changed

LEMMA NextKeeps == IInv /\ [CodeNext]_codeVars => IInv'
<1> SUFFICES ASSUME IInv, [CodeNext]_codeVars PROVE IInv'
  OBVIOUS
<1>1. CASE CodeEnvironment
  BY <1>1, EnvironmentStep DEF CodeEnvironment
<1>2. CASE \E i, l, q \in BOOLEAN : StartScan(i, l, q)
  BY <1>2, StartScanStep
<1>3. ASSUME NEW r \in BOOLEAN, SkipUnchanged(r) PROVE IInv'
  BY <1>3, SkipStep
<1>4. ASSUME NEW r \in BOOLEAN, Extract(r) PROVE IInv'
  BY <1>4, ExtractStep
<1>5. ASSUME NEW r \in BOOLEAN, Finish(r) PROVE IInv'
  BY <1>5, FinishStep
<1>6. CASE Store
  BY <1>6, StoreStep
<1>7. CASE StoreFails \/ Correlate
  BY <1>7, SameStoreStep
<1>8. CASE Fail
  BY <1>8, FailStep
<1>9. CASE UNCHANGED codeVars
  BY <1>9, StutterStep
<1> QED
  BY <1>1, <1>2, <1>3, <1>4, <1>5, <1>6, <1>7, <1>8, <1>9 DEF CodeNext, CodeStep

\* However the clone moves, whatever git, the parser and the data store fail
\* at and however many scans there are, the commit an incremental scan will
\* start from is stored as a whole scan of it would have stored it.
THEOREM StoredIsAlwaysHead == CodeSpec => []StoredIsHead
<1>1. IInv => StoredIsHead
  BY DEF IInv, StoreMatches, StoredIsHead, Match, ServicesMatch, ModulesMatch,
     ArtifactsMatch
<1> QED BY <1>1, Start, NextKeeps, PTL DEF CodeSpec

-----------------------------------------------------------------------------
(* The scan goes on as CodeIndexing says.                                  *)

\* The extractor runs in one stage of the scan.
InStage == /\ DOMAIN scan = DOMAIN NoScan /\ DOMAIN sre = DOMAIN NoRun
           /\ sre.at # "idle" => scan.at = "correlate"

LEMMA CodeStepsOfScan ==
    ASSUME InStage, CodeEnvironment \/ CodeStep,
           sre' = IF scan'.at = "idle" THEN NoRun ELSE sre
    PROVE  InStage'
<1>1. NoRun.at = "idle"
  BY DEF NoRun
<1>2. DOMAIN scan' = DOMAIN NoScan
  <2>1. CASE CodeEnvironment
    BY <2>1 DEF CodeEnvironment, Pull, CloneAgain, MayMove, InStage
  <2>2. CASE \E i, l, q \in BOOLEAN : StartScan(i, l, q)
    BY <2>2 DEF StartScan
  <2>3. CASE \E r \in BOOLEAN : SkipUnchanged(r) \/ Extract(r) \/ Finish(r)
    BY <2>3 DEF SkipUnchanged, Extract, Finish, InStage
  <2>4. CASE Store \/ StoreFails \/ Fail
    BY <2>4 DEF Store, StoreFails, Fail, InStage
  <2> QED BY <2>1, <2>2, <2>3, <2>4 DEF CodeStep
<1>3. scan.at = "correlate" => scan'.at \in {"correlate", "idle"}
  <2>1. CASE CodeEnvironment
    BY <2>1 DEF CodeEnvironment, Pull, CloneAgain, MayMove, InStage, NoScan
  <2>2. CASE \E i, l, q \in BOOLEAN : StartScan(i, l, q)
    BY <2>2 DEF StartScan
  <2>3. CASE \E r \in BOOLEAN : SkipUnchanged(r) \/ Extract(r) \/ Finish(r)
    BY <2>3 DEF SkipUnchanged, Extract, Finish
  <2>4. CASE Store \/ StoreFails \/ Fail
    BY <2>4 DEF Store, StoreFails, Fail, NoScan
  <2> QED BY <2>1, <2>2, <2>3, <2>4 DEF CodeStep
<1>4. DOMAIN sre' = DOMAIN NoRun
  BY DEF InStage
<1> QED BY <1>1, <1>2, <1>3, <1>4 DEF InStage

\* A step of the extractor is the step Correlate, or leaves the scan alone.
LEMMA StepsOfExtractor ==
    ASSUME InStage, CorrelationStep,
           UNCHANGED <<tree, known, base, rows, service, owner, links, torn, left>>
    PROVE  InStage' /\ [CodeNext]_codeVars
<1>1. ASSUME NEW domains, NEW fetched, BeginCorrelation(domains, fetched)
      PROVE  InStage' /\ [CodeNext]_codeVars
  BY <1>1 DEF BeginCorrelation, InStage, NoRun, NoScan, CodeNext, Correlate, codeVars
<1>2. CASE EndCorrelation
  BY <1>2 DEF EndCorrelation, InStage, NoRun, NoScan, CodeNext, Correlate, codeVars
<1>3. ASSUME UNCHANGED scan, sre.at # "idle", DOMAIN sre' = DOMAIN sre
      PROVE  InStage' /\ [CodeNext]_codeVars
  BY <1>3 DEF InStage, codeVars
<1>4. CASE AnalyseIaC
  BY <1>3, <1>4 DEF AnalyseIaC
<1>5. CASE AnalyseServices
  BY <1>3, <1>5 DEF AnalyseServices, Advance
<1>6. CASE IaCToCloud
  BY <1>3, <1>6 DEF IaCToCloud
<1>7. CASE IaCToService
  BY <1>3, <1>7 DEF IaCToService
<1>8. CASE ServiceToCloud
  BY <1>3, <1>8 DEF ServiceToCloud, Advance
<1> QED BY <1>1, <1>2, <1>4, <1>5, <1>6, <1>7, <1>8 DEF CorrelationStep

\* A scan with the extractor in it is a scan as CodeIndexing has it, so that
\* what was proved of the rows holds of it.
THEOREM ScansAreCodeScans == Spec => CodeSpec
<1>1. Init => CodeInit /\ InStage
  BY DEF Init, CodeInit, InStage, NoRun
<1>2. ASSUME InStage, [Next]_vars
      PROVE  InStage' /\ [CodeNext]_codeVars
  <2>1. CASE CodeEnvironment \/ CodeStep
    <3>1. CASE sre' = IF scan'.at = "idle" THEN NoRun ELSE sre
      BY <1>2, <2>1, <3>1, CodeStepsOfScan DEF CodeNext
    <3>2. CASE UNCHANGED vars
      BY <1>2, <3>2 DEF vars, codeVars, corrVars, InStage
    <3>3. CASE CorrelationStep /\ UNCHANGED <<tree, known, base, rows, service, owner, links, torn, left>>
      BY <1>2, <3>3, StepsOfExtractor
    <3> QED BY <1>2, <3>1, <3>2, <3>3 DEF Next
  <2>2. CASE CorrelationStep /\ UNCHANGED <<tree, known, base, rows, service, owner, links, torn, left>>
    BY <1>2, <2>2, StepsOfExtractor
  <2>3. CASE UNCHANGED vars
    BY <1>2, <2>3 DEF vars, codeVars, corrVars, InStage
  <2> QED BY <1>2, <2>1, <2>2, <2>3 DEF Next
<1> QED BY <1>1, <1>2, PTL DEF Spec, CodeSpec

\* In particular its scans leave no row behind.
THEOREM ScansStoreTheHead == Spec => []StoredIsHead
BY ScansAreCodeScans, StoredIsAlwaysHead, PTL

-----------------------------------------------------------------------------
(* The scope of the links.                                                 *)

\* What an artifact deploys is in its scope, if it has one.
ReachesInScope ==
    sre.at \in {"iac to service", "service to cloud", "done"} =>
        \A d \in Deployments : Scope(d) # {} => sre.reaches[d] \subseteq Scope(d)

\* Links are what the run ends with.
BoundLast == sre.at # "done" => sre.bound = {}

LinkInv == InStage /\ ReachesInScope /\ BoundLast /\ LinksInScope

\* A query returns some of what is there.
LEMMA QuerySelects ==
    ASSUME NEW found, NEW answer \in UNION {SUBSET o : o \in Query(found)}
    PROVE  answer \subseteq found
BY DEF Query

LEMMA IaCToCloudStep ==
    ASSUME LinkInv, IaCToCloud
    PROVE  ReachesInScope'
<1> DEFINE shown == IF "iac" \in sre.domains THEN Extracted ELSE {}
           offered(d) == Query(IF Scope(d) # {} THEN In(Scope(d)) ELSE Resources)
<1>1. PICK deployed \in [shown -> SUBSET Resources] :
        /\ \A d \in shown : deployed[d] \in UNION {SUBSET o : o \in offered(d)}
        /\ sre' = [sre EXCEPT
               !.at = "iac to service", !.order = << >>,
               !.reaches = [d \in Deployments |->
                               IF d \in shown
                               THEN {GroupOf[r] : r \in deployed[d]} ELSE {}]]
  BY DEF IaCToCloud
<1> HIDE DEF shown
<1>2. /\ sre'.art = sre.art
      /\ \A d \in Deployments :
            sre'.reaches[d] = IF d \in shown
                              THEN {GroupOf[r] : r \in deployed[d]} ELSE {}
  BY <1>1 DEF LinkInv, InStage, NoRun
<1>3. ASSUME NEW d \in Deployments, Scope(d) # {}
      PROVE  sre'.reaches[d] \subseteq Scope(d)
  <2>1. CASE d \notin shown
    BY <1>2, <2>1
  <2>2. CASE d \in shown
    <3>1. deployed[d] \subseteq In(Scope(d))
      BY <1>1, <1>3, <2>2, QuerySelects
    <3>2. sre'.reaches[d] = {GroupOf[r] : r \in deployed[d]}
      BY <1>2, <2>2
    <3> QED BY <3>1, <3>2 DEF In
  <2> QED BY <2>1, <2>2
<1>4. \A d \in Deployments : Scope(d)' = Scope(d)
  BY <1>2 DEF Scope
<1> QED BY <1>3, <1>4 DEF ReachesInScope

LEMMA ServiceToCloudStep ==
    ASSUME LinkInv, ServiceToCloud
    PROVE  LinksInScope'
<1>1. sre'.art = sre.art /\ sre'.deploys = sre.deploys /\ sre.at = "service to cloud"
  BY DEF ServiceToCloud, Advance, LinkInv, InStage, NoRun
<1>2. (\A d : Scope(d)' = Scope(d)) /\ (\A s : DeployedBy(s)' = DeployedBy(s))
  BY <1>1 DEF Scope, DeployedBy
<1>3. CASE sre' = [sre EXCEPT !.at = "done"]
  <2>1. sre'.bound = {}
    BY <1>1, <1>3 DEF LinkInv, InStage, NoRun, BoundLast
  <2> QED BY <2>1 DEF LinksInScope
<1>4. ASSUME NEW s \in scan.services, NEW uses \in UNION {SUBSET o : o \in Offered(s)},
             sre' = [sre EXCEPT !.at = "done", !.bound = {s} \X uses]
      PROVE  LinksInScope'
  <2>1. sre'.bound = {s} \X uses
    BY <1>4 DEF LinkInv, InStage, NoRun
  <2> SUFFICES ASSUME NEW r \in uses, DeployedBy(s) # {},
                      \A d \in DeployedBy(s) : Scope(d) # {}
               PROVE  GroupOf[r] \in UNION {Scope(d) : d \in DeployedBy(s)}
    BY <1>2, <2>1 DEF LinksInScope
  <2>2. \A d \in DeployedBy(s) : sre.reaches[d] \subseteq Scope(d)
    BY <1>1 DEF LinkInv, ReachesInScope, DeployedBy
  <2>3. CASE Affinity(s) # {}
    <3>1. uses \subseteq In(Affinity(s))
      BY <1>4, <2>3, QuerySelects DEF Offered
    <3> QED BY <2>2, <3>1 DEF In, Affinity
  <2>4. CASE Affinity(s) = {}
    <3>1. uses \subseteq InScopes(DeployedBy(s))
      BY <1>4, <2>4, QuerySelects DEF Offered
    <3> QED BY <3>1 DEF InScopes, In
  <2> QED BY <2>3, <2>4
<1> QED BY <1>3, <1>4 DEF ServiceToCloud, Advance

\* Where a run begins or ends, there is nothing to keep.
LEMMA NoLinks ==
    ASSUME sre'.bound = {}, sre'.at \in {"idle", "analyse", "order", "iac to cloud"}
    PROVE  (ReachesInScope /\ BoundLast /\ LinksInScope)'
BY DEF ReachesInScope, BoundLast, LinksInScope

\* What is known of the artifacts and of the links stays as it is.
LEMMA SameLinks ==
    ASSUME LinkInv, sre'.art = sre.art, sre'.reaches = sre.reaches,
           sre'.bound = {}, sre.at \in {"iac to service", "service to cloud"}
    PROVE  (ReachesInScope /\ BoundLast /\ LinksInScope)'
<1>1. \A d : Scope(d)' = Scope(d)
  BY DEF Scope
<1> QED BY <1>1 DEF LinkInv, ReachesInScope, BoundLast, LinksInScope

LEMMA LinkSteps ==
    ASSUME LinkInv, CorrelationStep
    PROVE  (ReachesInScope /\ BoundLast /\ LinksInScope)'
<1> USE DEF LinkInv
<1>1. ASSUME NEW domains, NEW fetched, BeginCorrelation(domains, fetched)
      PROVE  (ReachesInScope /\ BoundLast /\ LinksInScope)'
  <2>1. sre'.bound = {} /\ sre'.at \in {"idle", "analyse"}
    BY <1>1 DEF BeginCorrelation, BoundLast, NoRun
  <2> QED BY <2>1, NoLinks
<1>2. CASE AnalyseIaC
  <2>1. sre'.bound = {} /\ sre'.at = "order"
    BY <1>2 DEF AnalyseIaC, BoundLast, InStage, NoRun
  <2> QED BY <2>1, NoLinks
<1>3. CASE AnalyseServices
  <2>1. sre'.bound = sre.bound /\ sre'.at = "iac to cloud" /\ sre.at = "order"
    BY <1>3 DEF AnalyseServices, Advance, InStage, NoRun
  <2> QED BY <2>1, NoLinks DEF BoundLast
<1>4. CASE IaCToCloud
  <2>1. sre'.bound = {} /\ sre'.at = "iac to service"
    BY <1>4 DEF IaCToCloud, BoundLast, InStage, NoRun
  <2> QED BY <1>4, <2>1, IaCToCloudStep DEF BoundLast, LinksInScope
<1>5. CASE IaCToService
  <2>1. /\ sre'.bound = {} /\ sre.at = "iac to service"
        /\ sre'.art = sre.art /\ sre'.reaches = sre.reaches
    BY <1>5 DEF IaCToService, BoundLast, InStage, NoRun
  <2> QED BY <2>1, SameLinks
<1>6. CASE ServiceToCloud
  <2>1. /\ sre'.at = "done" /\ sre.at = "service to cloud"
        /\ sre'.art = sre.art /\ sre'.reaches = sre.reaches
    BY <1>6 DEF ServiceToCloud, Advance, InStage, NoRun
  <2>2. \A d : Scope(d)' = Scope(d)
    BY <2>1 DEF Scope
  <2>3. ReachesInScope' /\ BoundLast'
    BY <2>1, <2>2 DEF ReachesInScope, BoundLast
  <2> QED BY <1>6, <2>3, ServiceToCloudStep
<1>7. CASE EndCorrelation
  <2>1. sre'.bound = {} /\ sre'.at = "idle"
    BY <1>7 DEF EndCorrelation, NoRun
  <2> QED BY <2>1, NoLinks
<1> QED BY <1>1, <1>2, <1>3, <1>4, <1>5, <1>6, <1>7 DEF CorrelationStep

LEMMA LinkInvKept ==
    ASSUME LinkInv, [Next]_vars
    PROVE  LinkInv'
<1>1. ASSUME sre' = sre PROVE (ReachesInScope /\ BoundLast /\ LinksInScope)'
  <2>1. (\A d : Scope(d)' = Scope(d)) /\ (\A s : DeployedBy(s)' = DeployedBy(s))
    BY <1>1 DEF Scope, DeployedBy
  <2>2. ReachesInScope' /\ BoundLast'
    BY <1>1, <2>1 DEF LinkInv, ReachesInScope, BoundLast
  <2>3. LinksInScope'
    BY <1>1, <2>1 DEF LinkInv, LinksInScope
  <2> QED BY <2>2, <2>3
<1>2. CASE /\ CodeEnvironment \/ CodeStep
           /\ sre' = IF scan'.at = "idle" THEN NoRun ELSE sre
  <2>1. sre' = NoRun \/ sre' = sre
    BY <1>2
  <2>2. ASSUME sre' = NoRun PROVE (ReachesInScope /\ BoundLast /\ LinksInScope)'
    <3>1. sre'.bound = {} /\ sre'.at = "idle"
      BY <2>2 DEF NoRun
    <3> QED BY <3>1, NoLinks
  <2>3. InStage'
    BY <1>2, CodeStepsOfScan DEF LinkInv
  <2>4. (ReachesInScope /\ BoundLast /\ LinksInScope)'
    BY <1>1, <2>1, <2>2
  <2> QED BY <2>3, <2>4 DEF LinkInv
<1>3. CASE CorrelationStep /\ UNCHANGED <<tree, known, base, rows, service, owner, links, torn, left>>
  BY <1>3, LinkSteps, StepsOfExtractor DEF LinkInv
<1>4. CASE UNCHANGED vars
  <2>1. InStage' /\ sre' = sre
    BY <1>4 DEF LinkInv, InStage, vars, codeVars, corrVars
  <2> QED BY <1>1, <2>1 DEF LinkInv
<1> QED BY <1>2, <1>3, <1>4 DEF Next

\* Whatever the agents answer, a service that only artifacts of known scope
\* deploy is bound to resources of their groups alone.
THEOREM LinksAlwaysInScope == Spec => []LinksInScope
<1>1. Init => LinkInv
  BY DEF Init, CodeInit, LinkInv, InStage, ReachesInScope, BoundLast,
     LinksInScope, NoRun
<1>2. LinkInv /\ [Next]_vars => LinkInv'
  BY LinkInvKept
<1> QED BY <1>1, <1>2, PTL DEF Spec, LinkInv

-----------------------------------------------------------------------------
(* Induction, over a set of numbers, and the elements of a sequence.       *)

LEMMA LeastOf ==
    ASSUME NEW S \in SUBSET Nat, S # {} PROVE \E x \in S : \A y \in S : x <= y
<1>1. PICK x \in S : \A y \in S : <<y, x>> \notin OpToRel(<, Nat)
  BY NatLessThanWellFounded, WFMin, Zenon
<1>2. \A y \in S : ~(y < x)
  BY <1>1, Zenon DEF OpToRel
<1> QED BY <1>2

LEMMA UpTo ==
    ASSUME NEW N \in Nat, NEW P, 0 \in P, \A n \in 1..N : n - 1 \in P => n \in P
    PROVE  \A n \in 0..N : n \in P
<1> SUFFICES ASSUME NEW m \in 0..N, m \notin P PROVE FALSE
  OBVIOUS
<1> DEFINE Bad == {n \in 0..N : n \notin P}
<1>1. Bad \in SUBSET Nat /\ Bad # {}
  OBVIOUS
<1>2. PICK x \in Bad : \A y \in Bad : x <= y
  BY <1>1, LeastOf
<1>3. x \in 1..N /\ x - 1 \in 0..N
  OBVIOUS
<1>4. x - 1 \in P
  BY <1>2, <1>3
<1> QED BY <1>3, <1>4

\* How many of P come no later than i.
Rank(P, i) == Cardinality({j \in P : j <= i})

LEMMA RankGrows ==
    ASSUME NEW P \in SUBSET Nat, IsFiniteSet(P), NEW i \in P, NEW j \in P, i < j
    PROVE  Rank(P, i) < Rank(P, j)
<1> DEFINE A == {n \in P : n <= i}
           B == {n \in P : n <= j}
<1>1. A \in SUBSET B /\ j \in B /\ j \notin A /\ B \in SUBSET P
  <2>1. i \in Nat /\ j \in Nat /\ \A n \in P : n \in Nat
    OBVIOUS
  <2>2. \A n \in A : n \in B
    BY <2>1
  <2>3. j \in B /\ j \notin A
    BY <2>1
  <2> QED BY <2>2, <2>3
<1> HIDE DEF A, B
<1>2. IsFiniteSet(B)
  BY <1>1, FS_Subset
<1>3. /\ IsFiniteSet(A) /\ Cardinality(A) <= Cardinality(B)
      /\ Cardinality(A) = Cardinality(B) => B = A
  BY <1>1, <1>2, FS_Subset
<1>4. Cardinality(A) \in Nat /\ Cardinality(B) \in Nat
  BY <1>2, <1>3, FS_CardinalityType
<1>5. Cardinality(A) < Cardinality(B)
  BY <1>1, <1>3, <1>4
<1> QED BY <1>5 DEF Rank, A, B

\* Every rank is the rank of one position.
LEMMA RankIsOneToOne ==
    ASSUME NEW P \in SUBSET Nat, IsFiniteSet(P)
    PROVE  /\ Cardinality(P) \in Nat
           /\ \A i \in P : Rank(P, i) \in 1..Cardinality(P)
           /\ \A i, j \in P : Rank(P, i) = Rank(P, j) => i = j
           /\ \A k \in 1..Cardinality(P) : \E i \in P : Rank(P, i) = k
<1>1. Cardinality(P) \in Nat
  BY FS_CardinalityType
<1>2. ASSUME NEW i \in P PROVE Rank(P, i) \in 1..Cardinality(P)
  <2> DEFINE A == {n \in P : n <= i}
  <2>1. A \in SUBSET P /\ i \in A
    OBVIOUS
  <2> HIDE DEF A
  <2>2. IsFiniteSet(A) /\ Cardinality(A) <= Cardinality(P)
    BY <2>1, FS_Subset
  <2>3. Cardinality(A) \in Nat /\ Cardinality(A) # 0
    BY <2>1, <2>2, FS_CardinalityType, FS_EmptySet
  <2>4. Cardinality(A) \in 1..Cardinality(P)
    BY <1>1, <2>2, <2>3
  <2> QED BY <2>4 DEF Rank, A
<1>3. ASSUME NEW i \in P, NEW j \in P, Rank(P, i) = Rank(P, j) PROVE i = j
  <2>1. i \in Nat /\ j \in Nat /\ Rank(P, i) \in Nat /\ Rank(P, j) \in Nat
    BY <1>1, <1>2
  <2>2. ~(i < j) /\ ~(j < i)
    BY <1>3, <2>1, RankGrows
  <2> QED BY <2>1, <2>2
<1>4. ASSUME NEW k \in 1..Cardinality(P) PROVE \E i \in P : Rank(P, i) = k
  <2> DEFINE T == 1..Cardinality(P)
             f == [i \in P |-> Rank(P, i)]
  <2>1. f \in [P -> T]
    BY <1>2
  <2>2. \A i, j \in P : f[i] = f[j] => i = j
    BY <1>3
  <2>3. IsFiniteSet(T) /\ Cardinality(T) = Cardinality(P)
    BY <1>1, FS_Interval
  <2>4. f \in Injection(P, T)
    <3> HIDE DEF f, T
    <3> QED BY <2>1, <2>2 DEF Injection, IsInjective
  <2>5. f \in Surjection(P, T)
    <3> HIDE DEF f, T
    <3> QED BY <2>3, <2>4, FS_Injection
  <2>6. \A t \in T : \E i \in P : f[i] = t
    <3> HIDE DEF f, T
    <3> QED BY <2>5 DEF Surjection
  <2> QED BY <2>6
<1> QED BY <1>1, <1>2, <1>3, <1>4

LEMMA KeptIs ==
    ASSUME NEW T, NEW seq \in Seq(T), NEW P \in SUBSET DOMAIN seq
    PROVE  /\ Kept(seq, P) \in Seq(T)
           /\ ToSet(Kept(seq, P)) = {seq[i] : i \in P}
           /\ IsInjective(seq) => IsInjective(Kept(seq, P))
<1> DEFINE n == Cardinality(P)
           nth(k) == CHOOSE i \in P : Rank(P, i) = k
           K == [k \in 1..n |-> seq[nth(k)]]
<1>1. DOMAIN seq = 1..Len(seq) /\ Len(seq) \in Nat /\ \A i \in DOMAIN seq : seq[i] \in T
  OBVIOUS
<1>2. P \in SUBSET Nat /\ IsFiniteSet(P)
  <2>1. IsFiniteSet(1..Len(seq))
    BY <1>1, FS_Interval
  <2> QED BY <1>1, <2>1, FS_Subset
<1>3. n \in Nat /\ \A k \in 1..n : nth(k) \in P /\ Rank(P, nth(k)) = k
  BY <1>2, RankIsOneToOne
<1>4. \A i \in P : Rank(P, i) \in 1..n /\ nth(Rank(P, i)) = i
  BY <1>2, RankIsOneToOne
<1>5. Kept(seq, P) = K
  BY DEF Kept, Rank
<1> HIDE DEF nth, n
<1>6. \A k \in 1..n : K[k] = seq[nth(k)] /\ nth(k) \in DOMAIN seq
  BY <1>3
<1>7. DOMAIN K = 1..n
  OBVIOUS
<1> HIDE DEF K
<1>8. K \in Seq(T)
  <2>1. \A k \in 1..n : K[k] \in T
    BY <1>1, <1>6
  <2>2. K = [k \in 1..n |-> K[k]]
    BY DEF K
  <2> QED BY <1>3, <2>1, <2>2
<1>9. ToSet(K) = {seq[i] : i \in P}
  BY <1>3, <1>4, <1>6, <1>7 DEF ToSet
<1>10. ASSUME IsInjective(seq) PROVE IsInjective(K)
  <2> SUFFICES ASSUME NEW a \in 1..n, NEW b \in 1..n, K[a] = K[b] PROVE a = b
    BY <1>7 DEF IsInjective
  <2>1. nth(a) = nth(b)
    BY <1>6, <1>10 DEF IsInjective
  <2> QED BY <1>3, <2>1
<1> QED BY <1>5, <1>8, <1>9, <1>10
-----------------------------------------------------------------------------
(* The order of the services, where each has a name of its own.            *)

\* What the service of this name needs of the others.
Needed(svcs, n) ==
    {d \in NamesOf(svcs) :
        \E i \in DOMAIN svcs : svcs[i][2] = n /\ d \in NeedsOf(svcs[i])}

LEMMA NamesAre ==
    ASSUME NEW T, NEW svcs \in Seq(T), IsInjective(Named(svcs))
    PROVE  /\ Named(svcs) \in Seq(NamesOf(svcs))
           /\ DOMAIN Named(svcs) = DOMAIN svcs
           /\ \A i \in DOMAIN svcs :
                 Named(svcs)[i] = svcs[i][2] /\ svcs[i][2] \in NamesOf(svcs)
           /\ \A n \in NamesOf(svcs) : \E i \in DOMAIN svcs : svcs[i][2] = n
           /\ \A i, j \in DOMAIN svcs : svcs[i][2] = svcs[j][2] => i = j
           /\ IsFiniteSet(NamesOf(svcs)) /\ Cardinality(NamesOf(svcs)) = Len(svcs)
           /\ Len(svcs) \in Nat /\ DOMAIN svcs = 1..Len(svcs)
<1>1. Len(svcs) \in Nat /\ DOMAIN svcs = 1..Len(svcs)
  OBVIOUS
<1>2. DOMAIN Named(svcs) = DOMAIN svcs
  BY DEF Named
<1>3. \A i \in DOMAIN svcs : Named(svcs)[i] = svcs[i][2] /\ svcs[i][2] \in NamesOf(svcs)
  BY <1>2 DEF Named, NamesOf, ToSet
<1>4. \A n \in NamesOf(svcs) : \E i \in DOMAIN svcs : svcs[i][2] = n
  BY <1>2 DEF Named, NamesOf, ToSet
<1>5. \A i, j \in DOMAIN svcs : svcs[i][2] = svcs[j][2] => i = j
  BY <1>2, <1>3 DEF IsInjective
<1>6. Named(svcs) \in [1..Len(svcs) -> NamesOf(svcs)]
  BY <1>1, <1>3 DEF Named
<1>7. Named(svcs) \in Seq(NamesOf(svcs))
  BY <1>1, <1>6
<1>8. IsFiniteSet(NamesOf(svcs)) /\ Cardinality(NamesOf(svcs)) = Len(svcs)
  <2> DEFINE S == 1..Len(svcs)
  <2>1. IsFiniteSet(S) /\ Cardinality(S) = Len(svcs)
    BY <1>1, FS_Interval
  <2>2. Named(svcs) \in [S -> NamesOf(svcs)]
    BY <1>6
  <2>3. \A n \in NamesOf(svcs) : \E i \in S : Named(svcs)[i] = n
    BY <1>1, <1>3, <1>4
  <2> HIDE DEF S
  <2>4. Named(svcs) \in Surjection(S, NamesOf(svcs))
    BY <2>2, <2>3 DEF Surjection
  <2>5. Named(svcs) \in Injection(S, NamesOf(svcs))
    BY <2>2 DEF Injection
  <2> QED BY <2>1, <2>4, <2>5, FS_Surjection
<1> QED BY <1>1, <1>2, <1>3, <1>4, <1>5, <1>7, <1>8

LEMMA NeededIs ==
    ASSUME NEW T, NEW svcs \in Seq(T), IsInjective(Named(svcs)), NEW n
    PROVE  /\ Needed(svcs, n) \subseteq NamesOf(svcs)
           /\ IsFiniteSet(Needed(svcs, n))
           /\ \A i \in DOMAIN svcs : svcs[i][2] = n =>
                 Needed(svcs, n) = NamesOf(svcs) \cap NeedsOf(svcs[i])
<1>1. Needed(svcs, n) \subseteq NamesOf(svcs)
  BY DEF Needed
<1>2. IsFiniteSet(Needed(svcs, n))
  BY <1>1, NamesAre, FS_Subset
<1>3. ASSUME NEW i \in DOMAIN svcs, svcs[i][2] = n
      PROVE  Needed(svcs, n) = NamesOf(svcs) \cap NeedsOf(svcs[i])
  <2>1. \A j \in DOMAIN svcs : svcs[j][2] = n => j = i
    BY <1>3, NamesAre
  <2>2. \A d \in NamesOf(svcs) : d \in Needed(svcs, n) <=> d \in NeedsOf(svcs[i])
    BY <1>3, <2>1 DEF Needed
  <2> QED BY <1>1, <2>2
<1> QED BY <1>1, <1>2, <1>3

LEMMA DegreesAre ==
    ASSUME NEW T, NEW svcs \in Seq(T), IsInjective(Named(svcs))
    PROVE  /\ DOMAIN Degrees(svcs) = NamesOf(svcs)
           /\ \A n \in NamesOf(svcs) :
                 Degrees(svcs)[n] = Cardinality(Needed(svcs, n))
<1>1. DOMAIN Degrees(svcs) = NamesOf(svcs)
  BY DEF Degrees
<1>2. ASSUME NEW n \in NamesOf(svcs)
      PROVE  Degrees(svcs)[n] = Cardinality(Needed(svcs, n))
  <2> DEFINE E == {e \in (DOMAIN svcs) \X NamesOf(svcs) :
                      svcs[e[1]][2] = n /\ e[2] \in NeedsOf(svcs[e[1]])}
             f == [e \in E |-> e[2]]
  <2>1. PICK i \in DOMAIN svcs : svcs[i][2] = n
    BY NamesAre
  <2>2. Needed(svcs, n) = NamesOf(svcs) \cap NeedsOf(svcs[i])
    BY <2>1, NeededIs
  <2>3. ASSUME NEW e \in E PROVE e = <<i, e[2]>> /\ e[2] \in Needed(svcs, n)
    <3>1. e[1] \in DOMAIN svcs /\ svcs[e[1]][2] = n /\ e = <<e[1], e[2]>>
          /\ e[2] \in NamesOf(svcs) /\ e[2] \in NeedsOf(svcs[e[1]])
      OBVIOUS
    <3>2. e[1] = i
      BY <2>1, <3>1, NamesAre
    <3> QED BY <2>2, <3>1, <3>2
  <2>4. ASSUME NEW d \in Needed(svcs, n) PROVE <<i, d>> \in E
    <3>1. d \in NamesOf(svcs) /\ d \in NeedsOf(svcs[i])
      BY <2>2
    <3> QED BY <2>1, <3>1
  <2>5. f \in [E -> Needed(svcs, n)]
    <3>1. \A e \in E : e[2] \in Needed(svcs, n)
      BY <2>3
    <3> HIDE DEF E
    <3> QED BY <3>1
  <2>6. \A a, b \in E : f[a] = f[b] => a = b
    <3>1. \A e \in E : f[e] = e[2] /\ e = <<i, e[2]>>
      BY <2>3
    <3> HIDE DEF E, f
    <3> QED BY <3>1
  <2>7. \A d \in Needed(svcs, n) : \E e \in E : f[e] = d
    <3>1. \A e \in E : f[e] = e[2]
      OBVIOUS
    <3> HIDE DEF E, f
    <3>2. \A d \in Needed(svcs, n) : f[<<i, d>>] = d
      BY <2>4, <3>1
    <3> QED BY <2>4, <3>2
  <2>8. Degrees(svcs)[n] = Cardinality(E)
    BY DEF Degrees
  <2> HIDE DEF E, f
  <2>9. f \in Injection(E, Needed(svcs, n)) /\ f \in Surjection(E, Needed(svcs, n))
    BY <2>5, <2>6, <2>7 DEF Injection, Surjection, IsInjective
  <2>10. Cardinality(E) = Cardinality(Needed(svcs, n))
    BY <2>9, NeededIs, FS_Injection
  <2> QED BY <2>8, <2>10
<1> QED BY <1>1, <1>2

LEMMA DependentsAre ==
    ASSUME NEW T, NEW svcs \in Seq(T), IsInjective(Named(svcs)), NEW n \in NamesOf(svcs)
    PROVE  /\ Dependents(svcs)[n] \in Seq(NamesOf(svcs))
           /\ ToSet(Dependents(svcs)[n]) = {d \in NamesOf(svcs) : n \in Needed(svcs, d)}
           /\ IsInjective(Dependents(svcs)[n])
<1> DEFINE P == {i \in DOMAIN svcs : n \in NeedsOf(svcs[i])}
<1>1. Dependents(svcs)[n] = Kept(Named(svcs), P)
  BY DEF Dependents
<1>2. P \in SUBSET DOMAIN Named(svcs) /\ Named(svcs) \in Seq(NamesOf(svcs))
  BY NamesAre
<1>3. {Named(svcs)[i] : i \in P} = {d \in NamesOf(svcs) : n \in Needed(svcs, d)}
  <2>1. ASSUME NEW i \in P
        PROVE  Named(svcs)[i] \in NamesOf(svcs) /\ n \in Needed(svcs, Named(svcs)[i])
    <3>1. Named(svcs)[i] = svcs[i][2] /\ svcs[i][2] \in NamesOf(svcs)
      BY NamesAre
    <3> QED BY <3>1 DEF Needed
  <2>2. ASSUME NEW d \in NamesOf(svcs), n \in Needed(svcs, d)
        PROVE  \E i \in P : Named(svcs)[i] = d
    <3>1. PICK i \in DOMAIN svcs : svcs[i][2] = d /\ n \in NeedsOf(svcs[i])
      BY <2>2 DEF Needed
    <3> QED BY <3>1, NamesAre
  <2> HIDE DEF P
  <2> QED BY <2>1, <2>2
<1> HIDE DEF P
<1> QED BY <1>1, <1>2, <1>3, KeptIs

LEMMA FirstIs ==
    ASSUME NEW T, NEW svcs \in Seq(T), IsInjective(Named(svcs))
    PROVE  /\ First(svcs) \in Seq(NamesOf(svcs))
           /\ ToSet(First(svcs)) = {n \in NamesOf(svcs) : Needed(svcs, n) = {}}
           /\ IsInjective(First(svcs))
<1> DEFINE P == {i \in DOMAIN svcs : /\ Degrees(svcs)[svcs[i][2]] = 0
                                     /\ \A j \in 1..(i - 1) : svcs[j][2] # svcs[i][2]}
<1>1. First(svcs) = Kept(Named(svcs), P)
  BY DEF First
<1>2. P \in SUBSET DOMAIN Named(svcs) /\ Named(svcs) \in Seq(NamesOf(svcs))
  BY NamesAre
<1>3. \A n \in NamesOf(svcs) : Degrees(svcs)[n] = 0 <=> Needed(svcs, n) = {}
  <2> SUFFICES ASSUME NEW n \in NamesOf(svcs)
               PROVE  Degrees(svcs)[n] = 0 <=> Needed(svcs, n) = {}
    OBVIOUS
  <2> QED BY DegreesAre, NeededIs, FS_EmptySet
<1>4. {Named(svcs)[i] : i \in P} = {n \in NamesOf(svcs) : Needed(svcs, n) = {}}
  <2>1. ASSUME NEW i \in P
        PROVE  Named(svcs)[i] \in NamesOf(svcs) /\ Needed(svcs, Named(svcs)[i]) = {}
    <3>1. Named(svcs)[i] = svcs[i][2] /\ svcs[i][2] \in NamesOf(svcs)
      BY NamesAre
    <3> QED BY <1>3, <3>1
  <2>2. ASSUME NEW n \in NamesOf(svcs), Needed(svcs, n) = {}
        PROVE  \E i \in P : Named(svcs)[i] = n
    <3>1. PICK i \in DOMAIN svcs : svcs[i][2] = n
      BY NamesAre
    <3>2. \A j \in 1..(i - 1) : svcs[j][2] # svcs[i][2]
      <4>1. i \in 1..Len(svcs) /\ DOMAIN svcs = 1..Len(svcs) /\ Len(svcs) \in Nat
        BY NamesAre
      <4>2. \A j \in 1..(i - 1) : j \in DOMAIN svcs /\ j # i
        BY <4>1
      <4> QED BY <4>2, NamesAre
    <3>3. Named(svcs)[i] = n
      BY <3>1, NamesAre
    <3> QED BY <1>3, <2>2, <3>1, <3>2, <3>3
  <2> HIDE DEF P
  <2> QED BY <2>1, <2>2
<1> HIDE DEF P
<1> QED BY <1>1, <1>2, <1>4, KeptIs

\* What is true between two names that are popped: those in the queue need
\* nothing that is not sorted, nor does anything else that is not in it.
Round(svcs, st) ==
    LET names == NamesOf(svcs)
        popped == ToSet(st.sorted)
    IN
    /\ st.queue \in Seq(names) /\ st.sorted \in Seq(names)
    /\ IsInjective(st.queue) /\ IsInjective(st.sorted)
    /\ ToSet(st.queue) \cap popped = {}
    /\ DOMAIN st.degree = names
    /\ \A n \in names : st.degree[n] = Cardinality(Needed(svcs, n) \ popped)
    /\ \A n \in names : n \in popped \cup ToSet(st.queue)
                            <=> Needed(svcs, n) \subseteq popped
    /\ \A i \in DOMAIN st.sorted : \A d \in Needed(svcs, st.sorted[i]) :
          \E j \in 1..(i - 1) : st.sorted[j] = d

LEMMA RoundFirst ==
    ASSUME NEW T, NEW svcs \in Seq(T), IsInjective(Named(svcs)), NEW st,
           st.queue = First(svcs), st.degree = Degrees(svcs), st.sorted = << >>
    PROVE  Round(svcs, st)
<1>1. /\ st.sorted \in Seq(NamesOf(svcs)) /\ IsInjective(st.sorted)
      /\ ToSet(st.sorted) = {} /\ DOMAIN st.sorted = {}
  BY DEF IsInjective, ToSet
<1>2. \A n \in NamesOf(svcs) : Needed(svcs, n) \ ToSet(st.sorted) = Needed(svcs, n)
  BY <1>1
<1>3. \A n \in NamesOf(svcs) :
         n \in ToSet(st.queue) <=> Needed(svcs, n) \subseteq ToSet(st.sorted)
  BY <1>1, FirstIs
<1> QED BY <1>1, <1>2, <1>3, FirstIs, DegreesAre DEF Round

LEMMA PopQueue ==
    ASSUME NEW T, NEW svcs \in Seq(T), IsInjective(Named(svcs)), NEW st,
           Round(svcs, st), st.queue # << >>, NEW next, next = Head(st.queue)
    PROVE  /\ next \in NamesOf(svcs) /\ next \notin ToSet(st.sorted)
           /\ next \in ToSet(st.queue)
           /\ Tail(st.queue) \in Seq(NamesOf(svcs)) /\ IsInjective(Tail(st.queue))
           /\ ToSet(Tail(st.queue)) = ToSet(st.queue) \ {next}
<1> DEFINE q == st.queue
<1>1. q \in Seq(NamesOf(svcs)) /\ IsInjective(q) /\ ToSet(q) \cap ToSet(st.sorted) = {}
  BY DEF Round
<1>2. /\ q # << >> /\ next = Head(q)
  OBVIOUS
<1> HIDE DEF q
<1>3. /\ Len(q) \in Nat /\ Len(q) > 0 /\ DOMAIN q = 1..Len(q) /\ q[1] = next
      /\ Tail(q) \in Seq(NamesOf(svcs)) /\ Len(Tail(q)) = Len(q) - 1
      /\ DOMAIN Tail(q) = 1..(Len(q) - 1)
      /\ \A i \in 1..(Len(q) - 1) : Tail(q)[i] = q[i + 1]
  BY <1>1, <1>2
<1>4. next \in ToSet(q) /\ next \in NamesOf(svcs)
  BY <1>1, <1>2, <1>3 DEF ToSet
<1>5. IsInjective(Tail(q))
  <2> SUFFICES ASSUME NEW a \in 1..(Len(q) - 1), NEW b \in 1..(Len(q) - 1),
                      Tail(q)[a] = Tail(q)[b]
               PROVE  a = b
    BY <1>3 DEF IsInjective
  <2>1. q[a + 1] = q[b + 1] /\ a + 1 \in DOMAIN q /\ b + 1 \in DOMAIN q
    BY <1>3
  <2>2. a + 1 = b + 1
    BY <1>1, <2>1 DEF IsInjective
  <2> QED BY <2>2
<1>6. ASSUME NEW x \in ToSet(Tail(q)) PROVE x \in ToSet(q) \ {next}
  <2>1. PICK i \in 1..(Len(q) - 1) : x = q[i + 1]
    BY <1>3 DEF ToSet
  <2>2. i + 1 \in DOMAIN q /\ i + 1 # 1 /\ 1 \in DOMAIN q
    BY <1>3
  <2>3. x # next
    BY <1>1, <1>3, <2>1, <2>2 DEF IsInjective
  <2> QED BY <2>1, <2>2, <2>3 DEF ToSet
<1>7. ASSUME NEW x \in ToSet(q) \ {next} PROVE x \in ToSet(Tail(q))
  <2>1. PICK i \in 1..Len(q) : x = q[i]
    BY <1>3 DEF ToSet
  <2>2. i - 1 \in 1..(Len(q) - 1) /\ (i - 1) + 1 = i
    BY <1>3, <2>1
  <2>3. Tail(q)[i - 1] = x
    BY <1>3, <2>1, <2>2
  <2> QED BY <1>3, <2>2, <2>3 DEF ToSet
<1>8. ToSet(Tail(q)) = ToSet(q) \ {next}
  BY <1>6, <1>7
<1> QED BY <1>1, <1>3, <1>4, <1>5, <1>8 DEF q

\* One that is appended to what is sorted.
LEMMA Appended ==
    ASSUME NEW N, NEW s \in Seq(N), IsInjective(s), NEW x \in N, x \notin ToSet(s)
    PROVE  /\ Append(s, x) \in Seq(N) /\ IsInjective(Append(s, x))
           /\ ToSet(Append(s, x)) = ToSet(s) \cup {x}
           /\ Len(Append(s, x)) = Len(s) + 1 /\ DOMAIN Append(s, x) = 1..(Len(s) + 1)
           /\ \A i \in 1..Len(s) : Append(s, x)[i] = s[i]
           /\ Append(s, x)[Len(s) + 1] = x
<1>1. Len(s) \in Nat /\ DOMAIN s = 1..Len(s)
  OBVIOUS
<1>2. /\ Append(s, x) \in Seq(N)
      /\ Len(Append(s, x)) = Len(s) + 1 /\ DOMAIN Append(s, x) = 1..(Len(s) + 1)
      /\ \A i \in 1..Len(s) : Append(s, x)[i] = s[i]
      /\ Append(s, x)[Len(s) + 1] = x
  OBVIOUS
<1>3. \A i \in 1..Len(s) : s[i] # x
  BY <1>1 DEF ToSet
<1>4. \A i \in 1..(Len(s) + 1) : i \in 1..Len(s) \/ i = Len(s) + 1
  BY <1>1
<1>5. IsInjective(Append(s, x))
  <2> SUFFICES ASSUME NEW a \in 1..(Len(s) + 1), NEW b \in 1..(Len(s) + 1),
                      Append(s, x)[a] = Append(s, x)[b]
               PROVE  a = b
    BY <1>2 DEF IsInjective
  <2>1. CASE a \in 1..Len(s) /\ b \in 1..Len(s)
    BY <1>1, <1>2, <2>1 DEF IsInjective
  <2>2. CASE a = Len(s) + 1 /\ b = Len(s) + 1
    BY <2>2
  <2> QED BY <1>2, <1>3, <1>4, <2>1, <2>2
<1>6. ToSet(Append(s, x)) = ToSet(s) \cup {x}
  <2>1. \A y \in ToSet(Append(s, x)) : y \in ToSet(s) \cup {x}
    BY <1>1, <1>2, <1>4 DEF ToSet
  <2>2. \A y \in ToSet(s) : y \in ToSet(Append(s, x))
    <3>1. \A i \in 1..Len(s) : i \in 1..(Len(s) + 1)
      BY <1>1
    <3> QED BY <1>1, <1>2, <3>1 DEF ToSet
  <2>3. x \in ToSet(Append(s, x))
    BY <1>1, <1>2 DEF ToSet
  <2> QED BY <2>1, <2>2, <2>3
<1> QED BY <1>2, <1>5, <1>6

\* Two sequences with nothing in common.
LEMMA Joined ==
    ASSUME NEW N, NEW s \in Seq(N), NEW t \in Seq(N)
    PROVE  /\ s \o t \in Seq(N)
           /\ ToSet(s \o t) = ToSet(s) \cup ToSet(t)
           /\ DOMAIN (s \o t) = 1..(Len(s) + Len(t))
           /\ \A i \in DOMAIN s : i \in DOMAIN (s \o t) /\ (s \o t)[i] = s[i]
           /\ IsInjective(s) /\ IsInjective(t) /\ ToSet(s) \cap ToSet(t) = {}
                => IsInjective(s \o t)
<1> DEFINE u == s \o t
<1>1. Len(s) \in Nat /\ DOMAIN s = 1..Len(s) /\ Len(t) \in Nat /\ DOMAIN t = 1..Len(t)
  OBVIOUS
<1>2. /\ u \in Seq(N) /\ Len(u) = Len(s) + Len(t) /\ DOMAIN u = 1..(Len(s) + Len(t))
      /\ \A i \in 1..(Len(s) + Len(t)) :
            u[i] = IF i <= Len(s) THEN s[i] ELSE t[i - Len(s)]
  BY ConcatProperties
<1> HIDE DEF u
<1>3. \A i \in 1..Len(s) : i \in 1..(Len(s) + Len(t)) /\ u[i] = s[i]
  BY <1>1, <1>2
<1>4. \A i \in 1..Len(t) :
         Len(s) + i \in 1..(Len(s) + Len(t)) /\ u[Len(s) + i] = t[i]
  <2> SUFFICES ASSUME NEW i \in 1..Len(t)
               PROVE  Len(s) + i \in 1..(Len(s) + Len(t)) /\ u[Len(s) + i] = t[i]
    OBVIOUS
  <2>1. /\ Len(s) + i \in 1..(Len(s) + Len(t)) /\ ~(Len(s) + i <= Len(s))
        /\ Len(s) + i - Len(s) = i
    BY <1>1
  <2> QED BY <1>2, <2>1
<1>5. \A i \in 1..(Len(s) + Len(t)) : \/ i \in 1..Len(s) /\ u[i] = s[i]
                                      \/ i - Len(s) \in 1..Len(t) /\ u[i] = t[i - Len(s)]
  BY <1>1, <1>2
<1>6. ToSet(u) = ToSet(s) \cup ToSet(t)
  <2>1. \A x \in ToSet(u) : x \in ToSet(s) \cup ToSet(t)
    BY <1>1, <1>2, <1>5 DEF ToSet
  <2>2. \A x \in ToSet(s) : x \in ToSet(u)
    BY <1>1, <1>2, <1>3 DEF ToSet
  <2>3. ASSUME NEW x \in ToSet(t) PROVE x \in ToSet(u)
    <3>1. PICK i \in 1..Len(t) : x = t[i]
      BY <1>1 DEF ToSet
    <3>2. Len(s) + i \in DOMAIN u /\ u[Len(s) + i] = x
      BY <1>2, <1>4, <3>1
    <3> QED BY <3>2 DEF ToSet
  <2> QED BY <2>1, <2>2, <2>3
<1>7. ASSUME IsInjective(s), IsInjective(t), ToSet(s) \cap ToSet(t) = {}
      PROVE  IsInjective(u)
  <2>1. \A i \in 1..Len(s), j \in 1..Len(t) : s[i] # t[j]
    BY <1>1, <1>7 DEF ToSet
  <2> SUFFICES ASSUME NEW a \in 1..(Len(s) + Len(t)), NEW b \in 1..(Len(s) + Len(t)),
                      u[a] = u[b]
               PROVE  a = b
    BY <1>2 DEF IsInjective
  <2>2. CASE a \in 1..Len(s) /\ b \in 1..Len(s)
    BY <1>1, <1>3, <1>7, <2>2 DEF IsInjective
  <2>3. CASE /\ a - Len(s) \in 1..Len(t) /\ u[a] = t[a - Len(s)]
             /\ b - Len(s) \in 1..Len(t) /\ u[b] = t[b - Len(s)]
    <3>1. a - Len(s) = b - Len(s)
      BY <1>1, <1>7, <2>3 DEF IsInjective
    <3> QED BY <1>1, <3>1
  <2> QED BY <1>5, <2>1, <2>2, <2>3
<1> QED BY <1>1, <1>2, <1>3, <1>6, <1>7 DEF u

\* What popping the name `next` changes, when it sets these free.
Releases(svcs, st, next, new, freed) ==
    /\ freed \in Seq(NamesOf(svcs))
    /\ IsInjective(freed)
    /\ ToSet(freed) = {d \in NamesOf(svcs) :
                          next \in Needed(svcs, d) /\ st.degree[d] = 1}
    /\ new.queue = Tail(st.queue) \o freed
    /\ new.sorted = Append(st.sorted, next)
    /\ DOMAIN new.degree = NamesOf(svcs)
    /\ \A n \in NamesOf(svcs) :
          new.degree[n] = IF next \in Needed(svcs, n) THEN st.degree[n] - 1
                          ELSE st.degree[n] - 0

LEMMA PopReleases ==
    ASSUME NEW T, NEW svcs \in Seq(T), IsInjective(Named(svcs)), NEW st,
           Round(svcs, st), st.queue # << >>, NEW next, next = Head(st.queue),
           NEW new, new = Pop(st, Dependents(svcs))
    PROVE  \E freed : Releases(svcs, st, next, new, freed)
<1> DEFINE waiting == Dependents(svcs)[next]
           free == {i \in DOMAIN waiting :
                       Cardinality({j \in 1..i : waiting[j] = waiting[i]})
                           = st.degree[waiting[i]]}
           at(n) == {i \in DOMAIN waiting : waiting[i] = n}
<1>1. next \in NamesOf(svcs)
  BY PopQueue
<1>2. /\ waiting \in Seq(NamesOf(svcs)) /\ IsInjective(waiting)
      /\ ToSet(waiting) = {d \in NamesOf(svcs) : next \in Needed(svcs, d)}
  BY <1>1, DependentsAre
<1>3. /\ new.queue = Tail(st.queue) \o Kept(waiting, free)
      /\ new.sorted = Append(st.sorted, next)
      /\ new.degree = [n \in DOMAIN st.degree |-> st.degree[n] - Cardinality(at(n))]
  BY DEF Pop
<1>4. DOMAIN st.degree = NamesOf(svcs)
  BY DEF Round
<1> HIDE DEF waiting
<1>5. DOMAIN waiting = 1..Len(waiting) /\ Len(waiting) \in Nat
  BY <1>2
<1>6. ASSUME NEW i \in DOMAIN waiting
      PROVE  Cardinality({j \in 1..i : waiting[j] = waiting[i]}) = 1
  <2>1. i \in 1..i /\ \A j \in 1..i : j \in DOMAIN waiting
    BY <1>5
  <2>2. {j \in 1..i : waiting[j] = waiting[i]} = {i}
    BY <1>2, <2>1 DEF IsInjective
  <2> QED BY <2>2, FS_Singleton
<1>7. free = {i \in DOMAIN waiting : st.degree[waiting[i]] = 1}
  BY <1>6
<1> HIDE DEF free
<1>8. /\ Kept(waiting, free) \in Seq(NamesOf(svcs)) /\ IsInjective(Kept(waiting, free))
      /\ ToSet(Kept(waiting, free)) = {waiting[i] : i \in free}
  <2>1. free \in SUBSET DOMAIN waiting
    BY <1>7
  <2> QED BY <1>2, <2>1, KeptIs
<1>9. {waiting[i] : i \in free}
         = {d \in NamesOf(svcs) : next \in Needed(svcs, d) /\ st.degree[d] = 1}
  <2>1. ASSUME NEW i \in free
        PROVE  waiting[i] \in {d \in NamesOf(svcs) :
                                  next \in Needed(svcs, d) /\ st.degree[d] = 1}
    <3>1. i \in DOMAIN waiting /\ st.degree[waiting[i]] = 1
      BY <1>7
    <3>2. waiting[i] \in ToSet(waiting)
      BY <3>1 DEF ToSet
    <3> QED BY <1>2, <3>1, <3>2
  <2>2. ASSUME NEW d \in NamesOf(svcs), next \in Needed(svcs, d), st.degree[d] = 1
        PROVE  d \in {waiting[i] : i \in free}
    <3>1. d \in ToSet(waiting)
      BY <1>2, <2>2
    <3>2. PICK i \in DOMAIN waiting : waiting[i] = d
      BY <3>1 DEF ToSet
    <3> QED BY <1>7, <2>2, <3>2
  <2> QED BY <2>1, <2>2
<1>10. ASSUME NEW n \in NamesOf(svcs)
       PROVE  Cardinality(at(n)) = IF next \in Needed(svcs, n) THEN 1 ELSE 0
  <2>1. CASE next \in Needed(svcs, n)
    <3>1. n \in ToSet(waiting)
      BY <1>2, <2>1
    <3>2. PICK i \in DOMAIN waiting : waiting[i] = n
      BY <3>1 DEF ToSet
    <3>3. at(n) = {i}
      BY <1>2, <3>2 DEF IsInjective
    <3> QED BY <2>1, <3>3, FS_Singleton
  <2>2. CASE next \notin Needed(svcs, n)
    <3>1. n \notin ToSet(waiting)
      BY <1>2, <2>2
    <3>2. at(n) = {}
      BY <3>1 DEF ToSet
    <3> QED BY <2>2, <3>2, FS_EmptySet
  <2> QED BY <2>1, <2>2
<1> HIDE DEF at
<1>11. /\ DOMAIN new.degree = NamesOf(svcs)
       /\ \A n \in NamesOf(svcs) : new.degree[n] = st.degree[n] - Cardinality(at(n))
  BY <1>3, <1>4
<1>12. \A n \in NamesOf(svcs) :
          new.degree[n] = IF next \in Needed(svcs, n) THEN st.degree[n] - 1
                          ELSE st.degree[n] - 0
  BY <1>10, <1>11
<1> QED BY <1>3, <1>8, <1>9, <1>11, <1>12 DEF Releases

LEMMA RoundPop ==
    ASSUME NEW T, NEW svcs \in Seq(T), IsInjective(Named(svcs)), NEW st,
           Round(svcs, st), st.queue # << >>, NEW next, next = Head(st.queue),
           NEW new, new = Pop(st, Dependents(svcs))
    PROVE  Round(svcs, new) /\ Len(new.sorted) = Len(st.sorted) + 1
<1>0. PICK freed : Releases(svcs, st, next, new, freed)
  BY PopReleases
<1>1. /\ freed \in Seq(NamesOf(svcs))
      /\ IsInjective(freed)
      /\ ToSet(freed) = {d \in NamesOf(svcs) :
                            next \in Needed(svcs, d) /\ st.degree[d] = 1}
      /\ new.queue = Tail(st.queue) \o freed
      /\ new.sorted = Append(st.sorted, next)
      /\ DOMAIN new.degree = NamesOf(svcs)
      /\ \A n \in NamesOf(svcs) :
            new.degree[n] = IF next \in Needed(svcs, n) THEN st.degree[n] - 1
                            ELSE st.degree[n] - 0
  BY <1>0 DEF Releases
<1> DEFINE popped == ToSet(st.sorted)
           queued == ToSet(st.queue)
           missing(n) == Needed(svcs, n) \ popped
<1>2. /\ next \in NamesOf(svcs) /\ next \notin popped /\ next \in queued
      /\ Tail(st.queue) \in Seq(NamesOf(svcs)) /\ IsInjective(Tail(st.queue))
      /\ ToSet(Tail(st.queue)) = queued \ {next}
  BY PopQueue
<1>3. /\ st.sorted \in Seq(NamesOf(svcs)) /\ IsInjective(st.sorted)
      /\ queued \cap popped = {}
      /\ \A n \in NamesOf(svcs) : st.degree[n] = Cardinality(missing(n))
      /\ \A n \in NamesOf(svcs) :
            n \in popped \cup queued <=> Needed(svcs, n) \subseteq popped
      /\ \A i \in DOMAIN st.sorted : \A d \in Needed(svcs, st.sorted[i]) :
            \E j \in 1..(i - 1) : st.sorted[j] = d
  BY DEF Round
<1>4. \A n \in NamesOf(svcs) :
         IsFiniteSet(missing(n)) /\ Needed(svcs, n) \subseteq NamesOf(svcs)
  BY NeededIs, FS_Difference
<1> HIDE DEF popped, queued
<1>5. /\ new.sorted \in Seq(NamesOf(svcs)) /\ IsInjective(new.sorted)
      /\ ToSet(new.sorted) = popped \cup {next}
      /\ Len(new.sorted) = Len(st.sorted) + 1
      /\ DOMAIN new.sorted = 1..(Len(st.sorted) + 1)
      /\ \A i \in 1..Len(st.sorted) : new.sorted[i] = st.sorted[i]
      /\ new.sorted[Len(st.sorted) + 1] = next
  BY <1>1, <1>2, <1>3, Appended DEF popped
<1>6. ASSUME NEW n \in NamesOf(svcs), next \in Needed(svcs, n)
      PROVE  st.degree[n] = 1 <=> Needed(svcs, n) \subseteq popped \cup {next}
  <2>1. next \in missing(n)
    BY <1>2, <1>6
  <2>2. st.degree[n] = 1 <=> \E x : missing(n) = {x}
    BY <1>3, <1>4, FS_Singleton
  <2>3. (\E x : missing(n) = {x}) <=> missing(n) = {next}
    BY <2>1
  <2>4. missing(n) = {next} <=> Needed(svcs, n) \subseteq popped \cup {next}
    BY <2>1
  <2> QED BY <2>2, <2>3, <2>4
<1>7. \A d \in ToSet(freed) : d \in NamesOf(svcs) /\ d \notin popped /\ d \notin queued
  BY <1>1, <1>2, <1>3
<1>8. /\ new.queue \in Seq(NamesOf(svcs)) /\ IsInjective(new.queue)
      /\ ToSet(new.queue) = (queued \ {next}) \cup ToSet(freed)
  <2>1. ToSet(Tail(st.queue)) \cap ToSet(freed) = {}
    BY <1>2, <1>7
  <2>2. /\ Tail(st.queue) \in Seq(NamesOf(svcs)) /\ freed \in Seq(NamesOf(svcs))
        /\ IsInjective(Tail(st.queue)) /\ IsInjective(freed)
        /\ new.queue = Tail(st.queue) \o freed
        /\ ToSet(Tail(st.queue)) = queued \ {next}
    BY <1>1, <1>2
  <2>3. PICK rest : rest = Tail(st.queue)
    OBVIOUS
  <2>4. rest \in Seq(NamesOf(svcs)) /\ freed \in Seq(NamesOf(svcs))
    BY <2>2, <2>3
  <2>5. rest \o freed \in Seq(NamesOf(svcs))
    BY <2>4, Joined
  <2>6. ToSet(rest \o freed) = ToSet(rest) \cup ToSet(freed)
    BY <2>4, Joined
  <2>7. IsInjective(rest \o freed)
    BY <2>1, <2>2, <2>3, <2>4, Joined
  <2> QED BY <2>2, <2>3, <2>5, <2>6, <2>7
<1>9. ToSet(new.queue) \cap ToSet(new.sorted) = {}
  BY <1>2, <1>3, <1>5, <1>7, <1>8
<1>10. ASSUME NEW n \in NamesOf(svcs)
       PROVE  n \in ToSet(new.sorted) \cup ToSet(new.queue)
                  <=> Needed(svcs, n) \subseteq ToSet(new.sorted)
  <2>1. n \in ToSet(new.sorted) \cup ToSet(new.queue)
            <=> n \in popped \cup queued \/ n \in ToSet(freed)
    BY <1>2, <1>5, <1>8
  <2>2. n \in ToSet(freed)
            <=> next \in Needed(svcs, n) /\ Needed(svcs, n) \subseteq popped \cup {next}
    BY <1>1, <1>6
  <2>3. Needed(svcs, n) \subseteq popped \cup {next}
            <=> \/ Needed(svcs, n) \subseteq popped
                \/ next \in Needed(svcs, n) /\ Needed(svcs, n) \subseteq popped \cup {next}
    OBVIOUS
  <2> QED BY <1>3, <1>5, <2>1, <2>2, <2>3
<1>11. ASSUME NEW n \in NamesOf(svcs)
       PROVE  new.degree[n] = Cardinality(Needed(svcs, n) \ ToSet(new.sorted))
  <2>1. Needed(svcs, n) \ ToSet(new.sorted) = missing(n) \ {next}
    BY <1>5
  <2>2. Cardinality(missing(n) \ {next}) = IF next \in missing(n)
                                           THEN Cardinality(missing(n)) - 1
                                           ELSE Cardinality(missing(n))
    BY <1>4, FS_RemoveElement
  <2>3. next \in missing(n) <=> next \in Needed(svcs, n)
    BY <1>2
  <2>4. Cardinality(missing(n)) \in Nat /\ st.degree[n] = Cardinality(missing(n))
    BY <1>3, <1>4, FS_CardinalityType
  <2>5. new.degree[n] = IF next \in Needed(svcs, n) THEN st.degree[n] - 1
                        ELSE st.degree[n] - 0
    BY <1>1
  <2>6. CASE next \in Needed(svcs, n)
    BY <2>1, <2>2, <2>3, <2>4, <2>5, <2>6
  <2>7. CASE next \notin Needed(svcs, n)
    <3>1. new.degree[n] = st.degree[n] - 0 /\ missing(n) \ {next} = missing(n)
      BY <2>3, <2>5, <2>7
    <3>2. new.degree[n] = st.degree[n]
      BY <2>4, <3>1
    <3> QED BY <2>1, <2>4, <3>1, <3>2
  <2> QED BY <2>6, <2>7
<1>12. ASSUME NEW i \in DOMAIN new.sorted, NEW d \in Needed(svcs, new.sorted[i])
       PROVE  \E j \in 1..(i - 1) : new.sorted[j] = d
  <2>1. Len(st.sorted) \in Nat /\ DOMAIN st.sorted = 1..Len(st.sorted)
    BY <1>3
  <2>2. CASE i \in 1..Len(st.sorted)
    <3>1. PICK j \in 1..(i - 1) : st.sorted[j] = d
      BY <1>3, <1>5, <2>1, <2>2
    <3>2. j \in 1..Len(st.sorted)
      BY <2>1, <2>2
    <3> QED BY <1>5, <3>1, <3>2
  <2>3. CASE i = Len(st.sorted) + 1
    <3>1. d \in Needed(svcs, next) /\ Needed(svcs, next) \subseteq popped
      BY <1>2, <1>3, <1>5, <2>3
    <3>2. PICK j \in 1..Len(st.sorted) : st.sorted[j] = d
      BY <2>1, <3>1 DEF popped, ToSet
    <3>3. i - 1 = Len(st.sorted)
      BY <2>1, <2>3
    <3> QED BY <1>5, <3>2, <3>3
  <2> QED BY <1>5, <2>1, <2>2, <2>3
<1> HIDE DEF missing
<1> QED BY <1>1, <1>5, <1>8, <1>9, <1>10, <1>11, <1>12 DEF Round

Runs(f, svcs, N) ==
    f = [k \in 0..N |->
            IF k = 0 THEN Unsorted(svcs)
            ELSE IF f[k - 1].queue = << >> THEN f[k - 1]
            ELSE Pop(f[k - 1], Dependents(svcs))]

LEMMA RunsExist ==
    ASSUME NEW svcs, NEW N \in Nat PROVE \E f : Runs(f, svcs, N)
<1> DEFINE step(st) == IF st.queue = << >> THEN st ELSE Pop(st, Dependents(svcs))
           P == {m \in Nat : \E f : Runs(f, svcs, m)}
<1>0. \A f, m : Runs(f, svcs, m) <=>
                    f = [k \in 0..m |-> IF k = 0 THEN Unsorted(svcs) ELSE step(f[k - 1])]
  BY DEF Runs
<1> HIDE DEF step
<1>1. 0 \in P
  <2> DEFINE f == [k \in 0..0 |-> Unsorted(svcs)]
  <2>1. f = [k \in 0..0 |-> IF k = 0 THEN Unsorted(svcs) ELSE step(f[k - 1])]
    OBVIOUS
  <2> QED BY <1>0, <2>1
<1>2. ASSUME NEW m \in 1..N, m - 1 \in P PROVE m \in P
  <2>1. PICK f : Runs(f, svcs, m - 1)
    BY <1>2
  <2>2. f = [k \in 0..(m - 1) |-> IF k = 0 THEN Unsorted(svcs) ELSE step(f[k - 1])]
    BY <1>0, <2>1
  <2>3. \A k \in 0..(m - 1) : f[k] = IF k = 0 THEN Unsorted(svcs) ELSE step(f[k - 1])
    BY <2>2
  <2> DEFINE h == [k \in 0..m |-> IF k = m THEN step(f[m - 1]) ELSE f[k]]
  <2>4. ASSUME NEW k \in 0..m
        PROVE  h[k] = IF k = 0 THEN Unsorted(svcs) ELSE step(h[k - 1])
    <3>1. CASE k = m
      BY <3>1
    <3>2. CASE k # m
      <4>1. k \in 0..(m - 1) /\ h[k] = f[k]
        BY <3>2
      <4>2. k # 0 => h[k - 1] = f[k - 1]
        BY <4>1
      <4> QED BY <2>3, <4>1, <4>2
    <3> QED BY <3>1, <3>2
  <2>5. h = [k \in 0..m |-> h[k]]
    OBVIOUS
  <2> HIDE DEF h
  <2>6. h = [k \in 0..m |-> IF k = 0 THEN Unsorted(svcs) ELSE step(h[k - 1])]
    BY <2>4, <2>5
  <2>7. m \in Nat
    OBVIOUS
  <2> QED BY <1>0, <2>6, <2>7
<1>3. \A n \in 0..N : n \in P
  <2> HIDE DEF P
  <2> QED BY <1>1, <1>2, UpTo
<1> QED BY <1>3

\* As many rounds as there are names, and the queue is empty.
LEMMA KahnIsRight ==
    ASSUME NEW T, NEW svcs \in Seq(T), IsInjective(Named(svcs))
    PROVE  Round(svcs, Kahn(svcs)) /\ ToSet(Kahn(svcs).queue) = {}
<1> DEFINE N == Len(svcs)
           f == CHOOSE g : Runs(g, svcs, N)
           P == {k \in 0..N : /\ Round(svcs, f[k])
                              /\ f[k].queue = << >> \/ Len(f[k].sorted) = k}
<1>1. Kahn(svcs) = f[N] /\ N \in Nat
  BY DEF Kahn, Runs
<1>2. Runs(f, svcs, N)
  BY <1>1, RunsExist
<1> HIDE DEF N, f
<1>3. \A k \in 0..N :
         f[k] = IF k = 0 THEN Unsorted(svcs)
                ELSE IF f[k - 1].queue = << >> THEN f[k - 1]
                ELSE Pop(f[k - 1], Dependents(svcs))
  BY <1>2 DEF Runs
<1>4. 0 \in P
  <2>0. 0 \in 0..N
    BY <1>1
  <2>1. f[0] = Unsorted(svcs)
    BY <1>3, <2>0
  <2>2. /\ f[0].queue = First(svcs) /\ f[0].degree = Degrees(svcs)
        /\ f[0].sorted = << >>
    BY <2>1 DEF Unsorted
  <2>3. Round(svcs, f[0])
    BY <2>2, RoundFirst
  <2>4. Len(f[0].sorted) = 0
    BY <2>2
  <2> QED BY <1>1, <2>3, <2>4
<1>5. ASSUME NEW k \in 1..N, k - 1 \in P PROVE k \in P
  <2>1. k \in 0..N /\ k # 0 /\ k - 1 \in Nat /\ (k - 1) + 1 = k
    BY <1>1
  <2>2. /\ Round(svcs, f[k - 1])
        /\ f[k - 1].queue = << >> \/ Len(f[k - 1].sorted) = k - 1
    BY <1>5
  <2>3. CASE f[k - 1].queue = << >>
    <3>1. f[k] = f[k - 1]
      BY <1>3, <2>1, <2>3
    <3> QED BY <2>1, <2>2, <2>3, <3>1
  <2>4. CASE f[k - 1].queue # << >>
    <3>1. f[k] = Pop(f[k - 1], Dependents(svcs))
      BY <1>3, <2>1, <2>4
    <3>2. Round(svcs, f[k]) /\ Len(f[k].sorted) = Len(f[k - 1].sorted) + 1
      BY <2>2, <2>4, <3>1, RoundPop
    <3> QED BY <2>1, <2>2, <2>4, <3>2
  <2> QED BY <2>3, <2>4
<1>6. N \in P
  <2> HIDE DEF P
  <2>1. \A k \in 0..N : k \in P
    BY <1>1, <1>4, <1>5, UpTo
  <2> QED BY <1>1, <2>1
<1> DEFINE q == Kahn(svcs).queue
           s == Kahn(svcs).sorted
           names == NamesOf(svcs)
<1>7. Round(svcs, Kahn(svcs)) /\ (q = << >> \/ Len(s) = N)
  BY <1>1, <1>6
<1>8. /\ s \in Seq(names) /\ IsInjective(s)
      /\ q \in Seq(names) /\ ToSet(q) \cap ToSet(s) = {}
  BY <1>7 DEF Round
<1>9. IsFiniteSet(names) /\ Cardinality(names) = N
  BY NamesAre DEF N
<1> HIDE DEF q, s, names
<1>10. ASSUME Len(s) = N PROVE ToSet(q) = {}
  <2> DEFINE D == 1..N
  <2>1. DOMAIN s = D /\ s \in [D -> names]
    BY <1>8, <1>10
  <2>2. IsFiniteSet(D) /\ Cardinality(D) = N
    BY <1>1, FS_Interval
  <2> HIDE DEF D
  <2>3. s \in Injection(D, names)
    BY <1>8, <2>1 DEF Injection
  <2>4. s \in Surjection(D, names)
    BY <1>9, <2>2, <2>3, FS_Injection
  <2>5. names \subseteq ToSet(s)
    BY <2>1, <2>4 DEF Surjection, ToSet
  <2>6. \A i \in DOMAIN q : q[i] \in names
    BY <1>8
  <2>7. ToSet(q) \subseteq names
    BY <2>6 DEF ToSet
  <2> QED BY <1>8, <2>5, <2>7
<1>11. q = << >> => ToSet(q) = {}
  BY DEF ToSet
<1> QED BY <1>7, <1>10, <1>11 DEF q

\* The services themselves: first those that were sorted, by name.
LEMMA TopoSortIsRight ==
    ASSUME NEW T, NEW svcs \in Seq(T), IsInjective(Named(svcs))
    PROVE  /\ IsInjective(TopoSort(svcs)) /\ ToSet(TopoSort(svcs)) = ToSet(svcs)
           /\ \A i \in DOMAIN Kahn(svcs).sorted :
                 /\ i \in DOMAIN TopoSort(svcs)
                 /\ TopoSort(svcs)[i][2] = Kahn(svcs).sorted[i]
<1> DEFINE sorted == Kahn(svcs).sorted
           last(n, i) == svcs[i][2] = n /\ \A j \in (i + 1)..Len(svcs) : svcs[j][2] # n
           called(n) == svcs[CHOOSE i \in DOMAIN svcs : last(n, i)]
           all == ToSet(svcs)
           one == [i \in DOMAIN sorted |-> called(sorted[i])]
           unsorted == {i \in DOMAIN svcs : svcs[i][2] \notin ToSet(sorted)}
           two == Kept(svcs, unsorted)
<1>1. TopoSort(svcs) = one \o two
  BY DEF TopoSort
<1>2. sorted \in Seq(NamesOf(svcs)) /\ IsInjective(sorted)
  BY KahnIsRight DEF Round
<1>3. ASSUME NEW n \in NamesOf(svcs) PROVE called(n) \in all /\ called(n)[2] = n
  <2>1. PICK i \in DOMAIN svcs : svcs[i][2] = n
    BY NamesAre
  <2>2. \A j \in (i + 1)..Len(svcs) : j \in DOMAIN svcs /\ j # i
    BY NamesAre
  <2>3. last(n, i)
    BY <2>1, <2>2, NamesAre
  <2>4. \E j \in DOMAIN svcs : last(n, j)
    BY <2>1, <2>3
  <2>5. \A j \in DOMAIN svcs : last(n, j) => svcs[j][2] = n
    OBVIOUS
  <2> HIDE DEF last
  <2>6. (CHOOSE j \in DOMAIN svcs : last(n, j)) \in DOMAIN svcs
        /\ svcs[CHOOSE j \in DOMAIN svcs : last(n, j)][2] = n
    BY <2>4, <2>5
  <2> QED BY <2>6 DEF ToSet
<1>4. svcs \in Seq(all) /\ IsInjective(svcs)
  <2>1. /\ DOMAIN svcs = 1..Len(svcs) /\ Len(svcs) \in Nat
        /\ svcs = [i \in 1..Len(svcs) |-> svcs[i]]
    OBVIOUS
  <2>2. \A i \in 1..Len(svcs) : svcs[i] \in all
    BY <2>1 DEF ToSet
  <2>3. svcs \in [1..Len(svcs) -> all]
    BY <2>1, <2>2
  <2>4. IsInjective(svcs)
    BY NamesAre DEF IsInjective
  <2> QED BY <2>1, <2>3, <2>4
<1> HIDE DEF sorted, called, all
<1>5. DOMAIN sorted = 1..Len(sorted) /\ Len(sorted) \in Nat
      /\ \A i \in DOMAIN sorted : sorted[i] \in NamesOf(svcs)
  BY <1>2
<1>6. /\ DOMAIN one = 1..Len(sorted)
      /\ \A i \in DOMAIN sorted : one[i] \in all /\ one[i][2] = sorted[i]
  BY <1>3, <1>5
<1>7. one \in Seq(all) /\ Len(one) = Len(sorted)
  <2>1. one \in [1..Len(sorted) -> all]
    BY <1>5, <1>6
  <2> QED BY <1>5, <2>1
<1> HIDE DEF one
<1>8. IsInjective(one)
  BY <1>2, <1>5, <1>6 DEF IsInjective
<1>9. /\ two \in Seq(all) /\ IsInjective(two)
      /\ ToSet(two) = {svcs[i] : i \in unsorted}
  <2>1. unsorted \in SUBSET DOMAIN svcs
    OBVIOUS
  <2> HIDE DEF unsorted
  <2> QED BY <1>4, <2>1, KeptIs
<1>10. \A x \in ToSet(one) : x \in all /\ x[2] \in ToSet(sorted)
  BY <1>5, <1>6 DEF ToSet
<1>11. \A x \in ToSet(two) : x \in all /\ x[2] \notin ToSet(sorted)
  <2>1. \A i \in DOMAIN svcs : svcs[i] \in all
    BY DEF all, ToSet
  <2> QED BY <1>9, <2>1
<1>12. ASSUME NEW x \in all PROVE x \in ToSet(one) \cup ToSet(two)
  <2>1. PICK i \in DOMAIN svcs : svcs[i] = x
    BY DEF all, ToSet
  <2>2. CASE x[2] \notin ToSet(sorted)
    BY <1>9, <2>1, <2>2
  <2>3. CASE x[2] \in ToSet(sorted)
    <3>1. PICK k \in DOMAIN sorted : sorted[k] = x[2]
      BY <2>3 DEF ToSet
    <3>2. one[k] \in all /\ one[k][2] = x[2]
      BY <1>6, <3>1
    <3>3. PICK j \in DOMAIN svcs : svcs[j] = one[k]
      BY <3>2 DEF all, ToSet
    <3>4. j = i
      BY <2>1, <3>2, <3>3, NamesAre
    <3>5. one[k] = x /\ k \in DOMAIN one
      BY <1>5, <1>6, <2>1, <3>1, <3>3, <3>4
    <3> QED BY <3>5 DEF ToSet
  <2> QED BY <2>2, <2>3
<1> HIDE DEF two, unsorted
<1>13. IsInjective(one \o two)
  <2>1. ToSet(one) \cap ToSet(two) = {}
    BY <1>10, <1>11
  <2> QED BY <1>7, <1>8, <1>9, <2>1, Joined
<1>14. ToSet(one \o two) = all
  <2>1. ToSet(one \o two) = ToSet(one) \cup ToSet(two)
    BY <1>7, <1>9, Joined
  <2> QED BY <1>10, <1>11, <1>12, <2>1
<1>15. \A i \in DOMAIN sorted :
          i \in DOMAIN (one \o two) /\ (one \o two)[i][2] = sorted[i]
  <2>1. \A i \in DOMAIN one : i \in DOMAIN (one \o two) /\ (one \o two)[i] = one[i]
    BY <1>7, <1>9, Joined
  <2> QED BY <1>5, <1>6, <2>1
<1> QED BY <1>1, <1>13, <1>14, <1>15 DEF sorted, all

\* What DependenciesFirst says of an order.
DependenciesFirstIn(order) ==
    LET distinct == \A s, o \in scan.services : s[2] = o[2] => s = o
        place(s) == CHOOSE i \in DOMAIN order : order[i] = s
    IN
    distinct =>
        /\ IsInjective(order) /\ ToSet(order) = scan.services
        /\ \A e \in Dependency : Acyclic(e[1]) => place(e[2]) < place(e[1])

\* A service that leads to no cycle is sorted, since some service that is not
\* needs none of the others that are not.
LEMMA AcyclicIsSorted ==
    ASSUME NEW T, NEW svcs \in Seq(T), IsInjective(Named(svcs)),
           ToSet(svcs) = scan.services, NEW s \in scan.services, Acyclic(s)
    PROVE  s[2] \in ToSet(Kahn(svcs).sorted)
<1> DEFINE popped == ToSet(Kahn(svcs).sorted)
           on == {x \in scan.services : x[2] \notin popped}
<1>1. \A n \in NamesOf(svcs) : Needed(svcs, n) \subseteq popped => n \in popped
  BY KahnIsRight DEF Round
<1> SUFFICES ASSUME s[2] \notin popped PROVE FALSE
  OBVIOUS
<1> HIDE DEF popped
<1>2. PICK x \in on : \A d \in on : <<x, d>> \notin Dependency
  <2>1. on \in SUBSET scan.services /\ s \in on
    OBVIOUS
  <2> HIDE DEF on
  <2> QED BY <2>1 DEF Acyclic
<1>3. PICK i \in DOMAIN svcs : svcs[i] = x
  BY DEF ToSet
<1>4. x[2] \in NamesOf(svcs) /\ Needed(svcs, x[2]) = NamesOf(svcs) \cap NeedsOf(x)
  BY <1>3, NamesAre, NeededIs
<1>5. ASSUME NEW d \in Needed(svcs, x[2]) PROVE d \in popped
  <2>1. PICK j \in DOMAIN svcs : svcs[j][2] = d
    BY <1>4, NamesAre
  <2>2. svcs[j] \in scan.services
    BY <2>1 DEF ToSet
  <2>3. <<x, svcs[j]>> \in Dependency
    BY <1>4, <2>1, <2>2 DEF Dependency
  <2> QED BY <1>2, <2>1, <2>2, <2>3
<1> QED BY <1>1, <1>2, <1>4, <1>5

LEMMA OrderIsRight ==
    ASSUME IsFiniteSet(scan.services), NEW svcs \in SetToSeqs(scan.services)
    PROVE  DependenciesFirstIn(TopoSort(svcs))
<1> SUFFICES ASSUME \A s, o \in scan.services : s[2] = o[2] => s = o
             PROVE  LET place(s) == CHOOSE i \in DOMAIN TopoSort(svcs) :
                                       TopoSort(svcs)[i] = s
                    IN  /\ IsInjective(TopoSort(svcs))
                        /\ ToSet(TopoSort(svcs)) = scan.services
                        /\ \A e \in Dependency :
                              Acyclic(e[1]) => place(e[2]) < place(e[1])
  BY DEF DependenciesFirstIn
<1> DEFINE D == 1..Cardinality(scan.services)
           order == TopoSort(svcs)
           sorted == Kahn(svcs).sorted
           place(s) == CHOOSE i \in DOMAIN order : order[i] = s
<1>1. Cardinality(scan.services) \in Nat
  BY FS_CardinalityType
<1>2. svcs \in [D -> scan.services] /\ \A i, j \in D : i # j => svcs[i] # svcs[j]
  BY DEF SetToSeqs
<1>3. IsFiniteSet(D) /\ Cardinality(D) = Cardinality(scan.services)
  BY <1>1, FS_Interval
<1>4. svcs \in Seq(scan.services)
  BY <1>1, <1>2
<1> HIDE DEF D
<1>5. ToSet(svcs) = scan.services
  <2>1. svcs \in Injection(D, scan.services)
    BY <1>2 DEF Injection, IsInjective
  <2>2. svcs \in Surjection(D, scan.services)
    BY <1>3, <2>1, FS_Injection
  <2> QED BY <1>2, <2>2 DEF Surjection, ToSet
<1>6. IsInjective(Named(svcs))
  <2>1. /\ DOMAIN Named(svcs) = D
        /\ \A i \in D : Named(svcs)[i] = svcs[i][2] /\ svcs[i] \in scan.services
    BY <1>2 DEF Named
  <2> QED BY <1>2, <2>1 DEF IsInjective
<1>7. /\ IsInjective(order) /\ ToSet(order) = scan.services
      /\ \A i \in DOMAIN sorted : i \in DOMAIN order /\ order[i][2] = sorted[i]
  BY <1>4, <1>5, <1>6, TopoSortIsRight
<1>8. /\ sorted \in Seq(NamesOf(svcs))
      /\ \A i \in DOMAIN sorted : \A d \in Needed(svcs, sorted[i]) :
            \E j \in 1..(i - 1) : sorted[j] = d
  BY <1>4, <1>6, KahnIsRight DEF Round
<1> HIDE DEF order, sorted
<1>9. ASSUME NEW s \in scan.services, NEW i \in DOMAIN order, order[i] = s
      PROVE  place(s) = i
  <2>1. \A j \in DOMAIN order : order[j] = s => j = i
    BY <1>7, <1>9 DEF IsInjective
  <2> QED BY <1>9, <2>1
<1>10. \A i \in DOMAIN order : order[i] \in scan.services
  BY <1>7 DEF ToSet
<1>11. ASSUME NEW i \in DOMAIN sorted, NEW s \in scan.services, s[2] = sorted[i]
       PROVE  place(s) = i
  <2>1. i \in DOMAIN order /\ order[i] = s
    BY <1>7, <1>10, <1>11
  <2> QED BY <1>9, <2>1
<1> HIDE DEF place
<1>12. ASSUME NEW e \in Dependency, Acyclic(e[1])
       PROVE  place(e[2]) < place(e[1])
  <2>1. e[1] \in scan.services /\ e[2] \in scan.services /\ e[2][2] \in NeedsOf(e[1])
    BY DEF Dependency
  <2>2. e[1][2] \in ToSet(sorted)
    BY <1>4, <1>5, <1>6, <1>12, <2>1, AcyclicIsSorted DEF sorted
  <2>3. PICK i \in DOMAIN sorted : sorted[i] = e[1][2]
    BY <2>2 DEF ToSet
  <2>4. PICK k \in DOMAIN svcs : svcs[k] = e[1]
    BY <1>5, <2>1 DEF ToSet
  <2>5. PICK m \in DOMAIN svcs : svcs[m] = e[2]
    BY <1>5, <2>1 DEF ToSet
  <2>6. e[2][2] \in NamesOf(svcs)
    BY <1>4, <1>6, <2>5, NamesAre
  <2>7. e[2][2] \in Needed(svcs, sorted[i])
    BY <1>4, <1>6, <2>1, <2>3, <2>4, <2>6, NeededIs
  <2>8. PICK j \in 1..(i - 1) : sorted[j] = e[2][2]
    BY <1>8, <2>7
  <2>9. DOMAIN sorted = 1..Len(sorted) /\ Len(sorted) \in Nat
    BY <1>8
  <2>10. j \in DOMAIN sorted /\ j < i
    BY <2>8, <2>9
  <2>11. place(e[1]) = i /\ place(e[2]) = j
    BY <1>11, <2>1, <2>3, <2>8, <2>10
  <2> QED BY <2>10, <2>11
<1> QED BY <1>7, <1>12 DEF order, place

-----------------------------------------------------------------------------
(* The order, while the extractor holds it.                                *)

\* A scan has finitely many services, and the order is one of them.
OrderInv ==
    /\ InStage /\ IsFiniteSet(scan.services)
    /\ sre.at = "iac to cloud" /\ "services" \in sre.domains
           => DependenciesFirstIn(sre.order)

\* As many services as manifests that were read, at the most.
LEMMA FoundIsFinite ==
    ASSUME NEW t, NEW changed
    PROVE  IsFiniteSet({ServiceOf(t, m) : m \in ManifestsToRead(t, changed)})
<1> DEFINE M == ManifestsToRead(t, changed)
           F == {ServiceOf(t, m) : m \in M}
           f == [m \in M |-> ServiceOf(t, m)]
<1>1. IsFiniteSet(M)
  <2>1. M \in SUBSET Manifests
    BY DEF ManifestsToRead
  <2> QED BY <2>1, FilesAssumption, FS_Subset
<1>2. f \in Surjection(M, F)
  <2> HIDE DEF M
  <2> QED BY DEF Surjection
<1> HIDE DEF f, F, M
<1>3. IsFiniteSet(F)
  BY <1>1, <1>2, FS_Surjection
<1> QED BY <1>3 DEF F, M

LEMMA ServicesStayFinite ==
    ASSUME IsFiniteSet(scan.services), DOMAIN scan = DOMAIN NoScan,
           CodeEnvironment \/ CodeStep
    PROVE  IsFiniteSet(scan'.services)
<1>1. IsFiniteSet({})
  BY FS_EmptySet
<1>2. CASE CodeEnvironment
  <2>1. scan'.services = scan.services
    BY <1>2 DEF CodeEnvironment, Pull, CloneAgain, MayMove, NoScan
  <2> QED BY <2>1
<1>3. CASE \E i, l, q \in BOOLEAN : StartScan(i, l, q)
  <2>1. scan'.services = {}
    BY <1>3 DEF StartScan, NoScan
  <2> QED BY <1>1, <2>1
<1>4. ASSUME NEW r \in BOOLEAN, Extract(r) PROVE IsFiniteSet(scan'.services)
  <2> DEFINE found == {ServiceOf(tree, m) : m \in ManifestsToRead(tree, Diff)}
             files == ModulesToRead(tree, Diff) \cup ArtifactsToRead(tree, Diff)
  <2>1. PICK kept \in Findings(found, files, r) : scan'.services = kept[1]
    BY <1>4 DEF Extract, NoScan
  <2>2. IsFiniteSet(found)
    BY FoundIsFinite
  <2> HIDE DEF found, files
  <2>3. kept[1] \in {found, {}}
    BY DEF Findings
  <2> QED BY <1>1, <2>1, <2>2, <2>3
<1>5. CASE Fail \/ \E r \in BOOLEAN : SkipUnchanged(r) \/ Finish(r)
  <2>1. scan'.services = {}
    BY <1>5 DEF Fail, SkipUnchanged, Finish, NoScan
  <2> QED BY <1>1, <2>1
<1>6. CASE Store \/ StoreFails
  <2>1. scan'.services = scan.services
    BY <1>6 DEF Store, StoreFails, NoScan
  <2> QED BY <2>1
<1> QED BY <1>2, <1>3, <1>4, <1>5, <1>6 DEF CodeStep

\* What the order is compared with is what the scan read.
LEMMA SameOrder ==
    ASSUME DependenciesFirstIn(sre.order), scan'.services = scan.services,
           scan'.read = scan.read, sre'.order = sre.order
    PROVE  DependenciesFirstIn(sre.order)'
<1>1. \A s : NeedsOf(s)' = NeedsOf(s)
  BY DEF NeedsOf
<1>2. Dependency' = Dependency
  BY <1>1 DEF Dependency
<1>3. \A s : Acyclic(s)' <=> Acyclic(s)
  BY <1>2 DEF Acyclic
<1> QED BY <1>2, <1>3 DEF DependenciesFirstIn

\* The code side of the scan leaves the extractor alone, or ends its run.
LEMMA OrderStays ==
    ASSUME OrderInv, CodeEnvironment \/ CodeStep,
           sre' = IF scan'.at = "idle" THEN NoRun ELSE sre
    PROVE  OrderInv'
<1>1. InStage' /\ IsFiniteSet(scan.services)'
  BY CodeStepsOfScan, ServicesStayFinite DEF OrderInv, InStage
<1>2. CASE sre' = NoRun
  <2>1. NoRun.at = "idle"
    BY DEF NoRun
  <2> QED BY <1>1, <1>2, <2>1 DEF OrderInv
<1>3. ASSUME sre' = sre, scan'.at # "idle",
             sre.at = "iac to cloud", "services" \in sre.domains
      PROVE  DependenciesFirstIn(sre.order)'
  <2>1. scan.at = "correlate" /\ DOMAIN scan = DOMAIN NoScan
    BY <1>3 DEF OrderInv, InStage
  <2>2. CASE CodeEnvironment
    <3>1. scan'.services = scan.services /\ scan'.read = scan.read
      BY <2>1, <2>2 DEF CodeEnvironment, Pull, CloneAgain, MayMove, NoScan
    <3> QED BY <1>3, <3>1, SameOrder DEF OrderInv
  <2>3. CASE CodeStep
    <3>1. scan'.at = "idle"
      BY <2>1, <2>3 DEF CodeStep, StartScan, SkipUnchanged, Extract, Finish, Store,
         StoreFails, Fail, NoScan
    <3> QED BY <1>3, <3>1
  <2> QED BY <2>2, <2>3
<1> QED BY <1>1, <1>2, <1>3 DEF OrderInv

LEMMA OrderSteps ==
    ASSUME OrderInv, CorrelationStep,
           UNCHANGED <<tree, known, base, rows, service, owner, links, torn, left>>
    PROVE  OrderInv'
<1>1. InStage'
  BY StepsOfExtractor DEF OrderInv
<1>2. /\ DOMAIN scan = DOMAIN NoScan /\ DOMAIN sre = DOMAIN NoRun
      /\ IsFiniteSet(scan.services)
  BY DEF OrderInv, InStage
<1>3. ASSUME scan'.services = scan.services, sre'.at # "iac to cloud" PROVE OrderInv'
  BY <1>1, <1>2, <1>3 DEF OrderInv
<1>4. ASSUME NEW domains, NEW fetched, BeginCorrelation(domains, fetched)
      PROVE  OrderInv'
  <2>1. scan'.services = scan.services /\ sre'.at # "iac to cloud"
    BY <1>2, <1>4 DEF BeginCorrelation, NoScan, NoRun
  <2> QED BY <1>3, <2>1
<1>5. CASE EndCorrelation
  <2>1. scan'.services = scan.services /\ sre'.at # "iac to cloud"
    BY <1>2, <1>5 DEF EndCorrelation, NoScan, NoRun
  <2> QED BY <1>3, <2>1
<1>6. CASE AnalyseIaC \/ IaCToCloud \/ IaCToService \/ ServiceToCloud
  <2>1. scan' = scan
    BY <1>6 DEF AnalyseIaC, IaCToCloud, IaCToService, ServiceToCloud
  <2>2. sre'.at # "iac to cloud"
    BY <1>2, <1>6
    DEF AnalyseIaC, IaCToCloud, IaCToService, ServiceToCloud, Advance, NoRun
  <2> QED BY <1>3, <2>1, <2>2
<1>7. CASE AnalyseServices
  <2>1. scan' = scan
    BY <1>7 DEF AnalyseServices
  <2>2. CASE "services" \in sre.domains
    <3>1. PICK svcs \in SetToSeqs(scan.services) :
             sre' = [sre EXCEPT !.at = "iac to cloud", !.order = TopoSort(svcs)]
      BY <1>7, <2>2 DEF AnalyseServices
    <3>2. sre'.order = TopoSort(svcs)
      BY <1>2, <3>1 DEF NoRun
    <3>3. DependenciesFirstIn(TopoSort(svcs))
      BY <1>2, OrderIsRight
    <3>4. PICK order : order = TopoSort(svcs)
      OBVIOUS
    <3>5. DependenciesFirstIn(order) /\ sre'.order = order
      BY <3>2, <3>3, <3>4
    <3>6. DependenciesFirstIn(sre.order)'
      <4>1. \A s : NeedsOf(s)' = NeedsOf(s)
        BY <2>1 DEF NeedsOf
      <4>2. Dependency' = Dependency
        BY <2>1, <4>1 DEF Dependency
      <4>3. \A s : Acyclic(s)' <=> Acyclic(s)
        BY <2>1, <4>2 DEF Acyclic
      <4> QED BY <2>1, <3>5, <4>2, <4>3 DEF DependenciesFirstIn
    <3> QED BY <1>1, <1>2, <2>1, <3>6 DEF OrderInv
  <2>3. CASE "services" \notin sre.domains
    <3>1. sre' = [sre EXCEPT !.at = "iac to cloud"]
      BY <1>7, <2>3 DEF AnalyseServices, Advance
    <3>2. sre'.domains = sre.domains
      BY <1>2, <3>1 DEF NoRun
    <3> QED BY <1>1, <1>2, <2>1, <2>3, <3>2 DEF OrderInv
  <2> QED BY <2>2, <2>3
<1> QED BY <1>4, <1>5, <1>6, <1>7 DEF CorrelationStep

\* Of services that are told apart by their names, what a service depends on is
\* analysed before it, unless that leads to a cycle: then its surface is there
\* when the service is (topoSortServices).
THEOREM DependenciesAlwaysFirst == Spec => []DependenciesFirst
<1>1. Init => OrderInv
  <2>1. IsFiniteSet({})
    BY FS_EmptySet
  <2> QED BY <2>1 DEF Init, CodeInit, OrderInv, InStage, NoRun, NoScan
<1>2. ASSUME OrderInv, [Next]_vars PROVE OrderInv'
  <2>1. CASE /\ CodeEnvironment \/ CodeStep
             /\ sre' = IF scan'.at = "idle" THEN NoRun ELSE sre
    BY <1>2, <2>1, OrderStays
  <2>2. CASE CorrelationStep /\ UNCHANGED <<tree, known, base, rows, service, owner, links, torn, left>>
    BY <1>2, <2>2, OrderSteps
  <2>3. CASE UNCHANGED vars
    <3>1. scan' = scan /\ sre' = sre
      BY <2>3 DEF vars, codeVars, corrVars
    <3>2. DependenciesFirstIn(sre.order) => DependenciesFirstIn(sre.order)'
      BY <3>1, SameOrder
    <3> QED BY <1>2, <3>1, <3>2 DEF OrderInv, InStage
  <2> QED BY <1>2, <2>1, <2>2, <2>3 DEF Next
<1>3. OrderInv => DependenciesFirst
  BY DEF OrderInv, DependenciesFirst, DependenciesFirstIn
<1> QED BY <1>1, <1>2, <1>3, PTL DEF Spec
=============================================================================
