---------------------------- MODULE CodeIndexing ----------------------------
(***************************************************************************)
(* The code side of a scan of one repository: CodeExtractionStage reads    *)
(* the clone, whole or from `git diff since..HEAD`, CodeTransformationStage *)
(* turns what it found into entities, CodePersistenceStage stores them,    *)
(* and the indexing run remembers the commit the next scan starts from.    *)
(*                                                                         *)
(* A commit is its tree: the content of each file.  A row is what the data *)
(* store holds of a file: the content it was extracted from and, where the *)
(* transformation resolves them, the services it refers to.  Rows are only *)
(* ever added and overwritten.  A service is known by its manifest, for    *)
(* its directory, and its name, as in serviceId.                           *)
(*                                                                         *)
(* The clone is used as it is found.  It moves when somebody pulls in its  *)
(* directory, and when the directory was lost and is cloned again, with    *)
(* depth one: then git does not know the commit of the last run.           *)
(***************************************************************************)
EXTENDS Naturals, FiniteSets

CONSTANTS
    Manifests,    \* package.json, requirements.txt, go.mod, ...
    Sources,      \* source files, the modules
    Builds,       \* Dockerfiles, build scripts, pipelines
    Deployments,  \* compose files, charts, Terraform, Bicep, scripts
    Contents,     \* what a readable file may say
    Broken,       \* what cannot be parsed, or is no service or artifact
    Absent,       \* no such file, or no such row
    Names,        \* names a service may have
    Under,        \* manifest |-> the files under its directory
    Modules,      \* manifest |-> the sources its language's glob finds there
    NameIn,       \* manifest |-> content |-> the name it gives the service
    Lists,        \* deployment |-> content |-> the service names it lists
    Nobody,       \* no service
    NoTree,       \* no commit
    FirstTrees,   \* commits the repository may start at
    Edits,        \* bound: what moves of the clone do to a file
    Budgets,      \* bound: moves, scans, and the domains they may ask for
    MoveAnytime   \* the clone also moves while files are read

Artifacts == Builds \cup Deployments
Files == Manifests \cup Sources \cup Artifacts
Services == Manifests \X Names
AllDomains == {"iac", "services", "service_relationships"}
Trees == [Files -> Contents \cup {Broken, Absent}]

ASSUME FilesAssumption ==
    /\ IsFiniteSet(Manifests)
    /\ Broken \notin Contents /\ Absent \notin Contents /\ Broken # Absent
    /\ Nobody \notin Services /\ NoTree \notin Trees
    /\ FirstTrees \subseteq Trees /\ FirstTrees # {}
    /\ Edits \subseteq Files \X (Contents \cup {Broken, Absent})
    /\ Manifests \cap (Sources \cup Artifacts) = {}
    /\ Sources \cap Artifacts = {} /\ Builds \cap Deployments = {}
    /\ Under \in [Manifests -> SUBSET Files]
    /\ Modules \in [Manifests -> SUBSET Sources]
    /\ \A m \in Manifests : m \in Under[m] /\ Modules[m] \subseteq Under[m]
    /\ NameIn \in [Manifests -> [Contents -> Names]]
    /\ Lists \in [Deployments -> [Contents -> SUBSET Names]]
ASSUME BoundAssumption ==
    /\ Budgets \subseteq [moves : Nat, scans : Nat, domains : SUBSET SUBSET AllDomains]
    /\ MoveAnytime \in BOOLEAN

VARIABLES
    tree,     \* the clone: the commit that is checked out
    known,    \* the commits its git knows
    base,     \* sinceCommit of the newest completed run
    rows,     \* file |-> content of its row: modules and artifacts
    service,  \* service |-> content of its manifest in its row
    owner,    \* serviceId of the rows of modules
    links,    \* serviceIds of the rows of deployment artifacts
    scan,     \* the scan that runs
    torn,     \* history: what is stored need not be what base holds
    left      \* what is left of the budget

codeVars == <<tree, known, base, rows, service, owner, links, scan, torn, left>>

NoScan == [at |-> "idle", since |-> NoTree, head |-> NoTree, clean |-> TRUE,
           whole |-> FALSE, read |-> NoTree, files |-> {}, services |-> {},
           owner |-> [f \in Sources |-> Nobody],
           links |-> [d \in Deployments |-> {}]]

CodeTypeOK ==
    /\ tree \in Trees /\ known \subseteq Trees /\ base \in Trees \cup {NoTree}
    /\ rows \in [Sources \cup Artifacts -> Contents \cup {Absent}]
    /\ service \in [Services -> Contents \cup {Absent}]
    /\ owner \in [Sources -> Services \cup {Nobody}]
    /\ links \in [Deployments -> SUBSET Services]
    /\ DOMAIN scan = DOMAIN NoScan
    /\ scan.at \in {"idle", "extract", "store", "correlate", "finish"}
    /\ {scan.since, scan.head, scan.read} \subseteq Trees \cup {NoTree}
    /\ scan.clean \in BOOLEAN /\ scan.whole \in BOOLEAN
    /\ scan.files \subseteq Sources \cup Artifacts
    /\ scan.services \subseteq Services
    /\ scan.owner \in [Sources -> Services \cup {Nobody}]
    /\ scan.links \in [Deployments -> SUBSET Services]
    /\ torn \in BOOLEAN /\ left \in [moves : Nat, scans : Nat, domains : SUBSET SUBSET AllDomains]

CodeInit ==
    /\ tree \in FirstTrees /\ known = {tree} /\ base = NoTree
    /\ rows = [f \in Sources \cup Artifacts |-> Absent]
    /\ service = [s \in Services |-> Absent]
    /\ owner = [f \in Sources |-> Nobody]
    /\ links = [d \in Deployments |-> {}]
    /\ scan = NoScan /\ torn = FALSE
    /\ left \in Budgets

-----------------------------------------------------------------------------
(* Reading a commit.                                                       *)

\* What cannot be read is skipped with a line in the log, and so is what is
\* read and found to be no service, the root of a monorepo say, or no artifact.
Readable(t, f) == t[f] \in Contents

\* The service that manifest m describes in commit t.
ServiceOf(t, m) == <<m, NameIn[m][t[m]]>>

\* `git diff since..HEAD --name-only`: new, changed and deleted files.
Changed(since, t) == {f \in Files : since[f] # t[f]}

\* A mutant: it is read again only when it changed itself.
ManifestsToReadAlone(t, changed) == {m \in Manifests \cap changed : Readable(t, m)}

\* A manifest is read again when anything under its directory changed ...
ManifestsToRead(t, changed) ==
    {m \in Manifests : Readable(t, m) /\ Under[m] \cap changed # {}}

\* ... and with it all the modules of its service, whatever they hold.
ModulesToRead(t, changed) ==
    {f \in Sources : /\ Readable(t, f)
                     /\ \E m \in ManifestsToRead(t, changed) : f \in Modules[m]}

\* An artifact only when its own file did.
BuildsToRead(t, changed) == {a \in Builds \cap changed : Readable(t, a)}
DeploymentsToRead(t, changed) ==
    {a \in Deployments \cap changed : Readable(t, a)}
ArtifactsToRead(t, changed) ==
    BuildsToRead(t, changed) \cup DeploymentsToRead(t, changed)

\* serviceMap: of services with one name the last one stays.
ServiceMaps(found) ==
    {map \in [Names -> found \cup {Nobody}] :
        \A n \in Names :
            LET called == {s \in found : s[2] = n}
            IN map[n] \in called \/ (called = {} /\ map[n] = Nobody)}

\* A module below two services is extracted for both: its entity is written
\* twice, and the last one stays.
Owners(found, files) ==
    LET above(f) == {s \in found : f \in Modules[s[1]]}
    IN {o \in [Sources -> found \cup {Nobody}] :
           \A f \in Sources : IF f \in files THEN o[f] \in above(f)
                              ELSE o[f] = Nobody}

-----------------------------------------------------------------------------
(* The clone.                                                              *)

MayMove ==
    /\ left.moves > 0
    /\ MoveAnytime \/ scan.at # "extract"
    /\ left' = [left EXCEPT !.moves = @ - 1]
    \* HEAD was resolved before the files are read
    /\ scan' = [scan EXCEPT !.clean = @ /\ scan.at # "extract"]
    /\ UNCHANGED <<base, rows, service, owner, links, torn>>

\* Somebody pulls in the directory of the clone.
Pull(edit) ==
    /\ MayMove
    /\ tree' = [tree EXCEPT ![edit[1]] = edit[2]]
    /\ known' = known \cup {tree'}

\* The directory is lost and cloned again before the next scan.
CloneAgain(edit) ==
    /\ scan.at = "idle" /\ MayMove
    /\ tree' = [tree EXCEPT ![edit[1]] = edit[2]]
    /\ known' = {tree'}

-----------------------------------------------------------------------------
(* processTask.                                                            *)

\* HEAD, then the run type: git log may fail, and so may the query for the
\* last run.
StartScan(incremental, logFails, queryFails) ==
    /\ scan.at = "idle" /\ left.scans > 0
    /\ left' = [left EXCEPT !.scans = @ - 1]
    /\ scan' = [NoScan EXCEPT
           !.at = "extract",
           !.head = IF logFails THEN NoTree ELSE tree,
           !.since = IF incremental /\ ~queryFails THEN base ELSE NoTree]
    /\ UNCHANGED <<tree, known, base, rows, service, owner, links, torn>>

\* Without the other commit git cannot compare: all is extracted.
Diff == IF scan.since \in known THEN Changed(scan.since, tree) ELSE Files

\* The row of the run says completed, unless the row could not be written:
\* then the last run stays what it was.
Complete(recorded) == base' = IF recorded THEN scan.head ELSE base

\* Nothing changed: the scan is over.
SkipUnchanged(recorded) ==
    /\ scan.at = "extract" /\ Diff = {}
    /\ Complete(recorded)
    /\ torn' = (torn \/ (recorded /\ scan.head # tree))
    /\ scan' = NoScan
    /\ UNCHANGED <<tree, known, rows, service, owner, links, left>>

\* What goes wrong with the repository as a whole is an error of the output:
\* what was found until then is kept, and the scan goes on with it.  Services
\* come first, then the modules of one after the other, the build artifacts
\* and the deployment artifacts.
Findings(found, files, fails) ==
    IF ~fails THEN {<<found, files>>}
    ELSE {<<{}, {}>>, <<found, files \ Deployments>>, <<found, files>>}
         \cup {<<found, {f \in files : \E s \in read : f \in Modules[s[1]]}>> :
                  read \in SUBSET found}

Extract(fails) ==
    LET changed == Diff
        found == {ServiceOf(tree, m) : m \in ManifestsToRead(tree, changed)}
        files == ModulesToRead(tree, changed) \cup ArtifactsToRead(tree, changed)
    IN
    /\ scan.at = "extract" /\ changed # {}
    /\ \E kept \in Findings(found, files, fails) :
       \E map \in ServiceMaps(kept[1]), o \in Owners(kept[1], kept[2]) :
          scan' = [scan EXCEPT
              !.at = "store", !.read = tree, !.clean = @ /\ ~fails,
              !.whole = scan.since \notin known,
              !.services = kept[1], !.files = kept[2],
              !.owner = [f \in Sources |->
                            IF o[f] = Nobody THEN Nobody ELSE map[o[f][2]]],
              !.links = [d \in Deployments |->
                            IF d \in kept[2]
                            THEN {map[n] : n \in Lists[d][tree[d]]} \ {Nobody}
                            ELSE {}]]
    /\ UNCHANGED <<tree, known, base, rows, service, owner, links, torn, left>>

\* persistEntities: one transaction; its failure is an error of the summary.
Store ==
    /\ scan.at = "store"
    /\ rows' = [f \in DOMAIN rows |->
                   IF f \in scan.files THEN scan.read[f] ELSE rows[f]]
    /\ service' = [s \in Services |->
                      IF s \in scan.services THEN scan.read[s[1]] ELSE service[s]]
    /\ owner' = [f \in Sources |->
                    IF f \in scan.files THEN scan.owner[f] ELSE owner[f]]
    /\ links' = [d \in Deployments |->
                    IF d \in scan.files THEN scan.links[d] ELSE links[d]]
    /\ scan' = [scan EXCEPT !.at = "correlate"]
    /\ UNCHANGED <<tree, known, base, torn, left>>

StoreFails ==
    /\ scan.at = "store"
    /\ scan' = [scan EXCEPT !.at = "correlate", !.clean = FALSE]
    /\ UNCHANGED <<tree, known, base, rows, service, owner, links, torn, left>>

\* The stages after it, as far as this module goes.
Correlate ==
    /\ scan.at = "correlate"
    /\ scan' = [scan EXCEPT !.at = "finish"]
    /\ UNCHANGED <<tree, known, base, rows, service, owner, links, torn, left>>

\* The run is completed whatever its summary says of errors.
Finish(recorded) ==
    /\ scan.at = "finish"
    /\ Complete(recorded)
    /\ torn' = (~recorded \/ ~scan.clean \/ (torn /\ ~scan.whole))
    /\ scan' = NoScan
    /\ UNCHANGED <<tree, known, rows, service, owner, links, left>>

\* What a stage throws fails the run, and so does a crash: the last run
\* stays what it was, and so do the rows.
Fail ==
    /\ scan.at # "idle"
    /\ torn' = (torn \/ scan.at \in {"correlate", "finish"})
    /\ scan' = NoScan
    /\ UNCHANGED <<tree, known, base, rows, service, owner, links, left>>

CodeEnvironment == \E edit \in Edits : Pull(edit) \/ CloneAgain(edit)

CodeStep ==
    \/ \E i, l, q \in BOOLEAN : StartScan(i, l, q)
    \/ \E r \in BOOLEAN : SkipUnchanged(r) \/ Extract(r) \/ Finish(r)
    \/ Store \/ StoreFails \/ Fail

CodeNext == CodeEnvironment \/ CodeStep \/ Correlate

CodeSpec == CodeInit /\ [][CodeNext]_codeVars

-----------------------------------------------------------------------------
(* Properties.                                                             *)

Described(t, f) == \E m \in Manifests : Readable(t, m) /\ f \in Modules[m]

\* What the next incremental scan takes for granted: between scans every
\* file of the commit it starts from has the row that a whole scan of that
\* commit would have given it, however many incremental scans came since.
StoredIsHead ==
    base # NoTree /\ scan.at = "idle" /\ ~torn =>
        /\ \A m \in Manifests : Readable(base, m) =>
               service[ServiceOf(base, m)] = base[m]
        /\ \A f \in Sources : Readable(base, f) /\ Described(base, f) =>
               rows[f] = base[f]
        /\ \A a \in Artifacts : Readable(base, a) => rows[a] = base[a]
=============================================================================
