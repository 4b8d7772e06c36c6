SPECIFICATION Spec
CONSTANTS
    Manifests = {"root", "api", "lib"}
    Sources = {"main"}
    Builds = {}
    Deployments = {"compose", "tf"}
    Contents = {"a", "b"}
    Broken = "broken"
    Absent = "absent"
    Names = {"app", "api", "api2", "lib"}
    Under <- Dirs
    Modules <- Globs
    NameIn <- NameOf
    Lists <- Listed
    Needs <- DependsOn
    Nobody = nobody
    NoTree = none
    FirstTrees <- OneCommit
    Edits <- Changes
    Budgets <- Bounds
    MoveAnytime = TRUE
    Resources = {"site", "db"}
    Groups = {"dev", "prod"}
    GroupOf <- Group
    EnvOf <- ByPath
    Analyses <- Answers
    Unread = unread
    MaxOffered = 1
INVARIANTS StoredIsHead DependenciesFirst LinksInScope
CHECK_DEADLOCK FALSE
