CONSTANTS
    old = old
    new = new
    newer = newer
    Packs = {old, new, newer}
    JavaOf <- LaterJavaOf
    DefaultTag = "java8"
    None = None
    ApiKnows = {new, newer}
    Edits <- TwoUpgrades
    MaxExports = 2
SPECIFICATION Spec
INVARIANTS TypeOK ExportIsConsistent SavingIsNotForgotten ReplacedOffline CacheIsRight
PROPERTIES ExportedFirst OnlyCutArchivesLose WorldSpec
