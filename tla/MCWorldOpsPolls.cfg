CONSTANTS
    old = old
    new = new
    newer = newer
    Packs = {old, new, newer}
    JavaOf <- MCJavaOf
    DefaultTag = "java17"
    None = None
    ApiKnows = {}
    Edits <- TwoUpgrades
    MaxExports = 2
SPECIFICATION Spec
PROPERTIES ExportedFirst
