SPECIFICATION Spec
CONSTANTS
  None = None
  one = one
  two = two
  config1 = config1
  config2 = config2
  layer = layer
  Artifacts = {skill, tool}
  Packs = {pack}
  Tags = {v}
  Contents = {one, two}
  Data = {config1, config2, layer}
  Blobs <- TwoVersions
  Config <- OwnConfigs
  Publishers = {p, q}
  Faulty = {layer}
  Grace = TRUE
SYMMETRY Alike
CHECK_DEADLOCK FALSE
INVARIANTS TypeOK ArtifactsComplete BundlesComplete
