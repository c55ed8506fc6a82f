\* Two loads of a variant and a partition of it, one worker that profiles it, one
\* failure or restart.
SPECIFICATION FairSpec
CONSTANTS
  Variants = {v1}
  Models = {m1}
  ModelOf <- MCModelOf
  Bundles <- MCBundles
  MaxLoads = 2
  Builds = {c1}
  LayerSets <- MCLayerSets
  Workers = {w1}
  Shapes <- MCShapes
  BackendsOf <- MCBackendsOf
  Events <- MCEvents
  WARMUP_ITERATIONS = 1
  PROFILE_ITERATIONS = 2
  NoLayer = NoLayer
  NoMemory = NoMemory
  Invalid = Invalid
  Absent = Absent
  MaxFaults = 1
CHECK_DEADLOCK FALSE
INVARIANTS ArtifactsAreWhole LoadsTakeEffect ProfilesMeasureTheirLayers
PROPERTY VariantsAreProfiled
