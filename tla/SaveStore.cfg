SPECIFICATION Spec
CONSTANTS
  h1 = h1
  h2 = h2
  a1 = a1
  a2 = a2
  Handles = {h1, h2}
  Creator = h1
  ActionIds = {a1, a2}
  Keys <- MCKeys
  TranscriptKeys <- MCTranscriptKeys
  Changes <- RaceChanges
  Manifests = {"m1", "m2"}
  InitialManifest = "m1"
  InitialKeys <- MCInitialKeys
  MaxRevision = 2
  Exclusive = FALSE
SYMMETRY ActionSymmetry
CHECK_DEADLOCK FALSE
INVARIANTS TypeOK LogExact CheckpointsFaithful  LoadIsSnapshot 
PROPERTIES ImplementsLog
