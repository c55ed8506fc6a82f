CONSTANTS
  s1 = s1
  s2 = s2
  s3 = s3
  s4 = s4
  None = None
  Submissions <- MCSubmissions
  Keys <- MCKeys
  Contributions <- MCContributions
  Versions <- MCVersions
  VersionOf <- MCVersionOf
  InputRouting <- MCInputRouting
SPECIFICATION Spec
SYMMETRY MCSymmetry
CHECK_DEADLOCK FALSE
INVARIANTS
  TypeOK
  KeysAreSerialised
  DepositedCollectionsAreExact
  NoCompleteCollectionLeftBehind
  AnswersAreTruthful
  HandlesAreInStep
