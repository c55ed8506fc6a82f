CONSTANTS
  s1 = s1
  s2 = s2
  s3 = s3
  s4 = s4
  None = None
  Submissions <- MCThreeSubmissions
  Keys <- MCKeys
  Contributions <- MCWholeContributions
  Versions <- MCVersions
  VersionOf <- MCVersionOf
  InputRouting <- MCInputRouting
SPECIFICATION FairSpec
CHECK_DEADLOCK FALSE
PROPERTIES
  ImplementsGathering
  DepositIsAcknowledged
  CompleteInputsAreDeposited
