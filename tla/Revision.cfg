SPECIFICATION FairSpec
CONSTANTS
  Profiles <- McProfiles
  Secrets <- McSecrets
  MaxReplicas = 3
  Fallbacks <- McFallbacks
  Suffixes <- McSuffixes
  Specs <- McSpecs
  Plans <- McPlansOf
  Requests <- McRequests
  Failures <- McFailures
  Docker <- McDocker
  MaxPreviews = 1
  MaxAttempts = 2
  MaxRounds = 3
INVARIANTS
  GroupsAreWhole
  DataStays
  RiskNeedsConsent
  ApprovedIsSound
PROPERTIES
  DialogueEnds
