SPECIFICATION FairSpec
CONSTANTS
  Pulls = {p1}
  LastRevision = 3
  Repo <- SmallRepo
  Wanted = "none"
  Preference <- SmallPreference
  MaxFaults = 3
INVARIANTS
  RecordDescribesFile
PROPERTIES
  VerifiedIsPublished
  RetryRecovers
