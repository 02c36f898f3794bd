SPECIFICATION Spec
CONSTANTS
  Entries = {"a1", "t1"}
  Artifacts = {"a1"}
  Lookalikes = {"a1"}
  Prefix <- Backups
  Others <- Around
  Slash = 47
  MaxTime = 2
  MaxJobs = 2
  NoSchema = NoSchema
  Nil = Nil
INVARIANTS TypeOK
PROPERTIES LatestIsNewestOwn SuccessLoadsAll DumpAccepted UnforcedSparesData
ACTION_CONSTRAINT JobsOutsidePsql
