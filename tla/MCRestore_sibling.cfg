SPECIFICATION Spec
CONSTANTS
  Entries = {"a1"}
  Artifacts = {"a1"}
  Lookalikes = {"a1"}
  Prefix <- Backups
  Others <- Siblings
  Slash = 47
  MaxTime = 2
  MaxJobs = 1
  NoSchema = NoSchema
  Nil = Nil
PROPERTIES LatestIsMostRecent
