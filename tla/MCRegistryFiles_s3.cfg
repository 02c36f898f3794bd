SPECIFICATION FairSpec
CONSTANTS
  p1 = p1  p2 = p2  p3 = p3
  f1 = f1  f2 = f2  f3 = f3
  v1 = v1  v2 = v2  a1 = a1  a2 = a2  n1 = n1  n2 = n2
  Procs = {p1, p2, p3}
  FileIds = {f1}
  Versions = {v1}
  Artifacts = {a1}
  ArtifactOf <- OneVersion
  Names = {n1}
  Backend = "S3"
  Ops = {"upload", "deleteFile", "deleteVersion", "bulkDelete", "deleteArtifact", "deleteIncomplete"}
  MaxFaults = 2
  Nil = Nil
PROPERTIES UploadsSettle OrphansRemoved
