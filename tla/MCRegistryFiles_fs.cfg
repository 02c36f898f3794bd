SPECIFICATION Spec
CONSTANTS
  p1 = p1  p2 = p2  p3 = p3
  f1 = f1  f2 = f2  f3 = f3
  v1 = v1  v2 = v2  a1 = a1  a2 = a2  n1 = n1  n2 = n2
  Procs = {p1, p2}
  FileIds = {f1, f2}
  Versions = {v1, v2}
  Artifacts = {a1}
  ArtifactOf <- OneArtifact
  Names = {n1, n2}
  Backend = "FILESYSTEM"
  Ops = {"upload", "download", "deleteFile", "deleteVersion", "bulkDelete", "deleteArtifact", "deleteIncomplete", "sweep", "tag"}
  MaxFaults = 1
  Nil = Nil
SYMMETRY Symmetry
INVARIANTS TypeOK RequestsConsistent AvailableIsBacked PurgeSparesRows ObjectsAccounted DownloadsWhole
PROPERTY LifecycleKept
