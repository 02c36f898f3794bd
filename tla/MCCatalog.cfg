SPECIFICATION Spec
CONSTANTS
  p1 = p1  p2 = p2
  Procs = {p1, p2}
  Arts = {1, 2, 3}
  Vers = {11, 12, 13}
  Files = {21, 22}
  NameOf <- MCNameOf
  ArtOf <- MCArtOf
  VerOf <- MCVerOf
  SizeOf <- MCSizeOf
  Bytes <- MCBytes
  MaxRequests = 2
  MaxFaults = 1
  HalfInt32 = 128
  None = None
  Null = Null
\* The instance ends when all requests are made.
CHECK_DEADLOCK FALSE
INVARIANTS TypeOK StatsExact NamesUnique UploadsNeverStuck PagesPartition ViewsAgree
PROPERTIES AllEnd
