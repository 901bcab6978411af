\* The pure session: three peer lines, one unread at a time.
CONSTANTS
  Positions = {p0, p1}
  StartPos = p0
  Options = {o0}
  DefaultOptions = o0
  MaxLines = 3
  MaxQueue = 1
  NoRequest = NoRequest
SPECIFICATION FairSpec
PROPERTIES SessionIsSound ImplementsContract NobodyWaitsForEver
