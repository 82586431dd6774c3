SPECIFICATION Spec
CONSTANTS
  N = 2
  FieldLengths = {1, 2}
  MaxTimes = 4
  MaxParses = 2
  Chains = {"a", "b"}
  Codes = {"DROP", "JUMP"}
  Stored = {"other", "JUMP"}
  Lengths = {0, 2, 3}
  Addresses = {"p", "q"}
  MaxElems = 2
  Given = {"TABLE", "CHAIN", "VERDICT", "LL_HEADER"}
  MaxReads = 3
  Lists = {"tables", "chains", "chains2", "rules"}
  ListKind <- MCListKind
  Objects = {"a", "b", "c"}
  TextLength <- MCTextLength
  BUFSIZ = 2
  MaxSize = 6
  MaxObjects = 2
  Byte = 8
  Sizes = {6, 13}
  LeafType = 1
  NestType = 2
  Values <- MCValues
  Raw <- MCRaw
  MaxEnd = 13
  Careful = TRUE
INVARIANTS
  DescExact
  
  TraceExact
  TextExact
  RoundTrip
  Owned
