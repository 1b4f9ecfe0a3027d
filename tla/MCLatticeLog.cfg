CONSTANTS
  Degree = 3
  Threads = {t1, t2}
  Payload <- MCPayload
  NoThread = NoThread
  MaxWords = 10
SPECIFICATION Spec
INVARIANTS
  TypeOK
  AckedIsDurable
  AckedInOrder
  IntactVerifies
PROPERTY
  DurablePrefixKept
