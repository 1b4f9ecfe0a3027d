CONSTANTS
  Degree = 3
  Callers = {c1, c2}
  Header <- MCHeader
  OffsetOf <- MCOffsetOf
  SizeOf <- MCSizeOf
  WordsOf <- MCWordsOf
  ShortHeader = ShortHeader
  ForeignHash <- MCForeignHash
  SegmentIds = {7}
  HeaderSize = 1
  FooterSize = 2
  UInt32 = 8
  SegmentMax = 5
  MaxEvents = 3
  MaxSequence = 1
SPECIFICATION Spec
INVARIANTS
  TypeOK
  TipIsLastEvent
  ChainLinked
  PositionsAscend
  RefusedOnlyWhenStale
  AcknowledgedIsSealed
  AnswersPredecessor
PROPERTIES
  RotationKeepsChain
  ImplementsWormChain
