CONSTANTS
  Base = 4
  MetaZone = 3
  InitSize = 10
  RestMeta = 1
  ErrorMeta = 2
  HeaderLens = {1, 3}
  BodyLens = {0, 1, 13}
  MetaLens = {1, 3, 5}
  PayloadLens = {0, 1, 3, 4, 7}
  MaxRounds = 2
  MaxMessages = 2
SPECIFICATION FairSpec
INVARIANTS
  TypeOK
  RequestIntact
  MessageIntact
  OnlyBigMetaFails
PROPERTIES
  MessageArrives
CHECK_DEADLOCK FALSE
