SPECIFICATION Spec
CONSTANTS
  a = a
  A = A
  b = b
  d1 = d1
  d2 = d2
  NoName = NoName
  Spelling <- MCSpelling
  Normal <- MCNormal
  Directives <- MCDirectives
  Pins <- MCPins
  Defs = {d1, d2}
  MaxTools = 3
  Offers <- MCOffers
  Pages <- WholePages
  ClientIds = {1, 2, 3}
  ServerIds = {0}
  MaxInflight = 2
INVARIANTS
  TypeOK
  ListingsCurated
  ShownIsCallable
  CallsCurated
  PendingExact
  AuditFaithful
PROPERTY ImplementsSession
CHECK_DEADLOCK FALSE
