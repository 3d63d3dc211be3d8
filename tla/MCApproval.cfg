SPECIFICATION FairSpec
CONSTANTS
  c1 = c1
  Actions = {a1}
  Conns = {c1}
  ConnOf <- MCConnOf
  Background = {}
  Handlers = {h1, h2}
  Sweeper = sweeper
  TTL = 1
  Grace = 1
  MaxCreate = 1
  MaxTime = 4
INVARIANTS TypeOK OneStory ResolverNeverBlocks ToastCleared
PROPERTIES SignerReleased KeepsPromise
CHECK_DEADLOCK FALSE
