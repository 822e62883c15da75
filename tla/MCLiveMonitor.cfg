\* One model loaded twice, two generations, two readers and one buffer, so that
\* the second generation already needs an eviction; queues of one item.
SPECIFICATION Spec
CONSTANTS
  t1 = t1
  r1 = r1
  r2 = r2
  Tags = {t1}
  Readers = {r1, r2}
  Wants <- MCWants
  MaxKeys = 1
  QueueMax = 1
  HoldTicks = 3
  MaxGens = 2
  MaxSpawns = 2
INVARIANTS
  TypeOK
  BuffersKept
  AnchorNeverReturns
PROPERTIES
  PaneMovesOn
CHECK_DEADLOCK FALSE
