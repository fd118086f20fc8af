SPECIFICATION Spec
CONSTANTS
  Tasks = {"net", "http", "seg"}
  Net = "net"
  Regs = 3
  Asked <- SomeAccesses
  Recoveries = 2
  Free <- FreeToStart
  SlowDMA = FALSE
INVARIANTS
  BusFree
  WholeFrame
  AccessIsAtomic
PROPERTY
  AccessEnds
