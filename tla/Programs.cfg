SPECIFICATION ProgramsSpec
CONSTANTS
  Word = 4096
  Sizes = {0, 1, 2, 3, 8}
  WriteAllocs = {"write-allocate", "no-write-allocate"}
  WriteModes = {"write-through", "write-back"}
  Removals = {"lru", "fifo"}
  Addresses = {0, 4, 8, 16}
  MaxAccesses = 5
  Byte = 4
  IntWord = 256
  Scale = 10
  Files <- TestFiles
  Base = 3
  Pointers = {"x", "y", "z"}
  Radix = 2
  Width = 3
  PrefixIsZero = TRUE
CHECK_DEADLOCK FALSE
INVARIANTS
  OneSlotPerBlock
  WritesAsDocumented
  FailsAsDocumented
  SumExact
  ProductExact
  CompareExact
  ParsesNearlyFormatted
PROPERTIES
  ImplementsReference
  FormatParses
