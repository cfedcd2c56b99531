SPECIFICATION StrSpec
CONSTANTS
  MaxAdd = 3
  MaxLen = 9
INVARIANT CapIsAllocated
