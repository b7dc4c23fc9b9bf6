\* A buffer with room for a header and two units of data more.
CONSTANTS
  Limit = 4
  HeaderSize = 2
  Sizes = {0, 1, 3}
  MaxSends = 3
SPECIFICATION Spec
INVARIANT SendComplete
