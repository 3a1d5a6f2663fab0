SPECIFICATION Spec
\* A stream ends, and then nothing is left to do.
CHECK_DEADLOCK FALSE
CONSTANTS
  Digit = {"1"}
  Vault <- MCVault
  Order <- MCOrder
  MaxChars = 3
  MaxSent = 6
  MaxFragment = 2
INVARIANT TypeOK
 
PROPERTY NotHeldLong
