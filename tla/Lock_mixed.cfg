\* Named and global requests.
SPECIFICATION FairSpec
CONSTANTS
  a = a  b = b
  b1 = b1  g1 = g1  g2 = g2
  Requests = {a1, a2, b1, g1, g2}
  Names = {a, b}
  Name <- MCName
  Global = Global
  None = None
PROPERTIES
  ImplementsAtomicLock
  NoSqueezing
  EveryRequestServed
