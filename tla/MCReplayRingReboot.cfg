SPECIFICATION Spec
CONSTANTS
  Windows = {0, 1}
  MaxEntries = 2
  Nonces = {zero, n1, n2}
  ZeroNonce = zero
  MinTime = 1
  MaxTime = 3
  MaxSetBack = 0
  MaxBoots = 1
  MaxAccepted = 4
SYMMETRY Perms
INVARIANT NothingToRemember
