SPECIFICATION Spec
CONSTANTS
  Windows = {0, 1, 2}
  MaxEntries = 3
  Nonces = {zero, n1, n2, n3}
  ZeroNonce = zero
  MinTime = 1
  MaxTime = 4
  MaxSetBack = 2
  MaxBoots = 1
  MaxAccepted = 6
SYMMETRY Perms
VIEW Memory
PROPERTY ImplementsReference
