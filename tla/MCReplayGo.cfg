SPECIFICATION Spec
CONSTANTS
  Windows = {0, 1, 2}
  MaxEntries = 3
  Nonces = {n1, n2, n3, n4}
  MinTime = 2
  MaxTime = 5
  MaxSetBack = 2
  MaxBoots = 1
  MaxAccepted = 5
  Width = 3
SYMMETRY Perms
VIEW Memory
PROPERTY ImplementsReference
