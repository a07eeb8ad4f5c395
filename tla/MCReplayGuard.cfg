SPECIFICATION Spec
CONSTANTS
  Windows = {0, 1}
  MaxEntries = 2
  Nonces = {n1, n2, n3}
  MinTime = 1
  MaxTime = 3
  MaxSetBack = 1
  MaxBoots = 1
  MaxAccepted = 3
SYMMETRY Perms
INVARIANTS TypeOK CacheAgrees CacheIsTail NonceReuse AtMostOnce
PROPERTY NoFalseDrop
