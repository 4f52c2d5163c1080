SPECIFICATION DeviceSpec
CONSTANTS
  g1 = g1
  g2 = g2
  c1 = c1
  c2 = c2
  read = read
  write = write
  k1 = k1
  k2 = k2
  None = None
  Grant = {g1}
  Client = {c1, c2}
  Scope = {read}
  PairingTTL = 2
  AccessTTL = 1
  RefreshTTL = 3
  MaxTime = 4
  MaxRotation = 2
  Call = {k1, k2}
  Styles <- MCStyles
SYMMETRY MCSymmetry
INVARIANTS
  OneClientPerGrant
  ChainOfAuthority
  SupersededRemembered
  RevocationReachesTokens
  NeverTakenForReplay
  
PROPERTY RevocationFinal
