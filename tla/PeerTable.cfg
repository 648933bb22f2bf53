\* Two peers that exchange addresses, beacons with and without a MAC, millis() wrapping.
SPECIFICATION FairTableSpec
CONSTANTS
  MAX_PEERS = 2
  PEER_EXPIRE_MS = 3
  SWEEP_MS = 1
  U32 = 8
  MaxLag = 1
  MaxMissed = 1
  Macs = {m1, m2}
  Ips = {ip1, ip2}
  NoMac = NoMac
INVARIANTS TableInv
PROPERTIES DropsOnlyStale StaleGoes
