\* One node, two networks, three requests that change a setting; links and power fail.
SPECIFICATION Spec
CONSTANTS
  Networks = {net1, net2}
  NoNetwork = NoNetwork
  MaxRequests = 3
INVARIANTS WifiInv LibraryFollows
PROPERTIES ScanAnswered
