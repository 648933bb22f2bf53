\* Three nodes whose links come and go, losses and expiries; a table with just enough room.
SPECIFICATION FairSpec
CONSTANTS
  Node = {n1, n2, n3}
  MAX_PEERS = 2
  Lossy = TRUE
  LinkChanges = TRUE
  WebDiscover = TRUE
PROPERTIES AllMeet
