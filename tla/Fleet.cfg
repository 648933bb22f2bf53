\* Two consoles that command each other and a third node, which comes and goes; a queue of one
\* entry, and a console that may have none.
SPECIFICATION Spec
CONSTANTS
  Node = {n1, n2, n3}
  Consoles = {n1, n2}
  Unready = {n2}
  Movers = {n3}
  BCAST_CAP = 1
  MaxCmds = 2
  Everyone = Everyone
  Nobody = Nobody
INVARIANTS FleetInv
PROPERTIES LastArrives
