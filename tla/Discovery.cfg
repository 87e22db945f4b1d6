SPECIFICATION Spec
CONSTANTS
  a1 = a1
  a2 = a2
  a3 = a3
  h1 = h1
  h2 = h2
  Hosts = {h1, h2}
  Agents = {a1, a2, a3}
  HostOf <- MCHostOf
  Rank <- MCRank
  Servers = {a1, a3}
  Ports = {1, 2, 3}
  MaxFaults = 1
INVARIANT NoRejuvenation
PROPERTIES MasterElected Discovered Forgotten
