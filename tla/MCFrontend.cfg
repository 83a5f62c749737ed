SPECIFICATION Spec
CONSTANTS
  Targets <- MCTargets
  Luns <- MCLuns
  HostPaths <- MCHostPaths
  AddressBits = 5
  DhcpClients = 2
  Loopback = {1}
  Multicast = {28}
  Reserved = {30, 31}
  Edits <- MCEdits
  NetworkTexts <- MCNetworkTexts
  Hosts <- MCHosts
  Directories <- MCDirectories
  Starts <- MCStarts
  Budgets <- MCBudgets
INVARIANTS
    ApplyChecked
    CheckComes
    InterruptedResumes
    SessionCoherent
