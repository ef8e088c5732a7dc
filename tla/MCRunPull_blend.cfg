SPECIFICATION SharedSpec
CONSTANTS
  p1 = p1
  p2 = p2
  p3 = p3
  NoOne = NoOne
  Local = Local
  Pulls = {p1, p2, p3}
  Blocks = 2
  MaxTrouble = 1
  s1 = s1
  s2 = s2
  l1 = l1
  y1 = y1
  None = None
  Blank = Blank
  Setups = {s1, s2}
  Lives = {l1}
  Syncs = {y1}
  Hosts <- MCHosts
  Asked <- MCAsked
  Told <- MCTold
  Pointed <- MCPointed
  Calls <- MCCalls
  FirstConfigs <- MCFirstConfigs
  OrcaRouter <- MCOrcaRouter
SYMMETRY PullSymmetry
INVARIANT
  InstalledWhole
CHECK_DEADLOCK FALSE
