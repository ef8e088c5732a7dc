SPECIFICATION LiveSpec
CONSTANTS
  r1 = r1
  r2 = r2
  ls = ls
  git = git
  node = node
  tool = tool
  py1 = py1
  py2 = py2
  Pythons = {py1, py2}
  Machines <- MCMachines
  Doings <- MCDoings
  MaxMishaps = 1
  Runs = {r1, r2}
  Home = r1
  Plans <- MCPlans
  Commands = {ls, git}
  Nodes = {node, tool}
  MaxOpen = 1
  Days = 1
  MaxFaults = 2
  Routes <- CodexRoute
  Content <- MCContent
  MaxTurns = 1
INVARIANT
  ForkAlternates
CHECK_DEADLOCK FALSE
