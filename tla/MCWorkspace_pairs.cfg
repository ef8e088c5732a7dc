SPECIFICATION WorkspaceSpec
CONSTANTS
  mine = mine
  old = old
  new = new
  link = link
  other = other
  None = None
  Absent = Absent
  Dir = Dir
  Gitlink = Gitlink
  Paths <- MCPaths
  Under <- MCUnder
  Contents <- MCContents
  Links = {link}
  Scenes <- MCScenes
  Written <- MCWritten
  MaxWrites = 3
  MaxFaults = 2
  agent = agent
  subagent = subagent
  report = report
  code = code
  Nil = Nil
  npm = npm
  Changed = {code}
  Commands = {npm}
  Wishes <- MCWishes
  MaxTurns = 3
  MaxDepth = 3
  MaxLost = 1
  Lanes = {agent, subagent}
  Depth = 2
  Tracked = {code}
  Forced = {report}
  MaxEdits = 1
  Attempts = 2
  MaxTrouble = 1
SYMMETRY Conversations
INVARIANT
  RepliesAreTheirOwn
CHECK_DEADLOCK FALSE
