CONSTANTS
  Parts = {"environment", "codex", "gemini", "cache", "explorer", "pages"}
  Run = {r1, r2}
  Turn = {u1, u2}
  Dir = {b1, b2}
  Home = Home
  NoDir = NoDir
  MaxSwitches = 1
  AgentTask = {a1, a2, g1, g2}
  GeminiTask = {g1, g2}
  MaxTurns = 2
  MaxEvents = 2
  MaxAttempts = 2
  MaxSdkFailures = 1
  CachedFile = {f1, f2}
  CacheCall = {q1, q2}
  Sizes = {1, 2, 3}
  MaxFileSize = 2
  MaxCacheSize = 3
  MaxVersions = 3
  Page = {p1, p2}
  FirstPage = p1
  ExFile = {x1, x2}
  FirstFile = x1
  IgnoredFile = {x2}
  NoFile = NoFile
  MaxEdits = 2
  MaxClicks = 5
SPECIFICATION HostSpec
INVARIANTS
  HostTypeOK
  EnvironmentKept
  
  AbortHeeded
  CacheSound
  PageTrue
CHECK_DEADLOCK FALSE
