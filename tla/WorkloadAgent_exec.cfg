\* Three calls share two places, one of them over a bad connection: entries are evicted and requests refused.
SPECIFICATION PSpec
CONSTANTS
    Call = {c1, c2, c3}
    MaxRequests = 2
    Flaky = {c1}
    Slow = {c1}
    Name = {web}
    Stopper = {t1, t2}
    Reader = {r1}
    MaxProc = 2
    MaxOutput = 2
    Source = {src}
    Dest = {work, sub}
    WorkDir = work
    File = {f, g}
    Sync = {y1, y2}
    MaxEdits = 2
    Build = {b1, b2}
    NoBuild = NoBuild
    MaxAge = 1
    MaxTimeout = 1
    MaxDocker = 2
    MaxTime = 3
    Viewer = {r1, r2}
    MaxScreen = 1
    MaxRec = 2
INVARIANTS TypesOK AgentInv RunsAgainOnlyIfEvicted NeverBesideItself ReturnsAResult NamedProcesses SyncExact BuildsApart ScreenOwn
PROPERTIES RefusedOnlyWhenFull CallEnds StopAnswers
\* The calls are finitely many: a behaviour ends when all have ended.
CHECK_DEADLOCK FALSE
