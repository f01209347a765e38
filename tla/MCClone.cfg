SPECIFICATION CloneFairSpec
CONSTANT MaxClones = 2
INVARIANT ChildStartsRight
PROPERTY SleeperResumes
CHECK_DEADLOCK FALSE
