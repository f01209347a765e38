SPECIFICATION CloneFairSpec
CONSTANT MaxClones = 1
PROPERTY ParentResumes
CHECK_DEADLOCK FALSE
