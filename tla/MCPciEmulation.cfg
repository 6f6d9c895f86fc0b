SPECIFICATION FairSpec
PROPERTY PlugResumes
CHECK_DEADLOCK FALSE
