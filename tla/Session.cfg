SPECIFICATION FairSpec
CONSTANT MaxDelay = 8
INVARIANTS IInv CallbacksFindTheSession NothingLeft LastWritesAreTried
PROPERTIES StopEndsSession SavedWhilePlaying
