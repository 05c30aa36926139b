SPECIFICATION Spec
CONSTANTS
  Names = {"a", "b"}
  WriteMode = "merge"
  MaxRetries = 1
  MaxRows <- MCRows
  Editions <- MCEditions
  MaxDeaths = 1
INVARIANTS
  TypeOK
  NothingIsLost
  RerunsDoNotPileUp
PROPERTIES
  ArchivesWhatWasWritten
  SuccessMeansPersisted
  EveryRunEnds
  EveryUploadIsHandled
