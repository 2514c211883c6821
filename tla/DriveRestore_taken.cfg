SPECIFICATION RestoreSpec
CONSTANTS
  x = x
  y = y
  shared = shared
  library = library
  Colls <- TwoFolders
  FirstSites <- NameTaken
  Policies = {"Skip", "Copy", "Replace"}
  maxUploadRetries = 3
  MaxEdits = 1
CHECK_DEADLOCK FALSE
INVARIANT FoldersOfADriveStayTogether
