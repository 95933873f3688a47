CONSTANTS
  Parts = {"ini"}
  IniFiles <- SplitFiles
  Names = {"x"}
  Letters = {"a"}
  Texts <- EventTexts
  Kinds <- EventKinds
  Given <- EventGiven
  Bodies <- EventBodies
  Indexes <- EventIndexes
  MaxHeaders = 3
  MaxIndex = 1
  MaxSize = 4
SPECIFICATION LibrarySpec
CHECK_DEADLOCK FALSE
INVARIANTS
  LinesCut
