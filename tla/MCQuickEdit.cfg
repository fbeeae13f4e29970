SPECIFICATION FairSpec
CONSTANTS
  e1 = e1
  e2 = e2
  f1 = f1
  f2 = f2
  g = g
  PageOrder <- OneEntity
  FieldsOf <- FormAndText
  EditorOf <- Editors
  OtherModes <- NoOther
  FieldOf <- Contents
  ContentOf <- OwnContent
  NoField = NoField
  Destroyed = Destroyed
  NoEntity = NoEntity
  Troubles <- SomeTroubles
  Revisits = FALSE
  MaxDeferred = 1
  MaxRequests = 2
INVARIANTS TypeOK OneCommit CopyExists NothingThrown OneActiveField QuietWhenClosed NothingUnsaved
PROPERTIES TransitionsEnd
CHECK_DEADLOCK FALSE
