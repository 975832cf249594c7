SPECIFICATION Spec
CONSTANTS
  Codes <- AllFiles
  Mislabelled <- WrongLabels
INVARIANTS TypeOK OkIsClean ErrorIsThere AnnouncedOnly NeverIsNever
           MislabelledIsWrong WrittenOnce NothingHidden
CHECK_DEADLOCK FALSE
