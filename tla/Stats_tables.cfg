SPECIFICATION Spec
CONSTANTS
  used_toolnames <- TwoTools
  error_scope = {"AInvalidParam", "FOK"}
  Times = {30011}
  MaxTests = 3
INVARIANTS TypeOK TablesAddUp MetricsAgree BestIsBest TimesShown SearchEnds
CHECK_DEADLOCK FALSE
