SPECIFICATION Spec
CONSTANTS
  used_toolnames <- OneTool
  error_scope = {"AInvalidParam", "FOK"}
  Times = {1}
  MaxTests = 3
INVARIANTS IdealTool
CHECK_DEADLOCK FALSE
