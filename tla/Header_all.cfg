SPECIFICATION Spec
CONSTANT MaxLines = 6
INVARIANTS TypeOK AcceptsWellFormed ReturnsAllTests
CHECK_DEADLOCK FALSE
