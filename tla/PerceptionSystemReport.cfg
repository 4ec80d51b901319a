SPECIFICATION Spec
CONSTANT MaxCommands = 4
INVARIANT ReportsCurrentState

CHECK_DEADLOCK FALSE
