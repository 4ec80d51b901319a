SPECIFICATION FairSpec
CONSTANT MaxCommands = 4

PROPERTIES ShutdownEndsMain
CHECK_DEADLOCK FALSE
