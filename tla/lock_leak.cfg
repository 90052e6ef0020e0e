SPECIFICATION FairSpec
CONSTANT N = 3
CHECK_DEADLOCK FALSE
PROPERTY ReportsHandled
