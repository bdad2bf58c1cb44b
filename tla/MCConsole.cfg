CONSTANT MaxDepth = 4
SPECIFICATION FairConsoleSpec
PROPERTY ReportComesOut
PROPERTY PanicComesToRest
PROPERTY ReportIsNotInterrupted
PROPERTY DeviceHandlersReturn
CHECK_DEADLOCK FALSE
