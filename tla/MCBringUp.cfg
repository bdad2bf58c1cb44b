CONSTANTS
    MaxKeys = 4
    Room = 2
    TICK_MODULUS = 2
    DRAIN = 1
SPECIFICATION FairBootSpec
INVARIANT KeysAccountedFor
INVARIANT ReadyMeansReady
INVARIANT AnswerIsNotAKey
PROPERTY StoppedStaysStopped
PROPERTY ShellIsReached
PROPERTY KeyIsSettled
PROPERTY TimerKeepsTicking
CHECK_DEADLOCK FALSE
