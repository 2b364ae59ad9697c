SPECIFICATION FairSpec
CONSTANTS
  Unset = Unset
  NoBlock = NoBlock
  ParseError = ParseError
  NoInput = NoInput
  RelativeDirs = {"data"}
  Inputs <- MCInputs
  Workers <- MCWorkers
  Handler = handler
  Heartbeat = heartbeat
  Reaper = reaper
  Restarts <- MCRestarts
  MaxIDs = 2
  AttemptTimes = {0, 30}
INVARIANTS TypeOK IInv FlagsOverrideDefaults GoesOnUnansweredOnlyByDeadline CleanStopLeavesOnlyLateJoiners PanicIsExplained
PROPERTIES IDIsStable SignalEndsAgent
CHECK_DEADLOCK FALSE
