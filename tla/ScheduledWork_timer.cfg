SPECIFICATION FairSSpec
CONSTANTS
  Node = {i1, i2}
  NULL = NULL
  Entry = {i1, i2}
  NoEntry = NULL
  Caller = {timer}
  Timer = timer
  Worker = worker
  Leaving = {{i1}}
  Delays = {2}
  Starts = {1}
  Periods = {1}
  MaxTime = 3
  MaxSleep = 1
  IntervalMin = 0
  IntervalMax = 5
INVARIANTS SleepsUntilDue TwiceIsRearmed 
PROPERTIES TimerSpec 
