\* Two sockets, two timers, every kind of break, one interrupted select().
SPECIFICATION FairSpec
CONSTANTS
  Sockets = {s1, s2}
  TimerListeners = {t1}
  Delays = {1}
  Periods = {0, 2}
  MaxTimers = 2
  MaxRuns = 1
  MaxTime = 2
  MaxDatagrams = 2
  MaxBreaks = 1
  MaxInterrupts = 1
INVARIANTS TypeOK SelectWakesForTheFirstTimer TimersKeepTheirTimes BreakIsPrompt
PROPERTIES RunServesAll
CHECK_DEADLOCK FALSE
