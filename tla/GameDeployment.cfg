\* Two games, two crashes of the machine.
SPECIFICATION FairSpec
CONSTANTS
  NumGames = 2
  MaxCrashes = 2
INVARIANTS TypeOK
PROPERTIES FinishedRunIsComplete WholeBundlesKeepTheirNames EveryCrashIsRepaired
