\* Two logins, four changes of presence or contacts, one device per user.
SPECIFICATION Spec
CONSTANTS
  NumUsers = 2
  Resources = {"r1"}
  IsDocent = FALSE
  MaxLogins = 2
  MaxChanges = 4
  MaxMessages = 1
INVARIANTS TypeOK RosterIsCurrent PresencesMatchRoster IteratorStaysValid EventsAreOfThisConnection
CHECK_DEADLOCK FALSE
