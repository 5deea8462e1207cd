SPECIFICATION Spec
CONSTANTS
  Keys = {k, l}
  MaxMoves = 1
  MaxDelays = 2
  NParts = 2
  MaxTries = 2
  Repeaters = {r1}
  Runners = {u, v}
  MaxCommands = 3
  MaxLogins = 2
  MaxLines = 1
  Window = 2
  MaxEvents = 3
  MaxMishaps = 2
  Callers = {c1, c2}
  Buckets = {m1, m2}
  Limit = 1
  MaxAttempts = 3
  MaxGlitches = 2
INVARIANTS
  OneVerdict
  SupersededSilent
  AnswersMatch
  NothingMissed
  IdentifyPaced
  PacedOnceKnown
PROPERTIES
  KnownStay
  ContactsConverge
  OriginalAnswered
  EverythingReturns
  GatewayComesBack
  RequestsReturn
CHECK_DEADLOCK FALSE
