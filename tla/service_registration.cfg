SPECIFICATION RegistrationSpec
CONSTANTS
  Services = {s1, s2}
  Providers = {p1}
  NULL = NULL
  ListSize = 2
  MaxBorn = 2
  MaxCalls = 3
  Clients = {"careful", "free"}
CHECK_DEADLOCK FALSE
INVARIANTS
  RegistrationsKept
  StartedAsCalled
