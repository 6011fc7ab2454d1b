\* Two logins, at most one of them through the device flow.
SPECIFICATION Spec
CONSTANTS
  l1 = l1
  l2 = l2
  groq = groq
  ollama = ollama
  Google = google
  Nobody = Nobody
  Logins = {l1, l2}
  Providers = {google, groq, ollama}
  NoAuth = {ollama}
  HasClientId = TRUE
  Files <- MCFiles
  Environment <- MCEnvironment
  Intervals = {1}
  Lifetimes = {4}
  SlowStep = 1
  MaxDelay = 1
INVARIANTS
  PollsSpaced
  GrantFetched
  LookupFindsLogin
  FileWhole
PROPERTIES
  LoginEnds
CHECK_DEADLOCK FALSE
