CONSTANTS
  ana = ana
  m1 = m1
  m2 = m2
  Supporters = {ana}
  SupportCoins <- TwoEach
  Savers = {m1, m2}
  Contents = {1, 2}
  MaxCoins = 2
  MaxStamp = 3
  c1 = c1
  c2 = c2
  c3 = c3
  a1 = a1
  a2 = a2
  v1 = v1
  v2 = v2
  NoCode = NoCode
  Codes = {c1, c2, c3}
  Purposes = {"LOGIN", "PROFILE"}
  Askers = {a1, a2}
  Answerers = {v1, v2}
  OtpResend = 1
  OtpTtl = 1
  OtpMaxAttempts = 2
  OtpMaxPerHour = 2
  SmsPerHour = 2
  MaxClock = 2
  l1 = l1
  l2 = l2
  l3 = l3
  q1 = q1
  s1 = s1
  NoLoad = NoLoad
  Loads = {l1, l2, l3}
  Readers = {q1}
  Subscribers = {s1}
  MaxVersion = 2
  j1 = j1
  j2 = j2
  j3 = j3
  Jobs = {j1, j2, j3}
  h1 = h1
  h2 = h2
  p1 = p1
  p2 = p2
  NoPage = NoPage
  Hands = {h1, h2}
  Pages = {p1, p2}
  EvalCap = 2
  CountTries = 2
  MaxAnswers = 4
  MaxMishaps = 1
  NoEntry = NoEntry
  Entries = {1, 2, 3}
  Tracks = {"general", "os"}
  EntryRows <- SomeEntries
  Prizes = {1, 2}
  PrizeRows <- SomePrizes
  MinEntries = 2
  MinJury = 1
SPECIFICATION PartsSpec
CHECK_DEADLOCK FALSE
SYMMETRY SameHandsAndPages
INVARIANTS
  PartsTypeOK
  SupportBooked
  SupportersKept
  CodesSpentOnce
  FreshReads
  DecisionsStand
  FeedbackKept
  StandingsFair
PROPERTIES
  JobsAreAtomic
