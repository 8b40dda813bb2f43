SPECIFICATION HandlersSpec
CONSTANTS
  Users = {ann, bob, cyd}
  Founder = ann
  Calls = {r1, r2}
  Invites = {i1, i2}
  Nobody = Nobody
  MaxCalls = 4
  Codes = {k1}
  Exchanges = {r1, r2}
  NoToken = NoToken
  RefreshLife = 1
  KeepDays = 0
  MaxTokens = 4
  MaxDays = 1
  Forms = {r1, r2}
  Unset = Unset
  MaxMails = 3
  MaxUnseen = 2
  EngineIds = {e1, e2, e3}
  Tabs = {r1, r2}
  Ready = Ready
  MaxSwitches = 4
  Quota = 2
  Window = 3
  MaxRequests = 6
  MaxClock = 3
  CardCalls = {r1, r2, r3}
  Cards = {k1, k2}
  NoCard = NoCard
  MaxCardFaults = 1
  Purchases = {r1, r2, r3}
  MaxInvoiceFaults = 1
  AccessCalls = {r1}
  Members = {ann}
  Homes = {h1, h2}
  KeyIds = {k1}
  NoHome = NoHome
  MaxRoleChanges = 2
  MaxQueryFaults = 1
  Attempts = {t1, t2, t3}
  SignUps = {f1}
  Identities = {j1}
  Addresses = {x1, x2}
  NoAddress = NoAddress
  MaxMoves = 1
  ma = ma
  mb = mb
  mc = mc
  md = md
  s0 = s0
  s1 = s1
  s2 = s2
  MapUrls = {ma, mb, mc, md}
  MapSeed = ma
  PageLinks <- MCPageLinks
  Maps = {s0, s1, s2}
  RootMaps <- MCRootMaps
  MapLists <- MCMapLists
  MapIndex <- MCMapIndex
  Preferred = {mb}
  UrlMatches = {ma, md}
  TitleMatches = {mc, md}
  MapsDepth = 1
  MapLimits = {0, 2, 3, 5}
  MapDepths = {0, 1, 2}
  Sites = {ma, mb, mc, md}
  Starts = {ma, mb, mc}
  LinksOf <- MCLinksOf
  NoUrl = NoUrl
  LocalDepth = 1
  LocalPages = 2
  LocalPermits = 2
  Callers = {r1, r2}
  BasePrice <- MCBasePrice
  AiKinds = {summary, extract}
  AiPrice = 2
  AiPermits = 1
  AiTries = 2
  Purse = 4
  Refill = 3
  MaxArrivals = 2
  MaxRefills = 1
  MaxDebitErrors = 1
  KnownUrls = {k1, k2, k3}
  Bodies = {b1, b2}
  NoVisit = NoVisit
  HistorySize = 2
  GraphSize = 1
  FirstInterval = 2
  LeastInterval = 1
  MostInterval = 3
  MinAge = 1
  MaxAge = 3
  ForceAge = 0
  MaxLinks = 1
  MaxVisits = 3
  MaxQueue = 1
  MaxNow = 3
  Bits = {x1, x2}
  Distance = 1
  BatchDocs = 4
  an = an
  j1 = j1
  j2 = j2
  w1 = w1
  w2 = w2
  PageInputs <- MCPageInputs
  FeaturesOf <- MCFeatures
  Detecting = TRUE
  Logging = TRUE
  MaxTaken = 3
  MaxPageFaults = 1
  NoText = NoText
  NoAnchor = NoAnchor
  Unanchored = Unanchored
  PageNodes <- MCPageNodes
  PageLength = 4
  MinLevel = 2
  MaxLevel = 3
  MinContent = 3
  BlockLimits = {0, 1}
  NoHead = NoHead
  Replies <- MCReplies
  DocTexts <- MCDocTexts
  Takeaways = 2
  LinkSettings <- MCLinkSettings
  References <- MCReferences
  HostNames <- MCHosts
  NonPages = {"style"}
  SameHost = SameHost
  Terminals = {t1, t2}
  MaxPairs = 3
  MaxCommands = 4
INVARIANTS
  AccountsAreSound
  TokensAreSpent
  AdmissionsAreBounded
  PaymentsHold
  ActsWereAllowed
  SignInsAgree
  UrlSearchesHold
  BudgetsHold
  FrontierRemembers
  ContentIsKept
CHECK_DEADLOCK FALSE
