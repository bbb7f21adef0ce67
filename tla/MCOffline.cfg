SPECIFICATION UnmixedSpec
CONSTANTS
  Readers = {"seed", "visual", "golden", "split"}
  RawCorpora <- MCCorpora
  FirstCorpora <- MCFirst
  SessionCount = 5
  TurnsTillMidnight = 1
  Contents = {"c1", "c2"}
  Missing = "missing"
  NoImage = "none"
  NoMention = "none"
  Unmapped = 99
  Everyone = "all"
  Aliases <- MCAliases
  SenderId <- MCSenderId
  NoSender = 0
  Matches <- MCMatches
  Inaccessible = {2}
  MaxEdits = 1
  MaxCrashes = 1
  MaxSends = 1
  Operators = {o1, o2}
  Encoders = {e1, e2}
  FirstEncoder = e1
  BatchSize = 2
  Similar <- MCSimilar
  AlikeHash = {}
  MaxBuilds = 2
  NoFile = NoFile
  Torn = Torn
  QuestionSets <- MCQuestions
  ClusterFiles <- MCClusters
  ReviewFiles <- MCReviews
  Multiparty = {2}
  Ranking <- MCRanking
  Rewritable = {"t2", "t4"}
  Quotable <- MCQuotable
  CuratedB <- MCCuratedB
  CuratedC <- MCCuratedC
  QuotaA <- MCQuotaA
  QuotaC <- MCQuotaC
  Refusals = 1
  Conflicts = 1
  PerChannel = 1
  Metadata = 1
  TierACount = 4
  TierBCount = 4
  TotalQueries = 11
  TotalDev = 4
  DevQuota <- MCDevQuota
  MinTolerance = 1
  MaxCluster = 2
  ControlEvery = 3
  LeakPercent = 30
  SaturationPercent = 70
INVARIANTS CausalRanks ServedMediaReadable VectorsAreTheirMedia SplitSound GateAccounts
PROPERTIES OrdinalsStay
CHECK_DEADLOCK FALSE
SYMMETRY Interchangeable
