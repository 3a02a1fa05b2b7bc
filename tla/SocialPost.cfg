SPECIFICATION Spec
SYMMETRY Symmetry
CONSTANTS
  NoUser = NoUser
  NoTime = NoTime
  NoBrief = NoBrief
  NoPost = NoPost
  NoLink = NoLink
  Users = {adm, mem}
  Admins = {adm}
  Creator = adm
  Workers = {adm, mem}
  Reviewers = {adm, mem}
  Churn = {mem}
  Platforms = {p1, p2}
  Sessions = {s1}
  Times = {t1, t2, t3}
  Payloads = {NoBrief, blank, fit, fullA, fullB, odd, mail}
  Briefs = {blank, fit, fullA, fullB, odd, mail}
  Storable = {blank, fit, fullA, fullB, odd}
  RouteReady = {fit, fullA, fullB, odd, mail}
  RouteComplete = {fullA, fullB, odd, mail}
  Urls = {odd_url, url}
  RouteUrls = {odd_url, url}
  ValidUrls = {url}
  ReviewReady = {fit, fullA, fullB}
  Complete = {fullA, fullB}
INVARIANTS
  TypeOK
  ExecutionBriefFrozen
  AlwaysOwned
  HistoryExplainsStatus
  PreflightSuffices
PROPERTIES
  OwnerActs
  PublishesWhatWasHandedOff
  KeepsContract
