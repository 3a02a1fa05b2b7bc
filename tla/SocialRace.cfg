SPECIFICATION Spec
SYMMETRY Symmetry
CONSTANTS
  NoUser = NoUser
  NoTime = NoTime
  NoBrief = NoBrief
  NoPost = NoPost
  NoLink = NoLink
  Users = {adm, mem}
  Admins = {adm}
  Creator = mem
  Workers = {adm, mem}
  Reviewers = {adm}
  Churn = {mem}
  Platforms = {p1}
  Sessions = {s1, s2}
  Times = {t1, t2, t3, t4}
  Briefs = {blank, full}
  Payloads = {NoBrief, blank, full}
  Storable = {blank, full}
  RouteReady = {full}
  RouteComplete = {full}
  Urls = {bad_url, odd_url, url}
  RouteUrls = {odd_url, url}
  ValidUrls = {url}
  ReviewReady = {full}
  Complete = {full}
INVARIANTS
  PublishedHasValidLink
  LockProtectsDecision
PROPERTIES
  NoStaleCommit
