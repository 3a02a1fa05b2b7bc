SPECIFICATION Spec
SYMMETRY Symmetry
CONSTANTS
  NoUser = NoUser
  NoTime = NoTime
  NoBrief = NoBrief
  NoPost = NoPost
  NoLink = NoLink
  Users = {adm, mem}
  Admins = {adm}
  Creator = mem
  Workers = {adm, mem}
  Reviewers = {adm}
  Churn = {}
  Platforms = {p1}
  Sessions = {s1}
  Times = {t1, t2, t3}
  Briefs = {blank, full}
  Payloads = {NoBrief, blank, full}
  Storable = {blank, full}
  RouteReady = {full}
  RouteComplete = {full}
  Urls = {url}
  RouteUrls = {url}
  ValidUrls = {url}
  ReviewReady = {full}
  Complete = {full}
PROPERTIES
  PublishedNeverDeleted
