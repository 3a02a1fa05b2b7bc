SPECIFICATION FairSpec
ACTION_CONSTRAINT LeastTime
CONSTANTS
  NoUser = NoUser
  NoTime = NoTime
  NoBrief = NoBrief
  NoPost = NoPost
  NoLink = NoLink
  Users = {adm}
  Admins = {adm}
  Creator = adm
  Workers = {adm}
  Reviewers = {adm}
  Churn = {}
  Platforms = {p1}
  Sessions = {s1, s2}
  Times = {1, 2, 3, 4}
  Briefs = {full}
  Payloads = {NoBrief}
  Storable = {full}
  RouteReady = {full}
  RouteComplete = {full}
  Urls = {odd_url, url}
  RouteUrls = {odd_url, url}
  ValidUrls = {url}
  ReviewReady = {full}
  Complete = {full}
PROPERTIES
  EveryRequestAnswered
