CONSTANTS
  s1 = s1
  s2 = s2
  u1 = u1
  u2 = u2
  a = a
  b = b
  ka = ka
  kb = kb
  star = star
  None = None
  Site = {s1, s2}
  Url = {u1, u2}
  UrlsOf <- TwoSites
  Name = {s1, s2}
  NameOf <- OwnNames
  Device = {a, b}
  Primary = a
  Key = {ka, kb, star}
  KeyOf <- Keys
  AliasOf <- Aliases
  Star = star
  StarUrls = {u1}
  Configs = {{a}, {a, b}}
  HistoryMode = "global_url"
  MergeMode = "daily_digest"
  Disturbances = {"edit", "import", "star", "delete", "reload", "db", "exception", "crash", "cancel"}
SPECIFICATION Spec
INVARIANTS HonestHistory SuccessMeansDelivered
