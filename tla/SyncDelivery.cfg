CONSTANTS
  s1 = s1
  s2 = s2
  u1 = u1
  u2 = u2
  a = a
  b = b
  ka = ka
  kb = kb
  star = star
  None = None
  Site = {s1}
  Url = {u1, u2}
  UrlsOf <- OneSite
  Name = {s1}
  NameOf <- OneName
  Device = {a, b}
  Primary = a
  Key = {ka, kb, star}
  KeyOf <- Keys
  AliasOf <- Aliases
  Star = star
  StarUrls = {}
  Configs = {{a, b}}
  HistoryMode = "per_device"
  MergeMode = "per_site"
  Disturbances = {"cancel", "import", "crash", "db", "exception", "reload"}
SPECIFICATION FairPromisesSpec
INVARIANTS StaleCancelHarmless RetryPromiseKept
PROPERTIES OnlyMissingDevices EventuallyDelivered
