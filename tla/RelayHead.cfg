SPECIFICATION Spec
CONSTANTS
  Scripts <- HeadThenDescription
  ProxyUrl <- ShortUrl
  MaxBody = 4
  Usize = 16
CHECK_DEADLOCK FALSE
INVARIANT UrlsRewritten
