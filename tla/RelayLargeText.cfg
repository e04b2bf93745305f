SPECIFICATION Spec
CONSTANTS
  Scripts <- LargeText
  ProxyUrl <- ShortUrl
  MaxBody = 4
  Usize = 16
CHECK_DEADLOCK FALSE
INVARIANT NothingRefused
