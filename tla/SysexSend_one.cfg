SPECIFICATION FairSpec
CONSTANTS
  Senders = {"event"}
  Unplugs = TRUE
  MaxDisconnects = 4
INVARIANT
  SentBeforeReturn
PROPERTY
  NothingReplaced
  ReturnsWhenPlugged
