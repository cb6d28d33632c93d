\* Lists of models merged, fetched, restored and probed, each in scenes of its own.
CONSTANTS
  cb = cb tr = tr
  Channels <- InOrder
  Sentinel = {9}
  TTL = 1
  LongestPause = 2
  MaxAge = 1
  Never = Never
  Scenes <- All
  MaxFails = 2
  MaxMoves = 2
SPECIFICATION FairCatalogSpec
INVARIANT ListingSound
PROPERTIES ChannelsSpared CatalogHeals
CHECK_DEADLOCK FALSE
