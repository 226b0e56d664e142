CONSTANTS
  short = short
  long = long
  endless = endless
  Series = {short, long, endless}
  Listing <- MCListing
  Workers = 3
  Interval = 2
  MaxRetries = 2
  MaxPages = 2
SPECIFICATION FairSpec
INVARIANTS
  SeriesWhole
  SlotsSpaced
PROPERTIES
  FetchEnds
CHECK_DEADLOCK FALSE
