SPECIFICATION Spec
CONSTANTS
  Names <- MCNames
  Filters <- MCFilters
  Covers <- MCCovers
  Counts <- MCCounts
  Rules <- MCNotKept
  Events <- MCEvents
INVARIANTS
  MatchesAsMeant
CHECK_DEADLOCK FALSE
