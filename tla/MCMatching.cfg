SPECIFICATION Spec
CONSTANTS
  Names <- MCNames
  Filters <- MCFilters
  Covers <- MCCovers
  Counts <- MCCounts
  Rules <- MCRules
  Events <- MCEvents
INVARIANTS
  TypeOK
  NothingLeftOver
  MatchesAsMeant
CHECK_DEADLOCK FALSE
