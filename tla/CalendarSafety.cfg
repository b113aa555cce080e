CONSTANTS
  MaxPosts = 2
SPECIFICATION Spec
INVARIANTS
  MonthIsComplete
  DroppingHidesNothing
