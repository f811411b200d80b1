CONSTANTS
  Values = {t}
  Fresh = {t}
  NoTask = NoTask
  MaxId = 4
  DefaultLimit = 2
  MaxLimit = 2
  ListLimit = 4
  MaxBigint = 6
  Absent = Absent
  NotANumber = NotANumber
SPECIFICATION Spec
INVARIANTS TypeOK NothingTwice NothingSkipped TotalMatchesPage
