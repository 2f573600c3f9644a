CONSTANTS
  Titles = {"abc", " ab"}
  Priorities = {"medium", "high"}
  Users = {"u1"}
  MaxEvents = 3
SPECIFICATION Spec
INVARIANTS
  StoredInOrder
  StoredIsWhatWas
  HistoryIsLegal
  RefusedIsLast
