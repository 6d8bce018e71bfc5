SPECIFICATION FairSpec
CONSTANTS
  Callers = {r1, r2}
  Keys = {concept}
  Health = health
  Contents = {one, two}
  Absent = Absent
  Malformed = Malformed
  FromFile = FromFile
  NoRow = NoRow
  Limit = 3
  Cooldown = 2
  TTL = 1
  MaxEdits = 2
INVARIANTS
  IInv
  WindowIsEarned
PROPERTIES
  OneFailurePerCaller
  OpenWindowEnds
  AnswersBecomeFresh
