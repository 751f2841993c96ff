SPECIFICATION MCSpec
CONSTANTS
  Exams = {e1}
  Questions = {q1}
  Requests = {r1, r2}
  ExamQuestionCount = 1
  ExamPassCount = 1
  MaxDay = 0
  MaxSubmits = 2
  Faults = {}
SYMMETRY Symmetry
CHECK_DEADLOCK FALSE
INVARIANT GradedAtMostOnce
