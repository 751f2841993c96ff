SPECIFICATION MCSpec
CONSTANTS
  Exams = {e1}
  Questions = {q1, q2}
  Requests = {r1, r2, r3}
  ExamQuestionCount = 2
  ExamPassCount = 1
  MaxDay = 0
  MaxSubmits = 2
  Faults = {"complete", "crash"}
SYMMETRY Symmetry
CHECK_DEADLOCK FALSE
INVARIANTS TypeOK GradeIsOfOneSnapshot AcknowledgedAnswersAreGraded GapsAreQueued OrderlyExams
