SPECIFICATION MCSpec
CONSTANTS
  e1 = e1
  e2 = e2
  p1 = p1
  p2 = p2
  q1 = q1
  Exams = {exam}
  ExamRequests = {e1, e2}
  ExamQuestionCount = 1
  ExamPassCount = 1
  MaxSubmits = 2
  ExamFaults = {"call", "mistake", "flag", "read", "write", "crash", "midnight"}
  Sessions = {session}
  PracticeRequests = {p1, p2}
  MaxRunning = 2
  PracticeFaults = {"call", "save", "mistake", "read", "write", "crash", "midnight"}
  Questions = {q1, q2}
  MaxDay = 1
CHECK_DEADLOCK FALSE
PROPERTIES KeepsTheLedger SubmissionCompletes CompletionCompletes
