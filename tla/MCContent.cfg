SPECIFICATION MCSpec
CONSTANTS
  w1 = w1
  w2 = w2
  wa = wa
  wb = wb
  wc = wc
  a1 = a1
  a2 = a2
  xa = xa
  xb = xb
  LastQuestion = 4
  LastVersion = 2
  Wordings = {wa, wb, wc}
  NoText = "no text"
  Topics = {"rules", "signs"}
  DetectCategory <- MCDetect
  Classify <- MCClassify
  Prepdrive <- MCPrepdrive
  Templates <- MCTemplates
  Samples <- MCSamples
  PerTest = 2
  PageLimit = 2
  Workers = {w1, w2}
  Jobs <- MCJobs
  MaxJobs = 3
  MaxRewordings = 1
  MaxAttempts = 1
  BankFaults = {"load", "row", "text", "pack", "log", "mark", "save", "crash"}
  Askers = {a1, a2}
  Editions <- MCEditions
  LastExplained = 2
  Explanations = {xa, xb}
  NoExplanation = NoExplanation
  RuleSources = 1
  QuestionSources = 2
  CorpusTTL = 1
  PassageMax = 4
  ChunkMax = 3
  MaxEdits = 1
  TutorFaults = {"build", "question"}
SYMMETRY Symmetry
CHECK_DEADLOCK FALSE
INVARIANTS
  ContentTypeOK
  NumberedTestsAreStable
  PagesCoverThePack
  MarkedIsAskedOnce
  OrderlyTickets
  OrderlyPacks
  TutorIsGrounded
  PassagesCoverTheLaw
