SPECIFICATION Spec
CONSTANTS
  Employees = {e1}
  Quizzes = {1, 2}
  Seconds = {2}
  Options = 2
  MaxEvents = 4
INVARIANTS
  TypeOK
  NoPartialAnswers
PROPERTIES
  ThanksMeansDone
  QuizEnds
CHECK_DEADLOCK FALSE
