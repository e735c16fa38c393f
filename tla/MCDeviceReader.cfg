\* Two callers with one known_hosts file, one answer each, one mishap of every kind.
SPECIFICATION Spec
CONSTANTS
  Anonymous = Anonymous
  Letters = {"#", "a", "k", "l", "n", "p", "q", "t"}
  Whole = Whole
  Noise = "#"
  all = all
  one = one
  natal = natal
  buzios = buzios
  old = old
  new = new
  Callers = {all, one}
  Hosts = {natal, buzios}
  Keys = {old, new}
  FirstKey = old
  Targets <- Where
  Queries <- Asked
  Documents <- Docs
  MaxAnswers = 1
  Limit <- Bounds
  MaxMishaps = 2
INVARIANTS
  TextsAreRead
  AnswersAreTheRouters
  RightPinIsAccepted
  FileStaysSmall
PROPERTIES
  EveryoneIsAnswered
CHECK_DEADLOCK FALSE
