SPECIFICATION Spec
CONSTANTS
  MaxDeaths = 1
  MaxBacklog = 2
INVARIANTS
  TypeOK
  CommandsStartClean
  InUseIsOpen
PROPERTIES
  AnswersMatch
  CallsReturn
  ReplacedReportsGoOn
