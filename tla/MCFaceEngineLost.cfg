SPECIFICATION Spec
CONSTANTS
  MaxDeaths = 1
  MaxBacklog = 0
PROPERTIES
  ReportsGoOn
