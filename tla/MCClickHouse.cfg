\* Two processes and five commands; three tasks; three writes to two keys;
\* four class statements.
SPECIFICATION Spec
CONSTANTS
  Processes = {p1, p2}
  Tables = {"t", "u"}
  Columns = {"a", "b", "c"}
  Absent = Absent
  Models <- SomeModels
  ByHand <- SomeByHand
  MaxCommands = 5
  MaxEdits = 2
  MaxFailures = 2
  Tasks = {t1, t2, t3}
  Configs = {"c1", "c2"}
  CliConfig = "cli"
  None = None
  MaxClients = 4
  MaxChanges = 5
  Writers = {w1, w2}
  Keys <- SomeKeys
  Bodies = {1}
  Nothing = Nothing
  MaxTime = 2
  MaxWrites = 3
  Statements <- SomeStatements
  MaxStatements = 4
SYMMETRY Symmetry
INVARIANTS
  TypeOK
  SchemaFollowsHistory
  OneClient
  ViewIsLastWrite
  RegistryTruthful
\* A behaviour stops at its bounds.
CHECK_DEADLOCK FALSE
