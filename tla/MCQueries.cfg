\* Three calls compose a query; walks over three rows, with two changes.
SPECIFICATION Spec
CONSTANTS
  Null = Null
  Unset = Unset
  None = None
  Absent = Absent
  Root = "item"
  Target <- SomeTarget
  Fields <- SomeFields
  Typed <- SomeTyped
  Tables <- SomeTables
  Leaves <- SomeLeaves
  Bounds = {0, 1}
  MaxCalls = 3
  MaxLookups = 2
  Orders <- SomeOrders
  Rows = {1, 2, 3}
  Values = {1, 2}
  Sizes = {1, 2}
  MaxChanges = 2
INVARIANTS
  TypeOK
  DecodedAlike
  ExcludeComplements
  TerminalsAgree
  NoRowTwice
  NoRowLost
  FlagsHonest
PROPERTIES
  KeysTellApart
\* A client stops when it has no calls left, or no page to turn to.
CHECK_DEADLOCK FALSE
