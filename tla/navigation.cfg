SPECIFICATION Spec
CONSTANTS
  HelperArgs <- MCHelperArgs
  MaxNodes = 5
  MaxKinds = 3
  MaxModuleNodes = 8
  MaxModules = 2
INVARIANTS CursorMeansItsCall OwnNameIsFound TargetsOfOneCall RecognisersAgree CascadeAsDeclared
CHECK_DEADLOCK FALSE
