\* A configuration that is refused ends the program.
CHECK_DEADLOCK FALSE
SPECIFICATION Spec
CONSTANTS
  None = None
  Error = Error
  Opaque = Opaque
  Segments <- MCSegments
  Braced <- MCBraced
  Enclosed <- MCEnclosed
  Captures <- MCCaptures
  Blank <- MCBlank
  Decode <- MCDecode
  Lower <- MCLower
  Texts <- MCTexts
  HoleOf <- MCHoleOf
  Users <- MCUsers
  Requests <- MCRequests
  Configs <- MCConfigs
INVARIANTS TypeOK DecidedByFirstMatch FieldsAreGiven EveryValueIsAsked StaticIsExact
