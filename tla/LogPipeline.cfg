SPECIFICATION Spec
CONSTANTS
  Names <- MCNames
  Situations <- MCSituations
  SanitizeEvent <- MCSanitizeEvent
  Sanitize <- MCSanitize
  IsIdentifier <- MCIsIdentifier
  TracebackText <- MCTracebackText
  StackText <- MCStackText
  json_dumps <- MCjson_dumps
  str <- MCstr
  MAX_CONTEXT_VARIABLES = 12
  MAX_SKIPPED_FRAMES = 2
  MAX_FORMAT_DIRECTIVES = 2
  MAX_RENDERED_EVENT_LENGTH = 2000
  MaxNesting = 2
  MAX_DECODE_ROUNDS = 3
  MAX_SUBSCRIPT_LENGTH = 4
  MAX_SWALLOWED_KEYS = 8
  QUERY_LOOKBACK = 4096
  MAX_DEPTH = 3
  MAX_ITEMS = 3
  MAX_STRING_LENGTH = 100
  MAX_EVENT_NODES = 40
  MAX_EVENT_SCAN = 3200
  MAX_EVENT_OUTPUT = 400
  MAX_JSON_NESTING = 6
  JSON_WORK_FACTOR = 8
  JSON_WORK_BASE = 64
  MAX_KEY_LENGTH = 6
  MAX_MESSAGE_LENGTH = 40
  MAX_SUB_EXCEPTIONS = 2
  MAX_SUMMARY_ERRORS = 2
  MAX_IDENTIFIER_LENGTH = 4
  MAX_EXCEPTION_CHAIN = 3
  MAX_TRACEBACK_FRAMES = 2
  MAX_TRACEBACK_WALK = 4
  MAX_TRACEBACK_LINES = 12
  MAX_TRACEBACK_LENGTH = 90
  MAX_DESCRIPTION_LENGTH = 50
  MAX_FILENAME_LENGTH = 8
INVARIANTS
  NothingSecretIsWritten
  LineTellsTheCall
  MetadataIsEstablished
CHECK_DEADLOCK FALSE
