SPECIFICATION FairSpec
CONSTANTS
  NULL = NULL
  ExtraTools = {"cancel_booking", "get_event_details"}
  UnknownTool = "create_booking"
  MaxHints = 2
  MaxCalls = 2
INVARIANTS
  TypeOK
  OneResultPerCall
  RendererIsBlind
  RequiredToolRan
  NothingSuspiciousRendered
  NoFakeBookingAnswer
PROPERTIES
  EveryRequestEnds
CHECK_DEADLOCK FALSE
