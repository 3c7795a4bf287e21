SPECIFICATION Spec
CONSTANTS
  Requests = {1, 2}
  None = None
  MaxUrls = 1
  SessionRequests = {1, 2, 3}   \* one more, so that the cache evicts
  Fields <- TwoFields
  Targets = {t1, t2}
  MaxConnections = 2
  MaxSnapshots = 2
  MaxCache = 1
  Options = {{}, {"clear", "submit"}}
  MaxBlockers = 1
  FieldKinds = {"plain", "masked", "stubborn", "locked", "gone", "checkbox"}
  Usable = {1, 3}
  MaxElements = 3
  MaxReported = 2
  MaxSent = 3
  MaxMessages = 2
  MaxRequests = 2
  MaxConsole = 1
  MaxRefs = 2
INVARIANTS
  TypeOK RefsStayFound BlockersRespected EventsRecorded PicturesAsAsked
PROPERTIES
  NewestHandlerActs RequestsAnswered FillsReportTruly DiscoveriesReportNew
CHECK_DEADLOCK FALSE
