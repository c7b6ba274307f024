SPECIFICATION FairSpec
CONSTANTS
  Proxies = {p, q}
  Agents = {ann, bob}
  Addrs <- Addresses
  Owner <- OwnerOf
  Uris <- Names
  Host <- HostOf
  Contact <- ContactOf
  Public <- AllPublic
  Hidden = {}
  Local <- LocalOf
  Extern <- ExternOf
  Bound <- Locators
  RecordRoute = {p, q}
  Openings <- Calls
  MaxForwards = 3
  MaxRequests = 2
  MaxMishaps = 1
  None = None
  p = p
  q = q
  ann = ann
  bob = bob
  pIn = pIn
  pOut = pOut
  qIn = qIn
  qOut = qOut
  annAt = annAt
  bobAt = bobAt
  bobName = bobName
  bobAtQ = bobAtQ
  loopAtP = loopAtP
  annUri = annUri
  bobUri = bobUri
INVARIANTS
  TypeOK
  AnswersComeHome
  StaysInPath
  Paths
PROPERTIES
  AnswersArrive
  AnswersSurvive
  TrafficCeases
  TrafficRunsDown
CHECK_DEADLOCK FALSE
