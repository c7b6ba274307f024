SPECIFICATION FairSpec
CONSTANTS
  Processes = {p1}
  Options = {bind, record}
  BoolOptions = {record}
  Values = {own1, own2, any, yes, No}
  False = No
  None = None
  Deployments <- Deploy
  Default <- Defaults
  BindAddr = bind
  Agenda <- Modules
  MaxRetry <- Retries
  Puts <- Wanted
  Bindable <- CanBind
  MaxMishaps = 0
  MaxBoots <- Boots
  Asked <- AskGracefully
  p1 = p1
  p2 = p2
  bind = bind
  record = record
  own1 = own1
  own2 = own2
  any = any
  yes = yes

PROPERTIES
  GracefulCommandsHappen
CHECK_DEADLOCK FALSE
