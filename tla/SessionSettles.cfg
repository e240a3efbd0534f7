CONSTANTS
  idn = idn
  modes = modes
  motor = motor
  speed = speed
  extra = extra
  PARAMLIST = idn
  MODELIST = modes
  MOTORSERIAL = motor
  REALTIMEDRIVEDATA <- RealTime
  Parameters <- ParameterSeq
  Implements <- FirstHasExtra
  Defaults <- Known
  Drives <- OneTwo
  Tabs <- OneTwo
  Bus <- OneTwo
  AutoLoads <- Either
  Saved <- OneTwo
  Protocols <- BothProtocols
  Lossy = FALSE
  MayReaddress = TRUE
  MaxClicks = 4
  MaxBacklog = 2
  Empty = Empty
  Garbled = Garbled
  NotShown = NotShown
  NoItem = NoItem
SPECIFICATION FairSpec
PROPERTY CollectionSettles
\* With no user and no connection the program waits for ever.
CHECK_DEADLOCK FALSE
