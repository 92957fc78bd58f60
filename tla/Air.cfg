SPECIFICATION AirFairSpec
CONSTANTS
  Powers = {12, 13, 14, 15}
  MaxLen = 4
  Channels <- MCChannels
  DataRates <- MCDataRates
  Modulations <- MCModulations
  Unmapped <- MCUnmapped
  Heard <- MCHeard
  Asked <- MCAsked
  MaxHops = 2
  Nothing = Nothing
  Refused = Refused
  Reports <- MCReports
  Receptions <- MCReceptions
  MaxRelays = 2
INVARIANTS
  NeverMore
  ExactIfListed
  ClosestInOrder
  MicSurvives
  UplinkAsHeard
  DownlinkAsAsked
  WindowAsAsked
  FrequencyAsAsked
  
  ItemsSurvive
PROPERTY
  DecodingEnds
CHECK_DEADLOCK FALSE
