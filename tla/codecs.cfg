SPECIFICATION Spec
CONSTANTS
  Configs <- MCConfigs
  Options <- MCOptions
  RawIds <- MCRawIds
  Payloads <- MCPayloads
  Flows <- MCFlows
  CutLens = {2, 3, 4, 5, 34}
  FlagBytes = {0, 1, 31, 64, 162, 255}
  OtherOpts <- MCOtherOpts
  OtherV6Opts <- MCOtherV6Opts
  MaxSeen = 2
  NoAgent = NoAgent
INVARIANTS
  TypeOK
  RoundTrip
  DecodeExact
  KeySeparates
  VssUnderstood
CHECK_DEADLOCK FALSE
