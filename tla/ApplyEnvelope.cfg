CONSTANTS
  InPlace = FALSE
  Plains <- MCPlains
  Ciphers <- MCCiphers
  Recipes <- MCRecipes
  Messages <- MCMessages
  MaxDepth = 3
  Theories <- MCTheories
  NameCode <- MCNameCode
  MaxPasses = 32
  VerifyValues <- MCVerifyValues
  DeviceCaps <- MCDeviceCaps
  InlineCaps <- MCInlineCaps
  BlockThreads = 2
  WordBits = 2
  BitmaskMax = 5
  MaxCandidates = 3
  DeviceJobs <- MCDeviceJobs
  CountJobs <- MCCountJobs
  KeyCache = 3
  TileCap = 2
  SmallTileCap = 1
  MaxPeriod = 4
  PairWeight <- MCPairWeight
  Dictionary <- MCDictionary
  NoWord = 255
  DefaultKeys = 3
  DefaultStarts = 2
  DefaultSample = 2
  ExportJobs <- MCExportJobs
  Expected <- MCExpected
  Scale = 4
  ComposeJobs <- MCComposeJobs
  FuseDepth = 8
  BenchStream <- MCBenchStream
SPECIFICATION EnvelopeSpec
INVARIANTS
  RoundTrip
  KeyAsSpecified
  PipelineMeaning
  PipelineRoundTrip
  BuffersApart
  BytecodeAsWritten
  CompiledAsMeant
  DivergenceAsked
  CountsAsDecoded
  DeviceAsHost
  RowsAsRanked
  RowsAsOnHost
CHECK_DEADLOCK FALSE
