\* A behaviour is one call: it stops when the call has returned.
SPECIFICATION CallSpec
CHECK_DEADLOCK FALSE
CONSTANTS
  PrimaryBatch = 6
  SmallBatch = 2
  ChunkSpeakerBatch = 3
  RowLength = 2
  DecodeInputs <- MCDecode
  SegmentInputs <- MCSegments
  FilterInputs <- MCFilter
  AssignInputs <- MCAssign
  CutInputs <- MCCut
  MaskInputs <- MCMask
  ExtractInputs <- MCExtract
  ChunkInputs <- MCChunkEmbedding
  LayoutInputs <- MCLayout
  DerInputs <- MCDer
  MappingInputs <- MCMapping
  WindowInputs <- MCWindows
  EmbeddingInputs <- MCPretrained
  SessionInputs <- MCSessions
  ReportInputs <- MCReport
  SpecInputs <- MCSpecs
  ValidIds = {"e", "d", "c"}
  SafeFiles = {"f"}
  Datasets = {"d"}
INVARIANTS
  PretrainedLoads
