SPECIFICATION Spec
CONSTANTS
  Machines = {"Buffer", "Direct", "Cache", "Fetch", "Sizing", "Supervisor", "Decode", "Weights"}
  Bytes = {"Ascii", "Lead2", "E0", "Lead3", "Lead4", "Low", "High", "Invalid"}
  MaxBytes = 5
  Contexts = {0, 3}
  MaxBatch = 3
  Lanes = 2
  SampleLen = 4
  Vocabulary = {"Ascii", "Lead2"}
  Procs = {p, q}
  MaxCommands = 3
  Fetchers = {f}
  FileSize = 3
  Attempts = 3
  MaxFetches = 3
  DefaultBlock = 2
  TinyWindow = 3
  ShortWindow = 4
  WideWindow = 5
  Configs <- ParsedConfigs
  DefaultConfig <- FreshConfig
  Environments <- SomeEnvs
  Requests <- SomeRequests
  Shells = {one, other}
  Backends = {"vulkan", "ndarray", "ndarray-blas-openblas"}
  NameOf <- BuildNames
  HalfBackends = {"vulkan"}
  DefaultFeatures <- VulkanHalf
  ArgLists <- SomeArgs
  Crates = {c, d}
  Serving = {"worker"}
  Checker = "main"
  EnvValues = {"kernel", "reference", "other"}
  Devices <- SomeDevices
  DecodeRounds <- SomeRounds
  CheckRound <- CheckInputs
  Score <- KeyScore
  MaxLaunches = 4
  Loaders = {"p", "q"}
  MaxLoads = 3
  Repositories <- SomeRepositories
  WeightFiles <- SomeWeightFiles
  Windows = {4, 5}
  Floats = {"f32", "f16"}
CONSTRAINTS FewCrates LoneVariants
INVARIANTS
  TextExact
  ReturnsComplete
  CopyWhole
  TargetWhole
  ServedFits
  RestartShows
  DecodeExact
  CheckHonest
  WeightsRight
