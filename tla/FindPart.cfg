SPECIFICATION Spec
CONSTANTS
  Machines = {"Fetch"}
  Bytes = {}
  MaxBytes = 0
  Contexts = {4}
  MaxBatch = 1
  Lanes = 1
  SampleLen = 5
  Vocabulary = {"Ascii", "Lead2"}
  Procs = {p, q}
  MaxCommands = 4
  Fetchers = {f, g}
  FileSize = 3
  Attempts = 3
  MaxFetches = 2
  DefaultBlock = 2
  TinyWindow = 3
  ShortWindow = 4
  WideWindow = 5
  Configs <- ParsedConfigs
  DefaultConfig <- FreshConfig
  Environments <- SomeEnvs
  Requests <- SomeRequests
  Shells = {"p", "q"}
  Backends = {"vulkan", "ndarray", "ndarray-blas-openblas"}
  NameOf <- BuildNames
  HalfBackends = {"vulkan"}
  DefaultFeatures <- VulkanHalf
  ArgLists <- SomeArgs
  Crates = {"c"}
  Serving = {"worker"}
  Checker = "main"
  EnvValues = {"kernel", "reference", "other"}
  Devices <- SomeDevices
  DecodeRounds <- SomeRounds
  CheckRound <- CheckInputs
  Score <- KeyScore
  MaxLaunches = 4
  Loaders = {"p", "q"}
  MaxLoads = 3
  Repositories <- SomeRepositories
  WeightFiles <- SomeWeightFiles
  Windows = {4, 5}
  Floats = {"f32", "f16"}
INVARIANTS
  TargetWhole
