\* Every configuration of three backends, every failure.
CONSTANTS
  npu = npu
  gpu = gpu
  big = big
  bonsai = bonsai
  other = other
  Ids = {npu, gpu, big}
  NoId = NoId
  Gpu = gpu
  NpuNamed = {npu}
  GpuNamed = {gpu}
  Models = {bonsai, other}
  Table <- MCTable
  Configs <- MCConfigs
  Outcomes = {"ok", "err", "panic"}
SPECIFICATION Spec
CHECK_DEADLOCK FALSE
INVARIANTS
  TypeOK
  LabelTruthful
  GoodAnswerNotWasted
  NoBackendTwice
  UnsureGoesToGpu
