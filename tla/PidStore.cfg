SPECIFICATION Spec
CONSTANTS
  Sidecar = {"api", "worker"}
  Exe <- SameExe
  Image <- LinkedImage
  Pid = {p1, p2, p3, p4}
  OtherExe = {"editor"}
  NoPid = NoPid
  Launcher = "launcher"
  Nobody = "nobody"
  NoJson = NoJson
SYMMETRY Symmetry
INVARIANTS
  TypeOK
  FileTracks
  CleanupComplete
PROPERTY OthersSpared
