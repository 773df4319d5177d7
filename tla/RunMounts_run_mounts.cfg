SPECIFICATION Spec
CONSTANTS
  AbsPaths = {"/a", "/b", "/c", "/i", "/o", "/s", "/t", "/u", "/v"}
  Numbers = {"0", "1"}
  SELinux = FALSE
  Tasks = {"t1", "t2", "t3"}
  Procs = {"build", "run"}
  Containers = {"c1", "c2", "c3"}
  Locks = {"a", "b", "/a", "/b", "/c", "cwd"}
  Images = {"img"}
  ProcOf <- MCProcOf
  CtrOf <- MCCtrOf
  Commands = {"t3"}
  Stages = {"base"}
  Secrets <- MCSecrets
  SSHSources = {"default"}
  Content = {}
  Workloads <- MCWorkloads
  MayCrash = {"run"}
  SetupMayFail = TRUE
  CleanupMayFail = TRUE
INVARIANTS
  CacheExclusive
  LocksOwned
  
  

  
