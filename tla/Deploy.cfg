\* Saves and switches overtake a replicate that may fail; agents edit the file and
\* restart the process, start everything or stop everything, or die in between;
\* the process comes and goes, or comes up crippled.
CONSTANTS
  Setting <- TwoSettings
  Cuts = {}
  ScriptCount = 1
  Disturbance = {"save", "switch", "replicate fails", "sipxecs", "agent dies", "process dies", "service start", "init fails"}
  NoFile = NoFile
  Blank = Blank
  Nil = Nil
SPECIFICATION Spec
INVARIANTS
  TypeOK
  PartIsCurrent
  RunsOnOneVersion
PROPERTY DeployedIsKept
