\* The init script called on a host without a configuration.
CONSTANTS
  Setting <- TwoSettings
  Cuts = {0}
  ScriptCount = 1
  Disturbance = {"service start"}
  NoFile = NoFile
  Blank = Blank
  Nil = Nil
SPECIFICATION Spec
PROPERTY StartNeedsConfig
