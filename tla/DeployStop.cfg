\* A stop of everything that meets a change of the settings.
CONSTANTS
  Setting <- TwoSettings
  Cuts = {0}
  ScriptCount = 1
  Disturbance = {"save", "sipxecs"}
  NoFile = NoFile
  Blank = Blank
  Nil = Nil
SPECIFICATION Spec
PROPERTY StopRunNeverStarts
