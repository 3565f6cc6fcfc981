\* What becomes of the settings saved last, whatever administrators, replicates that
\* fail, processes that die or come up crippled did meanwhile.
CONSTANTS
  Setting <- TwoSettings
  Cuts = {0}
  ScriptCount = 1
  Disturbance = {"save", "switch", "replicate fails", "process dies", "init fails"}
  NoFile = NoFile
  Blank = Blank
  Nil = Nil
SPECIFICATION FairSpec
PROPERTIES
  SettingsTakeEffect
  KeepsContract
