SPECIFICATION Spec
CONSTANTS
  NumPops = 2
  FilesOf <- MCFilesOf
  ManifestOf <- MCManifestOf
  ModeChoices <- MCModes
  Sources <- MCSources
  Config = "zsh-lint.json"
  MaxVersion = 3
  MaxEdits = 2
  ConfigSays <- MCConfigSays
  Findings <- MCFindings
  RuleOf <- MCRuleOf
  Severe <- MCSevere
  Outputs <- MCOutputs
  Targets <- MCTargets
INVARIANTS
  ManifestIsAttested
