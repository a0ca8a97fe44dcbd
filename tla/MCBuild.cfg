SPECIFICATION Spec
CONSTANTS
  Modules <- MCModules
  Lines <- MCLines
  Sources <- MCSources
  OptionSources <- MCOptionSources
  Headers <- MCHeaders
  Member <- MCMember
  Editable = {"b", "eh", "main"}
  Chosen = {2, 5, 11}
  MAX_EDITS = 1
  BUILD_STOPS = 1
  MAX_TIME = 2
INVARIANTS LibsCurrent LinksReady RunsCurrent
