INIT Init
NEXT Next
CONSTANTS
  Crate <- MCCrate
  FeatureWorlds <- MCFeatureWorlds
  TreeOptions <- MCTreeOptions
  LtoWorlds <- MCLtoWorlds
  OutputWorlds <- MCOutputWorlds
  InvocationWorlds <- InvWorlds
  ScriptWorlds <- MCScriptWorlds
  Places = {"here", "there"}
  Texts <- MCTexts
  MsgCommands <- MCCommands
  InfoCargo = {c1, c2}
  InfoWorlds <- InfoFamilies
INVARIANTS
  UnitGraphRight
  TreeRight
  RustcRunsRight
  ScriptsRight
  ReplayFaithful
  InfoRight
  SharedOnce
CHECK_DEADLOCK FALSE
