INIT Init
NEXT Next
CONSTANTS
  WsWorlds <- MCWsWorlds
  SelectionCases <- MCSelectionCases
  ManifestWorlds <- MCManifestWorlds
  NameRank <- MCNameRank
  ProfileWorlds <- MCProfileWorlds
  ConfigWorlds <- BrowserNotFirst
  c1 = c1
  c2 = c2
  Pkg = {1, 2, 3}
  PubCargo = {c1, c2}
  PubWorkspaces <- PublishWorkspaces
  Edits = 1
  Lost = 1
  MaxFaults = 1
  MaxConcurrent = 2
  Installer = {1, 2, 3}
  Crate <- const_Crate
  Command <- const_Command
  OldListing <- const_OldListing
  Projects <- const_Projects
  MaxBuilds = 3
  MaxEvents = 2
INVARIANT
  ListsReplaced
CHECK_DEADLOCK FALSE
