SPECIFICATION WalkSpec
CONSTANTS
  ApplicationPath <- App
  SystemPath <- Sys
  ModulesPath <- Mod
  t1 = t1
  t2 = t2
  bad = bad
  ig = ig
  None = None
  IgnoreText = {ig}
  Dir <- MCDirSub
  PhpFile <- MCPhp
  IgnoreFile <- MCAppIgnore
  PhpText = {t1, t2, bad}
  Parses = {t1, t2}
  GlobalText = {t2}
  IgnoredNames <- MCIgnored
  ModuleLists <- MCLists
  Tree0 <- Full
  Editable <- MCEditSub
  MaxTime = 2
  MaxSavers = 1
INVARIANTS WalkTypeOK QuietWalkExact CacheSound
