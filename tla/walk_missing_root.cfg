SPECIFICATION WalkSpec
CONSTANTS
  ApplicationPath <- App
  SystemPath <- Sys
  ModulesPath <- Mod
  t1 = t1
  t2 = t2
  bad = bad
  ig = ig
  None = None
  IgnoreText = {ig}
  Dir <- MCDir
  PhpFile <- MCPhpBlog
  IgnoreFile = {}
  PhpText = {t1, t2, bad}
  Parses = {t1, t2}
  GlobalText = {t2}
  IgnoredNames <- MCIgnored
  ModuleLists <- MCLists
  Tree0 <- NoBlog
  Editable <- MCEditBlog
  MaxTime = 3
  MaxSavers = 1
INVARIANTS CacheSound
