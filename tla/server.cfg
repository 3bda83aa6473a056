SPECIFICATION Spec
CONSTANTS
  ApplicationPath <- App
  SystemPath <- Sys
  ModulesPath <- Mod
  t1 = t1
  bad = bad
  ig = ig
  None = None
  Dir <- MCDirBlog
  PhpFile <- MCPhpBlog
  IgnoreFile = {}
  PhpText = {t1, bad}
  Parses = {t1}
  GlobalText = {}
  IgnoreText = {ig}
  IgnoredNames = {}
  ModuleLists <- MCListsBlog
  ModulesOf <- MCBlogEnabled
  Bootstrap <- Boot
  Tree0 <- NoSub
  Editable <- MCEditBlog
  MaxTime = 3
  MaxSavers = 1
  MaxRestarts = 1
  QueueLen = 1
INVARIANTS TypeOK NoLostUpdate ChangesAreTimed PublishedTogether CacheUsesCurrent
PROPERTIES EventuallyCurrent
