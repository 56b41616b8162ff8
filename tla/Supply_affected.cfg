SPECIFICATION Spec
CONSTANTS
  a = a
  b = b
  c1 = c1
  c2 = c2
  app = app
  addon = addon
  sec = sec
  opt = opt
  x = x
  Null = Null
  Letter = {x}
  Upload = {1, 2}
  Watcher = {1, 2}
  Product = {a, b}
  PatchType = {sec, opt}
  FileName = {"f"}
  Content = {c1, c2}
  Package = {app, addon}
  MaxTime = 1
  Fault = {"upload", "server", "watch", "unwatch", "retire", "expire", "host", "installer", "rollback", "reboot", "hand", "clock", "tick"}
  Body <- Bodies
  Watch <- Watch1
  World <- ByHandOnly
  Brings <- Carries
  Repo <- Repository
  NameOf <- Names
  SlugOf <- Slugs
  Containing <- Holds
INVARIANT ListedIsMissing
CHECK_DEADLOCK FALSE
