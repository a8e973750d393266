SPECIFICATION Spec
CONSTANTS
  app = app
  mod = mod
  lib = lib
  a = a
  b = b
  m1 = m1
  m2 = m2
  l1 = l1
  l2 = l2
  Paths <- AllFiles
  Sources = {app, mod}
  TextsOf <- Contents
  FirstTexts <- AllThere
  ImportsOf <- Imports
  Edited = {mod}
  Written = {}
  Created = {}
  Deleted = {lib}
  OnlyOpen = FALSE
  Ages = {0, 1}
  Absent = Absent
  Closed = Closed
  NoTree = NoTree
  Empty = Empty
  Unread = {unread}
INVARIANT NoFilesLeft
CHECK_DEADLOCK FALSE
