SPECIFICATION Spec
CONSTANTS
  app = app
  mod = mod
  lib = lib
  a = a
  m1 = m1
  m2 = m2
  b = b
  l1 = l1
  l2 = l2
  Paths <- AllFiles
  Sources = {app}
  TextsOf <- Contents
  FirstTexts <- NoLib
  ImportsOf <- Imports
  Edited = {lib}
  Written = {app}
  Created = {lib}
  Deleted = {app, mod}
  OnlyOpen = FALSE
  Ages = {0, 1}
  Absent = Absent
  Closed = Closed
  NoTree = NoTree
  Empty = Empty
  Unread = {unread}
SYMMETRY LibTexts
INVARIANTS TypeOK ImportsAreKnown Fresh Complete PassesEnd
CHECK_DEADLOCK FALSE
