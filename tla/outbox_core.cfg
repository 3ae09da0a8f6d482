SPECIFICATION Spec
CONSTANTS
  Tickets = {t1}
  Groups = {g1}
  BulkTickets = {t1}
  GroupTexts = {x, y}
  Writers = {w1, w2}
  NoWriter = NoWriter
  GroupFiles = GroupFiles
  Absent = Absent
  Torn = Torn
  MaxWrite = 3
SYMMETRY Symmetry
INVARIANTS
  PublishedOnlyLanded
  LandedNeverLost
PROPERTIES
  PromiseKept
