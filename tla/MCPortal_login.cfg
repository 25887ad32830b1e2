CONSTANTS
  t1 = t1
  t2 = t2
  ann = ann
  bob = bob
  Tabs = {t1, t2}
  Users = {ann, bob}
  Segments <- Words
  Configs <- Directories
  NoPolicy = NoPolicy
  None = None
  MaxDepth = 4
SPECIFICATION Spec
INVARIANTS
  OnlyAdmitted
PROPERTIES
  LinksOpen
  LandsWhereAsked
SYMMETRY Symmetry
CHECK_DEADLOCK FALSE
