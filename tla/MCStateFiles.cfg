CONSTANTS
  Init0 = {i1}
  Adder = {a1}
  Node = {n1}
  Contact = {c1, c2}
  LegacyKey = LegacyKey
  FirstKey = FirstKey
  Absent = Absent
  Empty = Empty
  Garbage = Garbage
  NoFile = NoFile
  MaxKills = 2
SPECIFICATION Spec
CHECK_DEADLOCK FALSE
SYMMETRY FileSymmetry
INVARIANTS
  NeverDamaged
  ContactsKept
  IdentityHeals
PROPERTIES
  IdentityKept
