SPECIFICATION NamesFairSpec
CONSTANTS
  Kinds <- AllKinds
  Letters = {"x", "y"}
  Configs <- PlainNames
  Foreign <- ForeignObjects
  MaxHarm = 2
CHECK_DEADLOCK FALSE
INVARIANT
  NothingForgotten
PROPERTY EveryObjectRestored
