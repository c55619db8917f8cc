SPECIFICATION Spec
CONSTANTS
  Subjects = {"ring", "lock", "gc", "paths", "json", "source", "template", "targets", "argv",
              "dag", "records", "host", "win32", "memory", "lua"}
  NoNode = NoNode
  Thread = {"t1", "t2", "t3"}
  NoThread = "none"
  Cond = {"read", "write"}
  Rounds = 2
  InternalSize = 2
  MaxOptions = 2
INVARIANTS
  WritersAlone
  NobodyLooksAtFlag
  NothingUsedIsFreed
  CollectorSound
  TextRight
  SelectionRight
  DagFileRight
  
  RuntimeRight
PROPERTIES
  ImplementsFifo
  EverybodyGetsLock
CHECK_DEADLOCK FALSE
