SPECIFICATION Spec
CONSTANTS
  navigator = navigator
  commander = commander
  ekf2 = ekf2
  simulator = simulator
  Modules = {navigator, commander, ekf2, simulator}
  Kind <- MCKind
  Finite <- MCFinite
  Callers = {boot, shell}
  Commands <- MCCommands
  boot = boot
  shell = shell
  Instances = {t1, t2}
  MaxTasks = 2
  StartTries = 2
  StopTries = 1
  Nil = Nil
INVARIANTS
  TypeOK
  SlotSound
  InstanceSound
  NoDangling
PROPERTIES
  CommandsReturn
VIEW View
CHECK_DEADLOCK FALSE
