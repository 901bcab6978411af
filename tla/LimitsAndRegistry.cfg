SPECIFICATION PartsSpec
SYMMETRY Interchangeable
CONSTANTS
  Helpers = {h1, h2}
  Main = main
  Mate = mate
  Budget = 7
  Ratio = 3
  MaxChunk = 2
  MateAllowance = 2
  NoTime = NoTime
  MaxClock = 60
  MaxMoveTime = 30
  MaxMargin = 10
  CasualHard = 20
  CasualSoft = 2
  SafetyMargin = 2
  MarginCap = 3
  MarginShare = 100
  ExtensionMult = 5
  CooldownMult = 3
  ExtensionFraction = 8
  Emergency = 20
  Floor = 5
  FractionScale = 1920
  NormalFraction = 27
  EmergencyFraction = 160
  Games <- MCGames
  OpponentClocks <- MCOpponents
  Presets <- MCPresets
  OtherRequests <- MCOthers
  Interrupts = TRUE
  Lag = 2
  MoveBound = 5
  None = None
  Operators = {p, q}
  Lineages = {l1, l2}
  Arenas = {a1, a2}
  MaxGenerations = 2
  MaxCrashes = 1
INVARIANTS
  BudgetIsSound
  MatchIsSound
  CooldownCountsMoves
PROPERTIES
  RegistryIsSound
CHECK_DEADLOCK FALSE
