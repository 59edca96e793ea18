SPECIFICATION Spec
CONSTANTS
  WordBits = 4
  RamWords = 32
  VertBits = 3
  HorBits = 4
  Protected = {"DSKPTH"}
  NoImage = NoImage
  WindowBits = 3
  LeftEdge = 3
  LineWidth = 24
  StandardPhase = 2
  DefaultWords = 2
  Lines = 11
  Clocks = 20
  ActiveHeight = 6
  Sprite = {0, 1}
  Setups <- MCSetups
  NoPass = NoPass
PROPERTIES
  AreaBlits
  LinesDrawn
  
  SpritesShown
