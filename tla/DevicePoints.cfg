SPECIFICATION DeviceSpec
CONSTANTS
  Classes = {"WCA", "ColdCart", "PowerModule", "IFSwitch", "LPR", "Cryostat", "FETIM", "LORTM", "Compressor"}
  Ports = {1, 2, 3, 4, 5, 6, 7, 8, 9, 10}
  Watched = {6}
  Unprobed = {"PA_HAS_TELEDYNE_CHIP", "SIGNAL_LASER_TEMP_MON"}
  MaxTemps = 2
INVARIANTS
  OwnValueShows
  PermanentsStay
PROPERTIES
  CatchesUp
