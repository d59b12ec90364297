SPECIFICATION CamSpec
CONSTANTS
  t1 = t1
  t2 = t2
  d1 = d1
  d2 = d2
  Threads <- MCThreads
  Devices <- MCDevices
  NoThread = no_thread
  NoDevice = no_device
  NumCameras = 1
  Ids <- MCIds
SYMMETRY MCSymmetry
INVARIANTS
  BoundsChecked
