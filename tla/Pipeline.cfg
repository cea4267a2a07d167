SPECIFICATION FairSpec
CONSTANTS
  eth = eth
  cam = cam
  laptop = laptop
  talk = talk
  Pipelines <- OneCapture
  Devices <- CameraAndLaptop
  Flows <- OneFlow
  Owner <- CameraOwnsFlow
  Cameras <- TheCamera
  MaxPackets = 2
CHECK_DEADLOCK FALSE
INVARIANTS
  TypeOK
  BytesConserved
  CloseIsWhole
  AlertsInTime
PROPERTIES
  AckSticks
  PipelinesEnd
