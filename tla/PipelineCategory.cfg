SPECIFICATION Spec
CONSTANTS
  eth = eth
  cam = cam
  laptop = laptop
  talk = talk
  Pipelines <- OneCapture
  Devices <- TheCamera
  Flows <- OneFlow
  Owner <- CameraOwnsFlow
  Cameras <- TheCamera
  MaxPackets = 3
CHECK_DEADLOCK FALSE
INVARIANT
  AdminCategoryKept
