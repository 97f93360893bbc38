SPECIFICATION Spec
CONSTANTS
  None = None
  Cameras = {u1}
  Policy = "after"
  Fresh = 1
  Retention = 1
  MaxTime = 2
PROPERTIES CompletedWithProof
