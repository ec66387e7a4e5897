\* Two clients, one ad: puts and gets with lost replies, retries and late requests.
CONSTANTS
  k1 = k1  k2 = k2  v1 = v1  v2 = v2
  Client = {k1, k2}
  Url = {u1}
  Value = {v1, v2}
  Retries = 2
  MaxCalls = 2
  None = None
SPECIFICATION Spec
SYMMETRY ClientSymmetry
INVARIANTS TypeOK AcknowledgedPutIsStored OnePutReturns GetIsCurrent LearntIsFoundAgain
PROPERTIES CallsAreOfOneStore
CHECK_DEADLOCK FALSE
