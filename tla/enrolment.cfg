SPECIFICATION Spec
CONSTANTS
  None = None
  Requests = {r1, r2}
  Secrets = {1, 2}
  Batches = {1, 2, 3}
  PerBatch = 1
  Steps = {1, 2}
INVARIANT ConfirmedIsProven
