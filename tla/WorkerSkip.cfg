CONSTANTS
  NoOrder = NoOrder
  NoQueue = NoQueue
  Callers = {c1, c2}
  NoOne = NoOne
  Devices = {default, device}
  Default = default
  NoDevice = NoDevice
  MaxLength = 2
  MaxId = 2
  MaxJobs = 3
SPECIFICATION Spec
INVARIANT SkippingGoesOn
