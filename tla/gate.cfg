CONSTANTS
  Null = Null
  Classes = {"crash", "blackhole", "latency", "misconfig", "targeting", "mem_leak"}
  Sdks = {TRUE, FALSE}
  BaseS = 60
  InjectS = 120
  Afters = {40, 89, 120}
  Losses <- SomeLosses
SPECIFICATION GateSpec
INVARIANTS LossNeverPasses QuietHasNoSymptom OngoingIsNotRecovered
