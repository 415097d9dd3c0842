SPECIFICATION MCSpec
CONSTANTS
  c1 = c1  c2 = c2
  Callers = {c1, c2}
  Wirings = {{"breaker", "limiter"}, {"limiter", "controller"}, {"limiter"}}
  WINDOW = 1  MIN_VOLUME = 2  RATIO_NUM = 1  RATIO_DEN = 2
  COOLDOWN = 1  MAX_PROBES = 1  PROBE_SUCCESSES = 2
  BURST = 2  COST = 2  MAX_WAIT = 1
  MIN_RATE = 1  MAX_RATE = 2  LATENCY_FLOOR = 1
  DECREASE_NUM = 7  DECREASE_DEN = 10
  INCREASE_STEP = 1  INCREASE_AFTER = 1  REFRACTORY = 1
  LATENCY_SLO = 1  RING_SIZE = 2  MIN_SAMPLES = 2
  MAX_ATTEMPTS = 2  TIMEOUT = 2  JITTER = 0  MayVanish = TRUE
INVARIANTS SendsConform SlotsHaveOwners DebtBounded
PROPERTIES EndpointRecovers
