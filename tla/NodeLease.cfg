\* Two threads, two identities, two resources.
SPECIFICATION Spec
CONSTANTS
  Leases = {first, second}
  Resources = {gpu, cpu}
  Threads = {t1, t2}
  TTLs = {2}
  MaxClock = 2
  MaxToken = 2
INVARIANTS OneLiveGrant
PROPERTIES KeepsFence
SYMMETRY Symmetry
