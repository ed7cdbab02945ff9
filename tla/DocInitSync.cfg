CONSTANTS
  Openers = {t1, t2}
  Agents = {g}
  Versions = {"v2c", "v3"}
  Handles = {h1, h2}
  NULL = NULL
  Nobody = Nobody
SPECIFICATION Spec
INVARIANT InitializationsAreSynchronized
