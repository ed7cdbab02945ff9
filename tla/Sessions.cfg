CONSTANTS
  Openers = {t1, t2, t3}
  Agents = {g}
  Versions = {"v2c", "v3"}
  Handles = {h1, h2}
  NULL = NULL
  Nobody = Nobody
SPECIFICATION FairSpec
INVARIANTS TypeOK OpensAreSerialized EachSessionHasOneHolder KeysMatchSecurityLevel
PROPERTIES OpensRelease
