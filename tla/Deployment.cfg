SPECIFICATION Spec
CONSTANTS
  keyed = keyed
  limited = limited
  plain = plain
  daily = daily
  stale = stale
  Queues <- MCQueues
  Addresses <- MCAddresses
  Conns = 2
  Conn <- MCConn
  Declared <- MCDeclared
  Keyed <- MCKeyed
  Planned <- MCPlanned
  Target <- MCTarget
  Roles <- MCRoles
  Found <- MCFound
INVARIANTS StartsConsistent RefusedUnwritten
PROPERTIES ForeignKept
CHECK_DEADLOCK FALSE
