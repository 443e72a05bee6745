\* A proxy after the plain file was deleted.
SPECIFICATION Spec
CONSTANTS
  N = 3
  Gens = {g1, g2}
  Passwords = {service, other}
  ServicePassword = service
  Down = Down  Failed = Failed
  None = None  Torn = Torn
INVARIANT ProxyStartsEncrypted
CHECK_DEADLOCK FALSE
