\* Three signers, two generations of keys, a right and a wrong password.
SPECIFICATION Spec
CONSTANTS
  N = 3
  Gens = {g1, g2}
  Passwords = {service, other}
  ServicePassword = service
  Down = Down  Failed = Failed
  None = None  Torn = Torn
INVARIANTS TypeOK RestartedSignersAgree EncryptedCopySuffices OneGenerationFits
CHECK_DEADLOCK FALSE
