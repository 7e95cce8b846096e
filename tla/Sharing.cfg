CONSTANTS
  a = a
  b = b
  c = c
  enc = enc
  pub = pub
  Node = {a, b, c}
  Link = {{a, b}, {a, c}}
  File = {enc, pub}
  Owner <- MCOwner
  Public = {pub}
  Handler = {h1, h2}
  None = None
  MaxShares = 2
  MaxUploads = 1
SPECIFICATION SharingSpec
CHECK_DEADLOCK FALSE
INVARIANTS
  GrantsVerifiable

  
