SPECIFICATION Spec
CONSTANTS
  d1 = d1
  d2 = d2
  n1 = n1
  n2 = n2
  k1 = k1
  ca1 = ca1
  t1 = t1
  x1 = x1
  c1 = c1
  c2 = c2
  Domains = {d1, d2}
  DomainNames = {n1, n2}
  DisplayNames = {x1}
  Credentials = {k1}
  Accounts = {ca1}
  Targets = {t1}
  Endpoints = {}
  Assets = {1, 2}
  Requests = {1, 2}
  Workers = {c1, c2}
  None = None
  Unknown = Unknown
  MaxDomains = 2
  MaxAttempts = 2
  MaxFaults = 1
SYMMETRY Symmetry
CHECK_DEADLOCK FALSE
INVARIANTS
  TypeOK
  NamesAreIndexed
  CertificatesAreOnRecord
