CONSTANTS
  c1 = c1
  c2 = c2
  c3 = c3
  n1 = n1
  n2 = n2
  n3 = n3
  EmptyName = EmptyName
  NoCert = NoCert
  Certs <- MCCerts
  Names <- MCNames
SPECIFICATION Spec
INVARIANT TypeOK
INVARIANT NoDuplicateCertificates
INVARIANT ChainsComplete
PROPERTY WalkTerminates
