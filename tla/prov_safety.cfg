CONSTANTS
  r1 = r1
  r2 = r2
  m1 = m1
  m2 = m2
  a = a
  b = b
  c = c
  x = x
  y = y
  z = z
  ha = ha
  hb = hb
  hc = hc
  hd = hd
  None = None
  Requests <- TwoRequests
  Macs <- OneMac
  Ipmis <- TwoIpmis
  Given <- OneIpmi
  CIDRBlock <- TwoIpmis
  Names <- TwoNames
  OldHosts <- BothHosts
  DnsAnswers <- TwoNames
  RsviewAnswers <- LldpHa
  BadVlans <- ThirdVlan
  Workers = 2
  JobRetryMaxFails = 2
  Disturbances = {"lost"}
SPECIFICATION Spec
INVARIANTS
  TypeOK
  UniqueCreator
  PortDoneIsOnRecord
PROPERTIES
  HostIdentity
  LinkedAsReported
  LifeSpec
SYMMETRY Symmetry
VIEW WithoutCodes
CHECK_DEADLOCK FALSE
