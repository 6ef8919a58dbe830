CONSTANTS
  r1 = r1
  r2 = r2
  m1 = m1
  m2 = m2
  a = a
  b = b
  c = c
  x = x
  y = y
  z = z
  ha = ha
  hb = hb
  hc = hc
  hd = hd
  None = None
  Requests <- OneRequest
  Macs <- OneMac
  Ipmis <- TwoIpmis
  Given <- TwoIpmis
  CIDRBlock <- TwoIpmis
  Names <- TwoNames
  OldHosts <- BothHosts
  DnsAnswers <- TwoNames
  RsviewAnswers <- EitherLldp
  BadVlans <- ThirdVlan
  Workers = 2
  JobRetryMaxFails = 1
  Disturbances = {}
SPECIFICATION Spec
INVARIANTS
  ConflictOverwrites
CHECK_DEADLOCK FALSE
