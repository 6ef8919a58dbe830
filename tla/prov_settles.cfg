CONSTANTS
  r1 = r1
  r2 = r2
  m1 = m1
  m2 = m2
  a = a
  b = b
  c = c
  x = x
  y = y
  z = z
  ha = ha
  hb = hb
  hc = hc
  hd = hd
  None = None
  Requests <- OneRequest
  Macs <- TwoMacs
  Ipmis <- AllIpmis
  Given <- AllIpmis
  CIDRBlock <- AtoCIDR
  Names <- AllNames
  OldHosts <- SharedAddress
  DnsAnswers <- SomeNames
  RsviewAnswers <- AnyPage
  BadVlans <- ThirdVlan
  Workers = 1
  JobRetryMaxFails = 2
  Disturbances = {"dbfault", "lost"}
SPECIFICATION FairSpec
INVARIANTS
  CreatedMeansQueued
PROPERTIES
  RequestsSettle
CHECK_DEADLOCK FALSE
