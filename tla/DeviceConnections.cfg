SPECIFICATION FairSpec
CONSTANTS
  genuine = genuine
  clone = clone
  Workers = {w1}
  Origins = {genuine, clone}
  CertOf <- Certs
  HostOf <- Hosts
  CloneSwitches = 2
  MaxSockets = 2
  MaxFailures = 1
  MaxRequests = 1
PROPERTY BlockedIsCutOff
PROPERTY StatusConverges
