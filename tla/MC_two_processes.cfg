SPECIFICATION BothSpec
CONSTANTS
  None = None
  a = a
  b = b
  Mode = "annotation"
  GatewayClassFor <- WebClass
  ExternalFor <- NoExternal
  DefaultProvider = "ingress-nginx"
  Ingresses <- TwoIngresses
  NsOf <- SameNs
  NameOf <- ShortNames
  NameLen <- ShortLen
  Rank <- AFirst
  Specs <- OnOff
  RegisteredProviders <- Registered
  InstalledKinds <- AllKinds
  Preexisting <- JointThere
  Adopted <- TwoIngresses
  IngressLag = 0
  GatewayLag = 1
  RouteLag = 0
  MaxEdits = 0
  MaxFaults = 0
INVARIANTS
  EachSettles
  BothServe
PROPERTIES
  BothKeepOwners
\* Once users are done and every Ingress is gone, the controller waits.
CHECK_DEADLOCK FALSE
