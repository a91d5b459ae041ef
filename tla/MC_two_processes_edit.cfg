SPECIFICATION BothSpec
CONSTANTS
  None = None
  a = a
  b = b
  Mode = "annotation"
  GatewayClassFor <- WebClass
  ExternalFor <- NoExternal
  DefaultProvider = "ingress-nginx"
  Ingresses <- TwoIngresses
  NsOf <- SameNs
  NameOf <- ShortNames
  NameLen <- ShortLen
  Rank <- AFirst
  Specs <- OnOff
  RegisteredProviders <- Registered
  InstalledKinds <- AllKinds
  Preexisting <- JointThere
  Adopted <- TwoIngresses
  IngressLag = 0
  GatewayLag = 0
  RouteLag = 0
  MaxEdits = 1
  MaxFaults = 0
INVARIANTS
  EachSettles
PROPERTIES
  BothFollowSelection
\* Once users are done and every Ingress is gone, the controller waits.
CHECK_DEADLOCK FALSE
