SPECIFICATION Spec
CONSTANTS
  None = None
  a = a
  b = b
  Mode = "annotation"
  GatewayClassFor <- WebClass
  ExternalFor <- NoExternal
  DefaultProvider = "ingress-nginx"
  Ingresses <- TwoIngresses
  NsOf <- SameNs
  NameOf <- ShortNames
  NameLen <- ShortLen
  Rank <- AFirst
  Specs <- On
  RegisteredProviders <- Registered
  InstalledKinds <- AllKinds
  Preexisting <- NothingThere
  Adopted = {}
  IngressLag = 1
  GatewayLag = 1
  RouteLag = 0
  MaxEdits = 3
  MaxFaults = 0
PROPERTIES
  LastOwnerOnly
\* Once users are done and every Ingress is gone, the controller waits.
CHECK_DEADLOCK FALSE
