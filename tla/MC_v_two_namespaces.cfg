SPECIFICATION Spec
CONSTANTS
  None = None
  a = a
  b = b
  Mode = "annotation"
  GatewayClassFor <- WebClass
  ExternalFor <- NoExternal
  DefaultProvider = "ingress-nginx"
  Ingresses <- TwoIngresses
  NsOf <- OtherNs
  NameOf <- ShortNames
  NameLen <- ShortLen
  Rank <- AFirst
  Specs <- OneGateway
  RegisteredProviders <- Registered
  InstalledKinds <- AllKinds
  Preexisting <- NothingThere
  Adopted = {}
  IngressLag = 0
  GatewayLag = 0
  RouteLag = 0
  MaxEdits = 1
  MaxFaults = 0
INVARIANTS
  GatewayThere
\* Once users are done and every Ingress is gone, the controller waits.
CHECK_DEADLOCK FALSE
