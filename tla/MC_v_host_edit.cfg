SPECIFICATION Spec
CONSTANTS
  None = None
  a = a
  b = b
  Mode = "annotation"
  GatewayClassFor <- WebClass
  ExternalFor <- NoExternal
  DefaultProvider = "ingress-nginx"
  Ingresses <- OneIngress
  NsOf <- SameNs
  NameOf <- ShortNames
  NameLen <- ShortLen
  Rank <- AFirst
  Specs <- TwoHosts
  RegisteredProviders <- Registered
  InstalledKinds <- AllKinds
  Preexisting <- NothingThere
  Adopted = {}
  IngressLag = 1
  GatewayLag = 0
  RouteLag = 0
  MaxEdits = 1
  MaxFaults = 0
INVARIANTS
  NoRouteLeft
\* Once users are done and every Ingress is gone, the controller waits.
CHECK_DEADLOCK FALSE
