SPECIFICATION DriftSpec
CONSTANTS
  None = None
  a = a
  b = b
  Mode = "annotation"
  GatewayClassFor <- WebClass
  ExternalFor <- SharedExternal
  DefaultProvider = "ingress-nginx"
  Ingresses <- OneIngress
  NsOf <- SameNs
  NameOf <- ShortNames
  NameLen <- ShortLen
  Rank <- AFirst
  Specs <- Troubled
  RegisteredProviders <- Registered
  InstalledKinds <- AllKinds
  Preexisting <- ForeignThere
  Adopted = {}
  IngressLag = 0
  GatewayLag = 1
  RouteLag = 1
  MaxEdits = 2
  MaxFaults = 1
PROPERTIES
  DeletionCompletes
  ClassKept
  Converges
\* Once users are done and every Ingress is gone, the controller waits.
CHECK_DEADLOCK FALSE
