SPECIFICATION FairSpec
CONSTANTS
  None = None
  a = a
  b = b
  Mode = "annotation"
  GatewayClassFor <- WebClass
  ExternalFor <- NoExternal
  DefaultProvider = "ingress-nginx"
  Ingresses <- OneIngress
  NsOf <- SameNs
  NameOf <- ShortNames
  NameLen <- ShortLen
  Rank <- AFirst
  Specs <- On
  RegisteredProviders <- Registered
  InstalledKinds <- CoreKinds
  Preexisting <- NothingThere
  Adopted = {}
  IngressLag = 1
  GatewayLag = 0
  RouteLag = 0
  MaxEdits = 1
  MaxFaults = 0
PROPERTIES
  DeletionCompletes
\* Once users are done and every Ingress is gone, the controller waits.
CHECK_DEADLOCK FALSE
