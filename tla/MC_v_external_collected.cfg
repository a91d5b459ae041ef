SPECIFICATION Spec
CONSTANTS
  None = None
  a = a
  b = b
  Mode = "ingressclass"
  GatewayClassFor <- WebClass
  ExternalFor <- SharedExternal
  DefaultProvider = "ingress-nginx"
  Ingresses <- TwoIngresses
  NsOf <- SameNs
  NameOf <- ShortNames
  NameLen <- ShortLen
  Rank <- AFirst
  Specs <- External
  RegisteredProviders <- Registered
  InstalledKinds <- AllKinds
  Preexisting <- SharedThere
  Adopted <- OnlyA
  IngressLag = 1
  GatewayLag = 0
  RouteLag = 0
  MaxEdits = 3
  MaxFaults = 0
PROPERTIES
  ExternalSurvives
\* Once users are done and every Ingress is gone, the controller waits.
CHECK_DEADLOCK FALSE
