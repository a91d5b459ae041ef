SPECIFICATION ReadSpec
CONSTANTS
  None = None
  a = a
  b = b
  Mode = "annotation"
  GatewayClassFor <- WebClass
  ExternalFor <- NoExternal
  DefaultProvider = "ingress-nginx"
  Ingresses <- TwoIngresses
  NsOf <- SameNs
  NameOf <- ShortNames
  NameLen <- ShortLen
  Rank <- AFirst
  Specs <- OnOff
  RegisteredProviders <- Registered
  InstalledKinds <- AllKinds
  Preexisting <- NothingThere
  Adopted = {}
  IngressLag = 1
  GatewayLag = 1
  RouteLag = 1
  MaxEdits = 1
  MaxFaults = 1
INVARIANTS
  SettledFinalizers
  OwnersHeld
  RoutesHeld
  OwnGatewayThere
  OwnListenersServe
PROPERTIES
  OwnersKept
  LastOwnerShown
  ReleasedWhatIsListed
\* Once users are done and every Ingress is gone, the controller waits.
CHECK_DEADLOCK FALSE
