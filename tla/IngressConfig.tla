---------------------------- MODULE IngressConfig ----------------------------
(***************************************************************************)
(* Which Ingresses the controller converts, and into which Gateway         *)
(* (pkg/config/config.go, pkg/config/providers.go).                        *)
(*                                                                         *)
(* A settings record stands for the parts of an Ingress the package reads: *)
(*   enabled   the ingress2gateway.io/enabled annotation after trimming    *)
(*             and lower-casing; "none" when it is absent, "other" for any *)
(*             value that is neither "true" nor "false"                    *)
(*   class     spec.ingressClassName, "" when nil or empty                 *)
(*   legacy    the kubernetes.io/ingress.class annotation after trimming   *)
(*   provider  the ingress2gateway.io/provider annotation after trimming   *)
(*   gwns      the ingress2gateway.io/gateway-namespace annotation         *)
(*   rules     what the Ingress asks for: <<kind, host>> pairs             *)
(*   secret    the proxy-ssl-secret annotation of ingress-nginx, split at  *)
(*             "/" and trimmed; << >> when absent or blank                 *)
(***************************************************************************)

CONSTANTS
  Mode,             \* --ingress-selection-mode
  GatewayClassFor,  \* --ingress-class-to-gateway-class-mapping, a function
  ExternalFor,      \* --ingress-class-to-external-gateway-mapping, a function
  DefaultProvider   \* --source-provider, "" when not set

ASSUME ModeAssumption == Mode \in {"annotation", "ingressclass"}

SupportedProviders ==
  { "ingress-nginx", "istio", "kong", "gce", "apisix", "cilium", "nginx", "traefik" }

(* The keys of both mappings. *)
SelectableClasses == DOMAIN GatewayClassFor \cup DOMAIN ExternalFor

GetIngressClass(s) == IF s.class # "" THEN s.class ELSE s.legacy

(* "false" opts out in either mode; otherwise the annotation decides in      *)
(* annotation mode and the class alone decides in ingressclass mode.         *)
IsEnabled(s) ==
  /\ s.enabled # "false"
  /\ \/ Mode = "annotation" /\ s.enabled = "true"
     \/ /\ Mode = "ingressclass"
        /\ GetIngressClass(s) # ""
        /\ GetIngressClass(s) \in SelectableClasses

-----------------------------------------------------------------------------
(* GetConfig, taken apart: the external mapping is looked at first and wins. *)

TargetsExternal(s) ==
  GetIngressClass(s) # "" /\ GetIngressClass(s) \in DOMAIN ExternalFor

HasManagedClass(s) ==
  /\ GetIngressClass(s) # ""
  /\ GetIngressClass(s) \in DOMAIN GatewayClassFor
  /\ GatewayClassFor[GetIngressClass(s)] # ""

ProviderOf(s) == IF s.provider # "" THEN s.provider ELSE DefaultProvider

ConfigValid(s) ==
  /\ TargetsExternal(s) \/ HasManagedClass(s)
  /\ ProviderOf(s) \in SupportedProviders

(* The Gateway an Ingress of namespace ns attaches its routes to. *)
TargetGateway(ns, s) ==
  IF TargetsExternal(s)
    THEN ExternalFor[GetIngressClass(s)]
    ELSE [ns |-> IF s.gwns # "" THEN s.gwns ELSE ns, name |-> GetIngressClass(s)]

(* IngressReconciler.isExternalGateway. *)
IsExternalGateway(g) == \E c \in DOMAIN ExternalFor : ExternalFor[c] = g
=============================================================================
