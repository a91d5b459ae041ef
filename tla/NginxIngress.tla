----------------------------- MODULE NginxIngress -----------------------------
(***************************************************************************)
(* What the ingress-nginx provider needs besides Ingresses: the Secrets    *)
(* that proxy-ssl-secret annotations name (pkg/converter/nginx_ingress.go  *)
(* and buildFakeClientObjects).  A missing one fails nothing and is        *)
(* reported once, on account of the first Ingress in the list that names   *)
(* it.                                                                     *)
(***************************************************************************)
EXTENDS Conversion

(* "namespace/name" names a Secret anywhere; anything else is read as a name *)
(* in the namespace of the Ingress, as far as its first "/".                 *)
SecretKey(i, s) ==
  IF Len(s.secret) = 2
    THEN [ns |-> s.secret[1], name |-> s.secret[2]]
    ELSE [ns |-> NsOf[i], name |-> s.secret[1]]

NamesSecret(s) == s.secret # << >>

(* Of the Ingresses that name one Secret, only the first is looked at.       *)
FirstToName(order, spec, k) ==
  \A m \in 1..(k - 1) :
     NamesSecret(spec[order[m]]) =>
       SecretKey(order[m], spec[order[m]]) # SecretKey(order[k], spec[order[k]])

(* The warnings of one conversion: which Ingress misses which Secret.        *)
MissingSecrets(order, spec, provider, secrets) ==
  { <<order[k], SecretKey(order[k], spec[order[k]])>> :
      k \in {n \in DOMAIN order :
               /\ provider = "ingress-nginx"
               /\ NamesSecret(spec[order[n]])
               /\ FirstToName(order, spec, n)
               /\ SecretKey(order[n], spec[order[n]]) \notin secrets} }

SecretKeys ==
  UNION { {SecretKey(i, s) : s \in {q \in Specs[i] : NamesSecret(q)}} : i \in Ingresses }
=============================================================================
