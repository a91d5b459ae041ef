------------------------------- MODULE Startup -------------------------------
(***************************************************************************)
(* The controller's process from its command line to its watches           *)
(* (cmd/controller/main.go, cmd/controller/flags.go, the flag parsers of   *)
(* pkg/config/config.go, SetupWithManager), under a kubelet that restarts  *)
(* it and administrators who install and remove CRDs.                      *)
(*                                                                         *)
(* A flag's value is a sequence of tokens: the separators "=" and "/", the *)
(* blank " ", and words.                                                   *)
(***************************************************************************)
EXTENDS Sequences, Integers, FiniteSetsExt

CONSTANTS
  CommandLines,   \* the argument sequences a Deployment may be given
  EnvProvider,    \* INGRESS_PROVIDER, << >> when not set
  Providers,      \* the supported providers
  MaxEdits,       \* bound: CRDs installed or removed
  MaxCrashes      \* bound: crashes of the running process

CoreKinds     == {"Ingress", "Gateway", "HTTPRoute", "GRPCRoute"}
OptionalKinds == {"TLSRoute", "BackendTLSPolicy"}

ASSUME StartupAssumption ==
  /\ CommandLines \subseteq
       Seq([flag : {"version", "mode", "provider", "managed", "external"}, value : Seq(STRING)])
  /\ {MaxEdits, MaxCrashes} \subseteq Nat

VARIABLES
  given,                    \* the command line of the Deployment
  left,                     \* the arguments not yet parsed
  phase,                    \* where the process is
  version, mode, provider,  \* the plain flags
  managed, external,        \* the two class mappings
  watched,                  \* the kinds the manager was told to watch
  crds,                     \* the kinds the API server serves
  edits, crashes

flags == <<version, mode, provider>>
maps  == <<managed, external>>
memory == <<left, phase, flags, maps, watched>>
vars   == <<given, memory, crds, edits, crashes>>

-----------------------------------------------------------------------------
(* strings.TrimSpace and strings.SplitN. *)

Trim(v) ==
  LET solid == {k \in DOMAIN v : v[k] # " "} IN
  IF solid = {} THEN << >> ELSE SubSeq(v, Min(solid), Max(solid))

Cuts(v, separator) == {k \in DOMAIN v : v[k] = separator}
Left(v, k)  == Trim(SubSeq(v, 1, k - 1))
Right(v, k) == Trim(SubSeq(v, k + 1, Len(v)))

FirstCutMutant(v, separator) == Max(Cuts(v, separator))
FirstCut(v, separator) == Min(Cuts(v, separator))

(* The values there are, and those the two mapping flags can read.           *)
Pool      == UNION {{line[k].value : k \in DOMAIN line} : line \in CommandLines}
Pairs     == {v \in Pool : Cuts(v, "=") # {}}
PairClass == [v \in Pairs |-> Left(v, FirstCut(v, "="))]
PairValue == [v \in Pairs |-> Right(v, FirstCut(v, "="))]

(* ParseExternalGatewayMapping: <class>=<namespace>/<name>, nothing empty.   *)
NamesGateway(target) ==
  /\ Cardinality(Cuts(target, "/")) = 1
  /\ << >> \notin {Left(target, FirstCut(target, "/")), Right(target, FirstCut(target, "/"))}

ExternalMappings == {v \in Pairs : PairClass[v] # << >> /\ NamesGateway(PairValue[v])}

GatewayOf ==
  [ v \in ExternalMappings |->
      LET target == PairValue[v]
          slash  == FirstCut(target, "/")
      IN [ns |-> Left(target, slash), name |-> Right(target, slash)] ]

-----------------------------------------------------------------------------
(* mapFlag.Set takes any pair and lets a later one replace it;               *)
(* externalGatewayMapFlag.Set refuses a second one for a class.              *)
Put(m, c, x) == [d \in DOMAIN m \cup {c} |-> IF d = c THEN x ELSE m[d]]

AcceptableMutant(arg) ==
  CASE arg.flag = "managed"  -> arg.value \in Pairs
    [] arg.flag = "external" -> arg.value \in ExternalMappings
    [] OTHER                 -> TRUE
Acceptable(arg) ==
  CASE arg.flag = "managed"  -> arg.value \in Pairs
    [] arg.flag = "external" -> arg.value \in ExternalMappings /\ PairClass[arg.value] \notin DOMAIN external
    [] OTHER                 -> TRUE

Exit == phase' = "exited" /\ UNCHANGED <<left, flags, maps, watched>>

(* flag.Parse, which ends the process at the first value that is refused.    *)
ParseArg ==
  /\ phase = "parse" /\ left # << >>
  /\ LET arg == Head(left) IN
     IF ~Acceptable(arg) THEN Exit
     ELSE /\ left' = Tail(left)
          /\ version' = (version \/ arg.flag = "version")
          /\ mode' = IF arg.flag = "mode" THEN arg.value ELSE mode
          /\ provider' = IF arg.flag = "provider" THEN arg.value ELSE provider
          /\ managed' = IF arg.flag = "managed"
                          THEN Put(managed, PairClass[arg.value], PairValue[arg.value]) ELSE managed
          /\ external' = IF arg.flag = "external"
                           THEN Put(external, PairClass[arg.value], GatewayOf[arg.value]) ELSE external
          /\ UNCHANGED <<phase, watched>>
  /\ UNCHANGED <<given, crds, edits, crashes>>

(* ValidateIngressSelectionMode. *)
ValidMode(m) == m \in {<<"annotation">>, <<"ingressclass">>}

DefaultProvider == IF provider = << >> THEN EnvProvider ELSE provider

ProviderAllowed(p) == p = << >> \/ p \in Providers

(* main up to the manager: what the flags say is usable or the process ends. *)
CheckFlags ==
  /\ phase = "parse" /\ left = << >>
  /\ IF ~version /\ ValidMode(mode) /\ ProviderAllowed(DefaultProvider)
       THEN phase' = "setup" /\ provider' = DefaultProvider /\ UNCHANGED <<left, version, mode, maps, watched>>
       ELSE Exit
  /\ UNCHANGED <<given, crds, edits, crashes>>

(* SetupWithManager: the optional kinds are watched if isCRDInstalled.       *)
KindsToWatchMutant == CoreKinds \cup OptionalKinds
KindsToWatch == CoreKinds \cup (OptionalKinds \cap crds)

Setup ==
  /\ phase = "setup" /\ phase' = "sync"
  /\ watched' = KindsToWatch
  /\ UNCHANGED <<given, left, flags, maps, crds, edits, crashes>>

(* mgr.Start: the caches of all watched kinds fill, or the process ends.     *)
CachesFill ==
  /\ phase = "sync" /\ watched \subseteq crds
  /\ phase' = "running"
  /\ UNCHANGED <<given, left, flags, maps, watched, crds, edits, crashes>>

CachesTimeOut ==
  /\ phase = "sync" /\ ~(watched \subseteq crds)
  /\ Exit
  /\ UNCHANGED <<given, crds, edits, crashes>>

-----------------------------------------------------------------------------
(* The kubelet starts a new process from the same command line.              *)
Restart ==
  /\ phase = "exited" /\ phase' = "parse"
  /\ left' = given
  /\ version' = FALSE /\ mode' = <<"annotation">> /\ provider' = << >>
  /\ managed' = << >> /\ external' = << >> /\ watched' = {}
  /\ UNCHANGED <<given, crds, edits, crashes>>

Crash ==
  /\ phase # "exited" /\ crashes < MaxCrashes
  /\ crashes' = crashes + 1
  /\ Exit
  /\ UNCHANGED <<given, crds, edits>>

(* Ingress is built in; the other kinds come with the Gateway API CRDs.      *)
ToggleCRD(k) ==
  /\ k # "Ingress" /\ edits < MaxEdits
  /\ edits' = edits + 1
  /\ crds' = IF k \in crds THEN crds \ {k} ELSE crds \cup {k}
  /\ UNCHANGED <<given, memory, crashes>>

Init ==
  /\ given \in CommandLines
  /\ left = given /\ phase = "parse" /\ version = FALSE /\ mode = <<"annotation">>
  /\ provider = << >> /\ managed = << >> /\ external = << >> /\ watched = {}
  /\ crds \in {CoreKinds, CoreKinds \cup OptionalKinds, {"Ingress"}}
  /\ edits = 0 /\ crashes = 0

Boot == ParseArg \/ CheckFlags \/ Setup \/ CachesFill \/ CachesTimeOut

Next == Boot \/ Restart \/ Crash \/ \E k \in CoreKinds \cup OptionalKinds : ToggleCRD(k)

Spec == Init /\ [][Next]_vars /\ WF_vars(Boot) /\ WF_vars(Restart)

-----------------------------------------------------------------------------
(* Properties. *)

Values(flag) == {given[k].value : k \in {m \in DOMAIN given : given[m].flag = flag}}
Squeezed(v) == SelectSeq(v, LAMBDA t : t # " ")
Words(v) == {v[k] : k \in DOMAIN v}

(* What an administrator means by an external mapping, and by a managed one. *)
MeansGateway(v, c, g) ==
  /\ Squeezed(v) = c \o <<"=">> \o g.ns \o <<"/">> \o g.name
  /\ << >> \notin {c, g.ns, g.name}
  /\ "=" \notin Words(c) /\ "/" \notin Words(g.ns) \cup Words(g.name)

MeansClass(v, c, x) == Squeezed(v) = c \o <<"=">> \o x /\ "=" \notin Words(c)

(* Past the flags, the process maps exactly the classes the command line     *)
(* names: each external one to the one Gateway it was given, each managed    *)
(* one to the last GatewayClass it was given, whatever blanks surround them. *)
MappingsFaithful ==
  phase \in {"setup", "sync", "running"} =>
    /\ \A c \in DOMAIN external : \E v \in Values("external") : MeansGateway(v, c, external[c])
    /\ \A v \in Values("external") : \E c \in DOMAIN external : MeansGateway(v, c, external[c])
    /\ \A c \in DOMAIN managed : \E k \in DOMAIN given :
         /\ given[k].flag = "managed" /\ MeansClass(given[k].value, c, managed[c])
         /\ \A m \in k + 1 .. Len(given) :
              given[m].flag = "managed" => ~\E x \in {managed[c], PairValue[given[m].value]} :
                                                MeansClass(given[m].value, c, x)
    /\ \A v \in Values("managed") : \E c \in DOMAIN managed :
         \E x \in {PairValue[v]} : MeansClass(v, c, x)

(* A process that runs has a mode and a provider the reconciler knows, and   *)
(* no class that was given two external Gateways, across every restart.      *)
OnlyValidRuns ==
  phase = "running" =>
    /\ ValidMode(mode) /\ (provider = << >> \/ provider \in Providers)
    /\ \A k, m \in DOMAIN given :
         given[k].flag = "external" /\ given[m].flag = "external" /\ k # m
           => PairClass[given[k].value] # PairClass[given[m].value]

(* A usable command line. *)
Usable ==
  /\ \A k \in DOMAIN given :
       CASE given[k].flag = "version"  -> FALSE
         [] given[k].flag = "mode"     -> ValidMode(given[k].value)
         [] given[k].flag = "provider" -> given[k].value \in Providers
         [] given[k].flag = "managed"  -> given[k].value \in Pairs
         [] given[k].flag = "external" ->
              /\ given[k].value \in ExternalMappings
              /\ \A m \in 1 .. k - 1 : given[m].flag = "external" =>
                   PairClass[given[m].value] # PairClass[given[k].value]
  /\ EnvProvider = << >> \/ EnvProvider \in Providers

(* With usable flags the controller is up in the end once the CRDs it needs  *)
(* are there for good: optional CRDs that come and go, also between the look *)
(* at them and the start of the watches, cost a restart and no more.         *)
ComesUp == Usable /\ <>[](CoreKinds \subseteq crds) => <>[](phase = "running")
=============================================================================
