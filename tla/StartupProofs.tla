---------------------------- MODULE StartupProofs ----------------------------
(***************************************************************************)
(* What a process that runs has made of its command line, for every        *)
(* command line, across crashes, restarts and CRDs that come and go.       *)
(*                                                                         *)
(* The arguments parsed so far are a prefix of the command line, and the   *)
(* flags are what that prefix says.                                        *)
(***************************************************************************)
EXTENDS Startup, TLAPS

Arguments == [flag : {"version", "mode", "provider", "managed", "external"}, value : Seq(STRING)]

(* How many arguments are parsed. *)
Parsed == Len(given) - Len(left)

IsExternal(k) == given[k].flag = "external"
IsManaged(k)  == given[k].flag = "managed"
ClassAt(k)    == PairClass[given[k].value]

(* What is left is the rest of the command line. *)
Rest ==
  /\ given \in CommandLines
  /\ left \in Seq(Arguments)
  /\ Len(left) <= Len(given)
  /\ \A k \in 1..Len(left) : left[k] = given[Parsed + k]

(* The external mapping has a class for each argument that names one, and    *)
(* none besides; no two arguments name the same.                             *)
ExternalParsed ==
  /\ \A k \in 1..Parsed : IsExternal(k) =>
       /\ ClassAt(k) \in DOMAIN external
       /\ external[ClassAt(k)] = GatewayOf[given[k].value]
       /\ \A m \in 1..Parsed : IsExternal(m) /\ ClassAt(m) = ClassAt(k) => m = k
  /\ \A c \in DOMAIN external : \E k \in 1..Parsed : IsExternal(k) /\ ClassAt(k) = c

(* The managed mapping has, for each class, what the last one says of it. *)
LastOf(k) == \A m \in 1..Parsed : m > k /\ IsManaged(m) => ClassAt(m) # ClassAt(k)

ManagedParsed ==
  /\ \A k \in 1..Parsed : IsManaged(k) =>
       /\ ClassAt(k) \in DOMAIN managed
       /\ LastOf(k) => managed[ClassAt(k)] = PairValue[given[k].value]
  /\ \A c \in DOMAIN managed : \E k \in 1..Parsed : IsManaged(k) /\ ClassAt(k) = c

(* Past the checks of main, all arguments are parsed, and pass. *)
Checked ==
  phase \in {"setup", "sync", "running"} =>
    left = << >> /\ ValidMode(mode) /\ ProviderAllowed(provider)

Inv == Rest /\ ExternalParsed /\ ManagedParsed /\ Checked

-----------------------------------------------------------------------------
LEMMA LinesAreSequences ==
  ASSUME NEW line \in CommandLines
  PROVE  line \in Seq(Arguments) /\ Len(line) \in Nat
BY StartupAssumption DEF Arguments

(* A process that is about to parse has the whole command line before it. *)
Fresh ==
  given \in CommandLines /\ left = given /\ managed = << >> /\ external = << >> /\ phase = "parse"

LEMMA FreshProcess == Fresh => Inv
<1> SUFFICES ASSUME Fresh PROVE Inv
  OBVIOUS
<1>1. Parsed = 0 /\ DOMAIN << >> = {} /\ left \in Seq(Arguments) /\ Len(left) \in Nat
  BY LinesAreSequences DEF Fresh, Parsed
<1>2. Rest
  BY <1>1 DEF Fresh, Rest
<1> QED
  BY <1>1, <1>2 DEF Fresh, Inv, ExternalParsed, ManagedParsed, Checked

(* What only moves on in the start-up. *)
LEMMA SameFlags ==
  ASSUME Inv, UNCHANGED <<given, left, maps>>, Checked'
  PROVE  Inv'
<1>1. UNCHANGED <<given, left, managed, external>> /\ Parsed' = Parsed
  BY DEF maps, Parsed
<1>2. \A k : IsExternal(k)' = IsExternal(k) /\ IsManaged(k)' = IsManaged(k) /\ ClassAt(k)' = ClassAt(k)
  BY <1>1 DEF IsExternal, IsManaged, ClassAt
<1>3. \A k : LastOf(k)' = LastOf(k)
  BY <1>1, <1>2 DEF LastOf
<1>4. Rest'
  BY <1>1 DEF Inv, Rest
<1>5. ExternalParsed'
  BY <1>1, <1>2 DEF Inv, ExternalParsed
<1>6. ManagedParsed'
  BY <1>1, <1>2, <1>3 DEF Inv, ManagedParsed
<1> QED
  BY <1>4, <1>5, <1>6 DEF Inv

LEMMA ParseArgInv ==
  ASSUME Inv, ParseArg, Acceptable(Head(left))
  PROVE  Inv'
<1> DEFINE arg == Head(left)
           p   == Parsed + 1
<1>1. /\ given \in CommandLines /\ Len(given) \in Nat /\ Len(left) \in Nat /\ Len(left) > 0
      /\ left' = Tail(left) /\ given' = given /\ phase' = "parse"
      /\ managed' = IF arg.flag = "managed"
                      THEN Put(managed, PairClass[arg.value], PairValue[arg.value]) ELSE managed
      /\ external' = IF arg.flag = "external"
                       THEN Put(external, PairClass[arg.value], GatewayOf[arg.value]) ELSE external
  BY LinesAreSequences DEF Inv, Rest, ParseArg, Exit
<1>2. /\ left \in Seq(Arguments) /\ Len(left) <= Len(given)
      /\ \A k \in 1..Len(left) : left[k] = given[Parsed + k]
  BY DEF Inv, Rest
<1>2a. /\ arg = left[1] /\ left' \in Seq(Arguments) /\ Len(left') = Len(left) - 1
       /\ \A k \in 1..Len(left') : left'[k] = left[k + 1] /\ k + 1 \in 1..Len(left)
  BY <1>1, <1>2
<1>2b. arg = given[p] /\ Parsed' = p /\ Parsed \in Nat /\ p <= Len(given)
  BY <1>1, <1>2, <1>2a DEF Parsed
<1>3. Rest'
  <2>1. ASSUME NEW k \in 1..Len(left') PROVE left'[k] = given[p + k]
    <3>1. left'[k] = given[Parsed + (k + 1)] /\ k \in Nat
      BY <1>1, <1>2, <1>2a
    <3> QED
      BY <1>2b, <3>1
  <2> QED
    BY <1>1, <1>2, <1>2a, <1>2b, <2>1 DEF Rest
<1>4. \A k \in 1..p : k \in 1..Parsed \/ k = p
  BY <1>2b
<1>5. \A k \in 1..Parsed : k \in 1..p /\ k # p
  BY <1>2b
<1>6. p \in 1..p
  BY <1>2b
<1>7. /\ \A k : IsExternal(k)' = IsExternal(k) /\ IsManaged(k)' = IsManaged(k)
      /\ \A k : ClassAt(k)' = ClassAt(k)
  BY <1>1 DEF IsExternal, IsManaged, ClassAt
<1>8. ExternalParsed'
  <2>1. CASE arg.flag = "external"
    <3>1. ClassAt(p) \notin DOMAIN external /\ IsExternal(p)
      BY <1>2b, <2>1 DEF Acceptable, IsExternal, ClassAt
    <3>2. external' = [d \in DOMAIN external \cup {ClassAt(p)} |->
                         IF d = ClassAt(p) THEN GatewayOf[given[p].value] ELSE external[d]]
      BY <1>1, <1>2b, <2>1 DEF Put, ClassAt
    <3> QED
      BY <1>1, <1>2b, <1>4, <1>5, <1>6, <1>7, <3>1, <3>2 DEF Inv, ExternalParsed
  <2>2. CASE arg.flag # "external"
    <3>1. ~IsExternal(p)
      BY <1>2b, <2>2 DEF IsExternal
    <3> QED
      BY <1>1, <1>2b, <1>4, <1>5, <1>7, <2>2, <3>1 DEF Inv, ExternalParsed
  <2> QED
    BY <2>1, <2>2
<1>9. ManagedParsed'
  <2>1. CASE arg.flag = "managed"
    <3>1. IsManaged(p)
      BY <1>2b, <2>1 DEF IsManaged
    <3>2. managed' = [d \in DOMAIN managed \cup {ClassAt(p)} |->
                        IF d = ClassAt(p) THEN PairValue[given[p].value] ELSE managed[d]]
      BY <1>1, <1>2b, <2>1 DEF Put, ClassAt
    <3>3. ASSUME NEW k \in 1..Parsed, IsManaged(k), LastOf(k)'
          PROVE  LastOf(k) /\ ClassAt(k) # ClassAt(p)
      <4>1. \A m \in 1..p : m > k /\ IsManaged(m) => ClassAt(m) # ClassAt(k)
        BY <1>2b, <1>7, <3>3 DEF LastOf
      <4>2. p > k
        BY <1>2b
      <4> QED
        BY <1>5, <1>6, <3>1, <4>1, <4>2 DEF LastOf
    <3>4. ASSUME NEW k \in 1..p, IsManaged(k)
          PROVE  /\ ClassAt(k) \in DOMAIN managed'
                 /\ LastOf(k)' => managed'[ClassAt(k)] = PairValue[given[k].value]
      <4>1. CASE k = p
        BY <3>2, <4>1
      <4>2. CASE k \in 1..Parsed
        BY <3>2, <3>3, <3>4, <4>2 DEF Inv, ManagedParsed
      <4> QED
        BY <1>4, <4>1, <4>2
    <3>5. ASSUME NEW c \in DOMAIN managed'
          PROVE  \E k \in 1..p : IsManaged(k) /\ ClassAt(k) = c
      BY <1>5, <1>6, <3>1, <3>2 DEF Inv, ManagedParsed
    <3> QED
      BY <1>1, <1>2b, <1>7, <3>4, <3>5 DEF ManagedParsed
  <2>2. CASE arg.flag # "managed"
    <3>1. ~IsManaged(p)
      BY <1>2b, <2>2 DEF IsManaged
    <3>2. ASSUME NEW k \in 1..Parsed, LastOf(k)' PROVE LastOf(k)
      BY <1>2b, <1>5, <1>7, <3>2 DEF LastOf
    <3> QED
      BY <1>1, <1>2b, <1>4, <1>5, <1>7, <2>2, <3>1, <3>2 DEF Inv, ManagedParsed
  <2> QED
    BY <2>1, <2>2
<1>10. Checked'
  BY <1>1 DEF Checked
<1> QED
  BY <1>3, <1>8, <1>9, <1>10 DEF Inv

LEMMA InvNext ==
  ASSUME Inv, [Next]_vars
  PROVE  Inv'
<1>1. ASSUME Exit, UNCHANGED given PROVE Inv'
  BY <1>1, SameFlags DEF Exit, Checked
<1>2. CASE ParseArg
  BY <1>1, <1>2, ParseArgInv DEF ParseArg
<1>3. CASE CheckFlags
  <2>1. CASE /\ ValidMode(mode) /\ ProviderAllowed(DefaultProvider)
             /\ phase' = "setup" /\ provider' = DefaultProvider /\ UNCHANGED <<left, version, mode, maps, watched>>
    <3>1. Checked'
      BY <1>3, <2>1 DEF CheckFlags, Checked
    <3> QED
      BY <1>3, <2>1, <3>1, SameFlags DEF CheckFlags
  <2> QED
    BY <1>1, <1>3, <2>1 DEF CheckFlags
<1>4. CASE Setup \/ CachesFill
  <2>1. Checked'
    BY <1>4 DEF Setup, CachesFill, Inv, Checked, flags
  <2> QED
    BY <1>4, <2>1, SameFlags DEF Setup, CachesFill
<1>5. CASE CachesTimeOut \/ Crash
  BY <1>1, <1>5 DEF CachesTimeOut, Crash
<1>6. CASE Restart
  <2>1. Fresh'
    BY <1>6 DEF Restart, Inv, Rest, Fresh
  <2> QED
    BY <2>1, FreshProcess, PTL
<1>7. CASE (\E k \in CoreKinds \cup OptionalKinds : ToggleCRD(k)) \/ UNCHANGED vars
  <2>1. UNCHANGED <<given, left, maps, phase, mode, provider>>
    BY <1>7 DEF ToggleCRD, memory, flags, vars
  <2>2. Checked'
    BY <2>1 DEF Inv, Checked
  <2> QED
    BY <2>1, <2>2, SameFlags
<1> QED
  BY <1>2, <1>3, <1>4, <1>5, <1>6, <1>7 DEF Next, Boot

LEMMA InvAlways == Spec => []Inv
<1>1. Init => Inv
  BY FreshProcess DEF Init, Fresh
<1> QED
  BY <1>1, InvNext, PTL DEF Spec

-----------------------------------------------------------------------------
(* A process that runs has a mode and a provider the reconciler knows, and   *)
(* no class that was given two external Gateways: whatever the command line, *)
(* one that says otherwise ends every process (main.go, flags.go 41-45).     *)
THEOREM ValidAtRun == Spec => []OnlyValidRuns
<1>1. Inv => OnlyValidRuns
  <2> SUFFICES ASSUME Inv, phase = "running" PROVE OnlyValidRuns
    BY DEF OnlyValidRuns
  <2>1. left = << >> /\ ValidMode(mode) /\ ProviderAllowed(provider)
    BY DEF Inv, Checked
  <2>2. Parsed = Len(given) /\ DOMAIN given = 1..Len(given)
    BY <2>1, LinesAreSequences DEF Inv, Rest, Parsed
  <2>3. ASSUME NEW k \in DOMAIN given, NEW m \in DOMAIN given, k # m,
               given[k].flag = "external", given[m].flag = "external"
        PROVE  PairClass[given[k].value] # PairClass[given[m].value]
    BY <2>2, <2>3 DEF Inv, ExternalParsed, IsExternal, ClassAt
  <2> QED
    BY <2>1, <2>3 DEF OnlyValidRuns, ProviderAllowed
<1> QED
  BY <1>1, InvAlways, PTL

(* What the two mappings are once the flags are parsed: an external class    *)
(* has the Gateway of the one argument that names it, a managed class the    *)
(* value of the last one, and there is no other class.                       *)
Mapped ==
  phase \in {"setup", "sync", "running"} =>
    /\ \A k \in DOMAIN given : IsExternal(k) => external[ClassAt(k)] = GatewayOf[given[k].value]
    /\ DOMAIN external = {ClassAt(k) : k \in {m \in DOMAIN given : IsExternal(m)}}
    /\ \A k \in DOMAIN given :
         IsManaged(k) /\ (\A m \in DOMAIN given : m > k /\ IsManaged(m) => ClassAt(m) # ClassAt(k))
           => managed[ClassAt(k)] = PairValue[given[k].value]
    /\ DOMAIN managed = {ClassAt(k) : k \in {m \in DOMAIN given : IsManaged(m)}}

(* The mappings a process works with are those of its whole command line,    *)
(* after every restart too (flags.go 14-45).                                 *)
THEOREM MappingsAreParsed == Spec => []Mapped
<1>1. Inv => Mapped
  <2> SUFFICES ASSUME Inv, phase \in {"setup", "sync", "running"} PROVE Mapped
    BY DEF Mapped
  <2>1. Parsed = Len(given) /\ DOMAIN given = 1..Len(given)
    BY LinesAreSequences DEF Inv, Rest, Parsed, Checked
  <2>2. \A k \in DOMAIN given : IsExternal(k) =>
          ClassAt(k) \in DOMAIN external /\ external[ClassAt(k)] = GatewayOf[given[k].value]
    BY <2>1 DEF Inv, ExternalParsed
  <2>3. DOMAIN external = {ClassAt(k) : k \in {m \in DOMAIN given : IsExternal(m)}}
    <3>1. ASSUME NEW c \in DOMAIN external
          PROVE  \E k \in {m \in DOMAIN given : IsExternal(m)} : c = ClassAt(k)
      BY <2>1, <3>1 DEF Inv, ExternalParsed
    <3> QED
      BY <2>2, <3>1
  <2>4. \A k \in DOMAIN given : IsManaged(k) =>
          /\ ClassAt(k) \in DOMAIN managed
          /\ LastOf(k) => managed[ClassAt(k)] = PairValue[given[k].value]
    BY <2>1 DEF Inv, ManagedParsed
  <2>5. DOMAIN managed = {ClassAt(k) : k \in {m \in DOMAIN given : IsManaged(m)}}
    BY <2>1, <2>4 DEF Inv, ManagedParsed
  <2> QED
    BY <2>1, <2>2, <2>3, <2>4, <2>5 DEF LastOf, Mapped
<1> QED
  BY <1>1, InvAlways, PTL
=============================================================================
