------------------------------- MODULE Replicas -------------------------------
(***************************************************************************)
(* Two controller processes on one cluster, as the chart installs them     *)
(* when replicaCount is raised and leaderElection is left at its default   *)
(* (values.yaml 4 and 76, deployment.yaml 9 and 36, main.go 70), or as a   *)
(* rolling update has them for a while.  The variables of Reconciler are   *)
(* the first process, its copies with a 2 the second.  Each has watches of *)
(* its own and reads its own caches, so that it decides on what the other  *)
(* has meanwhile changed; both windows of a kind end in what the API       *)
(* server holds, which users and the garbage collector write as well.      *)
(***************************************************************************)
EXTENDS ReconcilerProperties

VARIABLES ingresses2, gateways2, routes2,
          queue2, delayed2, pc2, key2, obj2, want2, todo2, detach2, requeueAfter2

Second == INSTANCE ReconcilerProperties WITH
  ingresses <- ingresses2, gateways <- gateways2, routes <- routes2,
  queue <- queue2, delayed <- delayed2, pc <- pc2, key <- key2, obj <- obj2,
  want <- want2, todo <- todo2, detach <- detach2, requeueAfter <- requeueAfter2

own1  == <<delayed, local>>
own2  == <<delayed2, pc2, key2, obj2, want2, todo2, detach2, requeueAfter2>>
vars2 == <<vars, ingresses2, gateways2, routes2, queue2, own2>>

(* A watch receives what the API server holds now, if that has changed. *)
Watch(w, old, new, lag) == IF new = old THEN w ELSE Push(w, new, lag)

(* What a step of the other does to the windows and the queue of one. *)
Hear1 ==
  /\ ingresses' = Watch(ingresses, API(ingresses2), API(ingresses2'), IngressLag)
  /\ gateways' = Watch(gateways, API(gateways2), API(gateways2'), GatewayLag)
  /\ routes' = Watch(routes, API(routes2), API(routes2'), RouteLag)
  /\ queue' = queue \cup Noticed(ingresses, ingresses')
  /\ UNCHANGED own1

Hear2 ==
  /\ ingresses2' = Watch(ingresses2, API(ingresses), API(ingresses'), IngressLag)
  /\ gateways2' = Watch(gateways2, API(gateways), API(gateways'), GatewayLag)
  /\ routes2' = Watch(routes2, API(routes), API(routes'), RouteLag)
  /\ queue2' = queue2 \cup Noticed(ingresses2, ingresses2')
  /\ UNCHANGED own2

BothInit == Init /\ Second!Init /\ <<ingresses2, gateways2, routes2>> = kinds

BothNext == (Next /\ Hear2) \/ (Second!Next /\ Hear1)

BothSpec == BothInit /\ [][BothNext]_vars2

-----------------------------------------------------------------------------
(* Whichever process does it, the finalizer follows the users' choice of     *)
(* that moment, and users' changes are never written over, however far the   *)
(* caches of the two are behind and apart: optimistic locking needs no       *)
(* leader (reconciler.go 160-166, 375).                                      *)
BothFollowSelection ==
  [][ \A i \in Ingresses :
        LET o == API(ingresses)[i]  n == API(ingresses')[i] IN
        /\ n.fin /\ ~o.fin => o.ex /\ ~Leaving(o) /\ ConfigValid(o.spec)
        /\ o.fin /\ ~n.fin => Leaving(o)
        /\ edits' = edits => n.spec = o.spec /\ n.gen = o.gen /\ (n.ex => n.del = o.del) ]_vars2

(* From a Gateway that stays, the reference of a living Ingress is taken by  *)
(* the process that cleans up for this very Ingress, in the very step in     *)
(* which it lets the Gateway go, or replaced by a process that still works   *)
(* for an Ingress of the same name deleted since.  Nothing a process does    *)
(* for one Ingress takes the reference of another, whatever the other        *)
(* process wrote between its Get and its Update (reconciler.go 537-566,      *)
(* 501-521).                                                                 *)
BothKeepOwners ==
  [][ edits' = edits =>
        \A g \in GatewayKeys :
          API(gateways')[g].ex =>
            \A u \in API(gateways)[g].owners \ API(gateways')[g].owners :
              Alive(u) => \/ LetsGo(g, u) \/ Outlives(g, u)
                          \/ Second!LetsGo(g, u) \/ Second!Outlives(g, u) ]_vars2

(* When one of the two has come to rest, the finalizer is on exactly the     *)
(* Ingresses that are selected, whatever the other is doing meanwhile        *)
(* (reconciler.go 107-108, 160-166, 375).                                    *)
EachSettles == SettledFinalizers /\ Second!SettledFinalizers

(* When both have come to rest, every rule of a selected Ingress is served,  *)
(* whichever of the two wrote last (reconciler.go 299-341).                  *)
BothServe == Quiet /\ Second!Quiet => RoutesServe
=============================================================================
