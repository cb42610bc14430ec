--------------------------- MODULE RESTClientGetter ---------------------------
(* The getter of the clients of a HelmRelease (internal/kube/client.go),    *)
(* which the goroutines of an action share.  When it is persistent it makes *)
(* one discovery client, and one REST mapper that uses it, under a mutex    *)
(* each; the mapper is made while the mutex of the mapper is held.          *)
EXTENDS Naturals, FiniteSets

CONSTANTS
  Goroutines,
  Persistent,
  MaxCalls,      \* calls of the getter
  MaxRefusals    \* discovery clients that cannot be made

ASSUME GetterAssumption ==
  Persistent \in BOOLEAN /\ MaxCalls \in Nat /\ MaxRefusals \in Nat

VARIABLES
  restMapperMu,     \* who holds the mutex of the mapper: a set
  discoveryMu,      \* who holds the mutex of the discovery client: a set
  restMapper,       \* the discovery client of the kept mapper, 0 when there is none
  discoveryClient,  \* the kept discovery client, 0 when there is none
  call,             \* what each goroutine is doing, and with which client
  made,             \* the number of discovery clients made
  used,             \* ghost: the discovery clients that calls returned
  calls, refusals

getterVars == <<restMapperMu, discoveryMu, restMapper, discoveryClient, call, made, used, calls, refusals>>

\* for tells whether the discovery client is for a caller or for a mapper.
NoCall == [pc |-> "idle", for |-> "caller", got |-> 0]
Goes(g, c) == call' = [call EXCEPT ![g] = c]
AtPc(g, pc) == call[g].pc = pc

GetterInit ==
  /\ restMapperMu = {} /\ discoveryMu = {}
  /\ restMapper = 0 /\ discoveryClient = 0
  /\ call = [g \in Goroutines |-> NoCall]
  /\ made = 0 /\ used = {} /\ calls = 0 /\ refusals = 0

ToDiscoveryClient(g) ==
  /\ AtPc(g, "idle") /\ calls < MaxCalls
  /\ calls' = calls + 1
  /\ Goes(g, [pc |-> "discovery", for |-> "caller", got |-> 0])
  /\ UNCHANGED <<restMapperMu, discoveryMu, restMapper, discoveryClient, made, used, refusals>>

ToRESTMapper(g) ==
  /\ AtPc(g, "idle") /\ calls < MaxCalls
  /\ calls' = calls + 1
  /\ Goes(g, [pc |-> "mapper", for |-> "mapper", got |-> 0])
  /\ UNCHANGED <<restMapperMu, discoveryMu, restMapper, discoveryClient, made, used, refusals>>

\* toPersistentRESTMapper takes its mutex; toRESTMapper needs none.
LockMapper(g) ==
  /\ AtPc(g, "mapper")
  /\ Persistent => restMapperMu = {}
  /\ restMapperMu' = IF Persistent THEN {g} ELSE restMapperMu
  /\ Goes(g, IF Persistent /\ restMapper # 0
             THEN [pc |-> "return", for |-> "mapper", got |-> restMapper]
             ELSE [pc |-> "discovery", for |-> "mapper", got |-> 0])
  /\ UNCHANGED <<discoveryMu, restMapper, discoveryClient, made, used, calls, refusals>>

\* Mutant: the discovery client is looked at without its mutex.
LockNothing(g) ==
  /\ AtPc(g, "discovery")
  /\ Goes(g, IF Persistent /\ discoveryClient # 0
             THEN [call[g] EXCEPT !.pc = "got", !.got = discoveryClient]
             ELSE [call[g] EXCEPT !.pc = "make"])
  /\ UNCHANGED <<restMapperMu, discoveryMu, restMapper, discoveryClient, made, used, calls, refusals>>

\* toPersistentDiscoveryClient takes its mutex and looks for the client.
LockDiscovery(g) ==
  /\ AtPc(g, "discovery")
  /\ Persistent => discoveryMu = {}
  /\ discoveryMu' = IF Persistent THEN {g} ELSE discoveryMu
  /\ Goes(g, IF Persistent /\ discoveryClient # 0
             THEN [call[g] EXCEPT !.pc = "got", !.got = discoveryClient]
             ELSE [call[g] EXCEPT !.pc = "make"])
  /\ UNCHANGED <<restMapperMu, restMapper, discoveryClient, made, used, calls, refusals>>

MakeDiscovery(g) ==
  /\ AtPc(g, "make")
  /\ made' = made + 1
  /\ discoveryClient' = IF Persistent THEN made + 1 ELSE discoveryClient
  /\ Goes(g, [call[g] EXCEPT !.pc = "got", !.got = made + 1])
  /\ UNCHANGED <<restMapperMu, discoveryMu, restMapper, used, calls, refusals>>

\* Mutant: the mutex of the mapper stays locked when an error is returned.
FailHoldingMapper(g) ==
  /\ AtPc(g, "make") /\ refusals < MaxRefusals
  /\ refusals' = refusals + 1
  /\ discoveryMu' = discoveryMu \ {g}
  /\ Goes(g, NoCall)
  /\ UNCHANGED <<restMapperMu, restMapper, discoveryClient, made, used, calls>>

\* The error is returned through both functions, whose mutexes are unlocked.
MakeFails(g) ==
  /\ AtPc(g, "make") /\ refusals < MaxRefusals
  /\ refusals' = refusals + 1
  /\ discoveryMu' = discoveryMu \ {g} /\ restMapperMu' = restMapperMu \ {g}
  /\ Goes(g, NoCall)
  /\ UNCHANGED <<restMapper, discoveryClient, made, used, calls>>

\* The discovery client is returned, to the caller or to make a mapper.
ReturnDiscovery(g) ==
  /\ AtPc(g, "got")
  /\ discoveryMu' = discoveryMu \ {g}
  /\ restMapper' = IF Persistent /\ call[g].for = "mapper" THEN call[g].got ELSE restMapper
  /\ Goes(g, [call[g] EXCEPT !.pc = "return"])
  /\ UNCHANGED <<restMapperMu, discoveryClient, made, used, calls, refusals>>

Return(g) ==
  /\ AtPc(g, "return")
  /\ used' = used \cup {call[g].got}
  /\ restMapperMu' = restMapperMu \ {g}
  /\ Goes(g, NoCall)
  /\ UNCHANGED <<discoveryMu, restMapper, discoveryClient, made, calls, refusals>>

GetterStep(g) ==
  \/ LockMapper(g) \/ LockDiscovery(g) \/ MakeDiscovery(g)
  \/ ReturnDiscovery(g) \/ Return(g)

GetterNext ==
  \E g \in Goroutines :
    ToDiscoveryClient(g) \/ ToRESTMapper(g) \/ GetterStep(g) \/ MakeFails(g)

GetterSpec == GetterInit /\ [][GetterNext]_getterVars

\* A goroutine goes on when it can.
GetterFairness == \A g \in Goroutines : WF_getterVars(GetterStep(g))

(* ------------------------------ properties ----------------------------- *)

\* A persistent getter hands out one discovery client, which its mapper uses
\* too: what one caller resets or invalidates is reset for all.
OneDiscoveryClient ==
  Persistent => used \subseteq {discoveryClient} /\ restMapper \in {0, discoveryClient}

\* Every call returns: the mutexes are taken in one order and released when
\* the client cannot be made.
CallsReturn == \A g \in Goroutines : ~AtPc(g, "idle") ~> AtPc(g, "idle")
=============================================================================
