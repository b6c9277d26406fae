--------------------------- MODULE AttestationGate --------------------------
(***************************************************************************)
(* The AttestationGate of integrations/common/route_proxy.py.  Before a    *)
(* request thread may use its upstream connection it must know that the    *)
(* process behind the port is Orichum's own service.  The check runs a     *)
(* verifier process and is slow, so one thread runs it outside the lock,   *)
(* the others wait for it on a condition variable, and the identity it     *)
(* finds is cached until it expires or is invalidated: by every exception  *)
(* that reaches _upstream, whether the connection was refused, the         *)
(* verification raised or the connection broke while it was used.          *)
(*                                                                         *)
(* A block under the condition's lock is one action.  `epoch', `startedIn' *)
(* and `cachedIn' are history variables: they number the invalidations so  *)
(* that properties can say which one a verification belongs to; no guard   *)
(* reads them.                                                             *)
(***************************************************************************)
EXTENDS Naturals

CONSTANTS
    Threads,      \* request threads of the proxy
    Services,     \* process ids the verifier may report
    NoService,    \* _service_pid is None
    MaxRequests   \* bound on the upstream connections that are asked for

ASSUME GateAssumption ==
    /\ NoService \notin Services
    /\ MaxRequests \in Nat

VARIABLES
    servicePid,        \* _service_pid
    fresh,             \* _verified_until > clock()
    refreshing,        \* _refreshing
    generation,        \* _generation
    pc,                \* where each thread is
    observed,          \* observed_generation of each thread
    refreshGeneration, \* refresh_generation of each thread
    requests,          \* connections asked for so far
    epoch, startedIn, cachedIn

gate == <<servicePid, fresh, refreshing, generation>>
history == <<epoch, startedIn, cachedIn>>
vars == <<gate, pc, observed, refreshGeneration, requests, history>>

TypeOK ==
    /\ servicePid \in Services \cup {NoService}
    /\ fresh \in BOOLEAN
    /\ refreshing \in BOOLEAN
    /\ generation \in Nat
    /\ pc \in [Threads -> {"idle", "retrying", "waiting", "woken",
                           "verifying", "connected", "failing"}]
    /\ observed \in [Threads -> Nat]
    /\ refreshGeneration \in [Threads -> Nat]
    /\ requests \in Nat
    /\ epoch \in Nat
    /\ startedIn \in [Threads -> Nat]
    /\ cachedIn \in Nat

Init ==
    /\ servicePid = NoService
    /\ fresh = FALSE
    /\ refreshing = FALSE
    /\ generation = 0
    /\ pc = [t \in Threads |-> "idle"]
    /\ observed = [t \in Threads |-> 0]
    /\ refreshGeneration = [t \in Threads |-> 0]
    /\ requests = 0
    /\ epoch = 0
    /\ startedIn = [t \in Threads |-> 0]
    /\ cachedIn = 0

-----------------------------------------------------------------------------
\* _condition.notify_all(), called by a thread that goes on at `location'.
\* The woken threads still have to get the lock back.
NotifyAll(t, location) ==
    pc' = [u \in Threads |-> IF u = t THEN location
                             ELSE IF pc[u] = "waiting" THEN "woken" ELSE pc[u]]

Goto(t, location) == pc' = [pc EXCEPT ![t] = location]

\* Faulty variant: the cached identity never expires.
CachedForever == servicePid # NoService

Cached == servicePid # NoService /\ fresh

\* The rest of the locked block, once nobody is refreshing.  The exception of
\* a thread that waited in vain goes up to _upstream.
Decide(t, observation) ==
    /\ ~refreshing
    /\ \/ /\ generation # observation /\ servicePid = NoService
          /\ Goto(t, "failing")
          /\ UNCHANGED <<refreshing, refreshGeneration, startedIn>>
       \/ /\ ~(generation # observation /\ servicePid = NoService)
          /\ Cached
          /\ Goto(t, "connected")
          /\ UNCHANGED <<refreshing, refreshGeneration, startedIn>>
       \/ /\ ~(generation # observation /\ servicePid = NoService)
          /\ ~Cached
          /\ Goto(t, "verifying")
          /\ refreshing' = TRUE
          /\ refreshGeneration' = [refreshGeneration EXCEPT ![t] = generation]
          /\ startedIn' = [startedIn EXCEPT ![t] = epoch]
    /\ UNCHANGED <<servicePid, fresh, generation, epoch, cachedIn>>

\* The top of the loop of verify.
Enter(t) ==
    /\ observed' = [observed EXCEPT ![t] = generation]
    /\ \/ /\ refreshing
          /\ Goto(t, "waiting")
          /\ UNCHANGED <<gate, refreshGeneration, history>>
       \/ Decide(t, generation)

Asks(t) ==
    /\ pc[t] = "idle"
    /\ requests < MaxRequests
    /\ requests' = requests + 1

\* The connection is there; verify is called before it is used.
Call(t) == Asks(t) /\ Enter(t)

\* The connection is refused: verify is not called.
Refused(t) ==
    /\ Asks(t)
    /\ Goto(t, "failing")
    /\ UNCHANGED <<gate, observed, refreshGeneration, history>>

Retry(t) ==
    /\ pc[t] = "retrying"
    /\ Enter(t)
    /\ UNCHANGED requests

\* _condition.wait() returns; the loop around it looks again.
Wake(t) ==
    /\ pc[t] = "woken"
    /\ \/ /\ refreshing
          /\ Goto(t, "waiting")
          /\ UNCHANGED <<gate, refreshGeneration, history>>
       \/ Decide(t, observed[t])
    /\ UNCHANGED <<observed, requests>>

\* Faulty variant: the waiting threads are not notified.
VerifierFailsSilently(t) ==
    /\ pc[t] = "verifying"
    /\ servicePid' = NoService
    /\ fresh' = FALSE
    /\ refreshing' = FALSE
    /\ generation' = generation + 1
    /\ Goto(t, "failing")
    /\ UNCHANGED <<observed, refreshGeneration, requests, history>>

\* full_verifier raises, times out or reports no identity.  The exception
\* goes up to _upstream, which is to invalidate the gate once more.
VerifierFails(t) ==
    /\ pc[t] = "verifying"
    /\ servicePid' = NoService
    /\ fresh' = FALSE
    /\ refreshing' = FALSE
    /\ generation' = generation + 1
    /\ NotifyAll(t, "failing")
    /\ UNCHANGED <<observed, refreshGeneration, requests, history>>

\* Faulty variant: an invalidation during the verification is not noticed.
VerifierSucceedsUnchecked(t, pid) ==
    /\ pc[t] = "verifying"
    /\ servicePid' = pid
    /\ fresh' = TRUE
    /\ refreshing' = FALSE
    /\ generation' = generation + 1
    /\ cachedIn' = startedIn[t]
    /\ NotifyAll(t, "connected")
    /\ UNCHANGED <<observed, refreshGeneration, requests, epoch, startedIn>>

\* full_verifier reports a process, and the gate was not invalidated.
VerifierSucceeds(t, pid) ==
    /\ pc[t] = "verifying"
    /\ generation = refreshGeneration[t]
    /\ servicePid' = pid
    /\ fresh' = TRUE
    /\ refreshing' = FALSE
    /\ generation' = generation + 1
    /\ cachedIn' = startedIn[t]
    /\ NotifyAll(t, "connected")
    /\ UNCHANGED <<observed, refreshGeneration, requests, epoch, startedIn>>

\* Faulty variant: the flag is left up.
VerifierOutdatedLeak(t) ==
    /\ pc[t] = "verifying"
    /\ generation # refreshGeneration[t]
    /\ NotifyAll(t, "retrying")
    /\ UNCHANGED <<gate, observed, refreshGeneration, requests, history>>

\* full_verifier reports a process after the gate was invalidated.
VerifierOutdated(t) ==
    /\ pc[t] = "verifying"
    /\ generation # refreshGeneration[t]
    /\ refreshing' = FALSE
    /\ NotifyAll(t, "retrying")
    /\ UNCHANGED <<servicePid, fresh, generation, observed, refreshGeneration,
                   requests, history>>

VerifierEnds(t) ==
    \/ VerifierFails(t)
    \/ \E pid \in Services : VerifierSucceeds(t, pid)
    \/ VerifierOutdated(t)

\* The connection breaks while the request is sent or answered.
Breaks(t) ==
    /\ pc[t] = "connected"
    /\ Goto(t, "failing")
    /\ UNCHANGED <<gate, observed, refreshGeneration, requests, history>>

\* _upstream's handler calls invalidate, whatever the exception was and
\* whatever other threads have verified or are verifying meanwhile.
Invalidate(t) ==
    /\ pc[t] = "failing"
    /\ servicePid' = NoService
    /\ fresh' = FALSE
    /\ generation' = generation + 1
    /\ epoch' = epoch + 1
    /\ NotifyAll(t, "idle")
    /\ UNCHANGED <<refreshing, observed, refreshGeneration, requests, startedIn,
                   cachedIn>>

\* The connection is used and closed.
Finish(t) ==
    /\ pc[t] = "connected"
    /\ Goto(t, "idle")
    /\ UNCHANGED <<gate, observed, refreshGeneration, requests, history>>

\* ttl_seconds pass.
Expire ==
    /\ fresh
    /\ fresh' = FALSE
    /\ UNCHANGED <<servicePid, refreshing, generation, pc, observed,
                   refreshGeneration, requests, history>>

Next ==
    \/ \E t \in Threads :
        \/ Call(t) \/ Refused(t) \/ Retry(t) \/ Wake(t)
        \/ VerifierEnds(t)
        \/ Breaks(t) \/ Invalidate(t) \/ Finish(t)
    \/ Expire

\* A thread that can run runs, and the verifier ends: its process is killed
\* after three seconds.  Nothing makes clients ask, or connections break.
Fairness ==
    \A t \in Threads : WF_vars(Retry(t)) /\ WF_vars(Wake(t))
                       /\ WF_vars(VerifierEnds(t)) /\ WF_vars(Invalidate(t))

Spec == Init /\ [][Next]_vars /\ Fairness

-----------------------------------------------------------------------------
\* _refreshing is up exactly while one thread runs the verifier: two never
\* run it at once, and no path leaves the flag up with nobody behind it.
OneRefresher ==
    /\ refreshing <=> \E t \in Threads : pc[t] = "verifying"
    /\ \A t, u \in Threads : pc[t] = "verifying" /\ pc[u] = "verifying" => t = u

\* Nobody sleeps on the condition unless a thread that will notify it is
\* running the verifier: no wakeup is lost.
NoLostWakeup == (\E t \in Threads : pc[t] = "waiting") => refreshing

\* The cached identity comes from a verification that began after the last
\* invalidation, whichever thread's exception caused it, never from one that
\* was under way then.
CacheIsCurrent == servicePid # NoService => cachedIn = epoch

\* A thread gets through only with an identity that is cached, unexpired and
\* current at that moment, whoever verified it.
AdmittedVerified ==
    [][\A t \in Threads :
        pc[t] # "connected" /\ pc'[t] = "connected" =>
            servicePid' # NoService /\ fresh' /\ cachedIn' = epoch']_vars

\* A thread verifies again only because the gate was invalidated while it
\* verified: the outcomes of other verifications, which move the generation
\* too, make nobody repeat one.
RepeatsHaveCause ==
    [][\A t \in Threads :
        pc[t] = "verifying" /\ pc'[t] = "retrying" => startedIn[t] < epoch]_vars

\* Once no more connections are asked for, every call of verify comes back.
\* While they are, each refusal may outdate a verification, and the code sets
\* no limit to how often a thread verifies again.
CallsEnd ==
    <>[][\A t \in Threads : ~Asks(t)]_vars =>
        \A t \in Threads :
            pc[t] \in {"retrying", "waiting", "woken", "verifying", "failing"}
                ~> pc[t] \in {"idle", "connected"}
=============================================================================
