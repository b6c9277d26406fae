------------------------ MODULE AttestationGateProofs -----------------------
(***************************************************************************)
(* Proofs about AttestationGate for any number of threads and calls: one   *)
(* refresher, no lost wakeup, no identity cached or used across an         *)
(* invalidation, and no verification repeated without one.  Outdated       *)
(* relates the generation counter, which every outcome of a verification   *)
(* moves as well, to the history of invalidations: the generation of a     *)
(* verifier is still the current one exactly if there was no invalidation  *)
(* since it began.                                                         *)
(***************************************************************************)
EXTENDS AttestationGate, TLAPS

Outdated ==
    \A t \in Threads : pc[t] = "verifying" =>
        /\ refreshGeneration[t] <= generation /\ startedIn[t] <= epoch
        /\ refreshGeneration[t] = generation <=> startedIn[t] = epoch

IInv == TypeOK /\ OneRefresher /\ NoLostWakeup /\ CacheIsCurrent /\ Outdated

\* Waking the others moves nobody into or out of the verifier.
LEMMA NotifyAllWakes ==
    ASSUME TypeOK, NEW t \in Threads,
           NEW location \in {"idle", "failing", "retrying", "connected"},
           NotifyAll(t, location)
    PROVE  /\ pc' \in [Threads -> {"idle", "retrying", "waiting", "woken",
                                   "verifying", "connected", "failing"}]
           /\ pc'[t] = location
           /\ \A u \in Threads : pc'[u] # "waiting"
           /\ \A u \in Threads \ {t} :
                /\ pc'[u] = "verifying" <=> pc[u] = "verifying"
                /\ pc'[u] = "connected" <=> pc[u] = "connected"
  BY DEF NotifyAll, TypeOK

\* A thread that goes through the locked block after waiting, or without.
LEMMA DecideStep ==
    ASSUME IInv, NEW t \in Threads, NEW observation \in Nat,
           pc[t] # "verifying", Decide(t, observation),
           observed' \in [Threads -> Nat], requests' \in Nat
    PROVE  IInv'
  <1>. USE DEF IInv
  <1>1. CASE pc' = [pc EXCEPT ![t] = "verifying"]
    <2>1. /\ ~refreshing /\ refreshing'
          /\ refreshGeneration' = [refreshGeneration EXCEPT ![t] = generation]
          /\ startedIn' = [startedIn EXCEPT ![t] = epoch]
          /\ UNCHANGED <<servicePid, fresh, generation, epoch, cachedIn>>
      BY <1>1 DEF Decide, Goto, TypeOK
    <2>2. \A u \in Threads : pc[u] # "verifying"
      BY <2>1 DEF OneRefresher
    <2>3. TypeOK'
      BY <1>1, <2>1 DEF TypeOK
    <2>4. OneRefresher' /\ NoLostWakeup' /\ CacheIsCurrent'
      BY <1>1, <2>1, <2>2 DEF OneRefresher, NoLostWakeup, CacheIsCurrent, TypeOK
    <2>5. Outdated'
      BY <1>1, <2>1, <2>2 DEF Outdated, TypeOK
    <2>. QED BY <2>3, <2>4, <2>5
  <1>2. CASE pc' # [pc EXCEPT ![t] = "verifying"]
    <2>1. /\ \/ pc' = [pc EXCEPT ![t] = "failing"]
             \/ pc' = [pc EXCEPT ![t] = "connected"]
          /\ ~refreshing
          /\ UNCHANGED <<servicePid, fresh, refreshing, generation,
                         refreshGeneration, history>>
      BY <1>2 DEF Decide, Goto, history
    <2>2. TypeOK'
      BY <2>1 DEF TypeOK, history
    <2>3. OneRefresher' /\ NoLostWakeup' /\ CacheIsCurrent'
      BY <2>1 DEF OneRefresher, NoLostWakeup, CacheIsCurrent, TypeOK, history
    <2>4. Outdated'
      BY <2>1 DEF Outdated, TypeOK, history
    <2>. QED BY <2>2, <2>3, <2>4
  <1>. QED BY <1>1, <1>2

LEMMA WaitStep ==
    ASSUME IInv, NEW t \in Threads, refreshing, pc[t] # "verifying",
           Goto(t, "waiting"), UNCHANGED <<gate, refreshGeneration, history>>,
           observed' \in [Threads -> Nat], requests' \in Nat
    PROVE  IInv'
  <1>. USE DEF IInv, Goto, gate, history
  <1>1. TypeOK'
    BY DEF TypeOK
  <1>2. OneRefresher' /\ NoLostWakeup' /\ CacheIsCurrent'
    BY DEF OneRefresher, NoLostWakeup, CacheIsCurrent, TypeOK
  <1>3. Outdated'
    BY DEF Outdated, TypeOK
  <1>. QED BY <1>1, <1>2, <1>3

LEMMA EnterStep ==
    ASSUME IInv, NEW t \in Threads, pc[t] # "verifying", Enter(t), requests' \in Nat
    PROVE  IInv'
  <1>1. observed' \in [Threads -> Nat] /\ generation \in Nat
    BY DEF Enter, IInv, TypeOK
  <1>. QED BY <1>1, WaitStep, DecideStep DEF Enter

LEMMA VerifierStep ==
    ASSUME IInv, NEW t \in Threads, VerifierEnds(t)
    PROVE  IInv'
  <1>. USE DEF IInv
  <1>1. CASE VerifierFails(t)
    <2>1. NotifyAll(t, "failing")
      BY <1>1 DEF VerifierFails
    <2>1a. fresh' \in BOOLEAN /\ refreshing' \in BOOLEAN
      BY <1>1 DEF VerifierFails
    <2>2. TypeOK'
      BY <1>1, <2>1, <2>1a, NotifyAllWakes DEF VerifierFails, TypeOK, history
    <2>3. OneRefresher' /\ NoLostWakeup' /\ CacheIsCurrent'
      BY <1>1, <2>1, NotifyAllWakes
      DEF VerifierFails, OneRefresher, NoLostWakeup, CacheIsCurrent, history
    <2>4. Outdated'
      BY <1>1, <2>1, NotifyAllWakes
      DEF VerifierFails, Outdated, OneRefresher, history
    <2>. QED BY <2>2, <2>3, <2>4
  <1>2. ASSUME NEW pid \in Services, VerifierSucceeds(t, pid) PROVE IInv'
    <2>1. NotifyAll(t, "connected")
      BY <1>2 DEF VerifierSucceeds
    <2>1a. fresh' \in BOOLEAN /\ refreshing' \in BOOLEAN
      BY <1>2 DEF VerifierSucceeds
    <2>2. TypeOK'
      BY <1>2, <2>1, <2>1a, NotifyAllWakes DEF VerifierSucceeds, TypeOK
    <2>3. OneRefresher' /\ NoLostWakeup' /\ CacheIsCurrent'
      BY <1>2, <2>1, NotifyAllWakes
      DEF VerifierSucceeds, OneRefresher, NoLostWakeup, CacheIsCurrent,
          Outdated, TypeOK
    <2>4. Outdated'
      BY <1>2, <2>1, NotifyAllWakes
      DEF VerifierSucceeds, Outdated, OneRefresher
    <2>. QED BY <2>2, <2>3, <2>4
  <1>3. CASE VerifierOutdated(t)
    <2>1. NotifyAll(t, "retrying")
      BY <1>3 DEF VerifierOutdated
    <2>1a. fresh' \in BOOLEAN /\ refreshing' \in BOOLEAN
      BY <1>3 DEF VerifierOutdated, TypeOK
    <2>2. TypeOK'
      BY <1>3, <2>1, <2>1a, NotifyAllWakes DEF VerifierOutdated, TypeOK, history
    <2>3. OneRefresher' /\ NoLostWakeup' /\ CacheIsCurrent'
      BY <1>3, <2>1, NotifyAllWakes
      DEF VerifierOutdated, OneRefresher, NoLostWakeup, CacheIsCurrent, history
    <2>4. Outdated'
      BY <1>3, <2>1, NotifyAllWakes
      DEF VerifierOutdated, Outdated, OneRefresher, history
    <2>. QED BY <2>2, <2>3, <2>4
  <1>. QED BY <1>1, <1>2, <1>3 DEF VerifierEnds

LEMMA InvalidateStep ==
    ASSUME IInv, NEW t \in Threads, Invalidate(t)
    PROVE  IInv'
  <1>. USE DEF IInv
  <1>1. NotifyAll(t, "idle") /\ pc[t] = "failing"
    BY DEF Invalidate
  <1>2. TypeOK'
    <2>1. fresh' \in BOOLEAN /\ refreshing' \in BOOLEAN
      BY DEF Invalidate, TypeOK
    <2>. QED BY <1>1, <2>1, NotifyAllWakes DEF Invalidate, TypeOK
  <1>3. OneRefresher' /\ NoLostWakeup' /\ CacheIsCurrent'
    BY <1>1, NotifyAllWakes
    DEF Invalidate, OneRefresher, NoLostWakeup, CacheIsCurrent
  <1>4. Outdated'
    <2>. SUFFICES ASSUME NEW u \in Threads, pc'[u] = "verifying"
                  PROVE  refreshGeneration[u] < generation' /\ startedIn[u] < epoch'
      BY DEF Outdated, Invalidate, TypeOK
    <2>1. pc[u] = "verifying"
      BY <1>1, NotifyAllWakes
    <2>. QED BY <2>1 DEF Outdated, Invalidate, TypeOK
  <1>. QED BY <1>2, <1>3, <1>4

LEMMA QuietStep ==
    ASSUME IInv, \/ \E t \in Threads : Refused(t) \/ Breaks(t) \/ Finish(t)
                 \/ Expire \/ UNCHANGED vars
    PROVE  IInv'
  <1>. USE DEF IInv
  <1>1. /\ UNCHANGED <<servicePid, refreshing, generation, observed,
                       refreshGeneration, history>>
        /\ fresh' \in BOOLEAN /\ requests' \in Nat
        /\ \/ pc' = pc
           \/ \E t \in Threads, location \in {"idle", "failing"} :
                pc[t] \in {"idle", "connected"} /\ pc' = [pc EXCEPT ![t] = location]
    <2>1. ASSUME NEW t \in Threads, Refused(t) \/ Breaks(t) \/ Finish(t)
          PROVE  /\ UNCHANGED <<gate, observed, refreshGeneration, history>>
                 /\ requests' \in Nat
                 /\ \E location \in {"idle", "failing"} :
                      pc[t] \in {"idle", "connected"} /\ pc' = [pc EXCEPT ![t] = location]
      BY <2>1 DEF Refused, Asks, Breaks, Finish, Goto, TypeOK
    <2>2. CASE Expire \/ UNCHANGED vars
      BY <2>2 DEF Expire, vars, gate, TypeOK
    <2>. QED
      BY <2>1, <2>2 DEF gate, TypeOK
  <1>2. TypeOK'
    BY <1>1 DEF TypeOK, history
  <1>3. \A u \in Threads : /\ pc'[u] = "verifying" <=> pc[u] = "verifying"
                           /\ pc'[u] = "waiting" <=> pc[u] = "waiting"
    BY <1>1 DEF TypeOK
  <1>4. OneRefresher' /\ NoLostWakeup' /\ CacheIsCurrent' /\ Outdated'
    BY <1>1, <1>3
    DEF OneRefresher, NoLostWakeup, CacheIsCurrent, Outdated, history
  <1>. QED BY <1>2, <1>4

LEMMA InitIInv == Init => IInv
  <1>1. SUFFICES ASSUME Init PROVE IInv
    OBVIOUS
  <1>2. fresh \in BOOLEAN /\ refreshing \in BOOLEAN /\ ~refreshing
    BY <1>1 DEF Init
  <1>3. TypeOK
    BY <1>1, <1>2 DEF Init, TypeOK
  <1>4. OneRefresher /\ NoLostWakeup /\ CacheIsCurrent /\ Outdated
    BY <1>1, <1>2
    DEF Init, OneRefresher, NoLostWakeup, CacheIsCurrent, Outdated
  <1>. QED BY <1>3, <1>4 DEF IInv

LEMMA StepIInv == IInv /\ [Next]_vars => IInv'
  <1>1. SUFFICES ASSUME IInv, [Next]_vars PROVE IInv'
    OBVIOUS
  <1>2. ASSUME NEW t \in Threads, Call(t) \/ Retry(t) PROVE IInv'
    BY <1>1, <1>2, EnterStep DEF Call, Asks, Retry, IInv, TypeOK
  <1>3. ASSUME NEW t \in Threads, Wake(t) PROVE IInv'
    <2>1. /\ observed' \in [Threads -> Nat] /\ requests' \in Nat
          /\ observed[t] \in Nat /\ pc[t] # "verifying"
      BY <1>1, <1>3 DEF Wake, IInv, TypeOK
    <2>. QED BY <1>1, <1>3, <2>1, WaitStep, DecideStep DEF Wake
  <1>4. ASSUME NEW t \in Threads, VerifierEnds(t) PROVE IInv'
    BY <1>1, <1>4, VerifierStep
  <1>5. ASSUME NEW t \in Threads, Invalidate(t) PROVE IInv'
    BY <1>1, <1>5, InvalidateStep
  <1>6. CASE \/ \E t \in Threads : Refused(t) \/ Breaks(t) \/ Finish(t)
             \/ Expire \/ UNCHANGED vars
    BY <1>1, <1>6, QuietStep
  <1>. QED BY <1>1, <1>2, <1>3, <1>4, <1>5, <1>6 DEF Next

THEOREM Invariance == Spec => []IInv
  <1>. QED BY InitIInv, StepIInv, PTL DEF Spec

\* The state of the gate is well typed.
THEOREM TypeCorrect == Spec => []TypeOK
  <1>1. IInv => TypeOK
    BY DEF IInv
  <1>. QED BY <1>1, Invariance, PTL

\* At most one thread runs the verifier, and the flag says so.
THEOREM SingleRefresher == Spec => []OneRefresher
  <1>1. IInv => OneRefresher
    BY DEF IInv
  <1>. QED BY <1>1, Invariance, PTL

\* Whoever sleeps will be notified.
THEOREM WakeupsKept == Spec => []NoLostWakeup
  <1>1. IInv => NoLostWakeup
    BY DEF IInv
  <1>. QED BY <1>1, Invariance, PTL

\* No cached identity outlives an invalidation, whichever exception caused it.
THEOREM CacheCurrent == Spec => []CacheIsCurrent
  <1>1. IInv => CacheIsCurrent
    BY DEF IInv
  <1>. QED BY <1>1, Invariance, PTL

\* Nobody gets through on an identity that expired or was invalidated.
THEOREM OnlyVerifiedAdmitted == Spec => AdmittedVerified
  <1>. DEFINE Admission ==
        \A t \in Threads :
            pc[t] # "connected" /\ pc'[t] = "connected" =>
                servicePid' # NoService /\ fresh' /\ cachedIn' = epoch'
  <1>1. IInv /\ IInv' /\ [Next]_vars => [Admission]_vars
    <2>1. SUFFICES ASSUME IInv, IInv', [Next]_vars, NEW t \in Threads,
                          pc[t] # "connected", pc'[t] = "connected"
                   PROVE  servicePid' # NoService /\ fresh'
      BY DEF IInv, CacheIsCurrent
    <2>2. ASSUME NEW u \in Threads, NEW observation, Decide(u, observation)
          PROVE  servicePid' # NoService /\ fresh'
      BY <2>1, <2>2 DEF Decide, Goto, Cached, IInv, TypeOK
    <2>3. ASSUME NEW u \in Threads,
                 Goto(u, "waiting") \/ Goto(u, "idle") \/ Goto(u, "failing")
          PROVE  FALSE
      BY <2>1, <2>3 DEF Goto, IInv, TypeOK
    <2>4. ASSUME NEW u \in Threads, Call(u) \/ Retry(u) \/ Wake(u)
          PROVE  servicePid' # NoService /\ fresh'
      BY <2>2, <2>3, <2>4 DEF Call, Retry, Wake, Enter
    <2>5. ASSUME NEW u \in Threads, VerifierEnds(u)
          PROVE  servicePid' # NoService /\ fresh'
      <3>1. CASE \E pid \in Services : VerifierSucceeds(u, pid)
        BY <3>1, GateAssumption DEF VerifierSucceeds
      <3>2. CASE VerifierFails(u) \/ VerifierOutdated(u)
        BY <2>1, <3>2, NotifyAllWakes
        DEF VerifierFails, VerifierOutdated, IInv
      <3>. QED BY <2>5, <3>1, <3>2 DEF VerifierEnds
    <2>6. ASSUME NEW u \in Threads, Invalidate(u) PROVE FALSE
      BY <2>1, <2>6, NotifyAllWakes DEF Invalidate, IInv
    <2>7. ASSUME NEW u \in Threads, Refused(u) \/ Breaks(u) \/ Finish(u) PROVE FALSE
      BY <2>3, <2>7 DEF Refused, Breaks, Finish
    <2>8. CASE Expire \/ UNCHANGED vars
      BY <2>1, <2>8 DEF Expire, vars
    <2>. QED BY <2>1, <2>4, <2>5, <2>6, <2>7, <2>8 DEF Next
  <1>. QED BY <1>1, Invariance, PTL DEF Spec, AdmittedVerified

\* Nobody repeats a verification unless the gate was invalidated during it.
THEOREM RepeatsAreCaused == Spec => RepeatsHaveCause
  <1>. DEFINE Cause ==
        \A t \in Threads :
            pc[t] = "verifying" /\ pc'[t] = "retrying" => startedIn[t] < epoch
  <1>1. IInv /\ [Next]_vars => [Cause]_vars
    <2>1. SUFFICES ASSUME IInv, [Next]_vars, NEW t \in Threads,
                          pc[t] = "verifying", pc'[t] = "retrying"
                   PROVE  startedIn[t] < epoch
      OBVIOUS
    <2>2. CASE VerifierOutdated(t)
      BY <2>1, <2>2 DEF VerifierOutdated, Outdated, IInv, TypeOK
    <2>3. ASSUME NEW u \in Threads, u # t, VerifierEnds(u) \/ Invalidate(u) PROVE FALSE
      BY <2>1, <2>3, NotifyAllWakes
      DEF VerifierEnds, VerifierFails, VerifierSucceeds, VerifierOutdated, Invalidate, IInv
    <2>4. ASSUME VerifierFails(t) \/ (\E pid \in Services : VerifierSucceeds(t, pid))
                 \/ Invalidate(t)
          PROVE  FALSE
      BY <2>1, <2>4 DEF VerifierFails, VerifierSucceeds, Invalidate, NotifyAll
    <2>5. ASSUME NEW u \in Threads,
                 NEW location \in {"idle", "waiting", "verifying", "connected", "failing"},
                 Goto(u, location)
          PROVE  FALSE
      BY <2>1, <2>5 DEF Goto, IInv, TypeOK
    <2>6. ASSUME NEW u \in Threads,
                 Call(u) \/ Refused(u) \/ Retry(u) \/ Wake(u) \/ Breaks(u) \/ Finish(u)
          PROVE  FALSE
      BY <2>5, <2>6 DEF Call, Refused, Retry, Wake, Enter, Decide, Breaks, Finish
    <2>7. CASE Expire \/ UNCHANGED vars
      BY <2>1, <2>7 DEF Expire, vars
    <2>. QED BY <2>1, <2>2, <2>3, <2>4, <2>6, <2>7 DEF Next, VerifierEnds
  <1>. QED BY <1>1, Invariance, PTL DEF Spec, RepeatsHaveCause
=============================================================================
