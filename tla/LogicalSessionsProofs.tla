------------------------ MODULE LogicalSessionsProofs ------------------------
(***************************************************************************)
(* Proofs about LogicalSessions for any number of processes, sessions,     *)
(* controllers and ports, and for any number of failures and kills.  Two   *)
(* facts carry them: a step of a process changes its own locals and the    *)
(* directory of its own session only (Frame), and the session of a         *)
(* creation is nobody else's until it is published (Fresh).                *)
(* That removals go from the bottom up rests on RemovalInv, at the end,    *)
(* which adds that parents are drawn before their children (Ancestry):     *)
(* only then is the recursive function Depth defined.                      *)
(***************************************************************************)
EXTENDS LogicalSessions, TLAPS

\* The locations at which a process has a session, a port, a planned update.
AtSession == Locations \ {"idle", "scan", "inspect"}
AtPort == {"lease", "record", "launch", "running"}
AtUpdate == {"open", "lock", "temp", "swap"}

InCommand ==
    \A p \in Procs :
        /\ pc[p] \in AtSession => session[p] \in Ids
        /\ pc[p] \in AtPort => port[p] \in Ports
        /\ pc[p] \in AtUpdate => expect[p] \in Controllers /\ wanted[p] \in Controllers
        /\ pc[p] = "scan" => session[p] \in known[p] \cup {None}

\* Sessions come into being by their id being drawn.
Drawn ==
    /\ \A p \in Procs : session[p] \in drawn \cup {None}
    /\ \A s \in Ids : s \notin drawn => place[s] = "none"

\* Before it is published, a session belongs to the process that creates it.
Fresh ==
    \A p \in Procs :
        pc[p] \in {"allocate", "write", "publish"} =>
            /\ place[session[p]] # "root"
            /\ \A q \in Procs \ {p} : session[q] # session[p]

\* The port lock and the locks of session directories.
OneReserves ==
    \A p, q \in Procs :
        pc[p] \in {"lease", "record"} /\ pc[q] \in {"lease", "record"} => p = q

OneUpdates ==
    \A p, q \in Procs :
        pc[p] \in {"temp", "swap"} /\ pc[q] \in {"temp", "swap"}
        /\ session[p] = session[q] => p = q

\* A process that reserves has its port to itself, before and after the lease
\* is complete.
Leased ==
    \A p \in Procs :
        /\ pc[p] = "lease" => leases[port[p]] = Partial
        /\ pc[p] \in AtPort \ {"lease"} =>
             leases[port[p]] = [pid |-> p, session |-> session[p]]

\* While an update holds the lock, only a deletion changes the binding.
Expected ==
    \A p \in Procs :
        pc[p] \in {"temp", "swap"} => binding[session[p]] \in {expect[p], Absent}

\* What removals and failed creations delete is on record.
Recorded ==
    \A p \in Procs :
        /\ queue[p] \subseteq condemned
        /\ pc[p] \in {"stage", "unlink", "rmdir", "cleanDirectory"} =>
             session[p] \in condemned

\* Sessions that are not are complete from the reservation of the port on, and
\* while they are updated.
Complete ==
    \A p \in Procs :
        pc[p] \in AtPort \cup {"temp", "swap", "reserve"} =>
            Loadable(session[p]) \/ session[p] \in condemned

Inv == /\ TypeOK /\ InCommand /\ Drawn /\ Fresh /\ OneReserves /\ OneUpdates
       /\ Leased /\ Expected /\ Recorded /\ Complete

-----------------------------------------------------------------------------
(* What a step leaves alone.                                               *)

LEMMA Frame ==
    ASSUME TypeOK, NEW p \in Procs, Step(p)
    PROVE  /\ \A q \in Procs \ {p} :
                /\ pc'[q] = pc[q] /\ session'[q] = session[q]
                /\ expect'[q] = expect[q] /\ wanted'[q] = wanted[q]
                /\ known'[q] = known[q] /\ queue'[q] = queue[q]
                /\ port'[q] = port[q]
           /\ condemned \subseteq condemned' /\ drawn \subseteq drawn'
  <1> USE DEF TypeOK, Goto, End, Continue, locals, directories, counters, Fails
  <1>1. CASE Create(p)
    BY <1>1 DEF Create
  <1>2. CASE Allocate(p)
    BY <1>2 DEF Allocate
  <1>3. CASE Write(p)
    BY <1>3 DEF Write
  <1>4. CASE Publish(p)
    BY <1>4 DEF Publish
  <1>5. CASE Reload(p)
    BY <1>5 DEF Reload
  <1>6. CASE CreateFails(p)
    BY <1>6 DEF CreateFails
  <1>7. CASE CleanBinding(p)
    BY <1>7 DEF CleanBinding
  <1>8. CASE CleanDirectory(p)
    BY <1>8 DEF CleanDirectory
  <1>9. CASE Resume(p)
    BY <1>9 DEF Resume
  <1>10. CASE Open(p)
    BY <1>10 DEF Open
  <1>11. CASE Lock(p)
    BY <1>11 DEF Lock, Updated
  <1>12. CASE CreateTemp(p)
    BY <1>12 DEF CreateTemp
  <1>13. CASE Swap(p)
    BY <1>13 DEF Swap, Updated
  <1>14. CASE SwapFails(p)
    BY <1>14 DEF SwapFails
  <1>15. CASE Reserve(p)
    BY <1>15 DEF Reserve
  <1>16. CASE WriteLease(p)
    BY <1>16 DEF WriteLease
  <1>17. CASE RecordPort(p)
    BY <1>17 DEF RecordPort
  <1>18. CASE ReserveFails(p)
    BY <1>18 DEF ReserveFails
  <1>19. CASE Launch(p)
    BY <1>19 DEF Launch
  <1>20. CASE Exit(p)
    BY <1>20 DEF Exit
  <1>21. CASE List(p)
    BY <1>21 DEF List
  <1>22. CASE Scan(p)
    BY <1>22 DEF Scan
  <1>23. CASE Inspect(p)
    BY <1>23 DEF Inspect
  <1>24. CASE Stage(p)
    BY <1>24 DEF Stage, PutBack
  <1>25. CASE Unlink(p)
    BY <1>25 DEF Unlink, PutBack
  <1>26. CASE Rmdir(p)
    BY <1>26 DEF Rmdir, PutBack
  <1>27. CASE DeleteFails(p)
    BY <1>27 DEF DeleteFails, PutBack
  <1>28. CASE Kill(p)
    BY <1>28 DEF Kill
  <1> QED
    BY <1>1, <1>2, <1>3, <1>4, <1>5, <1>6, <1>7, <1>8, <1>9, <1>10, <1>11,
       <1>12, <1>13, <1>14, <1>15, <1>16, <1>17, <1>18, <1>19, <1>20, <1>21,
       <1>22, <1>23, <1>24, <1>25, <1>26, <1>27, <1>28
    DEF Step

LEMMA OtherDirectories ==
    ASSUME TypeOK, NEW p \in Procs, Step(p),
           NEW s \in Ids, s # session[p]
    PROVE  place'[s] = place[s] /\ binding'[s] = binding[s]
  <1> USE DEF TypeOK, directories, counters
  <1>1. CASE Create(p)
    BY <1>1 DEF Create
  <1>2. CASE Allocate(p)
    BY <1>2 DEF Allocate
  <1>3. CASE Write(p)
    BY <1>3 DEF Write
  <1>4. CASE Publish(p)
    BY <1>4 DEF Publish
  <1>5. CASE Reload(p)
    BY <1>5 DEF Reload
  <1>6. CASE CreateFails(p)
    BY <1>6 DEF CreateFails
  <1>7. CASE CleanBinding(p)
    BY <1>7 DEF CleanBinding
  <1>8. CASE CleanDirectory(p)
    BY <1>8 DEF CleanDirectory
  <1>9. CASE Resume(p)
    BY <1>9 DEF Resume
  <1>10. CASE Open(p)
    BY <1>10 DEF Open
  <1>11. CASE Lock(p)
    BY <1>11 DEF Lock
  <1>12. CASE CreateTemp(p)
    BY <1>12 DEF CreateTemp
  <1>13. CASE Swap(p)
    BY <1>13 DEF Swap
  <1>14. CASE SwapFails(p)
    BY <1>14 DEF SwapFails
  <1>15. CASE Reserve(p)
    BY <1>15 DEF Reserve
  <1>16. CASE WriteLease(p)
    BY <1>16 DEF WriteLease
  <1>17. CASE RecordPort(p)
    BY <1>17 DEF RecordPort
  <1>18. CASE ReserveFails(p)
    BY <1>18 DEF ReserveFails
  <1>19. CASE Launch(p)
    BY <1>19 DEF Launch
  <1>20. CASE Exit(p)
    BY <1>20 DEF Exit
  <1>21. CASE List(p)
    BY <1>21 DEF List
  <1>22. CASE Scan(p)
    BY <1>22 DEF Scan
  <1>23. CASE Inspect(p)
    BY <1>23 DEF Inspect
  <1>24. CASE Stage(p)
    BY <1>24 DEF Stage, PutBack
  <1>25. CASE Unlink(p)
    BY <1>25 DEF Unlink, PutBack
  <1>26. CASE Rmdir(p)
    BY <1>26 DEF Rmdir, PutBack
  <1>27. CASE DeleteFails(p)
    BY <1>27 DEF DeleteFails, PutBack
  <1>28. CASE Kill(p)
    BY <1>28 DEF Kill
  <1> QED
    BY <1>1, <1>2, <1>3, <1>4, <1>5, <1>6, <1>7, <1>8, <1>9, <1>10, <1>11,
       <1>12, <1>13, <1>14, <1>15, <1>16, <1>17, <1>18, <1>19, <1>20, <1>21,
       <1>22, <1>23, <1>24, <1>25, <1>26, <1>27, <1>28
    DEF Step

-----------------------------------------------------------------------------
LEMMA LocalsType ==
    ASSUME TypeOK, NEW p \in Procs, Step(p)
    PROVE  /\ pc' \in [Procs -> Locations]
           /\ session' \in [Procs -> Ids \cup {None}]
           /\ expect' \in [Procs -> Controllers \cup {None}]
           /\ wanted' \in [Procs -> Controllers \cup {None}]
           /\ port' \in [Procs -> Ports \cup {None}]
  <1> USE DEF TypeOK, Goto, End, Continue, locals, Locations
  <1>1. CASE Create(p)
    BY <1>1 DEF Create
  <1>2. CASE Allocate(p)
    BY <1>2 DEF Allocate
  <1>3. CASE Write(p)
    BY <1>3 DEF Write
  <1>4. CASE Publish(p)
    BY <1>4 DEF Publish
  <1>5. CASE Reload(p)
    BY <1>5 DEF Reload
  <1>6. CASE CreateFails(p)
    BY <1>6 DEF CreateFails
  <1>7. CASE CleanBinding(p)
    BY <1>7 DEF CleanBinding
  <1>8. CASE CleanDirectory(p)
    BY <1>8 DEF CleanDirectory
  <1>9. CASE Resume(p)
    BY <1>9 DEF Resume, Loadable
  <1>10. CASE Open(p)
    BY <1>10 DEF Open
  <1>11. CASE Lock(p)
    BY <1>11 DEF Lock, Updated
  <1>12. CASE CreateTemp(p)
    BY <1>12 DEF CreateTemp
  <1>13. CASE Swap(p)
    BY <1>13 DEF Swap, Updated
  <1>14. CASE SwapFails(p)
    BY <1>14 DEF SwapFails
  <1>15. CASE Reserve(p)
    <2>1. CASE End(p)
      BY <1>15, <2>1
    <2>2. CASE Goto(p, "lease") /\ UNCHANGED <<session, expect, wanted, known, queue>>
      BY <1>15, <2>2 DEF Reserve
    <2> QED BY <1>15, <2>1, <2>2 DEF Reserve
  <1>16. CASE WriteLease(p)
    BY <1>16 DEF WriteLease
  <1>17. CASE RecordPort(p)
    BY <1>17 DEF RecordPort
  <1>18. CASE ReserveFails(p)
    BY <1>18 DEF ReserveFails
  <1>19. CASE Launch(p)
    BY <1>19 DEF Launch
  <1>20. CASE Exit(p)
    BY <1>20 DEF Exit
  <1>21. CASE List(p)
    BY <1>21 DEF List, InRoot
  <1>22. CASE Scan(p)
    BY <1>22 DEF Scan
  <1>23. CASE Inspect(p)
    BY <1>23 DEF Inspect
  <1>24. CASE Stage(p)
    BY <1>24 DEF Stage, PutBack
  <1>25. CASE Unlink(p)
    BY <1>25 DEF Unlink, PutBack
  <1>26. CASE Rmdir(p)
    BY <1>26 DEF Rmdir, PutBack
  <1>27. CASE DeleteFails(p)
    BY <1>27 DEF DeleteFails, PutBack
  <1>28. CASE Kill(p)
    BY <1>28 DEF Kill
  <1> QED
    BY <1>1, <1>2, <1>3, <1>4, <1>5, <1>6, <1>7, <1>8, <1>9, <1>10, <1>11,
       <1>12, <1>13, <1>14, <1>15, <1>16, <1>17, <1>18, <1>19, <1>20, <1>21,
       <1>22, <1>23, <1>24, <1>25, <1>26, <1>27, <1>28
    DEF Step

LEMMA QueuesType ==
    ASSUME TypeOK, InCommand, NEW p \in Procs, Step(p)
    PROVE  known' \in [Procs -> SUBSET Ids] /\ queue' \in [Procs -> SUBSET Ids]
  <1> USE DEF TypeOK, End, Continue, locals
  <1>1. CASE Create(p)
    BY <1>1 DEF Create
  <1>2. CASE Allocate(p)
    BY <1>2 DEF Allocate
  <1>3. CASE Write(p)
    BY <1>3 DEF Write
  <1>4. CASE Publish(p)
    BY <1>4 DEF Publish
  <1>5. CASE Reload(p)
    BY <1>5 DEF Reload
  <1>6. CASE CreateFails(p)
    BY <1>6 DEF CreateFails
  <1>7. CASE CleanBinding(p)
    BY <1>7 DEF CleanBinding
  <1>8. CASE CleanDirectory(p)
    BY <1>8 DEF CleanDirectory
  <1>9. CASE Resume(p)
    BY <1>9 DEF Resume
  <1>10. CASE Open(p)
    BY <1>10 DEF Open
  <1>11. CASE Lock(p)
    BY <1>11 DEF Lock, Updated
  <1>12. CASE CreateTemp(p)
    BY <1>12 DEF CreateTemp
  <1>13. CASE Swap(p)
    BY <1>13 DEF Swap, Updated
  <1>14. CASE SwapFails(p)
    BY <1>14 DEF SwapFails
  <1>15. CASE Reserve(p)
    BY <1>15 DEF Reserve
  <1>16. CASE WriteLease(p)
    BY <1>16 DEF WriteLease
  <1>17. CASE RecordPort(p)
    BY <1>17 DEF RecordPort
  <1>18. CASE ReserveFails(p)
    BY <1>18 DEF ReserveFails
  <1>19. CASE Launch(p)
    BY <1>19 DEF Launch
  <1>20. CASE Exit(p)
    BY <1>20 DEF Exit
  <1>21. CASE List(p)
    BY <1>21 DEF List, InRoot
  <1>22. CASE Scan(p)
    BY <1>22 DEF Scan
  <1>23. CASE Inspect(p)
    BY <1>23 DEF Inspect
  <1>24. CASE Stage(p)
    BY <1>24 DEF Stage, PutBack
  <1>25. CASE Unlink(p)
    BY <1>25 DEF Unlink, PutBack
  <1>26. CASE Rmdir(p)
    BY <1>26 DEF Rmdir, PutBack
  <1>27. CASE DeleteFails(p)
    BY <1>27 DEF DeleteFails, PutBack
  <1>28. CASE Kill(p)
    BY <1>28 DEF Kill
  <1> QED
    BY <1>1, <1>2, <1>3, <1>4, <1>5, <1>6, <1>7, <1>8, <1>9, <1>10, <1>11,
       <1>12, <1>13, <1>14, <1>15, <1>16, <1>17, <1>18, <1>19, <1>20, <1>21,
       <1>22, <1>23, <1>24, <1>25, <1>26, <1>27, <1>28
    DEF Step

LEMMA DirectoriesType ==
    ASSUME TypeOK, InCommand, NEW p \in Procs, Step(p)
    PROVE  /\ place' \in [Ids -> Places]
           /\ binding' \in [Ids -> Controllers \cup {Absent}]
           /\ leftover' \in [Ids -> BOOLEAN]
           /\ parent' \in [Ids -> Ids \cup {None}]
           /\ drawn' \subseteq Ids /\ condemned' \subseteq Ids
  <1> USE DEF TypeOK, directories, Places, InCommand, AtSession, AtUpdate, Locations
  <1>1. CASE Create(p)
    BY <1>1 DEF Create
  <1>2. CASE Allocate(p)
    BY <1>2 DEF Allocate
  <1>3. CASE Write(p)
    BY <1>3 DEF Write
  <1>4. CASE Publish(p)
    BY <1>4 DEF Publish
  <1>5. CASE Reload(p)
    BY <1>5 DEF Reload
  <1>6. CASE CreateFails(p)
    BY <1>6 DEF CreateFails
  <1>7. CASE CleanBinding(p)
    BY <1>7 DEF CleanBinding
  <1>8. CASE CleanDirectory(p)
    BY <1>8 DEF CleanDirectory
  <1>9. CASE Resume(p)
    BY <1>9 DEF Resume
  <1>10. CASE Open(p)
    BY <1>10 DEF Open
  <1>11. CASE Lock(p)
    BY <1>11 DEF Lock
  <1>12. CASE CreateTemp(p)
    BY <1>12 DEF CreateTemp
  <1>13. CASE Swap(p)
    BY <1>13 DEF Swap
  <1>14. CASE SwapFails(p)
    BY <1>14 DEF SwapFails
  <1>15. CASE Reserve(p)
    BY <1>15 DEF Reserve
  <1>16. CASE WriteLease(p)
    BY <1>16 DEF WriteLease
  <1>17. CASE RecordPort(p)
    BY <1>17 DEF RecordPort
  <1>18. CASE ReserveFails(p)
    BY <1>18 DEF ReserveFails
  <1>19. CASE Launch(p)
    BY <1>19 DEF Launch
  <1>20. CASE Exit(p)
    BY <1>20 DEF Exit
  <1>21. CASE List(p)
    BY <1>21 DEF List
  <1>22. CASE Scan(p)
    BY <1>22 DEF Scan
  <1>23. CASE Inspect(p)
    BY <1>23 DEF Inspect
  <1>24. CASE Stage(p)
    BY <1>24 DEF Stage, PutBack
  <1>25. CASE Unlink(p)
    BY <1>25 DEF Unlink, PutBack
  <1>26. CASE Rmdir(p)
    BY <1>26 DEF Rmdir, PutBack
  <1>27. CASE DeleteFails(p)
    BY <1>27 DEF DeleteFails, PutBack
  <1>28. CASE Kill(p)
    BY <1>28 DEF Kill
  <1> QED
    BY <1>1, <1>2, <1>3, <1>4, <1>5, <1>6, <1>7, <1>8, <1>9, <1>10, <1>11,
       <1>12, <1>13, <1>14, <1>15, <1>16, <1>17, <1>18, <1>19, <1>20, <1>21,
       <1>22, <1>23, <1>24, <1>25, <1>26, <1>27, <1>28
    DEF Step

LEMMA LeasesType ==
    ASSUME TypeOK, InCommand, NEW p \in Procs, Step(p)
    PROVE  leases' \in [Ports -> Leases] /\ errors' \in Nat /\ kills' \in Nat
  <1> USE DEF TypeOK, directories, counters, Fails, Leases, InCommand, AtSession,
              Locations
  <1>1. CASE Create(p)
    BY <1>1 DEF Create
  <1>2. CASE Allocate(p)
    BY <1>2 DEF Allocate
  <1>3. CASE Write(p)
    BY <1>3 DEF Write
  <1>4. CASE Publish(p)
    BY <1>4 DEF Publish
  <1>5. CASE Reload(p)
    BY <1>5 DEF Reload
  <1>6. CASE CreateFails(p)
    BY <1>6 DEF CreateFails
  <1>7. CASE CleanBinding(p)
    BY <1>7 DEF CleanBinding
  <1>8. CASE CleanDirectory(p)
    BY <1>8 DEF CleanDirectory
  <1>9. CASE Resume(p)
    BY <1>9 DEF Resume
  <1>10. CASE Open(p)
    BY <1>10 DEF Open
  <1>11. CASE Lock(p)
    BY <1>11 DEF Lock
  <1>12. CASE CreateTemp(p)
    BY <1>12 DEF CreateTemp
  <1>13. CASE Swap(p)
    BY <1>13 DEF Swap
  <1>14. CASE SwapFails(p)
    BY <1>14 DEF SwapFails
  <1>15. CASE Reserve(p)
    BY <1>15 DEF Reserve
  <1>16. CASE WriteLease(p)
    BY <1>16 DEF WriteLease
  <1>17. CASE RecordPort(p)
    BY <1>17 DEF RecordPort
  <1>18. CASE ReserveFails(p)
    <2>1. leases' = [leases EXCEPT ![port[p]] = NoLease] /\ NoLease \in Leases
      BY <1>18 DEF ReserveFails
    <2>2. errors' \in Nat /\ kills' \in Nat
      BY <1>18 DEF ReserveFails
    <2> QED BY <2>1, <2>2
  <1>19. CASE Launch(p)
    BY <1>19 DEF Launch
  <1>20. CASE Exit(p)
    BY <1>20 DEF Exit
  <1>21. CASE List(p)
    BY <1>21 DEF List
  <1>22. CASE Scan(p)
    BY <1>22 DEF Scan
  <1>23. CASE Inspect(p)
    BY <1>23 DEF Inspect
  <1>24. CASE Stage(p)
    BY <1>24 DEF Stage
  <1>25. CASE Unlink(p)
    BY <1>25 DEF Unlink
  <1>26. CASE Rmdir(p)
    BY <1>26 DEF Rmdir
  <1>27. CASE DeleteFails(p)
    BY <1>27 DEF DeleteFails
  <1>28. CASE Kill(p)
    BY <1>28 DEF Kill
  <1> QED
    BY <1>1, <1>2, <1>3, <1>4, <1>5, <1>6, <1>7, <1>8, <1>9, <1>10, <1>11,
       <1>12, <1>13, <1>14, <1>15, <1>16, <1>17, <1>18, <1>19, <1>20, <1>21,
       <1>22, <1>23, <1>24, <1>25, <1>26, <1>27, <1>28
    DEF Step

LEMMA TypeStep ==
    ASSUME TypeOK, InCommand, NEW p \in Procs, Step(p)
    PROVE  TypeOK'
  BY LocalsType, QueuesType, DirectoriesType, LeasesType DEF TypeOK

LEMMA CommandStep ==
    ASSUME TypeOK, InCommand, NEW p \in Procs, Step(p)
    PROVE  InCommand'
  <1> USE DEF TypeOK, Goto, End, Continue, locals, Fails,
              Locations, AtSession, AtPort, AtUpdate
  <1>a. SUFFICES /\ pc'[p] \in AtSession => session'[p] \in Ids
                 /\ pc'[p] \in AtPort => port'[p] \in Ports
                 /\ pc'[p] \in AtUpdate => expect'[p] \in Controllers /\ wanted'[p] \in Controllers
                 /\ pc'[p] = "scan" => session'[p] \in known'[p] \cup {None}
    BY Frame DEF InCommand
  <1> USE DEF InCommand
  <1>1. CASE Create(p)
    BY <1>1 DEF Create, Loadable, InRoot
  <1>2. CASE Allocate(p)
    BY <1>2 DEF Allocate
  <1>3. CASE Write(p)
    BY <1>3 DEF Write
  <1>4. CASE Publish(p)
    BY <1>4 DEF Publish
  <1>5. CASE Reload(p)
    BY <1>5 DEF Reload
  <1>6. CASE CreateFails(p)
    BY <1>6 DEF CreateFails
  <1>7. CASE CleanBinding(p)
    BY <1>7 DEF CleanBinding
  <1>8. CASE CleanDirectory(p)
    BY <1>8 DEF CleanDirectory
  <1>9. CASE Resume(p)
    BY <1>9 DEF Resume, Loadable, InRoot
  <1>10. CASE Open(p)
    BY <1>10 DEF Open
  <1>11. CASE Lock(p)
    BY <1>11 DEF Lock, Updated
  <1>12. CASE CreateTemp(p)
    BY <1>12 DEF CreateTemp
  <1>13. CASE Swap(p)
    BY <1>13 DEF Swap, Updated
  <1>14. CASE SwapFails(p)
    BY <1>14 DEF SwapFails
  <1>15. CASE Reserve(p)
    BY <1>15 DEF Reserve
  <1>16. CASE WriteLease(p)
    BY <1>16 DEF WriteLease
  <1>17. CASE RecordPort(p)
    BY <1>17 DEF RecordPort
  <1>18. CASE ReserveFails(p)
    BY <1>18 DEF ReserveFails
  <1>19. CASE Launch(p)
    BY <1>19 DEF Launch
  <1>20. CASE Exit(p)
    BY <1>20 DEF Exit
  <1>21. CASE List(p)
    BY <1>21 DEF List, Loadable, InRoot
  <1>22. CASE Scan(p)
    BY <1>22 DEF Scan
  <1>23. CASE Inspect(p)
    BY <1>23 DEF Inspect, Loadable, InRoot
  <1>24. CASE Stage(p)
    BY <1>24 DEF Stage, PutBack
  <1>25. CASE Unlink(p)
    BY <1>25 DEF Unlink, PutBack
  <1>26. CASE Rmdir(p)
    BY <1>26 DEF Rmdir, PutBack
  <1>27. CASE DeleteFails(p)
    BY <1>27 DEF DeleteFails, PutBack
  <1>28. CASE Kill(p)
    BY <1>28 DEF Kill
  <1> QED
    BY <1>1, <1>2, <1>3, <1>4, <1>5, <1>6, <1>7, <1>8, <1>9, <1>10, <1>11,
       <1>12, <1>13, <1>14, <1>15, <1>16, <1>17, <1>18, <1>19, <1>20, <1>21,
       <1>22, <1>23, <1>24, <1>25, <1>26, <1>27, <1>28
    DEF Step

-----------------------------------------------------------------------------
(* How a process gets its session and where it is then.                    *)

LEMMA SessionMoves ==
    ASSUME TypeOK, NEW p \in Procs, Step(p)
    PROVE  \/ session'[p] = session[p] \/ session'[p] = None
           \/ session'[p] \in Ids /\ session'[p] \notin drawn /\ session'[p] \in drawn'
           \/ session'[p] \in Ids /\ place[session'[p]] = "root"
  <1> USE DEF TypeOK, Goto, End, Continue, locals
  <1>1. CASE Create(p)
    BY <1>1 DEF Create, Loadable, InRoot
  <1>2. CASE Allocate(p)
    BY <1>2 DEF Allocate
  <1>3. CASE Write(p)
    BY <1>3 DEF Write
  <1>4. CASE Publish(p)
    BY <1>4 DEF Publish
  <1>5. CASE Reload(p)
    BY <1>5 DEF Reload
  <1>6. CASE CreateFails(p)
    BY <1>6 DEF CreateFails
  <1>7. CASE CleanBinding(p)
    BY <1>7 DEF CleanBinding
  <1>8. CASE CleanDirectory(p)
    BY <1>8 DEF CleanDirectory
  <1>9. CASE Resume(p)
    BY <1>9 DEF Resume, Loadable, InRoot
  <1>10. CASE Open(p)
    BY <1>10 DEF Open
  <1>11. CASE Lock(p)
    BY <1>11 DEF Lock, Updated
  <1>12. CASE CreateTemp(p)
    BY <1>12 DEF CreateTemp
  <1>13. CASE Swap(p)
    BY <1>13 DEF Swap, Updated
  <1>14. CASE SwapFails(p)
    BY <1>14 DEF SwapFails
  <1>15. CASE Reserve(p)
    BY <1>15 DEF Reserve
  <1>16. CASE WriteLease(p)
    BY <1>16 DEF WriteLease
  <1>17. CASE RecordPort(p)
    BY <1>17 DEF RecordPort
  <1>18. CASE ReserveFails(p)
    BY <1>18 DEF ReserveFails
  <1>19. CASE Launch(p)
    BY <1>19 DEF Launch
  <1>20. CASE Exit(p)
    BY <1>20 DEF Exit
  <1>21. CASE List(p)
    BY <1>21 DEF List, Loadable, InRoot
  <1>22. CASE Scan(p)
    BY <1>22 DEF Scan
  <1>23. CASE Inspect(p)
    BY <1>23 DEF Inspect, Loadable, InRoot
  <1>24. CASE Stage(p)
    BY <1>24 DEF Stage, PutBack
  <1>25. CASE Unlink(p)
    BY <1>25 DEF Unlink, PutBack
  <1>26. CASE Rmdir(p)
    BY <1>26 DEF Rmdir, PutBack
  <1>27. CASE DeleteFails(p)
    BY <1>27 DEF DeleteFails, PutBack
  <1>28. CASE Kill(p)
    BY <1>28 DEF Kill
  <1> QED
    BY <1>1, <1>2, <1>3, <1>4, <1>5, <1>6, <1>7, <1>8, <1>9, <1>10, <1>11,
       <1>12, <1>13, <1>14, <1>15, <1>16, <1>17, <1>18, <1>19, <1>20, <1>21,
       <1>22, <1>23, <1>24, <1>25, <1>26, <1>27, <1>28
    DEF Step

LEMMA FreshMoves ==
    ASSUME TypeOK, InCommand, Fresh, NEW p \in Procs, Step(p),
           pc'[p] \in {"allocate", "write", "publish"}
    PROVE  \/ /\ pc[p] = "idle" /\ session'[p] \in Ids /\ session'[p] \notin drawn
              /\ place' = place
           \/ /\ session'[p] = session[p] /\ place'[session[p]] # "root"
              /\ pc[p] \in {"allocate", "write", "publish"}
  <1> USE DEF TypeOK, Goto, End, Continue, locals, directories, InCommand,
              AtSession, Locations
  <1>1. CASE Create(p)
    BY <1>1 DEF Create
  <1>2. CASE Allocate(p)
    BY <1>2 DEF Allocate, Fresh
  <1>3. CASE Write(p)
    BY <1>3 DEF Write, Fresh
  <1>4. CASE Publish(p)
    BY <1>4 DEF Publish
  <1>5. CASE Reload(p)
    BY <1>5 DEF Reload
  <1>6. CASE CreateFails(p)
    BY <1>6 DEF CreateFails
  <1>7. CASE CleanBinding(p)
    BY <1>7 DEF CleanBinding
  <1>8. CASE CleanDirectory(p)
    BY <1>8 DEF CleanDirectory
  <1>9. CASE Resume(p)
    BY <1>9 DEF Resume
  <1>10. CASE Open(p)
    BY <1>10 DEF Open
  <1>11. CASE Lock(p)
    BY <1>11 DEF Lock, Updated
  <1>12. CASE CreateTemp(p)
    BY <1>12 DEF CreateTemp
  <1>13. CASE Swap(p)
    BY <1>13 DEF Swap, Updated
  <1>14. CASE SwapFails(p)
    BY <1>14 DEF SwapFails
  <1>15. CASE Reserve(p)
    BY <1>15 DEF Reserve
  <1>16. CASE WriteLease(p)
    BY <1>16 DEF WriteLease
  <1>17. CASE RecordPort(p)
    BY <1>17 DEF RecordPort
  <1>18. CASE ReserveFails(p)
    BY <1>18 DEF ReserveFails
  <1>19. CASE Launch(p)
    BY <1>19 DEF Launch
  <1>20. CASE Exit(p)
    BY <1>20 DEF Exit
  <1>21. CASE List(p)
    BY <1>21 DEF List
  <1>22. CASE Scan(p)
    BY <1>22 DEF Scan
  <1>23. CASE Inspect(p)
    BY <1>23 DEF Inspect
  <1>24. CASE Stage(p)
    BY <1>24 DEF Stage, PutBack
  <1>25. CASE Unlink(p)
    BY <1>25 DEF Unlink, PutBack
  <1>26. CASE Rmdir(p)
    BY <1>26 DEF Rmdir, PutBack
  <1>27. CASE DeleteFails(p)
    BY <1>27 DEF DeleteFails, PutBack
  <1>28. CASE Kill(p)
    BY <1>28 DEF Kill
  <1> QED
    BY <1>1, <1>2, <1>3, <1>4, <1>5, <1>6, <1>7, <1>8, <1>9, <1>10, <1>11,
       <1>12, <1>13, <1>14, <1>15, <1>16, <1>17, <1>18, <1>19, <1>20, <1>21,
       <1>22, <1>23, <1>24, <1>25, <1>26, <1>27, <1>28
    DEF Step

LEMMA DrawnStep ==
    ASSUME TypeOK, InCommand, Drawn, NEW p \in Procs, Step(p)
    PROVE  Drawn'
  <1>1. ASSUME NEW q \in Procs PROVE session'[q] \in drawn' \cup {None}
    <2>1. CASE q = p
      BY <2>1, SessionMoves, Frame DEF Drawn
    <2>2. CASE q # p
      BY <2>2, Frame DEF Drawn
    <2> QED BY <2>1, <2>2
  <1>2. ASSUME NEW s \in Ids, s \notin drawn' PROVE place'[s] = "none"
    <2>1. s \notin drawn /\ s # session[p]
      BY <1>2, Frame, SessionsAssumption DEF Drawn, SessionsAssumption
    <2> QED BY <2>1, OtherDirectories DEF Drawn
  <1> QED BY <1>1, <1>2 DEF Drawn

LEMMA FreshStep ==
    ASSUME TypeOK, InCommand, Drawn, Fresh, NEW p \in Procs, Step(p)
    PROVE  Fresh'
  <1>1. ASSUME NEW q \in Procs \ {p}, pc'[q] \in {"allocate", "write", "publish"}
        PROVE  /\ place'[session'[q]] # "root"
               /\ \A r \in Procs \ {q} : session'[r] # session'[q]
    <2>1. /\ pc[q] = pc'[q] /\ session'[q] = session[q] /\ session[q] \in Ids
          /\ session[q] \in drawn
      BY <1>1, Frame, SessionsAssumption
      DEF InCommand, AtSession, Locations, Drawn, SessionsAssumption
    <2>2. place[session[q]] # "root" /\ session[p] # session[q]
      BY <1>1, <2>1 DEF Fresh
    <2>3. place'[session[q]] # "root"
      BY <2>1, <2>2, OtherDirectories
    <2>4. session'[p] # session[q]
      BY <2>1, <2>2, SessionMoves, SessionsAssumption DEF SessionsAssumption
    <2>5. ASSUME NEW r \in Procs \ {q, p} PROVE session'[r] # session[q]
      BY <1>1, <2>1, Frame DEF Fresh
    <2> QED BY <2>1, <2>3, <2>4, <2>5
  <1>2. ASSUME pc'[p] \in {"allocate", "write", "publish"}
        PROVE  /\ place'[session'[p]] # "root"
               /\ \A r \in Procs \ {p} : session'[r] # session'[p]
    <2>1. CASE /\ pc[p] = "idle" /\ session'[p] \in Ids /\ session'[p] \notin drawn
               /\ place' = place
      <3>1. place'[session'[p]] # "root"
        BY <2>1 DEF Drawn
      <3>2. ASSUME NEW r \in Procs \ {p} PROVE session'[r] # session'[p]
        BY <2>1, Frame, SessionsAssumption DEF Drawn, SessionsAssumption
      <3> QED BY <3>1, <3>2
    <2>2. CASE /\ session'[p] = session[p] /\ place'[session[p]] # "root"
               /\ pc[p] \in {"allocate", "write", "publish"}
      BY <2>2, Frame DEF Fresh
    <2> QED BY <1>2, <2>1, <2>2, FreshMoves
  <1> QED BY <1>1, <1>2 DEF Fresh

-----------------------------------------------------------------------------
(* The two locks.                                                          *)

LEMMA ReservationMoves ==
    ASSUME TypeOK, NEW p \in Procs, Step(p), pc'[p] \in {"lease", "record"}
    PROVE  pc[p] \in {"lease", "record"} \/ PortLockFree
  <1> USE DEF TypeOK, Goto, End, Continue, Locations
  <1>1. CASE Create(p)
    BY <1>1 DEF Create
  <1>2. CASE Allocate(p)
    BY <1>2 DEF Allocate
  <1>3. CASE Write(p)
    BY <1>3 DEF Write
  <1>4. CASE Publish(p)
    BY <1>4 DEF Publish
  <1>5. CASE Reload(p)
    BY <1>5 DEF Reload
  <1>6. CASE CreateFails(p)
    BY <1>6 DEF CreateFails
  <1>7. CASE CleanBinding(p)
    BY <1>7 DEF CleanBinding
  <1>8. CASE CleanDirectory(p)
    BY <1>8 DEF CleanDirectory
  <1>9. CASE Resume(p)
    BY <1>9 DEF Resume
  <1>10. CASE Open(p)
    BY <1>10 DEF Open
  <1>11. CASE Lock(p)
    BY <1>11 DEF Lock, Updated
  <1>12. CASE CreateTemp(p)
    BY <1>12 DEF CreateTemp
  <1>13. CASE Swap(p)
    BY <1>13 DEF Swap, Updated
  <1>14. CASE SwapFails(p)
    BY <1>14 DEF SwapFails
  <1>15. CASE Reserve(p)
    BY <1>15 DEF Reserve
  <1>16. CASE WriteLease(p)
    BY <1>16 DEF WriteLease
  <1>17. CASE RecordPort(p)
    BY <1>17 DEF RecordPort
  <1>18. CASE ReserveFails(p)
    BY <1>18 DEF ReserveFails
  <1>19. CASE Launch(p)
    BY <1>19 DEF Launch
  <1>20. CASE Exit(p)
    BY <1>20 DEF Exit
  <1>21. CASE List(p)
    BY <1>21 DEF List
  <1>22. CASE Scan(p)
    BY <1>22 DEF Scan
  <1>23. CASE Inspect(p)
    BY <1>23 DEF Inspect
  <1>24. CASE Stage(p)
    BY <1>24 DEF Stage, PutBack
  <1>25. CASE Unlink(p)
    BY <1>25 DEF Unlink, PutBack
  <1>26. CASE Rmdir(p)
    BY <1>26 DEF Rmdir, PutBack
  <1>27. CASE DeleteFails(p)
    BY <1>27 DEF DeleteFails, PutBack
  <1>28. CASE Kill(p)
    BY <1>28 DEF Kill
  <1> QED
    BY <1>1, <1>2, <1>3, <1>4, <1>5, <1>6, <1>7, <1>8, <1>9, <1>10, <1>11,
       <1>12, <1>13, <1>14, <1>15, <1>16, <1>17, <1>18, <1>19, <1>20, <1>21,
       <1>22, <1>23, <1>24, <1>25, <1>26, <1>27, <1>28
    DEF Step

LEMMA UpdateMoves ==
    ASSUME TypeOK, InCommand, NEW p \in Procs, Step(p), pc'[p] \in {"temp", "swap"}
    PROVE  /\ session'[p] = session[p] /\ expect'[p] = expect[p]
           /\ place' = place /\ binding' = binding /\ condemned' = condemned
           /\ \/ pc[p] \in {"temp", "swap"}
              \/ /\ LockFree(session[p]) /\ Loadable(session[p])
                 /\ binding[session[p]] = expect[p]
  <1> USE DEF TypeOK, Goto, End, Continue, Locations, locals, directories
  <1>1. CASE Create(p)
    BY <1>1 DEF Create
  <1>2. CASE Allocate(p)
    BY <1>2 DEF Allocate
  <1>3. CASE Write(p)
    BY <1>3 DEF Write
  <1>4. CASE Publish(p)
    BY <1>4 DEF Publish
  <1>5. CASE Reload(p)
    BY <1>5 DEF Reload
  <1>6. CASE CreateFails(p)
    BY <1>6 DEF CreateFails
  <1>7. CASE CleanBinding(p)
    BY <1>7 DEF CleanBinding
  <1>8. CASE CleanDirectory(p)
    BY <1>8 DEF CleanDirectory
  <1>9. CASE Resume(p)
    BY <1>9 DEF Resume
  <1>10. CASE Open(p)
    BY <1>10 DEF Open
  <1>11. CASE Lock(p)
    BY <1>11 DEF Lock, Updated
  <1>12. CASE CreateTemp(p)
    BY <1>12 DEF CreateTemp
  <1>13. CASE Swap(p)
    BY <1>13 DEF Swap, Updated
  <1>14. CASE SwapFails(p)
    BY <1>14 DEF SwapFails
  <1>15. CASE Reserve(p)
    BY <1>15 DEF Reserve
  <1>16. CASE WriteLease(p)
    BY <1>16 DEF WriteLease
  <1>17. CASE RecordPort(p)
    BY <1>17 DEF RecordPort
  <1>18. CASE ReserveFails(p)
    BY <1>18 DEF ReserveFails
  <1>19. CASE Launch(p)
    BY <1>19 DEF Launch
  <1>20. CASE Exit(p)
    BY <1>20 DEF Exit
  <1>21. CASE List(p)
    BY <1>21 DEF List
  <1>22. CASE Scan(p)
    BY <1>22 DEF Scan
  <1>23. CASE Inspect(p)
    BY <1>23 DEF Inspect
  <1>24. CASE Stage(p)
    BY <1>24 DEF Stage, PutBack
  <1>25. CASE Unlink(p)
    BY <1>25 DEF Unlink, PutBack
  <1>26. CASE Rmdir(p)
    BY <1>26 DEF Rmdir, PutBack
  <1>27. CASE DeleteFails(p)
    BY <1>27 DEF DeleteFails, PutBack
  <1>28. CASE Kill(p)
    BY <1>28 DEF Kill
  <1> QED
    BY <1>1, <1>2, <1>3, <1>4, <1>5, <1>6, <1>7, <1>8, <1>9, <1>10, <1>11,
       <1>12, <1>13, <1>14, <1>15, <1>16, <1>17, <1>18, <1>19, <1>20, <1>21,
       <1>22, <1>23, <1>24, <1>25, <1>26, <1>27, <1>28
    DEF Step

LEMMA LocksStep ==
    ASSUME TypeOK, InCommand, OneReserves, OneUpdates, NEW p \in Procs, Step(p)
    PROVE  OneReserves' /\ OneUpdates'
  <1>1. ASSUME NEW q \in Procs \ {p},
               pc'[p] \in {"lease", "record"}, pc'[q] \in {"lease", "record"}
        PROVE  FALSE
    BY <1>1, Frame, ReservationMoves DEF OneReserves, PortLockFree
  <1>2. ASSUME NEW q \in Procs \ {p}, pc'[p] \in {"temp", "swap"},
               pc'[q] \in {"temp", "swap"}, session'[p] = session'[q]
        PROVE  FALSE
    BY <1>2, Frame, UpdateMoves DEF OneUpdates, LockFree
  <1>3. OneReserves'
    BY <1>1, Frame DEF OneReserves
  <1>4. OneUpdates'
    BY <1>2, Frame DEF OneUpdates
  <1> QED BY <1>3, <1>4

-----------------------------------------------------------------------------
(* Leases.                                                                 *)

\* A step writes no lease but the one of its own reservation, and takes over
\* none that is held.
LEMMA OtherLeases ==
    ASSUME TypeOK, InCommand, Leased, OneReserves, NEW p \in Procs, Step(p),
           NEW q \in Procs \ {p}, pc[q] \in AtPort
    PROVE  leases'[port[q]] = leases[port[q]]
  <1>1. port[q] \in Ports /\ session[q] \in Ids
    BY DEF InCommand, AtSession, AtPort, Locations
  <1>2. CASE Reserve(p)
    <2>1. CASE pc[q] \in {"lease", "record"}
      BY <1>2, <2>1 DEF Reserve, PortLockFree
    <2>2. CASE pc[q] \in {"launch", "running"}
      <3>1. leases[port[q]] = [pid |-> q, session |-> session[q]]
        BY <2>2 DEF Leased, AtPort
      <3>2. leases[port[q]] \notin {NoLease, Partial} /\ leases[port[q]].pid = q
        BY <3>1, <1>1, SessionsAssumption DEF SessionsAssumption
      <3>3. Held(port[q])
        BY <3>2, <2>2 DEF Held
      <3> QED BY <1>2, <3>3, <1>1 DEF Reserve, TypeOK
    <2> QED BY <2>1, <2>2 DEF AtPort
  <1>3. CASE WriteLease(p) \/ ReserveFails(p)
    <2>1. port[p] \in Ports /\ session[p] \in Ids /\ pc[p] \in {"lease", "record"}
      BY <1>3
      DEF WriteLease, ReserveFails, InCommand, AtPort, AtSession, Locations
    <2>2. pc[q] \notin {"lease", "record"}
      BY <2>1 DEF OneReserves
    <2>3. leases[port[q]] = [pid |-> q, session |-> session[q]]
      BY <2>2 DEF Leased, AtPort
    <2>4. port[p] # port[q]
      <3>1. CASE pc[p] = "lease"
        BY <3>1, <2>3, <1>1, SessionsAssumption DEF Leased, SessionsAssumption
      <3>2. CASE pc[p] = "record"
        <4>1. leases[port[p]] = [pid |-> p, session |-> session[p]]
          BY <3>2 DEF Leased, AtPort
        <4> QED BY <4>1, <2>3
      <3> QED BY <2>1, <3>1, <3>2
    <2> QED BY <1>1, <2>1, <2>4, <1>3 DEF WriteLease, ReserveFails, TypeOK
  <1>4. CASE leases' = leases
    BY <1>4
  <1>5. Reserve(p) \/ WriteLease(p) \/ ReserveFails(p) \/ leases' = leases
    BY DEF Step, Create, Allocate, Write, Publish, Reload, CreateFails,
       CleanBinding, CleanDirectory, Resume, Open, Lock, CreateTemp, Swap,
       SwapFails, RecordPort, Launch, Exit, List, Scan, Inspect, Stage, Unlink,
       Rmdir, DeleteFails, Kill <1> QED BY <1>2, <1>3, <1>4, <1>5

LEMMA LeaseMoves ==
    ASSUME TypeOK, InCommand, Leased, NEW p \in Procs, Step(p), pc'[p] \in AtPort
    PROVE  /\ pc'[p] = "lease" => leases'[port'[p]] = Partial
           /\ pc'[p] # "lease" =>
                leases'[port'[p]] = [pid |-> p, session |-> session'[p]]
  <1> USE DEF TypeOK, Goto, End, Continue, Locations, locals, InCommand, AtPort,
              Leased
  <1>1. CASE Create(p)
    BY <1>1 DEF Create
  <1>2. CASE Allocate(p)
    BY <1>2 DEF Allocate
  <1>3. CASE Write(p)
    BY <1>3 DEF Write
  <1>4. CASE Publish(p)
    BY <1>4 DEF Publish
  <1>5. CASE Reload(p)
    BY <1>5 DEF Reload
  <1>6. CASE CreateFails(p)
    BY <1>6 DEF CreateFails
  <1>7. CASE CleanBinding(p)
    BY <1>7 DEF CleanBinding
  <1>8. CASE CleanDirectory(p)
    BY <1>8 DEF CleanDirectory
  <1>9. CASE Resume(p)
    BY <1>9 DEF Resume
  <1>10. CASE Open(p)
    BY <1>10 DEF Open
  <1>11. CASE Lock(p)
    BY <1>11 DEF Lock, Updated
  <1>12. CASE CreateTemp(p)
    BY <1>12 DEF CreateTemp
  <1>13. CASE Swap(p)
    BY <1>13 DEF Swap, Updated
  <1>14. CASE SwapFails(p)
    BY <1>14 DEF SwapFails
  <1>15. CASE Reserve(p)
    BY <1>15 DEF Reserve
  <1>16. CASE WriteLease(p)
    BY <1>16 DEF WriteLease
  <1>17. CASE RecordPort(p)
    BY <1>17 DEF RecordPort
  <1>18. CASE ReserveFails(p)
    BY <1>18 DEF ReserveFails
  <1>19. CASE Launch(p)
    BY <1>19 DEF Launch
  <1>20. CASE Exit(p)
    BY <1>20 DEF Exit
  <1>21. CASE List(p)
    BY <1>21 DEF List
  <1>22. CASE Scan(p)
    BY <1>22 DEF Scan
  <1>23. CASE Inspect(p)
    BY <1>23 DEF Inspect
  <1>24. CASE Stage(p)
    BY <1>24 DEF Stage, PutBack
  <1>25. CASE Unlink(p)
    BY <1>25 DEF Unlink, PutBack
  <1>26. CASE Rmdir(p)
    BY <1>26 DEF Rmdir, PutBack
  <1>27. CASE DeleteFails(p)
    BY <1>27 DEF DeleteFails, PutBack
  <1>28. CASE Kill(p)
    BY <1>28 DEF Kill
  <1> QED
    BY <1>1, <1>2, <1>3, <1>4, <1>5, <1>6, <1>7, <1>8, <1>9, <1>10, <1>11,
       <1>12, <1>13, <1>14, <1>15, <1>16, <1>17, <1>18, <1>19, <1>20, <1>21,
       <1>22, <1>23, <1>24, <1>25, <1>26, <1>27, <1>28
    DEF Step

LEMMA LeasedStep ==
    ASSUME TypeOK, InCommand, Leased, OneReserves, NEW p \in Procs, Step(p)
    PROVE  Leased'
  <1>1. ASSUME NEW q \in Procs, pc'[q] = "lease" PROVE leases'[port'[q]] = Partial
    <2>1. CASE q = p
      BY <1>1, <2>1, LeaseMoves DEF AtPort
    <2>2. CASE q # p
      <3>1. pc[q] = "lease" /\ port'[q] = port[q]
        BY <1>1, <2>2, Frame
      <3>2. leases'[port[q]] = leases[port[q]]
        BY <2>2, <3>1, OtherLeases DEF AtPort
      <3> QED BY <3>1, <3>2 DEF Leased
    <2> QED BY <2>1, <2>2
  <1>2. ASSUME NEW q \in Procs, pc'[q] \in AtPort \ {"lease"}
        PROVE  leases'[port'[q]] = [pid |-> q, session |-> session'[q]]
    BY <1>2, Frame, OtherLeases, LeaseMoves DEF Leased, AtPort
  <1> QED BY <1>1, <1>2 DEF Leased

-----------------------------------------------------------------------------
(* Bindings.                                                               *)

\* What a step may do to the session of another process.
LEMMA OthersBinding ==
    ASSUME TypeOK, InCommand, Fresh, OneUpdates, Recorded, NEW p \in Procs, Step(p),
           NEW s \in Ids, Loadable(s) \/ s \in condemned
    PROVE  Loadable(s)' \/ s \in condemned'
  <1> USE DEF TypeOK, directories, Loadable
  <1> SUFFICES ASSUME s \notin condemned, s \notin condemned' PROVE Loadable(s)'
    BY Frame
  <1>1. CASE Create(p)
    BY <1>1 DEF Create
  <1>2. CASE Allocate(p)
    BY <1>2 DEF Allocate, Fresh
  <1>3. CASE Write(p)
    BY <1>3 DEF Write, Fresh
  <1>4. CASE Publish(p)
    BY <1>4 DEF Publish
  <1>5. CASE Reload(p)
    BY <1>5 DEF Reload
  <1>6. CASE CreateFails(p)
    BY <1>6 DEF CreateFails
  <1>7. CASE CleanBinding(p)
    BY <1>7 DEF CleanBinding
  <1>8. CASE CleanDirectory(p)
    BY <1>8 DEF CleanDirectory, Recorded
  <1>9. CASE Resume(p)
    BY <1>9 DEF Resume
  <1>10. CASE Open(p)
    BY <1>10 DEF Open
  <1>11. CASE Lock(p)
    BY <1>11 DEF Lock
  <1>12. CASE CreateTemp(p)
    BY <1>12 DEF CreateTemp
  <1>13. CASE Swap(p)
    BY <1>13, SessionsAssumption
    DEF Swap, InCommand, AtUpdate, SessionsAssumption
  <1>14. CASE SwapFails(p)
    BY <1>14 DEF SwapFails
  <1>15. CASE Reserve(p)
    BY <1>15 DEF Reserve
  <1>16. CASE WriteLease(p)
    BY <1>16 DEF WriteLease
  <1>17. CASE RecordPort(p)
    BY <1>17 DEF RecordPort
  <1>18. CASE ReserveFails(p)
    BY <1>18 DEF ReserveFails
  <1>19. CASE Launch(p)
    BY <1>19 DEF Launch
  <1>20. CASE Exit(p)
    BY <1>20 DEF Exit
  <1>21. CASE List(p)
    BY <1>21 DEF List
  <1>22. CASE Scan(p)
    BY <1>22 DEF Scan
  <1>23. CASE Inspect(p)
    BY <1>23 DEF Inspect
  <1>24. CASE Stage(p)
    BY <1>24 DEF Stage, PutBack, Recorded
  <1>25. CASE Unlink(p)
    BY <1>25 DEF Unlink, PutBack, Recorded
  <1>26. CASE Rmdir(p)
    BY <1>26 DEF Rmdir, PutBack, Recorded
  <1>27. CASE DeleteFails(p)
    BY <1>27 DEF DeleteFails, PutBack, Recorded
  <1>28. CASE Kill(p)
    BY <1>28 DEF Kill
  <1> QED
    BY <1>1, <1>2, <1>3, <1>4, <1>5, <1>6, <1>7, <1>8, <1>9, <1>10, <1>11,
       <1>12, <1>13, <1>14, <1>15, <1>16, <1>17, <1>18, <1>19, <1>20, <1>21,
       <1>22, <1>23, <1>24, <1>25, <1>26, <1>27, <1>28
    DEF Step

LEMMA CompleteMoves ==
    ASSUME TypeOK, InCommand, Complete, NEW p \in Procs, Step(p),
           pc'[p] \in AtPort \cup {"temp", "swap", "reserve"}
    PROVE  /\ session'[p] = session[p]
           /\ Loadable(session[p]) \/ session[p] \in condemned
  <1> USE DEF TypeOK, Goto, End, Continue, Locations, locals, AtPort, Complete
  <1>1. CASE Create(p)
    BY <1>1 DEF Create
  <1>2. CASE Allocate(p)
    BY <1>2 DEF Allocate
  <1>3. CASE Write(p)
    BY <1>3 DEF Write
  <1>4. CASE Publish(p)
    BY <1>4 DEF Publish
  <1>5. CASE Reload(p)
    BY <1>5 DEF Reload
  <1>6. CASE CreateFails(p)
    BY <1>6 DEF CreateFails
  <1>7. CASE CleanBinding(p)
    BY <1>7 DEF CleanBinding
  <1>8. CASE CleanDirectory(p)
    BY <1>8 DEF CleanDirectory
  <1>9. CASE Resume(p)
    BY <1>9 DEF Resume
  <1>10. CASE Open(p)
    BY <1>10 DEF Open
  <1>11. CASE Lock(p)
    BY <1>11 DEF Lock, Updated
  <1>12. CASE CreateTemp(p)
    BY <1>12 DEF CreateTemp
  <1>13. CASE Swap(p)
    BY <1>13 DEF Swap, Updated
  <1>14. CASE SwapFails(p)
    BY <1>14 DEF SwapFails
  <1>15. CASE Reserve(p)
    BY <1>15 DEF Reserve
  <1>16. CASE WriteLease(p)
    BY <1>16 DEF WriteLease
  <1>17. CASE RecordPort(p)
    BY <1>17 DEF RecordPort
  <1>18. CASE ReserveFails(p)
    BY <1>18 DEF ReserveFails
  <1>19. CASE Launch(p)
    BY <1>19 DEF Launch
  <1>20. CASE Exit(p)
    BY <1>20 DEF Exit
  <1>21. CASE List(p)
    BY <1>21 DEF List
  <1>22. CASE Scan(p)
    BY <1>22 DEF Scan
  <1>23. CASE Inspect(p)
    BY <1>23 DEF Inspect
  <1>24. CASE Stage(p)
    BY <1>24 DEF Stage, PutBack
  <1>25. CASE Unlink(p)
    BY <1>25 DEF Unlink, PutBack
  <1>26. CASE Rmdir(p)
    BY <1>26 DEF Rmdir, PutBack
  <1>27. CASE DeleteFails(p)
    BY <1>27 DEF DeleteFails, PutBack
  <1>28. CASE Kill(p)
    BY <1>28 DEF Kill
  <1> QED
    BY <1>1, <1>2, <1>3, <1>4, <1>5, <1>6, <1>7, <1>8, <1>9, <1>10, <1>11,
       <1>12, <1>13, <1>14, <1>15, <1>16, <1>17, <1>18, <1>19, <1>20, <1>21,
       <1>22, <1>23, <1>24, <1>25, <1>26, <1>27, <1>28
    DEF Step

LEMMA CompleteStep ==
    ASSUME TypeOK, InCommand, Fresh, OneUpdates, Recorded, Complete,
           NEW p \in Procs, Step(p)
    PROVE  Complete'
  <1>1. InCommand'
    BY CommandStep
  <1>2. ASSUME NEW q \in Procs, pc'[q] \in AtPort \cup {"temp", "swap", "reserve"}
        PROVE  /\ session'[q] = session[q] /\ session[q] \in Ids
               /\ Loadable(session[q]) \/ session[q] \in condemned
    <2>1. session'[q] \in Ids
      BY <1>1, <1>2 DEF InCommand, AtSession, AtPort, Locations
    <2>2. CASE q = p
      BY <1>2, <2>1, <2>2, CompleteMoves
    <2>3. CASE q # p
      BY <1>2, <2>1, <2>3, Frame DEF Complete
    <2> QED BY <2>2, <2>3
  <1>3. ASSUME NEW q \in Procs, pc'[q] \in AtPort \cup {"temp", "swap", "reserve"}
        PROVE  Loadable(session[q])' \/ session'[q] \in condemned'
    <2>1. PICK s \in Ids : s = session[q] /\ s = session'[q]
      BY <1>2, <1>3
    <2>2. Loadable(s) \/ s \in condemned
      BY <1>2, <1>3, <2>1
    <2>3. Loadable(s)' \/ s \in condemned'
      BY <2>2, OthersBinding
    <2> QED BY <2>1, <2>3 DEF Loadable
  <1> QED BY <1>3 DEF Complete

\* The binding of a session that a process updates changes only by that update,
\* and by what deletes it.
LEMMA HeldBinding ==
    ASSUME TypeOK, InCommand, Drawn, Fresh, OneUpdates, NEW p \in Procs, Step(p),
           NEW q \in Procs \ {p}, pc[q] \in {"temp", "swap"}
    PROVE  binding'[session[q]] \in {binding[session[q]], Absent}
  <1>1. session[q] \in Ids
    BY DEF InCommand, AtSession, Locations
  <1> USE <1>1 DEF TypeOK, directories
  <1>2. CASE Create(p)
    BY <1>2 DEF Create
  <1>3. CASE Allocate(p)
    BY <1>3 DEF Allocate
  <1>4. CASE Write(p)
    BY <1>4 DEF Write, Fresh
  <1>5. CASE Publish(p)
    BY <1>5 DEF Publish
  <1>6. CASE Reload(p)
    BY <1>6 DEF Reload
  <1>7. CASE CreateFails(p)
    BY <1>7 DEF CreateFails
  <1>8. CASE CleanBinding(p)
    BY <1>8 DEF CleanBinding
  <1>9. CASE CleanDirectory(p)
    BY <1>9 DEF CleanDirectory
  <1>10. CASE Resume(p)
    BY <1>10 DEF Resume
  <1>11. CASE Open(p)
    BY <1>11 DEF Open
  <1>12. CASE Lock(p)
    BY <1>12 DEF Lock
  <1>13. CASE CreateTemp(p)
    BY <1>13 DEF CreateTemp
  <1>14. CASE Swap(p)
    BY <1>14 DEF Swap, OneUpdates
  <1>15. CASE SwapFails(p)
    BY <1>15 DEF SwapFails
  <1>16. CASE Reserve(p)
    BY <1>16 DEF Reserve
  <1>17. CASE WriteLease(p)
    BY <1>17 DEF WriteLease
  <1>18. CASE RecordPort(p)
    BY <1>18 DEF RecordPort
  <1>19. CASE ReserveFails(p)
    BY <1>19 DEF ReserveFails
  <1>20. CASE Launch(p)
    BY <1>20 DEF Launch
  <1>21. CASE Exit(p)
    BY <1>21 DEF Exit
  <1>22. CASE List(p)
    BY <1>22 DEF List
  <1>23. CASE Scan(p)
    BY <1>23 DEF Scan
  <1>24. CASE Inspect(p)
    BY <1>24 DEF Inspect
  <1>25. CASE Stage(p)
    BY <1>25 DEF Stage, PutBack
  <1>26. CASE Unlink(p)
    BY <1>26 DEF Unlink, PutBack
  <1>27. CASE Rmdir(p)
    BY <1>27 DEF Rmdir, PutBack
  <1>28. CASE DeleteFails(p)
    BY <1>28 DEF DeleteFails, PutBack
  <1>29. CASE Kill(p)
    BY <1>29 DEF Kill
  <1> QED
    BY <1>2, <1>3, <1>4, <1>5, <1>6, <1>7, <1>8, <1>9, <1>10, <1>11, <1>12,
       <1>13, <1>14, <1>15, <1>16, <1>17, <1>18, <1>19, <1>20, <1>21, <1>22,
       <1>23, <1>24, <1>25, <1>26, <1>27, <1>28, <1>29
    DEF Step

LEMMA ExpectedStep ==
    ASSUME TypeOK, InCommand, Drawn, Fresh, OneUpdates, Expected,
           NEW p \in Procs, Step(p)
    PROVE  Expected'
  <1>1. ASSUME pc'[p] \in {"temp", "swap"}
        PROVE  binding'[session'[p]] \in {expect'[p], Absent}
    BY <1>1, UpdateMoves DEF Expected
  <1>2. ASSUME NEW q \in Procs \ {p}, pc'[q] \in {"temp", "swap"}
        PROVE  binding'[session'[q]] \in {expect'[q], Absent}
    <2>1. /\ pc[q] \in {"temp", "swap"}
          /\ session'[q] = session[q] /\ expect'[q] = expect[q]
      BY <1>2, Frame
    <2>2. binding[session[q]] \in {expect[q], Absent}
      BY <2>1 DEF Expected
    <2>3. binding'[session[q]] \in {binding[session[q]], Absent}
      BY <2>1, HeldBinding
    <2> QED BY <2>1, <2>2, <2>3
  <1> QED BY <1>1, <1>2 DEF Expected

-----------------------------------------------------------------------------
(* Removals.                                                               *)

\* Every active session of a listing is retained.
LEMMA ActiveRetained ==
    ASSUME NEW listed, NEW s \in listed \ Retained(listed)
    PROVE  s \notin Active
  BY DEF Retained

LEMMA RecordedMoves ==
    ASSUME TypeOK, InCommand, Recorded, NEW p \in Procs, Step(p)
    PROVE  /\ queue'[p] \subseteq condemned'
           /\ pc'[p] \in {"stage", "unlink", "rmdir", "cleanDirectory"} =>
                session'[p] \in condemned'
  <1> USE DEF TypeOK, Goto, End, Continue, Locations, locals, Recorded
  <1>1. CASE Create(p)
    BY <1>1 DEF Create
  <1>2. CASE Allocate(p)
    BY <1>2 DEF Allocate
  <1>3. CASE Write(p)
    BY <1>3 DEF Write
  <1>4. CASE Publish(p)
    BY <1>4 DEF Publish
  <1>5. CASE Reload(p)
    BY <1>5 DEF Reload
  <1>6. CASE CreateFails(p)
    BY <1>6 DEF CreateFails
  <1>7. CASE CleanBinding(p)
    BY <1>7 DEF CleanBinding
  <1>8. CASE CleanDirectory(p)
    BY <1>8 DEF CleanDirectory
  <1>9. CASE Resume(p)
    BY <1>9 DEF Resume
  <1>10. CASE Open(p)
    BY <1>10 DEF Open
  <1>11. CASE Lock(p)
    BY <1>11 DEF Lock, Updated
  <1>12. CASE CreateTemp(p)
    BY <1>12 DEF CreateTemp
  <1>13. CASE Swap(p)
    BY <1>13 DEF Swap, Updated
  <1>14. CASE SwapFails(p)
    BY <1>14 DEF SwapFails
  <1>15. CASE Reserve(p)
    BY <1>15 DEF Reserve
  <1>16. CASE WriteLease(p)
    BY <1>16 DEF WriteLease
  <1>17. CASE RecordPort(p)
    BY <1>17 DEF RecordPort
  <1>18. CASE ReserveFails(p)
    BY <1>18 DEF ReserveFails
  <1>19. CASE Launch(p)
    BY <1>19 DEF Launch
  <1>20. CASE Exit(p)
    BY <1>20 DEF Exit
  <1>21. CASE List(p)
    BY <1>21 DEF List
  <1>22. CASE Scan(p)
    <2>1. CASE End(p) /\ UNCHANGED condemned
      BY <2>1
    <2>2. CASE ~(End(p) /\ UNCHANGED condemned)
      <3>1. /\ pc'[p] = "inspect" /\ condemned' = condemned \cup (known[p] \ Active)
            /\ queue'[p] = IF session[p] = None THEN known[p] \ Retained(known[p])
                                               ELSE {session[p]}
            /\ session[p] # None => session[p] \notin Active
        BY <1>22, <2>2 DEF Scan
      <3>2. session[p] # None => session[p] \in known[p]
        BY <1>22 DEF Scan, InCommand
      <3>3. \A s \in known[p] \ Retained(known[p]) : s \notin Active
        BY ActiveRetained
      <3> QED BY <3>1, <3>2, <3>3
    <2> QED BY <2>1, <2>2
  <1>23. CASE Inspect(p)
    BY <1>23 DEF Inspect
  <1>24. CASE Stage(p)
    BY <1>24 DEF Stage, PutBack
  <1>25. CASE Unlink(p)
    BY <1>25 DEF Unlink, PutBack
  <1>26. CASE Rmdir(p)
    BY <1>26 DEF Rmdir, PutBack
  <1>27. CASE DeleteFails(p)
    BY <1>27 DEF DeleteFails, PutBack
  <1>28. CASE Kill(p)
    BY <1>28 DEF Kill
  <1> QED
    BY <1>1, <1>2, <1>3, <1>4, <1>5, <1>6, <1>7, <1>8, <1>9, <1>10, <1>11,
       <1>12, <1>13, <1>14, <1>15, <1>16, <1>17, <1>18, <1>19, <1>20, <1>21,
       <1>22, <1>23, <1>24, <1>25, <1>26, <1>27, <1>28
    DEF Step

LEMMA RecordedStep ==
    ASSUME TypeOK, InCommand, Recorded, NEW p \in Procs, Step(p)
    PROVE  Recorded'
  <1>1. ASSUME NEW q \in Procs \ {p}
        PROVE  /\ queue'[q] \subseteq condemned'
               /\ pc'[q] \in {"stage", "unlink", "rmdir", "cleanDirectory"} =>
                    session'[q] \in condemned'
    BY Frame DEF Recorded
  <1> QED BY <1>1, RecordedMoves DEF Recorded

-----------------------------------------------------------------------------
(* The theorems.                                                           *)

LEMMA Initially == Init => Inv
  <1> SUFFICES ASSUME Init PROVE Inv
    OBVIOUS
  <1>1. TypeOK
    BY DEF Init, TypeOK, Places, Locations, Leases
  <1>2. InCommand /\ Drawn /\ Fresh /\ OneReserves /\ OneUpdates
    BY DEF Init, InCommand, Drawn, Fresh, OneReserves, OneUpdates, AtSession,
       AtPort, AtUpdate
  <1>3. Leased /\ Expected /\ Recorded /\ Complete
    BY DEF Init, Leased, Expected, Recorded, Complete, AtPort
  <1> QED BY <1>1, <1>2, <1>3 DEF Inv

LEMMA Inductive == Inv /\ [Next]_vars => Inv'
  <1> SUFFICES ASSUME Inv, [Next]_vars PROVE Inv'
    OBVIOUS
  <1>1. CASE UNCHANGED vars
    <2>1. /\ UNCHANGED <<place, binding, leftover, parent, drawn>>
          /\ UNCHANGED <<leases, pc, errors, kills, condemned>>
          /\ UNCHANGED <<session, expect, wanted, known, queue, port>>
      BY <1>1 DEF vars, directories, locals, counters
    <2>2. TypeOK' /\ InCommand' /\ Drawn' /\ Fresh'
      BY <2>1 DEF Inv, TypeOK, InCommand, Drawn, Fresh
    <2>3. OneReserves' /\ OneUpdates' /\ Leased' /\ Expected' /\ Recorded' /\ Complete'
      BY <2>1
      DEF Inv, OneReserves, OneUpdates, Leased, Expected, Recorded, Complete,
          Loadable <2> QED BY <2>2, <2>3 DEF Inv
  <1>2. ASSUME NEW p \in Procs, Step(p) PROVE Inv'
    BY <1>2, TypeStep, CommandStep, DrawnStep, FreshStep, LocksStep, LeasedStep,
       ExpectedStep, RecordedStep, CompleteStep DEF Inv
  <1> QED BY <1>1, <1>2 DEF Next

THEOREM Invariance == Spec => []Inv
  <1>1. Init => Inv
    BY Initially
  <1>2. Inv /\ [Next]_vars => Inv'
    BY Inductive
  <1> QED BY <1>1, <1>2, PTL DEF Spec

\* The state of sessions, leases and commands is well typed.
THEOREM TypeCorrect == Spec => []TypeOK
  <1>1. Inv => TypeOK
    BY DEF Inv
  <1> QED BY <1>1, Invariance, PTL

\* No removal deletes the binding of a session that was running when the
\* removal looked at the leases (_active_logical_session_ids).
THEOREM RunningCanResume == Spec => []RunningResumable
  <1>1. Inv => RunningResumable
    BY DEF Inv, Complete, RunningResumable, AtPort
  <1> QED BY <1>1, Invariance, PTL

\* Nobody takes over the lease of a session that has been launched
\* (_reserve_session_claudex_port).
THEOREM LeasesAreHeld == Spec => []LeasesHeld
  <1>1. Inv => LeasesHeld
    BY DEF Inv, Leased, LeasesHeld, AtPort
  <1> QED BY <1>1, Invariance, PTL

\* An update of the controller replaces the binding it has been planned from
\* (update_session_controller).
THEOREM UpdatesAreSerialized == Spec => UpdatesSerialized
  <1>1. Inv => \A p \in Procs :
                 pc[p] = "swap" /\ binding[session[p]] # Absent =>
                   binding[session[p]] = expect[p]
    BY DEF Inv, Expected
  <1>2. Inv /\ [Next]_vars =>
          [\A p \in Procs :
             pc[p] = "swap" /\ binding' # binding /\ pc'[p] # "swap"
             /\ binding[session[p]] # Absent =>
               binding[session[p]] = expect[p]]_vars
    BY <1>1
  <1> QED BY <1>2, Invariance, PTL DEF Spec, UpdatesSerialized

-----------------------------------------------------------------------------
(* Removals from the bottom up: `sessions clear' keeps a session as long   *)
(* as one it has listed descends from it.                                  *)

\* What a removal has listed was published once, and is made by nobody.
Listed ==
    \A p \in Procs :
        /\ known[p] \subseteq drawn
        /\ \A q \in Procs :
             pc[q] \in {"allocate", "write", "publish"} => session[q] \notin known[p]

\* The listed sessions that descend from one still to be deleted are to be
\* deleted as well, or are gone; those of the one at hand are gone.
BottomUp ==
    \A p \in Procs :
        /\ pc[p] \in {"inspect", "stage", "unlink", "rmdir"} =>
             /\ queue[p] \subseteq known[p]
             /\ \A t \in known[p] :
                  parent[t] \in queue[p] => t \in queue[p] \/ place[t] = "none"
        /\ pc[p] = "stage" =>
             /\ session[p] \in queue[p]
             /\ \A t \in known[p] : parent[t] = session[p] => place[t] = "none"

DepthStep(listed, g) ==
    [s \in Ids |-> IF parent[s] \in listed THEN 1 + g[parent[s]] ELSE 0]

\* The parent of a session was drawn before it: depths are well defined, and
\* numbers.
Ancestry ==
    /\ \A s \in Ids : parent[s] \in drawn \cup {None}
    /\ \A s \in Ids \ drawn : parent[s] = None
    /\ \A listed \in SUBSET Ids : \E f \in [Ids -> Nat] :
         \A g : g = DepthStep(listed, g) <=> g = f

RemovalInv == Listed /\ BottomUp /\ Ancestry

LEMMA ParentMoves ==
    ASSUME TypeOK, NEW p \in Procs, Step(p)
    PROVE  \/ /\ parent' = parent /\ drawn' = drawn
           \/ Create(p)
  <1> USE DEF directories
  <1>1. CASE Create(p)
    BY <1>1
  <1>2. CASE Allocate(p)
    BY <1>2 DEF Allocate
  <1>3. CASE Write(p)
    BY <1>3 DEF Write
  <1>4. CASE Publish(p)
    BY <1>4 DEF Publish
  <1>5. CASE Reload(p)
    BY <1>5 DEF Reload
  <1>6. CASE CreateFails(p)
    BY <1>6 DEF CreateFails
  <1>7. CASE CleanBinding(p)
    BY <1>7 DEF CleanBinding
  <1>8. CASE CleanDirectory(p)
    BY <1>8 DEF CleanDirectory
  <1>9. CASE Resume(p)
    BY <1>9 DEF Resume
  <1>10. CASE Open(p)
    BY <1>10 DEF Open
  <1>11. CASE Lock(p)
    BY <1>11 DEF Lock, Updated
  <1>12. CASE CreateTemp(p)
    BY <1>12 DEF CreateTemp
  <1>13. CASE Swap(p)
    BY <1>13 DEF Swap, Updated
  <1>14. CASE SwapFails(p)
    BY <1>14 DEF SwapFails
  <1>15. CASE Reserve(p)
    BY <1>15 DEF Reserve
  <1>16. CASE WriteLease(p)
    BY <1>16 DEF WriteLease
  <1>17. CASE RecordPort(p)
    BY <1>17 DEF RecordPort
  <1>18. CASE ReserveFails(p)
    BY <1>18 DEF ReserveFails
  <1>19. CASE Launch(p)
    BY <1>19 DEF Launch
  <1>20. CASE Exit(p)
    BY <1>20 DEF Exit
  <1>21. CASE List(p)
    BY <1>21 DEF List
  <1>22. CASE Scan(p)
    BY <1>22 DEF Scan
  <1>23. CASE Inspect(p)
    BY <1>23 DEF Inspect
  <1>24. CASE Stage(p)
    BY <1>24 DEF Stage, PutBack
  <1>25. CASE Unlink(p)
    BY <1>25 DEF Unlink, PutBack
  <1>26. CASE Rmdir(p)
    BY <1>26 DEF Rmdir, PutBack
  <1>27. CASE DeleteFails(p)
    BY <1>27 DEF DeleteFails, PutBack
  <1>28. CASE Kill(p)
    BY <1>28 DEF Kill
  <1> QED
    BY <1>1, <1>2, <1>3, <1>4, <1>5, <1>6, <1>7, <1>8, <1>9, <1>10,
       <1>11, <1>12, <1>13, <1>14, <1>15, <1>16, <1>17, <1>18, <1>19,
       <1>20, <1>21, <1>22, <1>23, <1>24, <1>25, <1>26, <1>27, <1>28 DEF
       Step
LEMMA AncestryKept ==
    ASSUME Ancestry, UNCHANGED <<parent, drawn>>
    PROVE  Ancestry'
  <1>1. ASSUME NEW listed, NEW g PROVE DepthStep(listed, g)' = DepthStep(listed, g)
    BY DEF DepthStep
  <1>2. ASSUME NEW listed \in SUBSET Ids
        PROVE  \E f \in [Ids -> Nat] : \A g : g = DepthStep(listed, g)' <=> g = f
    <2>1. PICK f \in [Ids -> Nat] : \A g : g = DepthStep(listed, g) <=> g = f
      BY DEF Ancestry
    <2>2. \A g : g = DepthStep(listed, g)' <=> g = f
      BY <1>1, <2>1
    <2> QED BY <2>2
  <1> QED BY <1>2 DEF Ancestry

\* A session with parents drawn before leaves the depths as they were.
LEMMA AncestryStep ==
    ASSUME TypeOK, Drawn, Ancestry, NEW p \in Procs, Step(p)
    PROVE  Ancestry'
  <1>1. CASE parent' = parent /\ drawn' = drawn
    BY <1>1, AncestryKept
  <1>2. CASE Create(p)
    <2>1. PICK s \in Ids \ drawn, q \in {None} \cup {t \in Ids : Loadable(t)} :
            drawn' = drawn \cup {s} /\ parent' = [parent EXCEPT ![s] = q]
      BY <1>2 DEF Create
    <2>2. q \in drawn \cup {None} /\ q # s
      BY <2>1, SessionsAssumption DEF Drawn, Loadable, SessionsAssumption
    <2>3. /\ parent'[s] = q /\ \A x \in Ids \ {s} : parent'[x] = parent[x]
          /\ parent[s] = None /\ \A x \in Ids : parent[x] # s
      BY <2>1, SessionsAssumption DEF TypeOK, Ancestry, SessionsAssumption
    <2>4. /\ \A x \in Ids : parent'[x] \in drawn' \cup {None}
          /\ \A x \in Ids \ drawn' : parent'[x] = None
      BY <2>1, <2>2, <2>3 DEF Ancestry
    <2>5. ASSUME NEW listed \in SUBSET Ids
          PROVE  \E f \in [Ids -> Nat] : \A g : g = DepthStep(listed, g)' <=> g = f
      <3>1. PICK f \in [Ids -> Nat] : \A g : g = DepthStep(listed, g) <=> g = f
        BY DEF Ancestry
      <3>2. None \notin listed
        BY SessionsAssumption DEF SessionsAssumption
      <3>3. f = DepthStep(listed, f)
        BY <3>1
      <3> DEFINE e == [f EXCEPT ![s] = IF q \in listed THEN 1 + f[q] ELSE 0]
      <3>4. e \in [Ids -> Nat]
        BY <2>1
      <3>5. e = [x \in Ids |-> IF parent'[x] \in listed THEN 1 + e[parent'[x]] ELSE 0]
        <4>1. ASSUME NEW x \in Ids \ {s}
              PROVE  e[x] = IF parent'[x] \in listed THEN 1 + e[parent'[x]] ELSE 0
          BY <2>3, <3>3 DEF DepthStep
        <4>2. e[s] = IF parent'[s] \in listed THEN 1 + e[parent'[s]] ELSE 0
          BY <2>1, <2>2, <2>3
        <4> QED BY <3>4, <4>1, <4>2
      <3>6. ASSUME NEW g,
                   g = [x \in Ids |-> IF parent'[x] \in listed
                                      THEN 1 + g[parent'[x]] ELSE 0]
            PROVE  g = e
        <4> DEFINE h == [x \in Ids |-> IF x = s THEN 0 ELSE g[x]]
        <4>1. ASSUME NEW x \in Ids \ {s}
              PROVE  h[x] = IF parent[x] \in listed THEN 1 + h[parent[x]] ELSE 0
          <5>1. g[x] = IF parent'[x] \in listed THEN 1 + g[parent'[x]] ELSE 0
            BY <3>6
          <5>2. parent[x] \in listed => h[parent[x]] = g[parent[x]]
            BY <2>3
          <5> QED BY <2>3, <5>1, <5>2
        <4>2. h[s] = IF parent[s] \in listed THEN 1 + h[parent[s]] ELSE 0
          BY <2>1, <2>3, <3>2
        <4>3. h = DepthStep(listed, h)
          BY <4>1, <4>2 DEF DepthStep
        <4>4. h = f
          BY <3>1, <4>3
        <4>5. \A x \in Ids \ {s} : g[x] = f[x]
          BY <4>4
        <4>6. g[s] = IF q \in listed THEN 1 + f[q] ELSE 0
          BY <2>1, <2>2, <2>3, <3>6, <4>5
        <4> QED BY <3>4, <3>6, <4>5, <4>6
      <3>7. \A g : g = DepthStep(listed, g)' <=> g = e
        BY <3>5, <3>6 DEF DepthStep
      <3> QED BY <3>4, <3>7
    <2> QED BY <2>4, <2>5 DEF Ancestry
  <1> QED BY <1>1, <1>2, ParentMoves

\* The session further down is deeper.
LEMMA DeeperThanParent ==
    ASSUME Ancestry, NEW listed \in SUBSET Ids, NEW t \in Ids, parent[t] \in listed
    PROVE  ~ (Depth(listed)[t] <= Depth(listed)[parent[t]])
  <1>1. PICK f \in [Ids -> Nat] : \A g : g = DepthStep(listed, g) <=> g = f
    BY DEF Ancestry
  <1>2. Depth(listed) = CHOOSE g : g = DepthStep(listed, g)
    BY DEF Depth, DepthStep
  <1>3. Depth(listed) = f
    BY <1>1, <1>2
  <1>4. f = DepthStep(listed, f)
    BY <1>1
  <1>5. f[t] = 1 + f[parent[t]] /\ f[t] \in Nat /\ f[parent[t]] \in Nat
    BY <1>4 DEF DepthStep
  <1> QED BY <1>3, <1>5

\* With a session its parent is retained.
LEMMA ParentRetained ==
    ASSUME NEW listed, NEW t \in Retained(listed), parent[t] \in listed
    PROVE  parent[t] \in Retained(listed)
  BY DEF Retained

\* What a removal has listed does not come back once it is gone.
LEMMA GoneForGood ==
    ASSUME TypeOK, InCommand, Listed, NEW p \in Procs, Step(p),
           NEW q \in Procs, NEW t \in known[q], place[t] = "none"
    PROVE  place'[t] = "none"
  <1>1. CASE t # session[p]
    BY <1>1, OtherDirectories DEF TypeOK
  <1>2. CASE t = session[p]
    <2>0. pc[p] \notin {"allocate", "write", "publish"} /\ t \in Ids
      BY <1>2 DEF Listed, TypeOK
    <2> USE <1>2, <2>0 DEF directories, TypeOK
    <2>1. CASE Create(p)
      BY <2>1 DEF Create
    <2>2. CASE Allocate(p)
      BY <2>2 DEF Allocate
    <2>3. CASE Write(p)
      BY <2>3 DEF Write
    <2>4. CASE Publish(p)
      BY <2>4 DEF Publish
    <2>5. CASE Reload(p)
      BY <2>5 DEF Reload
    <2>6. CASE CreateFails(p)
      BY <2>6 DEF CreateFails
    <2>7. CASE CleanBinding(p)
      BY <2>7 DEF CleanBinding
    <2>8. CASE CleanDirectory(p)
      BY <2>8 DEF CleanDirectory
    <2>9. CASE Resume(p)
      BY <2>9 DEF Resume
    <2>10. CASE Open(p)
      BY <2>10 DEF Open
    <2>11. CASE Lock(p)
      BY <2>11 DEF Lock, Updated
    <2>12. CASE CreateTemp(p)
      BY <2>12 DEF CreateTemp
    <2>13. CASE Swap(p)
      BY <2>13 DEF Swap, Updated
    <2>14. CASE SwapFails(p)
      BY <2>14 DEF SwapFails
    <2>15. CASE Reserve(p)
      BY <2>15 DEF Reserve
    <2>16. CASE WriteLease(p)
      BY <2>16 DEF WriteLease
    <2>17. CASE RecordPort(p)
      BY <2>17 DEF RecordPort
    <2>18. CASE ReserveFails(p)
      BY <2>18 DEF ReserveFails
    <2>19. CASE Launch(p)
      BY <2>19 DEF Launch
    <2>20. CASE Exit(p)
      BY <2>20 DEF Exit
    <2>21. CASE List(p)
      BY <2>21 DEF List
    <2>22. CASE Scan(p)
      BY <2>22 DEF Scan
    <2>23. CASE Inspect(p)
      BY <2>23 DEF Inspect
    <2>24. CASE Stage(p)
      BY <2>24 DEF Stage, PutBack
    <2>25. CASE Unlink(p)
      BY <2>25 DEF Unlink, PutBack
    <2>26. CASE Rmdir(p)
      BY <2>26 DEF Rmdir, PutBack
    <2>27. CASE DeleteFails(p)
      BY <2>27 DEF DeleteFails, PutBack
    <2>28. CASE Kill(p)
      BY <2>28 DEF Kill
    <2> QED
    BY <2>1, <2>2, <2>3, <2>4, <2>5, <2>6, <2>7, <2>8, <2>9, <2>10,
       <2>11, <2>12, <2>13, <2>14, <2>15, <2>16, <2>17, <2>18, <2>19,
       <2>20, <2>21, <2>22, <2>23, <2>24, <2>25, <2>26, <2>27, <2>28 DEF
       Step
  <1> QED BY <1>1, <1>2

-----------------------------------------------------------------------------
LEMMA ListedMoves ==
    ASSUME TypeOK, NEW p \in Procs, Step(p)
    PROVE  \/ known'[p] = known[p] \/ known'[p] = {}
           \/ /\ known'[p] = InRoot /\ place' = place /\ pc'[p] = "scan"
              /\ \A q \in Procs \ {p} : pc'[q] = pc[q] /\ session'[q] = session[q]
  <1> USE DEF TypeOK, Goto, End, Continue, locals, directories
  <1>1. CASE Create(p)
    BY <1>1 DEF Create
  <1>2. CASE Allocate(p)
    BY <1>2 DEF Allocate
  <1>3. CASE Write(p)
    BY <1>3 DEF Write
  <1>4. CASE Publish(p)
    BY <1>4 DEF Publish
  <1>5. CASE Reload(p)
    BY <1>5 DEF Reload
  <1>6. CASE CreateFails(p)
    BY <1>6 DEF CreateFails
  <1>7. CASE CleanBinding(p)
    BY <1>7 DEF CleanBinding
  <1>8. CASE CleanDirectory(p)
    BY <1>8 DEF CleanDirectory
  <1>9. CASE Resume(p)
    BY <1>9 DEF Resume
  <1>10. CASE Open(p)
    BY <1>10 DEF Open
  <1>11. CASE Lock(p)
    BY <1>11 DEF Lock, Updated
  <1>12. CASE CreateTemp(p)
    BY <1>12 DEF CreateTemp
  <1>13. CASE Swap(p)
    BY <1>13 DEF Swap, Updated
  <1>14. CASE SwapFails(p)
    BY <1>14 DEF SwapFails
  <1>15. CASE Reserve(p)
    BY <1>15 DEF Reserve
  <1>16. CASE WriteLease(p)
    BY <1>16 DEF WriteLease
  <1>17. CASE RecordPort(p)
    BY <1>17 DEF RecordPort
  <1>18. CASE ReserveFails(p)
    BY <1>18 DEF ReserveFails
  <1>19. CASE Launch(p)
    BY <1>19 DEF Launch
  <1>20. CASE Exit(p)
    BY <1>20 DEF Exit
  <1>21. CASE List(p)
    BY <1>21 DEF List
  <1>22. CASE Scan(p)
    BY <1>22 DEF Scan
  <1>23. CASE Inspect(p)
    BY <1>23 DEF Inspect
  <1>24. CASE Stage(p)
    BY <1>24 DEF Stage, PutBack
  <1>25. CASE Unlink(p)
    BY <1>25 DEF Unlink, PutBack
  <1>26. CASE Rmdir(p)
    BY <1>26 DEF Rmdir, PutBack
  <1>27. CASE DeleteFails(p)
    BY <1>27 DEF DeleteFails, PutBack
  <1>28. CASE Kill(p)
    BY <1>28 DEF Kill
  <1> QED
    BY <1>1, <1>2, <1>3, <1>4, <1>5, <1>6, <1>7, <1>8, <1>9, <1>10,
       <1>11, <1>12, <1>13, <1>14, <1>15, <1>16, <1>17, <1>18, <1>19,
       <1>20, <1>21, <1>22, <1>23, <1>24, <1>25, <1>26, <1>27, <1>28 DEF
       Step

LEMMA ListedStep ==
    ASSUME TypeOK, InCommand, Drawn, Fresh, Listed, NEW p \in Procs, Step(p)
    PROVE  Listed'
  <1>1. ASSUME NEW q \in Procs, known'[q] \subseteq known[q]
        PROVE  /\ known'[q] \subseteq drawn'
               /\ \A r \in Procs :
                    pc'[r] \in {"allocate", "write", "publish"} =>
                      session'[r] \notin known'[q]
    <2>1. known[q] \subseteq drawn /\ known'[q] \subseteq drawn'
      BY <1>1, Frame DEF Listed
    <2>2. ASSUME NEW r \in Procs \ {p},
                 pc'[r] \in {"allocate", "write", "publish"}
          PROVE  session'[r] \notin known'[q]
      BY <1>1, <2>2, Frame DEF Listed
    <2>3. ASSUME pc'[p] \in {"allocate", "write", "publish"}
          PROVE  session'[p] \notin known'[q]
      BY <1>1, <2>1, <2>3, FreshMoves DEF Listed
    <2> QED BY <2>1, <2>2, <2>3
  <1>2. ASSUME NEW q \in Procs \ {p} PROVE known'[q] \subseteq known[q]
    BY Frame
  <1>3. CASE known'[p] \subseteq known[p]
    BY <1>1, <1>2, <1>3 DEF Listed
  <1>4. CASE ~ (known'[p] \subseteq known[p])
    <2>1. /\ known'[p] = InRoot /\ place' = place /\ pc'[p] = "scan"
          /\ \A q \in Procs \ {p} : pc'[q] = pc[q] /\ session'[q] = session[q]
      BY <1>4, ListedMoves
    <2>2. InRoot \subseteq drawn'
      BY Frame DEF InRoot, Drawn
    <2>3. \A r \in Procs :
            pc'[r] \in {"allocate", "write", "publish"} => session'[r] \notin InRoot
      BY <2>1 DEF InRoot, Fresh
    <2> QED BY <1>1, <1>2, <2>1, <2>2, <2>3 DEF Listed
  <1> QED BY <1>3, <1>4

-----------------------------------------------------------------------------
LEMMA BottomUpMoves ==
    ASSUME TypeOK, InCommand, Drawn, Listed, Ancestry, BottomUp,
           NEW p \in Procs, Step(p)
    PROVE  /\ pc'[p] \in {"inspect", "stage", "unlink", "rmdir"} =>
                /\ queue'[p] \subseteq known'[p]
                /\ \A t \in known'[p] :
                     parent[t] \in queue'[p] => t \in queue'[p] \/ place'[t] = "none"
           /\ pc'[p] = "stage" =>
                /\ session'[p] \in queue'[p]
                /\ \A t \in known'[p] : parent[t] = session'[p] => place'[t] = "none"
  <1> USE DEF TypeOK, Goto, End, Continue, Locations, locals
  <1>1. CASE Create(p)
    BY <1>1 DEF Create
  <1>2. CASE Allocate(p)
    BY <1>2 DEF Allocate
  <1>3. CASE Write(p)
    BY <1>3 DEF Write
  <1>4. CASE Publish(p)
    BY <1>4 DEF Publish
  <1>5. CASE Reload(p)
    BY <1>5 DEF Reload
  <1>6. CASE CreateFails(p)
    BY <1>6 DEF CreateFails
  <1>7. CASE CleanBinding(p)
    BY <1>7 DEF CleanBinding
  <1>8. CASE CleanDirectory(p)
    BY <1>8 DEF CleanDirectory
  <1>9. CASE Resume(p)
    BY <1>9 DEF Resume
  <1>10. CASE Open(p)
    BY <1>10 DEF Open
  <1>11. CASE Lock(p)
    BY <1>11 DEF Lock, Updated
  <1>12. CASE CreateTemp(p)
    BY <1>12 DEF CreateTemp
  <1>13. CASE Swap(p)
    BY <1>13 DEF Swap, Updated
  <1>14. CASE SwapFails(p)
    BY <1>14 DEF SwapFails
  <1>15. CASE Reserve(p)
    BY <1>15 DEF Reserve
  <1>16. CASE WriteLease(p)
    BY <1>16 DEF WriteLease
  <1>17. CASE RecordPort(p)
    BY <1>17 DEF RecordPort
  <1>18. CASE ReserveFails(p)
    BY <1>18 DEF ReserveFails
  <1>19. CASE Launch(p)
    BY <1>19 DEF Launch
  <1>20. CASE Exit(p)
    BY <1>20 DEF Exit
  <1>21. CASE List(p)
    BY <1>21 DEF List
  <1>22. CASE Scan(p)
    <2>1. CASE End(p) /\ UNCHANGED condemned
      BY <2>1
    <2>2. CASE ~(End(p) /\ UNCHANGED condemned)
      <3>1. /\ pc[p] = "scan" /\ pc'[p] = "inspect" /\ known' = known
            /\ queue'[p] = IF session[p] = None THEN known[p] \ Retained(known[p])
                                               ELSE {session[p]}
            /\ session[p] # None => \A t \in known[p] : parent[t] # session[p]
        BY <1>22, <2>2 DEF Scan
      <3>2. session[p] # None => session[p] \in known[p]
        BY <3>1 DEF InCommand
      <3>3. Retained(known[p]) \subseteq known[p]
        BY DEF Retained
      <3>4. \A t \in Retained(known[p]) :
              parent[t] \in known[p] => parent[t] \in Retained(known[p])
        BY ParentRetained
      <3> QED BY <3>1, <3>2, <3>3, <3>4
    <2> QED BY <2>1, <2>2
  <1>23. CASE Inspect(p)
    <2>1. CASE pc'[p] = "idle"
      BY <2>1
    <2>2. CASE pc'[p] # "idle"
      <3>1. /\ pc[p] = "inspect" /\ pc'[p] = "stage" /\ session'[p] \in queue[p]
            /\ UNCHANGED <<known, queue, place>>
            /\ \A t \in queue[p] :
                 Depth(known[p])[t] <= Depth(known[p])[session'[p]]
        <4>1. pc[p] = "inspect" /\ UNCHANGED directories
          BY <1>23 DEF Inspect
        <4>2. PICK s \in queue[p] :
                /\ \A t \in queue[p] : Depth(known[p])[t] <= Depth(known[p])[s]
                /\ session' = [session EXCEPT ![p] = s]
                /\ Goto(p, "stage") /\ UNCHANGED <<known, queue>>
          BY <1>23, <2>2 DEF Inspect
        <4> QED BY <4>1, <4>2 DEF directories
      <3>2. /\ queue[p] \subseteq known[p] /\ known[p] \in SUBSET Ids
            /\ \A t \in known[p] :
                 parent[t] \in queue[p] => t \in queue[p] \/ place[t] = "none"
        BY <3>1 DEF BottomUp
      <3>3. ASSUME NEW t \in known[p], parent[t] = session'[p]
            PROVE  place[t] = "none"
        <4>1. ~ (Depth(known[p])[t] <= Depth(known[p])[session'[p]])
          BY <3>1, <3>2, <3>3, DeeperThanParent
        <4> QED BY <3>1, <3>2, <3>3, <4>1
      <3> QED BY <3>1, <3>2, <3>3
    <2> QED BY <2>1, <2>2
  <1>24. CASE Stage(p)
    <2>1. CASE pc'[p] = "idle"
      BY <2>1
    <2>2. CASE pc'[p] # "idle"
      <3>1. /\ pc[p] = "stage" /\ pc'[p] = "unlink" /\ UNCHANGED <<known, queue>>
            /\ place[session[p]] = "root"
            /\ place' = [place EXCEPT ![session[p]] = "deleting"]
        BY <1>24, <2>2 DEF Stage, PutBack
      <3> QED BY <3>1 DEF BottomUp
    <2> QED BY <2>1, <2>2
  <1>25. CASE Unlink(p)
    <2>1. CASE pc'[p] = "idle"
      BY <2>1
    <2>2. CASE pc'[p] # "idle"
      <3>1. /\ pc[p] = "unlink" /\ pc'[p] = "rmdir"
            /\ UNCHANGED <<known, queue, place>>
        BY <1>25, <2>2 DEF Unlink, PutBack
      <3> QED BY <3>1 DEF BottomUp
    <2> QED BY <2>1, <2>2
  <1>26. CASE Rmdir(p)
    <2>1. CASE pc'[p] = "idle"
      BY <2>1
    <2>2. CASE pc'[p] # "idle"
      <3>1. /\ pc[p] = "rmdir" /\ pc'[p] = "inspect" /\ known' = known
            /\ place' = [place EXCEPT ![session[p]] = "none"]
            /\ queue' = [queue EXCEPT ![p] = queue[p] \ {session[p]}]
        BY <1>26, <2>2 DEF Rmdir, PutBack
      <3> QED BY <3>1 DEF BottomUp
    <2> QED BY <2>1, <2>2
  <1>27. CASE DeleteFails(p)
    BY <1>27 DEF DeleteFails, PutBack
  <1>28. CASE Kill(p)
    BY <1>28 DEF Kill
  <1> QED
    BY <1>1, <1>2, <1>3, <1>4, <1>5, <1>6, <1>7, <1>8, <1>9, <1>10,
       <1>11, <1>12, <1>13, <1>14, <1>15, <1>16, <1>17, <1>18, <1>19,
       <1>20, <1>21, <1>22, <1>23, <1>24, <1>25, <1>26, <1>27, <1>28 DEF
       Step

LEMMA BottomUpStep ==
    ASSUME TypeOK, InCommand, Drawn, Listed, Ancestry, BottomUp,
           NEW p \in Procs, Step(p)
    PROVE  BottomUp'
  <1>1. ASSUME NEW q \in Procs, NEW t \in known[q] PROVE parent'[t] = parent[t]
    <2>1. CASE parent' = parent
      BY <2>1
    <2>2. CASE Create(p)
      BY <1>1, <2>2 DEF Create, Listed, TypeOK
    <2> QED BY <2>1, <2>2, ParentMoves
  <1>2. ASSUME NEW q \in Procs \ {p}
        PROVE  /\ pc'[q] \in {"inspect", "stage", "unlink", "rmdir"} =>
                    /\ queue'[q] \subseteq known'[q]
                    /\ \A t \in known'[q] :
                         parent'[t] \in queue'[q] =>
                           t \in queue'[q] \/ place'[t] = "none"
               /\ pc'[q] = "stage" =>
                    /\ session'[q] \in queue'[q]
                    /\ \A t \in known'[q] :
                         parent'[t] = session'[q] => place'[t] = "none"
    <2>1. /\ pc'[q] = pc[q] /\ session'[q] = session[q] /\ known'[q] = known[q]
          /\ queue'[q] = queue[q]
      BY Frame
    <2>2. \A t \in known[q] : place[t] = "none" => place'[t] = "none"
      BY GoneForGood
    <2> QED BY <1>1, <2>1, <2>2 DEF BottomUp
  <1>3. ASSUME NEW t \in known'[p], pc'[p] # "scan", pc'[p] # "idle"
        PROVE  parent'[t] = parent[t]
    <2>1. known'[p] \subseteq known[p]
      BY <1>3, ListedMoves
    <2> QED BY <1>1, <1>3, <2>1
  <1>4. /\ pc'[p] \in {"inspect", "stage", "unlink", "rmdir"} =>
             /\ queue'[p] \subseteq known'[p]
             /\ \A t \in known'[p] :
                  parent'[t] \in queue'[p] => t \in queue'[p] \/ place'[t] = "none"
        /\ pc'[p] = "stage" =>
             /\ session'[p] \in queue'[p]
             /\ \A t \in known'[p] : parent'[t] = session'[p] => place'[t] = "none"
    BY <1>3, BottomUpMoves
  <1> QED BY <1>2, <1>4 DEF BottomUp

LEMMA RemovalInductive == Inv /\ RemovalInv /\ [Next]_vars => RemovalInv'
  <1> SUFFICES ASSUME Inv, RemovalInv, [Next]_vars PROVE RemovalInv'
    OBVIOUS
  <1>1. CASE UNCHANGED vars
    <2>1. UNCHANGED <<place, parent, drawn, pc, session, known, queue>>
      BY <1>1 DEF vars, directories, locals
    <2>2. Listed' /\ BottomUp'
      BY <2>1 DEF RemovalInv, Listed, BottomUp
    <2>3. Ancestry'
      BY <2>1, AncestryKept DEF RemovalInv
    <2> QED BY <2>2, <2>3 DEF RemovalInv
  <1>2. ASSUME NEW p \in Procs, Step(p) PROVE RemovalInv'
    BY <1>2, ListedStep, BottomUpStep, AncestryStep DEF Inv, RemovalInv
  <1> QED BY <1>1, <1>2 DEF Next

LEMMA RemovalInitially == Init => RemovalInv
  <1> SUFFICES ASSUME Init PROVE RemovalInv
    OBVIOUS
  <1>1. Listed /\ BottomUp
    BY DEF Init, Listed, BottomUp
  <1>2. ASSUME NEW listed \in SUBSET Ids
        PROVE  \E f \in [Ids -> Nat] : \A g : g = DepthStep(listed, g) <=> g = f
    <2>1. \A s \in Ids : parent[s] \notin listed
      BY SessionsAssumption DEF Init, SessionsAssumption
    <2>2. \A g : DepthStep(listed, g) = [s \in Ids |-> 0]
      BY <2>1 DEF DepthStep
    <2>3. [s \in Ids |-> 0] \in [Ids -> Nat]
      OBVIOUS
    <2> QED BY <2>2, <2>3
  <1>3. Ancestry
    BY <1>2 DEF Init, Ancestry
  <1> QED BY <1>1, <1>3 DEF RemovalInv

LEMMA RemovalInvariance == Spec => []RemovalInv
  <1>1. Init => RemovalInv
    BY RemovalInitially
  <1>2. Inv /\ RemovalInv /\ [Next]_vars => RemovalInv'
    BY RemovalInductive
  <1> QED BY <1>1, <1>2, Invariance, PTL DEF Spec

\* No removal deletes a session while one that it has listed and that descends
\* from it is still there (remove_logical_sessions).
THEOREM ParentsGoLast == Spec => ParentsLast
  <1>1. ASSUME Inv, RemovalInv, Next
        PROVE  \A p \in Procs :
                 pc[p] = "stage" /\ pc'[p] = "unlink" =>
                   \A s \in known[p] : parent[s] = session[p] => place[s] # "root"
    BY <1>1 DEF RemovalInv, BottomUp
  <1>2. Inv /\ RemovalInv /\ [Next]_vars =>
          [\A p \in Procs :
             pc[p] = "stage" /\ pc'[p] = "unlink" =>
               \A s \in known[p] : parent[s] = session[p] => place[s] # "root"]_vars
    BY <1>1
  <1> QED BY <1>2, Invariance, RemovalInvariance, PTL DEF Spec, ParentsLast

=============================================================================
