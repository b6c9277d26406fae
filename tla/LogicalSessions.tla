-------------------------- MODULE LogicalSessions ---------------------------
(***************************************************************************)
(* Logical sessions (integrations/common/orichum_sessions.py) and their    *)
(* launch (orichum_cli.py): create, fork, resume, remove, clear, and the   *)
(* port leases that make a session active.                                 *)
(*                                                                         *)
(* A session is a directory with one file, binding.json.  It is made in a  *)
(* staging directory and renamed into the session root, and renamed back   *)
(* into staging to be deleted.  No lock covers that.  A flock on the       *)
(* directory serializes changes of the controller (resume), another one    *)
(* the reservation of ports; both are held at certain locations of pc.     *)
(*                                                                         *)
(* Commands can be killed between any two steps and their system calls can *)
(* fail.  A binding is represented by its controller, the one field that   *)
(* changes; fsyncs, and the physical run directory, are left out.          *)
(***************************************************************************)
EXTENDS Naturals

CONSTANTS
    Procs,        \* process ids
    Ids,          \* session ids, drawn at random and not drawn twice
    Controllers,  \* routes of a controller
    Ports,        \* ports a session's translator may use
    Absent,       \* no binding.json
    None,         \* no parent, no session, no plan, no port
    NoLease,
    Partial,      \* a lease file that is not written completely
    MaxErrors,    \* bound on system calls that fail
    MaxKills      \* bound on commands that are killed

ASSUME SessionsAssumption ==
    /\ Absent \notin Controllers
    /\ None \notin Procs \cup Ids \cup Controllers \cup Ports
    /\ \A p \in Procs, s \in Ids : [pid |-> p, session |-> s] \notin {NoLease, Partial}
    /\ NoLease # Partial
    /\ MaxErrors \in Nat /\ MaxKills \in Nat

VARIABLES
    place,       \* where the directory of a session is
    binding,     \* its binding.json
    leftover,    \* whether a killed update has left its temporary file there
    parent,      \* the parent named in the binding
    drawn,       \* the ids drawn so far
    leases,      \* claudex-port-leases
    pc, session, \* each process, and the session it is about
    expect, wanted,      \* controller update: the old and the new one
    known, queue,        \* removal: sessions listed, sessions to delete
    port,                \* launch: the port reserved
    errors, kills,
    condemned    \* history: sessions that a removal found without a lease

directories == <<place, binding, leftover, parent, drawn>>
locals == <<session, expect, wanted, known, queue, port>>
counters == <<errors, kills>>
vars == <<directories, leases, pc, locals, counters, condemned>>

-----------------------------------------------------------------------------
Places == {"none", "staging", "root", "deleting"}
Locations == {"idle", "allocate", "write", "publish", "reload",
              "cleanBinding", "cleanDirectory",
              "open", "lock", "temp", "swap",
              "reserve", "lease", "record", "launch", "running",
              "scan", "inspect", "stage", "unlink", "rmdir"}
Leases == {NoLease, Partial} \cup [pid : Procs, session : Ids]

TypeOK ==
    /\ place \in [Ids -> Places]
    /\ binding \in [Ids -> Controllers \cup {Absent}]
    /\ leftover \in [Ids -> BOOLEAN]
    /\ parent \in [Ids -> Ids \cup {None}]
    /\ drawn \subseteq Ids
    /\ leases \in [Ports -> Leases]
    /\ pc \in [Procs -> Locations]
    /\ session \in [Procs -> Ids \cup {None}]
    /\ expect \in [Procs -> Controllers \cup {None}]
    /\ wanted \in [Procs -> Controllers \cup {None}]
    /\ known \in [Procs -> SUBSET Ids]
    /\ queue \in [Procs -> SUBSET Ids]
    /\ port \in [Procs -> Ports \cup {None}]
    /\ errors \in Nat /\ kills \in Nat
    /\ condemned \subseteq Ids

Init ==
    /\ place = [s \in Ids |-> "none"]
    /\ binding = [s \in Ids |-> Absent]
    /\ leftover = [s \in Ids |-> FALSE]
    /\ parent = [s \in Ids |-> None]
    /\ drawn = {}
    /\ leases = [c \in Ports |-> NoLease]
    /\ pc = [p \in Procs |-> "idle"]
    /\ session = [p \in Procs |-> None]
    /\ expect = [p \in Procs |-> None] /\ wanted = [p \in Procs |-> None]
    /\ known = [p \in Procs |-> {}] /\ queue = [p \in Procs |-> {}]
    /\ port = [p \in Procs |-> None]
    /\ errors = 0 /\ kills = 0
    /\ condemned = {}

InRoot == {s \in Ids : place[s] = "root"}

\* load_logical_session succeeds.
Loadable(s) == place[s] = "root" /\ binding[s] # Absent

\* list_logical_sessions succeeds.
Listable == \A s \in InRoot : Loadable(s)

Updating(s) == \E p \in Procs : pc[p] = "swap" /\ session[p] = s

\* No file beside binding.json.
Tidy(s) == ~leftover[s] /\ ~Updating(s)

\* os.kill(pid, 0) finds the owner of the lease.  A process id may have been
\* given to another process.
Held(c) == leases[c] \notin {NoLease, Partial} /\ pc[leases[c].pid] # "idle"

Active == {leases[c].session : c \in {d \in Ports : Held(d)}}

-----------------------------------------------------------------------------
Goto(p, location) == pc' = [pc EXCEPT ![p] = location]

\* The command is over; the kernel closes its files and releases its locks.
End(p) ==
    /\ Goto(p, "idle")
    /\ session' = [session EXCEPT ![p] = None]
    /\ expect' = [expect EXCEPT ![p] = None]
    /\ wanted' = [wanted EXCEPT ![p] = None]
    /\ known' = [known EXCEPT ![p] = {}]
    /\ queue' = [queue EXCEPT ![p] = {}]
    /\ port' = [port EXCEPT ![p] = None]

Continue(p, location) == Goto(p, location) /\ UNCHANGED locals

Fails == errors < MaxErrors /\ errors' = errors + 1 /\ UNCHANGED kills

-----------------------------------------------------------------------------
(* run and fork: create_logical_session.                                   *)

Create(p) ==
    /\ pc[p] = "idle"
    /\ \E s \in Ids \ drawn, q \in {None} \cup {t \in Ids : Loadable(t)} :
        /\ drawn' = drawn \cup {s}
        /\ parent' = [parent EXCEPT ![s] = q]
        /\ session' = [session EXCEPT ![p] = s]
    /\ Goto(p, "allocate")
    /\ UNCHANGED <<place, binding, leftover, leases, expect, wanted, known,
                   queue, port, counters, condemned>>

\* The parent is loaded once more.
Allocate(p) ==
    /\ pc[p] = "allocate"
    /\ LET s == session[p] IN
        IF parent[s] = None \/ Loadable(parent[s])
        THEN /\ place' = [place EXCEPT ![s] = "staging"]
             /\ Continue(p, "write")
        ELSE End(p) /\ UNCHANGED place
    /\ UNCHANGED <<binding, leftover, parent, drawn, leases, counters, condemned>>

CreateFails(p) ==
    /\ pc[p] \in {"write", "publish", "reload"}
    /\ Fails
    /\ Continue(p, "cleanBinding")
    /\ UNCHANGED <<directories, leases, condemned>>

Write(p) ==
    /\ pc[p] = "write"
    /\ \E n \in Controllers : binding' = [binding EXCEPT ![session[p]] = n]
    /\ Continue(p, "publish")
    /\ UNCHANGED <<place, leftover, parent, drawn, leases, counters, condemned>>

Publish(p) ==
    /\ pc[p] = "publish"
    /\ place' = [place EXCEPT ![session[p]] = "root"]
    /\ Continue(p, "reload")
    /\ UNCHANGED <<binding, leftover, parent, drawn, leases, counters, condemned>>

Reload(p) ==
    /\ pc[p] = "reload"
    /\ Continue(p, IF Loadable(session[p]) THEN "reserve" ELSE "cleanBinding")
    /\ UNCHANGED <<directories, leases, counters, condemned>>

\* The handler of all failures: the directory may be in staging or published.
CleanBinding(p) ==
    /\ pc[p] = "cleanBinding"
    /\ LET s == session[p] IN
        /\ binding' = IF place[s] \in {"staging", "root"}
                      THEN [binding EXCEPT ![s] = Absent] ELSE binding
        /\ condemned' = condemned \cup {s}
    /\ Continue(p, "cleanDirectory")
    /\ UNCHANGED <<place, leftover, parent, drawn, leases, counters>>

CleanDirectory(p) ==
    /\ pc[p] = "cleanDirectory"
    /\ LET s == session[p] IN
        place' = IF /\ place[s] \in {"staging", "root"}
                    /\ binding[s] = Absent /\ Tidy(s)
                 THEN [place EXCEPT ![s] = "none"] ELSE place
    /\ End(p)
    /\ UNCHANGED <<binding, leftover, parent, drawn, leases, counters, condemned>>

-----------------------------------------------------------------------------
(* resume: update_session_controller.                                      *)

\* The plan is made from the session as it is loaded here.
Resume(p) ==
    /\ pc[p] = "idle"
    /\ \E s \in Ids, n \in Controllers :
        /\ Loadable(s)
        /\ session' = [session EXCEPT ![p] = s]
        /\ expect' = [expect EXCEPT ![p] = binding[s]]
        /\ wanted' = [wanted EXCEPT ![p] = n]
    /\ Goto(p, "open")
    /\ UNCHANGED <<directories, leases, known, queue, port, counters, condemned>>

Open(p) ==
    /\ pc[p] = "open"
    /\ IF Loadable(session[p]) THEN Continue(p, "lock") ELSE End(p)
    /\ UNCHANGED <<directories, leases, counters, condemned>>

\* The command launches the session it has loaded or updated.
Updated(p) ==
    /\ Goto(p, "reserve")
    /\ expect' = [expect EXCEPT ![p] = None] /\ wanted' = [wanted EXCEPT ![p] = None]
    /\ UNCHANGED <<session, known, queue, port>>

LockFree(s) ==
    ~ \E q \in Procs : pc[q] \in {"temp", "swap"} /\ session[q] = s

\* Faulty variant: the session is not compared once the lock is held.
LockUnchecked(p) ==
    /\ pc[p] = "lock"
    /\ LockFree(session[p])
    /\ IF Loadable(session[p]) THEN Continue(p, "temp") ELSE End(p)
    /\ UNCHANGED <<directories, leases, counters, condemned>>

\* The session under the lock: as wanted already, changed, or as expected.
Lock(p) ==
    /\ pc[p] = "lock"
    /\ LET s == session[p] IN
        /\ LockFree(s)
        /\ IF Loadable(s) /\ binding[s] = wanted[p] THEN Updated(p)
           ELSE IF Loadable(s) /\ binding[s] = expect[p] THEN Continue(p, "temp")
           ELSE End(p)
    /\ UNCHANGED <<directories, leases, counters, condemned>>

\* By the descriptor of the directory, wherever it has been moved.
CreateTemp(p) ==
    /\ pc[p] = "temp"
    /\ IF place[session[p]] # "none" THEN Continue(p, "swap") ELSE End(p)
    /\ UNCHANGED <<directories, leases, counters, condemned>>

Swap(p) ==
    /\ pc[p] = "swap"
    /\ binding' = [binding EXCEPT ![session[p]] = wanted[p]]
    /\ \/ Updated(p) /\ UNCHANGED counters
       \/ End(p) /\ Fails
    /\ UNCHANGED <<place, leftover, parent, drawn, leases, condemned>>

\* The temporary file is removed again.
SwapFails(p) ==
    /\ pc[p] = "swap"
    /\ Fails
    /\ End(p)
    /\ UNCHANGED <<directories, leases, condemned>>

-----------------------------------------------------------------------------
(* The launch: _reserve_session_claudex_port, under its flock.             *)

PortLockFree == ~ \E q \in Procs : pc[q] \in {"lease", "record"}

\* Faulty variant: a lease whose port nobody listens on is taken over without
\* looking for its owner.
ReserveListening(p) ==
    /\ pc[p] = "reserve"
    /\ PortLockFree
    /\ \E c \in Ports :
        /\ leases' = [leases EXCEPT ![c] = Partial]
        /\ port' = [port EXCEPT ![p] = c]
    /\ Goto(p, "lease")
    /\ UNCHANGED <<directories, session, expect, wanted, known, queue, counters,
                   condemned>>

\* Ports are tried in turn.  Another program may listen on any of them, or on
\* all; a lease that is held is never taken, any other one is replaced.
Reserve(p) ==
    /\ pc[p] = "reserve"
    /\ PortLockFree
    /\ \/ /\ \E c \in Ports :
              /\ ~Held(c)
              /\ leases' = [leases EXCEPT ![c] = Partial]
              /\ port' = [port EXCEPT ![p] = c]
          /\ Goto(p, "lease")
          /\ UNCHANGED <<session, expect, wanted, known, queue>>
       \/ End(p) /\ UNCHANGED leases
    /\ UNCHANGED <<directories, counters, condemned>>

WriteLease(p) ==
    /\ pc[p] = "lease"
    /\ leases' = [leases EXCEPT ![port[p]] = [pid |-> p, session |-> session[p]]]
    /\ Continue(p, "record")
    /\ UNCHANGED <<directories, counters, condemned>>

\* The port file in the run directory.
RecordPort(p) ==
    /\ pc[p] = "record"
    /\ Continue(p, "launch")
    /\ UNCHANGED <<directories, leases, counters, condemned>>

ReserveFails(p) ==
    /\ pc[p] \in {"lease", "record"}
    /\ Fails
    /\ leases' = [leases EXCEPT ![port[p]] = NoLease]
    /\ End(p)
    /\ UNCHANGED <<directories, condemned>>

\* _launch_session replaces the process by the translator, or fails before.
Launch(p) ==
    /\ pc[p] = "launch"
    /\ \/ Continue(p, "running") /\ UNCHANGED counters
       \/ End(p) /\ Fails
    /\ UNCHANGED <<directories, leases, condemned>>

\* Nobody removes the lease.
Exit(p) ==
    /\ pc[p] = "running"
    /\ End(p)
    /\ UNCHANGED <<directories, leases, counters, condemned>>

-----------------------------------------------------------------------------
(* sessions remove, sessions clear.                                        *)

\* With a session to remove, or None for all of them.
List(p) ==
    /\ pc[p] = "idle"
    /\ Listable
    /\ \E s \in InRoot \cup {None} : session' = [session EXCEPT ![p] = s]
    /\ known' = [known EXCEPT ![p] = InRoot]
    /\ Goto(p, "scan")
    /\ UNCHANGED <<directories, leases, expect, wanted, queue, port, counters,
                   condemned>>

\* The active sessions of a listing, and the sessions they descend from: what
\* every set of sessions has that holds the active ones and their parents.
Retained(listed) ==
    LET closed == {S \in SUBSET listed :
                     /\ Active \cap listed \subseteq S
                     /\ \A s \in S : parent[s] \in listed => parent[s] \in S}
    IN  {s \in listed : \A S \in closed : s \in S}

\* Faulty variant: the leases are not looked at.
ScanUnleased(p) ==
    /\ pc[p] = "scan"
    /\ queue' = [queue EXCEPT ![p] = IF session[p] = None THEN known[p] ELSE {session[p]}]
    /\ Goto(p, "inspect")
    /\ condemned' = condemned \cup (known[p] \ Active)
    /\ UNCHANGED <<directories, leases, session, expect, wanted, known, port,
                   counters>>

Scan(p) ==
    /\ pc[p] = "scan"
    /\ LET s == session[p]
           all == known[p] \ Retained(known[p])
           refused == \/ \E c \in Ports : leases[c] = Partial
                      \/ s # None /\ s \in Active
                      \/ s # None /\ \E t \in known[p] : parent[t] = s
       IN  IF refused
           THEN End(p) /\ UNCHANGED condemned
           ELSE /\ queue' = [queue EXCEPT ![p] = IF s = None THEN all ELSE {s}]
                /\ Goto(p, "inspect")
                /\ condemned' = condemned \cup (known[p] \ Active)
                /\ UNCHANGED <<session, expect, wanted, known, port>>
    /\ UNCHANGED <<directories, leases, counters>>

\* How many of the listed sessions a session descends from.
Depth(listed) ==
    LET depth[s \in Ids] == IF parent[s] \in listed THEN 1 + depth[parent[s]] ELSE 0
    IN  depth

\* Faulty variant: the order of the listing.
InspectAny(p) ==
    /\ pc[p] = "inspect" /\ queue[p] # {}
    /\ \E s \in queue[p] :
        /\ Loadable(s) /\ Tidy(s)
        /\ session' = [session EXCEPT ![p] = s]
    /\ Goto(p, "stage")
    /\ UNCHANGED <<directories, leases, expect, wanted, known, queue, port,
                   counters, condemned>>

\* Sessions further down go first.  One that is gone or holds anything else
\* ends the command.
Inspect(p) ==
    /\ pc[p] = "inspect"
    /\ \/ queue[p] = {} /\ End(p)
       \/ \E s \in queue[p] :
            /\ \A t \in queue[p] : Depth(known[p])[t] <= Depth(known[p])[s]
            /\ IF Loadable(s) /\ Tidy(s)
               THEN /\ session' = [session EXCEPT ![p] = s]
                    /\ Goto(p, "stage")
                    /\ UNCHANGED <<expect, wanted, known, queue, port>>
               ELSE End(p)
    /\ UNCHANGED <<directories, leases, counters, condemned>>

\* The handler of a failed deletion: what is in staging under this session's
\* name goes back, whoever has put it there.
PutBack(p) ==
    /\ place' = IF place[session[p]] = "deleting"
                THEN [place EXCEPT ![session[p]] = "root"] ELSE place
    /\ End(p)

Stage(p) ==
    /\ pc[p] = "stage"
    /\ IF place[session[p]] = "root"
       THEN place' = [place EXCEPT ![session[p]] = "deleting"] /\ Continue(p, "unlink")
       ELSE PutBack(p)
    /\ UNCHANGED <<binding, leftover, parent, drawn, leases, counters, condemned>>

Unlink(p) ==
    /\ pc[p] = "unlink"
    /\ LET s == session[p] IN
        IF place[s] = "deleting" /\ binding[s] # Absent
        THEN /\ binding' = [binding EXCEPT ![s] = Absent]
             /\ Continue(p, "rmdir")
             /\ UNCHANGED place
        ELSE PutBack(p) /\ UNCHANGED binding
    /\ UNCHANGED <<leftover, parent, drawn, leases, counters, condemned>>

\* Fails while an update has put a file there.
Rmdir(p) ==
    /\ pc[p] = "rmdir"
    /\ LET s == session[p] IN
        IF place[s] = "deleting" /\ binding[s] = Absent /\ Tidy(s)
        THEN /\ place' = [place EXCEPT ![s] = "none"]
             /\ queue' = [queue EXCEPT ![p] = @ \ {s}]
             /\ Goto(p, "inspect")
             /\ UNCHANGED <<session, expect, wanted, known, port>>
        ELSE PutBack(p)
    /\ UNCHANGED <<binding, leftover, parent, drawn, leases, counters, condemned>>

DeleteFails(p) ==
    /\ pc[p] \in {"stage", "unlink", "rmdir"}
    /\ Fails
    /\ PutBack(p)
    /\ UNCHANGED <<binding, leftover, parent, drawn, leases, condemned>>

-----------------------------------------------------------------------------
Kill(p) ==
    /\ pc[p] \notin {"idle", "running"}
    /\ kills < MaxKills
    /\ kills' = kills + 1
    /\ leftover' = IF pc[p] = "swap" THEN [leftover EXCEPT ![session[p]] = TRUE]
                                     ELSE leftover
    /\ End(p)
    /\ UNCHANGED <<place, binding, parent, drawn, leases, errors, condemned>>

Step(p) ==
    \/ Create(p) \/ Allocate(p) \/ Write(p) \/ Publish(p) \/ Reload(p)
    \/ CreateFails(p) \/ CleanBinding(p) \/ CleanDirectory(p)
    \/ Resume(p) \/ Open(p) \/ Lock(p) \/ CreateTemp(p) \/ Swap(p) \/ SwapFails(p)
    \/ Reserve(p) \/ WriteLease(p) \/ RecordPort(p) \/ ReserveFails(p)
    \/ Launch(p) \/ Exit(p)
    \/ List(p) \/ Scan(p) \/ Inspect(p) \/ Stage(p) \/ Unlink(p) \/ Rmdir(p)
    \/ DeleteFails(p) \/ Kill(p)

Next == \E p \in Procs : Step(p)

Spec == Init /\ [][Next]_vars

-----------------------------------------------------------------------------
(* Properties.                                                             *)

\* A running session can be resumed: no removal takes the binding of a session
\* that was launched before the removal looked for active sessions, whatever
\* other removals, resumes and reservations do meanwhile.
RunningResumable ==
    \A p \in Procs :
        pc[p] = "running" => Loadable(session[p]) \/ session[p] \in condemned

\* A launched session has its own port and its lease, as long as it runs: it
\* is what removals know it by.
LeasesHeld ==
    \A p \in Procs :
        pc[p] \in {"launch", "running"} =>
            leases[port[p]] = [pid |-> p, session |-> session[p]]

\* A resume changes the controller only of the session it has made its plan
\* from, never one that another resume has changed meanwhile.
UpdatesSerialized ==
    [][\A p \in Procs :
        pc[p] = "swap" /\ binding' # binding /\ pc'[p] # "swap"
        /\ binding[session[p]] # Absent =>
            binding[session[p]] = expect[p]]_vars

\* A removal never deletes a session before the sessions that descend from it,
\* however far it gets.
ParentsLast ==
    [][\A p \in Procs :
        pc[p] = "stage" /\ pc'[p] = "unlink" =>
            \A s \in known[p] : parent[s] = session[p] => place[s] # "root"]_vars

\* When no command is at work, every session that is listed is complete.
NothingHalfRemoved ==
    (\A p \in Procs : pc[p] \in {"idle", "running"}) => Listable
=============================================================================
