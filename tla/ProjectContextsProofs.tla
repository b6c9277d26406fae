------------------------ MODULE ProjectContextsProofs -----------------------
(***************************************************************************)
(* What the flock and the journal of projects.json guarantee, for any      *)
(* number of processes, scopes and stacks: an invariant that says, for     *)
(* each place of the one process that holds the flock, what the directory  *)
(* looks like and what that process knows.                                 *)
(***************************************************************************)
EXTENDS ProjectContexts, TLAPS

\* The processes outside the flock.
Outside == {"idle", "lockSave"}

Owned ==
    \A p \in Procs : (pc[p] \in Outside /\ owner # p) \/ (pc[p] \notin Outside /\ owner = p)

\* The writes under way, which a power failure may bring or not.
Candidates == {candidate[p] : p \in {q \in Procs : pc[q] \in Writing \cup Restoring}}

\* What a power failure leaves can be recovered.
Sound(d) ==
    /\ d.marker = "pending" => d.copy # NoCopy
    /\ Disjoint(Recovered(d))

Survive == \A d \in survivors : Sound(d) /\ Recovered(d) \in agreed \cup Candidates

\* A task that is still to be done.
Due(p) ==
    \/ pc[p] \in {"recover", "read"}
    \/ pc[p] \in Restoring \cup Cleaning /\ after[p] = "read"

Tasked(p) ==
    /\ Due(p) => /\ task[p] \in Tasks
                 /\ task[p].kind = "normal" => task[p].scope = Normal
                 /\ task[p].kind = "assign" => task[p].stack \in stacks
    /\ pc[p] = "save" =>
          /\ Known(dir.doc, proposed[p]) \/ seen[p] \subseteq proposed[p]
          /\ task[p] # NoTask => /\ task[p] \in Tasks
                                 /\ task[p].kind = "normal" => task[p].scope = Normal
                                 /\ task[p].kind = "assign" => task[p].stack \in proposed[p]

\* Before the marker is written, the document is what it was.
Prepares(p) ==
    /\ pc[p] \in Preparing \cup Cleaning \cup {"read", "syncCommit", "syncFinish"}
          => dir.marker # "pending"
    /\ pc[p] \in {"syncCopy", "mark"} => dir.copy = dir.doc
    /\ pc[p] \in Preparing \cup Writing => candidate[p] \in Documents /\ Disjoint(candidate[p])
    /\ pc[p] \in Preparing \cup {"syncMark", "replace"} =>
          (Known(dir.doc, stacks) => Known(candidate[p], stacks))

\* From then on the copy is the document before the write.
Writes(p) ==
    /\ pc[p] \in Writing \cup Restoring =>
          dir.copy \in Documents /\ dir.copy \in agreed /\ Disjoint(dir.copy)
    /\ pc[p] \in {"syncMark", "replace", "syncDoc", "commit", "restore", "syncRestore", "finish"}
          => dir.marker = "pending"
    /\ pc[p] \in {"syncDoc", "commit", "syncCommit"} => dir.doc = candidate[p]
    /\ pc[p] \in {"syncRestore", "finish", "syncFinish"} => dir.doc = dir.copy

Place(p) == Tasked(p) /\ Prepares(p) /\ Writes(p)

IInv == TypeOK /\ Owned /\ Survive /\ \A p \in Procs : Place(p)

-----------------------------------------------------------------------------
(* Documents                                                               *)

LEMMA ChangeIsSound ==
    ASSUME NEW doc \in Documents, NEW t \in Tasks, Disjoint(doc), Accepted(doc, t),
           t.kind = "normal" => t.scope = Normal
    PROVE  Changed(doc, t) \in Documents /\ Disjoint(Changed(doc, t))
  <1>1. /\ t.scope \in Scopes /\ t.stack \in Stacks \cup {Inherit}
        /\ t.kind \in {"add", "update", "remove", "normal", "assign"}
    BY DEF Tasks
  <1>2. Changed(doc, t) \in Documents
    BY <1>1 DEF Changed, Documents
  <1>3. \A s \in Scopes : s # t.scope => Changed(doc, t)[s] = doc[s]
    BY DEF Changed, Documents
  <1>4. CASE t.kind = "add"
    BY <1>2, <1>4 DEF Accepted
  <1>5. CASE t.kind = "normal"
    BY <1>1, <1>2, <1>3, <1>5, ContextsAssumption DEF Disjoint, Mapped
  <1>6. CASE t.kind \in {"assign", "update", "remove"}
    <2>1. t.scope \in Mapped(doc)
      BY <1>6 DEF Accepted
    <2>2. Mapped(Changed(doc, t)) \subseteq Mapped(doc)
      BY <1>3, <2>1 DEF Mapped
    <2>. QED
      BY <1>2, <2>2 DEF Disjoint
  <1>. QED
    BY <1>1, <1>4, <1>5, <1>6

LEMMA ChangeIsKnown ==
    ASSUME NEW doc \in Documents, NEW t \in Tasks, Accepted(doc, t),
           Known(doc, stacks), t.kind = "assign" => t.stack \in stacks
    PROVE  Known(Changed(doc, t), stacks)
  <1>1. t.kind \in {"add", "update", "remove", "normal", "assign"}
    BY DEF Tasks
  <1>2. CASE t.kind = "assign"
    <2>1. Changed(doc, t) = [doc EXCEPT ![t.scope] = t.stack]
      BY <1>2 DEF Changed
    <2>2. t.scope \in Mapped(doc)
      BY <1>2 DEF Accepted
    <2>. QED
      BY <1>2, <2>1, <2>2 DEF Known, Mapped, Documents
  <1>3. CASE t.kind # "assign"
    BY <1>1, <1>3 DEF Accepted
  <1>. QED
    BY <1>2, <1>3

LEMMA RecoveredIsDocument ==
    ASSUME NEW d \in Directories, Sound(d)
    PROVE  Recovered(d) \in Documents
  BY DEF Directories, Sound, Recovered

-----------------------------------------------------------------------------
(* The invariant                                                           *)

LEMMA Starts == Init => IInv
  <1> SUFFICES ASSUME Init PROVE IInv
    OBVIOUS
  <1>1. PICK doc \in Documents :
            Disjoint(doc) /\ dir = [doc |-> doc, copy |-> NoCopy, marker |-> "none"]
    BY DEF Init
  <1>2. TypeOK
    BY <1>1, ContextsAssumption DEF Init, TypeOK, Directories, Locations
  <1>3. Owned
    BY ContextsAssumption DEF Init, Owned, Outside
  <1>4. Survive
    BY <1>1 DEF Init, Survive, Sound, Recovered
  <1>5. \A p \in Procs : Place(p)
    BY DEF Init, Place, Tasked, Due, Prepares, Writes, Preparing, Writing, Restoring, Cleaning
  <1>. QED
    BY <1>2, <1>3, <1>4, <1>5 DEF IInv

\* Nothing is said of a process outside the flock.
FreeOutside == \A p \in Procs : pc[p] \in Outside => Place(p)

LEMMA OutsideIsFree == FreeOutside
  BY DEF FreeOutside, Outside, Place, Tasked, Due, Prepares, Writes, Preparing, Writing, Restoring, Cleaning

\* One process at a time goes from place to place.
LEMMA OneMoves ==
    ASSUME IInv, NEW p \in Procs, owner \in {p, NoOwner},
           \A q \in Procs : q # p => pc'[q] = pc[q],
           Place(p)'
    PROVE  \A q \in Procs : Place(q)'
  <1>1. ASSUME NEW q \in Procs, q # p PROVE Place(q)'
    <2>1. pc'[q] \in Outside
      BY <1>1, ContextsAssumption DEF IInv, Owned
    <2>2. FreeOutside'
      BY OutsideIsFree, PTL
    <2>. QED
      BY <2>1, <2>2 DEF FreeOutside
  <1>. QED
    BY <1>1

LEMMA OwnersKept ==
    ASSUME IInv, NEW p \in Procs, owner \in {p, NoOwner}, NEW location, Goto(p, location),
           \/ location \in Outside /\ owner' = (IF owner = p THEN NoOwner ELSE owner)
           \/ location \notin Outside /\ owner' = p
    PROVE  Owned' /\ pc'[p] = location /\ \A q \in Procs : q # p => pc'[q] = pc[q]
  <1>1. pc' = [pc EXCEPT ![p] = location] /\ pc \in [Procs -> Locations]
    BY DEF Goto, IInv, TypeOK
  <1>2. pc'[p] = location /\ \A q \in Procs : q # p => pc'[q] = pc[q]
    BY <1>1
  <1>. QED
    BY <1>2, ContextsAssumption DEF IInv, Owned

\* What a process that has ended leaves.
LEMMA EndsClean ==
    ASSUME IInv, NEW p \in Procs, End(p), owner \in {p, NoOwner}
    PROVE  /\ pc' \in [Procs -> Locations] /\ owner' = NoOwner
           /\ task' \in [Procs -> {NoTask} \cup Tasks] /\ seen' \in [Procs -> SUBSET Stacks]
           /\ proposed' \in [Procs -> SUBSET Stacks]
           /\ candidate' \in [Procs -> {NoCopy} \cup Documents]
           /\ after' \in [Procs -> {"read", "end"}]
           /\ Owned' /\ \A q \in Procs : Place(q)' /\ pc'[q] \in Outside
  <1>1. TypeOK /\ Goto(p, "idle") /\ owner' = IF owner = p THEN NoOwner ELSE owner
    BY DEF IInv, End
  <1>2. Owned' /\ pc'[p] = "idle" /\ \A q \in Procs : q # p => pc'[q] = pc[q]
    BY <1>1, OwnersKept DEF Outside
  <1>3. \A q \in Procs : pc'[q] \in Outside
    BY <1>1, <1>2, ContextsAssumption DEF IInv, Owned, Outside
  <1>4. FreeOutside'
    BY OutsideIsFree, PTL
  <1>. QED
    BY <1>1, <1>2, <1>3, <1>4 DEF FreeOutside, TypeOK, End, Goto, Locations

\* One write at most is under way.
LEMMA OneWrites ==
    ASSUME IInv, NEW p \in Procs, owner \in {p, NoOwner}, NEW d \in survivors
    PROVE  /\ d \in Directories /\ Sound(d)
           /\ \/ Recovered(d) \in agreed
              \/ /\ pc[p] \in Writing \cup Restoring
                 /\ Recovered(d) = candidate[p] /\ candidate[p] # NoCopy
  <1>1. d \in Directories /\ Sound(d) /\ Recovered(d) \in agreed \cup Candidates
    BY DEF IInv, TypeOK, Survive
  <1>2. Recovered(d) # NoCopy
    BY <1>1, RecoveredIsDocument, NoCopyAssumption
  <1>3. ASSUME NEW q \in Procs, pc[q] \in Writing \cup Restoring PROVE q = p
    BY <1>3, ContextsAssumption DEF IInv, Owned, Outside, Writing, Restoring
  <1>. QED
    BY <1>1, <1>2, <1>3 DEF Candidates

\* Nothing happens to the documents that a power failure may leave.
LEMMA SurviveSame ==
    ASSUME IInv, NEW p \in Procs, owner \in {p, NoOwner},
           survivors' \subseteq survivors, agreed \subseteq agreed',
           \/ pc[p] \notin Writing \cup Restoring
           \/ candidate[p] = NoCopy \/ candidate[p] \in agreed'
           \/ pc'[p] \in Writing \cup Restoring /\ candidate'[p] = candidate[p]
    PROVE  Survive'
  <1>1. ASSUME NEW d \in survivors' PROVE (Sound(d) /\ Recovered(d) \in agreed \cup Candidates)'
    <2>1. d \in survivors
      OBVIOUS
    <2>2. /\ Sound(d)
          /\ \/ Recovered(d) \in agreed
             \/ /\ pc[p] \in Writing \cup Restoring
                /\ Recovered(d) = candidate[p] /\ candidate[p] # NoCopy
      BY <2>1, OneWrites
    <2>. QED
      BY <2>2 DEF Candidates, Sound, Recovered
  <1>. QED
    BY <1>1 DEF Survive

\* A command ends: a write that is under way may have been done or not.
LEMMA EndKeeps ==
    ASSUME IInv, NEW p \in Procs, owner \in {p, NoOwner}, End(p),
           UNCHANGED <<dir, survivors>>,
           agreed' \subseteq Documents, agreed \subseteq agreed',
           pc[p] \in Writing \cup Restoring /\ candidate[p] # NoCopy => candidate[p] \in agreed',
           stacks' \subseteq Stacks, stacksOld' \in {Settled} \cup SUBSET Stacks,
           errors' \in Nat, crashes' \in Nat
    PROVE  IInv'
  <1>1. Survive'
    BY SurviveSame
  <1>2. TypeOK'
    BY EndsClean DEF IInv, TypeOK
  <1>. QED
    BY <1>1, <1>2, EndsClean DEF IInv

-----------------------------------------------------------------------------
(* The commands                                                            *)

LEMMA LockKeeps ==
    ASSUME IInv, NEW p \in Procs, Lock(p)
    PROVE  IInv'
  <1>. USE DEF Lock, Take, journal, stores, counters
  <1>1. owner = NoOwner /\ owner' = p /\ TypeOK /\ pc[p] \in Outside
    BY DEF IInv, Outside
  <1>2. Owned' /\ pc'[p] = "recover" /\ \A q \in Procs : q # p => pc'[q] = pc[q]
    BY <1>1, OwnersKept DEF Outside
  <1>3. PICK t \in Tasks :
          /\ t.kind # "assign" /\ (t.kind = "normal" <=> t.scope = Normal)
          /\ task' = [task EXCEPT ![p] = t]
    OBVIOUS
  <1>4. TypeOK' /\ task'[p] = t
    BY <1>1, <1>3 DEF TypeOK, Goto, Locations
  <1>5. Survive'
    BY <1>1, SurviveSame DEF Outside, Writing, Restoring
  <1>6. Place(p)'
    BY <1>2, <1>3, <1>4 DEF Place, Tasked, Due, Prepares, Writes, Preparing, Writing,
                            Restoring, Cleaning
  <1>. QED
    BY <1>1, <1>2, <1>4, <1>5, <1>6, OneMoves DEF IInv

LEMMA WizardKeeps ==
    ASSUME IInv, NEW p \in Procs, Wizard(p)
    PROVE  IInv'
  <1>. USE DEF Wizard, journal, counters
  <1>1. owner = NoOwner /\ owner' = owner /\ TypeOK /\ pc[p] \in Outside
    BY DEF IInv, Outside
  <1>2. Owned' /\ pc'[p] = "lockSave" /\ \A q \in Procs : q # p => pc'[q] = pc[q]
    BY <1>1, OwnersKept DEF Outside
  <1>3. TypeOK'
    BY <1>1 DEF TypeOK, Goto, Locations, RecoveredStacks
  <1>4. Survive'
    BY <1>1, SurviveSame DEF Outside, Writing, Restoring
  <1>5. Place(p)'
    BY <1>2 DEF Place, Tasked, Due, Prepares, Writes, Preparing, Writing, Restoring, Cleaning
  <1>. QED
    BY <1>1, <1>2, <1>3, <1>4, <1>5, OneMoves DEF IInv

LEMMA RecommendKeeps ==
    ASSUME IInv, NEW p \in Procs, Recommend(p)
    PROVE  IInv'
  <1>. USE DEF Recommend, Take, journal, counters
  <1>1. owner = NoOwner /\ owner' = p /\ TypeOK /\ pc[p] \in Outside
    BY DEF IInv, Outside
  <1>2. Owned' /\ pc'[p] = "save" /\ \A q \in Procs : q # p => pc'[q] = pc[q]
    BY <1>1, OwnersKept DEF Outside
  <1>3. stacks' \in SUBSET Stacks /\ stacksOld' \in {Settled} \cup SUBSET Stacks
    BY <1>1 DEF TypeOK, RecoveredStacks
  <1>4. PICK name \in Stacks, scope \in Mapped(dir.doc) :
          /\ Known(dir.doc, stacks' \cup {name})
          /\ proposed' = [proposed EXCEPT ![p] = stacks' \cup {name}]
          /\ task' = [task EXCEPT ![p] =
                        [kind |-> IF scope = Normal THEN "normal" ELSE "assign",
                         scope |-> scope, stack |-> name]]
    OBVIOUS
  <1>5. scope \in Scopes
    BY DEF Mapped
  <1>6. PICK t \in Tasks :
          /\ t.kind = (IF scope = Normal THEN "normal" ELSE "assign")
          /\ t.scope = scope /\ t.stack = name /\ task' = [task EXCEPT ![p] = t]
    BY <1>4, <1>5 DEF Tasks
  <1>7. TypeOK' /\ task'[p] = t /\ proposed'[p] = stacks' \cup {name}
    BY <1>1, <1>3, <1>4, <1>6 DEF TypeOK, Goto, Locations
  <1>8. Survive'
    BY <1>1, SurviveSame DEF Outside, Writing, Restoring
  <1>9. Place(p)'
    BY <1>2, <1>4, <1>6, <1>7 DEF Place, Tasked, Due, Prepares, Writes, Preparing, Writing,
                                  Restoring, Cleaning, Known, Mapped
  <1>. QED
    BY <1>1, <1>2, <1>7, <1>8, <1>9, OneMoves DEF IInv

LEMMA LockSaveKeeps ==
    ASSUME IInv, NEW p \in Procs, LockSave(p)
    PROVE  IInv'
  <1>. USE DEF LockSave, journal, stores, counters
  <1>1. owner = NoOwner /\ TypeOK /\ pc[p] \in Outside
    BY DEF IInv, Outside
  <1>2. CASE End(p)
    BY <1>1, <1>2, EndKeeps DEF Outside, Writing, Restoring, TypeOK
  <1>3. CASE ~End(p)
    <2>1. PICK names \in Proposals(seen[p]) \ {{}} :
          \E t \in {NoTask} \cup [kind : {"assign"}, scope : Roots, stack : names] :
            /\ Known(dir.doc, names)
            /\ owner' = p
            /\ task' = [task EXCEPT ![p] = t]
            /\ proposed' = [proposed EXCEPT ![p] = names]
            /\ Goto(p, "save")
            /\ UNCHANGED <<seen, candidate, after>>
      BY <1>3
    <2>2. names \subseteq Stacks
      BY <1>1 DEF Proposals, TypeOK
    <2>3. PICK t \in {NoTask} \cup [kind : {"assign"}, scope : Roots, stack : names] :
            task' = [task EXCEPT ![p] = t]
      BY <2>1
    <2>4. t # NoTask => /\ t \in Tasks /\ t.kind = "assign" /\ t.stack \in names
      BY <2>2, <2>3 DEF Tasks, Scopes
    <2>5. Owned' /\ pc'[p] = "save" /\ \A q \in Procs : q # p => pc'[q] = pc[q]
      BY <1>1, <2>1, OwnersKept DEF Outside
    <2>6. TypeOK' /\ task'[p] = t /\ proposed'[p] = names
      BY <1>1, <2>1, <2>2, <2>3, <2>4 DEF TypeOK, Goto, Locations
    <2>7. Survive'
      BY <1>1, SurviveSame DEF Outside, Writing, Restoring
    <2>8. Place(p)'
      BY <2>1, <2>4, <2>5, <2>6 DEF Place, Tasked, Due, Prepares, Writes, Preparing, Writing,
                                    Restoring, Cleaning, Known, Mapped
    <2>. QED
      BY <1>1, <2>5, <2>6, <2>7, <2>8, OneMoves DEF IInv
  <1>. QED
    BY <1>2, <1>3

LEMMA LockDraftKeeps ==
    ASSUME IInv, NEW p \in Procs, LockDraft(p)
    PROVE  IInv'
  <1>. USE DEF LockDraft, Take, journal, stores, counters
  <1>1. owner = NoOwner /\ owner' = p /\ TypeOK /\ pc[p] \in Outside
    BY DEF IInv, Outside
  <1>2. Owned' /\ pc'[p] = "save" /\ \A q \in Procs : q # p => pc'[q] = pc[q]
    BY <1>1, OwnersKept DEF Outside
  <1>3. PICK t, names :
          /\ task' = [task EXCEPT ![p] = t]
          /\ proposed' = [proposed EXCEPT ![p] = names]
          /\ \/ t = NoTask /\ names = seen[p]
             \/ /\ t \in [kind : {"assign"}, scope : Roots, stack : Stacks]
                /\ names = seen[p] \cup {t.stack}
    OBVIOUS
  <1>4. t # NoTask => /\ t \in Tasks /\ t.kind = "assign" /\ t.stack \in names
    BY <1>3 DEF Tasks, Scopes
  <1>5. names \in SUBSET Stacks /\ seen[p] \subseteq names
    BY <1>1, <1>3 DEF TypeOK
  <1>6. TypeOK' /\ task'[p] = t /\ proposed'[p] = names
    BY <1>1, <1>3, <1>4, <1>5 DEF TypeOK, Goto, Locations
  <1>7. Survive'
    BY <1>1, SurviveSame DEF Outside, Writing, Restoring
  <1>8. Place(p)'
    BY <1>2, <1>4, <1>5, <1>6 DEF Place, Tasked, Due, Prepares, Writes, Preparing, Writing,
                                  Restoring, Cleaning
  <1>. QED
    BY <1>1, <1>2, <1>6, <1>7, <1>8, OneMoves DEF IInv

LEMMA SaveKeeps ==
    ASSUME IInv, NEW p \in Procs, Save(p) \/ InterruptSave(p)
    PROVE  IInv'
  <1>. USE DEF journal, counters
  <1>1. owner = p /\ TypeOK /\ pc[p] = "save" /\ Tasked(p)
    BY DEF IInv, Owned, Outside, Save, InterruptSave, Place
  <1>2. stacks' \in SUBSET Stacks /\ stacksOld' \in {Settled} \cup SUBSET Stacks
    BY <1>1 DEF TypeOK, RecoveredStacks, Save, InterruptSave
  <1>3. CASE End(p)
    BY <1>1, <1>2, <1>3, EndKeeps DEF Writing, Restoring, TypeOK, Save, InterruptSave
  <1>4. CASE Save(p) /\ ~End(p)
    <2>1. /\ stacks' = proposed[p] /\ task[p] # NoTask /\ Goto(p, "recover")
          /\ seen' = [seen EXCEPT ![p] = {}] /\ proposed' = [proposed EXCEPT ![p] = {}]
          /\ UNCHANGED <<owner, task, candidate, after, journal, counters>>
      BY <1>4 DEF Save
    <2>2. Owned' /\ pc'[p] = "recover" /\ \A q \in Procs : q # p => pc'[q] = pc[q]
      BY <1>1, <2>1, OwnersKept DEF Outside
    <2>3. TypeOK'
      BY <1>1, <1>2, <2>1 DEF TypeOK, Goto, Locations
    <2>4. Survive'
      BY <1>1, <2>1, SurviveSame DEF Writing, Restoring
    <2>5. Place(p)'
      BY <1>1, <2>1, <2>2 DEF Place, Tasked, Due, Prepares, Writes, Preparing, Writing,
                              Restoring, Cleaning
    <2>. QED
      BY <1>1, <2>2, <2>3, <2>4, <2>5, OneMoves DEF IInv
  <1>. QED
    BY <1>3, <1>4 DEF InterruptSave

-----------------------------------------------------------------------------
(* The journal                                                             *)

LEMMA RecoverKeeps ==
    ASSUME IInv, NEW p \in Procs, Recover(p)
    PROVE  IInv'
  <1>. USE DEF Recover, journal, stores, counters
  <1>1. owner = p /\ TypeOK /\ pc[p] = "recover" /\ Place(p) /\ dir \in survivors
    BY DEF IInv, Owned, Outside, TypeOK
  <1>2. CASE End(p)
    BY <1>1, <1>2, EndKeeps DEF Writing, Restoring, TypeOK
  <1>3. CASE ~End(p)
    <2>1. ~(dir.marker = "pending" /\ dir.copy = NoCopy)
          /\ \/ Goto(p, "restore") /\ dir.marker = "pending"
             \/ Goto(p, "dropCopy") /\ dir.marker # "pending"
             \/ Goto(p, "read") /\ dir.marker # "pending"
          /\ UNCHANGED <<owner, locals>>
      BY <1>3
    <2>2. PICK location \in {"restore", "dropCopy", "read"} :
            Goto(p, location) /\ (location = "restore" <=> dir.marker = "pending")
      BY <2>1
    <2>3. Owned' /\ pc'[p] = location /\ \A q \in Procs : q # p => pc'[q] = pc[q]
      BY <1>1, <2>1, <2>2, OwnersKept DEF Outside
    <2>4. TypeOK'
      BY <1>1, <2>1, <2>2 DEF TypeOK, Goto, Locations, locals, Restoring, Cleaning
    <2>5. Survive'
      BY <1>1, SurviveSame DEF Writing, Restoring
    <2>6. Recovered(dir) \in agreed /\ Disjoint(Recovered(dir)) /\ dir \in Directories
      BY <1>1, OneWrites DEF Writing, Restoring, Sound
    <2>7. Place(p)'
      <3>1. Tasked(p)'
        BY <1>1, <2>1, <2>3 DEF Place, Tasked, Due, locals, Known, Mapped
      <3>2. Prepares(p)'
        BY <2>1, <2>2, <2>3 DEF Prepares, Preparing, Writing, Cleaning
      <3>3. Writes(p)'
        BY <2>1, <2>2, <2>3, <2>6 DEF Writes, Writing, Restoring, Recovered, Directories
      <3>. QED
        BY <3>1, <3>2, <3>3 DEF Place
    <2>. QED
      BY <1>1, <2>3, <2>4, <2>5, <2>7, OneMoves DEF IInv
  <1>. QED
    BY <1>2, <1>3

LEMMA ReadKeeps ==
    ASSUME IInv, NEW p \in Procs, Read(p)
    PROVE  IInv'
  <1>. USE DEF Read, Revise, stores, counters
  <1>1. /\ owner = p /\ TypeOK /\ pc[p] = "read" /\ Place(p) /\ dir \in survivors
        /\ dir \in Directories /\ dir.marker # "pending"
    BY DEF IInv, Owned, Outside, TypeOK, Place, Prepares
  <1>2. \A d \in survivors : Recovered(d) \in agreed /\ Sound(d) /\ d \in Directories
    BY <1>1, OneWrites DEF Writing, Restoring
  <1>3. /\ dir.doc \in Documents /\ Recovered(dir) = dir.doc /\ Disjoint(dir.doc)
        /\ dir.doc \in agreed
    BY <1>1, <1>2 DEF Directories, Recovered, Sound
  <1>4. agreed' \subseteq Documents /\ dir.doc \in agreed'
          /\ \A d \in survivors : Recovered(d) \in agreed'
    BY <1>1, <1>2, <1>3 DEF TypeOK
  <1>5. Survive'
    BY <1>2, <1>4 DEF Survive, Sound, Recovered
  <1>6. CASE End(p)
    <2>1. TypeOK'
      BY <1>1, <1>4, <1>6, EndsClean DEF TypeOK
    <2>. QED
      BY <1>1, <1>5, <1>6, <2>1, EndsClean DEF IInv
  <1>7. CASE ~End(p)
    <2>1. /\ Accepted(dir.doc, task[p])
          /\ candidate' = [candidate EXCEPT ![p] = Changed(dir.doc, task[p])]
          /\ task' = [task EXCEPT ![p] = NoTask]
          /\ Goto(p, "copy")
          /\ UNCHANGED <<owner, seen, proposed, after>>
      BY <1>7
    <2>2. /\ task[p] \in Tasks
          /\ task[p].kind = "normal" => task[p].scope = Normal
          /\ task[p].kind = "assign" => task[p].stack \in stacks
      BY <1>1 DEF Place, Tasked, Due
    <2>3. Changed(dir.doc, task[p]) \in Documents /\ Disjoint(Changed(dir.doc, task[p]))
            /\ (Known(dir.doc, stacks) => Known(Changed(dir.doc, task[p]), stacks))
      BY <1>3, <2>1, <2>2, ChangeIsSound, ChangeIsKnown
    <2>4. Owned' /\ pc'[p] = "copy" /\ \A q \in Procs : q # p => pc'[q] = pc[q]
      BY <1>1, <2>1, OwnersKept DEF Outside
    <2>5. TypeOK' /\ candidate'[p] = Changed(dir.doc, task[p])
      BY <1>1, <1>4, <2>1, <2>3 DEF TypeOK, Goto, Locations, Preparing
    <2>6. Place(p)'
      BY <1>1, <2>3, <2>4, <2>5 DEF Place, Tasked, Due, Prepares, Writes, Preparing, Writing,
                                    Restoring, Cleaning, Disjoint, Known, Mapped
    <2>. QED
      BY <1>1, <1>5, <2>4, <2>5, <2>6, OneMoves DEF IInv
  <1>. QED
    BY <1>6, <1>7

\* A change of the directory adds to what a power failure may leave.
LEMMA SurviveAdded ==
    ASSUME IInv, NEW p \in Procs, owner = p, survivors' = survivors \cup {dir'},
           UNCHANGED <<agreed, candidate>>,
           pc[p] \in Writing \cup Restoring => pc'[p] \in Writing \cup Restoring,
           Sound(dir'), \/ Recovered(dir') \in agreed
                        \/ pc'[p] \in Writing \cup Restoring /\ Recovered(dir') = candidate[p]
    PROVE  Survive'
  <1>1. ASSUME NEW d \in survivors' PROVE (Sound(d) /\ Recovered(d) \in agreed \cup Candidates)'
    <2>1. CASE d \in survivors
      BY <2>1, OneWrites DEF Candidates, Sound, Recovered
    <2>2. CASE d = dir'
      BY <2>2 DEF Candidates, Sound, Recovered
    <2>. QED
      BY <2>1, <2>2
  <1>. QED
    BY <1>1 DEF Survive

\* A sync leaves only the directory as it is.
LEMMA SurviveSynced ==
    ASSUME IInv, NEW p \in Procs, owner = p, survivors' = {dir}, dir' = dir,
           \/ Recovered(dir) \in agreed'
           \/ pc'[p] \in Writing \cup Restoring /\ Recovered(dir) = candidate'[p]
    PROVE  Survive'
  <1>1. Sound(dir)
    BY OneWrites DEF IInv, TypeOK
  <1>. QED
    BY <1>1 DEF Survive, Candidates, Sound, Recovered

\* Where each change of the directory leads, and each sync.
LEMMA Thens ==
    /\ DOMAIN Then = {"copy", "mark", "replace", "commit", "markAgain", "restore", "finish",
                      "dropCopy", "dropMarker"}
    /\ Then["copy"] = "syncCopy" /\ Then["mark"] = "syncMark" /\ Then["replace"] = "syncDoc"
    /\ Then["commit"] = "syncCommit" /\ Then["markAgain"] = "restore"
    /\ Then["restore"] = "syncRestore" /\ Then["finish"] = "syncFinish"
    /\ Then["dropCopy"] = "dropMarker" /\ Then["dropMarker"] = "syncClean"
  BY DEF Then

LEMMA ThensSynced ==
    /\ DOMAIN ThenSynced = {"syncCopy", "syncMark", "syncDoc", "syncCommit", "syncRestore",
                            "syncFinish"}
    /\ ThenSynced["syncCopy"] = "mark" /\ ThenSynced["syncMark"] = "replace"
    /\ ThenSynced["syncDoc"] = "commit" /\ ThenSynced["syncCommit"] = "dropCopy"
    /\ ThenSynced["syncRestore"] = "finish" /\ ThenSynced["syncFinish"] = "dropCopy"
  BY DEF ThenSynced

LEMMA StepKeeps ==
    ASSUME IInv, NEW p \in Procs, Step(p)
    PROVE  IInv'
  <1>. USE DEF stores, counters
  <1>1. /\ pc[p] \in DOMAIN Then /\ Goto(p, Then[pc[p]]) /\ dir' = Change(p)
        /\ survivors' = survivors \cup {dir'}
        /\ UNCHANGED <<agreed, stacks, stacksOld, owner, task, seen, proposed, candidate,
                       after, errors, crashes>>
    BY DEF Step, locals
  <1>2. /\ owner = p /\ TypeOK /\ Place(p) /\ dir \in survivors /\ dir \in Directories
    BY <1>1, Thens DEF IInv, Owned, Outside, TypeOK
  <1>3. Then[pc[p]] \in Locations \ Outside
    BY <1>1, Thens DEF Locations, Outside, Preparing, Writing, Restoring, Cleaning
  <1>4. Owned' /\ pc'[p] = Then[pc[p]] /\ \A q \in Procs : q # p => pc'[q] = pc[q]
    BY <1>1, <1>2, <1>3, OwnersKept
  <1>5. /\ dir.doc \in Documents /\ dir.copy \in {NoCopy} \cup Documents
        /\ dir.marker \in {"none", "pending", "committed"}
    BY <1>2 DEF Directories
  <1>6. /\ Sound(dir)
        /\ \/ Recovered(dir) \in agreed
           \/ pc[p] \in Writing \cup Restoring /\ Recovered(dir) = candidate[p]
    BY <1>2, OneWrites
  <1>7. Tasked(p)'
    BY <1>1, <1>2, <1>4, Thens DEF Place, Tasked, Due, Restoring, Cleaning
  <1>. USE DEF Place, Prepares, Writes, Preparing, Writing, Restoring, Cleaning
  <1>8. dir' \in Directories /\ Prepares(p)' /\ Writes(p)'
    <2>1. CASE pc[p] = "copy"
      <3>1. dir' = [dir EXCEPT !.copy = dir.doc] /\ pc'[p] = "syncCopy"
        BY <1>1, <1>4, <2>1, Thens DEF Change
      <3>. QED
        BY <1>1, <1>2, <1>5, <2>1, <3>1 DEF Directories, Known, Mapped, Disjoint
    <2>2. CASE pc[p] \in {"mark", "markAgain"}
      <3>1. dir' = [dir EXCEPT !.marker = "pending"]
              /\ pc'[p] = IF pc[p] = "mark" THEN "syncMark" ELSE "restore"
        BY <1>1, <1>4, <2>2, Thens DEF Change
      <3>2. pc[p] = "mark" => dir.doc \in agreed /\ Disjoint(dir.doc)
        BY <1>2, <1>6 DEF Recovered, Sound
      <3>. QED
        BY <1>1, <1>2, <1>5, <2>2, <3>1, <3>2 DEF Directories, Known, Mapped, Disjoint
    <2>3. CASE pc[p] = "replace"
      <3>1. dir' = [dir EXCEPT !.doc = candidate[p]] /\ pc'[p] = "syncDoc"
        BY <1>1, <1>4, <2>3, Thens DEF Change
      <3>. QED
        BY <1>1, <1>2, <1>5, <2>3, <3>1 DEF Directories, Known, Mapped, Disjoint
    <2>4. CASE pc[p] \in {"commit", "finish"}
      <3>1. dir' = [dir EXCEPT !.marker = "committed"]
              /\ pc'[p] = IF pc[p] = "commit" THEN "syncCommit" ELSE "syncFinish"
        BY <1>1, <1>4, <2>4, Thens DEF Change
      <3>. QED
        BY <1>1, <1>2, <1>5, <2>4, <3>1 DEF Directories, Known, Mapped, Disjoint
    <2>5. CASE pc[p] = "restore"
      <3>1. dir' = [dir EXCEPT !.doc = dir.copy] /\ pc'[p] = "syncRestore"
        BY <1>1, <1>4, <2>5, Thens DEF Change
      <3>. QED
        BY <1>1, <1>2, <1>5, <2>5, <3>1 DEF Directories, Known, Mapped, Disjoint
    <2>6. CASE pc[p] = "dropCopy"
      <3>1. dir' = [dir EXCEPT !.copy = NoCopy] /\ pc'[p] = "dropMarker"
        BY <1>1, <1>4, <2>6, Thens DEF Change
      <3>. QED
        BY <1>1, <1>2, <1>5, <2>6, <3>1 DEF Directories, Known, Mapped, Disjoint
    <2>7. CASE pc[p] = "dropMarker"
      <3>1. dir' = [dir EXCEPT !.marker = "none"] /\ pc'[p] = "syncClean"
        BY <1>1, <1>4, <2>7, Thens DEF Change
      <3>. QED
        BY <1>1, <1>2, <1>5, <2>7, <3>1 DEF Directories, Known, Mapped, Disjoint
    <2>. QED
      BY <1>1, <2>1, <2>2, <2>3, <2>4, <2>5, <2>6, <2>7, Thens
  <1>9. Place(p)'
    BY <1>7, <1>8
  <1>10. pc[p] \in Writing \cup Restoring => pc'[p] \in Writing \cup Restoring
    BY <1>1, <1>4, Thens
  <1>11. /\ Sound(dir')
         /\ \/ Recovered(dir') \in agreed
            \/ pc'[p] \in Writing \cup Restoring /\ Recovered(dir') = candidate[p]
    <2>1. CASE pc[p] \in {"copy", "dropCopy", "dropMarker"}
      <3>1. dir'.doc = dir.doc /\ dir'.marker # "pending" /\ dir.marker # "pending"
        BY <1>1, <1>2, <1>5, <2>1 DEF Change, Directories
      <3>. QED
        BY <1>6, <2>1, <3>1 DEF Sound, Recovered, Disjoint, Mapped
    <2>2. CASE pc[p] \in {"mark", "markAgain", "replace", "restore"}
      <3>1. dir'.copy = dir.copy /\ dir'.marker = "pending"
        BY <1>1, <1>2, <1>5, <2>2 DEF Change, Directories
      <3>2. dir.copy \in Documents /\ dir.copy \in agreed /\ Disjoint(dir.copy)
        BY <1>2, <1>6, <2>2, <1>5 DEF Recovered, Sound
      <3>. QED
        BY <3>1, <3>2, NoCopyAssumption DEF Sound, Recovered, Disjoint, Mapped
    <2>3. CASE pc[p] \in {"commit", "finish"}
      <3>1. dir'.doc = dir.doc /\ dir'.marker = "committed"
              /\ pc'[p] \in {"syncCommit", "syncFinish"}
        BY <1>1, <1>4, <1>5, <2>3, Thens DEF Change, Directories
      <3>2. Disjoint(dir.doc) /\ (dir.doc = candidate[p] \/ dir.doc \in agreed)
        BY <1>2, <2>3
      <3>. QED
        BY <3>1, <3>2 DEF Sound, Recovered, Disjoint, Mapped
    <2>. QED
      BY <1>1, <2>1, <2>2, <2>3, Thens
  <1>12. Survive'
    BY <1>1, <1>2, <1>10, <1>11, SurviveAdded
  <1>13. TypeOK'
    BY <1>1, <1>2, <1>3, <1>8 DEF TypeOK, Goto
  <1>. QED
    BY <1>2, <1>4, <1>9, <1>12, <1>13, OneMoves DEF IInv

LEMMA SyncKeeps ==
    ASSUME IInv, NEW p \in Procs, Sync(p)
    PROVE  IInv'
  <1>. USE DEF stores, counters
  <1>1. /\ pc[p] \in DOMAIN ThenSynced /\ Goto(p, ThenSynced[pc[p]])
        /\ survivors' = {dir} /\ dir' = dir
        /\ IF pc[p] = "syncCommit"
           THEN /\ after' = [after EXCEPT ![p] = "end"]
                /\ candidate' = [candidate EXCEPT ![p] = NoCopy]
           ELSE UNCHANGED <<after, candidate>>
        /\ agreed' = IF pc[p] \in {"syncCommit", "syncFinish"} THEN {dir.doc} ELSE agreed
        /\ UNCHANGED <<stacks, stacksOld, owner, task, seen, proposed, errors, crashes>>
    BY DEF Sync
  <1>2. /\ owner = p /\ TypeOK /\ Place(p) /\ dir \in survivors /\ dir \in Directories
    BY <1>1, ThensSynced DEF IInv, Owned, Outside, TypeOK
  <1>3. ThenSynced[pc[p]] \in Locations \ Outside
    BY <1>1, ThensSynced DEF Locations, Outside, Preparing, Writing, Restoring, Cleaning
  <1>4. Owned' /\ pc'[p] = ThenSynced[pc[p]] /\ \A q \in Procs : q # p => pc'[q] = pc[q]
    BY <1>1, <1>2, <1>3, OwnersKept
  <1>5. dir.doc \in Documents
    BY <1>2 DEF Directories
  <1>6. TypeOK'
    BY <1>1, <1>2, <1>3, <1>5 DEF TypeOK, Goto
  <1>7. pc[p] = "syncCommit" => after'[p] = "end"
    BY <1>1, <1>2 DEF TypeOK
  <1>8. pc[p] # "syncCommit" => after'[p] = after[p] /\ candidate'[p] = candidate[p]
    BY <1>1
  <1>. USE DEF Preparing, Writing, Restoring, Cleaning
  <1>9. Place(p)'
    <2>1. Tasked(p)'
      BY <1>1, <1>2, <1>4, <1>7, <1>8, ThensSynced DEF Place, Tasked, Due
    <2>2. Prepares(p)'
      BY <1>1, <1>2, <1>4, <1>8, ThensSynced DEF Place, Prepares, Known, Mapped, Disjoint
    <2>3. Writes(p)'
      <3>1. pc[p] \in {"syncCopy", "syncCommit", "syncFinish"} => pc'[p] \in {"mark", "dropCopy"}
        BY <1>1, <1>4, ThensSynced
      <3>2. pc[p] \in {"syncMark", "syncDoc", "syncRestore"} =>
              /\ agreed' = agreed
              /\ pc'[p] = IF pc[p] = "syncMark" THEN "replace"
                          ELSE IF pc[p] = "syncDoc" THEN "commit" ELSE "finish"
        BY <1>1, <1>4, ThensSynced
      <3>. QED
        BY <1>1, <1>2, <1>8, <3>1, <3>2, ThensSynced DEF Place, Writes, Disjoint, Mapped
    <2>. QED
      BY <2>1, <2>2, <2>3 DEF Place
  <1>10. \/ Recovered(dir) \in agreed'
         \/ pc'[p] \in Writing \cup Restoring /\ Recovered(dir) = candidate'[p]
    <2>1. CASE pc[p] \in {"syncCommit", "syncFinish"}
      BY <1>1, <1>2, <2>1 DEF Recovered, Place, Prepares
    <2>2. CASE pc[p] = "syncCopy"
      BY <1>1, <1>2, <2>2, OneWrites
    <2>3. CASE pc[p] \in {"syncMark", "syncDoc", "syncRestore"}
      BY <1>1, <1>2, <2>3 DEF Recovered, Place, Writes
    <2>. QED
      BY <1>1, <2>1, <2>2, <2>3, ThensSynced
  <1>11. Survive'
    BY <1>1, <1>2, <1>10, SurviveSynced
  <1>. QED
    BY <1>2, <1>4, <1>6, <1>9, <1>11, OneMoves DEF IInv

\* The journal is cleaned up, or cannot be.
LEMMA CleanUpKeeps ==
    ASSUME IInv, NEW p \in Procs, SyncClean(p) \/ CleanUpFails(p)
    PROVE  IInv'
  <1>. USE DEF stores, counters
  <1>1. /\ pc[p] \in Cleaning /\ CleanedUp(p)
        /\ survivors' \in {survivors, {dir}}
        /\ UNCHANGED <<dir, agreed, stacks, stacksOld>>
        /\ errors' \in Nat /\ crashes' \in Nat
    BY DEF SyncClean, CleanUpFails, Fails, Cleaning, journal, IInv, TypeOK
  <1>2. /\ owner = p /\ TypeOK /\ Place(p) /\ dir \in survivors
        /\ pc[p] \notin Writing \cup Restoring /\ survivors' \subseteq survivors
    BY <1>1 DEF IInv, Owned, Outside, TypeOK, Cleaning, Writing, Restoring
  <1>3. Survive'
    BY <1>1, <1>2, SurviveSame
  <1>4. CASE End(p)
    <2>1. TypeOK'
      BY <1>1, <1>2, <1>4, EndsClean DEF TypeOK
    <2>. QED
      BY <1>2, <1>3, <1>4, <2>1, EndsClean DEF IInv
  <1>5. CASE ~End(p)
    <2>1. after[p] = "read" /\ Goto(p, "read") /\ UNCHANGED <<owner, locals>>
      BY <1>1, <1>2, <1>5 DEF CleanedUp, TypeOK
    <2>2. Owned' /\ pc'[p] = "read" /\ \A q \in Procs : q # p => pc'[q] = pc[q]
      BY <1>2, <2>1, OwnersKept DEF Outside
    <2>3. TypeOK'
      BY <1>1, <1>2, <2>1 DEF TypeOK, Goto, Locations, locals
    <2>4. Place(p)'
      BY <1>1, <1>2, <2>1, <2>2 DEF Place, Tasked, Due, Prepares, Writes, Preparing, Writing,
                                    Restoring, Cleaning, locals
    <2>. QED
      BY <1>2, <1>3, <2>2, <2>3, <2>4, OneMoves DEF IInv
  <1>. QED
    BY <1>4, <1>5

LEMMA WriteFailsKeeps ==
    ASSUME IInv, NEW p \in Procs, WriteFails(p)
    PROVE  IInv'
  <1>. USE DEF WriteFails, Fails, journal, stores
  <1>1. owner = p /\ TypeOK /\ Place(p)
    BY DEF IInv, Owned, Outside, Preparing, Writing
  <1>2. Owned' /\ \A q \in Procs : q # p => pc'[q] = pc[q]
    BY <1>1, OwnersKept DEF Outside
  <1>3. pc'[p] = IF pc[p] \in Preparing THEN "dropCopy" ELSE "markAgain"
    BY <1>1 DEF TypeOK, Goto
  <1>4. TypeOK' /\ after'[p] = "end"
    BY <1>1 DEF TypeOK, Goto, Locations, Restoring, Cleaning
  <1>5. Survive'
    BY <1>1, <1>3, SurviveSame DEF Preparing, Writing, Restoring
  <1>6. Place(p)'
    BY <1>1, <1>3, <1>4 DEF Place, Tasked, Due, Prepares, Writes, Preparing, Writing,
                            Restoring, Cleaning
  <1>. QED
    BY <1>1, <1>2, <1>4, <1>5, <1>6, OneMoves DEF IInv

LEMMA RestoreFailsKeeps ==
    ASSUME IInv, NEW p \in Procs, RestoreFails(p) \/ Kill(p) \/ GiveUp(p)
    PROVE  IInv'
  <1>. USE DEF stores
  <1>1. /\ TypeOK /\ candidate[p] \in {NoCopy} \cup Documents
        /\ owner \in {p, NoOwner} \/ pc[p] \in Outside
    BY DEF IInv, Owned, TypeOK
  <1>2. CASE RestoreFails(p)
    <2>1. owner = p
      BY <1>2 DEF RestoreFails, IInv, Owned, Outside, Restoring
    <2>. QED
      BY <1>1, <1>2, <2>1, EndKeeps DEF RestoreFails, Fails, TypeOK, Writing, Restoring
  <1>3. CASE Kill(p) /\ owner = p
    BY <1>1, <1>3, EndKeeps DEF Kill, TypeOK
  <1>4. CASE (Kill(p) \/ GiveUp(p)) /\ owner # p
    <2>1. /\ pc[p] \in Outside /\ pc' = [pc EXCEPT ![p] = "idle"] /\ owner' = owner
          /\ UNCHANGED <<dir, survivors, agreed, stacks, stacksOld, errors>>
          /\ crashes' \in Nat
      BY <1>1, <1>4 DEF Kill, GiveUp, End, Goto, IInv, Owned, Outside, Writing, Restoring,
                        TypeOK, journal, counters
    <2>2. \A q \in Procs : q # p =>
            /\ pc'[q] = pc[q] /\ task'[q] = task[q]
            /\ seen'[q] = seen[q] /\ proposed'[q] = proposed[q]
            /\ candidate'[q] = candidate[q] /\ after'[q] = after[q]
      BY <1>1, <1>4, <2>1 DEF Kill, GiveUp, End, TypeOK
    <2>3. TypeOK'
      BY <1>1, <1>4, <2>1 DEF Kill, GiveUp, End, Goto, TypeOK, Locations
    <2>4. Owned' /\ pc'[p] \in Outside
      BY <1>1, <1>4, <2>1, <2>2 DEF IInv, Owned, Outside, TypeOK
    <2>5. ASSUME NEW q \in Procs PROVE Place(q)'
      <3>1. CASE q = p
        <4>1. FreeOutside'
          BY OutsideIsFree, PTL
        <4>. QED
          BY <2>4, <3>1, <4>1 DEF FreeOutside
      <3>2. CASE q # p
        BY <2>1, <2>2, <3>2 DEF IInv, Place, Tasked, Due, Prepares, Writes, Known, Mapped,
                                Disjoint
      <3>. QED
        BY <3>1, <3>2
    <2>6. Survive'
      <3>1. Candidates \subseteq Candidates'
        BY <2>1, <2>2 DEF Candidates, Outside, Writing, Restoring
      <3>. QED
        BY <2>1, <3>1 DEF IInv, Survive, Sound, Recovered
    <2>. QED
      BY <2>3, <2>4, <2>5, <2>6 DEF IInv
  <1>5. GiveUp(p) => owner # p
    BY DEF GiveUp, IInv, Owned, Outside
  <1>. QED
    BY <1>2, <1>3, <1>4, <1>5

LEMMA PowerLossKeeps ==
    ASSUME IInv, PowerLoss
    PROVE  IInv'
  <1>. USE DEF PowerLoss, stores
  <1>1. TypeOK /\ dir' \in survivors /\ Sound(dir') /\ dir' \in Directories
    BY DEF IInv, TypeOK, Survive
  <1>2. Recovered(dir') \in Documents
    BY <1>1, RecoveredIsDocument
  <1>3. TypeOK'
    BY <1>1, <1>2 DEF TypeOK, Locations
  <1>4. Owned' /\ \A p \in Procs : pc'[p] \in Outside
    BY ContextsAssumption DEF Owned, Outside
  <1>5. Survive'
    BY <1>1 DEF Survive, Sound, Recovered
  <1>6. FreeOutside'
    BY OutsideIsFree, PTL
  <1>. QED
    BY <1>3, <1>4, <1>5, <1>6 DEF IInv, FreeOutside

LEMMA Kept == IInv /\ [Next]_vars => IInv'
  <1> SUFFICES ASSUME IInv, [Next]_vars PROVE IInv'
    OBVIOUS
  <1>1. CASE UNCHANGED vars
    BY <1>1 DEF vars, journal, stores, locals, counters, IInv, TypeOK, Owned, Survive,
                Candidates, Sound, Recovered, Place, Tasked, Due, Prepares, Writes, Known,
                Mapped, Disjoint
  <1>2. CASE PowerLoss
    BY <1>2, PowerLossKeeps
  <1>3. ASSUME NEW p \in Procs,
               \/ Lock(p) \/ Wizard(p) \/ Recommend(p)
               \/ LockSave(p) \/ LockDraft(p) \/ GiveUp(p) \/ Save(p) \/ InterruptSave(p)
               \/ Recover(p) \/ Read(p) \/ Step(p) \/ Sync(p) \/ SyncClean(p)
               \/ WriteFails(p) \/ CleanUpFails(p) \/ RestoreFails(p) \/ Kill(p)
        PROVE  IInv'
    BY <1>3, LockKeeps, WizardKeeps, RecommendKeeps, LockSaveKeeps, LockDraftKeeps,
       SaveKeeps, RecoverKeeps, ReadKeeps, StepKeeps, SyncKeeps, CleanUpKeeps, WriteFailsKeeps, RestoreFailsKeeps
  <1>. QED
    BY <1>1, <1>2, <1>3 DEF Next

LEMMA Always == Spec => []IInv
  BY Starts, Kept, PTL DEF Spec

-----------------------------------------------------------------------------
(* The theorems                                                            *)

\* For any processes, scopes and stacks, and any number of kills, power
\* failures and failing calls: whatever is left of the directory can be
\* recovered, to the document before or after a write
\* (_write_context_document, _recover_context_transaction).
THEOREM WritesAreAtomic == Spec => []WritesAtomic
  <1>1. IInv => WritesAtomic
    BY DEF IInv, Survive, Sound, Candidates, WritesAtomic
  <1>. QED
    BY <1>1, Always, PTL

\* For any processes and scopes: however the commands run side by side, no
\* project that is recovered lies inside another one
\* (configure_project_context_locked).
THEOREM RootsStayDisjoint == Spec => []RootsDisjoint
  <1>1. IInv => RootsDisjoint
    BY DEF IInv, Survive, Sound, RootsDisjoint
  <1>. QED
    BY <1>1, Always, PTL

\* What a step does to the document and to the stacks.
LEMMA DocumentsWritten ==
    ASSUME IInv, Next, dir'.doc # dir.doc, ~DocumentBack
    PROVE  \E p \in Procs : /\ pc[p] = "replace" /\ dir'.doc = candidate[p]
                            /\ UNCHANGED stacks
  <1>1. \A d \in survivors : dir'.doc # d.doc /\ dir'.doc # d.copy
    BY DEF DocumentBack
  <1>2. dir \in survivors /\ dir \in Directories
    BY DEF IInv, TypeOK
  <1>3. PICK p \in Procs : Step(p)
    <2>1. ~PowerLoss
      BY <1>1 DEF PowerLoss
    <2>2. ASSUME NEW p \in Procs,
                 \/ Lock(p) \/ Wizard(p) \/ Recommend(p)
                 \/ LockSave(p) \/ LockDraft(p) \/ GiveUp(p) \/ Save(p) \/ InterruptSave(p)
                 \/ Recover(p) \/ Read(p) \/ Sync(p) \/ SyncClean(p)
                 \/ WriteFails(p) \/ CleanUpFails(p) \/ RestoreFails(p) \/ Kill(p)
          PROVE  FALSE
      BY <2>2 DEF Lock, Wizard, Recommend, LockSave, LockDraft, GiveUp, Save, InterruptSave,
                  Recover, Read, Revise, Sync, SyncClean, WriteFails, CleanUpFails, RestoreFails, Kill, journal
    <2>. QED
      BY <2>1, <2>2 DEF Next
  <1>4. pc[p] \in DOMAIN Then /\ dir' = Change(p) /\ UNCHANGED stacks
    BY <1>3 DEF Step, stores
  <1>5. CASE pc[p] = "replace"
    BY <1>2, <1>4, <1>5 DEF Change, Directories
  <1>6. CASE pc[p] = "restore"
    BY <1>1, <1>2, <1>4, <1>6 DEF Change, Directories
  <1>7. CASE pc[p] \notin {"replace", "restore"}
    BY <1>2, <1>4, <1>7, Thens DEF Change, Directories
  <1>. QED
    BY <1>5, <1>6, <1>7

LEMMA StacksWritten ==
    ASSUME IInv, Next, stacks' # stacks, ~StacksBack, Known(dir.doc, stacks)
    PROVE  Known(dir.doc, stacks') /\ dir' = dir
  <1>1. PICK p \in Procs : Wizard(p) \/ Recommend(p) \/ Save(p) \/ InterruptSave(p)
    <2>1. ~PowerLoss
      BY DEF PowerLoss, stores
    <2>2. ASSUME NEW p \in Procs,
                 \/ Lock(p) \/ LockSave(p) \/ LockDraft(p) \/ GiveUp(p)
                 \/ Recover(p) \/ Read(p) \/ Step(p) \/ Sync(p) \/ SyncClean(p)
                 \/ WriteFails(p) \/ CleanUpFails(p) \/ RestoreFails(p) \/ Kill(p)
          PROVE  FALSE
      BY <2>2 DEF Lock, LockSave, LockDraft, GiveUp, Recover, Read, Revise, Step, Sync,
                  SyncClean, WriteFails, CleanUpFails, RestoreFails, Kill, stores
    <2>. QED
      BY <2>1, <2>2 DEF Next
  <1>2. dir' = dir
    BY <1>1 DEF Wizard, Recommend, Save, InterruptSave, journal
  <1>3. Known(dir.doc, RecoveredStacks)
    BY DEF RecoveredStacks, StacksBack
  <1>4. CASE stacks' = RecoveredStacks
    BY <1>2, <1>3, <1>4
  <1>5. CASE stacks' # RecoveredStacks
    <2>1. pc[p] = "save" /\ RecoveredStacks = seen[p] /\ stacks' = proposed[p]
      BY <1>1, <1>5 DEF Wizard, Recommend, Save, InterruptSave
    <2>2. Known(dir.doc, proposed[p]) \/ seen[p] \subseteq proposed[p]
      BY <2>1 DEF IInv, Place, Tasked
    <2>. QED
      BY <1>2, <1>3, <2>1, <2>2 DEF Known
  <1>. QED
    BY <1>4, <1>5

\* For any processes, scopes and stacks: a scope comes to name a stack that is
\* not there only when a crash or a recovery brings something back
\* (_apply_configuration_draft, assign_stack_to_context).
THEOREM ReferencesAreKept == Spec => ReferencesKept
  <1>1. ASSUME IInv, [Next]_vars, Known(dir.doc, stacks), ~DocumentBack, ~StacksBack
        PROVE  Known(dir.doc, stacks)'
    <2>1. CASE dir'.doc = dir.doc /\ stacks' = stacks
      BY <1>1, <2>1 DEF Known, Mapped
    <2>2. CASE dir'.doc # dir.doc
      <3>1. Next
        BY <1>1, <2>2 DEF vars, journal
      <3>2. PICK p \in Procs : pc[p] = "replace" /\ dir'.doc = candidate[p] /\ UNCHANGED stacks
        BY <1>1, <2>2, <3>1, DocumentsWritten
      <3>3. Known(candidate[p], stacks)
        BY <1>1, <3>2 DEF IInv, Place, Prepares
      <3>. QED
        BY <3>2, <3>3 DEF Known, Mapped
    <2>3. CASE stacks' # stacks
      <3>1. Next
        BY <1>1, <2>3 DEF vars, stores
      <3>2. Known(dir.doc, stacks') /\ dir' = dir
        BY <1>1, <2>3, <3>1, StacksWritten
      <3>. QED
        BY <3>2 DEF Known, Mapped
    <2>. QED
      BY <2>1, <2>2, <2>3
  <1>2. IInv /\ [Next]_vars
          => [Known(dir.doc, stacks) /\ ~DocumentBack /\ ~StacksBack
                => Known(dir.doc, stacks)']_vars
    BY <1>1
  <1>. QED
    BY <1>2, Always, PTL DEF Spec, ReferencesKept

=============================================================================
