--------------------------- MODULE HostCheckProofs ---------------------------
(***************************************************************************)
(* Theorems about the progress of host checks, for any number of workers,    *)
(* simultaneous checks, containers and channels.                            *)
(***************************************************************************)
EXTENDS HostCheck, FiniteSetTheorems, TLAPS

(***************************************************************************)
(* What every step of a call does to the state of its worker: the call        *)
(* changes, the entry may, and a call that is outside the loop afterwards      *)
(* has left no entry unless it was outside before and touched none.          *)
(***************************************************************************)
Moves(j) ==
    /\ UNCHANGED World
    /\ \E call \in Call : Becomes(j, call)
    /\ progress' = progress \/ \E e \in Progress \cup {None} : SetEntry(j, e)
    /\ \/ InLoop(j)'
       \/ Entry(j)' = None
       \/ ~InLoop(j) /\ UNCHANGED progress

LEMMA WorldFinite == TypeOK => /\ IsFiniteSet(present)
                               /\ \A k \in Checks : IsFiniteSet(chk[k].todo)
  BY ContainersAssumption, FS_Subset DEF TypeOK, Call

LEMMA LoopBecomes ==
    ASSUME TypeOK, NEW j \in Checks, NEW call \in Call, Becomes(j, call)
    PROVE  /\ chk'[j] = call
           /\ \A k \in Checks : k # j => chk'[k] = chk[k]
  BY DEF TypeOK, Becomes

LEMMA EntryBecomes ==
    ASSUME TypeOK, NEW j \in Checks, NEW e, SetEntry(j, e)
    PROVE  /\ Entry(j)' = e
           /\ \A w \in Workers : w # WorkerOf[j] => progress'[w] = progress[w]
  BY WorkersAssumption DEF TypeOK, SetEntry, Entry

LEMMA AfterLoopType ==
    ASSUME NEW call \in Call
    PROVE  /\ AfterLoop(call) \in Call
           /\ AfterLoop(call).pc \in {"loading", "stamping"}
           /\ AfterLoop(call).mode = call.mode
           /\ call.hits = {} => AfterLoop(call).pc = "stamping"
  BY DEF AfterLoop, Call, PCs

LEMMA EndedType == Ended \in Call
  BY DEF Ended, Call, PCs, Modes

LEMMA AdvanceMoves ==
    ASSUME TypeOK, UNCHANGED World, NEW j \in Checks, NEW call \in Call, Advance(j, call)
    PROVE  Moves(j)
  <1>1. CASE Entry(j) = None
    <2> DEFINE raised == [call EXCEPT !.pc = "raised"]
    <2>1. raised \in Call
      BY DEF Call, PCs
    <2>2. Becomes(j, raised) /\ UNCHANGED progress
      BY <1>1 DEF Advance
    <2>3. Entry(j)' = None
      BY <1>1, <2>2 DEF Entry
    <2> HIDE DEF raised
    <2>4. QED
      BY <2>1, <2>2, <2>3 DEF Moves
  <1>2. CASE Entry(j) # None /\ call.todo # {}
    <2> DEFINE next == [call EXCEPT !.pc = "checking"]
               entry == [Entry(j) EXCEPT !.done = @ + 1]
    <2>1. next \in Call /\ next.pc = "checking"
      BY DEF Call, PCs
    <2>2. Entry(j) \in Progress
      BY <1>2, WorkersAssumption DEF TypeOK, Entry
    <2>3. entry \in Progress
      BY <2>2 DEF Progress
    <2>4. Becomes(j, next) /\ SetEntry(j, entry)
      BY <1>2 DEF Advance
    <2> HIDE DEF next, entry
    <2>5. InLoop(j)'
      BY <2>1, <2>4, LoopBecomes DEF InLoop
    <2>6. QED
      BY <2>1, <2>3, <2>4, <2>5 DEF Moves
  <1>3. CASE Entry(j) # None /\ call.todo = {}
    <2>1. Becomes(j, AfterLoop(call)) /\ SetEntry(j, None)
      BY <1>3 DEF Advance
    <2>2. QED
      BY <2>1, AfterLoopType, EntryBecomes DEF Moves
  <1>4. QED
    BY <1>1, <1>2, <1>3

LEMMA StepMoves ==
    ASSUME TypeOK, NEW j \in Checks, Start(j) \/ Step(j) \/ Fail(j)
    PROVE  Moves(j)
  <1>0. chk[j] \in Call
    BY DEF TypeOK
  <1>1. CASE Start(j)
    <2>1. PICK mode \in Modes : Becomes(j, [Ended EXCEPT !.pc = "syncing", !.mode = mode])
      BY <1>1 DEF Start
    <2>2. [Ended EXCEPT !.pc = "syncing", !.mode = mode] \in Call
      BY DEF Ended, Call, PCs
    <2>3. ~InLoop(j) /\ UNCHANGED <<World, progress>>
      BY <1>1 DEF Start, InLoop
    <2>4. QED
      BY <2>1, <2>2, <2>3 DEF Moves
  <1>2. CASE Select(j)
    <2> DEFINE call == [chk[j] EXCEPT !.todo = present, !.total = Cardinality(present)]
               next == [call EXCEPT !.pc = "checking"]
               entry == [total |-> call.total, done |-> 0]
    <2>1. Cardinality(present) \in Nat
      BY WorldFinite, FS_CardinalityType
    <2>2. call \in Call
      BY <1>0, <2>1 DEF Call, TypeOK
    <2>3. next \in Call /\ next.pc = "checking" /\ entry \in Progress
      BY <2>2 DEF Call, PCs, Progress
    <2>4. CASE present = {}
      <3>1. SetEntry(j, None) /\ Becomes(j, AfterLoop(call)) /\ UNCHANGED World
        BY <1>2, <2>4 DEF Select
      <3> HIDE DEF call
      <3>2. QED
        BY <2>2, <3>1, AfterLoopType, EntryBecomes DEF Moves
    <2>5. CASE present # {}
      <3>1. SetEntry(j, entry) /\ Becomes(j, next) /\ UNCHANGED World
        BY <1>2, <2>5 DEF Select
      <3> HIDE DEF next, entry
      <3>2. InLoop(j)'
        BY <2>3, <3>1, LoopBecomes DEF InLoop
      <3>3. QED
        BY <2>3, <3>1, <3>2 DEF Moves
    <2>6. QED
      BY <2>4, <2>5
  <1>3. CASE CheckOne(j)
    <2>1. chk[j].pc = "checking" /\ UNCHANGED World
      BY <1>3 DEF CheckOne
    <2>2. PICK c \in chk[j].todo, answered \in BOOLEAN :
            LET rest  == [chk[j] EXCEPT !.todo = @ \ {c}]
                alert == answered /\ c \in due
            IN \/ ~alert /\ Advance(j, rest)
               \/ /\ alert /\ rest.mode = "aggregate"
                  /\ Advance(j, [rest EXCEPT !.hits = @ \cup {c}])
               \/ /\ alert /\ rest.mode = "single"
                  /\ Becomes(j, [rest EXCEPT !.pc = "loading", !.hits = {c}])
                  /\ UNCHANGED progress
      BY <1>3 DEF CheckOne
    <2> DEFINE rest == [chk[j] EXCEPT !.todo = @ \ {c}]
               hit  == [rest EXCEPT !.hits = @ \cup {c}]
               sent == [rest EXCEPT !.pc = "loading", !.hits = {c}]
    <2>3. rest \in Call
      BY <1>0 DEF Call
    <2>4. hit \in Call /\ sent \in Call /\ sent.pc = "loading" /\ sent.mode = rest.mode
      BY <1>0, <2>3 DEF Call, PCs
    <2> HIDE DEF rest
    <2>5. \/ Advance(j, rest) \/ Advance(j, hit)
          \/ rest.mode = "single" /\ Becomes(j, sent) /\ UNCHANGED progress
      BY <2>2 DEF rest
    <2> HIDE DEF hit, sent
    <2>6. CASE rest.mode = "single" /\ Becomes(j, sent) /\ UNCHANGED progress
      <3>1. InLoop(j)'
        BY <2>4, <2>6, LoopBecomes DEF InLoop
      <3>2. QED
        BY <2>1, <2>4, <2>6, <3>1 DEF Moves
    <2>7. QED
      BY <2>1, <2>3, <2>4, <2>5, <2>6, AdvanceMoves
  <1>4. CASE LoadChannels(j) \/ \E h \in Channels : SendTo(j, h)
    <2>1. PICK to \in SUBSET Channels : Becomes(j, [chk[j] EXCEPT !.pc = "sending", !.to = to])
      <3>1. CASE LoadChannels(j)
        BY <3>1 DEF LoadChannels, TypeOK
      <3>2. ASSUME NEW h \in Channels, SendTo(j, h)
            PROVE  \E to \in SUBSET Channels :
                     Becomes(j, [chk[j] EXCEPT !.pc = "sending", !.to = to])
        <4>1. [chk[j] EXCEPT !.to = @ \ {h}]
                = [chk[j] EXCEPT !.pc = "sending", !.to = chk[j].to \ {h}]
          BY <1>0, <3>2 DEF SendTo, Call
        <4>2. chk[j].to \ {h} \in SUBSET Channels
          BY <1>0 DEF Call
        <4>3. QED
          BY <3>2, <4>1, <4>2 DEF SendTo
      <3>3. QED
        BY <1>4, <3>1, <3>2
    <2> DEFINE next == [chk[j] EXCEPT !.pc = "sending", !.to = to]
    <2>2. next \in Call /\ next.pc = "sending" /\ next.mode = chk[j].mode
      BY <1>0 DEF Call, PCs
    <2>3. UNCHANGED <<World, progress>> /\ chk[j].pc \in {"loading", "sending"}
      BY <1>4 DEF LoadChannels, SendTo
    <2>4. InLoop(j)' \/ ~InLoop(j)
      <3> HIDE DEF next
      <3>1. chk'[j] = next
        BY <2>1, <2>2, LoopBecomes DEF next
      <3>2. QED
        BY <2>2, <2>3, <3>1 DEF InLoop
    <2>5. QED
      BY <2>1, <2>2, <2>3, <2>4 DEF Moves
  <1>5. CASE CommitLogs(j)
    <2> DEFINE rest == [chk[j] EXCEPT !.hits = {}]
               next == [chk[j] EXCEPT !.pc = "stamping"]
    <2>1. rest \in Call /\ next \in Call
      BY <1>0 DEF Call, PCs
    <2>2. UNCHANGED World /\ chk[j].pc = "sending"
      BY <1>5 DEF CommitLogs
    <2>3. CASE Advance(j, rest)
      BY <2>1, <2>2, <2>3, AdvanceMoves
    <2>4. CASE chk[j].mode = "aggregate" /\ Becomes(j, next) /\ UNCHANGED progress
      <3>1. ~InLoop(j)
        BY <2>2, <2>4 DEF InLoop
      <3>2. QED
        BY <2>1, <2>2, <2>4, <3>1 DEF Moves
    <2>5. QED
      BY <1>5, <2>3, <2>4 DEF CommitLogs
  <1>6. CASE Finish(j)
    BY <1>6, EndedType DEF Finish, Moves, InLoop
  <1>7. CASE Fail(j)
    <2>1. UNCHANGED World /\ Becomes(j, Ended)
      BY <1>7 DEF Fail
    <2>2. CASE InLoop(j)
      <3>1. SetEntry(j, None)
        BY <1>7, <2>2 DEF Fail
      <3>2. Entry(j)' = None
        BY <3>1, EntryBecomes
      <3>3. QED
        BY <2>1, <3>1, <3>2, EndedType DEF Moves
    <2>3. CASE ~InLoop(j)
      BY <1>7, <2>1, <2>3, EndedType DEF Fail, Moves
    <2>4. QED
      BY <2>2, <2>3
  <1>8. QED
    BY <1>1, <1>2, <1>3, <1>4, <1>5, <1>6, <1>7 DEF Step

------------------------------------------------------------------------------
(***************************************************************************)
(* Type correctness.                                                       *)
(***************************************************************************)
LEMMA MovesType ==
    ASSUME TypeOK, NEW j \in Checks, Moves(j)
    PROVE  TypeOK'
  <1>1. chk' \in [Checks -> Call]
    BY DEF Moves, Becomes, TypeOK
  <1>2. progress' \in [Workers -> Progress \cup {None}]
    BY WorkersAssumption DEF Moves, SetEntry, TypeOK
  <1>3. QED
    BY <1>1, <1>2 DEF Moves, World, TypeOK

LEMMA NextType == TypeOK /\ [Next]_vars => TypeOK'
  <1> SUFFICES ASSUME TypeOK, [Next]_vars PROVE TypeOK'
    OBVIOUS
  <1>1. CASE WorldChanges
    BY <1>1 DEF WorldChanges, TypeOK
  <1>2. ASSUME NEW j \in Checks, Start(j) \/ Step(j) \/ Fail(j) PROVE TypeOK'
    BY <1>2, StepMoves, MovesType
  <1>3. ASSUME NEW w \in Workers, Crash(w) PROVE TypeOK'
    BY <1>3, EndedType DEF Crash, TypeOK, World
  <1>4. CASE UNCHANGED vars
    BY <1>4 DEF vars, TypeOK
  <1>5. QED
    BY <1>1, <1>2, <1>3, <1>4 DEF Next, Failure

(***************************************************************************)
(* Every variable keeps its type.                                          *)
(***************************************************************************)
THEOREM TypeCorrect == Spec => []TypeOK
  <1>1. Init => TypeOK
    BY EndedType DEF Init, TypeOK
  <1>2. QED
    BY <1>1, NextType, PTL DEF Spec

------------------------------------------------------------------------------
LEMMA OwnedStep == TypeOK /\ ProgressOwned /\ [Next]_vars => ProgressOwned'
  <1> SUFFICES ASSUME TypeOK, ProgressOwned, [Next]_vars,
                      NEW w \in Workers, progress'[w] # None
               PROVE  \E k \in Checks : WorkerOf[k] = w /\ InLoop(k)'
    BY DEF ProgressOwned
  <1>1. ASSUME NEW j \in Checks, Moves(j)
        PROVE  \E k \in Checks : WorkerOf[k] = w /\ InLoop(k)'
    <2>1. PICK call \in Call : Becomes(j, call)
      BY <1>1 DEF Moves
    <2>2. \A k \in Checks : k # j /\ InLoop(k) => InLoop(k)'
      BY <2>1, LoopBecomes DEF InLoop
    <2>3. CASE WorkerOf[j] = w /\ InLoop(j)'
      BY <2>3
    <2>4. CASE WorkerOf[j] = w /\ ~InLoop(j)'
      <3>1. ~InLoop(j) /\ UNCHANGED progress
        BY <1>1, <2>4 DEF Moves, Entry
      <3>2. QED
        BY <2>2, <3>1 DEF ProgressOwned
    <2>5. CASE WorkerOf[j] # w
      <3>1. progress'[w] = progress[w]
        BY <1>1, <2>5, EntryBecomes DEF Moves
      <3>2. PICK k \in Checks : WorkerOf[k] = w /\ InLoop(k)
        BY <3>1 DEF ProgressOwned
      <3>3. QED
        BY <2>2, <2>5, <3>2
    <2>6. QED
      BY <2>3, <2>4, <2>5
  <1>2. CASE WorldChanges \/ UNCHANGED vars
    BY <1>2 DEF WorldChanges, vars, ProgressOwned, InLoop
  <1>3. ASSUME NEW v \in Workers, Crash(v)
        PROVE  \E k \in Checks : WorkerOf[k] = w /\ InLoop(k)'
    BY <1>3 DEF Crash, ProgressOwned, InLoop, TypeOK
  <1>4. QED
    BY <1>1, <1>2, <1>3, StepMoves DEF Next, Failure

(***************************************************************************)
(* A worker reports progress only while it runs a loop over the host.        *)
(***************************************************************************)
THEOREM ProgressIsOwned == Spec => []ProgressOwned
  <1>1. Init => ProgressOwned
    BY DEF Init, ProgressOwned
  <1>2. QED
    BY <1>1, OwnedStep, TypeCorrect, PTL DEF Spec

------------------------------------------------------------------------------
(***************************************************************************)
(* The count of a loop that is alone.  A call that leaves the loop takes the  *)
(* entry with it, so a loop that finds itself alone with an entry has been     *)
(* alone since it made the entry.                                          *)
(***************************************************************************)
Counted(entry, total, left) == entry = [total |-> total, done |-> total - left]

LEMMA CountOne ==
    ASSUME NEW entry \in Progress, NEW total \in Nat, NEW left \in Nat,
           Counted(entry, total, left + 1)
    PROVE  Counted([entry EXCEPT !.done = @ + 1], total, left)
  <1>1. /\ [entry EXCEPT !.done = @ + 1] = [total |-> entry.total, done |-> entry.done + 1]
        /\ entry.total = total /\ entry.done = total - (left + 1)
    BY DEF Counted, Progress
  <1>2. total - (left + 1) + 1 = total - left
    OBVIOUS
  <1>3. QED
    BY <1>1, <1>2 DEF Counted

LEMMA TurnLeft ==
    ASSUME TypeOK, NEW j \in Checks, NEW c \in chk[j].todo
    PROVE  /\ Cardinality(chk[j].todo) \in Nat
           /\ Cardinality(chk[j].todo \ {c}) \in Nat
           /\ Cardinality(chk[j].todo) = Cardinality(chk[j].todo \ {c}) + 1
  <1>1. IsFiniteSet(chk[j].todo) /\ Cardinality(chk[j].todo) \in Nat
    BY WorldFinite, FS_CardinalityType
  <1>2. /\ IsFiniteSet(chk[j].todo \ {c})
        /\ Cardinality(chk[j].todo \ {c}) = Cardinality(chk[j].todo) - 1
    BY <1>1, FS_RemoveElement
  <1>3. Cardinality(chk[j].todo \ {c}) \in Nat
    BY <1>2, FS_CardinalityType
  <1>4. QED
    BY <1>1, <1>2, <1>3

(***************************************************************************)
(* The end of a turn keeps the count exact.                                *)
(***************************************************************************)
LEMMA AdvanceExact ==
    ASSUME TypeOK, NEW j \in Checks, NEW call \in Call, Advance(j, call),
           Cardinality(call.todo) \in Nat,
           Entry(j) # None => Counted(Entry(j), call.total, Cardinality(call.todo) + 1),
           Entry(j)' # None
    PROVE  Exact(j)'
  <1>1. CASE Entry(j) = None
    <2>1. UNCHANGED progress
      BY <1>1 DEF Advance
    <2>2. QED
      BY <1>1, <2>1 DEF Entry
  <1>2. CASE Entry(j) # None /\ call.todo = {}
    BY <1>2, EntryBecomes DEF Advance
  <1>3. CASE Entry(j) # None /\ call.todo # {}
    <2> DEFINE next == [call EXCEPT !.pc = "checking"]
               entry == [Entry(j) EXCEPT !.done = @ + 1]
    <2>1. Entry(j) \in Progress
      BY <1>3, WorkersAssumption DEF TypeOK, Entry
    <2>2. Counted(entry, call.total, Cardinality(call.todo))
      BY <1>3, <2>1, CountOne DEF Call
    <2>3. /\ next \in Call /\ next.pc = "checking" /\ next.todo = call.todo
          /\ next.total = call.total
      BY DEF Call, PCs
    <2>4. Becomes(j, next) /\ SetEntry(j, entry)
      BY <1>3 DEF Advance
    <2> HIDE DEF next, entry
    <2>5. chk'[j] = next /\ Entry(j)' = entry
      BY <2>3, <2>4, LoopBecomes, EntryBecomes
    <2>6. Remaining(j)' = Cardinality(call.todo)
      BY <2>3, <2>5 DEF Remaining
    <2>7. QED
      BY <2>2, <2>3, <2>5, <2>6 DEF Exact, Counted
  <1>4. QED
    BY <1>1, <1>2, <1>3

LEMMA OwnExact ==
    ASSUME TypeOK, NEW j \in Checks, Start(j) \/ Step(j) \/ Fail(j),
           InLoop(j) /\ Entry(j) # None => Exact(j),
           InLoop(j)', Entry(j)' # None
    PROVE  Exact(j)'
  <1>0. chk[j] \in Call
    BY DEF TypeOK
  <1>1. CASE Start(j)
    BY <1>1, LoopBecomes DEF Start, InLoop, Ended, TypeOK, Becomes
  <1>2. CASE Select(j)
    <2> DEFINE call == [chk[j] EXCEPT !.todo = present, !.total = Cardinality(present)]
               next == [call EXCEPT !.pc = "checking"]
    <2>1. Cardinality(present) \in Nat
      BY WorldFinite, FS_CardinalityType
    <2>2. CASE present = {}
      BY <1>2, <2>2, EntryBecomes DEF Select
    <2>3. CASE present # {}
      <3>1. /\ next \in Call /\ next.pc = "checking" /\ next.todo = present
            /\ next.total = Cardinality(present) /\ call.total = Cardinality(present)
        BY <1>0, <2>1 DEF Call, TypeOK, PCs
      <3>2. SetEntry(j, [total |-> call.total, done |-> 0]) /\ Becomes(j, next)
        BY <1>2, <2>3 DEF Select
      <3> HIDE DEF call, next
      <3>3. Entry(j)' = [total |-> Cardinality(present), done |-> 0] /\ chk'[j] = next
        BY <3>1, <3>2, EntryBecomes, LoopBecomes
      <3>4. Remaining(j)' = Cardinality(present)
        BY <2>1, <3>1, <3>3 DEF Remaining
      <3>5. QED
        BY <2>1, <3>1, <3>3, <3>4 DEF Exact
    <2>4. QED
      BY <2>2, <2>3
  <1>3. CASE CheckOne(j)
    <2>1. chk[j].pc = "checking"
      BY <1>3 DEF CheckOne
    <2>2. PICK c \in chk[j].todo, answered \in BOOLEAN :
            LET rest  == [chk[j] EXCEPT !.todo = @ \ {c}]
                alert == answered /\ c \in due
            IN \/ ~alert /\ Advance(j, rest)
               \/ /\ alert /\ rest.mode = "aggregate"
                  /\ Advance(j, [rest EXCEPT !.hits = @ \cup {c}])
               \/ /\ alert /\ rest.mode = "single"
                  /\ Becomes(j, [rest EXCEPT !.pc = "loading", !.hits = {c}])
                  /\ UNCHANGED progress
      BY <1>3 DEF CheckOne
    <2> DEFINE rest == [chk[j] EXCEPT !.todo = @ \ {c}]
               hit  == [rest EXCEPT !.hits = @ \cup {c}]
               sent == [rest EXCEPT !.pc = "loading", !.hits = {c}]
               left == Cardinality(chk[j].todo \ {c})
    <2>3. rest \in Call /\ rest.todo = chk[j].todo \ {c} /\ rest.total = chk[j].total
      BY <1>0 DEF Call
    <2>4. /\ hit \in Call /\ hit.todo = rest.todo /\ hit.total = rest.total
          /\ sent \in Call /\ sent.pc = "loading"
          /\ sent.todo = rest.todo /\ sent.total = rest.total
      BY <1>0, <2>3 DEF Call, PCs
    <2> HIDE DEF rest
    <2>5. \/ Advance(j, rest) \/ Advance(j, hit)
          \/ Becomes(j, sent) /\ UNCHANGED progress
      BY <2>2 DEF rest
    <2> HIDE DEF hit, sent
    <2>6. left \in Nat /\ Cardinality(chk[j].todo) = left + 1 /\ left + 1 \in Nat
      BY TurnLeft
    <2> HIDE DEF left
    <2>7. Entry(j) # None => Counted(Entry(j), chk[j].total, left + 1)
      BY <2>1, <2>6 DEF InLoop, Exact, Remaining, Counted
    <2>8. CASE Becomes(j, sent) /\ UNCHANGED progress
      <3>1. chk'[j] = sent /\ Entry(j)' = Entry(j)
        BY <2>4, <2>8, LoopBecomes DEF Entry
      <3>2. Remaining(j)' = left + 1
        BY <2>3, <2>4, <3>1 DEF Remaining, left
      <3>3. QED
        BY <2>3, <2>4, <2>7, <3>1, <3>2 DEF Exact, Counted
    <2>9. CASE Advance(j, rest)
      BY <2>3, <2>6, <2>7, <2>9, AdvanceExact DEF left
    <2>10. CASE Advance(j, hit)
      BY <2>3, <2>4, <2>6, <2>7, <2>10, AdvanceExact DEF left
    <2>11. QED
      BY <2>5, <2>8, <2>9, <2>10
  <1>4. CASE LoadChannels(j) \/ \E h \in Channels : SendTo(j, h)
    <2>1. chk[j].pc \in {"loading", "sending"} /\ UNCHANGED progress
      BY <1>4 DEF LoadChannels, SendTo
    <2>2. /\ chk'[j].pc = "sending" /\ chk'[j].mode = chk[j].mode
          /\ chk'[j].todo = chk[j].todo /\ chk'[j].total = chk[j].total
      <3>1. CASE LoadChannels(j)
        BY <1>0, <3>1 DEF LoadChannels, Becomes, TypeOK, Call
      <3>2. CASE \E h \in Channels : SendTo(j, h)
        BY <1>0, <3>2 DEF SendTo, Becomes, TypeOK, Call
      <3>3. QED
        BY <1>4, <3>1, <3>2
    <2>3. InLoop(j) /\ Entry(j)' = Entry(j) /\ Remaining(j)' = Remaining(j)
      BY <2>1, <2>2 DEF InLoop, Entry, Remaining
    <2>4. QED
      BY <2>2, <2>3 DEF Exact
  <1>5. CASE CommitLogs(j)
    <2> DEFINE rest == [chk[j] EXCEPT !.hits = {}]
    <2>1. chk[j].pc = "sending"
      BY <1>5 DEF CommitLogs
    <2>2. CASE chk[j].mode = "single" /\ Advance(j, rest)
      <3>1. rest \in Call /\ rest.todo = chk[j].todo /\ rest.total = chk[j].total
        BY <1>0 DEF Call
      <3>2. Cardinality(rest.todo) \in Nat
        BY <3>1, WorldFinite, FS_CardinalityType
      <3>3. Entry(j) # None => Counted(Entry(j), rest.total, Cardinality(rest.todo) + 1)
        BY <2>1, <2>2, <3>1 DEF InLoop, Exact, Remaining, Counted
      <3> HIDE DEF rest
      <3>4. QED
        BY <2>2, <3>1, <3>2, <3>3, AdvanceExact
    <2>3. CASE chk[j].mode = "aggregate" /\ Becomes(j, [chk[j] EXCEPT !.pc = "stamping"])
      <3>1. chk'[j].pc = "stamping"
        BY <1>0, <2>3 DEF Becomes, TypeOK, Call
      <3>2. QED
        BY <3>1 DEF InLoop
    <2>4. QED
      BY <1>5, <2>2, <2>3 DEF CommitLogs
  <1>6. CASE Finish(j) \/ Fail(j)
    <2>1. chk'[j] = Ended
      BY <1>6, EndedType, LoopBecomes DEF Finish, Fail
    <2>2. QED
      BY <2>1 DEF InLoop, Ended
  <1>7. QED
    BY <1>1, <1>2, <1>3, <1>4, <1>5, <1>6 DEF Step

LEMMA ExactStep == TypeOK /\ ProgressExact /\ [Next]_vars => ProgressExact'
  <1> SUFFICES ASSUME TypeOK, ProgressExact, [Next]_vars,
                      NEW k \in Checks, InLoop(k)', Alone(k)', Entry(k)' # None
               PROVE  Exact(k)'
    BY DEF ProgressExact
  <1>1. ASSUME NEW j \in Checks, Start(j) \/ Step(j) \/ Fail(j) PROVE Exact(k)'
    <2>1. Moves(j)
      BY <1>1, StepMoves
    <2>2. PICK call \in Call : Becomes(j, call)
      BY <2>1 DEF Moves
    <2>3. \A i \in Checks : i # j => chk'[i] = chk[i] /\ (InLoop(i)' <=> InLoop(i))
      BY <2>2, LoopBecomes DEF InLoop
    <2>4. CASE j = k
      <3>1. Alone(k)
        BY <2>3, <2>4 DEF Alone
      <3>2. QED
        BY <1>1, <2>4, <3>1, OwnExact DEF ProgressExact
    <2>5. CASE j # k
      <3>1. InLoop(k) /\ Remaining(k)' = Remaining(k) /\ chk'[k] = chk[k]
        BY <2>3, <2>5 DEF Remaining
      <3>2. Entry(k)' = Entry(k) /\ Alone(k)
        <4>1. CASE WorkerOf[j] = WorkerOf[k]
          <5>1. ~InLoop(j)'
            BY <2>5, <4>1 DEF Alone
          <5>2. ~InLoop(j) /\ UNCHANGED progress
            BY <2>1, <4>1, <5>1 DEF Moves, Entry
          <5>3. QED
            BY <2>3, <5>2 DEF Alone, Entry
        <4>2. CASE WorkerOf[j] # WorkerOf[k]
          <5>1. progress'[WorkerOf[k]] = progress[WorkerOf[k]]
            BY <2>1, <4>2, EntryBecomes, WorkersAssumption DEF Moves
          <5>2. QED
            BY <2>3, <4>2, <5>1 DEF Alone, Entry
        <4>3. QED
          BY <4>1, <4>2
      <3>3. QED
        BY <3>1, <3>2 DEF ProgressExact, Exact
    <2>6. QED
      BY <2>4, <2>5
  <1>2. CASE WorldChanges \/ UNCHANGED vars
    <2>1. UNCHANGED <<progress, chk>>
      BY <1>2 DEF WorldChanges, vars
    <2>2. QED
      BY <2>1 DEF ProgressExact, InLoop, Alone, Entry, Exact, Remaining
  <1>3. ASSUME NEW v \in Workers, Crash(v) PROVE Exact(k)'
    <2>1. CASE WorkerOf[k] = v
      BY <1>3, <2>1 DEF Crash, Entry, TypeOK
    <2>2. CASE WorkerOf[k] # v
      <3>1. Entry(k)' = Entry(k) /\ chk'[k] = chk[k]
        BY <1>3, <2>2, WorkersAssumption DEF Crash, Entry, TypeOK
      <3>2. \A i \in Checks : WorkerOf[i] = WorkerOf[k] => (InLoop(i)' <=> InLoop(i))
        BY <1>3, <2>2 DEF Crash, InLoop
      <3>3. QED
        BY <3>1, <3>2 DEF ProgressExact, Alone, Exact, Remaining
    <2>3. QED
      BY <2>1, <2>2
  <1>4. QED
    BY <1>1, <1>2, <1>3 DEF Next, Failure

(***************************************************************************)
(* A check that is alone in its worker reports exactly what it has done,      *)
(* whatever checks overlapped it before.                                   *)
(***************************************************************************)
THEOREM ProgressIsExact == Spec => []ProgressExact
  <1>1. Init => ProgressExact
    BY DEF Init, ProgressExact, InLoop, Ended
  <1>2. QED
    BY <1>1, ExactStep, TypeCorrect, PTL DEF Spec

==============================================================================
