------------------------- MODULE SessionStoreProofs --------------------------
(* Proofs about the session store for any number of runs that overlap and die *)
(* anywhere.                                                                  *)
EXTENDS SessionStore, FiniteSetTheorems, TLAPS

(* Counting an initial segment of the positive numbers.                       *)
LEMMA SegmentSize ==
  ASSUME NEW k \in Nat
  PROVE  IsFiniteSet(1 .. k) /\ Cardinality(1 .. k) = k
<1>1. /\ IsFiniteSet(1 .. k)
      /\ Cardinality(1 .. k) = IF 1 > k THEN 0 ELSE k - 1 + 1
  BY FS_Interval
<1>2. QED
  BY <1>1

(* The row written for an id from 1 to one past the last keeps the segment a  *)
(* segment, and never shortens it.                                            *)
LEMMA SegmentGrows ==
  ASSUME NEW k \in Nat, NEW i \in 1 .. k + 1
  PROVE  \E m \in {k, k + 1} : (1 .. k) \union {i} = 1 .. m
<1>1. CASE i \in 1 .. k
  BY <1>1
<1>2. CASE i = k + 1
  <2>1. (1 .. k) \union {i} = 1 .. (k + 1)
    BY <1>2
  <2>2. QED
    BY <2>1
<1>3. QED
  BY <1>1, <1>2

Saved == Cardinality(DOMAIN sessions)

(* The inductive invariant: the saved ids form an initial segment, and every  *)
(* run under way holds an id inside it or just past it.                       *)
IInv == TypeOK /\ SavedIdsHaveNoGap

(* The invariant holds of an empty store.                                    *)
LEMMA InitIInv == Init => IInv
<1> SUFFICES ASSUME Init PROVE IInv
  OBVIOUS
<1>1. DOMAIN sessions = {} /\ DOMAIN reports = {}
  BY DEF Init
<1>2. IsFiniteSet({}) /\ Cardinality({}) = 0
  BY FS_EmptySet
<1>3. TypeOK
  BY <1>1, <1>2 DEF Init, TypeOK
<1>4. SavedIdsHaveNoGap
  BY <1>1, <1>2 DEF Init, SavedIdsHaveNoGap, UnderWay
<1>5. QED
  BY <1>3, <1>4 DEF IInv

(* A run that starts takes the id after the last saved one.                   *)
LEMMA StartIsFresh ==
  ASSUME IInv, NEW r \in Runs, Start(r)
  PROVE  /\ id'[r] = Saved + 1 /\ Saved \in Nat
         /\ id'[r] \notin DOMAIN sessions
<1>1. Saved \in Nat
  BY FS_CardinalityType DEF IInv, TypeOK, Saved
<1>2. id'[r] = Saved + 1
  BY DEF Start, NextSessionId, Saved, IInv, TypeOK
<1>3. DOMAIN sessions = 1 .. Saved
  BY DEF IInv, SavedIdsHaveNoGap, Saved
<1>4. QED
  BY <1>1, <1>2, <1>3

(* Every step keeps the types.                                               *)
LEMMA TypeStep ==
  ASSUME IInv, [Next]_vars
  PROVE  TypeOK'
<1> USE DEF IInv, TypeOK
<1>1. CASE UNCHANGED vars
  BY <1>1 DEF vars, tables, runVars
<1>2. ASSUME NEW r \in Runs, Start(r) PROVE TypeOK'
  <2>1. id'[r] \in Nat
    BY <1>2, StartIsFresh
  <2>2. id' \in [Runs -> Nat]
    BY <1>2, <2>1 DEF Start
  <2>3. stage' \in [Runs -> {"new", "running", "reported", "saved", "dead"}]
    BY <1>2 DEF Start
  <2>4. QED
    BY <1>2, <2>2, <2>3 DEF Start, tables
<1>3. ASSUME NEW r \in Runs, Emit(r) \/ DieInEmit(r) PROVE TypeOK'
  <2>1. [session |-> id[r], seq |-> seq[r] + 1, run |-> r] \in EventRecords
    BY DEF EventRecords
  <2>2. events' \subseteq EventRecords
    BY <1>3, <2>1 DEF Emit, DieInEmit, Insert
  <2>3. timeline' \in [Runs -> SUBSET Nat]
    BY <1>3 DEF Emit, DieInEmit
  <2>4. /\ seq' \in [Runs -> Nat]
        /\ stage' \in [Runs -> {"new", "running", "reported", "saved", "dead"}]
    BY <1>3 DEF Emit, DieInEmit
  <2>5. QED
    BY <1>3, <2>2, <2>3, <2>4 DEF Emit, DieInEmit
<1>4. ASSUME NEW r \in Runs, EmitRaises(r) \/ Die(r) PROVE TypeOK'
  BY <1>4 DEF EmitRaises, Die, tables
<1>5. ASSUME NEW r \in Runs, WriteReport(r) PROVE TypeOK'
  <2>1. /\ DOMAIN reports' = DOMAIN reports \union {id[r]}
        /\ \A i \in DOMAIN reports' : reports'[i] = IF i = id[r] THEN r ELSE reports[i]
    BY <1>5 DEF WriteReport, Put
  <2>2. stage' \in [Runs -> {"new", "running", "reported", "saved", "dead"}]
    BY <1>5 DEF WriteReport
  <2>3. QED
    BY <1>5, <2>1, <2>2 DEF WriteReport
<1>6. ASSUME NEW r \in Runs, Save(r) PROVE TypeOK'
  <2>1. /\ DOMAIN sessions' = DOMAIN sessions \union {id[r]}
        /\ \A i \in DOMAIN sessions' : sessions'[i] = IF i = id[r] THEN r ELSE sessions[i]
    BY <1>6 DEF Save, Put
  <2>2. IsFiniteSet(DOMAIN sessions')
    BY <2>1, FS_AddElement
  <2>3. stage' \in [Runs -> {"new", "running", "reported", "saved", "dead"}]
    BY <1>6 DEF Save
  <2>4. QED
    BY <1>6, <2>1, <2>2, <2>3 DEF Save
<1>7. QED
  BY <1>1, <1>2, <1>3, <1>4, <1>5, <1>6 DEF Next, Ended

(* Every step keeps the ids without a gap.                                   *)
LEMMA NoGapStep ==
  ASSUME IInv, [Next]_vars
  PROVE  SavedIdsHaveNoGap'
<1> USE DEF IInv, TypeOK
<1>0. Saved \in Nat /\ DOMAIN sessions = 1 .. Saved
  BY FS_CardinalityType DEF SavedIdsHaveNoGap, Saved
<1>1. CASE UNCHANGED vars
  BY <1>1 DEF vars, tables, runVars, SavedIdsHaveNoGap
<1>2. ASSUME NEW r \in Runs, Start(r) PROVE SavedIdsHaveNoGap'
  <2>1. /\ sessions' = sessions
        /\ \A q \in Runs \ {r} : id'[q] = id[q] /\ stage'[q] = stage[q]
    BY <1>2 DEF Start, tables
  <2>2. id'[r] \in 1 .. Saved + 1
    BY <1>2, StartIsFresh
  <2>3. QED
    BY <2>1, <2>2 DEF SavedIdsHaveNoGap, Saved
<1>3. ASSUME NEW r \in Runs, Emit(r) \/ EmitRaises(r) \/ WriteReport(r) \/ Die(r) \/ DieInEmit(r)
      PROVE  SavedIdsHaveNoGap'
  <2>1. /\ sessions' = sessions /\ id' = id
        /\ \A q \in Runs : stage'[q] \in UnderWay => stage[q] \in UnderWay
    BY <1>3 DEF Emit, EmitRaises, WriteReport, Die, DieInEmit, tables, UnderWay
  <2>2. QED
    BY <2>1 DEF SavedIdsHaveNoGap
<1>4. ASSUME NEW r \in Runs, Save(r) PROVE SavedIdsHaveNoGap'
  <2>1. /\ DOMAIN sessions' = (1 .. Saved) \union {id[r]}
        /\ id[r] \in 1 .. Saved + 1
    BY <1>0, <1>4 DEF Save, Put, SavedIdsHaveNoGap, Saved, UnderWay
  <2>2. PICK m \in {Saved, Saved + 1} : DOMAIN sessions' = 1 .. m
    BY <1>0, <2>1, SegmentGrows
  <2>3. m \in Nat /\ Cardinality(DOMAIN sessions') = m
    BY <1>0, <2>2, SegmentSize
  <2>4. \A q \in Runs : stage'[q] \in UnderWay => stage[q] \in UnderWay /\ id'[q] = id[q]
    BY <1>4 DEF Save, UnderWay
  <2>5. \A q \in Runs : stage'[q] \in UnderWay => id'[q] \in 1 .. m + 1
    BY <1>0, <2>2, <2>3, <2>4 DEF SavedIdsHaveNoGap, Saved
  <2>6. QED
    BY <2>2, <2>3, <2>5 DEF SavedIdsHaveNoGap
<1>5. QED
  BY <1>1, <1>2, <1>3, <1>4 DEF Next, Ended

(* However the runs interleave and wherever they die, the saved ids have no   *)
(* gap, so the row count always points past the last of them.                 *)
THEOREM NoGap == Spec => []SavedIdsHaveNoGap
<1>1. IInv /\ [Next]_vars => IInv'
  BY TypeStep, NoGapStep DEF IInv
<1>2. Spec => []IInv
  BY InitIInv, <1>1, PTL DEF Spec
<1>3. QED
  BY <1>2, PTL DEF IInv

(* No run is ever given the id of a session that is already saved: counting   *)
(* the rows is enough to keep saved sessions from being overwritten by a      *)
(* later run.                                                                 *)
THEOREM FreshIds == Spec => FreshId
<1>1. IInv /\ [Next]_vars => IInv'
  BY TypeStep, NoGapStep DEF IInv
<1>2. IInv /\ [Next]_vars =>
        [\A r \in Runs : stage[r] = "new" /\ stage'[r] = "running" =>
            id'[r] \notin DOMAIN sessions]_vars
  <2> SUFFICES ASSUME IInv, Next, NEW r \in Runs,
                      stage[r] = "new", stage'[r] = "running"
               PROVE  id'[r] \notin DOMAIN sessions
    OBVIOUS
  <2>1. CASE Start(r)
    BY <2>1, StartIsFresh
  <2>2. CASE ~ Start(r)
    <3>1. \A q \in Runs : Start(q) /\ q # r => stage'[r] = "new"
      BY DEF Start, IInv, TypeOK
    <3>2. \A q \in Runs : Emit(q) \/ EmitRaises(q) => stage'[r] = "new"
      BY DEF Emit, EmitRaises
    <3>3. \A q \in Runs : WriteReport(q) \/ Save(q) \/ Die(q) \/ DieInEmit(q)
                           => stage'[r] # "running"
      BY DEF WriteReport, Save, Die, DieInEmit, IInv, TypeOK
    <3>4. Ended => stage'[r] = "new"
      BY DEF Ended, vars, runVars
    <3>5. QED
      BY <2>2, <3>1, <3>2, <3>3, <3>4 DEF Next
  <2>3. QED
    BY <2>1, <2>2
<1>3. QED
  BY InitIInv, <1>1, <1>2, PTL DEF Spec, FreshId

(* Why no place is shared and none the timeline knows is empty: a run that    *)
(* has not started owns nothing, and an event is stored under its run's id,   *)
(* which never changes once the run has started.                              *)
Placed ==
  /\ \A e \in events : stage[e.run] # "new" /\ e.session = id[e.run]
  /\ \A r \in Runs : stage[r] = "new" => timeline[r] = {}

PInv == IInv /\ Placed /\ PlacesTaken

(* Storing an event fills its place, if it was free, and no other.            *)
LEMMA InsertFills ==
  ASSUME PlacesTaken, NEW e \in EventRecords
  PROVE  /\ events \subseteq Insert(e) /\ Insert(e) \subseteq events \union {e}
         /\ \A c, d \in Insert(e) : c.session = d.session /\ c.seq = d.seq => c = d
         /\ \E d \in Insert(e) : d.session = e.session /\ d.seq = e.seq
BY DEF PlacesTaken, Insert

(* Every step keeps the places taken.                                        *)
LEMMA PlacesStep ==
  ASSUME PInv, [Next]_vars
  PROVE  (Placed /\ PlacesTaken)'
<1> USE DEF PInv, IInv, TypeOK
<1>1. CASE UNCHANGED vars
  BY <1>1 DEF vars, tables, runVars, Placed, PlacesTaken
<1>2. ASSUME NEW r \in Runs, Start(r) PROVE (Placed /\ PlacesTaken)'
  <2>1. /\ events' = events /\ timeline' = timeline
        /\ stage[r] = "new" /\ stage'[r] = "running"
        /\ \A q \in Runs \ {r} : id'[q] = id[q] /\ stage'[q] = stage[q]
    BY <1>2 DEF Start, tables
  <2>2. \A e \in events : e.run \in Runs \ {r}
    BY <2>1 DEF Placed, EventRecords
  <2>3. timeline[r] = {}
    BY <2>1 DEF Placed
  <2>4. Placed'
    BY <2>1, <2>2 DEF Placed
  <2>5. PlacesTaken'
    BY <2>1, <2>2, <2>3 DEF PlacesTaken
  <2>6. QED
    BY <2>4, <2>5
<1>3. ASSUME NEW r \in Runs, Emit(r) \/ DieInEmit(r) PROVE (Placed /\ PlacesTaken)'
  <2> DEFINE e == [session |-> id[r], seq |-> seq[r] + 1, run |-> r]
  <2>1. e \in EventRecords /\ e.session = id[r] /\ e.seq = seq[r] + 1 /\ e.run = r
    BY DEF EventRecords
  <2>2. /\ events' = Insert(e) /\ id' = id
        /\ stage[r] \in UnderWay
        /\ \A q \in Runs : (stage'[q] = "new" => stage[q] = "new")
                          /\ (stage[q] # "new" => stage'[q] # "new")
        /\ \A q \in Runs : timeline'[q] \subseteq
                             timeline[q] \union (IF q = r THEN {seq[r] + 1} ELSE {})
    BY <1>3 DEF Emit, DieInEmit, UnderWay
  <2> HIDE DEF e
  <2>3. /\ events \subseteq events' /\ events' \subseteq events \union {e}
        /\ \A c, d \in events' : c.session = d.session /\ c.seq = d.seq => c = d
        /\ \E d \in events' : d.session = id[r] /\ d.seq = seq[r] + 1
    BY <2>1, <2>2, InsertFills
  <2>4. stage[r] # "new"
    BY <2>2 DEF UnderWay
  <2>5. \A d \in events' : d.run \in Runs /\ stage'[d.run] # "new" /\ d.session = id'[d.run]
    BY <2>1, <2>2, <2>3, <2>4 DEF Placed, EventRecords
  <2>6. \A q \in Runs : stage'[q] = "new" => timeline'[q] = {}
    BY <2>2, <2>4 DEF Placed
  <2>7. \A q \in Runs : \A n \in timeline'[q] :
          \E d \in events' : d.session = id'[q] /\ d.seq = n /\ id'[d.run] = id'[q]
    <3> SUFFICES ASSUME NEW q \in Runs, NEW n \in timeline'[q]
                 PROVE  \E d \in events' : d.session = id'[q] /\ d.seq = n
      BY <2>5
    <3>1. CASE n \in timeline[q]
      BY <3>1, <2>2, <2>3 DEF PlacesTaken
    <3>2. CASE q = r /\ n = seq[r] + 1
      BY <3>2, <2>2, <2>3
    <3>3. QED
      BY <2>2, <3>1, <3>2
  <2>8. QED
    BY <2>3, <2>5, <2>6, <2>7 DEF Placed, PlacesTaken
<1>4. ASSUME NEW r \in Runs, EmitRaises(r) \/ WriteReport(r) \/ Save(r) \/ Die(r)
      PROVE  (Placed /\ PlacesTaken)'
  <2>1. /\ events' = events /\ id' = id /\ timeline' = timeline
        /\ \A q \in Runs : stage'[q] = "new" <=> stage[q] = "new"
    BY <1>4 DEF EmitRaises, WriteReport, Save, Die, tables, UnderWay
  <2>2. \A e \in events : e.run \in Runs
    BY DEF EventRecords
  <2>3. QED
    BY <2>1, <2>2 DEF Placed, PlacesTaken
<1>5. QED
  BY <1>1, <1>2, <1>3, <1>4 DEF Next, Ended

(* INSERT OR IGNORE never lets two events share a place, and whatever the     *)
(* timeline of a run shows, its place in the store is filled by that run or   *)
(* by one with the same id.                                                   *)
THEOREM EveryPlaceTaken == Spec => []PlacesTaken
<1>1. Init => PInv
  BY InitIInv DEF Init, PInv, Placed, PlacesTaken
<1>2. PInv /\ [Next]_vars => PInv'
  BY TypeStep, NoGapStep, PlacesStep DEF PInv, IInv
<1>3. QED
  BY <1>1, <1>2, PTL DEF Spec, PInv

(* The tables and the runs' variables keep their types.                       *)
THEOREM StoreTypes == Spec => []TypeOK
<1>1. IInv /\ [Next]_vars => IInv'
  BY TypeStep, NoGapStep DEF IInv
<1>2. Spec => []IInv
  BY InitIInv, <1>1, PTL DEF Spec
<1>3. QED
  BY <1>2, PTL DEF IInv

-----------------------------------------------------------------------------
(* Why rows and report files match while runs do not overlap: the one run     *)
(* under way has an id that no row has, so its report replaces none that      *)
(* belongs to a row, and its own row follows its own report.                  *)
Alone ==
  ~ overlapped =>
    /\ \A q, r \in Runs : stage[q] \in UnderWay /\ stage[r] \in UnderWay => q = r
    /\ \A r \in Runs : stage[r] \in UnderWay => id[r] \notin DOMAIN sessions
    /\ \A r \in Runs : stage[r] = "reported" =>
         id[r] \in DOMAIN reports /\ reports[id[r]] = r

RInv == IInv /\ Alone /\ RowMatchesReport

(* Every step keeps rows and reports together.                                *)
LEMMA RowsStep ==
  ASSUME RInv, [Next]_vars
  PROVE  (Alone /\ RowMatchesReport)'
<1> USE DEF RInv, IInv, TypeOK
<1>1. CASE UNCHANGED vars
  BY <1>1 DEF vars, tables, runVars, Alone, RowMatchesReport
<1>2. ASSUME NEW r \in Runs, Start(r) PROVE (Alone /\ RowMatchesReport)'
  <2>1. /\ sessions' = sessions /\ reports' = reports
        /\ stage[r] = "new" /\ stage'[r] = "running"
        /\ \A q \in Runs \ {r} : id'[q] = id[q] /\ stage'[q] = stage[q]
    BY <1>2 DEF Start, tables
  <2>2. ~ overlapped' => ~ overlapped /\ \A q \in Runs : stage[q] \notin UnderWay
    BY <1>2 DEF Start
  <2>3. id'[r] \notin DOMAIN sessions
    BY <1>2, StartIsFresh
  <2>4. QED
    BY <2>1, <2>2, <2>3 DEF Alone, RowMatchesReport, UnderWay
<1>3. ASSUME NEW r \in Runs, Emit(r) \/ EmitRaises(r) \/ Die(r) \/ DieInEmit(r)
      PROVE  (Alone /\ RowMatchesReport)'
  <2>1. /\ sessions' = sessions /\ reports' = reports /\ id' = id /\ overlapped' = overlapped
        /\ \A q \in Runs : stage'[q] = stage[q] \/ stage'[q] = "dead"
    BY <1>3 DEF Emit, EmitRaises, Die, DieInEmit, tables
  <2>2. QED
    BY <2>1 DEF Alone, RowMatchesReport, UnderWay
<1>4. ASSUME NEW r \in Runs, WriteReport(r) PROVE (Alone /\ RowMatchesReport)'
  <2>1. /\ sessions' = sessions /\ id' = id /\ overlapped' = overlapped
        /\ stage[r] \in UnderWay /\ stage'[r] = "reported"
        /\ \A q \in Runs \ {r} : stage'[q] = stage[q]
        /\ DOMAIN reports' = DOMAIN reports \union {id[r]}
        /\ \A i \in DOMAIN reports' : reports'[i] = IF i = id[r] THEN r ELSE reports[i]
    BY <1>4 DEF WriteReport, Put
  <2>2. Alone'
    BY <2>1 DEF Alone, UnderWay
  <2>3. RowMatchesReport'
    BY <2>1 DEF Alone, RowMatchesReport
  <2>4. QED
    BY <2>2, <2>3
<1>5. ASSUME NEW r \in Runs, Save(r) PROVE (Alone /\ RowMatchesReport)'
  <2>1. /\ reports' = reports /\ id' = id /\ overlapped' = overlapped
        /\ stage[r] = "reported" /\ stage'[r] = "saved"
        /\ \A q \in Runs \ {r} : stage'[q] = stage[q]
        /\ DOMAIN sessions' = DOMAIN sessions \union {id[r]}
        /\ \A i \in DOMAIN sessions' : sessions'[i] = IF i = id[r] THEN r ELSE sessions[i]
    BY <1>5 DEF Save, Put
  <2>2. Alone'
    BY <2>1 DEF Alone, UnderWay
  <2>3. RowMatchesReport'
    BY <2>1 DEF Alone, RowMatchesReport
  <2>4. QED
    BY <2>2, <2>3
<1>6. QED
  BY <1>1, <1>2, <1>3, <1>4, <1>5 DEF Next, Ended

(* While runs do not overlap, a session's row and the report file of its name *)
(* come from one run, however many died before it.                            *)
THEOREM RowsMatchReports == Spec => []RowMatchesReport
<1>1. Init => RInv
  BY InitIInv DEF Init, RInv, Alone, RowMatchesReport, UnderWay
<1>2. RInv /\ [Next]_vars => RInv'
  BY TypeStep, NoGapStep, RowsStep DEF RInv, IInv
<1>3. QED
  BY <1>1, <1>2, PTL DEF Spec, RInv

-----------------------------------------------------------------------------
(* The stream of a run that is alive and shares its id with no run that has   *)
(* started.                                                                   *)
Unshared(r) == \A q \in Runs \ {r} : stage[q] # "new" => id[q] # id[r]
Streams ==
  \A r \in Runs : stage[r] \in UnderWay \union {"saved"} /\ Unshared(r) =>
    Stored(r) = timeline[r]

SInv == PInv /\ Streams

(* Every step keeps the streams whole.                                        *)
LEMMA StreamsStep ==
  ASSUME SInv, [Next]_vars
  PROVE  Streams'
<1> USE DEF SInv, PInv, IInv, TypeOK
<1>1. CASE UNCHANGED vars
  BY <1>1 DEF vars, tables, runVars, Streams, Unshared, Stored
<1>2. ASSUME NEW r \in Runs, Start(r) PROVE Streams'
  <2>1. /\ events' = events /\ timeline' = timeline
        /\ stage[r] = "new" /\ stage'[r] = "running"
        /\ \A q \in Runs \ {r} : id'[q] = id[q] /\ stage'[q] = stage[q]
    BY <1>2 DEF Start, tables
  <2> SUFFICES ASSUME NEW q \in Runs, stage'[q] \in UnderWay \union {"saved"}, Unshared(q)'
               PROVE  Stored(q)' = timeline'[q]
    BY DEF Streams
  <2>2. CASE q = r
    <3>1. \A e \in events : e.run \in Runs \ {r} /\ e.session = id[e.run] /\ stage[e.run] # "new"
      BY <2>1 DEF Placed, EventRecords
    <3>2. \A e \in events : e.session # id'[q]
      BY <2>1, <2>2, <3>1 DEF Unshared
    <3>3. timeline[q] = {}
      BY <2>1, <2>2 DEF Placed
    <3>4. QED
      BY <2>1, <3>2, <3>3 DEF Stored
  <2>3. CASE q # r
    <3>1. Unshared(q)
      BY <2>1, <2>3 DEF Unshared
    <3>2. Stored(q)' = Stored(q)
      BY <2>1, <2>3 DEF Stored
    <3>3. QED
      BY <2>1, <2>3, <3>1, <3>2 DEF Streams
  <2>4. QED
    BY <2>2, <2>3
<1>3. ASSUME NEW r \in Runs, Emit(r) \/ DieInEmit(r) PROVE Streams'
  <2> DEFINE e == [session |-> id[r], seq |-> seq[r] + 1, run |-> r]
  <2>1. e \in EventRecords /\ e.session = id[r] /\ e.seq = seq[r] + 1
    BY DEF EventRecords
  <2>2. /\ events' = Insert(e) /\ id' = id /\ stage[r] \in UnderWay
        /\ \A q \in Runs \ {r} : stage'[q] = stage[q] /\ timeline'[q] = timeline[q]
    BY <1>3 DEF Emit, DieInEmit
  <2>3. \/ stage'[r] = "dead"
        \/ stage'[r] = stage[r] /\ timeline'[r] = timeline[r] \union {seq[r] + 1}
    BY <1>3 DEF Emit, DieInEmit
  <2> HIDE DEF e
  <2>4. /\ events \subseteq events' /\ events' \subseteq events \union {e}
        /\ \E d \in events' : d.session = id[r] /\ d.seq = seq[r] + 1
    BY <2>1, <2>2, InsertFills
  <2> SUFFICES ASSUME NEW q \in Runs, stage'[q] \in UnderWay \union {"saved"}, Unshared(q)'
               PROVE  Stored(q)' = timeline'[q]
    BY DEF Streams
  <2>5. stage[q] \in UnderWay \union {"saved"}
    BY <2>2, <2>3 DEF UnderWay
  <2>6. Unshared(q)
    BY <2>2, <2>3 DEF Unshared, UnderWay
  <2>7. Stored(q) = timeline[q]
    BY <2>5, <2>6 DEF Streams
  <2>8. CASE q = r
    <3>1. timeline'[q] = timeline[q] \union {seq[r] + 1}
      BY <2>3, <2>8 DEF UnderWay
    <3>2. Stored(q)' = Stored(q) \union {seq[r] + 1}
      BY <2>1, <2>2, <2>4, <2>8 DEF Stored
    <3>3. QED
      BY <2>7, <3>1, <3>2
  <2>9. CASE q # r
    <3>1. id[r] # id[q] /\ timeline'[q] = timeline[q]
      BY <2>2, <2>6, <2>9 DEF Unshared, UnderWay
    <3>2. Stored(q)' = Stored(q)
      BY <2>1, <2>2, <2>4, <3>1 DEF Stored
    <3>3. QED
      BY <2>7, <3>1, <3>2
  <2>10. QED
    BY <2>8, <2>9
<1>4. ASSUME NEW r \in Runs, EmitRaises(r) \/ WriteReport(r) \/ Save(r) \/ Die(r)
      PROVE  Streams'
  <2>1. events' = events /\ id' = id /\ timeline' = timeline
    BY <1>4 DEF EmitRaises, WriteReport, Save, Die, tables
  <2>2. stage[r] \in UnderWay /\ stage'[r] # "new"
        /\ \A q \in Runs \ {r} : stage'[q] = stage[q]
    BY <1>4 DEF EmitRaises, WriteReport, Save, Die, UnderWay
  <2> SUFFICES ASSUME NEW q \in Runs, stage'[q] \in UnderWay \union {"saved"}, Unshared(q)'
               PROVE  Stored(q)' = timeline'[q]
    BY DEF Streams
  <2>3. stage[q] \in UnderWay \union {"saved"}
    BY <2>2
  <2>4. Unshared(q)
    BY <2>1, <2>2 DEF Unshared
  <2>5. Stored(q) = timeline[q]
    BY <2>3, <2>4 DEF Streams
  <2>6. QED
    BY <2>1, <2>5 DEF Stored
<1>5. QED
  BY <1>1, <1>2, <1>3, <1>4 DEF Next, Ended

(* A run that lives and has its id to itself finds in the store exactly the   *)
(* events its report shows, whatever other runs and its own sinks did.        *)
THEOREM StreamsMatchReports == Spec => []StreamMatchesReport
<1>1. Init => SInv
  BY InitIInv DEF Init, SInv, PInv, Placed, PlacesTaken, Streams, UnderWay
<1>2. SInv /\ [Next]_vars => SInv'
  BY TypeStep, NoGapStep, PlacesStep, StreamsStep DEF SInv, PInv, IInv
<1>3. SInv => StreamMatchesReport
  BY DEF SInv, Streams, Unshared, StreamMatchesReport
<1>4. QED
  BY <1>1, <1>2, <1>3, PTL DEF Spec
=============================================================================
