---------------------------- MODULE SessionStore -----------------------------
(* The SQLite store behind `repomedic investigate`, and the runs of that      *)
(* command that share it.  A run asks for a session id (the number of saved   *)
(* sessions plus one), appends its events under that id as they are emitted,  *)
(* writes its report file, and saves the session row last.  It can die at any *)
(* point: killed, interrupted, or by an exception that escapes engine.run.    *)
EXTENDS Naturals, FiniteSets

CONSTANTS
  Runs,       \* the invocations of `repomedic investigate` on one repository
  Overlap,    \* may two of them be under way at once?
  MaxEvents   \* bound: events emitted by one run

ASSUME RunsAssumption == IsFiniteSet(Runs)
ASSUME OverlapAssumption == Overlap \in BOOLEAN
ASSUME MaxEventsAssumption == MaxEvents \in Nat

VARIABLES
  sessions,    \* table sessions: id -> the run whose payload the row holds
  events,      \* table events
  reports,     \* .repomedic/reports: id -> the run that wrote the file
  stage,       \* how far each run is
  id,          \* its session id (0: none yet)
  seq,         \* its EventBus counter
  timeline,    \* the sequence numbers its engine's ListSink has captured
  overlapped   \* have two runs ever been under way at once? (history)

tables == <<sessions, events, reports>>
runVars == <<stage, id, seq, timeline>>
vars == <<tables, runVars, overlapped>>

EventRecords == [session: Nat, seq: Nat, run: Runs]

UnderWay == {"running", "reported"}

Init ==
  /\ sessions = [i \in {} |-> 0] /\ events = {} /\ reports = [i \in {} |-> 0]
  /\ stage = [r \in Runs |-> "new"]
  /\ id = [r \in Runs |-> 0]
  /\ seq = [r \in Runs |-> 0]
  /\ timeline = [r \in Runs |-> {}]
  /\ overlapped = FALSE

MutantPutId(table, r) ==
  [i \in DOMAIN table \union {id[r]} |-> IF i = id[r] THEN i ELSE table[i]]

(* The table with run r's row for its id inserted or replaced.                *)
Put(table, r) ==
  [i \in DOMAIN table \union {id[r]} |-> IF i = id[r] THEN r ELSE table[i]]

(* next_session_id counts the rows of sessions.                               *)
MutantCountStreams == Cardinality({e.session : e \in events}) + 1
MutantCountFromZero == Cardinality(DOMAIN sessions)
NextSessionId == Cardinality(DOMAIN sessions) + 1

(* The CLI opens the store and takes an id.                                   *)
Start(r) ==
  LET others == {q \in Runs : stage[q] \in UnderWay}
  IN  /\ stage[r] = "new"
      /\ Overlap \/ others = {}
      /\ overlapped' = (overlapped \/ others # {})
      /\ id' = [id EXCEPT ![r] = NextSessionId]
      /\ stage' = [stage EXCEPT ![r] = "running"]
      /\ UNCHANGED <<tables, seq, timeline>>

(* append_event: INSERT OR IGNORE, under UNIQUE(session_id, seq).             *)
MutantInsert(e) == events \union {e}
Insert(e) ==
  IF \E d \in events : d.session = e.session /\ d.seq = e.seq
    THEN events ELSE events \union {e}

(* EventBus.emit: the number is taken, then the console, the store and the    *)
(* engine's timeline are called in that order.                                *)
Emit(r) ==
  /\ stage[r] \in UnderWay /\ seq[r] < MaxEvents
  /\ seq' = [seq EXCEPT ![r] = @ + 1]
  /\ events' = Insert([session |-> id[r], seq |-> seq[r] + 1, run |-> r])
  /\ timeline' = [timeline EXCEPT ![r] = @ \union {seq[r] + 1}]
  /\ UNCHANGED <<sessions, reports, stage, id, overlapped>>

MutantTimelineFirst(r) ==
  /\ stage[r] \in UnderWay /\ seq[r] < MaxEvents
  /\ seq' = [seq EXCEPT ![r] = @ + 1]
  /\ timeline' = [timeline EXCEPT ![r] = @ \union {seq[r] + 1}]
  /\ UNCHANGED <<tables, stage, id, overlapped>>

(* The console or the store raises (a closed pipe, a locked database): the    *)
(* number is spent and no later sink is called.  The engine's handler catches *)
(* the exception, or it ends the run (Die).                                   *)
EmitRaises(r) ==
  /\ stage[r] \in UnderWay /\ seq[r] < MaxEvents
  /\ seq' = [seq EXCEPT ![r] = @ + 1]
  /\ UNCHANGED <<tables, stage, id, timeline, overlapped>>

(* _report writes <session id>.md and .json; engine.run returns only after it. *)
WriteReport(r) ==
  /\ stage[r] \in UnderWay
  /\ reports' = Put(reports, r)
  /\ stage' = [stage EXCEPT ![r] = "reported"]
  /\ UNCHANGED <<sessions, events, id, seq, timeline, overlapped>>

MutantSaveEarly(r) ==
  /\ stage[r] \in UnderWay
  /\ sessions' = Put(sessions, r)
  /\ stage' = [stage EXCEPT ![r] = "saved"]
  /\ UNCHANGED <<events, reports, id, seq, timeline, overlapped>>

(* save_session: INSERT, or UPDATE of the row with this id.                   *)
Save(r) ==
  /\ stage[r] = "reported"
  /\ sessions' = Put(sessions, r)
  /\ stage' = [stage EXCEPT ![r] = "saved"]
  /\ UNCHANGED <<events, reports, id, seq, timeline, overlapped>>

Die(r) ==
  /\ stage[r] \in UnderWay
  /\ stage' = [stage EXCEPT ![r] = "dead"]
  /\ UNCHANGED <<tables, id, seq, timeline, overlapped>>

(* The run dies inside emit, its event stored but not yet in the timeline.    *)
DieInEmit(r) ==
  /\ stage[r] \in UnderWay /\ seq[r] < MaxEvents
  /\ seq' = [seq EXCEPT ![r] = @ + 1]
  /\ events' = Insert([session |-> id[r], seq |-> seq[r] + 1, run |-> r])
  /\ stage' = [stage EXCEPT ![r] = "dead"]
  /\ UNCHANGED <<sessions, reports, id, timeline, overlapped>>

Ended == (\A r \in Runs : stage[r] \in {"saved", "dead"}) /\ UNCHANGED vars

Next == \/ \E r \in Runs : \/ Start(r) \/ Emit(r) \/ EmitRaises(r)
                           \/ WriteReport(r) \/ Save(r)
                           \/ Die(r) \/ DieInEmit(r)
        \/ Ended

Spec == Init /\ [][Next]_vars

-----------------------------------------------------------------------------
TypeOK ==
  /\ DOMAIN sessions \subseteq Nat /\ IsFiniteSet(DOMAIN sessions)
  /\ \A i \in DOMAIN sessions : sessions[i] \in Runs
  /\ events \subseteq EventRecords
  /\ DOMAIN reports \subseteq Nat
  /\ \A i \in DOMAIN reports : reports[i] \in Runs
  /\ stage \in [Runs -> {"new", "running", "reported", "saved", "dead"}]
  /\ id \in [Runs -> Nat]
  /\ seq \in [Runs -> Nat]
  /\ timeline \in [Runs -> SUBSET Nat]
  /\ overlapped \in BOOLEAN

(* The ids of saved sessions have no gap, and a run under way holds one of    *)
(* them or the next.  So counting the rows never yields the id of a session   *)
(* that has been saved, although nothing reserves an id and runs die.         *)
SavedIdsHaveNoGap ==
  /\ DOMAIN sessions = 1 .. Cardinality(DOMAIN sessions)
  /\ \A r \in Runs : stage[r] \in UnderWay =>
       id[r] \in 1 .. Cardinality(DOMAIN sessions) + 1

(* No run is given the id of a session that is already saved.                 *)
FreshId ==
  [][\A r \in Runs : stage[r] = "new" /\ stage'[r] = "running" =>
       id'[r] \notin DOMAIN sessions]_vars

(* An event is stored under its own id and number or its place was taken: two *)
(* rows never share a place, and every event the engine's timeline has is     *)
(* there, its own or that of a run with the same id.                          *)
PlacesTaken ==
  /\ \A d, e \in events : d.session = e.session /\ d.seq = e.seq => d = e
  /\ \A r \in Runs : \A n \in timeline[r] :
       \E e \in events : e.session = id[r] /\ e.seq = n /\ id[e.run] = id[r]

Stored(r) == {e.seq : e \in {d \in events : d.session = id[r]}}

(* A run that shares its id with no other and does not die has in the store   *)
(* exactly the events of its timeline, whatever a sink raised.                *)
StreamMatchesReport ==
  \A r \in Runs : stage[r] \in UnderWay \union {"saved"} /\ (\A q \in Runs \ {r} : id[q] # id[r]) =>
    Stored(r) = timeline[r]

(* As long as runs do not overlap, a session row and the report file of the   *)
(* same name come from the same run, even after runs that died.               *)
RowMatchesReport ==
  ~ overlapped => \A i \in DOMAIN sessions : i \in DOMAIN reports /\ reports[i] = sessions[i]

(* CONTRIBUTING.md: the store sees every event the reports see.               *)
StoreSeesEveryEvent ==
  \A r \in Runs : \A n \in timeline[r] :
    [session |-> id[r], seq |-> n, run |-> r] \in events
=============================================================================
