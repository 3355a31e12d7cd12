---------------------------- MODULE CaseAgentProofs ----------------------------
(***************************************************************************)
(* Proofs about CaseAgent, for any runs, processes, responses of the model *)
(* and budgets.  The invariant says of each run how far it is (its trace   *)
(* has no halt tool before it halts, its log position grows to the length  *)
(* of the trace), of the lock that whoever is inside holds it unless a run *)
(* outlived its lease, and of the notes, in memory, that each belongs to a *)
(* call the log has or the run that wrote it has yet to log.               *)
(***************************************************************************)
EXTENDS CaseAgent, TLAPS

GoodOutcomes == {"RESOLVED", "ESCALATED", "AWAITING_BUYER", "AWAITING_ERP"}
Calls == [tool : Tools, status : {"ok", "error"}]
Halts(trace) == {i \in DOMAIN trace : trace[i].tool \in HaltTools /\ trace[i].status = "ok"}

RunStates ==
  [step : Steps, tier : 2..3, started : Nat, iterations : Nat, cost : Nat, todo : Seq(Tools),
   trace : Seq(Calls), base : SUBSET Notes, logged : Nat, outcome : Outcomes,
   final : TerminalStatuses]

WorldOK ==
  /\ durable \in BOOLEAN /\ late \in BOOLEAN
  /\ clock \in 0..MaxTime /\ faults \in 0..MaxFaults /\ tier \in 2..3
  /\ mutex \in Runs \cup {NoRun}
  /\ lease \in [holder : Runs \cup {NoRun}, expires : 0..MaxTime + Lease]
  /\ summary \subseteq Notes
  /\ \A e \in log : e.run \in Runs /\ e.tool \in Tools
  /\ run \in [Runs -> RunStates]

(* How far a run s is; d, it is one with a database. *)
Unhalted == {"waiting", "routed", "locked", "turn", "tools", "noting", "dead"}
Untraced == {"waiting", "routed", "locked", "dead"}
Noters   == {"turn", "tools", "noting", "halted"}   \* notes may not be logged yet

Progress(s) ==
  /\ s.iterations <= MaxIterations
  /\ s.step \in {"tools", "noting"} => s.todo # <<>> /\ s.iterations > 0
  /\ s.step = "noting" => Head(s.todo) = "write_case_note"

Traced(s) ==
  /\ s.step \in Unhalted => s.outcome = "NONE" /\ s.logged = 0 /\ Halts(s.trace) = {}
  /\ s.step \in Untraced => s.trace = <<>>
  /\ Halts(s.trace) \subseteq {Len(s.trace)}
  /\ s.outcome \in GoodOutcomes <=> Halts(s.trace) # {}
  /\ s.outcome = "RESOLVED" => s.trace[Len(s.trace)].tool = "declare_done"

Ended(s, d) ==
  /\ s.logged <= Len(s.trace)
  /\ s.step \in {"halted", "logged", "releasing", "raised"} => s.outcome # "NONE"
  /\ s.step \in {"logged", "releasing"} => s.logged = Len(s.trace)
  /\ s.step = "raised" => d /\ s.logged < Len(s.trace)
  /\ s.step # "done" => s.final = "NONE"
  /\ s.step = "done" =>
       \/ s.final = "NONE" /\ d /\ s.logged < Len(s.trace)
       \/ s.final = "BLOCKED" /\ s.outcome = "NONE" /\ s.trace = <<>>
       \/ s.final = Terminal(s.outcome) /\ s.outcome # "NONE" /\ s.logged = Len(s.trace)

RunOK(s, d) == Progress(s) /\ Traced(s) /\ Ended(s, d)
RunsFit == \A r \in Runs : RunOK(run[r], durable)

(* The log has what a run has logged. *)
LogFits ==
  \A r \in Runs : \A i \in 1..run[r].logged :
    \E e \in log : e.run = r /\ e.id[2] = i /\ e.tool = run[r].trace[i].tool

Holds(r) ==
  IF durable THEN late \/ (lease.holder = r /\ lease.expires >= clock) ELSE mutex = r
LockFits == \A r \in Runs : run[r].step \in Inside => Holds(r)

NotesFit ==
  ~durable =>
    /\ \A n \in summary :
         /\ n[2] \in 1..Len(run[n[1]].trace)
         /\ n[2] <= run[n[1]].logged \/ run[n[1]].step \in Noters
    /\ \A r \in Runs : run[r].step # "dead" /\ (run[r].step = "noting" => run[r].base = summary)

AgentInv == WorldOK /\ RunsFit /\ LogFits /\ LockFits /\ NotesFit

-----------------------------------------------------------------------------
(* Facts about traces and ends.                                            *)

(* The trace of a run that has not halted, one call longer.                *)
LEMMA HaltsAppend ==
  ASSUME NEW trace \in Seq(Calls), NEW x \in Calls, Halts(trace) = {}
  PROVE  /\ Append(trace, x) \in Seq(Calls) /\ Len(Append(trace, x)) = Len(trace) + 1
         /\ Append(trace, x)[Len(trace) + 1] = x
         /\ x.tool \in HaltTools /\ x.status = "ok" => Halts(Append(trace, x)) = {Len(trace) + 1}
         /\ ~(x.tool \in HaltTools /\ x.status = "ok") => Halts(Append(trace, x)) = {}
<1> DEFINE longer == Append(trace, x)
<1>1. /\ longer \in Seq(Calls) /\ Len(longer) = Len(trace) + 1 /\ Len(trace) \in Nat
      /\ DOMAIN longer = 1..Len(trace) + 1 /\ DOMAIN trace = 1..Len(trace)
      /\ longer[Len(trace) + 1] = x /\ \A i \in 1..Len(trace) : longer[i] = trace[i]
  OBVIOUS
<1> HIDE DEF longer
<1>2. \A i \in 1..Len(trace) : ~(longer[i].tool \in HaltTools /\ longer[i].status = "ok")
  BY <1>1 DEF Halts
<1>3. DOMAIN longer = 1..Len(trace) \cup {Len(trace) + 1}
  BY <1>1
<1>4. x.tool \in HaltTools /\ x.status = "ok" => Halts(longer) = {Len(trace) + 1}
  BY <1>1, <1>2, <1>3 DEF Halts
<1>5. ~(x.tool \in HaltTools /\ x.status = "ok") => Halts(longer) = {}
  BY <1>1, <1>2, <1>3 DEF Halts
<1> QED BY <1>1, <1>4, <1>5 DEF longer

(* No run has no status, and none ends BLOCKED but on a RED event.         *)
LEMMA TerminalType ==
  ASSUME NEW o \in Outcomes
  PROVE  /\ Terminal(o) \in {"RESOLVED", "MANUAL_REVIEW_REQUIRED", "FAIL_TO_HUMAN"}
         /\ Terminal(o) = "RESOLVED" <=> o = "RESOLVED"
BY DEF Terminal, Outcomes

(* A run begins with nothing.                                              *)
LEMMA NoStepFits ==
  /\ NoStep \in RunStates
  /\ \A s \in {NoStep, [NoStep EXCEPT !.step = "dead"]}, d \in BOOLEAN :
       s \in RunStates /\ RunOK(s, d) /\ s.step \notin Inside /\ s.logged = 0
<1> DEFINE dead == [NoStep EXCEPT !.step = "dead"]
<1>1. NoStep \in RunStates /\ dead \in RunStates
  <2>1. <<>> \in Seq(Tools) /\ <<>> \in Seq(Calls) /\ {} \in SUBSET Notes
    OBVIOUS
  <2>2. NoStep \in RunStates
    BY <2>1 DEF NoStep, RunStates, Steps, Outcomes, TerminalStatuses
  <2> QED BY <2>2 DEF RunStates, Steps
<1>2. /\ NoStep.step = "waiting" /\ NoStep.trace = <<>> /\ NoStep.iterations = 0
      /\ NoStep.outcome = "NONE" /\ NoStep.final = "NONE" /\ NoStep.logged = 0
      /\ dead.step = "dead" /\ dead.trace = <<>> /\ dead.iterations = 0
      /\ dead.outcome = "NONE" /\ dead.final = "NONE" /\ dead.logged = 0
  BY DEF NoStep
<1>3. Halts(<<>>) = {} /\ Len(<<>>) = 0
  BY DEF Halts
<1>4. ASSUME NEW s \in RunStates, NEW d, s.step \in {"waiting", "dead"}, s.trace = <<>>,
             s.iterations = 0, s.outcome = "NONE", s.final = "NONE", s.logged = 0
      PROVE  RunOK(s, d) /\ s.step \notin Inside
  BY <1>3, <1>4, CaseAgentAssumption
     DEF RunOK, Progress, Traced, Ended, Unhalted, Untraced, GoodOutcomes, Inside
<1> HIDE DEF dead
<1>5. \A s \in {NoStep, dead}, d \in BOOLEAN : s \in RunStates /\ RunOK(s, d)
                                               /\ s.step \notin Inside /\ s.logged = 0
  BY <1>1, <1>2, <1>4
<1> QED BY <1>1, <1>5 DEF dead

-----------------------------------------------------------------------------
(* One run moves; each part of the invariant rests on where it moves to.   *)

(* The run that moves and the others.                                      *)
LEMMA RunsKeep ==
  ASSUME WorldOK, RunsFit, NEW r \in Runs, NEW t \in RunStates, RunOK(t, durable),
         run' = [run EXCEPT ![r] = t], durable' = durable
  PROVE  /\ RunsFit' /\ run' \in [Runs -> RunStates]
         /\ run'[r] = t /\ \A q \in Runs : q # r => run'[q] = run[q]
<1>1. /\ run' \in [Runs -> RunStates] /\ run'[r] = t
      /\ \A q \in Runs : q # r => run'[q] = run[q]
  BY DEF WorldOK
<1>2. ASSUME NEW q \in Runs PROVE RunOK(run'[q], durable)
  <2>1. CASE q = r
    BY <1>1, <2>1
  <2>2. CASE q # r
    BY <1>1, <2>2 DEF RunsFit
  <2> QED BY <2>1, <2>2
<1>3. RunsFit'
  BY <1>2, ZenonT(40) DEF RunsFit, RunOK, Progress, Traced, Ended
<1> QED BY <1>1, <1>3

(* The log only grows, and has what the run that moves has logged.         *)
LEMMA LogKeeps ==
  ASSUME LogFits, NEW r \in Runs, NEW t,
         run'[r] = t, \A q \in Runs : q # r => run'[q] = run[q], log \subseteq log',
         \A i \in 1..t.logged : \E e \in log' : e.run = r /\ e.id[2] = i /\ e.tool = t.trace[i].tool
  PROVE  LogFits'
<1> SUFFICES ASSUME NEW q \in Runs, NEW i \in 1..run'[q].logged
             PROVE  \E e \in log' : e.run = q /\ e.id[2] = i /\ e.tool = run'[q].trace[i].tool
  BY DEF LogFits
<1>1. CASE q = r
  BY <1>1
<1>2. CASE q # r
  <2>1. run'[q] = run[q]
    BY <1>2
  <2>2. \E e \in log : e.run = q /\ e.id[2] = i /\ e.tool = run[q].trace[i].tool
    BY <2>1 DEF LogFits
  <2> QED BY <2>1, <2>2
<1> QED BY <1>1, <1>2

(* Nobody enters and nothing is said of the lock.                          *)
LEMMA LockKeeps ==
  ASSUME LockFits, NEW r \in Runs, NEW t,
         run'[r] = t, \A q \in Runs : q # r => run'[q] = run[q],
         t.step \in Inside => run[r].step \in Inside,
         UNCHANGED <<durable, clock, mutex, lease, late>>
  PROVE  LockFits'
<1> SUFFICES ASSUME NEW q \in Runs, run'[q].step \in Inside PROVE Holds(q)'
  BY DEF LockFits
<1>1. run[q].step \in Inside
  BY DEF LockFits
<1>2. Holds(q)
  BY <1>1 DEF LockFits
<1> QED BY <1>2 DEF Holds

(* What a move leaves of a run's notes: none is less logged than before.   *)
Follows(s, t) ==
  /\ Len(s.trace) <= Len(t.trace)
  /\ s.logged <= t.logged \/ t.step \in Noters
  /\ s.step \in Noters => t.step \in Noters \/ t.logged = Len(t.trace)
  /\ t.step # "dead"

(* The notes stay where they are.                                          *)
LEMMA NotesKeep ==
  ASSUME WorldOK, NotesFit, NEW r \in Runs, NEW t \in RunStates, ~durable => Follows(run[r], t),
         run'[r] = t, \A q \in Runs : q # r => run'[q] = run[q],
         t.step = "noting" => t.base = summary,
         UNCHANGED <<durable, summary>>
  PROVE  NotesFit'
<1> SUFFICES ASSUME ~durable PROVE NotesFit'
  BY DEF NotesFit
<1>1. Follows(run[r], t)
  OBVIOUS
<1>2. ASSUME NEW n \in summary
      PROVE  /\ n[2] \in 1..Len(run'[n[1]].trace)
             /\ n[2] <= run'[n[1]].logged \/ run'[n[1]].step \in Noters
  <2>1. /\ n[1] \in Runs /\ n[2] \in 1..Len(run[n[1]].trace)
        /\ n[2] <= run[n[1]].logged \/ run[n[1]].step \in Noters
    BY <1>2 DEF NotesFit, WorldOK, Notes
  <2>2. CASE n[1] = r
    <3>1. /\ Len(run[r].trace) \in Nat /\ Len(t.trace) \in Nat
          /\ run[r].logged \in Nat /\ t.logged \in Nat
      <4>1. run[r] \in RunStates /\ t \in RunStates
        BY DEF WorldOK
      <4>2. /\ run[r].trace \in Seq(Calls) /\ t.trace \in Seq(Calls)
            /\ run[r].logged \in Nat /\ t.logged \in Nat
        BY <4>1 DEF RunStates
      <4> QED BY <4>2
    <3>2. n[2] \in 1..Len(t.trace)
      BY <1>1, <2>1, <2>2, <3>1 DEF Follows
    <3>3. n[2] <= t.logged \/ t.step \in Noters
      BY <1>1, <2>1, <2>2, <3>1, <3>2 DEF Follows
    <3> QED BY <2>2, <3>2, <3>3
  <2>3. CASE n[1] # r
    <3>1. run'[n[1]] = run[n[1]]
      BY <2>1, <2>3
    <3> QED BY <2>1, <3>1
  <2> QED BY <2>2, <2>3
<1>3. ASSUME NEW q \in Runs
      PROVE  run'[q].step # "dead" /\ (run'[q].step = "noting" => run'[q].base = summary)
  <2>1. CASE q = r
    BY <1>1, <2>1 DEF Follows
  <2>2. CASE q # r
    BY <2>2 DEF NotesFit
  <2> QED BY <2>1, <2>2
<1> QED BY <1>2, <1>3 DEF NotesFit

(* A move that writes nothing but, at most, the tier.                      *)
LEMMA QuietStep ==
  ASSUME AgentInv, NEW r \in Runs, NEW t \in RunStates, RunOK(t, durable),
         run' = [run EXCEPT ![r] = t], tier' \in 2..3,
         UNCHANGED <<durable, clock, mutex, lease, summary, log, late, faults>>,
         t.step \in Inside => run[r].step \in Inside,
         t.logged = 0 \/ (t.logged = run[r].logged /\ t.trace = run[r].trace),
         ~durable => Follows(run[r], t), t.step = "noting" => t.base = summary
  PROVE  AgentInv'
<1>1. /\ RunsFit' /\ run' \in [Runs -> RunStates]
      /\ run'[r] = t /\ \A q \in Runs : q # r => run'[q] = run[q]
  BY RunsKeep DEF AgentInv
<1>2. WorldOK'
  BY <1>1 DEF AgentInv, WorldOK
<1>3. \A i \in 1..t.logged : \E e \in log' : e.run = r /\ e.id[2] = i /\ e.tool = t.trace[i].tool
  BY DEF AgentInv, LogFits
<1>4. LogFits'
  BY <1>1, <1>3, LogKeeps DEF AgentInv
<1>5. LockFits'
  BY <1>1, LockKeeps DEF AgentInv
<1>6. NotesFit'
  BY <1>1, NotesKeep DEF AgentInv
<1> QED BY <1>1, <1>2, <1>4, <1>5, <1>6 DEF AgentInv

-----------------------------------------------------------------------------
(* One lemma per step of a run.                                            *)

(* What the invariant says of the run that moves.                          *)
LEMMA RunFacts ==
  ASSUME AgentInv, NEW r \in Runs
  PROVE  /\ run[r] \in RunStates /\ RunOK(run[r], durable) /\ durable \in BOOLEAN
         /\ run \in [Runs -> RunStates] /\ clock \in Nat /\ tier \in 2..3
BY CaseAgentAssumption DEF AgentInv, WorldOK, RunsFit

(* Where a run without a trace may be, and what is known of one.           *)
LEMMA UntracedFits ==
  ASSUME NEW t \in RunStates, NEW d \in BOOLEAN,
         t.trace = <<>>, t.logged = 0, t.iterations <= MaxIterations,
         \/ t.step \in {"waiting", "routed", "locked", "turn", "dead"}
            /\ t.outcome = "NONE" /\ t.final = "NONE"
         \/ t.step = "done" /\ t.outcome = "NONE" /\ t.final = "BLOCKED"
         \/ t.step = "done" /\ t.outcome = "ERROR" /\ t.final = Terminal("ERROR")
  PROVE  RunOK(t, d)
<1>1. Halts(<<>>) = {} /\ Len(<<>>) = 0
  BY DEF Halts
<1> QED BY <1>1 DEF RunOK, Progress, Traced, Ended, Unhalted, Untraced, GoodOutcomes

(* The dispatch.                                                           *)
LEMMA DispatchKeeps ==
  ASSUME AgentInv, NEW r \in Runs, NEW v \in Verdicts, Dispatch(r, v)
  PROVE  AgentInv'
<1>1. PICK s : s = run[r]
  OBVIOUS
<1>2. PICK t : t = IF v = "RED" THEN [s EXCEPT !.step = "done", !.final = "BLOCKED"]
                   ELSE [s EXCEPT !.step = "routed", !.tier = tier]
  OBVIOUS
<1>3. s \in RunStates /\ RunOK(s, durable) /\ durable \in BOOLEAN /\ tier \in 2..3
  BY <1>1, RunFacts
<1>4. s.step = "waiting" /\ run' = [run EXCEPT ![r] = t]
  BY <1>1, <1>2 DEF Dispatch, Goto
<1>5. /\ s.trace = <<>> /\ s.logged = 0 /\ s.outcome = "NONE" /\ s.final = "NONE"
      /\ s.iterations <= MaxIterations
  BY <1>3, <1>4 DEF RunOK, Progress, Traced, Ended, Unhalted, Untraced
<1>6. /\ t \in RunStates /\ t.trace = s.trace /\ t.logged = s.logged
      /\ t.outcome = s.outcome /\ t.iterations = s.iterations
      /\ \/ t.step = "done" /\ t.final = "BLOCKED"
         \/ t.step = "routed" /\ t.final = s.final
  BY <1>2, <1>3 DEF RunStates, Steps, TerminalStatuses
<1>7. RunOK(t, durable)
  BY <1>3, <1>5, <1>6, UntracedFits
<1>8. Follows(s, t) /\ t.step \notin Inside /\ t.step # "noting"
  BY <1>4, <1>5, <1>6 DEF Follows, Noters, Inside
<1>9. UNCHANGED <<durable, clock, mutex, lease, tier, summary, log, late, faults>>
  BY DEF Dispatch
<1> QED BY <1>1, <1>3, <1>4, <1>5, <1>6, <1>7, <1>8, <1>9, QuietStep

(* The lock is taken, or the run ends.                                     *)
LEMMA AcquireKeeps ==
  ASSUME AgentInv, NEW r \in Runs, Acquire(r)
  PROVE  AgentInv'
<1>1. PICK s : s = run[r]
  OBVIOUS
<1>2. s \in RunStates /\ RunOK(s, durable) /\ durable \in BOOLEAN /\ clock \in Nat /\ tier \in 2..3
  BY <1>1, RunFacts
<1>3. s.step = "routed" /\ UNCHANGED <<durable, clock, tier, summary, log, late, faults>>
  BY <1>1 DEF Acquire
<1>4. /\ s.trace = <<>> /\ s.logged = 0 /\ s.outcome = "NONE" /\ s.final = "NONE"
      /\ s.iterations <= MaxIterations
  BY <1>2, <1>3 DEF RunOK, Progress, Traced, Ended, Unhalted, Untraced
<1> DEFINE free == IF durable THEN lease.holder = NoRun \/ SweepsExpired(lease) ELSE mutex = NoRun
<1>5. CASE free
  <2>1. PICK t : t = [s EXCEPT !.step = "locked", !.started = clock]
    OBVIOUS
  <2>2. /\ run' = [run EXCEPT ![r] = t]
        /\ IF durable THEN lease' = [holder |-> r, expires |-> clock + Lease] /\ mutex' = mutex
           ELSE mutex' = r /\ lease' = lease
    BY <1>1, <1>5, <2>1 DEF Acquire, Goto
  <2>3. /\ t \in RunStates /\ t.trace = s.trace /\ t.logged = s.logged /\ t.step = "locked"
        /\ t.outcome = s.outcome /\ t.iterations = s.iterations /\ t.final = s.final
    BY <1>2, <2>1 DEF RunStates, Steps
  <2>4. RunOK(t, durable)
    BY <1>2, <1>4, <2>3, UntracedFits
  <2>5. /\ RunsFit' /\ run' \in [Runs -> RunStates]
        /\ run'[r] = t /\ \A q \in Runs : q # r => run'[q] = run[q]
    BY <1>3, <2>2, <2>3, <2>4, RunsKeep DEF AgentInv
  <2>6. WorldOK'
    <3>1. /\ lease' \in [holder : Runs \cup {NoRun}, expires : 0..MaxTime + Lease]
          /\ mutex' \in Runs \cup {NoRun}
      BY <2>2, CaseAgentAssumption DEF AgentInv, WorldOK
    <3> QED BY <1>3, <2>5, <3>1 DEF AgentInv, WorldOK
  <2>7. LogFits'
    BY <1>3, <1>4, <2>3, <2>5, LogKeeps DEF AgentInv
  <2>8. NotesFit'
    <3>1. Follows(run[r], t)
      BY <1>1, <1>3, <1>4, <2>3 DEF Follows, Noters
    <3> QED BY <1>3, <2>3, <2>5, <3>1, NotesKeep DEF AgentInv
  <2>9. LockFits'
    <3> SUFFICES ASSUME NEW q \in Runs, run'[q].step \in Inside PROVE Holds(q)'
      BY DEF LockFits
    <3>1. CASE q = r
      <4>1. durable => lease'.holder = r /\ lease'.expires = clock + Lease
        BY <2>2
      <4> QED BY <1>2, <1>3, <2>2, <3>1, <4>1, CaseAgentAssumption DEF Holds
    <3>2. CASE q # r
      <4>1. run[q].step \in Inside
        BY <2>5, <3>2
      <4>2. Holds(q)
        BY <4>1 DEF AgentInv, LockFits
      <4>3. durable /\ late
        BY <1>2, <1>5, <4>2, CaseAgentAssumption DEF Holds, SweepsExpired, AgentInv, WorldOK
      <4> QED BY <1>3, <4>3 DEF Holds
    <3> QED BY <3>1, <3>2
  <2> QED BY <2>5, <2>6, <2>7, <2>8, <2>9 DEF AgentInv
<1>6. CASE ~free
  <2>1. PICK t : t = [s EXCEPT !.step = "done", !.outcome = "ERROR", !.final = Terminal("ERROR")]
    OBVIOUS
  <2>2. run' = [run EXCEPT ![r] = t] /\ UNCHANGED <<mutex, lease>>
    BY <1>1, <1>6, <2>1 DEF Acquire, Goto
  <2>3. "ERROR" \in Outcomes /\ Terminal("ERROR") \in TerminalStatuses
    BY TerminalType DEF Outcomes, TerminalStatuses
  <2>4. /\ t \in RunStates /\ t.trace = s.trace /\ t.logged = s.logged /\ t.step = "done"
        /\ t.outcome = "ERROR" /\ t.iterations = s.iterations /\ t.final = Terminal("ERROR")
    BY <1>2, <2>1, <2>3 DEF RunStates, Steps
  <2>5. RunOK(t, durable)
    BY <1>2, <1>4, <2>4, UntracedFits
  <2>6. Follows(s, t) /\ t.step \notin Inside
    BY <1>3, <1>4, <2>4 DEF Follows, Noters, Inside
  <2> QED BY <1>1, <1>2, <1>3, <1>4, <2>2, <2>4, <2>5, <2>6, QuietStep
<1> QED BY <1>5, <1>6

(* The tier goes up.                                                       *)
LEMMA GraduateKeeps ==
  ASSUME AgentInv, NEW r \in Runs, Graduate(r)
  PROVE  AgentInv'
<1>1. PICK s : s = run[r]
  OBVIOUS
<1>2. PICK t : t = [s EXCEPT !.step = "turn", !.tier = Graduated(@)]
  OBVIOUS
<1>3. s \in RunStates /\ RunOK(s, durable) /\ durable \in BOOLEAN /\ tier \in 2..3
  BY <1>1, RunFacts
<1>4. s.step = "locked" /\ run' = [run EXCEPT ![r] = t]
  BY <1>1, <1>2 DEF Graduate, Goto
<1>5. /\ s.trace = <<>> /\ s.logged = 0 /\ s.outcome = "NONE" /\ s.final = "NONE"
      /\ s.iterations <= MaxIterations
  BY <1>3, <1>4 DEF RunOK, Progress, Traced, Ended, Unhalted, Untraced
<1>6. s.tier \in 2..3 /\ Graduated(s.tier) \in 2..3
  BY <1>3 DEF RunStates, Graduated
<1>7. /\ t \in RunStates /\ t.trace = s.trace /\ t.logged = s.logged /\ t.step = "turn"
      /\ t.outcome = s.outcome /\ t.iterations = s.iterations /\ t.final = s.final
  BY <1>2, <1>3, <1>6 DEF RunStates, Steps
<1>8. RunOK(t, durable)
  BY <1>3, <1>5, <1>7, UntracedFits
<1>9. Follows(s, t) /\ s.step \in Inside
  BY <1>4, <1>5, <1>7 DEF Follows, Noters, Inside
<1>10. tier' \in 2..3 /\ UNCHANGED <<durable, clock, mutex, lease, summary, log, late, faults>>
  BY <1>1, <1>3, <1>6 DEF Graduate
<1> QED BY <1>1, <1>3, <1>4, <1>5, <1>7, <1>8, <1>9, <1>10, QuietStep

(* A run that halts.                                                       *)
LEMMA HaltedFields ==
  ASSUME NEW s \in RunStates, NEW o \in Outcomes
  PROVE  /\ Halted(s, o) \in RunStates /\ Halted(s, o).step = "halted"
         /\ Halted(s, o).outcome = o /\ Halted(s, o).todo = <<>>
         /\ Halted(s, o).trace = s.trace /\ Halted(s, o).logged = s.logged
         /\ Halted(s, o).iterations = s.iterations /\ Halted(s, o).final = s.final
<1>1. "halted" \in Steps /\ <<>> \in Seq(Tools)
  BY DEF Steps
<1> QED BY <1>1 DEF Halted, RunStates

(* One turn.                                                               *)
LEMMA TurnKeeps ==
  ASSUME AgentInv, NEW r \in Runs, Turn(r)
  PROVE  AgentInv'
<1>1. PICK s : s = run[r]
  OBVIOUS
<1>2. s \in RunStates /\ RunOK(s, durable) /\ durable \in BOOLEAN /\ tier \in 2..3
  BY <1>1, RunFacts
<1>3. s.step = "turn" /\ UNCHANGED <<durable, clock, mutex, lease, tier, summary, log, late, faults>>
  BY <1>1 DEF Turn
<1>4. /\ s.outcome = "NONE" /\ s.logged = 0 /\ Halts(s.trace) = {} /\ s.final = "NONE"
      /\ s.iterations \in Nat /\ s.iterations <= MaxIterations
  BY <1>2, <1>3 DEF RunOK, Progress, Traced, Ended, Unhalted, RunStates
<1>5. s.trace \in Seq(Calls) /\ Len(s.trace) \in Nat
  <2>1. s.trace \in Seq(Calls)
    BY <1>2 DEF RunStates
  <2> QED BY <2>1
<1>6. ASSUME NEW t \in RunStates, run' = [run EXCEPT ![r] = t],
             t.trace = s.trace, t.logged = s.logged, t.final = s.final,
             t.iterations <= MaxIterations,
             \/ t.step = "halted" /\ t.outcome \in {"BUDGET_EXHAUSTED", "ERROR"}
             \/ t.step = "tools" /\ t.outcome = "NONE" /\ t.todo # <<>> /\ t.iterations > 0
      PROVE  AgentInv'
  <2>1. RunOK(t, durable)
    BY <1>4, <1>5, <1>6
       DEF RunOK, Progress, Traced, Ended, Unhalted, Untraced, GoodOutcomes
  <2>2. Follows(s, t) /\ s.step \in Inside /\ t.step # "noting"
    BY <1>3, <1>5, <1>6 DEF Follows, Noters, Inside
  <2> QED BY <1>1, <1>2, <1>3, <1>6, <2>1, <2>2, QuietStep
<1>7. ASSUME NEW o \in {"BUDGET_EXHAUSTED", "ERROR"}, Goto(r, Halted(s, o))
      PROVE  AgentInv'
  <2>1. PICK t : t = Halted(s, o)
    OBVIOUS
  <2>2. o \in Outcomes
    BY DEF Outcomes
  <2>3. /\ t \in RunStates /\ t.step = "halted" /\ t.outcome = o /\ t.trace = s.trace
        /\ t.logged = s.logged /\ t.iterations = s.iterations /\ t.final = s.final
    BY <1>2, <2>1, <2>2, HaltedFields
  <2>4. run' = [run EXCEPT ![r] = t]
    BY <1>7, <2>1 DEF Goto
  <2> QED BY <1>4, <1>6, <2>3, <2>4
<1>8. ASSUME NEW calls \in Responses, NEW cost \in Costs, ~IsExhausted(s),
             Goto(r, IF calls = <<>>
                     THEN Halted([s EXCEPT !.iterations = @ + 1, !.cost = @ + cost], "ERROR")
                     ELSE [[s EXCEPT !.iterations = @ + 1, !.cost = @ + cost]
                             EXCEPT !.step = "tools", !.todo = calls])
      PROVE  AgentInv'
  <2>1. PICK u : u = [s EXCEPT !.iterations = @ + 1, !.cost = @ + cost]
    OBVIOUS
  <2>2. s.iterations + 1 \in Nat /\ s.iterations + 1 <= MaxIterations /\ s.cost + cost \in Nat
        /\ calls \in Seq(Tools)
    <3>1. s.iterations \in Nat /\ s.cost \in Nat
      BY <1>2 DEF RunStates
    <3>2. ~(s.iterations >= MaxIterations)
      BY <1>8 DEF IsExhausted
    <3>3. MaxIterations \in Nat /\ cost \in Nat /\ calls \in Seq(Tools)
      BY CaseAgentAssumption
    <3> QED BY ONLY <3>1, <3>2, <3>3
  <2>3. /\ u \in RunStates /\ u.trace = s.trace /\ u.logged = s.logged /\ u.final = s.final
        /\ u.iterations = s.iterations + 1 /\ u.outcome = s.outcome
    BY <1>2, <2>1, <2>2 DEF RunStates
  <2>4. CASE calls = <<>>
    <3>1. PICK t : t = Halted(u, "ERROR")
      OBVIOUS
    <3>2. "ERROR" \in Outcomes
      BY DEF Outcomes
    <3>3. /\ t \in RunStates /\ t.step = "halted" /\ t.outcome = "ERROR" /\ t.trace = u.trace
          /\ t.logged = u.logged /\ t.iterations = u.iterations /\ t.final = u.final
      BY <2>3, <3>1, <3>2, HaltedFields
    <3>4. run' = [run EXCEPT ![r] = t]
      BY <1>8, <2>1, <2>4, <3>1 DEF Goto
    <3> QED BY <1>4, <1>6, <2>2, <2>3, <3>3, <3>4
  <2>5. CASE calls # <<>>
    <3>1. PICK t : t = [u EXCEPT !.step = "tools", !.todo = calls]
      OBVIOUS
    <3>2. /\ t \in RunStates /\ t.step = "tools" /\ t.outcome = u.outcome /\ t.trace = u.trace
          /\ t.logged = u.logged /\ t.iterations = u.iterations /\ t.final = u.final
          /\ t.todo = calls
      BY <2>2, <2>3, <3>1 DEF RunStates, Steps
    <3>3. run' = [run EXCEPT ![r] = t]
      BY <1>8, <2>1, <2>5, <3>1 DEF Goto
    <3>4. /\ t.trace = s.trace /\ t.logged = s.logged /\ t.final = s.final /\ t.outcome = "NONE"
          /\ t.iterations <= MaxIterations /\ t.iterations > 0 /\ t.todo # <<>>
      BY <1>4, <2>2, <2>3, <2>5, <3>2
    <3> QED BY <1>6, <3>2, <3>3, <3>4
  <2> QED BY <2>4, <2>5
<1>9. \/ Goto(r, Halted(s, "BUDGET_EXHAUSTED"))
      \/ Goto(r, Halted(s, "ERROR"))
      \/ /\ ~IsExhausted(s)
         /\ \E calls \in Responses, cost \in Costs :
              Goto(r, IF calls = <<>>
                      THEN Halted([s EXCEPT !.iterations = @ + 1, !.cost = @ + cost], "ERROR")
                      ELSE [[s EXCEPT !.iterations = @ + 1, !.cost = @ + cost]
                              EXCEPT !.step = "tools", !.todo = calls])
  BY <1>1 DEF Turn
<1> QED BY <1>7, <1>8, <1>9

(* The run after the call that was next.                                   *)
NextCall(s, status, cost, outcome) ==
  After(Called(s, status, cost), Head(s.todo), status, outcome)

(* What follows a call: the run halts by a halt tool that succeeded, or    *)
(* goes on.                                                                *)
LEMMA AfterCall ==
  ASSUME NEW s \in RunStates, NEW d \in BOOLEAN, RunOK(s, d), s.step \in {"tools", "noting"},
         NEW status \in {"ok", "error"}, NEW cost \in Nat, NEW outcome,
         Head(s.todo) \in HaltTools /\ status = "ok" => outcome \in OutcomesOf(Head(s.todo)),
         NEW t, t = NextCall(s, status, cost, outcome)
  PROVE  /\ t \in RunStates /\ RunOK(t, d) /\ t.logged = 0 /\ t.step \in {"turn", "tools", "halted"}
         /\ Len(t.trace) = Len(s.trace) + 1 /\ Len(s.trace) \in Nat /\ s.logged = 0
<1>1. PICK tool : tool = Head(s.todo)
  OBVIOUS
<1>2. PICK x : x = [tool |-> tool, status |-> status]
  OBVIOUS
<1>3. /\ s.outcome = "NONE" /\ s.logged = 0 /\ Halts(s.trace) = {} /\ s.final = "NONE"
      /\ s.iterations \in Nat /\ s.iterations <= MaxIterations /\ s.iterations > 0
      /\ s.todo # <<>> /\ s.todo \in Seq(Tools) /\ s.trace \in Seq(Calls) /\ s.cost \in Nat
  BY DEF RunOK, Progress, Traced, Ended, Unhalted, RunStates
<1>4. tool \in Tools /\ Tail(s.todo) \in Seq(Tools) /\ Len(s.trace) \in Nat
  BY <1>1, <1>3
<1>5. x \in Calls /\ x.tool = tool /\ x.status = status
  BY <1>2, <1>4 DEF Calls
<1>6. PICK u : u = Called(s, status, cost)
  OBVIOUS
<1>7. PICK trace : trace = Append(s.trace, x)
  OBVIOUS
<1>8. /\ trace \in Seq(Calls) /\ Len(trace) = Len(s.trace) + 1 /\ trace[Len(s.trace) + 1] = x
      /\ tool \in HaltTools /\ status = "ok" => Halts(trace) = {Len(s.trace) + 1}
      /\ ~(tool \in HaltTools /\ status = "ok") => Halts(trace) = {}
  BY <1>3, <1>5, <1>7, HaltsAppend
<1>9. u = [s EXCEPT !.trace = trace, !.todo = Tail(@), !.cost = @ + cost]
  BY <1>1, <1>2, <1>6, <1>7 DEF Called
<1>10. /\ u \in RunStates /\ u.trace = trace /\ u.logged = 0 /\ u.outcome = "NONE"
       /\ u.final = "NONE" /\ u.iterations = s.iterations
  <2>1. s.cost + cost \in Nat /\ Tail(s.todo) \in Seq(Tools) /\ trace \in Seq(Calls)
    BY <1>3, <1>4, <1>8
  <2> QED BY <1>3, <1>9, <2>1 DEF RunStates
<1>11. CASE tool \in HaltTools /\ status = "ok"
  <2>1. t = Halted(u, outcome)
    BY <1>1, <1>6, <1>11 DEF NextCall, After
  <2>2. outcome \in GoodOutcomes /\ (outcome = "RESOLVED" => tool = "declare_done")
    BY <1>1, <1>11 DEF OutcomesOf, HaltTools, GoodOutcomes
  <2>3. outcome \in Outcomes /\ outcome # "NONE"
    BY <2>2 DEF GoodOutcomes, Outcomes
  <2>4. /\ t \in RunStates /\ t.step = "halted" /\ t.outcome = outcome /\ t.trace = u.trace
        /\ t.logged = u.logged /\ t.iterations = u.iterations /\ t.final = u.final
    BY <1>10, <2>1, <2>3, HaltedFields
  <2>5. RunOK(t, d)
    <3>1. /\ t.trace = trace /\ t.logged = 0 /\ t.final = "NONE" /\ t.iterations = s.iterations
          /\ Halts(trace) = {Len(trace)} /\ trace[Len(trace)].tool = tool /\ Len(trace) \in Nat
      BY <1>4, <1>5, <1>8, <1>10, <1>11, <2>4
    <3>2. Progress(t)
      BY <1>3, <2>4, <3>1 DEF Progress
    <3>3. Traced(t)
      BY <2>2, <2>4, <3>1 DEF Traced, Unhalted, Untraced
    <3>4. Ended(t, d)
      BY <2>3, <2>4, <3>1 DEF Ended
    <3> QED BY <3>2, <3>3, <3>4 DEF RunOK
  <2> QED BY <1>3, <1>4, <1>8, <1>10, <2>4, <2>5
<1>12. CASE ~(tool \in HaltTools /\ status = "ok")
  <2>1. t = [u EXCEPT !.step = IF u.todo = <<>> THEN "turn" ELSE "tools"]
    BY <1>1, <1>6, <1>12 DEF NextCall, After
  <2>2. /\ t \in RunStates /\ t.step \in {"turn", "tools"} /\ t.outcome = u.outcome
        /\ t.trace = u.trace /\ t.logged = u.logged /\ t.iterations = u.iterations
        /\ t.final = u.final
        /\ t.step = "tools" => t.todo # <<>>
    BY <1>10, <2>1 DEF RunStates, Steps
  <2>3. RunOK(t, d)
    <3>1. /\ t.trace = trace /\ t.logged = 0 /\ t.final = "NONE" /\ t.iterations = s.iterations
          /\ Halts(trace) = {} /\ Len(trace) \in Nat /\ t.outcome = "NONE"
      BY <1>3, <1>4, <1>8, <1>10, <1>12, <2>2
    <3>2. Progress(t)
      BY <1>3, <2>2, <3>1 DEF Progress
    <3>3. Traced(t)
      BY <2>2, <3>1 DEF Traced, Unhalted, Untraced, GoodOutcomes
    <3>4. Ended(t, d)
      BY <2>2, <3>1 DEF Ended
    <3> QED BY <3>2, <3>3, <3>4 DEF RunOK
  <2> QED BY <1>3, <1>4, <1>8, <1>10, <2>2, <2>3
<1> QED BY <1>11, <1>12

(* A call, or the read of the summary a note goes into.                    *)
LEMMA ToolKeeps ==
  ASSUME AgentInv, NEW r \in Runs, Tool(r)
  PROVE  AgentInv'
<1>1. PICK s : s = run[r]
  OBVIOUS
<1>2. s \in RunStates /\ RunOK(s, durable) /\ durable \in BOOLEAN /\ tier \in 2..3
  BY <1>1, RunFacts
<1>3. s.step = "tools" /\ UNCHANGED <<durable, clock, mutex, lease, tier, summary, log, late, faults>>
  BY <1>1 DEF Tool
<1>4. PICK status \in Statuses(Head(s.todo)), outcome \in OutcomesOf(Head(s.todo)) :
        IF Head(s.todo) = "write_case_note" /\ status = "ok"
        THEN Goto(r, [s EXCEPT !.step = "noting", !.base = summary])
        ELSE \E cost \in IF Head(s.todo) = "check" THEN Costs ELSE {0} :
               Goto(r, After(Called(s, status, cost), Head(s.todo), status, outcome))
  BY <1>1 DEF Tool
<1>5. status \in {"ok", "error"} /\ s.step \in Inside
  BY <1>3, <1>4 DEF Statuses, Inside
<1>6. CASE Head(s.todo) = "write_case_note" /\ status = "ok"
  <2>1. PICK t : t = [s EXCEPT !.step = "noting", !.base = summary]
    OBVIOUS
  <2>2. /\ t \in RunStates /\ t.step = "noting" /\ t.base = summary /\ t.todo = s.todo
        /\ t.trace = s.trace /\ t.logged = s.logged /\ t.iterations = s.iterations
        /\ t.outcome = s.outcome /\ t.final = s.final
    BY <1>2, <2>1 DEF RunStates, Steps, AgentInv, WorldOK
  <2>3. RunOK(t, durable)
    BY <1>2, <1>3, <1>6, <2>2 DEF RunOK, Progress, Traced, Ended, Unhalted, Untraced
  <2>4. run' = [run EXCEPT ![r] = t]
    BY <1>4, <1>6, <2>1 DEF Goto
  <2>5. Follows(s, t)
    <3>1. s.trace \in Seq(Calls)
      BY <1>2 DEF RunStates
    <3>2. Len(s.trace) \in Nat
      BY <3>1
    <3> QED BY <2>2, <3>2 DEF Follows, Noters
  <2> QED BY <1>1, <1>2, <1>3, <1>5, <2>2, <2>3, <2>4, <2>5, QuietStep
<1>7. CASE ~(Head(s.todo) = "write_case_note" /\ status = "ok")
  <2>1. PICK cost \in IF Head(s.todo) = "check" THEN Costs ELSE {0} :
          Goto(r, After(Called(s, status, cost), Head(s.todo), status, outcome))
    BY <1>4, <1>7
  <2>2. PICK t : t = NextCall(s, status, cost, outcome)
    OBVIOUS
  <2>3. cost \in Nat
    BY <2>1, CaseAgentAssumption
  <2>4. /\ t \in RunStates /\ RunOK(t, durable) /\ t.logged = 0
        /\ t.step \in {"turn", "tools", "halted"}
        /\ Len(t.trace) = Len(s.trace) + 1 /\ Len(s.trace) \in Nat
    <3>1. s.step \in {"tools", "noting"} /\ status \in {"ok", "error"}
      BY <1>3, <1>5
    <3>2. s \in RunStates /\ durable \in BOOLEAN /\ RunOK(s, durable)
      BY <1>2
    <3>3. Head(s.todo) \in HaltTools /\ status = "ok" => outcome \in OutcomesOf(Head(s.todo))
      BY <1>4
    <3> QED BY ONLY <2>2, <2>3, <3>1, <3>2, <3>3, AfterCall
  <2>5. run' = [run EXCEPT ![r] = t]
    BY <2>1, <2>2 DEF Goto, NextCall
  <2>6. Follows(s, t) /\ t.step # "noting"
    BY <2>4 DEF Follows, Noters
  <2> QED BY <1>1, <1>2, <1>3, <1>5, <2>4, <2>5, <2>6, QuietStep
<1> QED BY <1>6, <1>7

(* In memory nobody else is inside.                                        *)
LEMMA AloneInMemory ==
  ASSUME AgentInv, ~durable, NEW q \in Runs, NEW r \in Runs, run[r].step \in Inside, q # r
  PROVE  run[q].step \notin Inside
BY DEF AgentInv, LockFits, Holds

(* The note is written.                                                    *)
LEMMA WriteCaseNoteKeeps ==
  ASSUME AgentInv, NEW r \in Runs, WriteCaseNote(r)
  PROVE  AgentInv'
<1>1. PICK s : s = run[r]
  OBVIOUS
<1>2. s \in RunStates /\ RunOK(s, durable) /\ durable \in BOOLEAN
  BY <1>1, RunFacts
<1>3. /\ s.step = "noting" /\ summary' = s.base \cup {<<r, Len(s.trace) + 1>>}
      /\ UNCHANGED <<durable, clock, mutex, lease, tier, log, late, faults>>
  BY <1>1 DEF WriteCaseNote, Noted
<1>4. PICK u : u = [s EXCEPT !.base = {}]
  OBVIOUS
<1>5. /\ u \in RunStates /\ u.step = s.step /\ u.todo = s.todo /\ u.trace = s.trace
      /\ u.logged = s.logged /\ u.iterations = s.iterations /\ u.outcome = s.outcome
      /\ u.final = s.final
  BY <1>2, <1>4 DEF RunStates
<1>6. RunOK(u, durable) /\ Head(u.todo) = "write_case_note"
  BY <1>2, <1>3, <1>5 DEF RunOK, Progress, Traced, Ended
<1>7. PICK t : t = NextCall(u, "ok", 0, "NONE")
  OBVIOUS
<1>8. /\ t \in RunStates /\ RunOK(t, durable) /\ t.logged = 0
      /\ t.step \in {"turn", "tools", "halted"}
      /\ Len(t.trace) = Len(s.trace) + 1 /\ Len(s.trace) \in Nat /\ s.logged = 0
  <2>1. Head(u.todo) \notin HaltTools /\ u.step \in {"tools", "noting"} /\ 0 \in Nat
        /\ "ok" \in {"ok", "error"}
    BY <1>3, <1>5, <1>6 DEF HaltTools
  <2>2. u \in RunStates /\ durable \in BOOLEAN /\ RunOK(u, durable)
    BY <1>2, <1>5, <1>6
  <2>3. /\ t \in RunStates /\ RunOK(t, durable) /\ t.logged = 0
        /\ t.step \in {"turn", "tools", "halted"}
        /\ Len(t.trace) = Len(u.trace) + 1 /\ Len(u.trace) \in Nat /\ u.logged = 0
    BY ONLY <1>7, <2>1, <2>2, AfterCall
  <2> QED BY <1>5, <2>3
<1>9. run' = [run EXCEPT ![r] = t]
  BY <1>1, <1>4, <1>6, <1>7 DEF WriteCaseNote, Goto, NextCall
<1>10. /\ RunsFit' /\ run' \in [Runs -> RunStates]
       /\ run'[r] = t /\ \A q \in Runs : q # r => run'[q] = run[q]
  BY <1>3, <1>8, <1>9, RunsKeep DEF AgentInv
<1>11. WorldOK'
  <2>1. s.base \subseteq Notes
    BY <1>2 DEF RunStates
  <2>2. summary' \subseteq Notes
    BY <1>3, <1>8, <2>1 DEF Notes
  <2> QED BY <1>3, <1>10, <2>2 DEF AgentInv, WorldOK
<1>12. LogFits'
  BY <1>3, <1>8, <1>10, LogKeeps DEF AgentInv
<1>13. LockFits'
  BY <1>1, <1>3, <1>10, LockKeeps DEF AgentInv, Inside
<1>14. NotesFit'
  <2> SUFFICES ASSUME ~durable PROVE NotesFit'
    BY <1>3 DEF NotesFit
  <2>1. summary' = summary \cup {<<r, Len(s.trace) + 1>>}
    BY <1>1, <1>3 DEF AgentInv, NotesFit
  <2>2. ASSUME NEW n \in summary'
        PROVE  /\ n[2] \in 1..Len(run'[n[1]].trace)
               /\ n[2] <= run'[n[1]].logged \/ run'[n[1]].step \in Noters
    <3>1. CASE n = <<r, Len(s.trace) + 1>>
      BY <1>8, <1>10, <3>1 DEF Noters
    <3>2. CASE n \in summary
      <4>1. /\ n[1] \in Runs /\ n[2] \in 1..Len(run[n[1]].trace)
            /\ n[2] <= run[n[1]].logged \/ run[n[1]].step \in Noters
        BY <3>2 DEF AgentInv, NotesFit, WorldOK, Notes
      <4>2. CASE n[1] = r
        BY <1>1, <1>8, <1>10, <4>1, <4>2 DEF Noters
      <4>3. CASE n[1] # r
        <5>1. run'[n[1]] = run[n[1]]
          BY <1>10, <4>1, <4>3
        <5> QED BY <4>1, <5>1
      <4> QED BY <4>2, <4>3
    <3> QED BY <2>1, <2>2, <3>1, <3>2
  <2>3. ASSUME NEW q \in Runs
        PROVE  run'[q].step # "dead" /\ run'[q].step # "noting"
    <3>1. CASE q = r
      BY <1>8, <1>10, <3>1
    <3>2. CASE q # r
      <4>1. run[r].step \in Inside
        BY <1>1, <1>3 DEF Inside
      <4>2. run[q].step \notin Inside /\ run[q].step # "dead"
        BY <3>2, <4>1, AloneInMemory DEF AgentInv, NotesFit
      <4> QED BY <1>10, <3>2, <4>2 DEF Inside
    <3> QED BY <3>1, <3>2
  <2> QED BY <2>2, <2>3 DEF NotesFit
<1> QED BY <1>10, <1>11, <1>12, <1>13, <1>14 DEF AgentInv

(* The lengths of a run's trace and log.                                   *)
LEMMA TraceType ==
  ASSUME NEW s \in RunStates
  PROVE  s.trace \in Seq(Calls) /\ Len(s.trace) \in Nat /\ s.logged \in Nat
<1>1. s.trace \in Seq(Calls) /\ s.logged \in Nat
  BY DEF RunStates
<1> QED BY <1>1

(* One entry of the trace is logged, or the logging ends.                  *)
LEMMA LogEntryKeeps ==
  ASSUME AgentInv, NEW r \in Runs, LogEntry(r)
  PROVE  AgentInv'
<1>1. PICK s : s = run[r]
  OBVIOUS
<1>2. PICK i : i = s.logged + 1
  OBVIOUS
<1>3. s \in RunStates /\ RunOK(s, durable) /\ durable \in BOOLEAN /\ tier \in 2..3
  BY <1>1, RunFacts
<1>4. s.step = "halted" /\ UNCHANGED <<durable, clock, mutex, lease, tier, summary, late, faults>>
  BY <1>1 DEF LogEntry
<1>5. /\ s.trace \in Seq(Calls) /\ Len(s.trace) \in Nat /\ s.logged \in Nat
      /\ s.logged <= Len(s.trace) /\ s.outcome # "NONE" /\ s.final = "NONE" /\ s.step \in Inside
  BY <1>3, <1>4, TraceType DEF RunOK, Ended, Inside
<1>6. CASE i > Len(s.trace)
  <2>1. PICK t : t = [s EXCEPT !.step = "logged"]
    OBVIOUS
  <2>2. run' = [run EXCEPT ![r] = t] /\ log' = log
    BY <1>1, <1>2, <1>6, <2>1 DEF LogEntry, Goto
  <2>3. /\ t \in RunStates /\ t.step = "logged" /\ t.trace = s.trace /\ t.logged = s.logged
        /\ t.iterations = s.iterations /\ t.outcome = s.outcome /\ t.final = s.final
    BY <1>3, <2>1 DEF RunStates, Steps
  <2>4. t.logged = Len(t.trace)
    BY <1>2, <1>5, <1>6, <2>3
  <2>5. RunOK(t, durable)
    BY <1>3, <1>4, <1>5, <2>3, <2>4 DEF RunOK, Progress, Traced, Ended, Unhalted, Untraced
  <2>6. Follows(s, t)
    BY <1>5, <2>3, <2>4 DEF Follows
  <2> QED BY <1>1, <1>3, <1>4, <1>5, <2>2, <2>3, <2>5, <2>6, QuietStep
<1>7. CASE ~(i > Len(s.trace)) /\ Clash(r, i)
  <2>1. PICK t : t = [s EXCEPT !.step = "raised"]
    OBVIOUS
  <2>2. run' = [run EXCEPT ![r] = t] /\ log' = log /\ durable
    BY <1>1, <1>2, <1>7, <2>1 DEF LogEntry, Goto, Clash
  <2>3. /\ t \in RunStates /\ t.step = "raised" /\ t.trace = s.trace /\ t.logged = s.logged
        /\ t.iterations = s.iterations /\ t.outcome = s.outcome /\ t.final = s.final
    BY <1>3, <2>1 DEF RunStates, Steps
  <2>4. t.logged < Len(t.trace)
    BY <1>2, <1>5, <1>7, <2>3
  <2>5. RunOK(t, durable)
    BY <1>3, <1>4, <1>5, <2>2, <2>3, <2>4 DEF RunOK, Progress, Traced, Ended, Unhalted, Untraced
  <2> QED BY <1>1, <1>3, <1>4, <1>5, <2>2, <2>3, <2>5, QuietStep
<1>8. CASE ~(i > Len(s.trace)) /\ ~Clash(r, i)
  <2>1. PICK t : t = [s EXCEPT !.logged = i]
    OBVIOUS
  <2>2. PICK e : e = Entry(r, i)
    OBVIOUS
  <2>3. /\ run' = [run EXCEPT ![r] = t]
        /\ log' = log \cup {e}
    BY <1>1, <1>2, <1>8, <2>1, <2>2 DEF LogEntry, Goto, Clash
  <2>4. i \in 1..Len(s.trace) /\ i \in Nat
    BY <1>2, <1>5, <1>8
  <2>5. /\ t \in RunStates /\ t.step = "halted" /\ t.trace = s.trace /\ t.logged = i
        /\ t.iterations = s.iterations /\ t.outcome = s.outcome /\ t.final = s.final
    BY <1>3, <1>4, <2>1, <2>4 DEF RunStates
  <2>6. RunOK(t, durable)
    BY <1>3, <1>4, <1>5, <2>4, <2>5 DEF RunOK, Progress, Traced, Ended, Unhalted, Untraced
  <2>7. /\ RunsFit' /\ run' \in [Runs -> RunStates]
        /\ run'[r] = t /\ \A q \in Runs : q # r => run'[q] = run[q]
    BY <1>4, <2>3, <2>5, <2>6, RunsKeep DEF AgentInv
  <2>8. e.run = r /\ e.id[2] = i /\ e.tool = s.trace[i].tool /\ e.tool \in Tools
    <3>1. s.trace[i] \in Calls
      BY <1>5, <2>4
    <3>2. s.trace[i].tool \in Tools
      BY <3>1 DEF Calls
    <3> QED BY <1>1, <2>2, <3>2 DEF Entry, EventId
  <2>9. WorldOK'
    BY <1>4, <2>3, <2>7, <2>8 DEF AgentInv, WorldOK
  <2>10. LogFits'
    <3>1. ASSUME NEW k \in 1..t.logged
          PROVE  \E f \in log' : f.run = r /\ f.id[2] = k /\ f.tool = t.trace[k].tool
      <4>1. CASE k = i
        BY <2>3, <2>5, <2>8, <4>1
      <4>2. CASE k # i
        <5>1. k \in 1..run[r].logged
          BY <1>1, <1>2, <1>5, <2>5, <4>2
        <5>2. \E f \in log : f.run = r /\ f.id[2] = k /\ f.tool = run[r].trace[k].tool
          BY <5>1 DEF AgentInv, LogFits
        <5> QED BY <1>1, <2>3, <2>5, <5>2
      <4> QED BY <4>1, <4>2
    <3> QED BY <2>3, <2>7, <3>1, LogKeeps DEF AgentInv
  <2>11. LockFits'
    BY <1>1, <1>4, <1>5, <2>7, LockKeeps DEF AgentInv
  <2>12. NotesFit'
    <3>1. Follows(run[r], t)
      BY <1>1, <1>2, <1>5, <2>5 DEF Follows, Noters
    <3> QED BY <1>4, <2>5, <2>7, <3>1, NotesKeep DEF AgentInv
  <2> QED BY <2>7, <2>9, <2>10, <2>11, <2>12 DEF AgentInv
<1> QED BY <1>6, <1>7, <1>8

(* The summary is kept, or becomes lines of the log.                       *)
LEMMA CompactKeeps ==
  ASSUME AgentInv, NEW r \in Runs, Compact(r)
  PROVE  AgentInv'
<1>1. PICK s : s = run[r]
  OBVIOUS
<1>2. PICK t : t = [s EXCEPT !.step = "releasing"]
  OBVIOUS
<1>3. s \in RunStates /\ RunOK(s, durable) /\ durable \in BOOLEAN
  BY <1>1, RunFacts
<1>4. /\ s.step = "logged" /\ run' = [run EXCEPT ![r] = t]
      /\ summary' = summary \/ summary' = {}
      /\ UNCHANGED <<durable, clock, mutex, lease, tier, log, late, faults>>
  BY <1>1, <1>2 DEF Compact, Goto
<1>5. /\ t \in RunStates /\ t.step = "releasing" /\ t.trace = s.trace /\ t.logged = s.logged
      /\ t.iterations = s.iterations /\ t.outcome = s.outcome /\ t.final = s.final
  BY <1>2, <1>3 DEF RunStates, Steps
<1>6. RunOK(t, durable) /\ s.logged = Len(s.trace)
  BY <1>3, <1>4, <1>5 DEF RunOK, Progress, Traced, Ended, Unhalted, Untraced
<1>7. /\ RunsFit' /\ run' \in [Runs -> RunStates]
      /\ run'[r] = t /\ \A q \in Runs : q # r => run'[q] = run[q]
  BY <1>4, <1>5, <1>6, RunsKeep DEF AgentInv
<1>8. WorldOK'
  BY <1>4, <1>7 DEF AgentInv, WorldOK
<1>9. \A i \in 1..t.logged : \E e \in log : e.run = r /\ e.id[2] = i /\ e.tool = t.trace[i].tool
  BY <1>1, <1>5 DEF AgentInv, LogFits
<1>10. LogFits'
  BY <1>4, <1>7, <1>9, LogKeeps DEF AgentInv
<1>11. LockFits'
  BY <1>1, <1>4, <1>7, LockKeeps DEF AgentInv, Inside
<1>12. NotesFit'
  <2>1. CASE summary' = summary
    <3>1. Follows(run[r], t) /\ t.step # "noting"
      BY <1>1, <1>3, <1>5, <1>6, TraceType DEF Follows
    <3> QED BY <1>4, <1>5, <1>7, <2>1, <3>1, NotesKeep DEF AgentInv
  <2>2. CASE summary' = {}
    <3>1. ASSUME ~durable, NEW q \in Runs
          PROVE  run'[q].step # "dead" /\ run'[q].step # "noting"
      <4>1. CASE q = r
        BY <1>5, <1>7, <4>1
      <4>2. CASE q # r
        <5>1. run[r].step \in Inside
          BY <1>1, <1>4 DEF Inside
        <5>2. run[q].step \notin Inside /\ run[q].step # "dead"
          BY <3>1, <4>2, <5>1, AloneInMemory DEF AgentInv, NotesFit
        <5> QED BY <1>7, <4>2, <5>2 DEF Inside
      <4> QED BY <4>1, <4>2
    <3> QED BY <1>4, <2>2, <3>1 DEF NotesFit
  <2> QED BY <1>4, <2>1, <2>2
<1> QED BY <1>7, <1>8, <1>10, <1>11, <1>12 DEF AgentInv

(* The lock is released, by a run that was alone with it.                  *)
LEMMA ReleaseKeeps ==
  ASSUME AgentInv, NEW r \in Runs, Release(r)
  PROVE  AgentInv'
<1>1. PICK s : s = run[r]
  OBVIOUS
<1>2. PICK f : f = IF s.step = "raised" THEN "NONE" ELSE Terminal(s.outcome)
  OBVIOUS
<1>3. PICK t : t = [s EXCEPT !.step = "done", !.started = 0, !.cost = 0, !.final = f]
  OBVIOUS
<1>4. s \in RunStates /\ RunOK(s, durable) /\ durable \in BOOLEAN
  BY <1>1, RunFacts
<1>5. /\ s.step \in {"releasing", "raised"} /\ run' = [run EXCEPT ![r] = t]
      /\ mutex' = IF durable THEN mutex ELSE NoRun
      /\ lease' = IF durable THEN [holder |-> NoRun, expires |-> 0] ELSE lease
      /\ UNCHANGED <<durable, clock, tier, summary, log, late, faults>>
  BY <1>1, <1>2, <1>3 DEF Release, Goto, OnExit
<1>6. s.outcome \in Outcomes /\ f \in TerminalStatuses
  <2>1. s.outcome \in Outcomes
    BY <1>4 DEF RunStates
  <2> QED BY <1>2, <2>1, TerminalType DEF TerminalStatuses
<1>7. /\ t \in RunStates /\ t.step = "done" /\ t.trace = s.trace /\ t.logged = s.logged
      /\ t.iterations = s.iterations /\ t.outcome = s.outcome /\ t.final = f
  BY <1>3, <1>4, <1>6 DEF RunStates, Steps
<1>8. /\ s.outcome # "NONE"
      /\ s.step = "releasing" => s.logged = Len(s.trace)
      /\ s.step = "raised" => durable /\ s.logged < Len(s.trace)
  BY <1>4, <1>5 DEF RunOK, Ended
<1>9. RunOK(t, durable)
  <2>1. Progress(t) /\ Traced(t)
    BY <1>4, <1>5, <1>7 DEF RunOK, Progress, Traced, Unhalted, Untraced
  <2>2. Ended(t, durable)
    BY <1>2, <1>4, <1>5, <1>7, <1>8 DEF RunOK, Ended
  <2> QED BY <2>1, <2>2 DEF RunOK
<1>10. /\ RunsFit' /\ run' \in [Runs -> RunStates]
       /\ run'[r] = t /\ \A q \in Runs : q # r => run'[q] = run[q]
  BY <1>5, <1>7, <1>9, RunsKeep DEF AgentInv
<1>11. WorldOK'
  <2>1. /\ lease' \in [holder : Runs \cup {NoRun}, expires : 0..MaxTime + Lease]
        /\ mutex' \in Runs \cup {NoRun}
    BY <1>5, CaseAgentAssumption DEF AgentInv, WorldOK
  <2> QED BY <1>5, <1>10, <2>1 DEF AgentInv, WorldOK
<1>12. \A i \in 1..t.logged : \E e \in log : e.run = r /\ e.id[2] = i /\ e.tool = t.trace[i].tool
  BY <1>1, <1>7 DEF AgentInv, LogFits
<1>13. LogFits'
  BY <1>5, <1>10, <1>12, LogKeeps DEF AgentInv
<1>14. LockFits'
  <2> SUFFICES ASSUME NEW q \in Runs, run'[q].step \in Inside PROVE Holds(q)'
    BY DEF LockFits
  <2>1. q # r /\ run[q].step \in Inside
    BY <1>7, <1>10 DEF Inside
  <2>2. Holds(q) /\ Holds(r)
    BY <1>1, <1>5, <2>1 DEF AgentInv, LockFits, Inside
  <2>3. durable /\ late
    BY <2>1, <2>2 DEF Holds
  <2> QED BY <1>5, <2>3 DEF Holds
<1>15. NotesFit'
  <2>1. ~durable => Follows(run[r], t)
    BY <1>1, <1>4, <1>5, <1>7, <1>8, TraceType DEF Follows, Noters
  <2>2. t.step # "noting"
    BY <1>7
  <2> QED BY <1>5, <1>7, <1>10, <2>1, <2>2, NotesKeep DEF AgentInv
<1> QED BY <1>10, <1>11, <1>13, <1>14, <1>15 DEF AgentInv

-----------------------------------------------------------------------------
(* Time and crashes.                                                       *)

(* Whoever is inside when its lease ends is late from then on.             *)
LEMMA TickKeeps ==
  ASSUME AgentInv, Tick
  PROVE  AgentInv'
<1>1. /\ clock < MaxTime /\ clock' = clock + 1
      /\ late' = (late \/ (durable /\ \E r \in Runs : Outlived(r)))
      /\ UNCHANGED <<durable, mutex, lease, tier, summary, log, run, faults>>
  BY DEF Tick
<1>2. WorldOK'
  <2>1. clock' \in 0..MaxTime /\ late' \in BOOLEAN
    BY <1>1, CaseAgentAssumption DEF AgentInv, WorldOK
  <2> QED BY <1>1, <2>1 DEF AgentInv, WorldOK
<1>3. RunsFit' /\ LogFits' /\ NotesFit'
  <2>1. RunsFit'
    BY <1>1 DEF AgentInv, RunsFit, RunOK, Progress, Traced, Ended
  <2>2. LogFits'
    BY <1>1 DEF AgentInv, LogFits
  <2>3. NotesFit'
    BY <1>1 DEF AgentInv, NotesFit
  <2> QED BY <2>1, <2>2, <2>3
<1>4. ASSUME NEW q \in Runs, run'[q].step \in Inside PROVE Holds(q)'
  <2>1. run[q].step \in Inside
    BY <1>1, <1>4
  <2>2. Holds(q)
    BY <2>1 DEF AgentInv, LockFits
  <2>3. CASE durable /\ ~late'
    <3>1. ~late /\ ~Outlived(q)
      BY <1>1, <2>3
    <3>2. lease.holder = q /\ ~(lease.expires < clock + 1)
      BY <2>1, <3>1 DEF Outlived
    <3>3. lease.expires \in Nat /\ clock \in Nat
      BY CaseAgentAssumption DEF AgentInv, WorldOK
    <3>4. lease'.holder = q /\ lease'.expires >= clock'
      BY <1>1, <3>2, <3>3
    <3> QED BY <1>1, <2>3, <3>4 DEF Holds
  <2>4. CASE ~durable \/ late'
    BY <1>1, <2>2, <2>4 DEF Holds
  <2> QED BY <2>3, <2>4
<1> QED BY <1>2, <1>3, <1>4 DEF AgentInv, LockFits

(* The runs of a process are gone; what they stored stays.                 *)
LEMMA CrashKeeps ==
  ASSUME AgentInv, NEW r \in Runs, Crash(r)
  PROVE  AgentInv'
<1>1. PICK dead : dead = [NoStep EXCEPT !.step = "dead"]
  OBVIOUS
<1>2. /\ durable /\ faults < MaxFaults /\ faults' = faults + 1
      /\ UNCHANGED <<durable, clock, mutex, lease, tier, summary, log, late>>
      /\ run' = [q \in Runs |-> IF Process[q] = Process[r] /\ run[q].step \in Inside \cup {"routed"}
                                THEN dead ELSE run[q]]
  BY <1>1 DEF Crash
<1>3. dead \in RunStates /\ RunOK(dead, durable) /\ dead.step \notin Inside /\ dead.logged = 0
  BY <1>1, NoStepFits DEF AgentInv, WorldOK
<1>4. ASSUME NEW q \in Runs PROVE run'[q] \in {dead, run[q]}
  BY <1>2
<1>5. WorldOK'
  <2>1. faults' \in 0..MaxFaults
    BY <1>2, CaseAgentAssumption DEF AgentInv, WorldOK
  <2>2. run' \in [Runs -> RunStates]
    BY <1>2, <1>3 DEF AgentInv, WorldOK
  <2> QED BY <1>2, <2>1, <2>2 DEF AgentInv, WorldOK
<1>6. RunsFit'
  <2>1. ASSUME NEW q \in Runs PROVE RunOK(run'[q], durable)
    BY <1>3, <1>4 DEF AgentInv, RunsFit
  <2> QED BY <1>2, <2>1, ZenonT(40) DEF RunsFit, RunOK, Progress, Traced, Ended
<1>7. LogFits'
  <2> SUFFICES ASSUME NEW q \in Runs, NEW i \in 1..run'[q].logged
               PROVE  \E e \in log' : e.run = q /\ e.id[2] = i /\ e.tool = run'[q].trace[i].tool
    BY DEF LogFits
  <2>1. run'[q] = run[q]
    BY <1>3, <1>4
  <2>2. \E e \in log : e.run = q /\ e.id[2] = i /\ e.tool = run[q].trace[i].tool
    BY <2>1 DEF AgentInv, LogFits
  <2> QED BY <1>2, <2>1, <2>2
<1>8. LockFits'
  <2> SUFFICES ASSUME NEW q \in Runs, run'[q].step \in Inside PROVE Holds(q)'
    BY DEF LockFits
  <2>1. run'[q] = run[q]
    BY <1>3, <1>4
  <2>2. Holds(q)
    BY <2>1 DEF AgentInv, LockFits
  <2> QED BY <1>2, <2>2 DEF Holds
<1>9. NotesFit'
  BY <1>2 DEF NotesFit
<1> QED BY <1>5, <1>6, <1>7, <1>8, <1>9 DEF AgentInv

-----------------------------------------------------------------------------
(* The invariant and what it implies.                                      *)

(* Every event is waiting at first and nothing is stored.                  *)
LEMMA AgentInit == Init => AgentInv
<1> SUFFICES ASSUME Init PROVE AgentInv
  OBVIOUS
<1>1. \A r \in Runs : run[r] = NoStep
  BY DEF Init
<1>2. /\ NoStep \in RunStates /\ RunOK(NoStep, durable) /\ NoStep.step \notin Inside
      /\ NoStep.logged = 0 /\ NoStep.step = "waiting"
  BY NoStepFits DEF Init, NoStep
<1>3. WorldOK
  <2>1. clock \in 0..MaxTime /\ faults \in 0..MaxFaults /\ tier \in 2..3
    BY CaseAgentAssumption DEF Init
  <2>2. lease \in [holder : Runs \cup {NoRun}, expires : 0..MaxTime + Lease]
    BY CaseAgentAssumption DEF Init
  <2> QED BY <1>2, <2>1, <2>2 DEF Init, WorldOK
<1>4. RunsFit /\ LogFits /\ LockFits
  BY <1>1, <1>2 DEF RunsFit, LogFits, LockFits
<1>5. NotesFit
  BY <1>1, <1>2 DEF Init, NotesFit
<1> QED BY <1>3, <1>4, <1>5 DEF AgentInv

(* Every step keeps the invariant.                                         *)
LEMMA AgentStep == AgentInv /\ [Next]_vars => AgentInv'
<1> SUFFICES ASSUME AgentInv, [Next]_vars PROVE AgentInv'
  OBVIOUS
<1>1. ASSUME NEW r \in Runs, NEW v \in Verdicts, Dispatch(r, v) PROVE AgentInv'
  BY <1>1, DispatchKeeps
<1>2. ASSUME NEW r \in Runs, Step(r) PROVE AgentInv'
  BY <1>2, AcquireKeeps, GraduateKeeps, TurnKeeps, ToolKeeps, WriteCaseNoteKeeps, LogEntryKeeps,
     CompactKeeps, ReleaseKeeps DEF Step
<1>3. ASSUME NEW r \in Runs, Crash(r) PROVE AgentInv'
  BY <1>3, CrashKeeps
<1>4. CASE Tick
  BY <1>4, TickKeeps
<1>5. CASE UNCHANGED vars
  <2>1. WorldOK' /\ LogFits'
    BY <1>5 DEF vars, AgentInv, WorldOK, LogFits
  <2>2. RunsFit'
    BY <1>5 DEF vars, AgentInv, RunsFit, RunOK, Progress, Traced, Ended
  <2>3. LockFits' /\ NotesFit'
    BY <1>5 DEF vars, AgentInv, LockFits, Holds, NotesFit
  <2> QED BY <2>1, <2>2, <2>3 DEF AgentInv
<1> QED BY <1>1, <1>2, <1>3, <1>4, <1>5 DEF Next

(* The invariant holds throughout.                                         *)
THEOREM AgentInvariance == Spec => []AgentInv
BY AgentInit, AgentStep, PTL DEF Spec

(* Whoever is inside holds the lock, and only one can.                     *)
LEMMA InvOneRun == AgentInv => OneRunPerCase
BY DEF AgentInv, LockFits, Holds, OneRunPerCase

(* A run that ended well halted by its last call and logged all of them.   *)
LEMMA InvTrace == AgentInv => TraceIsTrue
<1> SUFFICES ASSUME AgentInv PROVE TraceIsTrue
  OBVIOUS
<1>1. ASSUME NEW r \in Runs
      PROVE  /\ run[r] \in RunStates /\ RunOK(run[r], durable)
             /\ run[r].trace \in Seq(Calls) /\ Len(run[r].trace) \in Nat
             /\ DOMAIN run[r].trace = 1..Len(run[r].trace)
  <2>1. run[r] \in RunStates /\ RunOK(run[r], durable)
    BY RunFacts
  <2>2. run[r].trace \in Seq(Calls)
    BY <2>1, TraceType
  <2> QED BY <2>1, <2>2
<1>2. ASSUME NEW r \in Runs, run[r].step = "done"
      PROVE  \/ run[r].final = "NONE" /\ run[r].logged < Len(run[r].trace)
             \/ run[r].final # "NONE" /\ run[r].logged = Len(run[r].trace)
  <2>1. run[r].outcome \in Outcomes /\ run[r].logged \in Nat
    BY <1>1 DEF RunStates
  <2>2. Len(<<>>) = 0
    OBVIOUS
  <2>3. Terminal(run[r].outcome) # "NONE"
    BY <2>1, TerminalType
  <2>4. run[r].logged <= Len(run[r].trace)
    BY <1>1 DEF RunOK, Ended
  <2> QED BY <1>1, <1>2, <2>1, <2>2, <2>3, <2>4 DEF RunOK, Ended
<1>3. TypeOK
  <2>1. \A r \in Runs : /\ run[r].tier \in 2..3 /\ run[r].step \in Steps
                        /\ run[r].outcome \in Outcomes /\ run[r].final \in TerminalStatuses
    BY <1>1 DEF RunStates
  <2> QED BY <1>2, <2>1 DEF AgentInv, WorldOK, TypeOK
<1>4. EveryCallIsLogged
  <2> SUFFICES ASSUME NEW r \in Runs, run[r].step = "done", run[r].final # "NONE",
                      NEW i \in DOMAIN run[r].trace
               PROVE  \E e \in log : e.run = r /\ e.id[2] = i /\ e.tool = run[r].trace[i].tool
    BY DEF EveryCallIsLogged
  <2>1. i \in 1..run[r].logged
    BY <1>1, <1>2
  <2> QED BY <2>1 DEF AgentInv, LogFits
<1>5. HaltIsLast
  <2> SUFFICES ASSUME NEW r \in Runs
               PROVE  /\ Halts(run[r].trace) \subseteq {Len(run[r].trace)}
                      /\ run[r].outcome \in GoodOutcomes <=> Halts(run[r].trace) # {}
                      /\ run[r].final = "RESOLVED"
                           => run[r].trace[Len(run[r].trace)].tool = "declare_done"
    BY DEF HaltIsLast, Halts, GoodOutcomes
  <2>1. run[r].outcome \in Outcomes
    BY <1>1 DEF RunStates
  <2>2. run[r].final = "RESOLVED" => run[r].outcome = "RESOLVED"
    BY <1>1, <2>1, TerminalType DEF RunOK, Ended
  <2> QED BY <1>1, <2>2 DEF RunOK, Traced
<1>6. BudgetHolds
  BY <1>1 DEF BudgetHolds, RunOK, Progress
<1> QED BY <1>3, <1>4, <1>5, <1>6 DEF TraceIsTrue

(* A note the summary loses is a call the log has.                         *)
LEMMA NotesStep ==
  AgentInv /\ [Next]_vars
    => [~durable => \A n \in summary \ summary' : \E e \in log : e.run = n[1] /\ e.id[2] = n[2]]_vars
<1> SUFFICES ASSUME AgentInv, Next, ~durable, NEW n \in summary \ summary'
             PROVE  \E e \in log : e.run = n[1] /\ e.id[2] = n[2]
  BY DEF vars
<1>1. /\ n[1] \in Runs /\ n[2] \in 1..Len(run[n[1]].trace)
      /\ n[2] <= run[n[1]].logged \/ run[n[1]].step \in Noters
  BY DEF AgentInv, NotesFit, WorldOK, Notes
<1>2. ASSUME NEW r \in Runs, WriteCaseNote(r) PROVE FALSE
  BY <1>2 DEF WriteCaseNote, Noted, AgentInv, NotesFit
<1>3. ASSUME NEW r \in Runs, Compact(r)
      PROVE  \E e \in log : e.run = n[1] /\ e.id[2] = n[2]
  <2>1. run[r].step = "logged" /\ run[r].step \in Inside
    BY <1>3 DEF Compact, Inside
  <2>2. run[n[1]].step \notin Noters
    <3>1. CASE n[1] = r
      BY <2>1, <3>1 DEF Noters
    <3>2. CASE n[1] # r
      <4>1. run[n[1]].step \notin Inside
        BY <1>1, <2>1, <3>2, AloneInMemory
      <4> QED BY <4>1 DEF Noters, Inside
    <3> QED BY <3>1, <3>2
  <2>3. n[2] \in 1..run[n[1]].logged
    <3>1. run[n[1]].logged \in Nat /\ Len(run[n[1]].trace) \in Nat
      BY <1>1, RunFacts, TraceType
    <3> QED BY <1>1, <2>2, <3>1
  <2> QED BY <1>1, <2>3 DEF AgentInv, LogFits
<1>4. \/ summary' = summary
      \/ \E r \in Runs : WriteCaseNote(r) \/ Compact(r)
  BY DEF Next, Step, Dispatch, Acquire, Graduate, Turn, Tool, LogEntry, Release, Crash, Tick
<1> QED BY <1>2, <1>3, <1>4

-----------------------------------------------------------------------------
(* In whatever order runs acquire, outlive and release the lock, crash and *)
(* are dispatched again, two are on the case at once only after one of     *)
(* them outlived its lease (harness.py acquire, CaseLockRepository).       *)
THEOREM OneRunAlways == Spec => []OneRunPerCase
BY AgentInvariance, InvOneRun, PTL

(* A run's record of itself is true: its calls are in the log, its end is  *)
(* its last halt tool's, its turns within its budget (harness.py           *)
(* run_case_agent_step).                                                   *)
THEOREM TraceIsAlwaysTrue == Spec => []TraceIsTrue
BY AgentInvariance, InvTrace, PTL

(* In memory no note leaves the summary before the log has it (compaction, *)
(* harness.py).                                                            *)
THEOREM NotesAreAlwaysKept == Spec => NotesAreKept
BY AgentInvariance, NotesStep, PTL DEF Spec, NotesAreKept
===============================================================================
