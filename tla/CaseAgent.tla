------------------------------ MODULE CaseAgent ------------------------------
(***************************************************************************)
(* The case agent (agents/): the harness that runs it on one case under a  *)
(* lock (harness.py), its loop with a budget (case_agent.py, budget.py),   *)
(* its tools (case_tools.py), the replay log and the compaction of the     *)
(* case's working memory, and the dispatch of an event to it               *)
(* (routes/exceptions.py).                                                 *)
(*                                                                         *)
(* Several runs compete for one case.  In memory the lock is a mutex of    *)
(* the one process; with DATABASE_URL it is a lease in case_locks that     *)
(* any later run may take over once it has expired, released by deleting   *)
(* the row whoever holds it, and the replay log is a table whose key is    *)
(* made of the number of turns and the position of the call.               *)
(***************************************************************************)
EXTENDS Naturals, Sequences, FiniteSets

CONSTANTS
  Runs, NoRun,   \* the events routed to the agent, one harness step each
  Process,       \* [Runs -> processes]: where it runs with a database
  Verdicts,      \* subset of {"GREEN", "AMBER", "RED"}: the deterministic shadow's verdict
  Responses,     \* the sequences of tools the model may call in a turn
  Costs,         \* subset of Nat: what a turn or a tool may cost
  MaxIterations, MaxCost, MaxWallClock,   \* the budget of a tier 3 case
  CompactAt,     \* log entries that trigger a compaction
  AgeAt,         \* time at which the case is old enough to trigger one
  Lease,         \* time a lease is held
  MaxTime,       \* bound: clock
  MaxFaults      \* bound: crashes

Tools == {"write_case_note", "check", "escalate", "request_clarification_email", "declare_done"}
HaltTools == {"escalate", "request_clarification_email", "declare_done"}

ASSUME CaseAgentAssumption ==
  /\ NoRun \notin Runs /\ IsFiniteSet(Runs)
  /\ Verdicts \subseteq {"GREEN", "AMBER", "RED"}
  /\ Responses \subseteq Seq(Tools) /\ Costs \subseteq Nat
  /\ {MaxIterations, MaxCost, MaxWallClock, CompactAt, AgeAt, Lease, MaxTime, MaxFaults} \subseteq Nat

VARIABLES
  durable,   \* DATABASE_URL is set
  clock,
  mutex,     \* the run in the in-memory lock, NoRun
  lease,     \* the row of case_locks: [holder, expires]; holder NoRun when there is none
  tier,
  summary,   \* working_memory_summary: the notes in it
  log,       \* replay entries: [run, id, tool, status]
  run,       \* [Runs -> state of the step]
  late,      \* history: a run was inside after its lease had expired
  faults

vars == <<durable, clock, mutex, lease, tier, summary, log, run, late, faults>>

Steps == {"waiting", "routed", "locked", "turn", "tools", "noting", "halted", "logged",
          "releasing", "raised", "done", "dead"}
Inside == {"locked", "turn", "tools", "noting", "halted", "logged", "releasing", "raised"}
Outcomes == {"NONE", "RESOLVED", "ESCALATED", "AWAITING_BUYER", "AWAITING_ERP",
             "BUDGET_EXHAUSTED", "ERROR"}
TerminalStatuses == {"NONE", "BLOCKED", "RESOLVED", "MANUAL_REVIEW_REQUIRED", "FAIL_TO_HUMAN"}

(* A note is known by its run and its place in the trace. *)
Notes == Runs \X (Nat \ {0})
NoStep == [step |-> "waiting", tier |-> 2, started |-> 0, iterations |-> 0, cost |-> 0,
           todo |-> <<>>, trace |-> <<>>, base |-> {}, logged |-> 0,
           outcome |-> "NONE", final |-> "NONE"]
Goto(r, s) == run' = [run EXCEPT ![r] = s]

-----------------------------------------------------------------------------
(* The dispatch runs the deterministic shadow first; a RED event never     *)
(* reaches the agent.  The case is read here, before the lock.             *)
Dispatch(r, verdict) ==
  /\ run[r].step = "waiting"
  /\ Goto(r, IF verdict = "RED"
             THEN [run[r] EXCEPT !.step = "done", !.final = "BLOCKED"]
             ELSE [run[r] EXCEPT !.step = "routed", !.tier = tier])
  /\ UNCHANGED <<durable, clock, mutex, lease, tier, summary, log, late, faults>>

(* The agent's outcome as the record's terminal status. *)
Terminal(outcome) ==
  CASE outcome = "RESOLVED" -> "RESOLVED"
    [] outcome \in {"ESCALATED", "AWAITING_BUYER", "AWAITING_ERP"} -> "MANUAL_REVIEW_REQUIRED"
    [] OTHER -> "FAIL_TO_HUMAN"

(* try_acquire deletes an expired row of the case, then inserts; mutant:   *)
(* it deletes the row it finds.                                            *)
Sweeps(row)       == row.holder # NoRun
SweepsExpired(row) == row.holder # NoRun /\ row.expires < clock

Acquire(r) ==
  /\ run[r].step = "routed"
  /\ LET free == IF durable THEN lease.holder = NoRun \/ SweepsExpired(lease)
                 ELSE mutex = NoRun
     IN  IF free
         THEN /\ Goto(r, [run[r] EXCEPT !.step = "locked", !.started = clock])
              /\ IF durable
                 THEN lease' = [holder |-> r, expires |-> clock + Lease] /\ UNCHANGED mutex
                 ELSE mutex' = r /\ UNCHANGED lease
         ELSE /\ Goto(r, [run[r] EXCEPT !.step = "done", !.outcome = "ERROR",
                                        !.final = Terminal("ERROR")])
              /\ UNCHANGED <<mutex, lease>>
  /\ UNCHANGED <<durable, clock, tier, summary, log, late, faults>>

(* graduate_tier_if_needed: one tier up from the case as it was read. *)
Graduated(t) == IF t < 3 THEN t + 1 ELSE t
Graduate(r) ==
  /\ run[r].step = "locked"
  /\ tier' = IF run[r].tier < 3 THEN Graduated(run[r].tier) ELSE tier
  /\ Goto(r, [run[r] EXCEPT !.step = "turn", !.tier = Graduated(@)])
  /\ UNCHANGED <<durable, clock, mutex, lease, summary, log, late, faults>>

-----------------------------------------------------------------------------
(* CaseBudget.is_exhausted. *)
IsExhausted(s) ==
  \/ s.iterations >= MaxIterations
  \/ s.cost >= MaxCost
  \/ clock - s.started >= MaxWallClock

Halted(s, outcome) == [s EXCEPT !.step = "halted", !.outcome = outcome, !.todo = <<>>]

(* One turn: the budget, the call to the model, what it costs. *)
Turn(r) ==
  LET s == run[r]
  IN  /\ s.step = "turn"
      /\ \/ IsExhausted(s) /\ Goto(r, Halted(s, "BUDGET_EXHAUSTED"))
         \/ ~IsExhausted(s) /\ Goto(r, Halted(s, "ERROR"))     \* the provider raises
         \/ /\ ~IsExhausted(s)
            /\ \E calls \in Responses, cost \in Costs :
                 LET t == [s EXCEPT !.iterations = @ + 1, !.cost = @ + cost]
                 IN  Goto(r, IF calls = <<>> THEN Halted(t, "ERROR")
                             ELSE [t EXCEPT !.step = "tools", !.todo = calls])
      /\ UNCHANGED <<durable, clock, mutex, lease, tier, summary, log, late, faults>>

(* What invoke_tool may return: an exception of the handler, a tool or a   *)
(* case that is not there, are errors.                                     *)
Statuses(tool) == IF tool \in {"escalate", "declare_done"} THEN {"ok"} ELSE {"ok", "error"}

(* Only AWAITING_ERP is told apart among the statuses declare_done takes. *)
OutcomesOf(tool) ==
  CASE tool = "escalate" -> {"ESCALATED"}
    [] tool = "request_clarification_email" -> {"AWAITING_BUYER"}
    [] OTHER -> {"RESOLVED", "AWAITING_ERP"}

(* After a call: a halt tool that succeeded ends the run, else the next    *)
(* call or the next turn.                                                  *)
After(s, tool, status, outcome) ==
  IF tool \in HaltTools /\ status = "ok" THEN Halted(s, outcome)
  ELSE [s EXCEPT !.step = IF s.todo = <<>> THEN "turn" ELSE "tools"]

Called(s, status, cost) ==
  [s EXCEPT !.trace = Append(@, [tool |-> Head(s.todo), status |-> status]),
            !.todo = Tail(@), !.cost = @ + cost]

Tool(r) ==
  LET s == run[r]
      tool == Head(s.todo)
  IN  /\ s.step = "tools"
      /\ \E status \in Statuses(tool), outcome \in OutcomesOf(tool) :
           IF tool = "write_case_note" /\ status = "ok"
           THEN Goto(r, [s EXCEPT !.step = "noting", !.base = summary])
           ELSE \E cost \in IF tool = "check" THEN Costs ELSE {0} :
                  Goto(r, After(Called(s, status, cost), tool, status, outcome))
      /\ UNCHANGED <<durable, clock, mutex, lease, tier, summary, log, late, faults>>

(* write_case_note writes back the summary it read, with the note; mutant: *)
(* the note alone.                                                         *)
NoteAlone(base, note) == {note}
Noted(base, note) == base \cup {note}
WriteCaseNote(r) ==
  LET s == run[r]
  IN  /\ s.step = "noting"
      /\ summary' = Noted(s.base, <<r, Len(s.trace) + 1>>)
      /\ Goto(r, After(Called([s EXCEPT !.base = {}], "ok", 0), "write_case_note", "ok", "NONE"))
      /\ UNCHANGED <<durable, clock, mutex, lease, tier, log, late, faults>>

-----------------------------------------------------------------------------
(* _persist_tool_trace: one entry after the other, keyed by the number of  *)
(* turns and the position.  The table refuses a key that is there, which   *)
(* ends the step with an exception; the in-memory log has no keys.         *)
EventId(s, i) == <<s.iterations, i>>
Entry(r, i) ==
  [run |-> r, id |-> EventId(run[r], i), tool |-> run[r].trace[i].tool, status |-> run[r].trace[i].status]

(* A key that is there; mutant: such an entry is left out silently. *)
Ignored(r, i) == FALSE
Clash(r, i)   == durable /\ \E e \in log : e.id = EventId(run[r], i)

LogEntry(r) ==
  LET s == run[r]
      i == s.logged + 1
  IN  /\ s.step = "halted"
      /\ IF i > Len(s.trace)
         THEN Goto(r, [s EXCEPT !.step = "logged"]) /\ UNCHANGED log
         ELSE IF Clash(r, i)
         THEN Goto(r, [s EXCEPT !.step = "raised"]) /\ UNCHANGED log
         ELSE /\ Goto(r, [s EXCEPT !.logged = i])
              /\ log' = IF durable /\ \E e \in log : e.id = EventId(s, i) THEN log
                        ELSE log \cup {Entry(r, i)}
      /\ UNCHANGED <<durable, clock, mutex, lease, tier, summary, late, faults>>

(* What the compaction reads: list_for_case of the table's log is empty,   *)
(* it has no tenant.                                                       *)
ListForCase == IF durable THEN {} ELSE log
ShouldCompact == Cardinality(ListForCase) >= CompactAt \/ clock >= AgeAt

(* The summary becomes one line per log entry, which no note is part of.   *)
(* The shadow's observation that follows changes nothing.                  *)
Compact(r) ==
  /\ run[r].step = "logged"
  /\ summary' = IF ShouldCompact THEN {} ELSE summary
  /\ Goto(r, [run[r] EXCEPT !.step = "releasing"])
  /\ UNCHANGED <<durable, clock, mutex, lease, tier, log, late, faults>>

(* finally: lock.release(), whoever's row it is by now. *)
OnExit       == {"releasing", "raised"}
Release(r) ==
  LET s == run[r]
  IN  /\ s.step \in OnExit
      /\ mutex' = IF durable THEN mutex ELSE NoRun
      /\ lease' = IF durable THEN [holder |-> NoRun, expires |-> 0] ELSE lease
      /\ Goto(r, [s EXCEPT !.step = "done", !.started = 0, !.cost = 0,
                           !.final = IF s.step = "raised" THEN "NONE" ELSE Terminal(s.outcome)])
      /\ UNCHANGED <<durable, clock, tier, summary, log, late, faults>>

-----------------------------------------------------------------------------
Outlived(r) ==
  run[r].step \in Inside /\ (lease.holder # r \/ lease.expires < clock + 1)

Tick ==
  /\ clock < MaxTime
  /\ clock' = clock + 1
  /\ late' = (late \/ (durable /\ \E r \in Runs : Outlived(r)))
  /\ UNCHANGED <<durable, mutex, lease, tier, summary, log, run, faults>>

(* A process dies with the runs in it; in memory nothing would survive.    *)
Crash(r) ==
  /\ durable /\ faults < MaxFaults
  /\ run[r].step \in Inside
  /\ faults' = faults + 1
  /\ run' = [q \in Runs |-> IF Process[q] = Process[r] /\ run[q].step \in Inside \cup {"routed"}
                            THEN [NoStep EXCEPT !.step = "dead"] ELSE run[q]]
  /\ UNCHANGED <<durable, clock, mutex, lease, tier, summary, log, late>>

Init ==
  /\ durable \in BOOLEAN
  /\ clock = 0 /\ mutex = NoRun /\ lease = [holder |-> NoRun, expires |-> 0]
  /\ tier = 2 /\ summary = {} /\ log = {}
  /\ run = [r \in Runs |-> NoStep]
  /\ late = FALSE /\ faults = 0

Step(r) ==
  \/ Acquire(r) \/ Graduate(r) \/ Turn(r) \/ Tool(r) \/ WriteCaseNote(r)
  \/ LogEntry(r) \/ Compact(r) \/ Release(r)

Next ==
  \/ \E r \in Runs : (\E v \in Verdicts : Dispatch(r, v)) \/ Step(r) \/ Crash(r)
  \/ Tick

Spec == Init /\ [][Next]_vars

-----------------------------------------------------------------------------
(* Steps, budgets, lock and log hold what the harness can store in them. *)
TypeOK ==
  /\ durable \in BOOLEAN /\ late \in BOOLEAN
  /\ clock \in 0..MaxTime /\ faults \in 0..MaxFaults /\ tier \in 2..3
  /\ mutex \in Runs \cup {NoRun}
  /\ lease \in [holder : Runs \cup {NoRun}, expires : 0..MaxTime + Lease]
  /\ summary \subseteq Notes
  /\ \A e \in log : e.run \in Runs /\ e.tool \in Tools
  /\ \A r \in Runs :
       /\ run[r].tier \in 2..3
       /\ run[r].step \in Steps /\ run[r].outcome \in Outcomes
       /\ run[r].final \in TerminalStatuses
       /\ run[r].step = "done" => run[r].final # "NONE" \/ run[r].logged < Len(run[r].trace)

(* Two runs are never on the case at once, unless one of them outlived its *)
(* lease: the wall clock budget is looked at between turns only, and does  *)
(* not bound the time a run is inside.                                     *)
OneRunPerCase ==
  \A q, r \in Runs : q # r /\ run[q].step \in Inside /\ run[r].step \in Inside => late

(* A run that returns has every call it made in the replay log, with the   *)
(* outcome in place: a replay reads the log alone.                         *)
EveryCallIsLogged ==
  \A r \in Runs : run[r].step = "done" /\ run[r].final # "NONE" =>
    \A i \in DOMAIN run[r].trace :
      \E e \in log : e.run = r /\ e.id[2] = i /\ e.tool = run[r].trace[i].tool

(* A note leaves the summary only when the log has it, whatever rewrites   *)
(* the summary.  That is the in-memory log; the table's reads back empty   *)
(* and has gaps where a run died or raised: there a note can be lost.      *)
NotesAreKept ==
  [][~durable => \A n \in summary \ summary' :
                   \E e \in log : e.run = n[1] /\ e.id[2] = n[2]]_vars

(* No turn is taken on a used-up budget, so a run overshoots by at most    *)
(* the turn it was in.                                                     *)
BudgetHolds ==
  \A r \in Runs :
    /\ run[r].iterations <= MaxIterations
    /\ run[r].step \in {"tools", "noting"} => run[r].iterations > 0

(* A run ends well only by a halt tool that succeeded, as the last thing   *)
(* it did, and never on an event the deterministic shadow had blocked.     *)
HaltIsLast ==
  \A r \in Runs :
    LET trace == run[r].trace
        halts == {i \in DOMAIN trace : trace[i].tool \in HaltTools /\ trace[i].status = "ok"}
    IN  /\ halts \subseteq {Len(trace)}
        /\ run[r].outcome \in {"RESOLVED", "ESCALATED", "AWAITING_BUYER", "AWAITING_ERP"}
             <=> halts # {} 
        /\ run[r].final = "RESOLVED" => trace[Len(trace)].tool = "declare_done"

(* What a run says of itself is what it did: its calls are in the log, its  *)
(* end is its last halt tool's, its turns are within its budget             *)
(* (agents/harness.py, case_agent.py).                                             *)
TraceIsTrue == TypeOK /\ EveryCallIsLogged /\ HaltIsLast /\ BudgetHolds
===============================================================================
