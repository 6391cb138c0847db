--------------------------- MODULE CorrectionLifecycle ---------------------------
(* The life of a correction an employee asks for: submitted, filed with the     *)
(* approvals engine, and then applied to its session, rejected or cancelled.    *)
(*                                                                              *)
(* Every verb is a sequence of transactions and calls of the engine with no     *)
(* lock across them, so verbs interleave and can stop anywhere in between.  The *)
(* engine is external.  correct_session, a transaction of its own, is one step  *)
(* here; PunchClock opens it up.  A verb that is refused before it has written  *)
(* anything changes nothing and is one action, Refused.                         *)
EXTENDS Nullable

CONSTANTS
  Corrections,   \* the ids Uuid::new_v4() may hand out
  Sessions,      \* sessions that can be corrected
  Workers,       \* bound: verbs that are in flight at the same time
  Fenced         \* do row policies hide every row from an unscoped statement?

ASSUME LifecycleAssumption == Fenced \in BOOLEAN

VARIABLES
  wired,     \* has the composing service wired an approvals adapter?
  session,   \* whose bounds each session has: a correction's, or the "recorded" ones
  rows,      \* attendance_corrections: id -> row, or None
  engine,    \* the engine's verdict on what was filed for a correction, or None
  pc,        \* where each worker is
  job,       \* the correction it works on, what it is to become, what it has read
  written    \* history: the corrections some apply has rewritten their session for

vars == <<wired, session, rows, engine, pc, job, written>>

Decisions == {"applied", "rejected", "cancelled"}
Verdicts  == {"pending", "approved", "rejected"}
Verbs     == {"apply", "reject", "cancel"}

Row == [session : Sessions, status : {"pending"} \cup Decisions, link : BOOLEAN]
Job == [corr : Corrections, to : {"pending"} \cup Decisions, link : BOOLEAN]
ASSUME RowAssumption == None \notin Row \cup Job

Pending(c) == rows[c] # None /\ rows[c].status = "pending"
Step(w, at) == pc' = [pc EXCEPT ![w] = at]

\* The verb ends, with an answer or without.
Finish(w) == Step(w, "idle") /\ job' = [job EXCEPT ![w] = None]
--------------------------------------------------------------------------------
(* submit_correction                                                            *)

\* The insert is committed before the engine is called.
Submit(w) ==
  /\ pc[w] = "idle"
  /\ \E c \in Corrections, s \in Sessions :
       /\ rows[c] = None
       /\ rows' = [rows EXCEPT ![c] = [session |-> s, status |-> "pending", link |-> FALSE]]
       /\ job' = [job EXCEPT ![w] = [corr |-> c, to |-> "pending", link |-> FALSE]]
  /\ Step(w, "file")
  /\ UNCHANGED <<wired, session, engine, written>>

File(w) ==
  /\ pc[w] = "file" /\ wired
  /\ engine' = [engine EXCEPT ![job[w].corr] = "pending"]
  /\ Step(w, "link")
  /\ UNCHANGED <<wired, session, rows, job, written>>

\* Unwired is no error and leaves no link.
FileUnwired(w) ==
  /\ pc[w] = "file" /\ ~wired
  /\ Finish(w)
  /\ UNCHANGED <<wired, session, rows, engine, written>>

\* A transport error: the engine has the filing, or it has not.
FileFails(w) ==
  /\ pc[w] = "file" /\ wired
  /\ engine' \in {engine, [engine EXCEPT ![job[w].corr] = "pending"]}
  /\ Finish(w)
  /\ UNCHANGED <<wired, session, rows, written>>

\* The link is written by a statement on the bare pool, without a scope.
Link(w) ==
  /\ pc[w] = "link"
  /\ rows' = IF Fenced THEN rows ELSE [rows EXCEPT ![job[w].corr].link = TRUE]
  /\ Finish(w)
  /\ UNCHANGED <<wired, session, engine, written>>
--------------------------------------------------------------------------------
(* apply_correction, reject_correction, cancel_correction                       *)

\* Mutant: the verb's name is what the row is flipped to.
OutcomeAsVerb(verb) == verb

Outcome(verb) ==
  CASE verb = "apply" -> "applied" [] verb = "reject" -> "rejected" [] verb = "cancel" -> "cancelled"

\* Mutant: the status is flipped before the session is rewritten.
AfterReadFlipFirst(verb, row) == IF verb = "apply" /\ row.link THEN "gate" ELSE "flip"

\* Where pending_row leads: only an apply of a linked row asks for the verdict, and
\* only an apply rewrites the session.
AfterRead(verb, row) ==
  IF verb # "apply" THEN "flip" ELSE IF row.link THEN "gate" ELSE "rewrite"

ReadPending(w) ==
  /\ pc[w] = "idle"
  /\ \E c \in Corrections, verb \in Verbs :
       /\ Pending(c)
       /\ job' = [job EXCEPT ![w] = [corr |-> c, to |-> Outcome(verb), link |-> rows[c].link]]
       /\ Step(w, AfterRead(verb, rows[c]))
  /\ UNCHANGED <<wired, session, rows, engine, written>>

\* correction_not_pending, and the validation errors of a submit.
Refused(w) ==
  /\ pc[w] = "idle"
  /\ \E c \in Corrections : ~Pending(c)
  /\ UNCHANGED vars

\* Mutant: whatever is not refused is let through.
GrantedUnlessRejected(c) == engine[c] # "rejected"

Granted(c) == engine[c] = "approved"

Gate(w) ==
  /\ pc[w] = "gate" /\ Granted(job[w].corr)
  /\ Step(w, "rewrite")
  /\ UNCHANGED <<wired, session, rows, engine, job, written>>

\* approval_not_granted, or the engine cannot be reached.
GateCloses(w) ==
  /\ pc[w] = "gate"
  /\ Finish(w)
  /\ UNCHANGED <<wired, session, rows, engine, written>>

Rewrite(w) ==
  /\ pc[w] = "rewrite"
  /\ session' = [session EXCEPT ![rows[job[w].corr].session] = job[w].corr]
  /\ written' = written \cup {job[w].corr}
  /\ Step(w, "flip")
  /\ UNCHANGED <<wired, rows, engine, job>>

\* Whatever correct_session refuses, an overlap among them, is a seam error.
RewriteFails(w) ==
  /\ pc[w] = "rewrite"
  /\ Finish(w)
  /\ UNCHANGED <<wired, session, rows, engine, written>>

\* Mutant: the UPDATE has lost its "AND status = 'pending'".
FlippedAnyway(row, to) == [row EXCEPT !.status = to]

\* An UPDATE of a row that is no longer pending changes nothing, and is answered Ok.
Flipped(row, to) == IF row.status = "pending" THEN [row EXCEPT !.status = to] ELSE row

Flip(w) ==
  /\ pc[w] = "flip"
  /\ rows' = [rows EXCEPT ![job[w].corr] = Flipped(@, job[w].to)]
  /\ Finish(w)
  /\ UNCHANGED <<wired, session, engine, written>>
--------------------------------------------------------------------------------
\* set_approvals: the service starts unwired.
Wire ==
  /\ ~wired /\ wired' = TRUE
  /\ UNCHANGED <<session, rows, engine, pc, job, written>>

\* The engine decides a filing once.
EngineDecides(c) ==
  /\ engine[c] = "pending"
  /\ \E v \in {"approved", "rejected"} : engine' = [engine EXCEPT ![c] = v]
  /\ UNCHANGED <<wired, session, rows, pc, job, written>>

\* The process dies, or the client does: what is committed stays.
Crash(w) ==
  /\ pc[w] # "idle"
  /\ Finish(w)
  /\ UNCHANGED <<wired, session, rows, engine, written>>

Init ==
  /\ wired = FALSE
  /\ session = [s \in Sessions |-> "recorded"]
  /\ rows = [c \in Corrections |-> None]
  /\ engine = [c \in Corrections |-> None]
  /\ pc = [w \in Workers |-> "idle"]
  /\ job = [w \in Workers |-> None]
  /\ written = {}

Handle(w) ==
  \/ Submit(w) \/ File(w) \/ FileUnwired(w) \/ FileFails(w) \/ Link(w)
  \/ ReadPending(w) \/ Refused(w) \/ Gate(w) \/ GateCloses(w)
  \/ Rewrite(w) \/ RewriteFails(w) \/ Flip(w) \/ Crash(w)

Next == Wire \/ (\E w \in Workers : Handle(w)) \/ (\E c \in Corrections : EngineDecides(c))

Spec == Init /\ [][Next]_vars
--------------------------------------------------------------------------------
(* Properties                                                                   *)

\* The rows, and what every worker keeps, have their shape.
TypeOK ==
  /\ wired \in BOOLEAN
  /\ session \in [Sessions -> Corrections \cup {"recorded"}]
  /\ rows \in [Corrections -> Optional(Row)]
  /\ engine \in [Corrections -> Optional(Verdicts)]
  /\ pc \in [Workers -> {"idle", "file", "link", "gate", "rewrite", "flip"}]
  /\ job \in [Workers -> Optional(Job)]
  /\ written \subseteq Corrections

\* The status "applied" is never ahead of the session: some apply has rewritten it,
\* whatever crashed, failed or was decided in between.
AppliedMeansWritten ==
  \A c \in Corrections :
    rows[c] # None /\ rows[c].status = "applied" => c \in written

\* An apply that has read the row's link rewrites the session, and marks the row
\* applied, only on the engine's approval: no lost answer, crash or second worker
\* opens the gate.  (An apply that read the row before it was linked has no gate.)
GateFailsClosed ==
  \A w \in Workers :
    pc[w] \in {"rewrite", "flip"} /\ job[w].to = "applied" /\ job[w].link
      => engine[job[w].corr] = "approved"

\* A correction is filed once and decided once, whichever verbs race for it: the
\* corrections table implements the abstract trail.
Trail == INSTANCE RequestTrail WITH
  Ids <- Corrections,
  status <- [c \in Corrections |-> IF rows[c] = None THEN "absent" ELSE rows[c].status]
ImplementsTrail == Trail!Spec

\* A correction that ended rejected or cancelled has not touched its session.
ClosedNeverMoved ==
  \A c \in Corrections :
    rows[c] # None /\ rows[c].status \in {"rejected", "cancelled"} => c \notin written
================================================================================
