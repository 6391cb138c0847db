------------------------ MODULE CorrectionLifecycleProofs ------------------------
(* Proofs about CorrectionLifecycle: its type invariant, that "applied" is      *)
(* never ahead of the session, that the gate fails closed, and that the         *)
(* corrections table implements RequestTrail, for every set of corrections,     *)
(* sessions and workers, fenced or not.                                         *)
EXTENDS CorrectionLifecycle, TLAPS
--------------------------------------------------------------------------------
(* The inductive invariant.                                                     *)

Filing(w) == pc[w] \in {"file", "link"}

\* Whoever files a correction is the only one to do so; until it is filed, neither
\* its row nor anybody who has read its row has a link, so that no verdict anybody
\* relies on can be overwritten by the filing.
FilingOf(w) ==
  /\ \A v \in Workers \ {w} : Filing(v) => job[v].corr # job[w].corr
  /\ pc[w] = "file" =>
       /\ rows[job[w].corr].link = FALSE
       /\ \A v \in Workers : job[v] # None /\ job[v].corr = job[w].corr => job[v].link = FALSE

WorkerStateOf(w) ==
  /\ pc[w] = "idle" => job[w] = None
  /\ pc[w] # "idle" => job[w] \in Job /\ rows[job[w].corr] \in Row
  /\ Filing(w) => FilingOf(w)
  /\ pc[w] \in {"gate", "rewrite"} => job[w].to = "applied"
  /\ pc[w] = "flip" => job[w].to \in Decisions
  /\ pc[w] = "flip" /\ job[w].to = "applied" => job[w].corr \in written
WorkerState == \A w \in Workers : WorkerStateOf(w)

Inv == TypeOK /\ WorkerState /\ GateFailsClosed /\ AppliedMeansWritten

LEMMA InitInv == Init => Inv
  BY DEF Init, Inv, TypeOK, WorkerState, WorkerStateOf, Filing, GateFailsClosed,
         AppliedMeansWritten, Optional
--------------------------------------------------------------------------------
(* Types.                                                                       *)

LEMMA TypeOKStep ==
  ASSUME Inv, [Next]_vars
  PROVE  TypeOK'
<1> USE DEF Inv, TypeOK, Optional
<1>1. ASSUME NEW w \in Workers, Finish(w)
      PROVE  /\ pc' \in [Workers -> {"idle", "file", "link", "gate", "rewrite", "flip"}]
             /\ job' \in [Workers -> Optional(Job)]
  BY <1>1 DEF Finish, Step
<1>2. \A w \in Workers : pc[w] # "idle" =>
        job[w] \in Job /\ job[w].corr \in Corrections /\ rows[job[w].corr] \in Row
  BY DEF WorkerState, WorkerStateOf, Job
<1>3. ASSUME NEW w \in Workers, Submit(w) PROVE TypeOK'
  <2>1. PICK c \in Corrections, s \in Sessions :
          /\ rows' = [rows EXCEPT ![c] = [session |-> s, status |-> "pending", link |-> FALSE]]
          /\ job' = [job EXCEPT ![w] = [corr |-> c, to |-> "pending", link |-> FALSE]]
    BY <1>3 DEF Submit
  <2>2. rows' \in [Corrections -> Optional(Row)] BY <2>1 DEF Row
  <2>3. job' \in [Workers -> Optional(Job)] BY <2>1 DEF Job
  <2>4. QED BY <1>3, <2>2, <2>3 DEF Submit, Step
<1>4. ASSUME NEW w \in Workers, File(w) PROVE TypeOK'
  BY <1>2, <1>4 DEF File, Step, Verdicts
<1>5. ASSUME NEW w \in Workers, FileFails(w) PROVE TypeOK'
  BY <1>1, <1>5 DEF FileFails, Verdicts
<1>6. ASSUME NEW w \in Workers, Link(w) PROVE TypeOK'
  <2>1. [rows[job[w].corr] EXCEPT !.link = TRUE] \in Row BY <1>2, <1>6 DEF Link, Row
  <2>2. rows' \in [Corrections -> Optional(Row)] BY <1>6, <2>1 DEF Link
  <2>3. QED BY <1>1, <1>6, <2>2 DEF Link
<1>7. ASSUME NEW w \in Workers, ReadPending(w) PROVE TypeOK'
  <2>1. PICK c \in Corrections, verb \in Verbs :
          /\ Pending(c)
          /\ job' = [job EXCEPT ![w] = [corr |-> c, to |-> Outcome(verb), link |-> rows[c].link]]
          /\ Step(w, AfterRead(verb, rows[c]))
    BY <1>7 DEF ReadPending
  <2>2. rows[c] \in Row /\ Outcome(verb) \in Decisions
    BY <2>1 DEF Pending, Outcome, Verbs, Decisions
  <2>3. job' \in [Workers -> Optional(Job)] BY <2>1, <2>2 DEF Job, Row
  <2>4. QED BY <1>7, <2>1, <2>3 DEF ReadPending, AfterRead, Step
<1>8. ASSUME NEW w \in Workers, Gate(w) PROVE TypeOK'
  BY <1>8 DEF Gate, Step
<1>9. ASSUME NEW w \in Workers, Rewrite(w) PROVE TypeOK'
  BY <1>2, <1>9 DEF Rewrite, Step
<1>10. ASSUME NEW w \in Workers, Flip(w) PROVE TypeOK'
  <2>1. job[w].to \in Decisions /\ rows[job[w].corr] \in Row
    BY <1>2, <1>10 DEF Flip, WorkerState, WorkerStateOf
  <2>2. Flipped(rows[job[w].corr], job[w].to) \in Row BY <2>1 DEF Flipped, Row
  <2>3. rows' \in [Corrections -> Optional(Row)] BY <1>10, <2>2 DEF Flip
  <2>4. QED BY <1>1, <1>10, <2>3 DEF Flip
<1>11. ASSUME NEW w \in Workers,
              FileUnwired(w) \/ GateCloses(w) \/ RewriteFails(w) \/ Crash(w)
       PROVE  TypeOK'
  BY <1>1, <1>11 DEF FileUnwired, GateCloses, RewriteFails, Crash
<1>12. ASSUME NEW c \in Corrections, EngineDecides(c) PROVE TypeOK'
  BY <1>12 DEF EngineDecides, Verdicts
<1>13. CASE Wire \/ UNCHANGED vars BY <1>13 DEF Wire, vars
<1>14. QED
  BY <1>3, <1>4, <1>5, <1>6, <1>7, <1>8, <1>9, <1>10, <1>11, <1>12, <1>13
  DEF Next, Handle, Refused
--------------------------------------------------------------------------------
(* What the workers keep.                                                       *)

\* A worker that ends its verb keeps nothing.
LEMMA FinishState ==
  ASSUME TypeOK, NEW w \in Workers, Finish(w)
  PROVE  WorkerStateOf(w)'
  BY DEF TypeOK, Finish, Step, WorkerStateOf, Filing

\* What a step of one worker leaves to another: its own state, its row, and the
\* filing that is its alone.
Undisturbed(v) ==
  /\ pc'[v] = pc[v] /\ job'[v] = job[v] /\ written \subseteq written'
  /\ pc[v] # "idle" => rows'[job[v].corr] \in Row
  /\ Filing(v) => \A u \in Workers \ {v} : Filing(u)' => job'[u].corr # job[v].corr
  /\ pc[v] = "file" =>
       /\ rows'[job[v].corr].link = rows[job[v].corr].link
       /\ \A u \in Workers \ {v} :
            job'[u] # None /\ job'[u].corr = job[v].corr => job'[u].link = FALSE

LEMMA UndisturbedState ==
  ASSUME NEW v \in Workers, WorkerStateOf(v), Undisturbed(v)
  PROVE  WorkerStateOf(v)'
  BY DEF WorkerStateOf, Undisturbed, Filing, FilingOf

\* Every step of a worker keeps what that worker is to keep and disturbs no other.
LEMMA WorkerStateStep ==
  ASSUME Inv, [Next]_vars
  PROVE  WorkerState'
<1> DEFINE Others(w) == \A v \in Workers \ {w} : Undisturbed(v)
           Fits(w)   == WorkerStateOf(w)' /\ Others(w)
<1> USE DEF Inv, TypeOK
<1>1. \A v \in Workers : WorkerStateOf(v) BY DEF WorkerState
<1>2. \A v \in Workers : pc[v] # "idle" =>
        /\ job[v] \in Job /\ job[v] # None /\ job[v].corr \in Corrections
        /\ rows[job[v].corr] \in Row /\ rows[job[v].corr] # None
  BY RowAssumption DEF WorkerState, WorkerStateOf, Job
<1>3. \A v \in Workers : Filing(v) => FilingOf(v) /\ pc[v] # "idle"
  BY DEF WorkerState, WorkerStateOf, Filing
\* A step that leaves the rows alone, and takes up nothing that another is filing.
<1>4. ASSUME NEW w \in Workers, UNCHANGED rows, written \subseteq written',
             \A v \in Workers \ {w} : pc'[v] = pc[v] /\ job'[v] = job[v],
             \/ job'[w] = None /\ ~(Filing(w)')
             \/ /\ job[w] # None /\ job'[w] = job[w]
                /\ Filing(w)' => Filing(w)
      PROVE  Others(w)
  BY <1>2, <1>3, <1>4 DEF Undisturbed, Filing, FilingOf
<1>5. ASSUME NEW w \in Workers, Submit(w) PROVE Fits(w)
  <2>1. PICK c \in Corrections, s \in Sessions :
          /\ rows[c] = None
          /\ rows' = [rows EXCEPT ![c] = [session |-> s, status |-> "pending", link |-> FALSE]]
          /\ job' = [job EXCEPT ![w] = [corr |-> c, to |-> "pending", link |-> FALSE]]
    BY <1>5 DEF Submit
  <2>2. /\ \A v \in Workers : pc[v] # "idle" => job[v].corr # c
        /\ \A v \in Workers \ {w} : pc'[v] = pc[v] /\ job'[v] = job[v]
        /\ \A v \in Workers : pc[v] = "idle" => job[v] = None
        /\ pc'[w] = "file" /\ job'[w] = [corr |-> c, to |-> "pending", link |-> FALSE]
        /\ rows'[c] = [session |-> s, status |-> "pending", link |-> FALSE]
    BY <1>1, <1>2, <1>5, <2>1 DEF Submit, Step, WorkerStateOf
  <2>3. job'[w] \in Job /\ rows'[c] \in Row BY <2>2 DEF Job, Row
  <2>4. WorkerStateOf(w)'
    BY <2>2, <2>3 DEF WorkerStateOf, Filing, FilingOf
  <2>5. Others(w)
    <3> SUFFICES ASSUME NEW v \in Workers \ {w} PROVE Undisturbed(v) BY DEF Others
    <3>1. /\ pc'[v] = pc[v] /\ job'[v] = job[v] /\ UNCHANGED written
          /\ pc[v] # "idle" => rows'[job[v].corr] = rows[job[v].corr]
      BY <1>2, <1>5, <2>1, <2>2 DEF Submit
    <3>2. Filing(v) => \A u \in Workers \ {v} : Filing(u)' => job'[u].corr # job[v].corr
      BY <1>3, <2>2 DEF Filing, FilingOf
    <3>3. pc[v] = "file" => \A u \in Workers \ {v} :
            job'[u] # None /\ job'[u].corr = job[v].corr => job'[u].link = FALSE
      BY <1>3, <2>2 DEF Filing, FilingOf
    <3>4. QED BY <1>2, <3>1, <3>2, <3>3 DEF Undisturbed
  <2>6. QED BY <2>4, <2>5
<1>6. ASSUME NEW w \in Workers, File(w) PROVE Fits(w)
  <2>1. WorkerStateOf(w)'
    BY <1>1, <1>3, <1>6 DEF File, Step, WorkerStateOf, Filing, FilingOf
  <2>2. Others(w) BY <1>2, <1>4, <1>6 DEF File, Step, Filing
  <2>3. QED BY <2>1, <2>2
<1>7. ASSUME NEW w \in Workers,
             \/ FileUnwired(w) \/ FileFails(w) \/ GateCloses(w) \/ RewriteFails(w) \/ Crash(w)
      PROVE  Fits(w)
  <2>1. Finish(w) /\ UNCHANGED <<rows, written>>
    BY <1>7 DEF FileUnwired, FileFails, GateCloses, RewriteFails, Crash
  <2>2. Others(w) BY <1>4, <2>1 DEF Finish, Step, Filing
  <2>3. QED BY <2>1, <2>2, FinishState
<1>8. ASSUME NEW w \in Workers, Link(w) PROVE Fits(w)
  <2>1. Filing(w) /\ Finish(w) BY <1>8 DEF Link, Filing
  <2>2. rows[job[w].corr] \in Row /\ job[w].corr \in Corrections BY <1>2, <1>8 DEF Link
  <2>3. /\ \A c \in Corrections \ {job[w].corr} : rows'[c] = rows[c]
        /\ rows'[job[w].corr] \in Row
    BY <1>8, <2>2 DEF Link, Row
  <2>4. Others(w)
    <3> SUFFICES ASSUME NEW v \in Workers \ {w} PROVE Undisturbed(v) BY DEF Others
    <3>1. /\ \A u \in Workers \ {w} : pc'[u] = pc[u] /\ job'[u] = job[u]
          /\ UNCHANGED written /\ job'[w] = None /\ pc'[w] = "idle"
      BY <1>8, <2>1 DEF Link, Finish, Step
    <3>2. pc[v] = "file" => job[v].corr # job[w].corr
      BY <1>3, <2>1 DEF Filing, FilingOf
    <3>3. /\ pc[v] # "idle" => rows'[job[v].corr] \in Row
          /\ pc[v] = "file" => rows'[job[v].corr] = rows[job[v].corr]
      BY <1>2, <2>3, <3>2
    <3>4. Filing(v) => \A u \in Workers \ {v} : Filing(u)' => job'[u].corr # job[v].corr
      BY <1>3, <3>1 DEF Filing, FilingOf
    <3>5. pc[v] = "file" => \A u \in Workers \ {v} :
            job'[u] # None /\ job'[u].corr = job[v].corr => job'[u].link = FALSE
      BY <1>3, <3>1 DEF Filing, FilingOf
    <3>6. QED BY <3>1, <3>3, <3>4, <3>5 DEF Undisturbed
  <2>5. QED BY <2>1, <2>4, FinishState
<1>9. ASSUME NEW w \in Workers, ReadPending(w) PROVE Fits(w)
  <2>1. PICK c \in Corrections, verb \in Verbs :
          /\ Pending(c)
          /\ job' = [job EXCEPT ![w] = [corr |-> c, to |-> Outcome(verb), link |-> rows[c].link]]
          /\ Step(w, AfterRead(verb, rows[c]))
    BY <1>9 DEF ReadPending
  <2>2. /\ rows[c] \in Row /\ Outcome(verb) \in Decisions
        /\ verb = "apply" <=> Outcome(verb) = "applied"
    BY <2>1 DEF Pending, Outcome, Verbs, Decisions, Optional
  <2>3. /\ job'[w] = [corr |-> c, to |-> Outcome(verb), link |-> rows[c].link] /\ job'[w] \in Job
        /\ pc'[w] \in {"gate", "rewrite", "flip"}
        /\ pc'[w] = "flip" <=> verb # "apply"
        /\ UNCHANGED <<rows, written>>
        /\ \A v \in Workers \ {w} : pc'[v] = pc[v] /\ job'[v] = job[v]
    BY <1>9, <2>1, <2>2 DEF ReadPending, AfterRead, Step, Job, Row
  <2>4. WorkerStateOf(w)'
    BY <2>2, <2>3 DEF WorkerStateOf, Filing
  <2>5. Others(w)
    BY <1>2, <1>3, <2>3 DEF Undisturbed, Filing, FilingOf
  <2>6. QED BY <2>4, <2>5
<1>10. ASSUME NEW w \in Workers, Gate(w) PROVE Fits(w)
  <2>1. WorkerStateOf(w)' BY <1>1, <1>10 DEF Gate, Step, WorkerStateOf, Filing
  <2>2. Others(w) BY <1>2, <1>4, <1>10 DEF Gate, Step, Filing
  <2>3. QED BY <2>1, <2>2
<1>11. ASSUME NEW w \in Workers, Rewrite(w) PROVE Fits(w)
  <2>1. WorkerStateOf(w)'
    BY <1>1, <1>11 DEF Rewrite, Step, WorkerStateOf, Filing, Decisions
  <2>2. Others(w) BY <1>2, <1>4, <1>11 DEF Rewrite, Step, Filing
  <2>3. QED BY <2>1, <2>2
<1>12. ASSUME NEW w \in Workers, Flip(w) PROVE Fits(w)
  <2>1. job[w].to \in Decisions /\ rows[job[w].corr] \in Row /\ Finish(w)
    BY <1>2, <1>12 DEF Flip, WorkerState, WorkerStateOf
  <2>2. /\ Flipped(rows[job[w].corr], job[w].to) \in Row
        /\ Flipped(rows[job[w].corr], job[w].to).link = rows[job[w].corr].link
    BY <2>1 DEF Flipped, Row
  <2>3. Others(w)
    BY <1>2, <1>3, <1>12, <2>1, <2>2 DEF Flip, Finish, Step, Undisturbed, Filing, FilingOf
  <2>4. QED BY <2>1, <2>3, FinishState
<1>13. ASSUME NEW w \in Workers, Fits(w) PROVE WorkerState'
  BY <1>1, <1>13, UndisturbedState DEF WorkerState
<1>14. ASSUME Wire \/ (\E c \in Corrections : EngineDecides(c)) \/ UNCHANGED vars
       PROVE  WorkerState'
  <2>1. \A v \in Workers : Undisturbed(v)
    BY <1>2, <1>3, <1>14 DEF Wire, EngineDecides, vars, Undisturbed, Filing, FilingOf
  <2>2. QED BY <1>1, <2>1, UndisturbedState DEF WorkerState
<1> HIDE DEF Fits
<1>15. QED
  BY <1>5, <1>6, <1>7, <1>8, <1>9, <1>10, <1>11, <1>12, <1>13, <1>14
  DEF Next, Handle, Refused
--------------------------------------------------------------------------------
(* The gate and the rows.                                                       *)

\* The engine's approval, once an apply has relied on it, is not overwritten: the
\* only filing of that correction is over.
LEMMA GateFailsClosedStep ==
  ASSUME Inv, [Next]_vars
  PROVE  GateFailsClosed'
<1> DEFINE Relies(v) ==
      pc[v] \in {"rewrite", "flip"} /\ job[v].to = "applied" /\ job[v].link
<1> USE DEF Inv, TypeOK
<1>1. \A v \in Workers : Relies(v) => engine[job[v].corr] = "approved"
  BY DEF GateFailsClosed
<1>2. \A v \in Workers : pc[v] # "idle" =>
        job[v] \in Job /\ job[v] # None /\ job[v].corr \in Corrections
  BY RowAssumption DEF WorkerState, WorkerStateOf, Job
<1>3. ASSUME NEW w \in Workers, File(w) \/ FileFails(w) PROVE GateFailsClosed'
  <2>1. pc[w] = "file" /\ FilingOf(w)
    BY <1>3 DEF File, FileFails, WorkerState, WorkerStateOf, Filing
  <2>2. /\ \A v \in Workers : Relies(v)' => Relies(v) /\ job'[v] = job[v]
        /\ \A c \in Corrections : c # job[w].corr => engine'[c] = engine[c]
    BY <1>3 DEF File, FileFails, Finish, Step
  <2>3. \A v \in Workers : Relies(v) => job[v].corr # job[w].corr
    BY <1>2, <2>1 DEF FilingOf
  <2>4. QED BY <1>1, <1>2, <2>2, <2>3 DEF GateFailsClosed
<1>4. ASSUME NEW w \in Workers, ReadPending(w) PROVE GateFailsClosed'
  <2>1. PICK c \in Corrections, verb \in Verbs :
          /\ Pending(c)
          /\ job' = [job EXCEPT ![w] = [corr |-> c, to |-> Outcome(verb), link |-> rows[c].link]]
          /\ Step(w, AfterRead(verb, rows[c]))
    BY <1>4 DEF ReadPending
  <2>2. /\ ~Relies(w)'
        /\ \A v \in Workers \ {w} : Relies(v)' => Relies(v) /\ job'[v] = job[v]
    BY <2>1 DEF Step, AfterRead, Outcome, Verbs
  <2>3. QED BY <1>1, <1>4, <2>2 DEF ReadPending, GateFailsClosed
<1>5. ASSUME NEW w \in Workers, Gate(w) PROVE GateFailsClosed'
  BY <1>1, <1>5 DEF Gate, Granted, Step, GateFailsClosed
<1>6. ASSUME NEW c \in Corrections, EngineDecides(c) PROVE GateFailsClosed'
  BY <1>1, <1>2, <1>6 DEF EngineDecides, GateFailsClosed
<1>7. ASSUME NEW w \in Workers, Submit(w) PROVE GateFailsClosed'
  BY <1>1, <1>7 DEF Submit, Step, GateFailsClosed
<1>8. ASSUME NEW w \in Workers,
             \/ FileUnwired(w) \/ Link(w) \/ GateCloses(w) \/ RewriteFails(w)
             \/ Flip(w) \/ Crash(w)
      PROVE  GateFailsClosed'
  <2>1. Finish(w) /\ UNCHANGED engine
    BY <1>8 DEF FileUnwired, Link, GateCloses, RewriteFails, Flip, Crash
  <2>2. \A v \in Workers : Relies(v)' => Relies(v) /\ job'[v] = job[v]
    BY <2>1 DEF Finish, Step
  <2>3. QED BY <1>1, <2>1, <2>2 DEF GateFailsClosed
<1>9. ASSUME NEW w \in Workers, Rewrite(w) PROVE GateFailsClosed'
  BY <1>1, <1>9 DEF Rewrite, Step, GateFailsClosed
<1>10. CASE Wire \/ UNCHANGED vars BY <1>1, <1>10 DEF Wire, vars, GateFailsClosed
<1>11. QED
  BY <1>3, <1>4, <1>5, <1>6, <1>7, <1>8, <1>9, <1>10 DEF Next, Handle, Refused

\* A row is flipped to "applied" only by a worker that has rewritten its session.
LEMMA AppliedMeansWrittenStep ==
  ASSUME Inv, [Next]_vars
  PROVE  AppliedMeansWritten'
<1> USE DEF Inv, TypeOK
<1>1. ASSUME NEW w \in Workers, Submit(w) PROVE AppliedMeansWritten'
  BY <1>1 DEF Submit, AppliedMeansWritten
<1>2. ASSUME NEW w \in Workers, Link(w) PROVE AppliedMeansWritten'
  <2>1. rows[job[w].corr] \in Row /\ rows[job[w].corr] # None
    BY <1>2, RowAssumption DEF Link, WorkerState, WorkerStateOf
  <2>2. \A c \in Corrections :
          rows'[c] # None => rows[c] # None /\ rows'[c].status = rows[c].status
    BY <1>2, <2>1 DEF Link, Row
  <2>3. QED BY <1>2, <2>2 DEF Link, AppliedMeansWritten
<1>3. ASSUME NEW w \in Workers, Flip(w) PROVE AppliedMeansWritten'
  <2>1. /\ rows[job[w].corr] \in Row /\ rows[job[w].corr] # None
        /\ job[w].to = "applied" => job[w].corr \in written
    BY <1>3, RowAssumption DEF Flip, WorkerState, WorkerStateOf
  <2>2. \A c \in Corrections : rows'[c] # None =>
          /\ rows[c] # None
          /\ \/ rows'[c].status = rows[c].status
             \/ c = job[w].corr /\ rows'[c].status = job[w].to
    BY <1>3, <2>1 DEF Flip, Flipped, Row
  <2>3. QED BY <1>3, <2>1, <2>2 DEF Flip, AppliedMeansWritten
<1>4. ASSUME UNCHANGED rows, written \subseteq written' PROVE AppliedMeansWritten'
  BY <1>4 DEF AppliedMeansWritten
<1>5. QED
  BY <1>1, <1>2, <1>3, <1>4
  DEF Next, Handle, Refused, Wire, EngineDecides, File, FileUnwired, FileFails, ReadPending, Gate,
      GateCloses, Rewrite, RewriteFails, Crash, vars

LEMMA InvStep == Inv /\ [Next]_vars => Inv'
  BY TypeOKStep, WorkerStateStep, GateFailsClosedStep, AppliedMeansWrittenStep DEF Inv
--------------------------------------------------------------------------------
(* The refinement of RequestTrail.                                              *)

StatusOf == [c \in Corrections |-> IF rows[c] = None THEN "absent" ELSE rows[c].status]

\* A submit files and a flip of a pending row decides; every other step stutters.
LEMMA TrailStep ==
  ASSUME Inv, [Next]_vars
  PROVE  [Trail!Next]_StatusOf
<1> USE DEF Inv, TypeOK
<1>1. ASSUME NEW w \in Workers, Submit(w) PROVE Trail!Next
  <2>1. PICK c \in Corrections, s \in Sessions :
          /\ rows[c] = None
          /\ rows' = [rows EXCEPT ![c] = [session |-> s, status |-> "pending", link |-> FALSE]]
    BY <1>1 DEF Submit
  <2>2. rows'[c].status = "pending" /\ rows'[c] \in Row
    BY <2>1 DEF Row
  <2>3. StatusOf' = [StatusOf EXCEPT ![c] = "pending"] BY <2>1, <2>2, RowAssumption DEF StatusOf
  <2>4. Trail!File(c) BY <2>1, <2>3 DEF Trail!File, StatusOf
  <2>5. QED BY <2>4 DEF Trail!Next
<1>2. ASSUME NEW w \in Workers, Link(w) PROVE UNCHANGED StatusOf
  <2>1. rows[job[w].corr] \in Row /\ rows[job[w].corr] # None /\ job[w].corr \in Corrections
    BY <1>2, RowAssumption DEF Link, WorkerState, WorkerStateOf, Job
  <2>2. rows'[job[w].corr] \in Row /\ rows'[job[w].corr].status = rows[job[w].corr].status
    BY <1>2, <2>1 DEF Link, Row
  <2>3. \A c \in Corrections : c # job[w].corr => rows'[c] = rows[c]
    BY <1>2, <2>1 DEF Link
  <2>4. \A c \in Corrections :
          (IF rows'[c] = None THEN "absent" ELSE rows'[c].status)
            = (IF rows[c] = None THEN "absent" ELSE rows[c].status)
    BY <2>1, <2>2, <2>3, RowAssumption
  <2>5. QED BY <2>4 DEF StatusOf
<1>3. ASSUME NEW w \in Workers, Flip(w) PROVE Trail!Next \/ UNCHANGED StatusOf
  <2> DEFINE c == job[w].corr
  <2>1. rows[c] \in Row /\ rows[c] # None /\ c \in Corrections /\ job[w].to \in Decisions
    BY <1>3, RowAssumption DEF Flip, WorkerState, WorkerStateOf, Job
  <2>2. CASE rows[c].status = "pending"
    <3>1. rows' = [rows EXCEPT ![c] = [rows[c] EXCEPT !.status = job[w].to]]
      BY <1>3, <2>2 DEF Flip, Flipped
    <3>2. rows'[c] = [rows[c] EXCEPT !.status = job[w].to] BY <2>1, <3>1
    <3> HIDE DEF c
    <3>3. rows'[c] \in Row /\ rows'[c].status = job[w].to BY <2>1, <3>2 DEF Row
    <3>4. StatusOf' = [StatusOf EXCEPT ![c] = job[w].to]
      BY <2>1, <3>1, <3>3, RowAssumption DEF StatusOf
    <3>5. Trail!Decide(c) BY <2>1, <2>2, <3>4 DEF Trail!Decide, StatusOf
    <3>6. QED BY <2>1, <3>5 DEF Trail!Next, Trail!Decide
  <2>3. CASE rows[c].status # "pending"
    BY <1>3, <2>1, <2>3 DEF Flip, Flipped, StatusOf
  <2>4. QED BY <2>2, <2>3
<1>4. ASSUME UNCHANGED rows PROVE UNCHANGED StatusOf BY <1>4 DEF StatusOf
<1>5. QED
  BY <1>1, <1>2, <1>3, <1>4
  DEF Next, Handle, Refused, Wire, EngineDecides, File, FileUnwired, FileFails, ReadPending, Gate,
      GateCloses, Rewrite, RewriteFails, Crash, vars
--------------------------------------------------------------------------------
(* The theorems.                                                                *)

THEOREM Invariance == Spec => []Inv
  BY InitInv, InvStep, PTL DEF Spec

\* The rows, the engine's verdicts and what every worker keeps have their shape.
THEOREM TypeCorrect == Spec => []TypeOK
<1>1. Inv => TypeOK BY DEF Inv
<1>2. QED BY <1>1, Invariance, PTL

\* A correction is marked applied only after an apply has rewritten its session, in
\* whatever order any number of verbs interleave, fail or crash.
THEOREM AppliedNeverAhead == Spec => []AppliedMeansWritten
<1>1. Inv => AppliedMeansWritten BY DEF Inv
<1>2. QED BY <1>1, Invariance, PTL

\* An apply of a linked row gets past the gate on the engine's approval only.
THEOREM GateAlwaysClosed == Spec => []GateFailsClosed
<1>1. Inv => GateFailsClosed BY DEF Inv
<1>2. QED BY <1>1, Invariance, PTL

\* A correction is filed once and decided once: the table implements the trail.
THEOREM TrailImplemented == Spec => ImplementsTrail
<1>1. Init => Trail!Init BY DEF Init, Trail!Init
<1>2. Inv /\ [Next]_vars =>
        [Trail!Next]_[c \in Corrections |-> IF rows[c] = None THEN "absent" ELSE rows[c].status]
  BY TrailStep DEF StatusOf
<1>3. QED BY <1>1, <1>2, Invariance, PTL DEF Spec, ImplementsTrail, Trail!Spec
================================================================================
