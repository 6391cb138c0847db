------------------------- MODULE OvertimeLifecycleProofs -------------------------
(* Proofs about OvertimeLifecycle: its type invariant, that a row mirrors the   *)
(* engine's verdict, and that a wired port leaves nothing untracked, for every  *)
(* set of requests and of workers.                                              *)
EXTENDS OvertimeLifecycle, TLAPS
--------------------------------------------------------------------------------
(* The inductive invariant.                                                     *)

\* A worker that has not inserted its request yet: nobody else has the request,
\* and the engine knows it exactly if the worker goes on to write a link.
Filing(w) == pc[w] \in {"file", "insert"}
FilingOf(w) ==
  /\ rows[job[w].req] = None
  /\ pc[w] = "file" => engine[job[w].req] = None /\ job[w].link = FALSE
  /\ pc[w] = "insert" => (job[w].link <=> engine[job[w].req] # None)
  /\ \A v \in Workers \ {w} : job[v] # None => job[v].req # job[w].req

\* A worker that has loaded its request: the row stays, and what the worker is about
\* to write, if it is a verdict, is the engine's.
Loaded(w) == pc[w] \in {"ask", "transition"}
LoadedOf(w) ==
  /\ rows[job[w].req] \in Row
  /\ job[w].to \in Decisions
  /\ pc[w] = "transition" /\ job[w].to # "cancelled" => engine[job[w].req] = job[w].to

WorkerState ==
  \A w \in Workers :
    /\ pc[w] = "idle" => job[w] = None
    /\ pc[w] # "idle" => job[w] \in Job
    /\ Filing(w) => FilingOf(w)
    /\ Loaded(w) => LoadedOf(w)

Inv == TypeOK /\ WorkerState /\ StatusMirrorsVerdict
--------------------------------------------------------------------------------
LEMMA InitInv == Init => Inv
  BY DEF Init, Inv, TypeOK, WorkerState, Filing, Loaded, StatusMirrorsVerdict, Optional

\* The types of what the steps write.
LEMMA TypeOKStep ==
  ASSUME Inv, [Next]_vars
  PROVE  TypeOK'
<1> USE DEF Inv, TypeOK, Optional
<1>1. ASSUME NEW w \in Workers, Submit(w) PROVE TypeOK'
  BY <1>1 DEF Submit, Step, Job
<1>2. ASSUME NEW w \in Workers, File(w) PROVE TypeOK'
  <2>1. job[w] \in Job BY <1>2 DEF File, WorkerState
  <2>2. job' \in [Workers -> Optional(Job)] BY <1>2, <2>1 DEF File, Job
  <2>3. engine' \in [Requests -> Optional(Verdicts)] BY <1>2 DEF File, Verdicts
  <2>4. QED BY <1>2, <2>2, <2>3 DEF File, Step
<1>3. ASSUME NEW w \in Workers, FileUnwired(w) PROVE TypeOK'
  BY <1>3 DEF FileUnwired, Step
<1>4. ASSUME NEW w \in Workers, FileFails(w) PROVE TypeOK'
  BY <1>4 DEF FileFails, GiveUp, Finish, Step, Verdicts
<1>5. ASSUME NEW w \in Workers, Insert(w) PROVE TypeOK'
  <2>1. job[w] \in Job BY <1>5 DEF Insert, WorkerState
  <2>2. [status |-> "pending", link |-> job[w].link, decided |-> FALSE] \in Row
    BY <2>1 DEF Job, Row
  <2>3. rows' \in [Requests -> Optional(Row)] BY <1>5, <2>2 DEF Insert
  <2>4. QED BY <1>5, <2>3 DEF Insert, Finish, Step
<1>6. ASSUME NEW w \in Workers, Load(w) PROVE TypeOK'
  <2>1. PICK q \in Requests, verb \in Verbs :
          /\ Pending(q)
          /\ job' = [job EXCEPT ![w] = [req |-> q, to |-> Outcome(verb), link |-> rows[q].link]]
          /\ Step(w, IF verb = "cancel" THEN "transition" ELSE "ask")
    BY <1>6 DEF Load
  <2>2. rows[q] \in Row /\ Outcome(verb) \in Decisions
    BY <2>1 DEF Pending, Outcome, Verbs, Decisions
  <2>3. job' \in [Workers -> Optional(Job)] BY <2>1, <2>2 DEF Job, Row
  <2>4. QED BY <1>6, <2>1, <2>3 DEF Load, Step
<1>7. ASSUME NEW w \in Workers, Ask(w) PROVE TypeOK'
  BY <1>7 DEF Ask, Step
<1>8. ASSUME NEW w \in Workers, AskedInVain(w) \/ Crash(w) PROVE TypeOK'
  BY <1>8 DEF AskedInVain, Crash, Finish, Step
<1>9. ASSUME NEW w \in Workers, Transition(w) PROVE TypeOK'
  <2>1. job[w] \in Job /\ rows[job[w].req] \in Row
    BY <1>9 DEF Transition, WorkerState, Loaded, LoadedOf
  <2>2. Moved(rows[job[w].req], job[w].to) \in Row BY <2>1 DEF Moved, Row, Job
  <2>3. rows' \in [Requests -> Optional(Row)] BY <1>9, <2>2 DEF Transition
  <2>4. QED BY <1>9, <2>3 DEF Transition, Finish, Step
<1>10. ASSUME NEW q \in Requests, EngineDecides(q) PROVE TypeOK'
  BY <1>10 DEF EngineDecides, Verdicts
<1>11. CASE Wire \/ UNCHANGED vars BY <1>11 DEF Wire, vars
<1>12. QED
  BY <1>1, <1>2, <1>3, <1>4, <1>5, <1>6, <1>7, <1>8, <1>9, <1>10, <1>11
  DEF Next, Handle, Refused, vars
--------------------------------------------------------------------------------
(* What the workers keep.                                                       *)

WorkerStateOf(w) ==
  /\ pc[w] = "idle" => job[w] = None
  /\ pc[w] # "idle" => job[w] \in Job
  /\ Filing(w) => FilingOf(w)
  /\ Loaded(w) => LoadedOf(w)

\* A worker that ends its verb keeps nothing.
LEMMA FinishState ==
  ASSUME TypeOK, NEW w \in Workers, Finish(w)
  PROVE  WorkerStateOf(w)'
  BY DEF TypeOK, Finish, Step, WorkerStateOf, Filing, Loaded

\* What a step of one worker leaves to another: its own state; the row, if any, and
\* the filing, if any, of a request it has yet to insert; and once loaded, a row and
\* the verdict it may have read.
Undisturbed(v) ==
  /\ pc'[v] = pc[v] /\ job'[v] = job[v]
  /\ Filing(v) => /\ rows'[job[v].req] = rows[job[v].req]
                  /\ engine'[job[v].req] = None <=> engine[job[v].req] = None
                  /\ \A u \in Workers \ {v} : job'[u] # None => job'[u].req # job[v].req
  /\ Loaded(v) => /\ rows'[job[v].req] \in Row
                  /\ engine[job[v].req] \in {"approved", "rejected"} =>
                       engine'[job[v].req] = engine[job[v].req]

LEMMA UndisturbedState ==
  ASSUME NEW v \in Workers, WorkerStateOf(v), Undisturbed(v)
  PROVE  WorkerStateOf(v)'
  BY DEF WorkerStateOf, Undisturbed, Filing, Loaded, FilingOf, LoadedOf, Decisions

\* Every step of a worker keeps what that worker is to keep and disturbs no other.
LEMMA WorkerStateStep ==
  ASSUME Inv, [Next]_vars
  PROVE  WorkerState'
<1> DEFINE Others(w) == \A v \in Workers \ {w} : Undisturbed(v)
           Fits(w)   == WorkerStateOf(w)' /\ Others(w)
<1> USE DEF Inv, TypeOK
<1>1. \A v \in Workers : WorkerStateOf(v) BY DEF WorkerState, WorkerStateOf
<1>2. \A v \in Workers :
        Filing(v) \/ Loaded(v) => job[v] \in Job /\ job[v] # None /\ job[v].req \in Requests
  BY RowAssumption DEF WorkerState, Filing, Loaded, Job
<1>3. \A v \in Workers : Filing(v) =>
        /\ rows[job[v].req] = None
        /\ \A u \in Workers \ {v} : job[u] # None => job[u].req # job[v].req
  BY DEF WorkerState, FilingOf
<1>4. \A v \in Workers : Loaded(v) => rows[job[v].req] \in Row /\ rows[job[v].req] # None
  BY RowAssumption DEF WorkerState, LoadedOf
<1>5. ASSUME NEW w \in Workers, UNCHANGED <<rows, engine>>,
             \A v \in Workers \ {w} : pc'[v] = pc[v] /\ job'[v] = job[v],
             \/ job'[w] = None
             \/ job[w] # None /\ job'[w].req = job[w].req
             \/ \A v \in Workers \ {w} : Filing(v) => job'[w].req # job[v].req
      PROVE  Others(w)
  BY <1>3, <1>4, <1>5 DEF Undisturbed
<1> HIDE DEF Others
<1>6. ASSUME NEW w \in Workers, Submit(w) PROVE Fits(w)
  <2>1. PICK q \in Requests :
          Unused(q) /\ job' = [job EXCEPT ![w] = [req |-> q, to |-> "pending", link |-> FALSE]]
    BY <1>6 DEF Submit
  <2>2. WorkerStateOf(w)'
    BY <1>6, <2>1 DEF Submit, Step, Unused, WorkerStateOf, Filing, Loaded, FilingOf, Job
  <2>3. \A v \in Workers \ {w} : Filing(v) => job'[w].req # job[v].req
    BY <1>2, <2>1 DEF Unused
  <2>4. Others(w) BY <1>5, <1>6, <2>1, <2>3 DEF Submit, Step
  <2>5. QED BY <2>2, <2>4
<1>7. ASSUME NEW w \in Workers, File(w) PROVE Fits(w)
  <2>1. Filing(w) /\ ~Loaded(w) BY <1>7 DEF File, Filing, Loaded
  <2>2. WorkerStateOf(w)'
    BY <1>1, <1>2, <1>3, <1>7, <2>1, RowAssumption
    DEF File, Step, WorkerStateOf, Filing, Loaded, FilingOf, Job, Verdicts
  <2>3. Others(w)
    BY <1>2, <1>3, <1>4, <1>7, <2>1 DEF File, Step, Undisturbed, Others
  <2>4. QED BY <2>2, <2>3
<1>8. ASSUME NEW w \in Workers, FileUnwired(w) PROVE Fits(w)
  <2>1. WorkerStateOf(w)'
    BY <1>1, <1>8 DEF FileUnwired, Step, WorkerStateOf, Filing, Loaded, FilingOf
  <2>2. Others(w) BY <1>5, <1>8 DEF FileUnwired, Step
  <2>3. QED BY <2>1, <2>2
<1>9. ASSUME NEW w \in Workers, FileFails(w) PROVE Fits(w)
  <2>1. Filing(w) /\ ~Loaded(w) /\ Finish(w) BY <1>9 DEF FileFails, GiveUp, Filing, Loaded
  <2>2. Others(w)
    BY <1>2, <1>3, <1>4, <1>9, <2>1 DEF FileFails, Finish, Step, Undisturbed, Others
  <2>3. QED BY <2>1, <2>2, FinishState
<1>10. ASSUME NEW w \in Workers, Insert(w) PROVE Fits(w)
  <2>1. Filing(w) /\ ~Loaded(w) /\ Finish(w) BY <1>10 DEF Insert, Filing, Loaded
  <2>2. Others(w)
    BY <1>2, <1>3, <1>4, <1>10, <2>1 DEF Insert, Finish, Step, Undisturbed, Others
  <2>3. QED BY <2>1, <2>2, FinishState
<1>11. ASSUME NEW w \in Workers, Load(w) PROVE Fits(w)
  <2>1. PICK q \in Requests, verb \in Verbs :
          /\ Pending(q)
          /\ job' = [job EXCEPT ![w] = [req |-> q, to |-> Outcome(verb), link |-> rows[q].link]]
          /\ Step(w, IF verb = "cancel" THEN "transition" ELSE "ask")
    BY <1>11 DEF Load
  <2>2. /\ rows[q] \in Row /\ Outcome(verb) \in Decisions
        /\ verb = "cancel" => Outcome(verb) = "cancelled"
    BY <2>1 DEF Pending, Outcome, Verbs, Decisions, Optional
  <2>3. job'[w] = [req |-> q, to |-> Outcome(verb), link |-> rows[q].link] /\ job'[w] \in Job
    BY <2>1, <2>2 DEF Job, Row
  <2>4. WorkerStateOf(w)'
    BY <1>11, <2>1, <2>2, <2>3 DEF Load, Step, WorkerStateOf, Filing, Loaded, LoadedOf
  <2>5. \A v \in Workers \ {w} : Filing(v) => job'[w].req # job[v].req
    BY <1>3, <2>1, <2>3 DEF Pending
  <2>6. Others(w) BY <1>5, <1>11, <2>1, <2>5 DEF Load, Step
  <2>7. QED BY <2>4, <2>6
<1>12. ASSUME NEW w \in Workers, Ask(w) PROVE Fits(w)
  <2>1. WorkerStateOf(w)'
    BY <1>1, <1>12 DEF Ask, Allows, Step, WorkerStateOf, Filing, Loaded, LoadedOf
  <2>2. Others(w) BY <1>5, <1>12 DEF Ask, Step
  <2>3. QED BY <2>1, <2>2
<1>13. ASSUME NEW w \in Workers, AskedInVain(w) \/ Crash(w) PROVE Fits(w)
  <2>1. Finish(w) BY <1>13 DEF AskedInVain, Crash
  <2>2. Others(w) BY <1>5, <1>13, <2>1 DEF AskedInVain, Crash, Finish, Step
  <2>3. QED BY <2>1, <2>2, FinishState
<1>14. ASSUME NEW w \in Workers, Transition(w) PROVE Fits(w)
  <2>1. Loaded(w) /\ ~Filing(w) /\ Finish(w) BY <1>14 DEF Transition, Filing, Loaded
  <2>2. Moved(rows[job[w].req], job[w].to) \in Row
    BY <1>2, <1>4, <2>1 DEF Moved, Row, Job
  <2>3. Others(w)
    BY <1>2, <1>3, <1>4, <1>14, <2>1, <2>2 DEF Transition, Finish, Step, Undisturbed, Others
  <2>4. QED BY <2>1, <2>3, FinishState
<1>15. ASSUME NEW w \in Workers, Fits(w) PROVE WorkerState'
  BY <1>1, <1>15, UndisturbedState DEF Others, WorkerState, WorkerStateOf
<1>16. ASSUME NEW q \in Requests, EngineDecides(q) PROVE WorkerState'
  <2>1. \A v \in Workers : Undisturbed(v)
    BY <1>2, <1>3, <1>4, <1>16, RowAssumption DEF EngineDecides, Undisturbed, Verdicts
  <2>2. QED BY <1>1, <2>1, UndisturbedState DEF WorkerState, WorkerStateOf
<1>17. ASSUME Wire \/ UNCHANGED vars PROVE WorkerState'
  <2>1. \A v \in Workers : Undisturbed(v)
    BY <1>3, <1>4, <1>17 DEF Wire, vars, Undisturbed
  <2>2. QED BY <1>1, <2>1, UndisturbedState DEF WorkerState, WorkerStateOf
<1> HIDE DEF Fits
<1>18. QED
  BY <1>6, <1>7, <1>8, <1>9, <1>10, <1>11, <1>12, <1>13, <1>14, <1>15, <1>16, <1>17
  DEF Next, Handle, Refused
--------------------------------------------------------------------------------
(* What the rows say.                                                           *)

\* No step writes a verdict the engine has not given, and the engine keeps its word.
LEMMA StatusMirrorsVerdictStep ==
  ASSUME Inv, [Next]_vars
  PROVE  StatusMirrorsVerdict'
<1> DEFINE Mirrors(q) == rows[q] # None =>
             /\ rows[q].status \in {"approved", "rejected"} => engine[q] = rows[q].status
             /\ rows[q].decided => engine[q] \in {"approved", "rejected"}
<1> USE DEF Inv, TypeOK
<1>1. \A q \in Requests : Mirrors(q) BY DEF StatusMirrorsVerdict
<1>2. ASSUME NEW w \in Workers, Insert(w) PROVE StatusMirrorsVerdict'
  BY <1>1, <1>2 DEF Insert, StatusMirrorsVerdict
<1>3. ASSUME NEW w \in Workers, Transition(w) PROVE StatusMirrorsVerdict'
  <2> DEFINE q == job[w].req
  <2>1. /\ job[w] \in Job /\ rows[q] \in Row /\ job[w].to \in Decisions
        /\ job[w].to # "cancelled" => engine[q] = job[w].to
    BY <1>3 DEF Transition, WorkerState, Loaded, LoadedOf
  <2>2. q \in Requests /\ rows[q] # None BY <2>1, RowAssumption DEF Job
  <2>3. /\ rows'[q].status = job[w].to
        /\ rows'[q].decided <=> rows[q].decided \/ job[w].to # "cancelled"
        /\ \A x \in Requests \ {q} : rows'[x] = rows[x]
    BY <1>3, <2>1, <2>2 DEF Transition, Moved, Row
  <2>4. UNCHANGED engine BY <1>3 DEF Transition
  <2>5. QED BY <1>1, <2>1, <2>2, <2>3, <2>4 DEF StatusMirrorsVerdict, Decisions
<1>4. ASSUME NEW w \in Workers, File(w) \/ FileFails(w) PROVE StatusMirrorsVerdict'
  <2>1. rows[job[w].req] = None BY <1>4 DEF File, FileFails, WorkerState, Filing, FilingOf
  <2>2. UNCHANGED rows /\ \A q \in Requests : q # job[w].req => engine'[q] = engine[q]
    BY <1>4 DEF File, FileFails
  <2>3. QED BY <1>1, <2>1, <2>2 DEF StatusMirrorsVerdict
<1>5. ASSUME NEW q \in Requests, EngineDecides(q) PROVE StatusMirrorsVerdict'
  BY <1>1, <1>5 DEF EngineDecides, StatusMirrorsVerdict
<1>6. ASSUME UNCHANGED <<rows, engine>> PROVE StatusMirrorsVerdict'
  BY <1>1, <1>6 DEF StatusMirrorsVerdict
<1>7. QED
  BY <1>2, <1>3, <1>4, <1>5, <1>6
  DEF Next, Handle, Wire, Submit, FileUnwired, Load, Refused, Ask, AskedInVain, Crash, vars

LEMMA InvStep == Inv /\ [Next]_vars => Inv'
  BY TypeOKStep, WorkerStateStep, StatusMirrorsVerdictStep DEF Inv

\* A row appears by an Insert only, and the engine knows it exactly if it is linked.
LEMMA NoUntrackedStep ==
  ASSUME Inv, [Next]_vars, NEW q \in Requests, rows[q] = None, rows'[q] # None
  PROVE  IF rows'[q].link THEN engine[q] # None ELSE engine[q] = None
<1> USE DEF Inv, TypeOK
<1>1. ASSUME NEW w \in Workers, Insert(w)
      PROVE  IF rows'[q].link THEN engine[q] # None ELSE engine[q] = None
  <2>1. job[w] \in Job /\ (job[w].link <=> engine[job[w].req] # None)
    BY <1>1 DEF Insert, WorkerState, Filing, FilingOf
  <2>2. q = job[w].req /\ rows'[q].link = job[w].link BY <1>1 DEF Insert
  <2>3. QED BY <2>1, <2>2
<1>2. ASSUME NEW w \in Workers, Transition(w) PROVE FALSE
  <2>1. rows[job[w].req] # None
    BY <1>2, RowAssumption DEF Transition, WorkerState, Loaded, LoadedOf
  <2>2. QED BY <1>2, <2>1 DEF Transition
<1>3. QED
  BY <1>1, <1>2
  DEF Next, Handle, Wire, Submit, File, FileUnwired, FileFails, Load, Refused, Ask, AskedInVain,
      Crash, EngineDecides, vars
--------------------------------------------------------------------------------
(* The theorems.                                                                *)

THEOREM Invariance == Spec => []Inv
  BY InitInv, InvStep, PTL DEF Spec

\* The rows, the engine's verdicts and what every worker keeps have their shape.
THEOREM TypeCorrect == Spec => []TypeOK
<1>1. Inv => TypeOK BY DEF Inv
<1>2. QED BY <1>1, Invariance, PTL

\* No row says approved or rejected, or carries a decision, that the engine has not
\* given, however many verbs work on it at once from what they had loaded before.
THEOREM RowsMirrorVerdicts == Spec => []StatusMirrorsVerdict
<1>1. Inv => StatusMirrorsVerdict BY DEF Inv
<1>2. QED BY <1>1, Invariance, PTL

\* A linked row is always one the engine has, and an unlinked one it has never seen.
THEOREM NothingUntracked == Spec => NoUntracked
<1>1. Inv /\ [Next]_vars =>
        [\A q \in Requests :
           rows[q] = None /\ rows'[q] # None =>
             IF rows'[q].link THEN engine[q] # None ELSE engine[q] = None]_vars
  BY NoUntrackedStep
<1>2. QED BY <1>1, Invariance, PTL DEF Spec, NoUntracked
================================================================================
