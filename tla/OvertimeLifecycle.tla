---------------------------- MODULE OvertimeLifecycle ----------------------------
(* Overtime pre-authorisation: a request is filed with the approvals engine and *)
(* then inserted, and later confirmed, refused or cancelled.                    *)
(*                                                                              *)
(* The verbs load the row, ask the engine and update the row in three steps     *)
(* with no lock across them, and the update has no condition on the status, so  *)
(* verbs interleave and can stop in between.  The engine is external.  A verb   *)
(* that is refused before it has done anything is one action, Refused.          *)
EXTENDS Nullable

CONSTANTS
  Requests,   \* the ids Uuid::new_v4() may hand out
  Workers     \* bound: verbs that are in flight at the same time

VARIABLES
  wired,      \* has the composing service wired an approvals adapter?
  rows,       \* overtime_requests: id -> row, or None
  engine,     \* the engine's verdict on what was filed for a request, or None
  pc,         \* where each worker is
  job         \* the request it works on, what it is to become, and its link

vars == <<wired, rows, engine, pc, job>>

Decisions == {"approved", "rejected", "cancelled"}
Verdicts  == {"pending", "approved", "rejected"}
Verbs     == {"confirm", "refuse", "cancel"}

Row == [status : {"pending"} \cup Decisions, link : BOOLEAN, decided : BOOLEAN]
Job == [req : Requests, to : {"pending"} \cup Decisions, link : BOOLEAN]
ASSUME RowAssumption == None \notin Row \cup Job \cup Verdicts

Pending(q) == rows[q] # None /\ rows[q].status = "pending"
Unused(q)  ==
  /\ rows[q] = None /\ engine[q] = None
  /\ \A w \in Workers : job[w] # None => job[w].req # q
Step(w, at) == pc' = [pc EXCEPT ![w] = at]

\* The verb ends, with an answer or without.
Finish(w) == Step(w, "idle") /\ job' = [job EXCEPT ![w] = None]
--------------------------------------------------------------------------------
(* submit                                                                       *)

\* A valid request gets its id; nothing is stored yet.
Submit(w) ==
  /\ pc[w] = "idle"
  /\ \E q \in Requests :
       /\ Unused(q)
       /\ job' = [job EXCEPT ![w] = [req |-> q, to |-> "pending", link |-> FALSE]]
  /\ Step(w, "file")
  /\ UNCHANGED <<wired, rows, engine>>

File(w) ==
  /\ pc[w] = "file" /\ wired
  /\ engine' = [engine EXCEPT ![job[w].req] = "pending"]
  /\ job' = [job EXCEPT ![w].link = TRUE]
  /\ Step(w, "insert")
  /\ UNCHANGED <<wired, rows>>

\* Unwired is no error and leaves no link.
FileUnwired(w) ==
  /\ pc[w] = "file" /\ ~wired
  /\ Step(w, "insert")
  /\ UNCHANGED <<wired, rows, engine, job>>

\* Mutant: a filing that failed is taken for an unwired port.
InsertUnfiled(w) == Step(w, "insert") /\ job' = job

\* Any other error of the port fails the submit.
GiveUp(w) == Finish(w)

\* A transport error: the engine has the filing, or it has not.
FileFails(w) ==
  /\ pc[w] = "file" /\ wired
  /\ engine' \in {engine, [engine EXCEPT ![job[w].req] = "pending"]}
  /\ GiveUp(w)
  /\ UNCHANGED <<wired, rows>>

Insert(w) ==
  /\ pc[w] = "insert"
  /\ rows' = [rows EXCEPT ![job[w].req] =
                [status |-> "pending", link |-> job[w].link, decided |-> FALSE]]
  /\ Finish(w)
  /\ UNCHANGED <<wired, engine>>
--------------------------------------------------------------------------------
(* confirm, refuse, cancel                                                      *)

\* Mutant: the verb's name is what the row is moved to.
OutcomeAsVerb(verb) == verb

Outcome(verb) ==
  CASE verb = "confirm" -> "approved" [] verb = "refuse" -> "rejected" [] verb = "cancel" -> "cancelled"

\* A cancellation asks nobody; a verdict needs a row that is linked.
Load(w) ==
  /\ pc[w] = "idle"
  /\ \E q \in Requests, verb \in Verbs :
       /\ Pending(q)
       /\ (verb = "cancel") \/ rows[q].link
       /\ job' = [job EXCEPT ![w] = [req |-> q, to |-> Outcome(verb), link |-> rows[q].link]]
       /\ Step(w, IF verb = "cancel" THEN "transition" ELSE "ask")
  /\ UNCHANGED <<wired, rows, engine>>

\* Not found, not pending, no approval link, and the validation errors of a submit.
Refused(w) ==
  /\ pc[w] = "idle"
  /\ \E q \in Requests : ~(Pending(q) /\ rows[q].link)
  /\ UNCHANGED vars

\* Mutant: any verdict will do.
AnyVerdict(to, verdict) == verdict # "pending"

\* A row may only become what the engine has decided.
Allows(to, verdict) == verdict = to

Ask(w) ==
  /\ pc[w] = "ask" /\ Allows(job[w].to, engine[job[w].req])
  /\ Step(w, "transition")
  /\ UNCHANGED <<wired, rows, engine, job>>

\* Another verdict or none yet, or the engine cannot be reached.
AskedInVain(w) ==
  /\ pc[w] = "ask"
  /\ Finish(w)
  /\ UNCHANGED <<wired, rows, engine>>

\* Whatever the row's status has become since it was loaded; a cancellation leaves
\* decided_at alone.
Moved(row, to) == [row EXCEPT !.status = to, !.decided = @ \/ to # "cancelled"]

Transition(w) ==
  /\ pc[w] = "transition"
  /\ rows' = [rows EXCEPT ![job[w].req] = Moved(@, job[w].to)]
  /\ Finish(w)
  /\ UNCHANGED <<wired, engine>>
--------------------------------------------------------------------------------
\* set_approvals: the service starts unwired.
Wire ==
  /\ ~wired /\ wired' = TRUE
  /\ UNCHANGED <<rows, engine, pc, job>>

\* The engine decides a filing once.
EngineDecides(q) ==
  /\ engine[q] = "pending"
  /\ \E v \in {"approved", "rejected"} : engine' = [engine EXCEPT ![q] = v]
  /\ UNCHANGED <<wired, rows, pc, job>>

\* The process dies, or the client does: what is committed stays.
Crash(w) ==
  /\ pc[w] # "idle"
  /\ Finish(w)
  /\ UNCHANGED <<wired, rows, engine>>

Init ==
  /\ wired = FALSE
  /\ rows = [q \in Requests |-> None]
  /\ engine = [q \in Requests |-> None]
  /\ pc = [w \in Workers |-> "idle"]
  /\ job = [w \in Workers |-> None]

Handle(w) ==
  \/ Submit(w) \/ File(w) \/ FileUnwired(w) \/ FileFails(w) \/ Insert(w)
  \/ Load(w) \/ Refused(w) \/ Ask(w) \/ AskedInVain(w) \/ Transition(w) \/ Crash(w)

Next == Wire \/ (\E w \in Workers : Handle(w)) \/ (\E q \in Requests : EngineDecides(q))

Spec == Init /\ [][Next]_vars
--------------------------------------------------------------------------------
(* Properties                                                                   *)

\* The rows, and what every worker keeps, have their shape.
TypeOK ==
  /\ wired \in BOOLEAN
  /\ rows \in [Requests -> Optional(Row)]
  /\ engine \in [Requests -> Optional(Verdicts)]
  /\ pc \in [Workers -> {"idle", "file", "insert", "ask", "transition"}]
  /\ job \in [Workers -> Optional(Job)]

\* No row says approved or rejected unless the engine says so, and decided_at is
\* set only on a request the engine has decided: not even an update computed from
\* a row that has changed since can write a verdict the engine never gave.
StatusMirrorsVerdict ==
  \A q \in Requests : rows[q] # None =>
    /\ rows[q].status \in {"approved", "rejected"} => engine[q] = rows[q].status
    /\ rows[q].decided => engine[q] \in {"approved", "rejected"}

\* No untracked authorisations: a wired port that fails leaves no row, so the engine
\* knows every linked row, and a row without a link was submitted before the port
\* was wired.
NoUntracked ==
  [][\A q \in Requests :
       rows[q] = None /\ rows'[q] # None =>
         IF rows'[q].link THEN engine[q] # None ELSE engine[q] = None]_vars
================================================================================
