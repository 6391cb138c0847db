-------------------------------- MODULE KioskPin --------------------------------
(* Kiosk PINs: attempts at the terminal, and the administration that issues,    *)
(* rotates, unlocks and revokes them, as concurrent READ COMMITTED transactions *)
(* on the kiosk_pins table.                                                     *)
(*                                                                              *)
(* An attempt reads the row without a lock, verifies the PIN, and then writes   *)
(* the failure (and commits) or the success; the success is committed with the  *)
(* punch it allows, and holds the row's lock until then.  Issuing soft-deletes  *)
(* the employee's live row and then inserts one, in one transaction.            *)
EXTENDS PinPolicy, FiniteSets

CONSTANTS
  Employees,     \* employee ids
  Badges,        \* badge codes
  Secrets,       \* PINs that are well formed
  Expiries,      \* the expires_at a PIN may be issued with: times, or None
  PinIds,        \* the ids gen_random_uuid() may hand out
  Requests,      \* requests, each of which arrives at most once
  Verbs,         \* the verbs this instance exercises
  ActingUnit,    \* org_unit_id of every row: app.acting_unit_id, or None
  MaxInFlight,   \* bound: requests in flight at the same time
  MaxTime        \* bound: where the clock stops

ASSUME KioskPinAssumption ==
  /\ MaxInFlight \in Nat /\ MaxTime \in Nat
  /\ Expiries \subseteq Optional(Nat)
  /\ Verbs \subseteq {"attempt", "issue", "rotate", "unlock", "revoke"}

VARIABLES
  now,        \* the server's clock
  pins,       \* kiosk_pins: id -> row, or None; a soft-deleted row is not live
  pc,         \* where each request is
  call,       \* its arguments, with the time it took from the clock, or None
  seen,       \* the PIN row an attempt has read, with its id, or None
  snapshot,   \* the rows an UPDATE found before it had to wait for one, or None
  held,       \* the rows a request has written and not committed
  failures    \* history: how many wrong PINs a row has been given

vars == <<now, pins, pc, call, seen, snapshot, held, failures>>

Times == 0..MaxTime
PinRow ==
  [live : BOOLEAN, emp : Employees, badge : Badges, secret : Secrets, attempts : Nat,
   lockedUntil : Optional(Nat), last : Optional(Times), expires : Optional(Expiries)]
ASSUME RowAssumption == None \notin PinRow

Calls ==
  [verb : {"attempt"} \cap Verbs, at : Times, badge : Badges, secret : Secrets]
  \cup [verb : {"issue"} \cap Verbs, at : Times, emp : Employees, badge : Badges,
        secret : Secrets, expires : Expiries]
  \cup [verb : {"rotate"} \cap Verbs, at : Times, emp : Employees, secret : Secrets]
  \cup [verb : {"unlock", "revoke"} \cap Verbs, at : Times, emp : Employees]
--------------------------------------------------------------------------------
Live     == {p \in PinIds : pins[p] # None /\ pins[p].live}
Mine(e)  == {p \in Live : pins[p].emp = e}

\* find_live_pin_by_badge has a LIMIT 1 and no order.
ByBadge(b) == {p \in Live : pins[p].badge = b}

\* The rows other requests have written and not committed are locked.
Free(r, rows) == \A q \in Requests \ {r} : held[q] \cap rows = {}

\* Mutant: the indexes tell one badge from another, not one employee.
ConflictsOnBadge(r) ==
  IF ActingUnit = None THEN {} ELSE {p \in Live \ held[r] : pins[p].badge = call[r].badge}

\* The partial unique indexes (org_unit_id, employee_id) and (org_unit_id,
\* badge_code) over live rows: the rows a new one collides with.  NULLs are
\* distinct, so without an acting unit there are none.
Conflicts(r) ==
  IF ActingUnit = None THEN {}
  ELSE {p \in Live \ held[r] : pins[p].emp = call[r].emp \/ pins[p].badge = call[r].badge}

Busy(r)  == pc[r] \notin {"idle", "done"}
InFlight == {r \in Requests : Busy(r)}

\* The request answers, and its transaction is over; the codes of the answers
\* stand in the comments, for nothing below depends on them.
Reply(r) ==
  /\ pc' = [pc EXCEPT ![r] = "done"]
  /\ call' = [call EXCEPT ![r] = None]
  /\ seen' = [seen EXCEPT ![r] = None]
  /\ snapshot' = [snapshot EXCEPT ![r] = None]
  /\ held' = [held EXCEPT ![r] = {}]

\* The transaction ends without a write.
Refuse(r) == Reply(r) /\ UNCHANGED <<now, pins, failures>>

\* A well-formed call takes the time and begins its transaction.
Receive(r) ==
  /\ pc[r] = "idle"
  /\ Cardinality(InFlight) < MaxInFlight
  /\ \E c \in Calls :
       /\ c.at = now
       /\ call' = [call EXCEPT ![r] = c]
       /\ pc' = [pc EXCEPT ![r] = IF c.verb = "attempt" THEN "lookup" ELSE c.verb]
  /\ UNCHANGED <<now, pins, seen, snapshot, held, failures>>
--------------------------------------------------------------------------------
(* kiosk_punch                                                                  *)

\* The badge's live row, throttled by what it says at the time the attempt began.
LookUp(r) ==
  /\ pc[r] = "lookup"
  /\ \E p \in ByBadge(call[r].badge) :
       /\ Throttle(pins[p], call[r].at) = "ok"
       /\ seen' = [seen EXCEPT ![r] = [id |-> p, row |-> pins[p]]]
  /\ pc' = [pc EXCEPT ![r] = "verify"]
  /\ UNCHANGED <<now, pins, call, snapshot, held, failures>>

\* badge_not_found, or what the throttle says.
LookUpRefused(r) ==
  /\ pc[r] = "lookup"
  /\ \/ ByBadge(call[r].badge) = {}
     \/ \E p \in ByBadge(call[r].badge) : Throttle(pins[p], call[r].at) # "ok"
  /\ Refuse(r)

Verified(r) == call[r].secret = seen[r].row.secret

\* The columns record_pin_failure and record_pin_success write.
Failed(row, attempts, at) ==
  [row EXCEPT !.attempts = attempts, !.lockedUntil = LockoutUntil(attempts, at), !.last = at]
Succeeded(row, at) == [row EXCEPT !.attempts = 0, !.lockedUntil = None, !.last = at]

\* record_pin_failure writes the counter it has computed from the row it read, and
\* the attempt is answered invalid_pin.
RecordFailure(r) ==
  /\ pc[r] = "verify" /\ ~Verified(r)
  /\ LET p == seen[r].id
     IN  /\ Free(r, {p})
         /\ pins' = [pins EXCEPT ![p] = Failed(@, seen[r].row.attempts + 1, call[r].at)]
         /\ failures' = [failures EXCEPT ![p] = @ + 1]
  /\ Reply(r)
  /\ UNCHANGED now

\* record_pin_success, uncommitted: the punch runs in the same transaction.
RecordSuccess(r) ==
  /\ pc[r] = "verify" /\ Verified(r)
  /\ Free(r, {seen[r].id})
  /\ held' = [held EXCEPT ![r] = {seen[r].id}]
  /\ pc' = [pc EXCEPT ![r] = "punch"]
  /\ UNCHANGED <<now, pins, call, seen, snapshot, failures>>

PunchCommits(r) ==
  /\ pc[r] = "punch"
  /\ pins' = [pins EXCEPT ![seen[r].id] = Succeeded(@, call[r].at)]
  /\ Reply(r)
  /\ UNCHANGED <<now, failures>>

\* The punch is refused, and the stamp of the success is rolled back with it.
PunchRefused(r) == pc[r] = "punch" /\ Refuse(r)
--------------------------------------------------------------------------------
(* Administration                                                               *)

\* The live rows of the employee: those of the statement's snapshot that are still
\* live, when it had to wait.  A row committed meanwhile is not among them.
Targets(r) == IF snapshot[r] = None THEN Mine(call[r].emp) ELSE snapshot[r] \cap Live

\* An UPDATE that meets a row another request holds has taken its snapshot.
Block(r) ==
  /\ pc[r] \in {"issue", "rotate", "unlock", "revoke"}
  /\ snapshot[r] = None
  /\ ~Free(r, Mine(call[r].emp))
  /\ snapshot' = [snapshot EXCEPT ![r] = Mine(call[r].emp)]
  /\ UNCHANGED <<now, pins, pc, call, seen, held, failures>>

\* Mutant: the lock is cleared, the counter behind it is not.
ManagedKeepingCounter(row, c) ==
  CASE c.verb = "rotate" -> [row EXCEPT !.secret = c.secret, !.attempts = 0, !.lockedUntil = None]
    [] c.verb = "unlock" -> [row EXCEPT !.lockedUntil = None]
    [] c.verb = "revoke" -> [row EXCEPT !.live = FALSE]

\* replace_pin_hash, unlock_pin and revoke_pin on one row.
Managed(row, c) ==
  CASE c.verb = "rotate" -> [row EXCEPT !.secret = c.secret, !.attempts = 0, !.lockedUntil = None]
    [] c.verb = "unlock" -> [row EXCEPT !.attempts = 0, !.lockedUntil = None]
    [] c.verb = "revoke" -> [row EXCEPT !.live = FALSE]

\* One UPDATE and the commit; without a row it is answered pin_not_found.
Manage(r) ==
  /\ pc[r] \in {"rotate", "unlock", "revoke"}
  /\ Free(r, Targets(r))
  /\ pins' = [p \in PinIds |->
                IF p \in Targets(r) THEN Managed(pins[p], call[r]) ELSE pins[p]]
  /\ Reply(r)
  /\ UNCHANGED <<now, failures>>

\* issue_pin: the employee's live rows are soft-deleted first, uncommitted ...
RevokeOld(r) ==
  /\ pc[r] = "issue"
  /\ Free(r, Targets(r))
  /\ held' = [held EXCEPT ![r] = Targets(r)]
  /\ pc' = [pc EXCEPT ![r] = "insert"]
  /\ snapshot' = [snapshot EXCEPT ![r] = None]
  /\ UNCHANGED <<now, pins, call, seen, failures>>

\* ... and the new row is inserted, if it collides with no live row.
InsertPin(r) ==
  /\ pc[r] = "insert"
  /\ Conflicts(r) = {}
  /\ \E p \in {x \in PinIds : pins[x] = None} :
       pins' = [x \in PinIds |->
                  IF x = p
                  THEN [live |-> TRUE, emp |-> call[r].emp, badge |-> call[r].badge,
                        secret |-> call[r].secret, attempts |-> 0, lockedUntil |-> None,
                        last |-> None, expires |-> call[r].expires]
                  ELSE IF x \in held[r] THEN [pins[x] EXCEPT !.live = FALSE] ELSE pins[x]]
  /\ Reply(r)
  /\ UNCHANGED <<now, failures>>

\* A collision with a row nobody is changing is 23505: pin_already_issued.
InsertRefused(r) ==
  /\ pc[r] = "insert"
  /\ \E p \in Conflicts(r) : Free(r, {p})
  /\ Refuse(r)

\* PostgreSQL breaks a cycle of inserts that wait for each other's soft-deletes.
WaitsFor(r) == {q \in Requests \ {r} : held[q] \cap Conflicts(r) # {}}
DeadlockVictim(r) ==
  /\ \E cycle \in SUBSET {q \in Requests : pc[q] = "insert"} :
       r \in cycle /\ \A q \in cycle : WaitsFor(q) \cap cycle # {}
  /\ Refuse(r)

\* The client goes away or the process dies: the transaction is rolled back.
Abandon(r) == Busy(r) /\ Refuse(r)

Tick ==
  /\ now < MaxTime
  /\ now' = now + 1
  /\ UNCHANGED <<pins, pc, call, seen, snapshot, held, failures>>

\* The PINs the table may already hold, which its indexes have accepted (bound:
\* those issued before the run never expire).
Issued == [live : {TRUE}, emp : Employees, badge : Badges, secret : Secrets, attempts : {0},
           lockedUntil : {None}, last : {None}, expires : {None}]
Distinct ==
  \A p, q \in Live : pins[p].emp = pins[q].emp \/ pins[p].badge = pins[q].badge => p = q

Init ==
  /\ now = 0
  /\ pins \in [PinIds -> Optional(Issued)] /\ Distinct
  /\ pc = [r \in Requests |-> "idle"]
  /\ call = [r \in Requests |-> None]
  /\ seen = [r \in Requests |-> None]
  /\ snapshot = [r \in Requests |-> None]
  /\ held = [r \in Requests |-> {}]
  /\ failures = [p \in PinIds |-> 0]

Handle(r) ==
  \/ LookUp(r) \/ LookUpRefused(r) \/ RecordFailure(r) \/ RecordSuccess(r)
  \/ PunchCommits(r) \/ PunchRefused(r) \/ Block(r) \/ Manage(r)
  \/ RevokeOld(r) \/ InsertPin(r) \/ InsertRefused(r) \/ DeadlockVictim(r)

Quiesce == (\A r \in Requests : pc[r] = "done") /\ UNCHANGED vars

Next == (\E r \in Requests : Receive(r) \/ Handle(r) \/ Abandon(r)) \/ Tick \/ Quiesce

Spec == Init /\ [][Next]_vars

--------------------------------------------------------------------------------
(* Properties                                                                   *)

\* Every row, and what every request keeps, has its shape.
TypeOK ==
  /\ now \in Times
  /\ pins \in [PinIds -> Optional(PinRow)]
  /\ pc \in [Requests -> {"idle", "lookup", "verify", "punch", "issue", "insert", "rotate",
                         "unlock", "revoke", "done"}]
  /\ call \in [Requests -> Optional(Calls)]
  /\ seen \in [Requests -> Optional([id : PinIds, row : PinRow])]
  /\ snapshot \in [Requests -> Optional(SUBSET PinIds)]
  /\ held \in [Requests -> SUBSET PinIds]
  /\ failures \in [PinIds -> Nat]

\* In a deployment with an acting unit, an employee has one live credential and a
\* badge names one, whatever issues and revocations are in flight together.
OneLivePin == ActingUnit # None => Distinct

\* The lock and the counter never come apart: a row is locked exactly when its
\* counter has reached the limit, and until the time that count stands for.
LockMatchesCounter ==
  \A p \in PinIds : pins[p] # None =>
    IF pins[p].attempts < PinMaxAttempts THEN pins[p].lockedUntil = None
    ELSE /\ pins[p].last # None
         /\ pins[p].lockedUntil = LockoutUntil(pins[p].attempts, pins[p].last)

\* Nobody is locked out for less than the limit of wrong PINs: the counter, which
\* concurrent attempts compute from rows that are out of date, never runs ahead of
\* the wrong PINs the credential was given.
LockedForCause ==
  \A p \in PinIds : pins[p] # None =>
    /\ pins[p].attempts <= failures[p]
    /\ pins[p].lockedUntil # None => failures[p] >= PinMaxAttempts
================================================================================
