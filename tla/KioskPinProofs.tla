----------------------------- MODULE KioskPinProofs -----------------------------
(* Proofs about KioskPin: one live credential per employee and badge, a lock    *)
(* that matches its counter, and no lockout without its wrong PINs, for every   *)
(* set of employees, badges, rows and requests.                                 *)
EXTENDS KioskPin, TLAPS
--------------------------------------------------------------------------------
(* The lockout.                                                                 *)

LEMMA PowersOfTwo ==
  ASSUME NEW n \in 0..16
  PROVE  2^n \in Nat
<1>1. \/ n = 0 \/ n = 1 \/ n = 2 \/ n = 3 \/ n = 4 \/ n = 5 \/ n = 6 \/ n = 7 \/ n = 8
      \/ n = 9 \/ n = 10 \/ n = 11 \/ n = 12 \/ n = 13 \/ n = 14 \/ n = 15 \/ n = 16
  OBVIOUS
<1>2. /\ 2^0 \in Nat /\ 2^1 \in Nat /\ 2^2 \in Nat /\ 2^3 \in Nat /\ 2^4 \in Nat
      /\ 2^5 \in Nat /\ 2^6 \in Nat /\ 2^7 \in Nat /\ 2^8 \in Nat /\ 2^9 \in Nat
      /\ 2^10 \in Nat /\ 2^11 \in Nat /\ 2^12 \in Nat /\ 2^13 \in Nat /\ 2^14 \in Nat
      /\ 2^15 \in Nat /\ 2^16 \in Nat
  OBVIOUS
<1>3. QED BY <1>1, <1>2, Zenon

LEMMA MinOfTwo ==
  ASSUME NEW a \in Int, NEW b \in Int
  PROVE  Min({a, b}) = IF a <= b THEN a ELSE b
<1>1. CASE a <= b
  <2>1. \A x \in {a, b} : (\A y \in {a, b} : x <= y) <=> x = a BY <1>1
  <2>2. QED BY <1>1, <2>1 DEF Min
<1>2. CASE ~(a <= b)
  <2>1. \A x \in {a, b} : (\A y \in {a, b} : x <= y) <=> x = b BY <1>2
  <2>2. QED BY <1>2, <2>1 DEF Min
<1>3. QED BY <1>1, <1>2

\* A lockout is a time, and there is one exactly from the limit on.
LEMMA LockoutType ==
  ASSUME NEW attempts \in Nat, NEW t \in Nat
  PROVE  /\ LockoutUntil(attempts, t) \in Optional(Nat)
         /\ LockoutUntil(attempts, t) = None <=> attempts < PinMaxAttempts
<1>1. CASE attempts < PinMaxAttempts BY <1>1 DEF LockoutUntil, Optional
<1>2. CASE ~(attempts < PinMaxAttempts)
  <2> DEFINE over == attempts - PinMaxAttempts
             lock == PinLockBase * 2^Min({over, 16})
  <2>1. over \in Nat BY <1>2, PinPolicyAssumption
  <2>2. Min({over, 16}) \in 0..16 BY <2>1, MinOfTwo
  <2>3. 2^Min({over, 16}) \in Nat BY <2>2, PowersOfTwo
  <2>4. \A n \in Nat : PinLockBase * n \in Nat /\ PinLockMax \in Nat
    BY PinPolicyAssumption
  <2>5. lock \in Nat /\ PinLockMax \in Nat BY <2>3, <2>4
  <2> HIDE DEF lock
  <2>6. Min({lock, PinLockMax}) \in Nat BY <2>5, MinOfTwo
  <2>7. LockoutUntil(attempts, t) = t + Min({lock, PinLockMax})
    BY <1>2 DEF LockoutUntil, lock
  <2>8. t + Min({lock, PinLockMax}) \in Nat BY <2>6
  <2>9. QED BY <1>2, <2>7, <2>8, NoneAssumption DEF Optional
<1>3. QED BY <1>1, <1>2
--------------------------------------------------------------------------------
(* The inductive invariant.                                                     *)

Seen == [id : PinIds, row : PinRow]
Kept(p) == pins[p] # None

\* What a request keeps fits where it is.  An attempt has read a row that is still
\* there, with a counter its wrong PINs account for.
RequestState(r) ==
  /\ Busy(r) => call[r] \in Calls
  /\ pc[r] \in {"lookup", "verify", "punch"} => call[r].verb = "attempt"
  /\ pc[r] \in {"issue", "insert"} => call[r].verb = "issue"
  /\ pc[r] \in {"rotate", "unlock", "revoke"} => call[r].verb = pc[r]
  /\ pc[r] \in {"verify", "punch"} =>
       seen[r] \in Seen /\ Kept(seen[r].id) /\ seen[r].row.attempts <= failures[seen[r].id]
  /\ \A p \in held[r] : Kept(p)
RequestsState == \A r \in Requests : RequestState(r)

Inv == TypeOK /\ RequestsState /\ OneLivePin /\ LockMatchesCounter /\ LockedForCause
--------------------------------------------------------------------------------
(* What the steps write.                                                        *)

\* The arguments of a call, by verb.
LEMMA CallType ==
  ASSUME NEW c \in Calls
  PROVE  /\ c.verb \in {"attempt", "issue", "rotate", "unlock", "revoke"}
         /\ c.at \in Times /\ c.at \in Nat
         /\ c.verb = "attempt" => c.badge \in Badges /\ c.secret \in Secrets
         /\ c.verb = "issue" => /\ c.emp \in Employees /\ c.badge \in Badges
                                /\ c.secret \in Secrets /\ c.expires \in Expiries
         /\ c.verb = "rotate" => c.emp \in Employees /\ c.secret \in Secrets
         /\ c.verb \in {"unlock", "revoke"} => c.emp \in Employees
  BY KioskPinAssumption DEF Calls, Times

LEMMA RowType ==
  ASSUME TypeOK
  PROVE  \A p \in PinIds : Kept(p) => pins[p] \in PinRow
  BY DEF TypeOK, Optional, Kept

\* The columns that never change, and the lock that stays in step with the counter.
SameCredential(old, new) ==
  /\ new.emp = old.emp /\ new.badge = old.badge /\ (new.live => old.live)
LockStands(row) ==
  IF row.attempts < PinMaxAttempts THEN row.lockedUntil = None
  ELSE row.last # None /\ row.lockedUntil = LockoutUntil(row.attempts, row.last)

LEMMA FailedRow ==
  ASSUME NEW row \in PinRow, NEW attempts \in Nat, NEW at \in Times
  PROVE  /\ Failed(row, attempts, at) \in PinRow
         /\ SameCredential(row, Failed(row, attempts, at))
         /\ LockStands(Failed(row, attempts, at))
         /\ Failed(row, attempts, at).attempts = attempts
<1>1. at \in Nat /\ at # None BY KioskPinAssumption, NoneAssumption DEF Times
<1>2. PICK until \in Optional(Nat) :
        /\ until = LockoutUntil(attempts, at)
        /\ until = None <=> attempts < PinMaxAttempts
  BY <1>1, LockoutType
<1>3. PICK new : new = Failed(row, attempts, at) OBVIOUS
<1>4. new = [row EXCEPT !.attempts = attempts, !.lockedUntil = until, !.last = at]
  BY <1>2, <1>3 DEF Failed
<1>5. /\ new \in PinRow /\ new.emp = row.emp /\ new.badge = row.badge /\ new.live = row.live
      /\ new.attempts = attempts /\ new.lockedUntil = until /\ new.last = at
  BY <1>4 DEF PinRow, Optional
<1>6. QED BY <1>1, <1>2, <1>3, <1>5 DEF SameCredential, LockStands

LEMMA SucceededRow ==
  ASSUME NEW row \in PinRow, NEW at \in Times
  PROVE  /\ Succeeded(row, at) \in PinRow
         /\ SameCredential(row, Succeeded(row, at))
         /\ LockStands(Succeeded(row, at)) /\ Succeeded(row, at).attempts = 0
<1>1. PICK new : new = Succeeded(row, at) OBVIOUS
<1>2. /\ new \in PinRow /\ new.emp = row.emp /\ new.badge = row.badge /\ new.live = row.live
      /\ new.attempts = 0 /\ new.lockedUntil = None
  BY <1>1 DEF Succeeded, PinRow, Optional
<1>3. QED BY <1>1, <1>2, PinPolicyAssumption DEF SameCredential, LockStands

LEMMA ManagedRow ==
  ASSUME NEW row \in PinRow, NEW c \in Calls, c.verb \in {"rotate", "unlock", "revoke"}
  PROVE  /\ Managed(row, c) \in PinRow
         /\ SameCredential(row, Managed(row, c))
         /\ LockStands(row) => LockStands(Managed(row, c))
         /\ Managed(row, c).attempts \in {0, row.attempts}
<1>1. PICK new : new = Managed(row, c) OBVIOUS
<1>2. CASE c.verb = "rotate"
  <2>1. new = [row EXCEPT !.secret = c.secret, !.attempts = 0, !.lockedUntil = None]
    BY <1>1, <1>2 DEF Managed
  <2>2. /\ new \in PinRow /\ new.emp = row.emp /\ new.badge = row.badge /\ new.live = row.live
        /\ new.attempts = 0 /\ new.lockedUntil = None
    BY <1>2, <2>1, CallType DEF PinRow, Optional
  <2>3. QED BY <1>1, <2>2, PinPolicyAssumption DEF SameCredential, LockStands
<1>3. CASE c.verb = "unlock"
  <2>1. new = [row EXCEPT !.attempts = 0, !.lockedUntil = None] BY <1>1, <1>3 DEF Managed
  <2>2. /\ new \in PinRow /\ new.emp = row.emp /\ new.badge = row.badge /\ new.live = row.live
        /\ new.attempts = 0 /\ new.lockedUntil = None
    BY <2>1 DEF PinRow, Optional
  <2>3. QED BY <1>1, <2>2, PinPolicyAssumption DEF SameCredential, LockStands
<1>4. CASE c.verb = "revoke"
  <2>1. new = [row EXCEPT !.live = FALSE] BY <1>1, <1>4 DEF Managed
  <2>2. /\ new \in PinRow /\ new.emp = row.emp /\ new.badge = row.badge /\ new.live = FALSE
        /\ new.attempts = row.attempts /\ new.lockedUntil = row.lockedUntil
        /\ new.last = row.last
    BY <2>1 DEF PinRow
  <2>3. QED BY <1>1, <2>2 DEF SameCredential, LockStands
<1>5. QED BY <1>2, <1>3, <1>4
--------------------------------------------------------------------------------
(* What a step may do to the table, and to the requests.                        *)

Rewritten(p) ==
  /\ Kept(p) /\ pins'[p] \in PinRow /\ SameCredential(pins[p], pins'[p])
  /\ LockStands(pins[p]) => LockStands(pins'[p])
  /\ pins[p].attempts <= failures[p] => pins'[p].attempts <= failures'[p]
Inserted(p) ==
  /\ ~Kept(p) /\ pins'[p] \in PinRow
  /\ pins'[p].attempts = 0 /\ pins'[p].lockedUntil = None
RowsStep ==
  /\ pins' \in [PinIds -> Optional(PinRow)] /\ failures' \in [PinIds -> Nat]
  /\ \A p \in PinIds : failures[p] <= failures'[p]
  /\ \A p \in PinIds : pins'[p] = pins[p] \/ Rewritten(p) \/ Inserted(p)
Updates == RowsStep /\ \A p \in PinIds : pins'[p] = pins[p] \/ Rewritten(p)

LEMMA NoRows ==
  ASSUME TypeOK, UNCHANGED <<pins, failures>>
  PROVE  Updates
  BY DEF Updates, RowsStep, TypeOK

\* Writing one row, or several, each in a way that is allowed, is an update.
LEMMA UpdateRows ==
  ASSUME TypeOK, NEW S \in SUBSET PinIds, NEW new \in [S -> PinRow],
         \A p \in S : Kept(p),
         pins' = [p \in PinIds |-> IF p \in S THEN new[p] ELSE pins[p]],
         failures' \in [PinIds -> Nat], \A p \in PinIds : failures[p] <= failures'[p],
         \A p \in S : /\ SameCredential(pins[p], new[p])
                      /\ LockStands(pins[p]) => LockStands(new[p])
                      /\ pins[p].attempts <= failures[p] => new[p].attempts <= failures'[p]
  PROVE  Updates
<1>1. \A p \in S : pins'[p] = new[p] BY DEF TypeOK
<1>2. \A p \in PinIds \ S : pins'[p] = pins[p] BY DEF TypeOK
<1>3. pins' \in [PinIds -> Optional(PinRow)] BY DEF TypeOK, Optional
<1>4. \A p \in S : Rewritten(p) BY <1>1 DEF Rewritten
<1>5. QED BY <1>2, <1>3, <1>4 DEF Updates, RowsStep

LEMMA UpdateRow ==
  ASSUME TypeOK, NEW p \in PinIds, Kept(p), NEW row \in PinRow,
         pins' = [pins EXCEPT ![p] = row],
         failures' \in [PinIds -> Nat], \A x \in PinIds : failures[x] <= failures'[x],
         SameCredential(pins[p], row), LockStands(row), row.attempts <= failures'[p]
  PROVE  Updates
<1>1. pins'[p] = row /\ \A x \in PinIds \ {p} : pins'[x] = pins[x] BY DEF TypeOK
<1>2. pins' \in [PinIds -> Optional(PinRow)] BY DEF TypeOK, Optional
<1>3. Rewritten(p) BY <1>1 DEF Rewritten
<1>4. QED BY <1>1, <1>2, <1>3 DEF Updates, RowsStep

LEMMA FailureUpdates ==
  ASSUME Inv, NEW r \in Requests, RecordFailure(r)
  PROVE  Updates
<1>1. PICK p \in PinIds, n \in Nat, at \in Times :
        /\ p = seen[r].id /\ n = seen[r].row.attempts /\ at = call[r].at
        /\ Kept(p) /\ n <= failures[p]
  <2>1. call[r] \in Calls /\ seen[r] \in Seen /\ Kept(seen[r].id)
        /\ seen[r].row.attempts <= failures[seen[r].id]
    BY DEF RecordFailure, Inv, RequestsState, RequestState, Busy
  <2>2. seen[r].id \in PinIds /\ seen[r].row.attempts \in Nat BY <2>1 DEF Seen, PinRow
  <2>3. call[r].at \in Times BY <2>1, CallType
  <2>4. QED BY <2>1, <2>2, <2>3
<1>2. /\ pins' = [pins EXCEPT ![p] = Failed(pins[p], n + 1, at)]
      /\ failures' = [failures EXCEPT ![p] = @ + 1]
  BY <1>1 DEF RecordFailure
<1>3. pins[p] \in PinRow /\ n + 1 \in Nat /\ TypeOK BY <1>1, RowType DEF Inv
<1>4. PICK row \in PinRow : row = Failed(pins[p], n + 1, at) BY <1>3, FailedRow
<1>5. SameCredential(pins[p], row) /\ LockStands(row) /\ row.attempts = n + 1
  BY <1>3, <1>4, FailedRow
<1>6. /\ failures' \in [PinIds -> Nat] /\ \A x \in PinIds : failures[x] <= failures'[x]
      /\ n + 1 <= failures'[p]
  BY <1>1, <1>2 DEF Inv, TypeOK
<1>7. pins' = [pins EXCEPT ![p] = row] BY <1>2, <1>4
<1>8. QED BY <1>1, <1>3, <1>5, <1>6, <1>7, UpdateRow

LEMMA PunchUpdates ==
  ASSUME Inv, NEW r \in Requests, PunchCommits(r)
  PROVE  Updates
<1>1. PICK p \in PinIds, at \in Times : p = seen[r].id /\ at = call[r].at /\ Kept(p)
  <2>1. call[r] \in Calls /\ seen[r] \in Seen /\ Kept(seen[r].id)
    BY DEF PunchCommits, Inv, RequestsState, RequestState, Busy
  <2>2. seen[r].id \in PinIds BY <2>1 DEF Seen
  <2>3. call[r].at \in Times BY <2>1, CallType
  <2>4. QED BY <2>1, <2>2, <2>3
<1>2. pins' = [pins EXCEPT ![p] = Succeeded(pins[p], at)] /\ failures' = failures
  BY <1>1 DEF PunchCommits
<1>3. pins[p] \in PinRow /\ TypeOK BY <1>1, RowType DEF Inv
<1>4. PICK row \in PinRow : row = Succeeded(pins[p], at) BY <1>3, SucceededRow
<1>5. SameCredential(pins[p], row) /\ LockStands(row) /\ row.attempts = 0
  BY <1>3, <1>4, SucceededRow
<1>6. /\ failures' \in [PinIds -> Nat] /\ \A x \in PinIds : failures[x] <= failures'[x]
      /\ row.attempts <= failures'[p]
  BY <1>2, <1>5 DEF Inv, TypeOK
<1>7. pins' = [pins EXCEPT ![p] = row] BY <1>2, <1>4
<1>8. QED BY <1>1, <1>3, <1>5, <1>6, <1>7, UpdateRow

LEMMA TargetsKept ==
  ASSUME TypeOK, NEW r \in Requests
  PROVE  Targets(r) \subseteq Live /\ Targets(r) \subseteq PinIds /\ \A p \in Targets(r) : Kept(p)
  BY DEF Targets, Mine, Live, Kept

LEMMA ManageUpdates ==
  ASSUME Inv, NEW r \in Requests, Manage(r)
  PROVE  Updates
<1>1. TypeOK /\ \A p \in PinIds : failures[p] \in Nat BY DEF Inv, TypeOK
<1>2. PICK c \in Calls : c = call[r] /\ c.verb \in {"rotate", "unlock", "revoke"}
  BY DEF Manage, Inv, RequestsState, RequestState, Busy
<1>3. PICK S \in SUBSET PinIds : S = Targets(r) /\ \A p \in S : Kept(p) /\ pins[p] \in PinRow
  BY <1>1, TargetsKept, RowType
<1>4. PICK new : new = [p \in S |-> Managed(pins[p], c)] OBVIOUS
<1>5. new \in [S -> PinRow] BY <1>2, <1>3, <1>4, ManagedRow
<1>6. /\ pins' = [p \in PinIds |-> IF p \in S THEN new[p] ELSE pins[p]]
      /\ failures' = failures
  BY <1>2, <1>3, <1>4 DEF Manage
<1>7. /\ failures' \in [PinIds -> Nat] /\ \A p \in PinIds : failures[p] <= failures'[p]
  BY <1>1, <1>6 DEF TypeOK
<1>8. ASSUME NEW p \in S
      PROVE  /\ SameCredential(pins[p], new[p])
             /\ LockStands(pins[p]) => LockStands(new[p])
             /\ pins[p].attempts <= failures[p] => new[p].attempts <= failures'[p]
  <2>1. /\ SameCredential(pins[p], new[p])
        /\ LockStands(pins[p]) => LockStands(new[p])
        /\ new[p].attempts \in {0, pins[p].attempts}
    BY <1>2, <1>3, <1>4, ManagedRow
  <2>2. QED BY <1>1, <1>6, <2>1
<1>9. QED BY <1>1, <1>3, <1>5, <1>6, <1>7, <1>8, UpdateRows

\* The row an issue inserts collides with no live row but those it soft-deletes.
LEMMA InsertRows ==
  ASSUME Inv, NEW r \in Requests, InsertPin(r)
  PROVE  RowsStep /\ OneLivePin'
<1>1. TypeOK /\ \A p \in PinIds : failures[p] \in Nat BY DEF Inv, TypeOK
<1>2. PICK c \in Calls : c = call[r] /\ c.verb = "issue"
  BY DEF InsertPin, Inv, RequestsState, RequestState, Busy
<1>3. PICK S \in SUBSET PinIds : S = held[r] /\ \A p \in S : Kept(p) /\ pins[p] \in PinRow
  BY <1>1, RowType DEF Inv, RequestsState, RequestState, TypeOK
<1>4. PICK row : row = [live |-> TRUE, emp |-> c.emp, badge |-> c.badge,
                        secret |-> c.secret, attempts |-> 0, lockedUntil |-> None,
                        last |-> None, expires |-> c.expires]
  OBVIOUS
<1>5. /\ row \in PinRow /\ row.attempts = 0 /\ row.lockedUntil = None
      /\ row.emp = c.emp /\ row.badge = c.badge /\ row.live = TRUE
  BY <1>2, <1>4, CallType DEF PinRow, Optional
<1>6. PICK n \in PinIds :
        /\ ~Kept(n)
        /\ pins' = [x \in PinIds |-> IF x = n THEN row
                                    ELSE IF x \in S THEN [pins[x] EXCEPT !.live = FALSE]
                                    ELSE pins[x]]
        /\ failures' = failures
  BY <1>2, <1>3, <1>4 DEF InsertPin, Kept
<1>7. n \notin S BY <1>3, <1>6
<1>8. ASSUME NEW p \in S
      PROVE  /\ pins'[p] \in PinRow /\ pins'[p].live = FALSE
             /\ pins'[p].attempts = pins[p].attempts
             /\ pins'[p].lockedUntil = pins[p].lockedUntil
             /\ pins'[p].last = pins[p].last
             /\ pins'[p].emp = pins[p].emp /\ pins'[p].badge = pins[p].badge
  <2>1. pins'[p] = [pins[p] EXCEPT !.live = FALSE] BY <1>6, <1>7
  <2>2. QED BY <1>3, <2>1 DEF PinRow
<1>9. \A p \in S : Rewritten(p)
  BY <1>1, <1>3, <1>6, <1>8 DEF Rewritten, SameCredential, LockStands
<1>10. pins'[n] = row /\ \A p \in PinIds \ (S \cup {n}) : pins'[p] = pins[p]
  BY <1>6
<1>11. Inserted(n) BY <1>5, <1>6, <1>10 DEF Inserted
<1>12. pins' \in [PinIds -> Optional(PinRow)]
  <2>1. \A p \in PinIds : pins'[p] \in Optional(PinRow)
    BY <1>1, <1>5, <1>8, <1>10 DEF TypeOK, Optional
  <2>2. QED BY <1>6, <2>1
<1>13. failures' \in [PinIds -> Nat] /\ \A p \in PinIds : failures[p] <= failures'[p]
  BY <1>1, <1>6 DEF TypeOK
<1>14. RowsStep BY <1>9, <1>10, <1>11, <1>12, <1>13 DEF RowsStep
<1>15. OneLivePin'
  <2> SUFFICES ASSUME ActingUnit # None, NEW p \in Live', NEW q \in Live',
                      pins'[p].emp = pins'[q].emp \/ pins'[p].badge = pins'[q].badge
               PROVE  p = q
    BY DEF OneLivePin, Distinct
  <2>1. \A x \in Live' : x = n \/ (x \in Live \ S /\ pins'[x] = pins[x])
    BY <1>8, <1>10 DEF Live
  <2>2. \A x \in Live \ S : pins[x].emp # row.emp /\ pins[x].badge # row.badge
    BY <1>2, <1>3, <1>5 DEF InsertPin, Conflicts
  <2>3. CASE p # n /\ q # n BY <2>1, <2>3 DEF Inv, OneLivePin, Distinct
  <2>4. CASE p = n \/ q = n BY <1>10, <2>1, <2>2, <2>4
  <2>5. QED BY <2>3, <2>4
<1>16. QED BY <1>14, <1>15

\* An update takes no credential's place, so it cannot make two of one.
LEMMA UpdatesKeepPinsDistinct ==
  ASSUME Inv, Updates
  PROVE  OneLivePin'
<1> SUFFICES ASSUME ActingUnit # None, NEW p \in Live', NEW q \in Live',
                    pins'[p].emp = pins'[q].emp \/ pins'[p].badge = pins'[q].badge
             PROVE  p = q
  BY DEF OneLivePin, Distinct
<1>1. \A x \in Live' : /\ x \in Live /\ pins'[x].emp = pins[x].emp
                       /\ pins'[x].badge = pins[x].badge
  BY DEF Live, Updates, Rewritten, SameCredential, Kept
<1>2. QED BY <1>1 DEF Inv, OneLivePin, Distinct

\* Whatever rows a step writes that way, the locks and their causes stand.
LEMMA RowsStepKeeps ==
  ASSUME Inv, RowsStep
  PROVE  /\ LockMatchesCounter' /\ LockedForCause'
         /\ \A p \in PinIds : Kept(p) => Kept(p)'
<1>1. ASSUME NEW p \in PinIds, pins'[p] # None
      PROVE  LockStands(pins'[p]) /\ pins'[p].attempts <= failures'[p]
  <2>1. CASE pins'[p] = pins[p]
    <3>1. LockStands(pins[p]) /\ pins[p].attempts <= failures[p] /\ pins[p] \in PinRow
      BY <1>1, <2>1, RowType DEF Inv, LockMatchesCounter, LockedForCause, LockStands, Kept
    <3>2. /\ failures[p] \in Nat /\ failures'[p] \in Nat /\ failures[p] <= failures'[p]
          /\ pins[p].attempts \in Nat
      BY <3>1 DEF RowsStep, Inv, TypeOK, PinRow
    <3>3. QED BY <2>1, <3>1, <3>2
  <2>2. CASE Rewritten(p)
    BY <2>2 DEF Rewritten, Inv, LockMatchesCounter, LockedForCause, LockStands, Kept
  <2>3. CASE Inserted(p)
    BY <2>3, PinPolicyAssumption DEF Inserted, LockStands, RowsStep
  <2>4. QED BY <2>1, <2>2, <2>3 DEF RowsStep
<1>2. LockMatchesCounter' BY <1>1 DEF LockMatchesCounter, LockStands
<1>3. ASSUME NEW p \in PinIds, pins'[p] # None, pins'[p].lockedUntil # None
      PROVE  failures'[p] >= PinMaxAttempts
  <2>1. ~(pins'[p].attempts < PinMaxAttempts) BY <1>1, <1>3 DEF LockStands
  <2>2. pins'[p] \in PinRow /\ failures'[p] \in Nat BY <1>3 DEF RowsStep, Optional
  <2>3. pins'[p].attempts \in Nat BY <2>2 DEF PinRow
  <2>4. QED BY <1>1, <1>3, <2>1, <2>2, <2>3, PinPolicyAssumption
<1>4. LockedForCause' BY <1>1, <1>3 DEF LockedForCause
<1>5. ASSUME NEW p \in PinIds, Kept(p) PROVE Kept(p)'
  BY <1>5, RowAssumption DEF RowsStep, Rewritten, Inserted, Kept
<1>6. QED BY <1>2, <1>4, <1>5
--------------------------------------------------------------------------------
(* The requests.                                                                *)

PcStates == {"idle", "lookup", "verify", "punch", "issue", "insert", "rotate", "unlock",
             "revoke", "done"}
LocalsOK ==
  /\ pc \in [Requests -> PcStates]
  /\ call \in [Requests -> Optional(Calls)]
  /\ seen \in [Requests -> Optional(Seen)]
  /\ snapshot \in [Requests -> Optional(SUBSET PinIds)]
  /\ held \in [Requests -> SUBSET PinIds]
Waiting(q) ==
  pc'[q] = pc[q] /\ call'[q] = call[q] /\ seen'[q] = seen[q] /\ held'[q] = held[q]

\* A request that stands still keeps what it has, whatever rows others write.
LEMMA WaitingKeeps ==
  ASSUME Inv, RowsStep, NEW q \in Requests, Waiting(q)
  PROVE  RequestState(q)'
<1>1. RequestState(q) BY DEF Inv, RequestsState
<1>2. \A p \in PinIds : Kept(p) => Kept(p)' BY RowsStepKeeps
<1>3. held[q] \subseteq PinIds BY DEF Inv, TypeOK
<1>4. ASSUME pc[q] \in {"verify", "punch"}
      PROVE  /\ seen[q] \in Seen /\ Kept(seen[q].id)'
             /\ seen[q].row.attempts <= failures'[seen[q].id]
  <2>1. PICK p \in PinIds, n \in Nat :
          /\ p = seen[q].id /\ n = seen[q].row.attempts /\ seen[q] \in Seen
          /\ Kept(p) /\ n <= failures[p]
    BY <1>1, <1>4 DEF RequestState, Seen, PinRow
  <2>2. failures[p] \in Nat /\ failures'[p] \in Nat /\ failures[p] <= failures'[p]
    BY DEF RowsStep, Inv, TypeOK
  <2>3. n <= failures'[p] /\ Kept(p)' BY <1>2, <2>1, <2>2
  <2>4. Kept(seen[q].id)' BY <2>1, <2>3 DEF Kept, Waiting
  <2>5. QED BY <2>1, <2>3, <2>4
<1>5. QED BY <1>1, <1>2, <1>3, <1>4 DEF RequestState, Waiting, Busy

LEMMA ReplyKeeps ==
  ASSUME Inv, RowsStep, NEW r \in Requests, Reply(r)
  PROVE  LocalsOK' /\ RequestsState'
<1>1. LocalsOK' BY DEF Reply, LocalsOK, PcStates, Inv, TypeOK, Optional, Seen
<1>2. \A q \in Requests \ {r} : Waiting(q) BY DEF Reply, Waiting, Inv, TypeOK
<1>3. pc'[r] = "done" /\ held'[r] = {} BY DEF Reply, Inv, TypeOK
<1>4. RequestState(r)' BY <1>3 DEF RequestState, Busy
<1>5. QED BY <1>1, <1>2, <1>4, WaitingKeeps DEF RequestsState

\* The steps that answer nobody write no row.
LEMMA MovesKeep ==
  ASSUME Inv, NEW r \in Requests,
         Receive(r) \/ LookUp(r) \/ RecordSuccess(r) \/ Block(r) \/ RevokeOld(r)
  PROVE  LocalsOK' /\ RequestsState' /\ Updates
<1> USE DEF PcStates
<1>1. TypeOK /\ RequestState(r) BY DEF Inv, RequestsState
<1>2. UNCHANGED <<pins, failures>> /\ Updates /\ RowsStep
  BY <1>1, NoRows DEF Receive, LookUp, RecordSuccess, Block, RevokeOld, Updates
<1>3. \A q \in Requests \ {r} : Waiting(q)
  BY <1>1 DEF Receive, LookUp, RecordSuccess, Block, RevokeOld, Waiting, TypeOK
<1>4. CASE Receive(r)
  <2>1. PICK c \in Calls : /\ call' = [call EXCEPT ![r] = c]
                           /\ pc' = [pc EXCEPT ![r] = IF c.verb = "attempt" THEN "lookup"
                                                      ELSE c.verb]
    BY <1>4 DEF Receive
  <2>2. UNCHANGED <<pins, failures, seen, snapshot, held>> BY <1>4 DEF Receive
  <2>3. c.verb \in {"attempt", "issue", "rotate", "unlock", "revoke"} BY CallType
  <2>4. LocalsOK' BY <1>1, <2>1, <2>2, <2>3 DEF LocalsOK, TypeOK, Optional, Seen
  <2>5. /\ call'[r] = c /\ pc'[r] = IF c.verb = "attempt" THEN "lookup" ELSE c.verb
        /\ pc'[r] \notin {"verify", "punch", "insert"}
    BY <1>1, <2>1, <2>3 DEF TypeOK
  <2>6. RequestState(r)'
    BY <1>1, <2>2, <2>3, <2>5 DEF RequestState, Kept, Busy
  <2>7. QED BY <1>2, <1>3, <2>4, <2>6, WaitingKeeps DEF RequestsState
<1>5. CASE LookUp(r)
  <2>1. PICK p \in ByBadge(call[r].badge) :
          seen' = [seen EXCEPT ![r] = [id |-> p, row |-> pins[p]]]
    BY <1>5 DEF LookUp
  <2>2. p \in PinIds /\ pins[p] \in PinRow /\ Kept(p)
    BY <1>1, RowType DEF ByBadge, Live, Kept
  <2>3. PICK s \in Seen : s = [id |-> p, row |-> pins[p]] BY <2>2 DEF Seen
  <2>4. seen' = [seen EXCEPT ![r] = s] /\ s.id = p /\ s.row = pins[p] BY <2>1, <2>3
  <2>5. pins[p].attempts <= failures[p] BY <2>2 DEF Inv, LockedForCause, Kept
  <2>6. /\ pc' = [pc EXCEPT ![r] = "verify"]
        /\ UNCHANGED <<pins, failures, call, snapshot, held>>
        /\ pc[r] = "lookup"
    BY <1>5 DEF LookUp
  <2>7. LocalsOK' BY <1>1, <2>4, <2>6 DEF LocalsOK, TypeOK, Optional, Seen
  <2>8. seen'[r] = s /\ pc'[r] = "verify" BY <1>1, <2>4, <2>6 DEF TypeOK
  <2>9. RequestState(r)'
    BY <1>1, <2>2, <2>4, <2>5, <2>6, <2>8 DEF RequestState, Kept, Busy
  <2>10. QED BY <1>2, <1>3, <2>7, <2>9, WaitingKeeps DEF RequestsState
<1>6. CASE RecordSuccess(r)
  <2>1. /\ held' = [held EXCEPT ![r] = {seen[r].id}]
        /\ pc' = [pc EXCEPT ![r] = "punch"]
        /\ UNCHANGED <<pins, failures, call, seen, snapshot>> /\ pc[r] = "verify"
    BY <1>6 DEF RecordSuccess
  <2>2. seen[r] \in Seen /\ Kept(seen[r].id) BY <1>1, <2>1 DEF RequestState
  <2>3. seen[r].id \in PinIds BY <2>2 DEF Seen
  <2>4. LocalsOK' BY <1>1, <2>1, <2>3 DEF LocalsOK, TypeOK, Seen
  <2>5. held'[r] = {seen[r].id} /\ pc'[r] = "punch" BY <1>1, <2>1 DEF TypeOK
  <2>6. RequestState(r)' BY <1>1, <2>1, <2>2, <2>5 DEF RequestState, Kept, Busy
  <2>7. QED BY <1>2, <1>3, <2>4, <2>6, WaitingKeeps DEF RequestsState
<1>7. CASE Block(r)
  <2>1. /\ snapshot' = [snapshot EXCEPT ![r] = Mine(call[r].emp)]
        /\ UNCHANGED <<pins, failures, pc, call, seen, held>>
    BY <1>7 DEF Block
  <2>2. Mine(call[r].emp) \subseteq PinIds BY DEF Mine, Live
  <2>3. LocalsOK' BY <1>1, <2>1, <2>2 DEF LocalsOK, TypeOK, Optional, Seen
  <2>4. RequestState(r)' BY <1>1, <2>1 DEF RequestState, Kept, Busy
  <2>5. QED BY <1>2, <1>3, <2>3, <2>4, WaitingKeeps DEF RequestsState
<1>8. CASE RevokeOld(r)
  <2>1. /\ held' = [held EXCEPT ![r] = Targets(r)]
        /\ pc' = [pc EXCEPT ![r] = "insert"]
        /\ snapshot' = [snapshot EXCEPT ![r] = None]
        /\ UNCHANGED <<pins, failures, call, seen>> /\ pc[r] = "issue"
    BY <1>8 DEF RevokeOld
  <2>2. Targets(r) \subseteq PinIds /\ \A p \in Targets(r) : Kept(p)
    BY <1>1, TargetsKept
  <2>3. LocalsOK' BY <1>1, <2>1, <2>2 DEF LocalsOK, TypeOK, Optional, Seen
  <2>4. held'[r] = Targets(r) /\ pc'[r] = "insert" BY <1>1, <2>1 DEF TypeOK
  <2>5. RequestState(r)' BY <1>1, <2>1, <2>2, <2>4 DEF RequestState, Kept, Busy
  <2>6. QED BY <1>2, <1>3, <2>3, <2>5, WaitingKeeps DEF RequestsState
<1>9. QED BY <1>4, <1>5, <1>6, <1>7, <1>8

\* Every step keeps the invariant.
LEMMA InvFromParts ==
  ASSUME Inv, RowsStep, OneLivePin', LocalsOK', RequestsState', now' \in Times
  PROVE  Inv'
<1>1. TypeOK' BY DEF TypeOK, LocalsOK, RowsStep, PcStates, Seen
<1>2. QED BY <1>1, RowsStepKeeps DEF Inv

LEMMA ReplyStep ==
  ASSUME Inv, NEW r \in Requests, Reply(r), RowsStep, OneLivePin', UNCHANGED now
  PROVE  Inv'
  BY ReplyKeeps, InvFromParts DEF Inv, TypeOK

LEMMA InvStep ==
  ASSUME Inv, [Next]_vars
  PROVE  Inv'
<1>1. TypeOK /\ now \in Times BY DEF Inv, TypeOK
<1>2. ASSUME NEW r \in Requests,
             Receive(r) \/ LookUp(r) \/ RecordSuccess(r) \/ Block(r) \/ RevokeOld(r)
      PROVE  Inv'
  <2>1. UNCHANGED now
    BY <1>2 DEF Receive, LookUp, RecordSuccess, Block, RevokeOld
  <2>2. QED BY <1>1, <1>2, <2>1, MovesKeep, UpdatesKeepPinsDistinct, InvFromParts DEF Updates
<1>3. ASSUME NEW r \in Requests, Refuse(r) PROVE Inv'
  <2>1. Reply(r) /\ UNCHANGED <<now, pins, failures>> BY <1>3 DEF Refuse
  <2>2. QED BY <1>1, <2>1, NoRows, UpdatesKeepPinsDistinct, ReplyStep DEF Updates
<1>4. ASSUME NEW r \in Requests, RecordFailure(r) \/ PunchCommits(r) \/ Manage(r) PROVE Inv'
  <2>1. Reply(r) /\ UNCHANGED now BY <1>4 DEF RecordFailure, PunchCommits, Manage
  <2>2. Updates BY <1>4, FailureUpdates, PunchUpdates, ManageUpdates
  <2>3. QED BY <2>1, <2>2, UpdatesKeepPinsDistinct, ReplyStep DEF Updates
<1>5. ASSUME NEW r \in Requests, InsertPin(r) PROVE Inv'
  <2>1. Reply(r) /\ UNCHANGED now BY <1>5 DEF InsertPin
  <2>2. QED BY <1>5, <2>1, InsertRows, ReplyStep
<1>6. ASSUME NEW r \in Requests, Handle(r) \/ Abandon(r) PROVE Inv'
  BY <1>2, <1>3, <1>4, <1>5, <1>6
  DEF Handle, LookUpRefused, PunchRefused, InsertRefused, DeadlockVictim, Abandon
<1>7. ASSUME UNCHANGED <<pins, pc, call, seen, snapshot, held, failures>>, now' \in Times
      PROVE  Inv'
  <2>1. Updates BY <1>1, <1>7, NoRows
  <2>2. LocalsOK' BY <1>1, <1>7 DEF TypeOK, LocalsOK, PcStates, Seen
  <2>3. \A q \in Requests : Waiting(q) BY <1>7 DEF Waiting
  <2>4. RequestsState' BY <2>1, <2>3, WaitingKeeps DEF RequestsState, Updates
  <2>5. QED BY <1>7, <2>1, <2>2, <2>4, UpdatesKeepPinsDistinct, InvFromParts DEF Updates
<1>8. ASSUME Tick PROVE Inv'
  BY <1>1, <1>7, <1>8, KioskPinAssumption DEF Tick, Times
<1>9. ASSUME UNCHANGED vars PROVE Inv'
  BY <1>1, <1>7, <1>9 DEF vars
<1>10. QED BY <1>2, <1>6, <1>8, <1>9 DEF Next, Quiesce

LEMMA InitInv == Init => Inv
<1> SUFFICES ASSUME Init PROVE Inv OBVIOUS
<1>1. ASSUME NEW row \in Issued
      PROVE  row \in PinRow /\ row.attempts = 0 /\ row.lockedUntil = None
  <2>1. row.attempts = 0 /\ row.lockedUntil = None BY DEF Issued
  <2>2. row = [live |-> row.live, emp |-> row.emp, badge |-> row.badge,
               secret |-> row.secret, attempts |-> row.attempts,
               lockedUntil |-> row.lockedUntil, last |-> row.last, expires |-> row.expires]
    BY DEF Issued
  <2>3. /\ row.live \in BOOLEAN /\ row.emp \in Employees /\ row.badge \in Badges
        /\ row.secret \in Secrets /\ row.last = None /\ row.expires = None
    BY DEF Issued
  <2>4. row \in PinRow BY <2>1, <2>2, <2>3 DEF PinRow, Optional
  <2>5. QED BY <2>1, <2>4
<1>2. \A p \in PinIds : pins[p] \in Optional(Issued) BY DEF Init
<1>3. pins \in [PinIds -> Optional(PinRow)] BY <1>1 DEF Init, Optional
<1>4. now \in Times BY KioskPinAssumption DEF Init, Times
<1>5. TypeOK BY <1>3, <1>4 DEF Init, TypeOK, Optional
<1>6. RequestsState BY DEF Init, RequestsState, RequestState, Busy
<1>7. LockMatchesCounter /\ LockedForCause
  <2>1. \A p \in PinIds : failures[p] = 0 BY DEF Init
  <2>2. \A p \in PinIds : pins[p] # None => pins[p].attempts = 0 /\ pins[p].lockedUntil = None
    BY <1>1, <1>2 DEF Optional
  <2>3. QED BY <2>1, <2>2, PinPolicyAssumption DEF LockMatchesCounter, LockedForCause
<1>8. OneLivePin BY DEF Init, OneLivePin
<1>9. QED BY <1>5, <1>6, <1>7, <1>8 DEF Inv
--------------------------------------------------------------------------------
(* The theorems.                                                                *)

THEOREM Invariance == Spec => []Inv
  BY InitInv, InvStep, PTL DEF Spec

\* Every row, and what every request keeps, has its shape; a lockout is a time.
THEOREM TypeCorrect == Spec => []TypeOK
<1>1. Inv => TypeOK BY DEF Inv
<1>2. QED BY <1>1, Invariance, PTL

\* Under an acting unit an employee has one live credential and a badge names one,
\* whatever issues, rotations and revocations race.
THEOREM OneCredential == Spec => []OneLivePin
<1>1. Inv => OneLivePin BY DEF Inv
<1>2. QED BY <1>1, Invariance, PTL

\* A row is locked exactly when its counter has reached the limit, although attempts
\* compute the counter from rows that are out of date.
THEOREM LockNeverStray == Spec => []LockMatchesCounter
<1>1. Inv => LockMatchesCounter BY DEF Inv
<1>2. QED BY <1>1, Invariance, PTL

\* Nobody is locked out before the credential was given the limit of wrong PINs.
THEOREM NoLockoutWithoutCause == Spec => []LockedForCause
<1>1. Inv => LockedForCause BY DEF Inv
<1>2. QED BY <1>1, Invariance, PTL
================================================================================
