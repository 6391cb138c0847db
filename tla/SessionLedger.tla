----------------------------- MODULE SessionLedger -----------------------------
(* What the sessions table promises, whoever writes it and in whatever order:   *)
(* per employee a timeline of worked intervals of which no instant is covered   *)
(* twice, that grows by opening, closing and, deliberately, reshaping one       *)
(* interval at a time.  An interval never disappears or changes its owner.      *)
EXTENDS Nullable

CONSTANTS Employees, SessionIds, Instants

VARIABLE ledger   \* SessionIds -> [emp, in, out], or None; out = None while open

\* The instants an interval covers; None stands for the time after them all, which
\* every open interval reaches.
Covers(i) ==
  {t \in Instants : i.in <= t /\ (i.out # None => t < i.out)} \cup ({i.out} \cap {None})

Disjoint(book) ==
  \A s, x \in {y \in SessionIds : book[y] # None} :
    s # x /\ book[s].emp = book[x].emp => Covers(book[s]) \cap Covers(book[x]) = {}

Init == ledger = [s \in SessionIds |-> None]

Write(s, interval) ==
  /\ ledger' = [ledger EXCEPT ![s] = interval]
  /\ Disjoint(ledger')

Open(s, e, t) ==
  ledger[s] = None /\ Write(s, [emp |-> e, in |-> t, out |-> None])

Close(s, t) ==
  /\ ledger[s] # None
  /\ ledger[s].out = None /\ ledger[s].in <= t
  /\ Write(s, [ledger[s] EXCEPT !.out = t])

Reshape(s, t, u) ==
  /\ ledger[s] # None
  /\ u # None => t < u
  /\ Write(s, [emp |-> ledger[s].emp, in |-> t, out |-> u])

Next ==
  \E s \in SessionIds, t \in Instants :
    \/ \E e \in Employees : Open(s, e, t)
    \/ Close(s, t)
    \/ \E u \in Optional(Instants) : Reshape(s, t, u)

Spec == Init /\ [][Next]_ledger
================================================================================
