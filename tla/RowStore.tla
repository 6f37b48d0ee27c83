------------------------------- MODULE RowStore -------------------------------
(***************************************************************************)
(* The part of PostgreSQL the repositories rely on: transactions at READ   *)
(* COMMITTED (pgx's Begin with no options).  A row is one element of Row;  *)
(* `db` holds the last committed value of each, `dirty` what each open     *)
(* transaction has written so far.  A writer holds the row's lock until    *)
(* its transaction ends; a plain SELECT takes no lock and sees the last    *)
(* committed value, or the transaction's own.  An UPDATE ... WHERE waits   *)
(* for the lock and evaluates its condition on the value it then finds.    *)
(***************************************************************************)
EXTENDS TLC

CONSTANT Proc               \* sessions: one open transaction each

VARIABLES
  db,                       \* [row -> committed value]
  dirty                     \* [Proc -> [some rows -> uncommitted value]]

NoWrites == <<>>

(* A statement's writes when it writes one row.                            *)
Only(row, value) == [r \in {row} |-> value]

(* What two statements write, in one step.                                 *)
Together(f, g) ==
  [r \in DOMAIN f \cup DOMAIN g |-> IF r \in DOMAIN f THEN f[r] ELSE g[r]]

(* What a SELECT in p's transaction returns for the row.                   *)
Read(p, row) == IF row \in DOMAIN dirty[p] THEN dirty[p][row] ELSE db[row]

(* Whether p may write the row now: no other open transaction has.         *)
Unlocked(p, row) == \A q \in Proc \ {p} : row \notin DOMAIN dirty[q]

(* One statement of p writes `rows`, a function from rows to values.       *)
Write(p, rows) ==
  /\ \A row \in DOMAIN rows : Unlocked(p, row)
  /\ dirty' = [dirty EXCEPT ![p] = [row \in DOMAIN rows \cup DOMAIN @ |->
                                      IF row \in DOMAIN rows THEN rows[row] ELSE @[row]]]
  /\ UNCHANGED db

(* COMMIT publishes p's writes, with those of its last statement, `rows`.  *)
CommitWith(p, rows) ==
  /\ \A row \in DOMAIN rows : Unlocked(p, row)
  /\ db' = [row \in DOMAIN db |-> IF row \in DOMAIN rows THEN rows[row] ELSE Read(p, row)]
  /\ dirty' = [dirty EXCEPT ![p] = NoWrites]

Commit(p) == CommitWith(p, NoWrites)

(* ROLLBACK, an error in a statement, or a lost connection.                *)
Rollback(p) ==
  /\ dirty' = [dirty EXCEPT ![p] = NoWrites]
  /\ UNCHANGED db

NoStatement == UNCHANGED <<db, dirty>>

(* Sessions that wait for each other, when session p's next statement      *)
(* needs the locks of the rows wants[p].                                   *)
WaitCycle(S, wants) ==
  \A p \in S : \E q \in S \ {p} : wants[p] \cap DOMAIN dirty[q] # {}

(* Postgres breaks a deadlock by failing a statement of a session in it.   *)
Victim(p, wants) ==
  \E S \in SUBSET DOMAIN wants :
    /\ p \in S /\ WaitCycle(S, wants)
    /\ \A T \in SUBSET S \ {S, {}} : ~WaitCycle(T, wants)
===============================================================================
