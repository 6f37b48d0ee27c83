---------------------------- MODULE RowStore_proofs ----------------------------
(* What the statements of RowStore do to the committed rows and the locks. *)
EXTENDS RowStore, TLAPS

(* Committed and written rows are functions, and no row has two writers.   *)
RowsOf(R, V) == /\ db \in [R -> V]
                /\ dirty = [p \in Proc |-> dirty[p]]
                /\ \A p \in Proc : /\ DOMAIN dirty[p] \subseteq R
                                   /\ \A r \in DOMAIN dirty[p] : dirty[p][r] \in V

(* The same of the rows alone, whatever their values.                      *)
StoreOf(R) == /\ DOMAIN db = R
              /\ dirty = [p \in Proc |-> dirty[p]]
              /\ \A p \in Proc : DOMAIN dirty[p] \subseteq R

LocksExclusive == \A p, q \in Proc : p # q => DOMAIN dirty[p] \cap DOMAIN dirty[q] = {}

(* A SELECT returns a value of the row.                                    *)
LEMMA ReadType ==
  ASSUME NEW R, NEW V, RowsOf(R, V), NEW p \in Proc, NEW r \in R
  PROVE  Read(p, r) \in V
BY DEF RowsOf, Read

(* A statement adds its rows to those its session has written.             *)
LEMMA WriteRows ==
  ASSUME NEW R, StoreOf(R), LocksExclusive, NEW p \in Proc, NEW rows,
         DOMAIN rows \subseteq R, Write(p, rows)
  PROVE  /\ StoreOf(R)' /\ LocksExclusive'
         /\ db' = db
         /\ DOMAIN dirty'[p] = DOMAIN rows \cup DOMAIN dirty[p]
         /\ \A r \in DOMAIN dirty'[p] :
              dirty'[p][r] = IF r \in DOMAIN rows THEN rows[r] ELSE dirty[p][r]
         /\ \A q \in Proc \ {p} : dirty'[q] = dirty[q]
<1>1. dirty'[p] = [r \in DOMAIN rows \cup DOMAIN dirty[p] |->
                     IF r \in DOMAIN rows THEN rows[r] ELSE dirty[p][r]]
  BY DEF Write, StoreOf
<1>2. /\ db' = db /\ dirty' = [q \in Proc |-> dirty'[q]]
      /\ \A q \in Proc \ {p} : dirty'[q] = dirty[q]
  BY DEF Write, StoreOf
<1>3. StoreOf(R)'
  BY <1>1, <1>2 DEF StoreOf
<1>4. LocksExclusive'
  BY <1>1, <1>2 DEF LocksExclusive, Write, Unlocked
<1> QED
  BY <1>1, <1>2, <1>3, <1>4

(* A commit publishes what the session has written, and leaves alone every *)
(* row that another session has.                                           *)
LEMMA CommitRows ==
  ASSUME NEW R, StoreOf(R), LocksExclusive, NEW p \in Proc, NEW rows,
         DOMAIN rows \subseteq R, CommitWith(p, rows)
  PROVE  /\ StoreOf(R)' /\ LocksExclusive'
         /\ \A r \in R : db'[r] = IF r \in DOMAIN rows THEN rows[r] ELSE Read(p, r)
         /\ dirty'[p] = NoWrites
         /\ \A q \in Proc \ {p} : /\ dirty'[q] = dirty[q]
                                  /\ \A r \in DOMAIN dirty[q] : db'[r] = db[r]
<1>1. db' = [r \in R |-> IF r \in DOMAIN rows THEN rows[r] ELSE Read(p, r)]
  BY DEF CommitWith, StoreOf, Read
<1>2. /\ dirty' = [q \in Proc |-> dirty'[q]] /\ dirty'[p] = NoWrites
      /\ \A q \in Proc \ {p} : dirty'[q] = dirty[q]
  BY DEF CommitWith, StoreOf
<1>3. DOMAIN NoWrites = {}
  BY DEF NoWrites
<1>4. StoreOf(R)'
  BY <1>1, <1>2, <1>3 DEF StoreOf
<1>5. LocksExclusive'
  BY <1>2, <1>3 DEF LocksExclusive
<1>6. \A q \in Proc \ {p} : \A r \in DOMAIN dirty[q] : db'[r] = db[r]
  BY <1>1 DEF CommitWith, Unlocked, LocksExclusive, Read, StoreOf
<1> QED
  BY <1>1, <1>2, <1>4, <1>5, <1>6

(* A rollback forgets what the session has written.                        *)
LEMMA RollbackRows ==
  ASSUME NEW R, StoreOf(R), LocksExclusive, NEW p \in Proc, Rollback(p)
  PROVE  /\ StoreOf(R)' /\ LocksExclusive'
         /\ db' = db
         /\ dirty'[p] = NoWrites
         /\ \A q \in Proc \ {p} : dirty'[q] = dirty[q]
<1>1. DOMAIN NoWrites = {}
  BY DEF NoWrites
<1> QED
  BY <1>1 DEF Rollback, StoreOf, LocksExclusive

(* The same effects, when the rows have a type.                            *)
LEMMA WriteEffect ==
  ASSUME NEW R, NEW V, RowsOf(R, V), LocksExclusive, NEW p \in Proc, NEW rows,
         DOMAIN rows \subseteq R, \A r \in DOMAIN rows : rows[r] \in V, Write(p, rows)
  PROVE  /\ RowsOf(R, V)' /\ LocksExclusive'
         /\ db' = db
         /\ DOMAIN dirty'[p] = DOMAIN rows \cup DOMAIN dirty[p]
         /\ \A r \in DOMAIN dirty'[p] :
              dirty'[p][r] = IF r \in DOMAIN rows THEN rows[r] ELSE dirty[p][r]
         /\ \A q \in Proc \ {p} : dirty'[q] = dirty[q]
<1>1. /\ StoreOf(R)' /\ LocksExclusive' /\ db' = db
      /\ DOMAIN dirty'[p] = DOMAIN rows \cup DOMAIN dirty[p]
      /\ \A r \in DOMAIN dirty'[p] :
           dirty'[p][r] = IF r \in DOMAIN rows THEN rows[r] ELSE dirty[p][r]
      /\ \A q \in Proc \ {p} : dirty'[q] = dirty[q]
  BY WriteRows DEF RowsOf, StoreOf
<1>2. RowsOf(R, V)'
  BY <1>1 DEF RowsOf, StoreOf
<1> QED
  BY <1>1, <1>2

(* A commit of typed rows.                                                 *)
LEMMA CommitEffect ==
  ASSUME NEW R, NEW V, RowsOf(R, V), LocksExclusive, NEW p \in Proc, NEW rows,
         DOMAIN rows \subseteq R, \A r \in DOMAIN rows : rows[r] \in V, CommitWith(p, rows)
  PROVE  /\ RowsOf(R, V)' /\ LocksExclusive'
         /\ \A r \in R : db'[r] = IF r \in DOMAIN rows THEN rows[r] ELSE Read(p, r)
         /\ dirty'[p] = NoWrites
         /\ \A q \in Proc \ {p} : /\ dirty'[q] = dirty[q]
                                  /\ \A r \in DOMAIN dirty[q] : db'[r] = db[r]
<1>1. /\ StoreOf(R)' /\ LocksExclusive' /\ dirty'[p] = NoWrites
      /\ \A r \in R : db'[r] = IF r \in DOMAIN rows THEN rows[r] ELSE Read(p, r)
      /\ \A q \in Proc \ {p} : /\ dirty'[q] = dirty[q]
                               /\ \A r \in DOMAIN dirty[q] : db'[r] = db[r]
  BY CommitRows DEF RowsOf, StoreOf
<1>2. DOMAIN NoWrites = {}
  BY DEF NoWrites
<1>3. db' = [r \in R |-> db'[r]]
  BY DEF CommitWith, RowsOf
<1>4. RowsOf(R, V)'
  BY <1>1, <1>2, <1>3, ReadType DEF RowsOf, StoreOf
<1> QED
  BY <1>1, <1>4

(* A rollback of typed rows.                                               *)
LEMMA RollbackEffect ==
  ASSUME NEW R, NEW V, RowsOf(R, V), LocksExclusive, NEW p \in Proc, Rollback(p)
  PROVE  /\ RowsOf(R, V)' /\ LocksExclusive'
         /\ db' = db
         /\ dirty'[p] = NoWrites
         /\ \A q \in Proc \ {p} : dirty'[q] = dirty[q]
<1>1. DOMAIN NoWrites = {}
  BY DEF NoWrites
<1> QED
  BY <1>1 DEF Rollback, RowsOf, LocksExclusive
================================================================================
