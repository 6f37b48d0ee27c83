--------------------------- MODULE AddressRC_proofs ---------------------------
(***************************************************************************)
(* One default address, for any number of addresses and of requests at     *)
(* once, and what keeps it.                                                *)
(***************************************************************************)
EXTENDS AddressRC, RowStore_proofs, FiniteSetTheorems

Fields     == [Field -> Value \ {Blank}]
AddressRow == [exists : {TRUE}, default : BOOLEAN, fields : Fields]
Rows       == AddressRow \cup {NoAddress}
Frame      == [pc : {"insert", "scan", "clear", "set", "delete", "patch", "update"},
               op : {"create", "default", "delete", "patch"}, address : Address,
               fields : Fields \cup {<<>>}, found : SUBSET Address]

(* Frames have their fields, those that will be written are valid, and     *)
(* only a request that has cleared the default has uncommitted rows.       *)
FramesOK ==
  /\ at \in [Handler -> Frame \cup {Idle}]
  /\ \A p \in Handler :
       /\ at[p].pc # "set" => dirty[p] = NoWrites
       /\ at[p].pc = "insert" => at[p].op = "create"
       /\ at[p] # Idle /\ at[p].op = "create" => at[p].fields \in Fields
       /\ at[p].pc = "update" => at[p].fields \in Fields

(* What a request has written but not committed are addresses that exist,  *)
(* cleared.                                                                *)
OnlyCleared ==
  \A p \in Handler : \A a \in DOMAIN dirty[p] :
    db[a].exists /\ dirty[p][a].exists /\ ~dirty[p][a].default

(* The id of a create under way names no address and no other create.      *)
Creates(p, a) == at[p] # Idle /\ at[p].op = "create" /\ at[p].address = a

FreshIds ==
  \A p \in Handler, a \in Address : Creates(p, a) =>
    /\ ~db[a].exists
    /\ \A q \in Handler \ {p} : ~Creates(q, a)

AtMostOne == \A a, b \in Address : db[a].default /\ db[b].default => a = b

IInv == /\ RowsOf(Address, Rows) /\ LocksExclusive
        /\ FramesOK /\ OnlyCleared /\ FreshIds /\ AtMostOne

(* A row is an address or none.                                            *)
LEMMA RowShape ==
  ASSUME NEW r \in Rows
  PROVE  /\ r.exists \in BOOLEAN /\ r.default \in BOOLEAN
         /\ r.exists => r \in AddressRow
         /\ ~r.exists => r = NoAddress /\ ~r.default
         /\ ~NoAddress.exists /\ ~NoAddress.default /\ NoAddress \in Rows
<1>1. NoAddress.exists = FALSE /\ NoAddress.default = FALSE /\ NoAddress \in Rows
  BY DEF NoAddress, Rows
<1>2. CASE r = NoAddress
  BY <1>1, <1>2
<1>3. CASE r \in AddressRow
  <2>1. r.exists = TRUE
    BY <1>3, Zenon DEF AddressRow
  <2>2. r.default \in BOOLEAN
    BY <1>3, Zenon DEF AddressRow
  <2> QED
    BY <1>1, <1>3, <2>1, <2>2, Zenon
<1> QED
  BY <1>2, <1>3 DEF Rows

(* What the statements may write.                                          *)
LEMMA RowUpdates ==
  ASSUME NEW r \in AddressRow, NEW d \in BOOLEAN, NEW f \in Fields
  PROVE  /\ [r EXCEPT !.default = d] \in AddressRow
         /\ [r EXCEPT !.default = d].default = d
         /\ [r EXCEPT !.fields = f] \in AddressRow
         /\ [r EXCEPT !.fields = f].default = r.default
         /\ [exists |-> TRUE, default |-> d, fields |-> f] \in AddressRow
BY DEF AddressRow

(* A frame is a request's or idle.                                         *)
LEMMA FrameShape ==
  ASSUME NEW f \in Frame \cup {Idle}
  PROVE  /\ f.pc = "idle" <=> f = Idle
         /\ f # Idle => f \in Frame
         /\ Idle.pc = "idle"
BY DEF Frame, Idle

(* A step that moves p's frame to f.                                       *)
LEMMA GotoEffect ==
  ASSUME FramesOK, NEW p \in Handler, NEW f, Goto(p, f)
  PROVE  /\ DOMAIN at' = Handler /\ at'[p] = f
         /\ \A q \in Handler \ {p} : at'[q] = at[q]
         /\ f \in Frame \cup {Idle} => at' \in [Handler -> Frame \cup {Idle}]
BY DEF FramesOK, Goto

(* When a request's transaction ends, its frame is idle and its rows are   *)
(* forgotten; the others keep theirs.                                      *)
LEMMA DoneKeepsFrames ==
  ASSUME FramesOK, NEW p \in Handler, Done(p), dirty'[p] = NoWrites,
         \A q \in Handler \ {p} : dirty'[q] = dirty[q]
  PROVE  /\ FramesOK' /\ at'[p] = Idle
         /\ \A q \in Handler \ {p} : at'[q] = at[q]
<1>1. /\ at'[p] = Idle /\ \A q \in Handler \ {p} : at'[q] = at[q]
      /\ at' \in [Handler -> Frame \cup {Idle}]
  BY GotoEffect DEF Done
<1>2. Idle.pc = "idle"
  BY DEF Idle
<1>3. ASSUME NEW q \in Handler
      PROVE  /\ at'[q].pc # "set" => dirty'[q] = NoWrites
             /\ at'[q].pc = "insert" => at'[q].op = "create"
             /\ at'[q] # Idle /\ at'[q].op = "create" => at'[q].fields \in Fields
             /\ at'[q].pc = "update" => at'[q].fields \in Fields
  <2>1. CASE q = p
    BY <1>1, <1>2, <2>1
  <2>2. CASE q # p
    BY <1>1, <2>2 DEF FramesOK
  <2> QED
    BY <2>1, <2>2
<1> QED
  BY <1>1, <1>3 DEF FramesOK

(* A rollback keeps the invariant.                                         *)
LEMMA RollbackKeeps ==
  ASSUME IInv, NEW p \in Handler, Rollback(p), Done(p)
  PROVE  IInv'
<1>1. /\ RowsOf(Address, Rows)' /\ LocksExclusive' /\ db' = db /\ dirty'[p] = NoWrites
      /\ \A q \in Handler \ {p} : dirty'[q] = dirty[q]
  BY RollbackEffect, HandlerAssumption DEF IInv
<1>2. /\ FramesOK' /\ at'[p] = Idle
      /\ \A q \in Handler \ {p} : at'[q] = at[q]
  BY <1>1, DoneKeepsFrames DEF IInv
<1>3. DOMAIN NoWrites = {}
  BY DEF NoWrites
<1>4. OnlyCleared'
  BY <1>1, <1>3 DEF IInv, OnlyCleared
<1>5. FreshIds'
  BY <1>1, <1>2 DEF IInv, FreshIds, Creates
<1>6. AtMostOne'
  BY <1>1 DEF IInv, AtMostOne
<1> QED
  BY <1>1, <1>2, <1>4, <1>5, <1>6 DEF IInv

(* So does a commit that creates only its own address and leaves at most   *)
(* one default.                                                            *)
LEMMA CommitKeeps ==
  ASSUME IInv, NEW p \in Handler, NEW rows, CommitWith(p, rows), Done(p), at[p] # Idle,
         DOMAIN rows \subseteq Address,
         \A a \in DOMAIN rows : rows[a] \in Rows,
         \A a \in DOMAIN rows : rows[a].exists => db[a].exists \/ Creates(p, a),
         AtMostOne'
  PROVE  IInv'
<1>1. /\ RowsOf(Address, Rows)' /\ LocksExclusive' /\ dirty'[p] = NoWrites
      /\ \A a \in Address : db'[a] = IF a \in DOMAIN rows THEN rows[a] ELSE Read(p, a)
      /\ \A q \in Handler \ {p} : /\ dirty'[q] = dirty[q]
                                  /\ \A a \in DOMAIN dirty[q] : db'[a] = db[a]
  BY CommitEffect, HandlerAssumption DEF IInv
<1>2. /\ FramesOK' /\ at'[p] = Idle
      /\ \A q \in Handler \ {p} : at'[q] = at[q]
  BY <1>1, DoneKeepsFrames DEF IInv
<1>3. DOMAIN NoWrites = {}
  BY DEF NoWrites
<1>4. OnlyCleared'
  BY <1>1, <1>3 DEF IInv, OnlyCleared
<1>5. FreshIds'
  <2>1. SUFFICES ASSUME NEW q \in Handler, NEW a \in Address, Creates(q, a)'
                 PROVE  ~db'[a].exists /\ \A r \in Handler \ {q} : ~Creates(r, a)'
    BY DEF FreshIds
  <2>2. q # p /\ Creates(q, a)
    BY <1>2, <2>1 DEF Creates
  <2>3. ~db[a].exists /\ \A r \in Handler \ {q} : ~Creates(r, a)
    BY <2>2 DEF IInv, FreshIds
  <2>4. ~Read(p, a).exists
    BY <2>3 DEF Read, IInv, OnlyCleared
  <2>5. ~db'[a].exists
    BY <1>1, <2>2, <2>3, <2>4
  <2>6. \A r \in Handler \ {q} : ~Creates(r, a)'
    BY <1>2, <2>3 DEF Creates
  <2> QED
    BY <2>5, <2>6
<1> QED
  BY <1>1, <1>2, <1>4, <1>5 DEF IInv

-------------------------------------------------------------------------------
(* The actions, one by one.                                                *)

(* What DefaultKept says of a step.                                        *)
Kept == \A a \in Address : db[a].default /\ db'[a] # NoAddress
                             => \E b \in Address : db'[b].default

(* A step without a statement, after which p's frame is f.                 *)
LEMMA FrameStepKeeps ==
  ASSUME IInv, NEW p \in Handler, NEW f \in Frame, Goto(p, f), NoStatement,
         at[p].pc # "set", f.pc # "set",
         f.pc = "insert" => f.op = "create",
         f.op = "create" => f.fields \in Fields,
         f.pc = "update" => f.fields \in Fields,
         f.op = "create" => \/ Creates(p, f.address)
                            \/ /\ ~db[f.address].exists
                               /\ \A q \in Handler \ {p} : ~Creates(q, f.address)
  PROVE  IInv'
<1>1. /\ at'[p] = f /\ \A q \in Handler \ {p} : at'[q] = at[q]
      /\ at' \in [Handler -> Frame \cup {Idle}]
  BY GotoEffect DEF IInv
<1>2. db' = db /\ dirty' = dirty
  BY DEF NoStatement
<1>3. dirty[p] = NoWrites
  BY DEF IInv, FramesOK
<1>4. ASSUME NEW q \in Handler
      PROVE  /\ at'[q].pc # "set" => dirty'[q] = NoWrites
             /\ at'[q].pc = "insert" => at'[q].op = "create"
             /\ at'[q] # Idle /\ at'[q].op = "create" => at'[q].fields \in Fields
             /\ at'[q].pc = "update" => at'[q].fields \in Fields
  <2>1. CASE q = p
    BY <1>1, <1>2, <1>3, <2>1
  <2>2. CASE q # p
    BY <1>1, <1>2, <2>2 DEF IInv, FramesOK
  <2> QED
    BY <2>1, <2>2
<1>5. FramesOK'
  BY <1>1, <1>4 DEF FramesOK
<1>6. FreshIds'
  <2>1. \A q \in Handler, a \in Address : Creates(q, a)' =>
           \/ Creates(q, a)
           \/ q = p /\ a = f.address /\ f.op = "create" /\ ~Creates(p, a)
    BY <1>1 DEF Creates
  <2>2. \A q \in Handler \ {p}, a \in Address : Creates(q, a)' => Creates(q, a)
    BY <1>1 DEF Creates
  <2>3. \A a \in Address : Creates(p, a)' =>
           /\ ~db[a].exists
           /\ \A q \in Handler \ {p} : ~Creates(q, a)
    BY <2>1 DEF IInv, FreshIds
  <2>4. \A q \in Handler \ {p}, a \in Address : Creates(q, a)' =>
           /\ ~db[a].exists
           /\ \A r \in Handler \ {q} : ~Creates(r, a)'
    <3>1. SUFFICES ASSUME NEW q \in Handler \ {p}, NEW a \in Address, Creates(q, a)'
                   PROVE  /\ ~db[a].exists
                          /\ \A r \in Handler \ {q} : ~Creates(r, a)'
      OBVIOUS
    <3>2. Creates(q, a)
      BY <2>2, <3>1
    <3>3. ~db[a].exists /\ \A r \in Handler \ {q} : ~Creates(r, a)
      BY <3>2 DEF IInv, FreshIds
    <3>4. ~Creates(p, a)'
      BY <2>3, <3>2
    <3> QED
      BY <2>2, <3>3, <3>4
  <2> QED
    BY <1>2, <2>2, <2>3, <2>4 DEF FreshIds
<1> QED
  BY <1>2, <1>5, <1>6 DEF IInv, RowsOf, LocksExclusive, OnlyCleared, AtMostOne

(* A request arrives: a create mints an id of its own.                     *)
LEMMA ReceiveKeeps ==
  ASSUME IInv, NEW p \in Handler, NEW a \in Address,
         \/ \E v \in Value, d \in BOOLEAN : ReceiveCreate(p, a, [f \in Field |-> v], d)
         \/ \E op \in {"default", "delete", "patch"} : Receive(p, op, a)
  PROVE  IInv'
<1>1. at[p].pc = "idle" => at[p] = Idle /\ at[p].pc # "set"
  BY FrameShape DEF IInv, FramesOK
<1>2. ASSUME NEW v \in Value, NEW d \in BOOLEAN, ReceiveCreate(p, a, [f \in Field |-> v], d)
      PROVE  IInv'
  <2> DEFINE fields == [f \in Field |-> v]
             frame == [pc |-> IF d THEN "scan" ELSE "insert", op |-> "create",
                       address |-> a, fields |-> fields, found |-> {}]
  <2>1. fields \in Fields
    BY <1>2 DEF ReceiveCreate, Validate, Fields
  <2>2. /\ frame.pc \in {"scan", "insert"} /\ frame.op = "create"
        /\ frame.address = a /\ frame.fields = fields
    OBVIOUS
  <2>3. frame \in Frame
    <3> HIDE DEF fields
    <3> QED
      BY <2>1 DEF Frame
  <2>4. /\ at[p] = Idle /\ a \notin Minted /\ Goto(p, frame) /\ NoStatement /\ at[p].pc # "set"
    BY <1>1, <1>2 DEF ReceiveCreate
  <2>5. ~db[a].exists
    BY <2>4 DEF Minted
  <2>6. \A q \in Handler \ {p} : ~Creates(q, a)
    <3>1. SUFFICES ASSUME NEW q \in Handler, Creates(q, a)
                   PROVE  FALSE
      OBVIOUS
    <3>2. q \in Busy
      BY <3>1, FrameShape DEF Creates, Busy, IInv, FramesOK
    <3>3. a \in {at[q].address} \cup at[q].found
      BY <3>1 DEF Creates
    <3> QED
      BY <2>4, <3>2, <3>3 DEF Minted
  <2> HIDE DEF frame, fields
  <2> QED
    BY <2>1, <2>2, <2>3, <2>4, <2>5, <2>6, FrameStepKeeps
<1>3. ASSUME NEW op \in {"default", "delete", "patch"}, Receive(p, op, a)
      PROVE  IInv'
  <2> DEFINE frame == [pc |-> IF op = "default" THEN "scan" ELSE op, op |-> op,
                       address |-> a, fields |-> <<>>, found |-> {}]
  <2>1. /\ frame.pc \in {"scan", "delete", "patch"} /\ frame.op = op
    OBVIOUS
  <2>2. frame \in Frame
    BY DEF Frame
  <2>3. Goto(p, frame) /\ NoStatement /\ at[p].pc # "set"
    BY <1>1, <1>3 DEF Receive
  <2> HIDE DEF frame
  <2> QED
    BY <2>1, <2>2, <2>3, FrameStepKeeps
<1> QED
  BY <1>2, <1>3

(* ScanDefault remembers the rows its snapshot shows as the default.       *)
LEMMA ScanDefaultKeeps ==
  ASSUME IInv, NEW p \in Handler, ScanDefault(p)
  PROVE  IInv'
<1> DEFINE S == {a \in Address : DefaultIn(p, a)}
           frame == [at[p] EXCEPT !.pc = "clear", !.found = S]
<1>1. at[p] # Idle /\ at[p] \in Frame /\ at[p].pc = "scan"
  BY FrameShape DEF ScanDefault, IInv, FramesOK
<1>2. S \in SUBSET Address
  OBVIOUS
<1> HIDE DEF S
<1>3. /\ frame \in Frame /\ frame.pc = "clear" /\ frame.op = at[p].op
      /\ frame.address = at[p].address /\ frame.fields = at[p].fields
  <2>1. ASSUME NEW f \in Frame
        PROVE  /\ [f EXCEPT !.pc = "clear", !.found = S] \in Frame
               /\ [f EXCEPT !.pc = "clear", !.found = S].pc = "clear"
               /\ [f EXCEPT !.pc = "clear", !.found = S].op = f.op
               /\ [f EXCEPT !.pc = "clear", !.found = S].address = f.address
               /\ [f EXCEPT !.pc = "clear", !.found = S].fields = f.fields
    BY <1>2 DEF Frame
  <2> QED
    BY <1>1, <2>1, Zenon
<1>4. Goto(p, frame) /\ NoStatement
  BY DEF ScanDefault, S
<1>5. at[p].op = "create" => at[p].fields \in Fields /\ Creates(p, at[p].address)
  BY <1>1 DEF IInv, FramesOK, Creates
<1> HIDE DEF frame
<1> QED
  BY <1>1, <1>3, <1>4, <1>5, FrameStepKeeps

(* A patch goes on with fields that are still valid.                       *)
LEMMA ReadForPatchKeeps ==
  ASSUME IInv, NEW p \in Handler, NEW patch \in Patch, ReadForPatch(p, patch)
  PROVE  IInv'
<1> DEFINE old == Read(p, at[p].address).fields
           patched == [f \in Field |-> IF f \in DOMAIN patch THEN patch[f] ELSE old[f]]
           frame == [at[p] EXCEPT !.pc = "update", !.fields = patched]
<1>1. at[p] # Idle /\ at[p] \in Frame /\ at[p].pc = "patch" /\ at[p].address \in Address
  BY FrameShape DEF ReadForPatch, IInv, FramesOK, Frame
<1>2. CASE Found(p, at[p].address) /\ Validate(patched)
  <2>1. Read(p, at[p].address) \in AddressRow
    BY <1>1, <1>2, ReadType, RowShape, HandlerAssumption DEF IInv, Found
  <2>2. old \in Fields
    BY <2>1 DEF AddressRow
  <2>3. patched \in Fields
    <3> HIDE DEF old
    <3>1. \A f \in Field : patched[f] \in Value
      BY <2>2 DEF Fields, Patch
    <3> QED
      BY <1>2, <3>1 DEF Fields, Validate
  <2>4. Goto(p, frame) /\ NoStatement
    BY <1>2 DEF ReadForPatch
  <2> HIDE DEF patched
  <2>5. /\ frame \in Frame /\ frame.pc = "update" /\ frame.op = at[p].op
        /\ frame.address = at[p].address /\ frame.fields = patched
    BY <1>1, <2>3 DEF Frame
  <2>6. at[p].op = "create" => Creates(p, at[p].address)
    BY <1>1 DEF Creates
  <2> HIDE DEF frame
  <2> QED
    BY <1>1, <2>3, <2>4, <2>5, <2>6, FrameStepKeeps
<1>3. CASE ~(Found(p, at[p].address) /\ Validate(patched))
  <2>1. Done(p) /\ NoStatement
    BY <1>3 DEF ReadForPatch
  <2>2. dirty[p] = NoWrites
    BY <1>1 DEF IInv, FramesOK
  <2>3. Rollback(p)
    BY <2>1, <2>2, HandlerAssumption DEF NoStatement, Rollback, IInv, RowsOf
  <2> QED
    BY <2>1, <2>3, RollbackKeeps
<1> QED
  BY <1>2, <1>3

(* ClearDefault locks the rows it clears; no row is published.             *)
LEMMA ClearDefaultKeeps ==
  ASSUME IInv, NEW p \in Handler, ClearDefault(p)
  PROVE  IInv'
<1> DEFINE rows == ClearDefaultAddress(p, at[p].found)
           frame == [at[p] EXCEPT !.pc = "set"]
<1>1. /\ at[p] # Idle /\ at[p] \in Frame /\ at[p].pc = "clear" /\ at[p].found \subseteq Address
      /\ dirty[p] = NoWrites
  BY FrameShape DEF ClearDefault, IInv, FramesOK, Frame
<1>2. \A a \in Address : Read(p, a) = db[a] /\ db[a] \in Rows
  BY <1>1, ReadType, HandlerAssumption DEF Read, NoWrites, IInv, RowsOf
<1>3. ASSUME NEW a \in DOMAIN rows
      PROVE  /\ a \in Address /\ db[a].exists
             /\ rows[a] \in AddressRow /\ rows[a].exists /\ ~rows[a].default
  <2>1. /\ a \in at[p].found /\ a \in Address /\ db[a].default
        /\ rows[a] = [db[a] EXCEPT !.default = FALSE]
    BY <1>1, <1>2 DEF ClearDefaultAddress, DefaultIn
  <2>2. db[a] \in AddressRow /\ db[a].exists
    BY <1>2, <2>1, RowShape
  <2>3. [db[a] EXCEPT !.default = FALSE].exists = db[a].exists
    BY <2>2 DEF AddressRow
  <2>4. PICK f \in Fields : TRUE
    BY <2>2 DEF AddressRow
  <2> HIDE DEF rows
  <2>5. [db[a] EXCEPT !.default = FALSE] \in AddressRow
    BY <2>2, <2>4, RowUpdates
  <2>6. [db[a] EXCEPT !.default = FALSE].default = FALSE
    BY <2>2, <2>4, RowUpdates
  <2> QED
    BY <2>1, <2>2, <2>3, <2>5, <2>6
<1>4. DOMAIN rows \subseteq Address /\ \A a \in DOMAIN rows : rows[a] \in Rows
  BY <1>3 DEF Rows
<1>5. Write(p, rows) /\ Goto(p, frame)
  BY DEF ClearDefault
<1> HIDE DEF rows
<1>6. /\ RowsOf(Address, Rows)' /\ LocksExclusive' /\ db' = db
      /\ DOMAIN dirty'[p] = DOMAIN rows \cup DOMAIN dirty[p]
      /\ \A a \in DOMAIN dirty'[p] : dirty'[p][a] = IF a \in DOMAIN rows THEN rows[a] ELSE dirty[p][a]
      /\ \A q \in Handler \ {p} : dirty'[q] = dirty[q]
  BY <1>4, <1>5, WriteEffect, HandlerAssumption DEF IInv
<1>7. OnlyCleared'
  BY <1>1, <1>3, <1>6 DEF IInv, OnlyCleared, NoWrites
<1>8. /\ frame \in Frame /\ frame.pc = "set" /\ frame.op = at[p].op
      /\ frame.address = at[p].address /\ frame.fields = at[p].fields
  BY <1>1 DEF Frame
<1> HIDE DEF frame
<1>9. /\ at'[p] = frame /\ \A q \in Handler \ {p} : at'[q] = at[q]
      /\ at' \in [Handler -> Frame \cup {Idle}]
  BY <1>5, <1>8, GotoEffect DEF IInv
<1>10. ASSUME NEW q \in Handler
       PROVE  /\ at'[q].pc # "set" => dirty'[q] = NoWrites
              /\ at'[q].pc = "insert" => at'[q].op = "create"
              /\ at'[q] # Idle /\ at'[q].op = "create" => at'[q].fields \in Fields
              /\ at'[q].pc = "update" => at'[q].fields \in Fields
  <2>1. CASE q = p
    BY <1>1, <1>8, <1>9, <2>1 DEF IInv, FramesOK
  <2>2. CASE q # p
    BY <1>6, <1>9, <2>2 DEF IInv, FramesOK
  <2> QED
    BY <2>1, <2>2
<1>11. FramesOK'
  BY <1>9, <1>10 DEF FramesOK
<1>12. \A q \in Handler, a \in Address : Creates(q, a)' => Creates(q, a)
  BY <1>1, <1>8, <1>9 DEF Creates
<1>13. FreshIds' /\ AtMostOne'
  BY <1>6, <1>12 DEF IInv, FreshIds, AtMostOne
<1> QED
  BY <1>6, <1>7, <1>11, <1>13 DEF IInv

(* A commit of a single statement that deletes its row or leaves it the    *)
(* default or not, as it was.                                              *)
LEMMA PlainCommitKeeps ==
  ASSUME IInv, NEW p \in Handler, NEW rows, CommitWith(p, rows), Done(p), at[p] # Idle,
         at[p].pc # "set",
         DOMAIN rows \subseteq Address,
         \A a \in DOMAIN rows : /\ rows[a] \in Rows
                                /\ rows[a].exists => db[a].exists \/ Creates(p, a)
                                /\ rows[a] = NoAddress \/ rows[a].default = db[a].default
  PROVE  IInv' /\ Kept
<1>1. dirty[p] = NoWrites
  BY DEF IInv, FramesOK
<1>2. \A a \in Address : db'[a] = IF a \in DOMAIN rows THEN rows[a] ELSE db[a]
  BY <1>1, CommitEffect, HandlerAssumption DEF IInv, Read, NoWrites
<1>3. \A a \in Address : db'[a] = NoAddress \/ db'[a].default = db[a].default
  BY <1>2
<1>4. ~NoAddress.default
  BY DEF NoAddress
<1>5. AtMostOne'
  BY <1>3, <1>4 DEF IInv, AtMostOne
<1>6. Kept
  BY <1>3, <1>4 DEF Kept
<1> QED
  BY <1>5, <1>6, CommitKeeps

(* An address created without is_default: its id is fresh, so no row is    *)
(* overwritten.                                                            *)
LEMMA InsertPlainKeeps ==
  ASSUME IInv, NEW p \in Handler, InsertPlain(p)
  PROVE  IInv' /\ Kept
<1> DEFINE a == at[p].address
           rows == CreateAddress(a, at[p].fields, FALSE)
<1>1. at[p] # Idle /\ a \in Address /\ at[p].pc = "insert"
  BY FrameShape DEF InsertPlain, IInv, FramesOK, Frame
<1>2. at[p].op = "create" /\ at[p].fields \in Fields
  BY <1>1 DEF IInv, FramesOK
<1>3. Creates(p, a) /\ ~db[a].exists
  BY <1>1, <1>2 DEF Creates, IInv, FreshIds
<1>4. db[a].default = FALSE
  BY <1>1, <1>3, RowShape DEF IInv, RowsOf
<1>5. /\ DOMAIN rows = {a}
      /\ rows[a] = [exists |-> TRUE, default |-> FALSE, fields |-> at[p].fields]
  BY DEF CreateAddress, Only
<1>6. rows[a] \in AddressRow /\ rows[a].default = FALSE
  <2>1. [exists |-> TRUE, default |-> FALSE, fields |-> at[p].fields] \in AddressRow
    BY <1>2 DEF AddressRow
  <2> HIDE DEF rows
  <2> QED
    BY <1>5, <2>1
<1>7. CommitWith(p, rows) /\ Done(p)
  BY DEF InsertPlain
<1> HIDE DEF rows
<1> QED
  BY <1>1, <1>3, <1>4, <1>5, <1>6, <1>7, PlainCommitKeeps DEF Rows

(* The default is lost only by deleting it.                                *)
LEMMA DeleteAddressKeeps ==
  ASSUME IInv, NEW p \in Handler, DeleteAddress(p)
  PROVE  IInv' /\ Kept
<1> DEFINE a == at[p].address
           rows == DeleteAddressRow(p, a)
<1>1. at[p] # Idle /\ a \in Address /\ at[p].pc # "set"
  BY FrameShape DEF DeleteAddress, IInv, FramesOK, Frame
<1>2. DOMAIN rows \subseteq {a} /\ \A b \in DOMAIN rows : rows[b] = NoAddress
  BY DEF DeleteAddressRow, Only, NoWrites
<1>3. ~NoAddress.exists /\ NoAddress \in Rows
  BY DEF NoAddress, Rows
<1>4. CommitWith(p, rows) /\ Done(p)
  BY DEF DeleteAddress
<1> HIDE DEF rows
<1> QED
  BY <1>1, <1>2, <1>3, <1>4, PlainCommitKeeps

(* The write-back of a patch leaves is_default as it finds it.             *)
LEMMA UpdateAddressKeeps ==
  ASSUME IInv, NEW p \in Handler, UpdateAddress(p)
  PROVE  IInv' /\ Kept
<1> DEFINE a == at[p].address
           fields == at[p].fields
           rows == UpdateAddressSet(p, a, fields)
<1>1. at[p] # Idle /\ a \in Address /\ at[p].pc = "update"
  BY FrameShape DEF UpdateAddress, IInv, FramesOK, Frame
<1>2. fields \in Fields /\ dirty[p] = NoWrites
  BY <1>1 DEF IInv, FramesOK
<1>3. Read(p, a) = db[a] /\ db[a] \in Rows
  BY <1>1, <1>2 DEF Read, NoWrites, IInv, RowsOf
<1>4. CommitWith(p, rows) /\ Done(p)
  BY DEF UpdateAddress
<1>5. CASE db[a].exists
  <2>1. db[a] \in AddressRow /\ db[a].default \in BOOLEAN
    BY <1>3, <1>5, RowShape
  <2>2. DOMAIN rows = {a} /\ rows[a] = [db[a] EXCEPT !.fields = fields]
    BY <1>3, <1>5 DEF UpdateAddressSet, Found, Only
  <2> HIDE DEF rows, fields
  <2>3. [db[a] EXCEPT !.fields = fields] \in AddressRow
    BY <1>2, <2>1, RowUpdates
  <2>4. [db[a] EXCEPT !.fields = fields].default = db[a].default
    BY <1>2, <2>1, RowUpdates
  <2> QED
    BY <1>1, <1>4, <1>5, <2>2, <2>3, <2>4, PlainCommitKeeps DEF Rows
<1>6. CASE ~db[a].exists
  <2>1. DOMAIN rows = {}
    BY <1>3, <1>6 DEF UpdateAddressSet, Found, NoWrites
  <2> HIDE DEF rows
  <2> QED
    BY <1>1, <1>4, <2>1, PlainCommitKeeps
<1> QED
  BY <1>5, <1>6

(* The last statement of the transaction finds no other default, or rolls  *)
(* back the ones it cleared.                                               *)
LEMMA SetDefaultKeeps ==
  ASSUME IInv, NEW p \in Handler, SetDefault(p)
  PROVE  IInv' /\ Kept
<1> DEFINE a == at[p].address
           rows == MakeDefault(p)
<1>1. at[p] # Idle /\ a \in Address
  BY FrameShape DEF SetDefault, IInv, FramesOK, Frame
<1>2. CASE Fails(p)
  <2>1. Rollback(p) /\ Done(p)
    BY <1>2 DEF SetDefault
  <2>2. Kept
    BY <2>1 DEF Rollback, Kept
  <2> QED
    BY <2>1, <2>2, RollbackKeeps
<1>3. CASE ~Fails(p)
  <2>1. /\ CommitWith(p, rows) /\ Done(p)
        /\ rows # NoWrites
        /\ \A b \in Address \ {a} : ~Read(p, b).default
    BY <1>3 DEF SetDefault, Fails, Violates, DefaultIn
  <2>2. /\ DOMAIN rows = {a} /\ rows[a] \in AddressRow /\ rows[a].default
        /\ db[a].exists \/ Creates(p, a)
    <3>1. CASE at[p].op = "create"
      <4>1. /\ DOMAIN rows = {a}
            /\ rows[a] = [exists |-> TRUE, default |-> TRUE, fields |-> at[p].fields]
        BY <3>1 DEF MakeDefault, CreateAddress, Only
      <4>2. at[p].fields \in Fields /\ Creates(p, a)
        BY <1>1, <3>1 DEF IInv, FramesOK, Creates
      <4>3. [exists |-> TRUE, default |-> TRUE, fields |-> at[p].fields] \in AddressRow
        BY <4>2 DEF AddressRow
      <4> HIDE DEF rows
      <4> QED
        BY <4>1, <4>2, <4>3
    <3>2. CASE at[p].op # "create"
      <4>1. rows = SetDefaultAddress(p, a) /\ Found(p, a)
        BY <2>1, <3>2 DEF MakeDefault, SetDefaultAddress
      <4>2. DOMAIN rows = {a} /\ rows[a] = [Read(p, a) EXCEPT !.default = TRUE]
        BY <4>1 DEF SetDefaultAddress, Only
      <4>3. Read(p, a) \in AddressRow
        BY <1>1, <4>1, ReadType, RowShape, HandlerAssumption DEF IInv, Found
      <4>4. PICK f \in Fields : TRUE
        BY <4>3 DEF AddressRow
      <4>5. [Read(p, a) EXCEPT !.default = TRUE] \in AddressRow
        BY <4>3, <4>4, RowUpdates
      <4>6. [Read(p, a) EXCEPT !.default = TRUE].default = TRUE
        BY <4>3, <4>4, RowUpdates
      <4>7. db[a].exists
        BY <4>1 DEF Found, Read, IInv, OnlyCleared
      <4> HIDE DEF rows
      <4> QED
        BY <4>2, <4>5, <4>6, <4>7
    <3> QED
      BY <3>1, <3>2
  <2> HIDE DEF rows
  <2>3. \A b \in Address : db'[b] = IF b = a THEN rows[a] ELSE Read(p, b)
    BY <1>1, <2>1, <2>2, CommitEffect, HandlerAssumption DEF IInv, Rows
  <2>4. AtMostOne'
    BY <2>1, <2>3 DEF AtMostOne
  <2>5. Kept
    BY <1>1, <2>2, <2>3 DEF Kept
  <2> QED
    BY <1>1, <2>1, <2>2, <2>4, <2>5, CommitKeeps DEF Rows
<1> QED
  BY <1>2, <1>3

-------------------------------------------------------------------------------
(* At first no address exists and every request is idle.                   *)
LEMMA InitIInv == Init => IInv
<1> SUFFICES ASSUME Init PROVE IInv
  OBVIOUS
<1>1. DOMAIN NoWrites = {}
  BY DEF NoWrites
<1>2. \A a \in Address : db[a] = NoAddress /\ ~db[a].exists /\ ~db[a].default
  BY DEF Init, NoAddress
<1>3. \A p \in Handler : at[p] = Idle /\ at[p].pc = "idle" /\ dirty[p] = NoWrites
  BY HandlerAssumption DEF Init, Idle
<1>4. RowsOf(Address, Rows) /\ LocksExclusive
  BY <1>1 DEF Init, RowsOf, LocksExclusive, Rows
<1>5. FramesOK
  <2>1. at \in [Handler -> Frame \cup {Idle}]
    BY DEF Init
  <2> QED
    BY <1>3, <2>1 DEF FramesOK
<1>6. OnlyCleared /\ FreshIds /\ AtMostOne
  BY <1>1, <1>2, <1>3, HandlerAssumption DEF OnlyCleared, FreshIds, Creates, AtMostOne
<1> QED
  BY <1>4, <1>5, <1>6 DEF IInv

(* Every step keeps the invariant, and a default with it.                  *)
LEMMA StepKeeps == IInv /\ [Next]_vars => IInv' /\ Kept
<1> SUFFICES ASSUME IInv, [Next]_vars PROVE IInv' /\ Kept
  OBVIOUS
<1>1. db' = db => Kept
  BY DEF Kept
<1>2. CASE UNCHANGED vars
  <2>1. db' = db /\ dirty' = dirty /\ at' = at
    BY <1>2 DEF vars
  <2>2. RowsOf(Address, Rows)' /\ LocksExclusive'
    BY <2>1 DEF IInv, RowsOf, LocksExclusive
  <2>3. FramesOK' /\ OnlyCleared'
    BY <2>1 DEF IInv, FramesOK, OnlyCleared
  <2>4. FreshIds' /\ AtMostOne'
    BY <2>1 DEF IInv, FreshIds, Creates, AtMostOne
  <2> QED
    BY <1>1, <2>1, <2>2, <2>3, <2>4 DEF IInv
<1>3. CASE Next
  <2>1. PICK p \in Handler :
          \/ \E a \in Address : \/ \E v \in Value, d \in BOOLEAN :
                                     ReceiveCreate(p, a, [f \in Field |-> v], d)
                                \/ \E op \in {"default", "delete", "patch"} : Receive(p, op, a)
          \/ InsertPlain(p) \/ ScanDefault(p) \/ ClearDefault(p) \/ SetDefault(p)
          \/ DeleteAddress(p) \/ UpdateAddress(p) \/ Abort(p)
          \/ \E patch \in Patch : ReadForPatch(p, patch)
    BY <1>3 DEF Next
  <2>2. ASSUME NEW a \in Address,
               \/ \E v \in Value, d \in BOOLEAN : ReceiveCreate(p, a, [f \in Field |-> v], d)
               \/ \E op \in {"default", "delete", "patch"} : Receive(p, op, a)
        PROVE  IInv' /\ Kept
    <3>1. db' = db
      BY <2>2 DEF ReceiveCreate, Receive, NoStatement
    <3> QED
      BY <1>1, <2>2, <3>1, ReceiveKeeps
  <2>3. CASE InsertPlain(p)
    BY <2>3, InsertPlainKeeps
  <2>4. CASE ScanDefault(p)
    BY <1>1, <2>4, ScanDefaultKeeps DEF ScanDefault, NoStatement
  <2>5. CASE ClearDefault(p)
    BY <1>1, <2>5, ClearDefaultKeeps DEF ClearDefault, Write
  <2>6. CASE SetDefault(p)
    BY <2>6, SetDefaultKeeps
  <2>7. CASE DeleteAddress(p)
    BY <2>7, DeleteAddressKeeps
  <2>8. CASE UpdateAddress(p)
    BY <2>8, UpdateAddressKeeps
  <2>9. CASE Abort(p)
    BY <1>1, <2>9, RollbackKeeps DEF Abort, Rollback
  <2>10. ASSUME NEW patch \in Patch, ReadForPatch(p, patch)
         PROVE  IInv' /\ Kept
    BY <1>1, <2>10, ReadForPatchKeeps DEF ReadForPatch, NoStatement
  <2> QED
    BY <2>1, <2>2, <2>3, <2>4, <2>5, <2>6, <2>7, <2>8, <2>9, <2>10
<1> QED
  BY <1>2, <1>3

(* The strengthened invariant: the unique index is checked on what the     *)
(* transaction reads, and what others have not committed is only cleared.  *)
THEOREM Invariant == Spec => []IInv
BY InitIInv, StepKeeps, PTL DEF Spec

(* Rows and frames have their columns; no create and no patch leaves a     *)
(* required field blank.                                                   *)
THEOREM TypeCorrect == Spec => []TypeOK
<1>1. IInv => TypeOK
  <2> SUFFICES ASSUME IInv PROVE TypeOK
    OBVIOUS
  <2>1. ASSUME NEW a \in Address, db[a] # NoAddress
        PROVE  db[a] \in [exists : {TRUE}, default : BOOLEAN, fields : [Field -> Value \ {Blank}]]
    BY <2>1 DEF IInv, RowsOf, Rows, AddressRow, Fields
  <2>2. ASSUME NEW p \in Handler
        PROVE  /\ at[p].pc \in {"idle", "insert", "scan", "clear", "set",
                              "delete", "patch", "update"}
               /\ DOMAIN dirty[p] \subseteq Address
               /\ at[p].pc # "set" => dirty[p] = NoWrites
    <3>1. at[p] \in Frame \cup {Idle}
      BY DEF IInv, FramesOK
    <3>2. at[p].pc \in {"idle", "insert", "scan", "clear", "set", "delete", "patch", "update"}
      BY <3>1 DEF Frame, Idle
    <3> QED
      BY <3>2, HandlerAssumption DEF IInv, FramesOK, RowsOf
  <2> QED
    BY <2>1, <2>2 DEF TypeOK
<1> QED
  BY <1>1, Invariant, PTL

(* However requests that move the default interleave, a user has at most   *)
(* one default address.                                                    *)
THEOREM OneDefaultHolds == Spec => []OneDefault
<1>1. IInv => OneDefault
  <2> SUFFICES ASSUME IInv PROVE OneDefault
    OBVIOUS
  <2> DEFINE D == {a \in Address : db[a].default}
  <2>1. CASE D = {}
    BY <2>1, FS_EmptySet DEF OneDefault
  <2>2. CASE D # {}
    <3>1. PICK a \in D : TRUE
      BY <2>2
    <3>2. D = {a}
      BY <3>1 DEF IInv, AtMostOne
    <3>3. Cardinality({a}) = 1
      BY FS_Singleton
    <3> QED
      BY <3>2, <3>3 DEF OneDefault
  <2> QED
    BY <2>1, <2>2
<1> QED
  BY <1>1, Invariant, PTL

(* A user loses the default only by deleting it.                           *)
THEOREM DefaultIsKept == Spec => DefaultKept
<1>1. IInv /\ [Next]_vars => [Kept]_vars
  BY StepKeeps
<1>2. Spec => [][Kept]_vars
  BY <1>1, Invariant, PTL DEF Spec
<1> QED
  BY <1>2 DEF DefaultKept, Kept
================================================================================
