------------------------------- MODULE AddressRC -------------------------------
(***************************************************************************)
(* The addresses of a user, one SQL statement per step: requests create,   *)
(* patch and delete them and move the default, over the rows of RowStore.  *)
(* One user: every statement is scoped to the user of the session.         *)
(***************************************************************************)
EXTENDS RowStore, Integers, FiniteSets

CONSTANTS
  Address,      \* ids, minted by create
  Field,        \* groups of the mutable columns
  Value,        \* what a request may put there
  Blank,        \* the value Validate refuses
  Handler,      \* HTTP handlers
  MayCrash      \* handlers that may lose their connection

ASSUME HandlerAssumption == Proc = Handler /\ MayCrash \subseteq Handler

VARIABLE at     \* [Handler -> what the request's Go frame remembers]

vars == <<db, dirty, at>>

NoAddress == [default |-> FALSE, exists |-> FALSE]
Idle == [pc |-> "idle"]

Init ==
  /\ db = [a \in Address |-> NoAddress]
  /\ dirty = [p \in Proc |-> NoWrites]
  /\ at = [p \in Handler |-> Idle]

Goto(p, frame) == at' = [at EXCEPT ![p] = frame]
Done(p) == Goto(p, Idle)

(* Ids in use: uuid.New makes another one.                                 *)
Busy   == {p \in Handler : at[p].pc # "idle"}
Minted == {a \in Address : db[a].exists} \cup UNION {{at[p].address} \cup at[p].found : p \in Busy}

-------------------------------------------------------------------------------
(* addresses_user_default_uniq: a statement that makes an address the      *)
(* default waits for transactions that write one that is or becomes the    *)
(* default, and fails when another then is.                                *)
DefaultIn(p, a) == Read(p, a).default
Settled(p) == \A a \in Address, q \in Handler \ {p} :
                a \in DOMAIN dirty[q] => ~db[a].default /\ ~dirty[q][a].default

NeverViolates(p, a) == FALSE   \* variant: no unique index

Violates(p, a) == \E b \in Address \ {a} : DefaultIn(p, b)

-------------------------------------------------------------------------------
(* The statements of addresses.sql: what each writes, in p's transaction.  *)
Found(p, a) == Read(p, a).exists

CreateAddress(a, fields, default) ==
  Only(a, [exists |-> TRUE, default |-> default, fields |-> fields])

ClearDefaultAddress(p, found) ==
  [a \in {b \in found : DefaultIn(p, b)} |-> [Read(p, a) EXCEPT !.default = FALSE]]

SetDefaultAddress(p, a) ==
  IF Found(p, a) THEN Only(a, [Read(p, a) EXCEPT !.default = TRUE]) ELSE NoWrites

(* SET leaves is_default out.                                              *)
UpdateAddressSet(p, a, fields) ==
  IF Found(p, a) THEN Only(a, [Read(p, a) EXCEPT !.fields = fields]) ELSE NoWrites

DeleteAddressRow(p, a) == IF Found(p, a) THEN Only(a, NoAddress) ELSE NoWrites

AnyFields(fields) == TRUE   \* variant: no Validate

(* A required field is not blank.                                          *)
Validate(fields) == \A f \in Field : fields[f] # Blank

-------------------------------------------------------------------------------
(* Requests.  An invalid create is refused before the first statement.     *)
ReceiveCreate(p, a, fields, default) ==
  /\ at[p].pc = "idle" /\ a \notin Minted /\ Validate(fields)
  /\ Goto(p, [pc |-> IF default THEN "scan" ELSE "insert", op |-> "create",
              address |-> a, fields |-> fields, found |-> {}])
  /\ NoStatement

Receive(p, op, a) ==
  /\ at[p].pc = "idle" /\ a \in Minted
  /\ Goto(p, [pc |-> IF op = "default" THEN "scan" ELSE op, op |-> op,
              address |-> a, fields |-> <<>>, found |-> {}])
  /\ NoStatement

(* CreateAddress without is_default: a statement of its own.               *)
InsertPlain(p) ==
  /\ at[p].pc = "insert"
  /\ CommitWith(p, CreateAddress(at[p].address, at[p].fields, FALSE))
  /\ Done(p)

(* ClearDefaultAddress: the rows its snapshot shows as the default...      *)
ScanDefault(p) ==
  /\ at[p].pc = "scan"
  /\ Goto(p, [at[p] EXCEPT !.pc = "clear", !.found = {a \in Address : DefaultIn(p, a)}])
  /\ NoStatement

ClearAndCommit(p) ==   \* variant: not in a transaction
  /\ at[p].pc = "clear"
  /\ CommitWith(p, ClearDefaultAddress(p, at[p].found))
  /\ Goto(p, [at[p] EXCEPT !.pc = "set"])

(* ... are locked, and cleared if they still are.                          *)
ClearDefault(p) ==
  /\ at[p].pc = "clear"
  /\ \A a \in at[p].found : Unlocked(p, a)
  /\ Write(p, ClearDefaultAddress(p, at[p].found))
  /\ Goto(p, [at[p] EXCEPT !.pc = "set"])

(* The last statement of the transaction: CreateAddress with is_default,   *)
(* or SetDefaultAddress.                                                   *)
MakeDefault(p) ==
  IF at[p].op = "create" THEN CreateAddress(at[p].address, at[p].fields, TRUE)
                         ELSE SetDefaultAddress(p, at[p].address)

(* The address is gone (404), or since the scan another request made       *)
(* another one the default (500).                                          *)
Fails(p) == Violates(p, at[p].address) \/ MakeDefault(p) = NoWrites

SetDefault(p) ==
  /\ at[p].pc = "set"
  /\ Unlocked(p, at[p].address) /\ Settled(p)
  /\ IF Fails(p) THEN Rollback(p) ELSE CommitWith(p, MakeDefault(p))
  /\ Done(p)

DeleteAddress(p) ==
  /\ at[p].pc = "delete"
  /\ CommitWith(p, DeleteAddressRow(p, at[p].address))
  /\ Done(p)

(* AddressService.Update: GetAddressByID, then the fields the body names   *)
(* are applied to the copy, which must still be valid...                   *)
ReadForPatch(p, patch) ==
  LET old     == Read(p, at[p].address).fields
      patched == [f \in Field |-> IF f \in DOMAIN patch THEN patch[f] ELSE old[f]] IN
  /\ at[p].pc = "patch"
  /\ NoStatement
  /\ IF Found(p, at[p].address) /\ Validate(patched)
       THEN Goto(p, [at[p] EXCEPT !.pc = "update", !.fields = patched])
       ELSE Done(p)

(* ... and all of them are written back.                                   *)
UpdateAddress(p) ==
  /\ at[p].pc = "update"
  /\ CommitWith(p, UpdateAddressSet(p, at[p].address, at[p].fields))
  /\ Done(p)

(* A lost connection.                                                      *)
Abort(p) ==
  /\ p \in MayCrash /\ at[p].pc # "idle"
  /\ Rollback(p)
  /\ Done(p)

Patch == {[f \in F |-> v] : F \in SUBSET Field \ {{}}, v \in Value}

Next ==
  \E p \in Handler :
    \/ \E a \in Address : \/ \E v \in Value, d \in BOOLEAN :
                               ReceiveCreate(p, a, [f \in Field |-> v], d)
                          \/ \E op \in {"default", "delete", "patch"} : Receive(p, op, a)
    \/ InsertPlain(p) \/ ScanDefault(p) \/ ClearDefault(p) \/ SetDefault(p)
    \/ DeleteAddress(p) \/ UpdateAddress(p) \/ Abort(p)
    \/ \E patch \in Patch : ReadForPatch(p, patch)

Spec == Init /\ [][Next]_vars
-------------------------------------------------------------------------------
(* Rows and frames have their columns, only an existing address is the     *)
(* default, and no create and no patch leaves a required field blank.      *)
TypeOK ==
  /\ \A a \in Address : db[a] # NoAddress =>
       db[a] \in [exists : {TRUE}, default : BOOLEAN, fields : [Field -> Value \ {Blank}]]
  /\ \A p \in Handler : /\ at[p].pc \in {"idle", "insert", "scan", "clear", "set",
                                       "delete", "patch", "update"}
                        /\ DOMAIN dirty[p] \subseteq Address
                        /\ at[p].pc # "set" => dirty[p] = NoWrites

(* However requests that move the default interleave, a user has at most   *)
(* one default address.                                                    *)
OneDefault == Cardinality({a \in Address : db[a].default}) <= 1

(* A user loses the default only by deleting it: a request that moves it   *)
(* and fails halfway, or loses a race, leaves the old one.                 *)
DefaultKept ==
  [][\A a \in Address : db[a].default /\ db'[a] # NoAddress
       => \E b \in Address : db'[b].default]_vars
===============================================================================
