--------------------------- MODULE DepositAddresses ---------------------------
(***************************************************************************)
(* The HTTP API of a node hands out deposit addresses.  Every request runs *)
(* in a database transaction of its own (READ COMMITTED), which is         *)
(* committed before the response is sent and rolled back if the view       *)
(* raises; requests for the same user run concurrently.  The address is    *)
(* derived from the id of the user, a number from a sequence that is       *)
(* never rolled back.  Users of several bridges share the tables; every    *)
(* bridge has its own wallet.                                              *)
(*                                                                         *)
(* Users send runes to the address they are shown, and the scanner of the  *)
(* bridge looks up whose address it is.                                    *)
(***************************************************************************)
EXTENDS Integers, FiniteSets

CONSTANTS
    Bridge,         \* bridges of the node, each with its own wallet
    EvmAddress,     \* checksummed addresses of users
    Request,        \* requests that can be served at the same time
    MaxId,          \* bound on the ids the sequence yields
    MaxFaults       \* bound on exceptions and lost connections

ASSUME AddressesAssumption == MaxId \in Nat /\ MaxFaults \in Nat

User == Bridge \X EvmAddress    \* what is unique about a user

VARIABLES
    \* the database: committed rows, and the sequence of user ids
    users,          \* <<id, user>>
    addresses,      \* <<user id, address>>
    nextId,
    \* requests and their transactions
    pc,
    tx,             \* what the request has found or inserted, see NewTx
    \* the outside
    shown,          \* <<user, address>> of the responses users have got
    paid,           \* addresses users have sent runes to
    scanned,        \* of these, the ones the scanner has seen
    credited,       \* <<address, user>> as the scanner has it
    faults

dbVars == <<users, addresses>>
walletVars == <<paid, scanned, credited>>
vars == <<dbVars, nextId, pc, tx, shown, walletVars, faults>>

(* The script at index i below the derivation path of the bridge's wallet. *)
derive_address(b, i) == <<b, i>>
change_address(b) == derive_address(b, 0)

FirstId == 1

(* The user that is asked about; its id and address, when known; whether   *)
(* the transaction has inserted the user and the address itself.           *)
NewTx(asks) ==
    [user |-> asks, id |-> 0, newUser |-> FALSE, address |-> <<>>, newAddress |-> FALSE]
NoTx == NewTx(<<>>)

Init ==
    /\ users = {} /\ addresses = {}
    /\ nextId = FirstId
    /\ pc = [r \in Request |-> "idle"]
    /\ tx = [r \in Request |-> NoTx]
    /\ shown = {} /\ paid = {} /\ scanned = {} /\ credited = {}
    /\ faults = 0

Goto(r, step) == pc' = [pc EXCEPT ![r] = step]

(* Variant: the transaction is neither committed nor rolled back. *)
EndKeepsTransaction(r) == Goto(r, "idle") /\ UNCHANGED tx

(* The transaction is over; rows it has not committed are gone. *)
End(r) == Goto(r, "idle") /\ tx' = [tx EXCEPT ![r] = NoTx]

-----------------------------------------------------------------------------
(* A request *)

begin(r, u) ==
    /\ pc[r] = "idle"
    /\ Goto(r, "find_user")
    /\ tx' = [tx EXCEPT ![r] = NewTx(u)]
    /\ UNCHANGED <<dbVars, nextId, shown, walletVars, faults>>

FindUser(r) ==
    /\ pc[r] = "find_user"
    /\ \/ \E row \in users :
             /\ row[2] = tx[r].user
             /\ tx' = [tx EXCEPT ![r].id = row[1]]
             /\ Goto(r, "find_address")
       \/ /\ \A row \in users : row[2] # tx[r].user
          /\ Goto(r, "next_id")
          /\ UNCHANGED tx
    /\ UNCHANGED <<dbVars, nextId, shown, walletVars, faults>>

(* The id is taken from the sequence before the row is checked. *)
NextId(r) ==
    /\ pc[r] = "next_id"
    /\ nextId <= MaxId
    /\ nextId' = nextId + 1
    /\ tx' = [tx EXCEPT ![r].id = nextId]
    /\ Goto(r, "insert_user")
    /\ UNCHANGED <<dbVars, shown, walletVars, faults>>

(* Another transaction that is not over has inserted the same user: wait. *)
Blocked(r) == \E q \in Request \ {r} : tx[q].newUser /\ tx[q].user = tx[r].user

Inserted(r) == \E row \in users : row[2] = tx[r].user

(* Variant: nothing keeps a user from being inserted twice. *)
InsertUserTwice(r) ==
    /\ pc[r] = "insert_user"
    /\ tx' = [tx EXCEPT ![r].newUser = TRUE]
    /\ Goto(r, "find_address")
    /\ UNCHANGED <<dbVars, nextId, shown, walletVars, faults>>

InsertUser(r) ==
    /\ pc[r] = "insert_user"
    /\ ~Blocked(r) /\ ~Inserted(r)
    /\ tx' = [tx EXCEPT ![r].newUser = TRUE]
    /\ Goto(r, "find_address")
    /\ UNCHANGED <<dbVars, nextId, shown, walletVars, faults>>

(* The unique constraint on users raises; the response is an error. *)
IntegrityError(r) ==
    /\ pc[r] = "insert_user"
    /\ ~Blocked(r) /\ Inserted(r)
    /\ End(r)
    /\ UNCHANGED <<dbVars, nextId, shown, walletVars, faults>>

FindAddress(r) ==
    /\ pc[r] = "find_address"
    /\ \/ \E row \in addresses :
             /\ row[1] = tx[r].id
             /\ tx' = [tx EXCEPT ![r].address = row[2]]
             /\ Goto(r, "commit")
       \/ /\ \A row \in addresses : row[1] # tx[r].id
          /\ Goto(r, "insert_address")
          /\ UNCHANGED tx
    /\ UNCHANGED <<dbVars, nextId, shown, walletVars, faults>>

InsertAddress(r) ==
    /\ pc[r] = "insert_address"
    /\ tx' = [tx EXCEPT ![r].address = derive_address(tx[r].user[1], tx[r].id),
                        ![r].newAddress = TRUE]
    /\ Goto(r, "commit")
    /\ UNCHANGED <<dbVars, nextId, shown, walletVars, faults>>

(* Variant: the user is told before the transaction is committed. *)
commitAfterResponse(r) ==
    /\ pc[r] = "commit"
    /\ shown' = shown \cup {<<tx[r].user, tx[r].address>>}
    /\ Goto(r, "respond")
    /\ UNCHANGED <<dbVars, nextId, tx, walletVars, faults>>

commit(r) ==
    /\ pc[r] = "commit"
    /\ users' = users \cup (IF tx[r].newUser THEN {<<tx[r].id, tx[r].user>>} ELSE {})
    /\ addresses' = addresses \cup
                    (IF tx[r].newAddress THEN {<<tx[r].id, tx[r].address>>} ELSE {})
    /\ tx' = [tx EXCEPT ![r].newUser = FALSE, ![r].newAddress = FALSE]
    /\ Goto(r, "respond")
    /\ UNCHANGED <<nextId, shown, walletVars, faults>>

Respond(r) ==
    /\ pc[r] = "respond"
    /\ shown' = shown \cup {<<tx[r].user, tx[r].address>>}
    /\ End(r)
    /\ UNCHANGED <<dbVars, nextId, walletVars, faults>>

(* Any other exception, a stop of the node, or a client that has gone. *)
Fails(r) ==
    /\ pc[r] # "idle"
    /\ faults < MaxFaults
    /\ faults' = faults + 1
    /\ End(r)
    /\ UNCHANGED <<dbVars, nextId, shown, walletVars>>

-----------------------------------------------------------------------------
(* Users and the scanner *)

Deposit(a) ==
    /\ a \notin paid
    /\ paid' = paid \cup {a}
    /\ UNCHANGED <<dbVars, nextId, pc, tx, shown, scanned, credited, faults>>

(* What the wallet of the bridge has received, without the change address, *)
(* is looked up in the table of addresses of all bridges.                  *)
scan_rune_deposits(b) ==
    LET receives == {a \in paid \ scanned : a[1] = b}
    IN  /\ receives # {}
        /\ scanned' = scanned \cup receives
        /\ credited' = credited \cup
               {c \in (receives \ {change_address(b)}) \X User :
                    \E row \in addresses : row[2] = c[1] /\ <<row[1], c[2]>> \in users}
        /\ UNCHANGED <<dbVars, nextId, pc, tx, shown, paid, faults>>

-----------------------------------------------------------------------------
Serve(r) ==
    \/ FindUser(r) \/ NextId(r) \/ InsertUser(r) \/ IntegrityError(r)
    \/ FindAddress(r) \/ InsertAddress(r) \/ commit(r) \/ Respond(r)

Next ==
    \/ \E r \in Request : Serve(r) \/ Fails(r) \/ (\E u \in User : begin(r, u))
    \/ \E s \in shown : Deposit(s[2])
    \/ \E b \in Bridge : scan_rune_deposits(b)

Spec == Init /\ [][Next]_vars

(* The server works on every request it has taken. *)
FairSpec == Spec /\ \A r \in Request : WF_vars(Serve(r))

-----------------------------------------------------------------------------
(* Properties *)

Steps == {"idle", "find_user", "next_id", "insert_user", "find_address",
          "insert_address", "commit", "respond"}

(* Every variable holds a value of its kind. *)
TypeOK ==
    /\ users \subseteq (1 .. MaxId) \X User
    /\ addresses \subseteq (1 .. MaxId) \X (Bridge \X (1 .. MaxId))
    /\ nextId \in 1 .. MaxId + 1
    /\ pc \in [Request -> Steps]
    /\ \A r \in Request : /\ tx[r].id \in 0 .. MaxId
                          /\ pc[r] # "idle" => tx[r].user \in User
    /\ shown \subseteq User \X (Bridge \X (1 .. MaxId))
    /\ scanned \subseteq paid
    /\ faults \in 0 .. MaxFaults

(* A user is only ever shown one address, and nobody else is shown it, no  *)
(* matter how many requests for it run at once and which of them fail.     *)
OneAddressEach == \A s, t \in shown : s[1] = t[1] <=> s[2] = t[2]

(* Variables are typed, and users have one address each. *)
AddressInvariant == TypeOK /\ OneAddressEach

(* Every deposit the scanner sees at an address is credited to the user    *)
(* who was shown it, and to nobody else: an address is stored before it is *)
(* shown and is never the change address.                                  *)
CreditedToDepositor ==
    \A a \in scanned :
        {u \in User : <<a, u>> \in credited} = {u \in User : <<u, a>> \in shown}

(* Requests that wait for one another all end. *)
RequestsEnd == \A r \in Request : pc[r] = "find_user" ~> pc[r] = "idle"
=============================================================================
