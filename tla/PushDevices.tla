---------------------------- MODULE PushDevices ----------------------------
(***************************************************************************)
(* Push-notification devices (push_service): a phone registers its token   *)
(* when a member of staff logs in, logout and Expo's "DeviceNotRegistered" *)
(* receipts switch it off.  One row per token, kept for ever.              *)
(*                                                                         *)
(* SQLAlchemy writes the columns a request has changed relative to what it *)
(* read, so a row read before another commit is written only in part.      *)
(***************************************************************************)
EXTENDS Naturals, FiniteSets

CONSTANTS
    Phones,         \* Expo push tokens
    Staff,          \* users who log in on them
    Calls,          \* register requests served at the same time
    NoStaff         \* no user, no phone

ASSUME DevicesAssumption == NoStaff \notin Staff

VARIABLES
    device,         \* [Phones -> [user, active]]; no user before the insert
    call,           \* [Calls -> [at, user, phone, seen]]
    sending         \* tokens in a push whose receipts have not been handled

pdVars == <<device, call, sending>>

NoDevice == [user |-> NoStaff, active |-> FALSE]

PdInit ==
    /\ device = [d \in Phones |-> NoDevice]
    /\ call = [c \in Calls |-> [at |-> "idle", user |-> NoStaff,
                                phone |-> NoStaff, seen |-> NoDevice]]
    /\ sending = {}

Known(d) == device[d].user # NoStaff

-----------------------------------------------------------------------------
\* register_device looks the token up.
LookUp(c, u, d) ==
    /\ call[c].at = "idle"
    /\ call' = [call EXCEPT ![c] = [at |-> IF Known(d) THEN "save" ELSE "insert",
                                    user |-> u, phone |-> d, seen |-> device[d]]]
    /\ UNCHANGED <<device, sending>>

EndCall(c) == call' = [call EXCEPT ![c] = [@ EXCEPT !.at = "idle", !.user = NoStaff, !.seen = NoDevice,
                                                    !.phone = NoStaff]]

\* A known token: the changed columns are written.
SaveDevice(c) ==
    /\ call[c].at = "save"
    /\ device' = [device EXCEPT ![call[c].phone] =
                    [user |-> IF call[c].seen.user # call[c].user THEN call[c].user ELSE @.user,
                     active |-> @.active \/ ~call[c].seen.active]]
    /\ EndCall(c)
    /\ UNCHANGED sending

\* A new token is inserted; the unique index may find it there meanwhile.
InsertDevice(c) ==
    /\ call[c].at = "insert"
    /\ IF Known(call[c].phone)
       THEN /\ call' = [call EXCEPT ![c].at = "reread"]
            /\ UNCHANGED device
       ELSE /\ device' = [device EXCEPT ![call[c].phone] = [user |-> call[c].user, active |-> TRUE]]
            /\ EndCall(c)
    /\ UNCHANGED sending

\* IntegrityError: roll back, read the winner's row with scalar_one.
Reread(c) ==
    /\ call[c].at = "reread"
    /\ Known(call[c].phone)
    /\ call' = [call EXCEPT ![c].at = "save", ![c].seen = device[call[c].phone]]
    /\ UNCHANGED <<device, sending>>

\* deactivate_device at logout, whoever the device belongs to by now.
LogOutDevice(d) ==
    /\ device[d].active
    /\ device' = [device EXCEPT ![d].active = FALSE]
    /\ UNCHANGED <<call, sending>>

\* notify selects the active tokens, _send_expo posts them.
Notify ==
    /\ \E d \in Phones : device[d].active /\ d \notin sending
    /\ sending' = sending \cup {d \in Phones : device[d].active}
    /\ UNCHANGED <<device, call>>

\* Mutant: an unregistered token's row is deleted.
RetireByDelete(dead) ==
    /\ dead # {} /\ dead \subseteq sending
    /\ device' = [d \in Phones |-> IF d \in dead THEN NoDevice ELSE device[d]]
    /\ sending' = {}
    /\ UNCHANGED call

\* Receipts arrive, late perhaps: _deactivate_tokens switches the dead ones off.
Retire(dead) ==
    /\ dead # {} /\ dead \subseteq sending
    /\ device' = [d \in Phones |-> IF d \in dead THEN [device[d] EXCEPT !.active = FALSE]
                                   ELSE device[d]]
    /\ sending' = {}
    /\ UNCHANGED call

\* No receipt: the post failed or every device is alive.
SendEnds ==
    /\ sending # {}
    /\ sending' = {}
    /\ UNCHANGED <<device, call>>

PdNext ==
    \/ \E c \in Calls :
         \/ SaveDevice(c) \/ InsertDevice(c) \/ Reread(c)
         \/ \E u \in Staff, d \in Phones : LookUp(c, u, d)
    \/ \E d \in Phones : LogOutDevice(d)
    \/ Notify
    \/ \E dead \in SUBSET Phones : Retire(dead)
    \/ SendEnds

PdSpec == PdInit /\ [][PdNext]_pdVars

-----------------------------------------------------------------------------
(***************************************************************************)
(* Rows and requests are what the code stores; only a device that some     *)
(* user registered is pushed to; and the registration that lost the        *)
(* race for a new token finds the winner's row when it reads again, so     *)
(* scalar_one never fails: nothing ever deletes a row.                     *)
(***************************************************************************)
RetryFindsDevice ==
    /\ device \in [Phones -> [user: Staff \cup {NoStaff}, active: BOOLEAN]]
    /\ call \in [Calls -> [at: {"idle", "save", "insert", "reread"}, user: Staff \cup {NoStaff},
                           phone: Phones \cup {NoStaff}, seen: [user: Staff \cup {NoStaff}, active: BOOLEAN]]]
    /\ \A d \in Phones : device[d].active \/ d \in sending => Known(d)
    /\ \A c \in Calls : call[c].at \in {"save", "reread"} => Known(call[c].phone)

=============================================================================
