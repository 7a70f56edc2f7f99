-------------------------- MODULE BackofficeProofs --------------------------
(***************************************************************************)
(* Proofs about what the administrators work on: the push devices, the     *)
(* import of a menu, the pictures of the settings and the staff accounts.  *)
(* The parts share no row; each has an inductive invariant of its own.     *)
(***************************************************************************)
EXTENDS Accounts, PushDevices, ProductImport, MenuSettings, FiniteSetTheorems, TLAPS

(* Push devices *)

\* A request that is under way knows its user and its phone.
CallsKnow ==
    \A c \in Calls : call[c].at # "idle" => call[c].user \in Staff /\ call[c].phone \in Phones

DeviceInv == RetryFindsDevice /\ CallsKnow /\ sending \subseteq Phones

DeviceRow == [user : Staff \cup {NoStaff}, active : BOOLEAN]

CallRow == [at : {"idle", "save", "insert", "reread"}, user : Staff \cup {NoStaff},
            phone : Phones \cup {NoStaff}, seen : DeviceRow]

LEMMA DeviceFacts ==
  ASSUME DeviceInv
  PROVE  /\ device \in [Phones -> DeviceRow] /\ call \in [Calls -> CallRow]
         /\ \A d \in Phones : device[d].active \/ d \in sending => Known(d)
         /\ \A c \in Calls : call[c].at \in {"save", "reread"} => Known(call[c].phone)
         /\ CallsKnow /\ sending \subseteq Phones
  BY DEF DeviceInv, RetryFindsDevice, DeviceRow, CallRow

LEMMA InitDevices == PdInit => DeviceInv
  BY DEF PdInit, DeviceInv, RetryFindsDevice, CallsKnow, NoDevice, Known

\* What is enough of a step: rows stay, and a request that goes on knows its row.
LEMMA DevicesKept ==
  ASSUME DeviceInv, NEW c \in Calls, NEW row \in CallRow,
         call' = [call EXCEPT ![c] = row],
         device' \in [Phones -> DeviceRow], sending' \subseteq Phones,
         \A d \in Phones : Known(d) => Known(d)',
         \A d \in Phones : device'[d].active \/ d \in sending' => Known(d)',
         row.at # "idle" => row.user \in Staff /\ row.phone \in Phones,
         row.at \in {"save", "reread"} => device'[row.phone].user # NoStaff
  PROVE  DeviceInv'
  <1>1. call' \in [Calls -> CallRow] /\ call'[c] = row /\ \A e \in Calls \ {c} : call'[e] = call[e]
    BY DeviceFacts
  <1>2. CallsKnow'
    BY <1>1, DeviceFacts DEF CallsKnow
  <1>3. \A e \in Calls : call'[e].at \in {"save", "reread"} => device'[call'[e].phone].user # NoStaff
    BY <1>1, DeviceFacts DEF CallsKnow, Known
  <1> QED
    BY <1>1, <1>2, <1>3 DEF DeviceInv, RetryFindsDevice, DeviceRow, CallRow, Known

LEMMA CallSteps ==
  ASSUME DeviceInv, NEW c \in Calls,
         \/ SaveDevice(c) \/ InsertDevice(c) \/ Reread(c)
         \/ \E u \in Staff, d \in Phones : LookUp(c, u, d)
  PROVE  DeviceInv'
  <1>1. /\ device \in [Phones -> DeviceRow] /\ call[c] \in CallRow /\ sending' \subseteq Phones
        /\ UNCHANGED sending
    BY DeviceFacts DEF SaveDevice, InsertDevice, Reread, LookUp
  <1>2. NoDevice \in DeviceRow
    BY DEF NoDevice, DeviceRow
  <1> DEFINE over == [call[c] EXCEPT !.at = "idle", !.user = NoStaff, !.seen = NoDevice, !.phone = NoStaff]
  <1>3. over \in CallRow /\ over.at = "idle"
    BY <1>1, <1>2 DEF CallRow
  <1>4. CASE \E u \in Staff, d \in Phones : LookUp(c, u, d)
    <2>1. PICK u \in Staff, d \in Phones : LookUp(c, u, d)
      BY <1>4
    <2> DEFINE row == [at |-> IF Known(d) THEN "save" ELSE "insert", user |-> u, phone |-> d, seen |-> device[d]]
    <2>2. row \in CallRow /\ call' = [call EXCEPT ![c] = row] /\ UNCHANGED device
      <3>1. device[d] \in DeviceRow /\ row.at \in {"save", "insert"}
        BY <1>1
      <3>2. call' = [call EXCEPT ![c] = row] /\ UNCHANGED device
        BY <2>1 DEF LookUp
      <3> QED
        BY <3>1, <3>2 DEF CallRow
    <2>3. /\ row.user \in Staff /\ row.phone \in Phones
          /\ row.at \in {"save", "reread"} => device'[row.phone].user # NoStaff
      BY <2>2 DEF Known
    <2> HIDE DEF row
    <2> QED
      BY <1>1, <2>2, <2>3, DeviceFacts, DevicesKept DEF Known
  <1>5. CASE SaveDevice(c)
    <2> DEFINE d == call[c].phone
    <2>1. /\ call[c].at = "save" /\ d \in Phones /\ Known(d) /\ call[c].user \in Staff
      BY <1>5, DeviceFacts DEF SaveDevice, CallsKnow
    <2>2. PICK b \in BOOLEAN :
             device' = [device EXCEPT ![d] =
                          [user |-> IF call[c].seen.user # call[c].user THEN call[c].user ELSE @.user, active |-> b]]
      <3> DEFINE b == device[d].active \/ ~call[c].seen.active
      <3>1. b \in BOOLEAN
        OBVIOUS
      <3>2. device' = [device EXCEPT ![d] =
                          [user |-> IF call[c].seen.user # call[c].user THEN call[c].user ELSE @.user, active |-> b]]
        BY <1>1, <1>5, <2>1 DEF SaveDevice
      <3> HIDE DEF b
      <3> QED
        BY <3>1, <3>2
    <2>3. /\ device' \in [Phones -> DeviceRow] /\ device'[d].user \in Staff
          /\ \A e \in Phones \ {d} : device'[e] = device[e]
      BY <1>1, <2>1, <2>2 DEF DeviceRow, Known
    <2>4. \A e \in Phones : Known(e) => Known(e)'
      BY <2>3, DevicesAssumption DEF Known
    <2>5. \A e \in Phones : device'[e].active \/ e \in sending' => Known(e)'
      BY <1>1, <2>3, DeviceFacts, DevicesAssumption DEF Known
    <2>6. call' = [call EXCEPT ![c] = over]
      BY <1>5, DeviceFacts DEF SaveDevice, EndCall
    <2> HIDE DEF d, over
    <2> QED
      BY <1>1, <1>3, <2>3, <2>4, <2>5, <2>6, DevicesKept
  <1>6. CASE InsertDevice(c)
    <2> DEFINE d == call[c].phone
    <2>1. /\ call[c].at = "insert" /\ d \in Phones /\ call[c].user \in Staff
      BY <1>6, DeviceFacts DEF InsertDevice, CallsKnow
    <2>2. CASE Known(d)
      <3> DEFINE row == [call[c] EXCEPT !.at = "reread"]
      <3>1. call' = [call EXCEPT ![c] = row] /\ UNCHANGED device
        BY <1>6, <2>2, DeviceFacts DEF InsertDevice
      <3>2. row \in CallRow /\ row.user = call[c].user /\ row.phone = d
        BY <1>1 DEF CallRow
      <3> HIDE DEF row
      <3> QED
        BY <1>1, <2>1, <2>2, <3>1, <3>2, DeviceFacts, DevicesKept DEF Known
    <2>3. CASE ~Known(d)
      <3>1. /\ device' = [device EXCEPT ![d] = [user |-> call[c].user, active |-> TRUE]]
            /\ call' = [call EXCEPT ![c] = over]
        BY <1>6, <2>3, DeviceFacts DEF InsertDevice, EndCall
      <3>2. /\ device' \in [Phones -> DeviceRow] /\ device'[d].user \in Staff
            /\ \A e \in Phones \ {d} : device'[e] = device[e]
        BY <1>1, <2>1, <3>1 DEF DeviceRow
      <3>3. \A e \in Phones : Known(e) => Known(e)'
        BY <3>2, DevicesAssumption DEF Known
      <3>4. \A e \in Phones : device'[e].active \/ e \in sending' => Known(e)'
        BY <1>1, <3>2, DeviceFacts, DevicesAssumption DEF Known
      <3> HIDE DEF d, over
      <3> QED
        BY <1>1, <1>3, <3>1, <3>2, <3>3, <3>4, DevicesKept
    <2> QED
      BY <2>2, <2>3
  <1>7. CASE Reread(c)
    <2> DEFINE d == call[c].phone
               row == [call[c] EXCEPT !.at = "save", !.seen = device[d]]
    <2>1. /\ call[c].at = "reread" /\ Known(d) /\ UNCHANGED device
          /\ d \in Phones /\ call[c].user \in Staff
      BY <1>7, DeviceFacts DEF Reread, CallsKnow
    <2>2. call' = [call EXCEPT ![c] = row]
      BY <1>7, DeviceFacts DEF Reread
    <2>3. row \in CallRow /\ row.user = call[c].user /\ row.phone = d
      BY <1>1, <2>1 DEF CallRow
    <2> HIDE DEF row
    <2> QED
      BY <1>1, <2>1, <2>2, <2>3, DeviceFacts, DevicesKept DEF Known
  <1> QED
    BY <1>4, <1>5, <1>6, <1>7

\* Logging out, pushing and the receipts switch devices off, and forget none.
LEMMA QuietDeviceSteps ==
  ASSUME DeviceInv,
         \/ \E d \in Phones : LogOutDevice(d)
         \/ Notify
         \/ \E dead \in SUBSET Phones : Retire(dead)
         \/ SendEnds
  PROVE  DeviceInv'
  <1>1. UNCHANGED call /\ device \in [Phones -> DeviceRow]
    BY DeviceFacts DEF LogOutDevice, Notify, Retire, SendEnds
  <1>2. /\ device' \in [Phones -> DeviceRow]
        /\ \A d \in Phones : device'[d].user = device[d].user /\ (device'[d].active => device[d].active)
    <2>1. CASE \E d \in Phones : LogOutDevice(d)
      <3>1. PICK d \in Phones : device' = [device EXCEPT ![d].active = FALSE]
        BY <2>1 DEF LogOutDevice
      <3>2. device[d] \in DeviceRow /\ device'[d] = [device[d] EXCEPT !.active = FALSE]
        BY <1>1, <3>1
      <3>3. device'[d] \in DeviceRow /\ device'[d].user = device[d].user /\ ~device'[d].active
        BY <3>2 DEF DeviceRow
      <3> QED
        BY <1>1, <3>1, <3>3
    <2>2. CASE \E dead \in SUBSET Phones : Retire(dead)
      <3>1. PICK dead \in SUBSET Phones :
                device' = [d \in Phones |-> IF d \in dead THEN [device[d] EXCEPT !.active = FALSE]
                                            ELSE device[d]]
        BY <2>2 DEF Retire
      <3>2. \A d \in Phones :
               /\ device[d] \in DeviceRow
               /\ device'[d] = IF d \in dead THEN [device[d] EXCEPT !.active = FALSE] ELSE device[d]
        BY <1>1, <3>1
      <3>3. \A d \in Phones :
               /\ device'[d] \in DeviceRow
               /\ device'[d].user = device[d].user /\ (device'[d].active => device[d].active)
        BY <3>2 DEF DeviceRow
      <3> QED
        BY <3>1, <3>3
    <2>3. CASE Notify \/ SendEnds
      BY <1>1, <2>3 DEF Notify, SendEnds
    <2> QED
      BY <2>1, <2>2, <2>3
  <1>3. sending' \subseteq Phones /\ \A d \in sending' : Known(d)
    BY DeviceFacts DEF LogOutDevice, Notify, Retire, SendEnds
  <1>4. RetryFindsDevice'
    BY <1>1, <1>2, <1>3, DeviceFacts DEF RetryFindsDevice, CallsKnow, DeviceRow, CallRow, Known
  <1> QED
    BY <1>1, <1>3, <1>4, DeviceFacts DEF DeviceInv, CallsKnow

LEMMA StepDevices == DeviceInv /\ [PdNext]_pdVars => DeviceInv'
  <1> SUFFICES ASSUME DeviceInv, [PdNext]_pdVars PROVE DeviceInv'
    OBVIOUS
  <1>1. CASE PdNext
    BY <1>1, CallSteps, QuietDeviceSteps DEF PdNext
  <1>2. CASE UNCHANGED pdVars
    BY <1>2 DEF pdVars, DeviceInv, RetryFindsDevice, CallsKnow, Known
  <1> QED
    BY <1>1, <1>2

(***************************************************************************)
(* For any number of phones, users and requests: only a registered device  *)
(* is pushed to, and the registration that lost the race for a new token   *)
(* finds the winner's row.                                                 *)
(***************************************************************************)
THEOREM LostRaceFindsTheRow == PdSpec => []RetryFindsDevice
  <1>1. DeviceInv => RetryFindsDevice
    BY DEF DeviceInv
  <1> QED
    BY <1>1, InitDevices, StepDevices, PTL DEF PdSpec

-----------------------------------------------------------------------------
(* The import of a menu *)

CatRow == [name : CatNames, by : Imports \cup {Editor}]

ProdRow == [cat : CatRow, name : ProdNames, by : Imports]

ImportRow == [at : {"idle", "read", "write", "done"}, plan : SUBSET (CatNames \X ProdNames),
              target : SUBSET CatRow, built : SUBSET ProdRow]

ImportTypes == imp \in [Imports -> ImportRow] /\ cats \subseteq CatRow /\ prods \subseteq ProdRow

\* What bears an import's name has come with its commit.
OnlyCommitted ==
    /\ \A c \in cats : c.by \in Imports => imp[c.by].at = "done"
    /\ \A p \in prods : imp[p.by].at = "done"

\* A category an import writes to is its own or was there when it looked.
TargetsKnown ==
    \A i \in Imports : imp[i].at \in {"read", "write"} =>
        \A c \in imp[i].target : c.by = i \/ (imp[i].at = "write" /\ c \in cats)

\* What is built so far is of the plan.
BuiltOfPlan ==
    \A i \in Imports : \A p \in imp[i].built :
        p.by = i /\ p.cat \in imp[i].target /\ <<p.cat.name, p.name>> \in imp[i].plan

\* A committed import has left all of it.
DoneIsWhole ==
    \A i \in Imports : imp[i].at = "done" =>
        /\ {p \in prods : p.by = i} = imp[i].built
        /\ Left(i) = {}
        /\ imp[i].target \subseteq cats

ImportInv == ImportTypes /\ OnlyCommitted /\ TargetsKnown /\ BuiltOfPlan /\ DoneIsWhole

LEMMA InitImport == ImInit => ImportInv
  <1> SUFFICES ASSUME ImInit PROVE ImportInv
    OBVIOUS
  <1>1. NoImport \in ImportRow /\ NoImport.at = "idle" /\ NoImport.built = {}
    BY DEF NoImport, ImportRow
  <1>2. ImportTypes /\ \A i \in Imports : imp[i] = NoImport
    BY <1>1 DEF ImInit, ImportTypes
  <1>3. TargetsKnown /\ BuiltOfPlan /\ DoneIsWhole
    BY <1>1, <1>2 DEF TargetsKnown, BuiltOfPlan, DoneIsWhole
  <1>4. OnlyCommitted
    BY DEF ImInit, OnlyCommitted
  <1> QED
    BY <1>2, <1>3, <1>4 DEF ImportInv

\* A step of one import that commits nothing and is not committed.
LEMMA ImportGoesOn ==
  ASSUME ImportInv, NEW i \in Imports, imp[i].at # "done",
         NEW row \in ImportRow, row.at # "done", imp' = [imp EXCEPT ![i] = row],
         UNCHANGED <<cats, gone, prods>>,
         row.at \in {"read", "write"} =>
            \A c \in row.target : c.by = i \/ (row.at = "write" /\ c \in cats),
         \A p \in row.built : p.by = i /\ p.cat \in row.target /\ <<p.cat.name, p.name>> \in row.plan
  PROVE  ImportInv'
  <1>1. /\ imp \in [Imports -> ImportRow] /\ imp' \in [Imports -> ImportRow] /\ imp'[i] = row
        /\ \A j \in Imports \ {i} : imp'[j] = imp[j]
    BY DEF ImportInv, ImportTypes
  <1>2. ImportTypes'
    BY <1>1 DEF ImportInv, ImportTypes
  <1>3. OnlyCommitted'
    BY <1>1 DEF ImportInv, ImportTypes, OnlyCommitted, ProdRow
  <1>4. TargetsKnown'
    BY <1>1 DEF ImportInv, TargetsKnown
  <1>5. BuiltOfPlan'
    BY <1>1 DEF ImportInv, BuiltOfPlan
  <1>6. DoneIsWhole'
    BY <1>1 DEF ImportInv, DoneIsWhole, Left
  <1> QED
    BY <1>2, <1>3, <1>4, <1>5, <1>6 DEF ImportInv

LEMMA PlanKept ==
  ASSUME ImportInv, NEW i \in Imports, NEW file_ \in SUBSET FileRow, Plan(i, file_)
  PROVE  ImportInv'
  <1> DEFINE pairs == {<<r.cat, r.name>> : r \in file_}
             news == {[name |-> n, by |-> i] : n \in {r.cat : r \in file_} \ NamesOf(ActiveCategories)}
             row == [at |-> "read", plan |-> pairs \ ExistingProductKeys, built |-> {}, target |-> news]
  <1>1. imp' = [imp EXCEPT ![i] = row] /\ imp[i].at = "idle" /\ UNCHANGED <<cats, gone, prods>>
    BY DEF Plan
  <1>2. \A r \in file_ : r.cat \in CatNames /\ r.name \in ProdNames
    BY DEF FileRow
  <1>3. pairs \in SUBSET (CatNames \X ProdNames) /\ news \in SUBSET CatRow
    BY <1>2 DEF CatRow
  <1>4. row \in ImportRow
    BY <1>3 DEF ImportRow
  <1>5. row.at = "read" /\ row.built = {} /\ \A c \in row.target : c.by = i
    OBVIOUS
  <1> HIDE DEF row
  <1> QED
    BY <1>1, <1>4, <1>5, ImportGoesOn

LEMMA ReadCategoriesKept ==
  ASSUME ImportInv, NEW i \in Imports, ReadCategories(i)
  PROVE  ImportInv'
  <1>1. PICK found \in SUBSET ActiveCategories :
            /\ imp' = [imp EXCEPT ![i].at = "write", ![i].target = @ \cup found]
            /\ imp[i].at = "read" /\ UNCHANGED <<cats, gone, prods>>
    BY DEF ReadCategories
  <1> DEFINE row == [imp[i] EXCEPT !.at = "write", !.target = @ \cup found]
  <1>2. imp \in [Imports -> ImportRow] /\ imp[i] \in ImportRow /\ found \subseteq cats /\ cats \subseteq CatRow
    BY DEF ImportInv, ImportTypes, ActiveCategories
  <1>3. /\ row \in ImportRow /\ row.at = "write" /\ row.target = imp[i].target \cup found
        /\ row.built = imp[i].built /\ row.plan = imp[i].plan
    BY <1>2 DEF ImportRow
  <1>4. imp' = [imp EXCEPT ![i] = row]
    BY <1>1, <1>2
  <1> HIDE DEF row
  <1>5. \A c \in row.target : c.by = i \/ c \in cats
    BY <1>1, <1>2, <1>3 DEF ImportInv, TargetsKnown
  <1>6. \A p \in row.built : p.by = i /\ p.cat \in row.target /\ <<p.cat.name, p.name>> \in row.plan
    BY <1>3 DEF ImportInv, BuiltOfPlan
  <1> QED
    BY <1>1, <1>3, <1>4, <1>5, <1>6, ImportGoesOn

LEMMA BuildKept ==
  ASSUME ImportInv, NEW i \in Imports, BuildProduct(i)
  PROVE  ImportInv'
  <1>1. PICK pair \in Left(i), c \in imp[i].target :
            /\ c.name = pair[1] /\ imp[i].at = "write" /\ UNCHANGED <<cats, gone, prods>>
            /\ imp' = [imp EXCEPT ![i].built = @ \cup {[cat |-> c, name |-> pair[2], by |-> i]}]
    BY DEF BuildProduct
  <1> DEFINE new == [cat |-> c, name |-> pair[2], by |-> i]
             row == [imp[i] EXCEPT !.built = @ \cup {new}]
  <1>2. imp \in [Imports -> ImportRow] /\ imp[i] \in ImportRow
    BY DEF ImportInv, ImportTypes
  <1>3. pair \in imp[i].plan /\ pair \in CatNames \X ProdNames /\ c \in CatRow
    BY <1>2 DEF Left, ImportRow
  <1>4. new \in ProdRow /\ new.by = i /\ new.cat = c /\ <<new.cat.name, new.name>> = pair
    BY <1>1, <1>3 DEF ProdRow, CatRow
  <1>5. imp' = [imp EXCEPT ![i] = row]
    BY <1>1, <1>2
  <1> HIDE DEF new
  <1>6. /\ row \in ImportRow /\ row.at = "write" /\ row.target = imp[i].target
        /\ row.built = imp[i].built \cup {new} /\ row.plan = imp[i].plan
    BY <1>1, <1>2, <1>4 DEF ImportRow
  <1> HIDE DEF row
  <1>7. \A d \in row.target : d.by = i \/ d \in cats
    BY <1>1, <1>6 DEF ImportInv, TargetsKnown
  <1>8. \A p \in row.built : p.by = i /\ p.cat \in row.target /\ <<p.cat.name, p.name>> \in row.plan
    BY <1>1, <1>3, <1>4, <1>6 DEF ImportInv, BuiltOfPlan
  <1> QED
    BY <1>1, <1>5, <1>6, <1>7, <1>8, ImportGoesOn

LEMMA RollBackKept ==
  ASSUME ImportInv, NEW i \in Imports, RollBack(i)
  PROVE  ImportInv'
  <1>1. NoImport \in ImportRow /\ NoImport.at = "idle" /\ NoImport.built = {}
    BY DEF NoImport, ImportRow
  <1> QED
    BY <1>1, ImportGoesOn DEF RollBack

LEMMA CommitKept ==
  ASSUME ImportInv, NEW i \in Imports, CommitImport(i)
  PROVE  ImportInv'
  <1>1. /\ imp[i].at = "write" /\ Left(i) = {} /\ cats' = cats \cup imp[i].target
        /\ prods' = prods \cup imp[i].built /\ imp' = [imp EXCEPT ![i].at = "done"]
    BY DEF CommitImport
  <1>2. imp \in [Imports -> ImportRow] /\ imp[i] \in ImportRow
    BY DEF ImportInv, ImportTypes
  <1>3. /\ imp' \in [Imports -> ImportRow] /\ imp'[i].at = "done" /\ imp'[i].plan = imp[i].plan
        /\ imp'[i].target = imp[i].target /\ imp'[i].built = imp[i].built
        /\ \A j \in Imports \ {i} : imp'[j] = imp[j]
    BY <1>1, <1>2 DEF ImportRow
  <1>4. ImportTypes'
    BY <1>1, <1>2, <1>3 DEF ImportInv, ImportTypes, ImportRow
  <1>5. OnlyCommitted'
    <2>1. \A c \in cats' : c \in cats \/ c.by = i
      BY <1>1 DEF ImportInv, TargetsKnown
    <2>2. \A p \in prods' : p.by \in Imports /\ (p \in prods \/ p.by = i)
      BY <1>1 DEF ImportInv, ImportTypes, BuiltOfPlan, ProdRow
    <2> QED
      BY <1>3, <2>1, <2>2 DEF ImportInv, OnlyCommitted
  <1>6. TargetsKnown'
    BY <1>1, <1>3 DEF ImportInv, TargetsKnown
  <1>7. BuiltOfPlan'
    BY <1>3 DEF ImportInv, BuiltOfPlan
  <1>8. DoneIsWhole'
    <2> SUFFICES ASSUME NEW j \in Imports, imp'[j].at = "done"
                 PROVE  /\ {p \in prods' : p.by = j} = imp'[j].built
                        /\ Left(j)' = {} /\ imp'[j].target \subseteq cats'
      BY DEF DoneIsWhole
    <2>1. CASE j = i
      <3>1. \A p \in prods : p.by # i
        BY <1>1 DEF ImportInv, OnlyCommitted
      <3>2. \A p \in imp[i].built : p.by = i
        BY DEF ImportInv, BuiltOfPlan
      <3> QED
        BY <1>1, <1>3, <2>1, <3>1, <3>2 DEF Left
    <2>2. CASE j # i
      <3>1. \A p \in imp[i].built : p.by = i
        BY DEF ImportInv, BuiltOfPlan
      <3>2. {p \in prods' : p.by = j} = {p \in prods : p.by = j}
        BY <1>1, <2>2, <3>1
      <3> QED
        BY <1>1, <1>3, <2>2, <3>2 DEF ImportInv, DoneIsWhole, Left
    <2> QED
      BY <2>1, <2>2
  <1> QED
    BY <1>4, <1>5, <1>6, <1>7, <1>8 DEF ImportInv

\* The editor's categories bear no import's name.
LEMMA EditorKept ==
  ASSUME ImportInv,
         (\E n \in CatNames : EditCategory(n)) \/ (\E c \in cats : DropCategory(c))
  PROVE  ImportInv'
  <1>1. /\ UNCHANGED <<prods, imp>> /\ cats \subseteq cats' /\ cats' \subseteq CatRow
        /\ \A c \in cats' : c \in cats \/ c.by = Editor
    <2>1. cats \subseteq CatRow
      BY DEF ImportInv, ImportTypes
    <2>2. CASE \E n \in CatNames : EditCategory(n)
      BY <2>1, <2>2 DEF EditCategory, CatRow
    <2>3. CASE \E c \in cats : DropCategory(c)
      BY <2>1, <2>3 DEF DropCategory
    <2> QED
      BY <2>2, <2>3
  <1>2. ImportTypes' /\ TargetsKnown' /\ BuiltOfPlan'
    BY <1>1 DEF ImportInv, ImportTypes, TargetsKnown, BuiltOfPlan
  <1>3. OnlyCommitted'
    BY <1>1, ImportAssumption DEF ImportInv, OnlyCommitted
  <1>4. DoneIsWhole'
    BY <1>1 DEF ImportInv, DoneIsWhole, Left
  <1> QED
    BY <1>2, <1>3, <1>4 DEF ImportInv

LEMMA StepImport == ImportInv /\ [ImNext]_imVars => ImportInv'
  <1> SUFFICES ASSUME ImportInv, [ImNext]_imVars PROVE ImportInv'
    OBVIOUS
  <1>1. CASE ImNext
    BY <1>1, PlanKept, ReadCategoriesKept, BuildKept, CommitKept, RollBackKept, EditorKept DEF ImNext
  <1>2. CASE UNCHANGED imVars
    BY <1>2 DEF imVars, ImportInv, ImportTypes, OnlyCommitted, TargetsKnown, BuiltOfPlan, DoneIsWhole, Left
  <1> QED
    BY <1>1, <1>2

(***************************************************************************)
(* For any file, any number of imports and whatever the editor does        *)
(* meanwhile: an import has left every product of its plan or nothing.     *)
(***************************************************************************)
THEOREM ImportsAreWhole == ImSpec => []AllOrNothing
  <1>1. ImportInv => AllOrNothing
    <2> SUFFICES ASSUME ImportInv, NEW i \in Imports
                 PROVE  LET mine == {p \in prods : p.by = i}
                        IN  /\ {c \in cats : c.by = i} # {} \/ mine # {} => imp[i].at = "done"
                            /\ imp[i].at = "done" =>
                                 /\ {<<p.cat.name, p.name>> : p \in mine} = imp[i].plan
                                 /\ \A p \in mine : p.cat \in cats
      BY DEF AllOrNothing
    <2>1. {c \in cats : c.by = i} # {} \/ {p \in prods : p.by = i} # {} => imp[i].at = "done"
      BY DEF ImportInv, OnlyCommitted
    <2>2. ASSUME imp[i].at = "done"
          PROVE  /\ {<<p.cat.name, p.name>> : p \in {q \in prods : q.by = i}} = imp[i].plan
                 /\ \A p \in {q \in prods : q.by = i} : p.cat \in cats
      <3>1. {q \in prods : q.by = i} = imp[i].built /\ Left(i) = {} /\ imp[i].target \subseteq cats
        BY <2>2 DEF ImportInv, DoneIsWhole
      <3>2. \A p \in imp[i].built : p.cat \in imp[i].target /\ <<p.cat.name, p.name>> \in imp[i].plan
        BY DEF ImportInv, BuiltOfPlan
      <3>3. imp[i].plan \subseteq {<<p.cat.name, p.name>> : p \in imp[i].built}
        BY <3>1 DEF Left
      <3> QED
        BY <3>1, <3>2, <3>3
    <2> QED
      BY <2>1, <2>2
  <1> QED
    BY <1>1, InitImport, StepImport, PTL DEF ImSpec

-----------------------------------------------------------------------------
(* The pictures of the settings *)

\* What a slot can show.
Shown(s) == CASE s = "photo" -> "square jpg" [] s = "qr" -> "png" [] OTHER -> "jpg"

FileOrNone == Files \cup {NoFile}

ReqRow == [at : {"idle", "photo", "open", "create", "write", "delete"},
           slot : Slots \cup {"none", "fence"}, new : FileOrNone, old : FileOrNone,
           put : [require : {"on", "off", "unset"}, point : BOOLEAN],
           seen : [require : BOOLEAN, point : BOOLEAN]]

SettingsTypes ==
    /\ url \in [Slots -> FileOrNone]
    /\ file \in [Files -> {"free", "deleted", "square jpg", "jpg", "png"}]
    /\ fence \in [require : BOOLEAN, point : BOOLEAN]
    /\ req \in [Requests -> ReqRow]
    /\ \A r \in Requests : req[r].at = "photo" => req[r].slot = "photo"

\* No file is shown in two slots.
ShownOnce == \A s, t \in Slots : url[s] = url[t] /\ url[s] # NoFile => s = t

\* An upload's file is its own until its URL is committed, and fits the slot.
UploadsApart ==
    \A r \in Requests : req[r].new # NoFile =>
        /\ req[r].slot \in Slots /\ file[req[r].new] = Shown(req[r].slot)
        /\ \A s \in Slots : url[s] # req[r].new
        /\ \A q \in Requests : req[q].old # req[r].new /\ (q # r => req[q].new # req[r].new)

\* The file a request will delete was in its slot only, and has left it by then.
OldsLeave ==
    \A r \in Requests : req[r].old # NoFile =>
        /\ req[r].slot \in Slots
        /\ \A s \in Slots : url[s] = req[r].old => s = req[r].slot /\ req[r].at # "delete"

\* A name that is free is nowhere.
FreeUnknown ==
    \A f \in Files : file[f] = "free" =>
        /\ \A s \in Slots : url[s] # f
        /\ \A r \in Requests : req[r].new # f /\ req[r].old # f

SettingsInv ==
    SettingsTypes /\ PicturesExist /\ ShownOnce /\ UploadsApart /\ OldsLeave /\ FreeUnknown

LEMMA PicturesAreShown == PicturesExist <=> \A s \in Slots : url[s] # NoFile => file[url[s]] = Shown(s)
  BY DEF PicturesExist, Shown

LEMMA ShownIsStored ==
  ASSUME NEW s \in Slots, NEW u \in Upload, Stored(s, u) # "rejected"
  PROVE  /\ Stored(s, u) = Shown(s) /\ Stored(s, u) # "free"
         /\ Stored(s, u) \in {"free", "deleted", "square jpg", "jpg", "png"}
  <1>1. s \in {"banner", "qr", "popup", "photo"}
    BY SettingsAssumption
  <1> QED
    BY <1>1 DEF Stored, Shown, StoredPhoto, StoredBanner, StoredIllustration, StoredQr

LEMMA NoReqRow ==
  NoReq \in ReqRow /\ NoReq.new = NoFile /\ NoReq.old = NoFile /\ NoReq.at = "idle" /\ NoReq.slot = "none"
  BY DEF NoReq, ReqRow, NoPut, FileOrNone

LEMMA InitSettings == MsInit => SettingsInv
  <1> SUFFICES ASSUME MsInit PROVE SettingsInv
    OBVIOUS
  <1>1. SettingsTypes
    BY NoReqRow DEF MsInit, SettingsTypes, FileOrNone
  <1>2. PicturesExist /\ ShownOnce /\ UploadsApart /\ OldsLeave
    BY NoReqRow DEF MsInit, PicturesExist, ShownOnce, UploadsApart, OldsLeave
  <1>3. FreeUnknown
    BY NoReqRow, SettingsAssumption DEF MsInit, FreeUnknown
  <1> QED
    BY <1>1, <1>2, <1>3 DEF SettingsInv

\* A request that holds no more than before, beside the same URLs and files.
LEMMA RequestGoesOn ==
  ASSUME SettingsInv, NEW r \in Requests, NEW row \in ReqRow, req' = [req EXCEPT ![r] = row],
         UNCHANGED <<url, file>>, fence' \in [require : BOOLEAN, point : BOOLEAN],
         row.at = "photo" => row.slot = "photo",
         row.new = NoFile \/ (row.new = req[r].new /\ row.slot = req[r].slot),
         \/ row.old = NoFile
         \/ row.old = req[r].old /\ row.slot = req[r].slot /\ (row.at = "delete" => req[r].at = "delete")
         \/ row.slot \in Slots /\ row.old = url[row.slot] /\ row.at # "delete"
  PROVE  SettingsInv'
  <1>1. /\ req \in [Requests -> ReqRow] /\ req' \in [Requests -> ReqRow] /\ req'[r] = row
        /\ \A q \in Requests \ {r} : req'[q] = req[q]
        /\ url \in [Slots -> FileOrNone]
    BY DEF SettingsInv, SettingsTypes
  <1>2. SettingsTypes' /\ PicturesExist' /\ ShownOnce'
    BY <1>1, PicturesAreShown DEF SettingsInv, SettingsTypes, PicturesExist, ShownOnce
  <1>3. \A q \in Requests :
           \/ req'[q].old = NoFile
           \/ req'[q].old = req[q].old
           \/ \E s \in Slots : req'[q].old = url[s]
    BY <1>1
  <1>4. \A q \in Requests :
           \/ req'[q].new = NoFile
           \/ req'[q].new = req[q].new /\ req'[q].slot = req[q].slot
    BY <1>1
  <1>5. UploadsApart'
    BY <1>3, <1>4 DEF SettingsInv, UploadsApart
  <1>6. OldsLeave'
    BY <1>1 DEF SettingsInv, OldsLeave, ShownOnce
  <1>7. FreeUnknown'
    BY <1>3, <1>4, SettingsAssumption DEF SettingsInv, FreeUnknown
  <1> QED
    BY <1>2, <1>5, <1>6, <1>7 DEF SettingsInv

LEMMA StoreUploadKept ==
  ASSUME SettingsInv, NEW r \in Requests, NEW slot \in Slots, NEW u \in Upload, StoreUpload(r, slot, u)
  PROVE  SettingsInv'
  <1>1. PICK f \in Files :
            /\ file[f] = "free" /\ file' = [file EXCEPT ![f] = Stored(slot, u)]
            /\ req' = [req EXCEPT ![r] = [NoReq EXCEPT !.at = IF slot = "photo" THEN "photo" ELSE "open",
                                                       !.slot = slot, !.new = f]]
            /\ Stored(slot, u) # "rejected" /\ UNCHANGED <<url, fence>>
    BY DEF StoreUpload
  <1>2. /\ req \in [Requests -> ReqRow] /\ file \in [Files -> {"free", "deleted", "square jpg", "jpg", "png"}]
        /\ url \in [Slots -> FileOrNone] /\ f # NoFile
    BY SettingsAssumption DEF SettingsInv, SettingsTypes
  <1> DEFINE row == [NoReq EXCEPT !.at = IF slot = "photo" THEN "photo" ELSE "open", !.slot = slot, !.new = f]
  <1>3. /\ row \in ReqRow /\ row.new = f /\ row.slot = slot /\ row.old = NoFile
        /\ row.at = "photo" => slot = "photo"
    BY NoReqRow DEF ReqRow, FileOrNone
  <1> HIDE DEF row
  <1>4. /\ req' \in [Requests -> ReqRow] /\ req'[r] = row /\ \A q \in Requests \ {r} : req'[q] = req[q]
    BY <1>1, <1>2, <1>3 DEF row
  <1>5. /\ file' \in [Files -> {"free", "deleted", "square jpg", "jpg", "png"}]
        /\ file'[f] = Shown(slot) /\ file'[f] # "free" /\ \A g \in Files \ {f} : file'[g] = file[g]
    BY <1>1, <1>2, ShownIsStored
  <1>6. /\ \A s \in Slots : url[s] # f
        /\ \A q \in Requests : req[q].new # f /\ req[q].old # f
    BY <1>1 DEF SettingsInv, FreeUnknown
  <1>7. \A q \in Requests : req[q].new \in FileOrNone /\ req[q].old \in FileOrNone
    BY <1>2 DEF ReqRow
  <1>8. SettingsTypes' /\ ShownOnce'
    <2>1. \A q \in Requests : req'[q].at = "photo" => req'[q].slot = "photo"
      BY <1>3, <1>4 DEF SettingsInv, SettingsTypes
    <2>2. SettingsTypes'
      BY <1>1, <1>4, <1>5, <2>1 DEF SettingsInv, SettingsTypes
    <2>3. ShownOnce'
      BY <1>1 DEF SettingsInv, ShownOnce
    <2> QED
      BY <2>2, <2>3
  <1>9. PicturesExist'
    <2>1. \A s \in Slots : url'[s] # NoFile => file'[url'[s]] = Shown(s)
      BY <1>1, <1>2, <1>5, <1>6, PicturesAreShown DEF SettingsInv, FileOrNone
    <2> QED
      BY <2>1 DEF PicturesExist, Shown
  <1>10. UploadsApart'
    <2>1. \A q \in Requests \ {r} : req[q].new # NoFile =>
             req[q].new \in Files \ {f} /\ file'[req[q].new] = file[req[q].new]
      BY <1>5, <1>6, <1>7 DEF FileOrNone
    <2>2. \A q \in Requests \ {r} : req'[q].new # NoFile =>
             /\ req'[q].slot \in Slots /\ file'[req'[q].new] = Shown(req'[q].slot)
             /\ \A s \in Slots : url'[s] # req'[q].new
      BY <1>1, <1>4, <2>1 DEF SettingsInv, UploadsApart
    <2>3. /\ req'[r].slot \in Slots /\ file'[req'[r].new] = Shown(req'[r].slot)
          /\ \A s \in Slots : url'[s] # req'[r].new
      BY <1>1, <1>3, <1>4, <1>5, <1>6
    <2>4. \A p, q \in Requests : req'[p].new # NoFile =>
             req'[q].old # req'[p].new /\ (q # p => req'[q].new # req'[p].new)
      <3> SUFFICES ASSUME NEW p \in Requests, NEW q \in Requests, req'[p].new # NoFile
                   PROVE  req'[q].old # req'[p].new /\ (q # p => req'[q].new # req'[p].new)
        OBVIOUS
      <3>1. CASE p = r
        BY <1>2, <1>3, <1>4, <1>6, <3>1
      <3>2. CASE p # r
        BY <1>3, <1>4, <1>6, <3>2 DEF SettingsInv, UploadsApart
      <3> QED
        BY <3>1, <3>2
    <2> QED
      BY <2>2, <2>3, <2>4 DEF UploadsApart
  <1>11. OldsLeave'
    BY <1>1, <1>3, <1>4 DEF SettingsInv, OldsLeave
  <1>12. FreeUnknown'
    <2> SUFFICES ASSUME NEW g \in Files, file'[g] = "free"
                 PROVE  /\ \A s \in Slots : url'[s] # g
                        /\ \A q \in Requests : req'[q].new # g /\ req'[q].old # g
      BY DEF FreeUnknown
    <2>1. g # f /\ file[g] = "free" /\ g # NoFile
      BY <1>5, SettingsAssumption
    <2> QED
      BY <1>1, <1>3, <1>4, <2>1 DEF SettingsInv, FreeUnknown
  <1> QED
    BY <1>8, <1>9, <1>10, <1>11, <1>12 DEF SettingsInv

\* A URL is committed: a file of the request's own, or none.
LEMMA UrlCommitted ==
  ASSUME SettingsInv, NEW r \in Requests, NEW slot \in Slots, req[r].slot = slot,
         url' = [url EXCEPT ![slot] = req[r].new], UNCHANGED <<file, fence>>,
         NEW row \in ReqRow, req' = [req EXCEPT ![r] = row], row.new = NoFile, row.at # "photo",
         row.old = NoFile \/ (row.old = req[r].old /\ row.slot = slot)
  PROVE  SettingsInv'
  <1>1. /\ req \in [Requests -> ReqRow] /\ req[r].new \in FileOrNone /\ url \in [Slots -> FileOrNone]
    BY DEF SettingsInv, SettingsTypes, ReqRow
  <1>2. /\ req' \in [Requests -> ReqRow] /\ req'[r] = row /\ \A q \in Requests \ {r} : req'[q] = req[q]
        /\ url' \in [Slots -> FileOrNone] /\ url'[slot] = req[r].new
        /\ \A s \in Slots \ {slot} : url'[s] = url[s]
    BY <1>1
  <1>3. SettingsTypes'
    BY <1>2 DEF SettingsInv, SettingsTypes
  <1>4. PicturesExist'
    <2>1. \A s \in Slots : url'[s] # NoFile => file'[url'[s]] = Shown(s)
      BY <1>2, PicturesAreShown DEF SettingsInv, UploadsApart
    <2> QED
      BY <2>1 DEF PicturesExist, Shown
  <1>5. ShownOnce'
    BY <1>2 DEF SettingsInv, ShownOnce, UploadsApart
  <1>6. UploadsApart'
    BY <1>2 DEF SettingsInv, UploadsApart
  <1>7. OldsLeave'
    <2> SUFFICES ASSUME NEW q \in Requests, req'[q].old # NoFile
                 PROVE  /\ req'[q].slot \in Slots
                        /\ \A s \in Slots : url'[s] = req'[q].old =>
                              s = req'[q].slot /\ req'[q].at # "delete"
      BY DEF OldsLeave
    <2>1. req'[q].old = req[q].old /\ req'[q].slot = req[q].slot /\ req[q].slot \in Slots
      BY <1>2 DEF SettingsInv, OldsLeave
    <2>2. url'[slot] # req'[q].old
      BY <1>2, <2>1 DEF SettingsInv, UploadsApart
    <2> QED
      BY <1>2, <2>1, <2>2 DEF SettingsInv, OldsLeave
  <1>8. FreeUnknown'
    BY <1>2, SettingsAssumption DEF SettingsInv, FreeUnknown
  <1> QED
    BY <1>3, <1>4, <1>5, <1>6, <1>7, <1>8 DEF SettingsInv

\* Only the file of a finished exchange is deleted.
LEMMA DeleteFileKept ==
  ASSUME SettingsInv, NEW r \in Requests, DeleteFile(r)
  PROVE  SettingsInv'
  <1> DEFINE f == req[r].old
  <1>1. /\ req \in [Requests -> ReqRow] /\ url \in [Slots -> FileOrNone]
        /\ file \in [Files -> {"free", "deleted", "square jpg", "jpg", "png"}] /\ f \in FileOrNone
        /\ \A q \in Requests : req[q].new \in FileOrNone
    BY DEF SettingsInv, SettingsTypes, ReqRow
  <1>2. /\ req[r].at = "delete" /\ file' = [file EXCEPT ![f] = "deleted"]
        /\ req' = [req EXCEPT ![r] = NoReq] /\ UNCHANGED <<made, url, fence>>
    BY DEF DeleteFile, EndReq
  <1>3. /\ req' \in [Requests -> ReqRow] /\ req'[r] = NoReq
        /\ \A q \in Requests \ {r} : req'[q] = req[q]
    BY <1>1, <1>2, NoReqRow
  <1>4. /\ file' \in [Files -> {"free", "deleted", "square jpg", "jpg", "png"}]
        /\ \A g \in Files : g # f => file'[g] = file[g]
        /\ \A g \in Files : file'[g] = "free" => file[g] = "free"
    BY <1>1, <1>2
  <1>5. \A s \in Slots : url[s] # NoFile => url[s] # f /\ url[s] \in Files
    BY <1>1, <1>2 DEF SettingsInv, OldsLeave, FileOrNone
  <1>6. \A q \in Requests : req[q].new # NoFile => req[q].new # f /\ req[q].new \in Files
    BY <1>1 DEF SettingsInv, UploadsApart, FileOrNone
  <1>7. SettingsTypes' /\ ShownOnce'
    BY <1>2, <1>3, <1>4, NoReqRow DEF SettingsInv, SettingsTypes, ShownOnce
  <1>8. PicturesExist'
    <2>1. \A s \in Slots : url'[s] # NoFile => file'[url'[s]] = Shown(s)
      BY <1>2, <1>4, <1>5, PicturesAreShown DEF SettingsInv
    <2> QED
      BY <2>1 DEF PicturesExist, Shown
  <1>9. UploadsApart'
    <2>1. \A q \in Requests :
             /\ req'[q].new = NoFile \/ (req'[q].new = req[q].new /\ req'[q].slot = req[q].slot)
             /\ req'[q].old = NoFile \/ req'[q].old = req[q].old
      BY <1>3, NoReqRow
    <2>2. \A q \in Requests : req[q].new # NoFile => file'[req[q].new] = file[req[q].new]
      BY <1>4, <1>6
    <2> QED
      BY <1>2, <2>1, <2>2 DEF SettingsInv, UploadsApart
  <1>10. OldsLeave'
    BY <1>2, <1>3, NoReqRow DEF SettingsInv, OldsLeave
  <1>11. FreeUnknown'
    <2>1. \A q \in Requests : /\ req'[q].new = NoFile \/ req'[q].new = req[q].new
                              /\ req'[q].old = NoFile \/ req'[q].old = req[q].old
      BY <1>3, NoReqRow
    <2>2. NoFile \notin Files
      BY SettingsAssumption
    <2> QED
      <3> SUFFICES ASSUME NEW g \in Files, file'[g] = "free"
                   PROVE  /\ \A s \in Slots : url'[s] # g
                          /\ \A q \in Requests : req'[q].new # g /\ req'[q].old # g
        BY DEF FreeUnknown
      <3>1. file[g] = "free" /\ g # NoFile
        BY <1>4, <2>2
      <3>2. /\ \A s \in Slots : url[s] # g
            /\ \A q \in Requests : req[q].new # g /\ req[q].old # g
        BY <3>1 DEF SettingsInv, FreeUnknown
      <3> QED
        BY <1>2, <2>1, <3>1, <3>2
  <1> QED
    BY <1>7, <1>8, <1>9, <1>10, <1>11 DEF SettingsInv

\* The row is opened or made: the request keeps the URL it read.
LEMMA OpeningKept ==
  ASSUME SettingsInv, NEW r \in Requests, OpenSettings(r) \/ CreateSettings(r)
  PROVE  SettingsInv'
  <1>1. /\ req \in [Requests -> ReqRow] /\ req[r] \in ReqRow /\ url \in [Slots -> FileOrNone]
        /\ fence \in [require : BOOLEAN, point : BOOLEAN] /\ UNCHANGED <<url, fence, file>>
    BY DEF SettingsInv, SettingsTypes, OpenSettings, CreateSettings
  <1>2. /\ WithRow(r) \in ReqRow /\ WithRow(r).at = "write" /\ WithRow(r).new = req[r].new
        /\ WithRow(r).slot = req[r].slot
        /\ WithRow(r).old = IF req[r].slot \in Slots THEN url[req[r].slot] ELSE NoFile
    BY <1>1 DEF WithRow, ReqRow, FileOrNone
  <1> DEFINE creating == [req[r] EXCEPT !.at = "create"]
  <1>3. /\ creating \in ReqRow /\ creating.at = "create" /\ creating.new = req[r].new
        /\ creating.slot = req[r].slot /\ creating.old = req[r].old
    BY <1>1 DEF ReqRow
  <1>4. \/ req' = [req EXCEPT ![r] = WithRow(r)]
        \/ req' = [req EXCEPT ![r] = creating]
        \/ req' = [req EXCEPT ![r] = NoReq]
    BY <1>1 DEF OpenSettings, CreateSettings
  <1> HIDE DEF creating
  <1>5. CASE req' = [req EXCEPT ![r] = WithRow(r)]
    BY <1>1, <1>2, <1>5, RequestGoesOn
  <1>6. CASE req' = [req EXCEPT ![r] = creating]
    BY <1>1, <1>3, <1>6, RequestGoesOn
  <1>7. CASE req' = [req EXCEPT ![r] = NoReq]
    BY <1>1, <1>7, NoReqRow, RequestGoesOn
  <1> QED
    BY <1>4, <1>5, <1>6, <1>7

LEMMA WritePictureKept ==
  ASSUME SettingsInv, NEW r \in Requests, WritePicture(r)
  PROVE  SettingsInv'
  <1> DEFINE leaving == [req[r] EXCEPT !.at = "delete", !.new = NoFile]
  <1>1. /\ req \in [Requests -> ReqRow] /\ req[r] \in ReqRow /\ req[r].slot \in Slots
        /\ fence \in [require : BOOLEAN, point : BOOLEAN] /\ UNCHANGED <<fence, file>>
    BY DEF SettingsInv, SettingsTypes, WritePicture
  <1>2. /\ leaving \in ReqRow /\ leaving.at = "delete" /\ leaving.new = NoFile
        /\ leaving.slot = req[r].slot /\ leaving.old = req[r].old
    BY <1>1 DEF ReqRow, FileOrNone
  <1>3. req[r].new # NoFile => req[r].new # req[r].old
    BY DEF SettingsInv, UploadsApart
  <1>4. /\ url' = IF req[r].new = req[r].old THEN url ELSE [url EXCEPT ![req[r].slot] = req[r].new]
        /\ IF req[r].old = NoFile THEN req' = [req EXCEPT ![r] = NoReq]
           ELSE req' = [req EXCEPT ![r] = leaving]
    BY <1>1 DEF WritePicture, EndReq
  <1> HIDE DEF leaving
  <1>5. CASE req[r].new = req[r].old
    <2>1. UNCHANGED url /\ req' = [req EXCEPT ![r] = NoReq]
      BY <1>3, <1>4, <1>5
    <2> QED
      BY <1>1, <2>1, NoReqRow, RequestGoesOn
  <1>6. CASE req[r].new # req[r].old
    <2>1. url' = [url EXCEPT ![req[r].slot] = req[r].new]
      BY <1>4, <1>6
    <2>2. CASE req[r].old = NoFile
      BY <1>1, <1>4, <2>1, <2>2, NoReqRow, UrlCommitted
    <2>3. CASE req[r].old # NoFile
      BY <1>1, <1>2, <1>4, <2>1, <2>3, UrlCommitted
    <2> QED
      BY <2>2, <2>3
  <1> QED
    BY <1>5, <1>6

LEMMA SetPhotoKept ==
  ASSUME SettingsInv, NEW r \in Requests, SetPhoto(r)
  PROVE  SettingsInv'
  <1>1. /\ req[r].at = "photo" /\ req[r].slot = "photo" /\ url' = [url EXCEPT !["photo"] = req[r].new]
        /\ req' = [req EXCEPT ![r] = NoReq] /\ UNCHANGED <<fence, file>>
    BY DEF SettingsInv, SettingsTypes, SetPhoto, EndReq
  <1>2. CASE "photo" \in Slots
    BY <1>1, <1>2, NoReqRow, UrlCommitted
  <1>3. CASE "photo" \notin Slots
    BY <1>1, <1>3 DEF SettingsInv, SettingsTypes, ReqRow
  <1> QED
    BY <1>2, <1>3

\* A request without a file begins, ends or writes the fence.
LEMMA PlainRequests ==
  ASSUME SettingsInv, NEW r \in Requests,
         \/ \E slot \in Slots : RemovePicture(r, slot)
         \/ \E require \in {"on", "off", "unset"}, point \in BOOLEAN : PutFence(r, require, point)
         \/ WriteFence(r) \/ DieInRequest(r)
  PROVE  SettingsInv'
  <1>1. /\ req \in [Requests -> ReqRow] /\ req[r] \in ReqRow /\ UNCHANGED <<url, file>>
        /\ fence \in [require : BOOLEAN, point : BOOLEAN]
    BY DEF SettingsInv, SettingsTypes, RemovePicture, PutFence, WriteFence, DieInRequest
  <1>2. CASE \E slot \in Slots : RemovePicture(r, slot)
    <2>1. PICK slot \in Slots : RemovePicture(r, slot)
      BY <1>2
    <2> DEFINE row == [NoReq EXCEPT !.at = "open", !.slot = slot]
    <2>2. row \in ReqRow /\ row.at = "open" /\ row.new = NoFile /\ row.old = NoFile
      BY NoReqRow DEF ReqRow
    <2>3. req' = [req EXCEPT ![r] = row] /\ UNCHANGED fence
      BY <2>1 DEF RemovePicture
    <2> HIDE DEF row
    <2> QED
      BY <1>1, <2>2, <2>3, RequestGoesOn
  <1>3. CASE \E require \in {"on", "off", "unset"}, point \in BOOLEAN : PutFence(r, require, point)
    <2>1. PICK require \in {"on", "off", "unset"}, point \in BOOLEAN : PutFence(r, require, point)
      BY <1>3
    <2> DEFINE row == [NoReq EXCEPT !.at = "open", !.slot = "fence",
                                    !.put = [require |-> require, point |-> point]]
    <2>2. row \in ReqRow /\ row.at = "open" /\ row.new = NoFile /\ row.old = NoFile
      BY NoReqRow DEF ReqRow
    <2>3. req' = [req EXCEPT ![r] = row] /\ UNCHANGED fence
      BY <2>1 DEF PutFence
    <2> HIDE DEF row
    <2> QED
      BY <1>1, <2>2, <2>3, RequestGoesOn
  <1>4. CASE WriteFence(r)
    <2>1. fence' \in [require : BOOLEAN, point : BOOLEAN]
      <3>1. req[r].put.point \in BOOLEAN /\ req[r].seen.point \in BOOLEAN /\ req[r].seen.require \in BOOLEAN
        BY <1>1 DEF ReqRow
      <3> DEFINE require == IF req[r].put.require = "unset" THEN req[r].seen.require
                            ELSE req[r].put.require = "on"
                 point == fence.point \/ req[r].put.point
      <3>2. require \in BOOLEAN /\ point \in BOOLEAN
        BY <3>1
      <3>3. \/ fence' = fence
            \/ fence' = [require |-> IF require = req[r].seen.require THEN fence.require ELSE require,
                         point |-> point]
        BY <1>4 DEF WriteFence
      <3> HIDE DEF require, point
      <3> QED
        BY <1>1, <3>2, <3>3
    <2>2. req' = [req EXCEPT ![r] = NoReq]
      BY <1>4 DEF WriteFence, EndReq
    <2> QED
      BY <1>1, <2>1, <2>2, NoReqRow, RequestGoesOn
  <1>5. CASE DieInRequest(r)
    <2>1. req' = [req EXCEPT ![r] = NoReq] /\ UNCHANGED fence
      BY <1>5 DEF DieInRequest, EndReq
    <2> QED
      BY <1>1, <2>1, NoReqRow, RequestGoesOn
  <1> QED
    BY <1>2, <1>3, <1>4, <1>5

LEMMA StepSettings == SettingsInv /\ [MsNext]_msVars => SettingsInv'
  <1> SUFFICES ASSUME SettingsInv, [MsNext]_msVars PROVE SettingsInv'
    OBVIOUS
  <1>1. CASE MsNext
    BY <1>1, StoreUploadKept, SetPhotoKept, OpeningKept, WritePictureKept, DeleteFileKept, PlainRequests
       DEF MsNext
  <1>2. CASE UNCHANGED msVars
    BY <1>2 DEF msVars, SettingsInv, SettingsTypes, PicturesExist, ShownOnce, UploadsApart, OldsLeave,
                FreeUnknown
  <1> QED
    BY <1>1, <1>2

(***************************************************************************)
(* For any number of requests and files, wherever a request dies: every    *)
(* committed URL names a file that is there and fits its slot.             *)
(***************************************************************************)
THEOREM MenuPicturesExist == MsSpec => []PicturesExist
  <1>1. SettingsInv => PicturesExist
    BY DEF SettingsInv
  <1> QED
    BY <1>1, InitSettings, StepSettings, PTL DEF MsSpec

-----------------------------------------------------------------------------
(* Staff accounts and their sessions *)

Lockable == Users \cup Tokens \cup Links

TokenRow == [user : Users \cup {Nobody}, live : BOOLEAN, parent : Tokens \cup {Nobody}]

LinkRow == [user : Users \cup {Nobody}, live : BOOLEAN, used : Nat]

ProcRow == [at : {"idle", "login", "issue", "rotate", "eject", "mail", "reset", "password"},
            user : Users \cup {Nobody}, row : Tokens \cup Links \cup {Nobody},
            rows : SUBSET (Tokens \cup Links)]

SessionTypes ==
    /\ token \in [Tokens -> TokenRow]
    /\ link \in [Links -> LinkRow]
    /\ lock \in [Lockable -> Procs \cup {Nobody}]
    /\ proc \in [Procs -> ProcRow]

\* A request under way has a user; a rotation or an ejection has a token, a
\* reset has a link.
RequestKnows(p) ==
    /\ proc[p].at # "idle" => proc[p].user \in Users
    /\ proc[p].at \in {"rotate", "eject"} => proc[p].row \in Tokens
    /\ proc[p].at \in {"reset", "password"} => proc[p].row \in Links

\* The rows its locks are on.
RequestLocks(p) ==
    /\ proc[p].at = "issue" => lock[proc[p].user] = p
    /\ proc[p].at \in {"rotate", "eject", "reset", "password"} => lock[proc[p].row] = p
    /\ proc[p].at = "password" => \A r \in proc[p].rows : lock[r] = p

\* What the locks keep true: a login has seen every session of its account, a
\* rotation's token is still good,
SeesTokens(p) ==
    /\ proc[p].at = "issue" => LiveTokens(proc[p].user) \subseteq proc[p].rows
    /\ proc[p].at = "rotate" =>
          token[proc[p].row].live /\ token[proc[p].row].user = proc[p].user

\* and so is a reset's link.
SeesLink(p) == proc[p].at \in {"reset", "password"} => link[proc[p].row].live

Kept(p) == RequestKnows(p) /\ RequestLocks(p) /\ SeesTokens(p) /\ SeesLink(p)

\* A live token is somebody's, and the only one.
OneLive ==
    /\ \A t \in Tokens : token[t].live => token[t].user \in Users
    /\ \A s, t \in Tokens : token[s].live /\ token[t].live /\ token[s].user = token[t].user => s = t

\* A token that has a successor is a row, is revoked, and has no other one.
ParentsRevoked ==
    /\ \A t \in Tokens : token[t].user = Nobody => ~token[t].live /\ token[t].parent = Nobody
    /\ \A t \in Tokens : token[t].parent # Nobody =>
          token[token[t].parent].user # Nobody /\ ~token[token[t].parent].live
    /\ \A s, t \in Tokens : token[s].parent = token[t].parent /\ token[s].parent # Nobody => s = t

\* A live link is somebody's and has set no password.
UsedLinksAreSpent ==
    \A l \in Links : /\ link[l].used <= 1
                     /\ link[l].live => link[l].user \in Users /\ link[l].used = 0

SessionInv ==
    /\ SessionTypes
    /\ \A p \in Procs : Kept(p)
    /\ OneLive /\ ParentsRevoked /\ UsedLinksAreSpent

LEMMA NoRequestRow == NoRequest \in ProcRow /\ NoRequest.at = "idle"
  BY DEF NoRequest, ProcRow

LEMMA InitSessions == AccInit => SessionInv
  <1> SUFFICES ASSUME AccInit PROVE SessionInv
    OBVIOUS
  <1>1. SessionTypes
    BY NoRequestRow DEF AccInit, SessionTypes, TokenRow, LinkRow, Lockable
  <1>2. \A p \in Procs : Kept(p)
    BY NoRequestRow DEF AccInit, Kept, RequestKnows, RequestLocks, SeesTokens, SeesLink
  <1>3. OneLive /\ ParentsRevoked /\ UsedLinksAreSpent
    BY DEF AccInit, OneLive, ParentsRevoked, UsedLinksAreSpent
  <1> QED
    BY <1>1, <1>2, <1>3 DEF SessionInv

\* A request that ends lets go of its own locks only.
LEMMA RequestEnds ==
  ASSUME SessionTypes, NEW p \in Procs, EndRequest(p)
  PROVE  /\ lock' \in [Lockable -> Procs \cup {Nobody}] /\ proc' \in [Procs -> ProcRow]
         /\ proc'[p] = NoRequest /\ \A q \in Procs \ {p} : proc'[q] = proc[q]
         /\ \A q \in Procs \ {p}, r \in Lockable : lock[r] = q => lock'[r] = q
  BY NoRequestRow DEF SessionTypes, EndRequest

\* A request that takes free rows takes them from nobody.
LEMMA RowsTaken ==
  ASSUME SessionTypes, NEW p \in Procs, NEW rows \in SUBSET Lockable, RowsFree(rows), TakeRows(p, rows)
  PROVE  /\ lock' \in [Lockable -> Procs \cup {Nobody}]
         /\ \A r \in rows : lock'[r] = p
         /\ \A q \in Procs, r \in Lockable : lock[r] = q => lock'[r] = q
  <1>1. lock \in [Lockable -> Procs \cup {Nobody}] /\ DOMAIN lock = Lockable
    BY DEF SessionTypes
  <1>2. \A r \in Lockable : lock'[r] = IF r \in rows THEN p ELSE lock[r]
    BY <1>1 DEF TakeRows
  <1>3. lock' \in [Lockable -> Procs \cup {Nobody}]
    BY <1>1 DEF TakeRows
  <1> QED
    BY <1>2, <1>3, AccountsAssumption DEF RowsFree

\* The others go on as they were, if what they have seen still holds.
LEMMA RequestMoves ==
  ASSUME SessionInv, NEW p \in Procs \cup {Nobody},
         token' \in [Tokens -> TokenRow], link' \in [Links -> LinkRow],
         lock' \in [Lockable -> Procs \cup {Nobody}], proc' \in [Procs -> ProcRow],
         \A q \in Procs \ {p} : proc'[q] = proc[q],
         \A q \in Procs \ {p}, r \in Lockable : lock[r] = q => lock'[r] = q,
         \A q \in Procs \ {p} : SeesTokens(q)' /\ SeesLink(q)',
         p \in Procs => Kept(p)',
         OneLive', ParentsRevoked', UsedLinksAreSpent'
  PROVE  SessionInv'
  <1>1. SessionTypes'
    BY DEF SessionTypes
  <1>2. ASSUME NEW q \in Procs \ {p}
        PROVE  Kept(q)'
    <2>1. proc'[q] = proc[q] /\ proc[q] \in ProcRow /\ Kept(q)
      BY DEF SessionInv, SessionTypes
    <2>2. RequestKnows(q)'
      BY <2>1 DEF Kept, RequestKnows
    <2>3. RequestLocks(q)'
      BY <2>1 DEF Kept, RequestLocks, RequestKnows, Lockable, ProcRow
    <2> QED
      BY <2>2, <2>3 DEF Kept
  <1> QED
    BY <1>1, <1>2 DEF SessionInv

\* Sessions and links are as they were.
LEMMA RequestMovesOnly ==
  ASSUME SessionInv, NEW p \in Procs, UNCHANGED <<token, link>>,
         lock' \in [Lockable -> Procs \cup {Nobody}], proc' \in [Procs -> ProcRow],
         \A q \in Procs \ {p} : proc'[q] = proc[q],
         \A q \in Procs \ {p}, r \in Lockable : lock[r] = q => lock'[r] = q,
         Kept(p)'
  PROVE  SessionInv'
  <1>1. \A q \in Procs \ {p} : SeesTokens(q)' /\ SeesLink(q)'
    BY DEF SessionInv, Kept, SeesTokens, SeesLink, LiveTokens
  <1>2. OneLive' /\ ParentsRevoked' /\ UsedLinksAreSpent'
    BY DEF SessionInv, OneLive, ParentsRevoked, UsedLinksAreSpent
  <1>3. token' \in [Tokens -> TokenRow] /\ link' \in [Links -> LinkRow]
    BY DEF SessionInv, SessionTypes
  <1> QED
    BY <1>1, <1>2, <1>3, RequestMoves

LEMMA IdleKeeps ==
  ASSUME NEW p \in Procs, proc'[p] = NoRequest
  PROVE  Kept(p)'
  BY NoRequestRow DEF Kept, RequestKnows, RequestLocks, SeesTokens, SeesLink

\* Logins, rotations, reset requests and resets begin and take their locks.
LEMMA BeginningsKept ==
  ASSUME SessionInv, NEW p \in Procs,
         \/ \E u \in Users : Authenticate(p, u) \/ Forget(p, u)
         \/ LockAccount(p)
         \/ \E t \in Tokens : LockToken(p, t)
         \/ \E l \in Links : LockLink(p, l)
         \/ RevokeSessions(p)
  PROVE  SessionInv'
  <1>1. /\ SessionTypes /\ proc \in [Procs -> ProcRow] /\ proc[p] \in ProcRow
        /\ lock \in [Lockable -> Procs \cup {Nobody}] /\ UNCHANGED <<token, link>>
        /\ token \in [Tokens -> TokenRow] /\ link \in [Links -> LinkRow]
    BY DEF SessionInv, SessionTypes, Authenticate, Forget, LockAccount, LockToken, LockLink, RevokeSessions
  <1>2. ASSUME NEW at \in {"login", "issue", "rotate", "eject", "mail", "reset"}, NEW u \in Users,
               NEW row \in Tokens \cup Links \cup {Nobody}, NEW rows \in SUBSET (Tokens \cup Links),
               GoTo(p, at, u, row, rows)
        PROVE  /\ proc' \in [Procs -> ProcRow] /\ \A q \in Procs \ {p} : proc'[q] = proc[q]
               /\ proc'[p] = [at |-> at, user |-> u, row |-> row, rows |-> rows]
    BY <1>1, <1>2 DEF GoTo, ProcRow
  <1>3. \A u \in Users : LiveTokens(u) \in SUBSET (Tokens \cup Links) /\ LiveLinks(u) \in SUBSET (Tokens \cup Links)
    BY DEF LiveTokens, LiveLinks
  <1>4. CASE \E u \in Users : Authenticate(p, u) \/ Forget(p, u)
    <2>1. PICK u \in Users, at \in {"login", "mail"}, rows \in SUBSET (Tokens \cup Links) :
              GoTo(p, at, u, Nobody, rows) /\ UNCHANGED lock
      BY <1>3, <1>4 DEF Authenticate, Forget
    <2>2. /\ proc' \in [Procs -> ProcRow] /\ \A q \in Procs \ {p} : proc'[q] = proc[q]
          /\ proc'[p] = [at |-> at, user |-> u, row |-> Nobody, rows |-> rows]
      BY <1>2, <2>1
    <2>3. Kept(p)'
      BY <2>2 DEF Kept, RequestKnows, RequestLocks, SeesTokens, SeesLink
    <2> QED
      BY <1>1, <2>1, <2>2, <2>3, RequestMovesOnly
  <1>5. CASE LockAccount(p)
    <2> DEFINE u == proc[p].user
    <2>1. /\ u \in Users /\ RowsFree({u}) /\ TakeRows(p, {u}) /\ GoTo(p, "issue", u, Nobody, LiveTokens(u))
      BY <1>5 DEF LockAccount, SessionInv, Kept, RequestKnows
    <2> HIDE DEF u
    <2>2. /\ proc' \in [Procs -> ProcRow] /\ \A q \in Procs \ {p} : proc'[q] = proc[q]
          /\ proc'[p] = [at |-> "issue", user |-> u, row |-> Nobody, rows |-> LiveTokens(u)]
      BY <1>2, <1>3, <2>1
    <2>3. {u} \in SUBSET Lockable
      BY <2>1 DEF Lockable
    <2>4. /\ lock' \in [Lockable -> Procs \cup {Nobody}] /\ lock'[u] = p
          /\ \A q \in Procs, r \in Lockable : lock[r] = q => lock'[r] = q
      BY <1>1, <2>1, <2>3, RowsTaken
    <2>5. RequestKnows(p)' /\ RequestLocks(p)'
      BY <2>1, <2>2, <2>4 DEF RequestKnows, RequestLocks
    <2>6. SeesTokens(p)' /\ SeesLink(p)'
      BY <1>1, <2>2 DEF SeesTokens, SeesLink, LiveTokens
    <2>7. Kept(p)'
      BY <2>5, <2>6 DEF Kept
    <2> QED
      BY <1>1, <2>2, <2>4, <2>7, RequestMovesOnly
  <1>6. CASE \E t \in Tokens : LockToken(p, t)
    <2>1. PICK t \in Tokens : LockToken(p, t)
      BY <1>6
    <2> DEFINE u == token[t].user
               at == IF user[u].active THEN "rotate" ELSE "eject"
    <2>2. /\ token[t].live /\ RowsFree({t}) /\ TakeRows(p, {t}) /\ GoTo(p, at, u, t, {}) /\ u \in Users
          /\ at \in {"rotate", "eject"}
      BY <2>1 DEF LockToken, SessionInv, OneLive
    <2> HIDE DEF at
    <2>3. /\ proc' \in [Procs -> ProcRow] /\ \A q \in Procs \ {p} : proc'[q] = proc[q]
          /\ proc'[p] = [at |-> at, user |-> u, row |-> t, rows |-> {}]
      BY <1>2, <2>2
    <2>4. {t} \in SUBSET Lockable
      BY DEF Lockable
    <2>5. /\ lock' \in [Lockable -> Procs \cup {Nobody}] /\ lock'[t] = p
          /\ \A q \in Procs, r \in Lockable : lock[r] = q => lock'[r] = q
      BY <1>1, <2>2, <2>4, RowsTaken
    <2>6. Kept(p)'
      BY <1>1, <2>2, <2>3, <2>5 DEF Kept, RequestKnows, RequestLocks, SeesTokens, SeesLink
    <2> QED
      BY <1>1, <2>3, <2>5, <2>6, RequestMovesOnly
  <1>7. CASE \E l \in Links : LockLink(p, l)
    <2>1. PICK l \in Links : LockLink(p, l)
      BY <1>7
    <2> DEFINE u == link[l].user
    <2>2. /\ link[l].live /\ RowsFree({l}) /\ TakeRows(p, {l}) /\ GoTo(p, "reset", u, l, LiveTokens(u))
          /\ u \in Users
      BY <2>1 DEF LockLink, SessionInv, UsedLinksAreSpent
    <2> HIDE DEF u
    <2>3. /\ proc' \in [Procs -> ProcRow] /\ \A q \in Procs \ {p} : proc'[q] = proc[q]
          /\ proc'[p] = [at |-> "reset", user |-> u, row |-> l, rows |-> LiveTokens(u)]
      BY <1>2, <1>3, <2>2
    <2>4. {l} \in SUBSET Lockable
      BY DEF Lockable
    <2>5. /\ lock' \in [Lockable -> Procs \cup {Nobody}] /\ lock'[l] = p
          /\ \A q \in Procs, r \in Lockable : lock[r] = q => lock'[r] = q
      BY <1>1, <2>2, <2>4, RowsTaken
    <2>6. Kept(p)'
      BY <1>1, <2>2, <2>3, <2>5 DEF Kept, RequestKnows, RequestLocks, SeesTokens, SeesLink
    <2> QED
      BY <1>1, <2>3, <2>5, <2>6, RequestMovesOnly
  <1>8. CASE RevokeSessions(p)
    <2> DEFINE row == [proc[p] EXCEPT !.at = "password"]
    <2>1. /\ proc[p].at = "reset" /\ RowsFree(proc[p].rows) /\ TakeRows(p, proc[p].rows)
          /\ proc' = [proc EXCEPT ![p].at = "password"]
      BY <1>8 DEF RevokeSessions
    <2>2. /\ row \in ProcRow /\ row.at = "password" /\ row.user = proc[p].user
          /\ row.row = proc[p].row /\ row.rows = proc[p].rows
      BY <1>1 DEF ProcRow
    <2>3. /\ proc' \in [Procs -> ProcRow] /\ \A q \in Procs \ {p} : proc'[q] = proc[q] /\ proc'[p] = row
      BY <1>1, <2>1, <2>2
    <2> HIDE DEF row
    <2>4. /\ proc[p].rows \in SUBSET Lockable /\ proc[p].user \in Users /\ proc[p].row \in Links
          /\ lock[proc[p].row] = p /\ link[proc[p].row].live
      BY <1>1, <2>1 DEF ProcRow, Lockable, SessionInv, Kept, RequestKnows, RequestLocks, SeesLink
    <2>5. /\ lock' \in [Lockable -> Procs \cup {Nobody}] /\ \A r \in proc[p].rows : lock'[r] = p
          /\ \A q \in Procs, r \in Lockable : lock[r] = q => lock'[r] = q
      BY <1>1, <2>1, <2>4, RowsTaken
    <2>6. proc'[p] = row /\ lock'[proc[p].row] = p
      BY <1>1, <2>1, <2>4, <2>5 DEF Lockable, row
    <2>7. Kept(p)'
      BY <1>1, <2>2, <2>4, <2>5, <2>6 DEF Kept, RequestKnows, RequestLocks, SeesTokens, SeesLink
    <2> QED
      BY <1>1, <2>3, <2>5, <2>7, RequestMovesOnly
  <1> QED
    BY <1>4, <1>5, <1>6, <1>7, <1>8

\* Tokens are revoked that no other request has locked.
LEMMA TokensRevoked ==
  ASSUME SessionInv, NEW p \in Procs \cup {Nobody}, NEW rows, \A r \in rows : lock[r] \in {p, Nobody},
         token' = [t \in Tokens |-> IF t \in rows THEN [token[t] EXCEPT !.live = FALSE] ELSE token[t]],
         \A q \in Procs \ {p} : proc'[q] = proc[q]
  PROVE  /\ token' \in [Tokens -> TokenRow] /\ OneLive' /\ ParentsRevoked'
         /\ \A q \in Procs \ {p} : SeesTokens(q)'
  <1>1. token \in [Tokens -> TokenRow] /\ \A t \in Tokens : token[t] \in TokenRow
    BY DEF SessionInv, SessionTypes
  <1>2. /\ token' \in [Tokens -> TokenRow]
        /\ \A t \in Tokens : /\ token'[t].user = token[t].user /\ token'[t].parent = token[t].parent
                             /\ token'[t].live <=> token[t].live /\ t \notin rows
    BY <1>1 DEF TokenRow
  <1>3. OneLive'
    BY <1>2 DEF SessionInv, OneLive
  <1>4. ParentsRevoked'
    <2>1. \A t \in Tokens : token[t].parent # Nobody => token[t].parent \in Tokens
      BY <1>1 DEF TokenRow
    <2> QED
      BY <1>2, <2>1 DEF SessionInv, ParentsRevoked
  <1>5. ASSUME NEW q \in Procs \ {p} PROVE SeesTokens(q)'
    <2>1. proc'[q] = proc[q] /\ Kept(q)
      BY DEF SessionInv
    <2>2. proc[q].at = "issue" => LiveTokens(proc[q].user)' \subseteq proc[q].rows
      BY <1>2, <2>1 DEF Kept, SeesTokens, LiveTokens
    <2>3. proc[q].at = "rotate" => proc[q].row \in Tokens /\ proc[q].row \notin rows
      BY <2>1, AccountsAssumption DEF Kept, RequestKnows, RequestLocks
    <2> QED
      BY <1>2, <2>1, <2>2, <2>3 DEF Kept, SeesTokens, LiveTokens
  <1> QED
    BY <1>2, <1>3, <1>4, <1>5

\* A token is inserted while no other login holds the account, in the place
\* of all that live, and of its parent among them.
LEMMA TokensReissued ==
  ASSUME SessionInv, NEW p \in Procs, NEW rows, \A r \in rows : lock[r] \in {p, Nobody},
         NEW u \in Users, lock[u] \in {p, Nobody}, LiveTokens(u) \subseteq rows,
         NEW parent \in Tokens \cup {Nobody}, parent # Nobody => parent \in rows /\ token[parent].live,
         Reissue(rows, u, parent),
         \A q \in Procs \ {p} : proc'[q] = proc[q]
  PROVE  /\ token' \in [Tokens -> TokenRow] /\ OneLive' /\ ParentsRevoked'
         /\ \A q \in Procs \ {p} : SeesTokens(q)'
  <1>1. /\ token \in [Tokens -> TokenRow] /\ \A t \in Tokens : token[t] \in TokenRow
        /\ u # Nobody /\ OneLive /\ ParentsRevoked
    BY AccountsAssumption DEF SessionInv, SessionTypes
  <1>2. PICK n \in Tokens :
            /\ token[n].user = Nobody
            /\ token' = [s \in Tokens |->
                          IF s = n THEN [user |-> u, live |-> TRUE, parent |-> parent]
                          ELSE IF s \in rows THEN [token[s] EXCEPT !.live = FALSE]
                          ELSE token[s]]
    BY DEF Reissue
  <1>3. /\ token' \in [Tokens -> TokenRow]
        /\ token'[n].user = u /\ token'[n].live /\ token'[n].parent = parent
        /\ \A t \in Tokens \ {n} :
             /\ token'[t].user = token[t].user /\ token'[t].parent = token[t].parent
             /\ token'[t].live <=> token[t].live /\ t \notin rows
    <2>1. /\ token'[n] = [user |-> u, live |-> TRUE, parent |-> parent]
          /\ \A t \in Tokens \ {n} :
               token'[t] = IF t \in rows THEN [token[t] EXCEPT !.live = FALSE] ELSE token[t]
      BY <1>2
    <2>2. \A t \in Tokens \ {n} :
             /\ token'[t] \in TokenRow
             /\ token'[t].user = token[t].user /\ token'[t].parent = token[t].parent
             /\ token'[t].live <=> token[t].live /\ t \notin rows
      <3> SUFFICES ASSUME NEW t \in Tokens \ {n}
                   PROVE  /\ token'[t] \in TokenRow
                          /\ token'[t].user = token[t].user /\ token'[t].parent = token[t].parent
                          /\ token'[t].live <=> token[t].live /\ t \notin rows
        OBVIOUS
      <3>1. token[t] \in TokenRow
        BY <1>1
      <3>2. CASE t \in rows
        <4>1. token'[t] = [token[t] EXCEPT !.live = FALSE]
          BY <2>1, <3>2
        <4> QED
          BY <3>1, <3>2, <4>1 DEF TokenRow
      <3>3. CASE t \notin rows
        BY <2>1, <3>1, <3>3
      <3> QED
        BY <3>2, <3>3
    <2>3. /\ token'[n] \in TokenRow
          /\ token'[n].user = u /\ token'[n].live /\ token'[n].parent = parent
      BY <2>1 DEF TokenRow
    <2>4. token' \in [Tokens -> TokenRow]
      <3>1. DOMAIN token' = Tokens /\ token' = [t \in Tokens |-> token'[t]]
        BY <1>2
      <3> QED
        BY <2>2, <2>3, <3>1
    <2> QED
      BY <2>2, <2>3, <2>4
  <1>4. ~token[n].live /\ parent # n /\ \A t \in Tokens : token[t].parent # n
    BY <1>1, <1>2, AccountsAssumption DEF ParentsRevoked
  <1>5. OneLive'
    <2>1. \A t \in Tokens : token'[t].live => token'[t].user \in Users
      BY <1>1, <1>3 DEF OneLive
    <2>2. \A t \in Tokens \ {n} : token'[t].live => token'[t].user # u
      BY <1>3 DEF LiveTokens
    <2>3. \A s, t \in Tokens \ {n} :
             token'[s].live /\ token'[t].live /\ token'[s].user = token'[t].user => s = t
      BY <1>1, <1>3 DEF OneLive
    <2> QED
      BY <1>3, <2>1, <2>2, <2>3 DEF OneLive
  <1>6. ParentsRevoked'
    <2>1. \A t \in Tokens : token'[t].user = Nobody => ~token'[t].live /\ token'[t].parent = Nobody
      BY <1>1, <1>3 DEF ParentsRevoked
    <2>2. \A t \in Tokens : token[t].parent \in Tokens \cup {Nobody}
      BY <1>1 DEF TokenRow
    <2>3. parent # Nobody => token[parent].user # Nobody /\ \A t \in Tokens : token[t].parent # parent
      BY <1>1, AccountsAssumption DEF OneLive, ParentsRevoked
    <2>4. \A t \in Tokens : token'[t].parent # Nobody =>
             token'[token'[t].parent].user # Nobody /\ ~token'[token'[t].parent].live
      <3> SUFFICES ASSUME NEW t \in Tokens, token'[t].parent # Nobody
                   PROVE  token'[token'[t].parent].user # Nobody /\ ~token'[token'[t].parent].live
        OBVIOUS
      <3>1. CASE t = n
        BY <1>3, <1>4, <2>3, <3>1
      <3>2. CASE t # n
        <4>1. token[t].parent \in Tokens \ {n} /\ token'[t].parent = token[t].parent
          BY <1>3, <1>4, <2>2, <3>2
        <4> QED
          BY <1>1, <1>3, <4>1 DEF ParentsRevoked
      <3> QED
        BY <3>1, <3>2
    <2>5. \A s, t \in Tokens : token'[s].parent = token'[t].parent /\ token'[s].parent # Nobody => s = t
      <3>1. \A t \in Tokens \ {n} : token'[t].parent = parent => parent = Nobody
        BY <1>3, <2>3
      <3> QED
        BY <1>1, <1>3, <3>1 DEF ParentsRevoked
    <2> QED
      BY <2>1, <2>4, <2>5 DEF ParentsRevoked
  <1>7. ASSUME NEW q \in Procs \ {p} PROVE SeesTokens(q)'
    <2>1. proc'[q] = proc[q] /\ Kept(q) /\ q # Nobody
      BY AccountsAssumption DEF SessionInv
    <2>2. proc[q].at = "issue" => LiveTokens(proc[q].user)' \subseteq proc[q].rows
      <3>1. proc[q].at = "issue" => proc[q].user # u
        BY <2>1 DEF Kept, RequestLocks
      <3> QED
        BY <1>3, <2>1, <3>1 DEF Kept, SeesTokens, LiveTokens
    <2>3. proc[q].at = "rotate" =>
             token'[proc[q].row].live /\ token'[proc[q].row].user = proc[q].user
      <3> SUFFICES ASSUME proc[q].at = "rotate"
                   PROVE  token'[proc[q].row].live /\ token'[proc[q].row].user = proc[q].user
        OBVIOUS
      <3>1. /\ proc[q].row \in Tokens /\ proc[q].row \notin rows
            /\ token[proc[q].row].live /\ token[proc[q].row].user = proc[q].user
        BY <2>1 DEF Kept, RequestKnows, RequestLocks, SeesTokens
      <3> QED
        BY <1>3, <1>4, <3>1
    <2> QED
      BY <2>1, <2>2, <2>3 DEF SeesTokens, LiveTokens
  <1> QED
    BY <1>3, <1>5, <1>6, <1>7

\* The links stay as they were, and so does what the others know of them.
LEMMA LinksStay ==
  ASSUME SessionInv, NEW p \in Procs \cup {Nobody}, UNCHANGED link,
         \A q \in Procs \ {p} : proc'[q] = proc[q]
  PROVE  /\ link' \in [Links -> LinkRow] /\ UsedLinksAreSpent'
         /\ \A q \in Procs \ {p} : SeesLink(q)'
  BY DEF SessionInv, SessionTypes, UsedLinksAreSpent, Kept, SeesLink

LEMMA TokensStay ==
  ASSUME SessionInv, NEW p \in Procs \cup {Nobody}, UNCHANGED token,
         \A q \in Procs \ {p} : proc'[q] = proc[q]
  PROVE  /\ token' \in [Tokens -> TokenRow] /\ OneLive' /\ ParentsRevoked'
         /\ \A q \in Procs \ {p} : SeesTokens(q)'
  BY DEF SessionInv, SessionTypes, OneLive, ParentsRevoked, Kept, SeesTokens, LiveTokens

\* Links are retired that no other request has locked; a link that sets a
\* password or expires is retired with it.
LEMMA LinksRetired ==
  ASSUME SessionInv, NEW p \in Procs \cup {Nobody}, NEW rows, \A r \in rows : lock[r] \in {p, Nobody},
         link' \in [Links -> LinkRow],
         \A l \in Links :
            \/ link'[l] = link[l] /\ l \notin rows
            \/ /\ l \in rows /\ ~link'[l].live
               /\ link'[l].used = link[l].used \/ (link[l].live /\ link'[l].used = link[l].used + 1)
            \/ /\ ~link[l].live /\ link'[l].user \in Users /\ link'[l].used = 0,
         \A q \in Procs \ {p} : proc'[q] = proc[q]
  PROVE  /\ UsedLinksAreSpent'
         /\ \A q \in Procs \ {p} : SeesLink(q)'
  <1>1. UsedLinksAreSpent'
    <2>1. \A l \in Links : link[l].used \in Nat
      BY DEF SessionInv, SessionTypes, LinkRow
    <2> SUFFICES ASSUME NEW l \in Links
                 PROVE  /\ link'[l].used <= 1
                        /\ link'[l].live => link'[l].user \in Users /\ link'[l].used = 0
      BY DEF UsedLinksAreSpent
    <2>2. /\ link[l].used \in Nat /\ link[l].used <= 1
          /\ link[l].live => link[l].user \in Users /\ link[l].used = 0
      BY <2>1 DEF SessionInv, UsedLinksAreSpent
    <2>3. CASE link'[l] = link[l]
      BY <2>2, <2>3
    <2>4. CASE /\ ~link'[l].live
               /\ link'[l].used = link[l].used \/ (link[l].live /\ link'[l].used = link[l].used + 1)
      BY <2>2, <2>4
    <2>5. CASE link'[l].user \in Users /\ link'[l].used = 0
      BY <2>5
    <2> QED
      BY <2>3, <2>4, <2>5
  <1>2. ASSUME NEW q \in Procs \ {p}, proc'[q].at \in {"reset", "password"}
        PROVE  link'[proc'[q].row].live
    <2>1. /\ proc[q].row \in Links /\ lock[proc[q].row] = q /\ link[proc[q].row].live
          /\ proc'[q] = proc[q] /\ q # Nobody
      BY <1>2, AccountsAssumption DEF SessionInv, Kept, RequestKnows, RequestLocks, SeesLink
    <2> QED
      BY <2>1
  <1> QED
    BY <1>1, <1>2 DEF SeesLink

LEMMA SessionStepsEnd ==
  ASSUME SessionInv, NEW p \in Procs, EndRequest(p)
  PROVE  /\ lock' \in [Lockable -> Procs \cup {Nobody}] /\ proc' \in [Procs -> ProcRow]
         /\ \A q \in Procs \ {p} : proc'[q] = proc[q]
         /\ \A q \in Procs \ {p}, r \in Lockable : lock[r] = q => lock'[r] = q
         /\ p \in Procs => Kept(p)'
  BY RequestEnds, IdleKeeps DEF SessionInv

LEMMA IssueKept ==
  ASSUME SessionInv, NEW p \in Procs, IssueTokens(p)
  PROVE  SessionInv'
  <1>1. /\ proc[p].at = "issue" /\ RowsFree(proc[p].rows) /\ Reissue(proc[p].rows, proc[p].user, Nobody)
        /\ EndRequest(p) /\ UNCHANGED link
    BY DEF IssueTokens
  <1>2. /\ proc[p].user \in Users /\ lock[proc[p].user] = p
        /\ LiveTokens(proc[p].user) \subseteq proc[p].rows
    BY <1>1 DEF SessionInv, Kept, RequestKnows, RequestLocks, SeesTokens
  <1>3. \A r \in proc[p].rows : lock[r] \in {p, Nobody}
    BY <1>1 DEF RowsFree
  <1>4. \A q \in Procs \ {p} : proc'[q] = proc[q]
    BY <1>1, SessionStepsEnd
  <1>5. /\ token' \in [Tokens -> TokenRow] /\ OneLive' /\ ParentsRevoked'
        /\ \A q \in Procs \ {p} : SeesTokens(q)'
    BY <1>1, <1>2, <1>3, <1>4, TokensReissued
  <1>6. /\ link' \in [Links -> LinkRow] /\ UsedLinksAreSpent'
        /\ \A q \in Procs \ {p} : SeesLink(q)'
    BY <1>1, <1>4, LinksStay
  <1> QED
    BY <1>1, <1>5, <1>6, SessionStepsEnd, RequestMoves

LEMMA RotateKept ==
  ASSUME SessionInv, NEW p \in Procs, Rotate(p)
  PROVE  SessionInv'
  <1> DEFINE t == proc[p].row
             u == proc[p].user
  <1>1. /\ proc[p].at = "rotate" /\ RowsFree({u}) /\ Reissue({t}, u, t)
        /\ EndRequest(p) /\ UNCHANGED link
    BY DEF Rotate
  <1>2. u \in Users /\ t \in Tokens /\ lock[t] = p /\ token[t].live /\ token[t].user = u
    BY <1>1 DEF SessionInv, Kept, RequestKnows, RequestLocks, SeesTokens
  <1>3. lock[u] \in {p, Nobody} /\ \A r \in {t} : lock[r] \in {p, Nobody}
    BY <1>1, <1>2 DEF RowsFree
  <1>4. LiveTokens(u) \subseteq {t}
    BY <1>2 DEF SessionInv, OneLive, LiveTokens
  <1>5. \A q \in Procs \ {p} : proc'[q] = proc[q]
    BY <1>1, SessionStepsEnd
  <1> HIDE DEF t, u
  <1>6. /\ token' \in [Tokens -> TokenRow] /\ OneLive' /\ ParentsRevoked'
        /\ \A q \in Procs \ {p} : SeesTokens(q)'
    BY <1>1, <1>2, <1>3, <1>4, <1>5, TokensReissued
  <1>7. /\ link' \in [Links -> LinkRow] /\ UsedLinksAreSpent'
        /\ \A q \in Procs \ {p} : SeesLink(q)'
    BY <1>1, <1>5, LinksStay
  <1> QED
    BY <1>1, <1>6, <1>7, SessionStepsEnd, RequestMoves

LEMMA EjectKept ==
  ASSUME SessionInv, NEW p \in Procs, Eject(p)
  PROVE  SessionInv'
  <1>1. /\ proc[p].at = "eject" /\ token' = [token EXCEPT ![proc[p].row].live = FALSE]
        /\ EndRequest(p) /\ UNCHANGED link
    BY DEF Eject
  <1>2. lock[proc[p].row] = p
    BY <1>1 DEF SessionInv, Kept, RequestLocks
  <1>3. token' = [t \in Tokens |-> IF t \in {proc[p].row} THEN [token[t] EXCEPT !.live = FALSE] ELSE token[t]]
    BY <1>1 DEF SessionInv, SessionTypes
  <1>4. \A q \in Procs \ {p} : proc'[q] = proc[q]
    BY <1>1, SessionStepsEnd
  <1>5. /\ token' \in [Tokens -> TokenRow] /\ OneLive' /\ ParentsRevoked'
        /\ \A q \in Procs \ {p} : SeesTokens(q)'
    BY <1>2, <1>3, <1>4, TokensRevoked
  <1>6. /\ link' \in [Links -> LinkRow] /\ UsedLinksAreSpent'
        /\ \A q \in Procs \ {p} : SeesLink(q)'
    BY <1>1, <1>4, LinksStay
  <1> QED
    BY <1>1, <1>5, <1>6, SessionStepsEnd, RequestMoves

LEMMA MailLinkKept ==
  ASSUME SessionInv, NEW p \in Procs, MailLink(p)
  PROVE  SessionInv'
  <1> DEFINE u == proc[p].user
             rows == proc[p].rows
  <1>1. PICK n \in Links :
            /\ link[n].user = Nobody
            /\ link' = [k \in Links |->
                          IF k = n THEN [user |-> u, live |-> TRUE, used |-> 0]
                          ELSE IF k \in rows THEN [link[k] EXCEPT !.live = FALSE]
                          ELSE link[k]]
            /\ proc[p].at = "mail" /\ RowsFree(rows \cup {u}) /\ EndRequest(p) /\ UNCHANGED token
    BY DEF MailLink
  <1>2. /\ u \in Users /\ link \in [Links -> LinkRow] /\ \A k \in Links : link[k] \in LinkRow
        /\ \A r \in rows : lock[r] \in {p, Nobody}
    BY <1>1 DEF SessionInv, SessionTypes, Kept, RequestKnows, RowsFree
  <1>3. ~link[n].live
    BY <1>1, AccountsAssumption DEF SessionInv, UsedLinksAreSpent
  <1> HIDE DEF u, rows
  <1>4. /\ link' \in [Links -> LinkRow]
        /\ link'[n].user = u /\ link'[n].used = 0
        /\ \A k \in Links \ {n} : IF k \in rows THEN ~link'[k].live /\ link'[k].used = link[k].used
                                                ELSE link'[k] = link[k]
    BY <1>1, <1>2 DEF LinkRow
  <1>5. \A q \in Procs \ {p} : proc'[q] = proc[q]
    BY <1>1, SessionStepsEnd
  <1>6. UsedLinksAreSpent' /\ \A q \in Procs \ {p} : SeesLink(q)'
    <2>1. \A k \in Links :
             \/ link'[k] = link[k] /\ k \notin rows
             \/ /\ k \in rows /\ ~link'[k].live
                /\ link'[k].used = link[k].used \/ (link[k].live /\ link'[k].used = link[k].used + 1)
             \/ /\ ~link[k].live /\ link'[k].user \in Users /\ link'[k].used = 0
      BY <1>2, <1>3, <1>4
    <2> QED
      BY <1>2, <1>4, <1>5, <2>1, LinksRetired
  <1>7. /\ token' \in [Tokens -> TokenRow] /\ OneLive' /\ ParentsRevoked'
        /\ \A q \in Procs \ {p} : SeesTokens(q)'
    BY <1>1, <1>5, TokensStay
  <1> QED
    BY <1>1, <1>4, <1>6, <1>7, SessionStepsEnd, RequestMoves

LEMMA SetPasswordKept ==
  ASSUME SessionInv, NEW p \in Procs, SetPassword(p)
  PROVE  SessionInv'
  <1> DEFINE l == proc[p].row
             rows == proc[p].rows
  <1>1. /\ proc[p].at = "password" /\ EndRequest(p)
        /\ token' = [t \in Tokens |-> IF t \in rows THEN [token[t] EXCEPT !.live = FALSE] ELSE token[t]]
        /\ link' = [link EXCEPT ![l].live = FALSE, ![l].used = @ + 1]
    BY DEF SetPassword
  <1>2. /\ l \in Links /\ link[l].live /\ lock[l] = p
        /\ link \in [Links -> LinkRow] /\ link[l] \in LinkRow
        /\ \A r \in rows : lock[r] \in {p, Nobody}
    BY <1>1 DEF SessionInv, SessionTypes, Kept, RequestKnows, RequestLocks, SeesLink
  <1> HIDE DEF l, rows
  <1>3. \A q \in Procs \ {p} : proc'[q] = proc[q]
    BY <1>1, SessionStepsEnd
  <1>4. /\ token' \in [Tokens -> TokenRow] /\ OneLive' /\ ParentsRevoked'
        /\ \A q \in Procs \ {p} : SeesTokens(q)'
    BY <1>1, <1>2, <1>3, TokensRevoked
  <1>5. /\ link' \in [Links -> LinkRow] /\ ~link'[l].live /\ link'[l].used = link[l].used + 1
        /\ \A k \in Links \ {l} : link'[k] = link[k]
    <2>1. link'[l] = [link[l] EXCEPT !.live = FALSE, !.used = link[l].used + 1]
      BY <1>1, <1>2 DEF LinkRow
    <2>2. link[l].used + 1 \in Nat
      BY <1>2 DEF LinkRow
    <2>3. link'[l] \in LinkRow /\ ~link'[l].live /\ link'[l].used = link[l].used + 1
      BY <1>2, <2>1, <2>2 DEF LinkRow
    <2> QED
      BY <1>1, <1>2, <2>3
  <1>6. UsedLinksAreSpent' /\ \A q \in Procs \ {p} : SeesLink(q)'
    <2>1. \A k \in Links :
             \/ link'[k] = link[k] /\ k \notin {l}
             \/ /\ k \in {l} /\ ~link'[k].live
                /\ link'[k].used = link[k].used \/ (link[k].live /\ link'[k].used = link[k].used + 1)
             \/ /\ ~link[k].live /\ link'[k].user \in Users /\ link'[k].used = 0
      BY <1>2, <1>5
    <2>2. \A r \in {l} : lock[r] \in {p, Nobody}
      BY <1>2
    <2> QED
      BY <1>3, <1>5, <2>1, <2>2, LinksRetired
  <1> QED
    BY <1>1, <1>4, <1>5, <1>6, SessionStepsEnd, RequestMoves

\* A logout and the two expiries take rows nobody has locked.
LEMMA RowsExpire ==
  ASSUME SessionInv, (\E t \in Tokens : Logout(t)) \/ (\E l \in Links : LinkExpires(l))
  PROVE  SessionInv'
  <1>1. /\ UNCHANGED <<lock, proc>> /\ lock \in [Lockable -> Procs \cup {Nobody}]
        /\ proc \in [Procs -> ProcRow] /\ Nobody \notin Procs
        /\ token \in [Tokens -> TokenRow] /\ link \in [Links -> LinkRow]
    BY AccountsAssumption DEF SessionInv, SessionTypes, Logout, LinkExpires
  <1>2. CASE \E t \in Tokens : Logout(t)
    <2>1. PICK t \in Tokens : /\ lock[t] = Nobody /\ token' = [token EXCEPT ![t].live = FALSE]
                              /\ UNCHANGED link
      BY <1>2 DEF Logout, RowsFree
    <2>2. token' = [s \in Tokens |-> IF s \in {t} THEN [token[s] EXCEPT !.live = FALSE] ELSE token[s]]
      BY <1>1, <2>1
    <2>3. /\ token' \in [Tokens -> TokenRow] /\ OneLive' /\ ParentsRevoked'
          /\ \A q \in Procs \ {Nobody} : SeesTokens(q)'
      BY <1>1, <2>1, <2>2, TokensRevoked
    <2>4. /\ link' \in [Links -> LinkRow] /\ UsedLinksAreSpent'
          /\ \A q \in Procs \ {Nobody} : SeesLink(q)'
      BY <1>1, <2>1, LinksStay
    <2> QED
      BY <1>1, <2>3, <2>4, RequestMoves
  <1>3. CASE \E l \in Links : LinkExpires(l)
    <2>1. PICK l \in Links : /\ lock[l] = Nobody /\ link' = [link EXCEPT ![l].live = FALSE]
                             /\ UNCHANGED token
      BY <1>3 DEF LinkExpires, RowsFree
    <2>2. link[l] \in LinkRow /\ link'[l] = [link[l] EXCEPT !.live = FALSE]
      BY <1>1, <2>1
    <2>3. /\ link'[l] \in LinkRow /\ ~link'[l].live /\ link'[l].used = link[l].used
          /\ \A k \in Links \ {l} : link'[k] = link[k]
      BY <1>1, <2>1, <2>2 DEF LinkRow
    <2>4. link' \in [Links -> LinkRow]
      BY <1>1, <2>1, <2>3
    <2>5. \A k \in Links :
             \/ link'[k] = link[k] /\ k \notin {l}
             \/ /\ k \in {l} /\ ~link'[k].live
                /\ link'[k].used = link[k].used \/ (link[k].live /\ link'[k].used = link[k].used + 1)
             \/ /\ ~link[k].live /\ link'[k].user \in Users /\ link'[k].used = 0
      BY <2>3
    <2>6. UsedLinksAreSpent' /\ \A q \in Procs \ {Nobody} : SeesLink(q)'
      <3>1. \A r \in {l} : lock[r] \in {Nobody, Nobody}
        BY <2>1
      <3>2. \A q \in Procs \ {Nobody} : proc'[q] = proc[q]
        BY <1>1
      <3> QED
        BY <2>4, <2>5, <3>1, <3>2, LinksRetired
    <2>7. /\ token' \in [Tokens -> TokenRow] /\ OneLive' /\ ParentsRevoked'
          /\ \A q \in Procs \ {Nobody} : SeesTokens(q)'
      BY <1>1, <2>1, TokensStay
    <2> QED
      BY <1>1, <2>4, <2>6, <2>7, RequestMoves
  <1> QED
    BY <1>2, <1>3

LEMMA AbortKept ==
  ASSUME SessionInv, NEW p \in Procs, NEW q \in Procs, AbortDeadlock(p, q)
  PROVE  SessionInv'
  <1>1. PICK victim \in Procs : EndRequest(victim) /\ UNCHANGED <<token, link>>
    BY DEF AbortDeadlock
  <1> QED
    BY <1>1, SessionStepsEnd, RequestMovesOnly

LEMMA StepSessions == SessionInv /\ [AccNext]_accVars => SessionInv'
  <1> SUFFICES ASSUME SessionInv, [AccNext]_accVars PROVE SessionInv'
    OBVIOUS
  <1>1. ASSUME NEW p \in Procs,
               \/ AccStep(p)
               \/ \E u \in Users : Authenticate(p, u) \/ Forget(p, u)
               \/ \E t \in Tokens : LockToken(p, t)
               \/ \E l \in Links : LockLink(p, l)
        PROVE  SessionInv'
    BY <1>1, BeginningsKept, IssueKept, RotateKept, EjectKept, MailLinkKept, SetPasswordKept, AbortKept
       DEF AccStep
  <1>2. CASE (\E t \in Tokens : Logout(t)) \/ (\E l \in Links : LinkExpires(l))
    BY <1>2, RowsExpire
  <1>3. CASE \/ \E u \in Users :
                  \/ DeactivateStaff(u) \/ ReactivateStaff(u)
                  \/ \E e \in Emails : CreateRestaurant(u, e) \/ ChangeEmail(u, e)
                  \/ \E role \in {"ADMIN", "WAITER"} :
                       \/ ChangeRole(u, role)
                       \/ \E e \in Emails : CreateStaff(u, e, role)
             \/ SwitchRestaurant
             \/ UNCHANGED accVars
    <2>1. UNCHANGED <<token, link, lock, proc>>
      BY <1>3 DEF DeactivateStaff, ReactivateStaff, CreateRestaurant, ChangeEmail, ChangeRole, CreateStaff,
                  SwitchRestaurant, accVars
    <2> QED
      BY <2>1 DEF SessionInv, SessionTypes, Kept, RequestKnows, RequestLocks, SeesTokens, SeesLink,
                  LiveTokens, OneLive, ParentsRevoked, UsedLinksAreSpent
  <1> QED
    BY <1>1, <1>2, <1>3 DEF AccNext

(***************************************************************************)
(* For any number of accounts, devices and overlapping requests: an        *)
(* account has at most one live session, and a token one successor.        *)
(***************************************************************************)
THEOREM AccountsHaveOneSession == AccSpec => []OneSession
  <1>1. SessionInv => OneSession
    <2> SUFFICES ASSUME SessionInv PROVE OneSession
      OBVIOUS
    <2>1. ASSUME NEW u \in Users PROVE Cardinality(LiveTokens(u)) <= 1
      <3>1. CASE LiveTokens(u) = {}
        BY <3>1, FS_EmptySet
      <3>2. CASE LiveTokens(u) # {}
        <4>1. PICK t \in LiveTokens(u) : TRUE
          BY <3>2
        <4>2. LiveTokens(u) = {t}
          BY <4>1 DEF SessionInv, OneLive, LiveTokens
        <4> QED
          BY <4>2, FS_Singleton
      <3> QED
        BY <3>1, <3>2
    <2> QED
      BY <2>1 DEF OneSession, SessionInv, ParentsRevoked
  <1> QED
    BY <1>1, InitSessions, StepSessions, PTL DEF AccSpec

(***************************************************************************)
(* However many resets and newer links there are, a reset link sets a      *)
(* password once.                                                          *)
(***************************************************************************)
THEOREM ResetLinksWorkOnce == AccSpec => []LinkUsedOnce
  <1>1. SessionInv => LinkUsedOnce
    BY DEF SessionInv, UsedLinksAreSpent, LinkUsedOnce
  <1> QED
    BY <1>1, InitSessions, StepSessions, PTL DEF AccSpec

=============================================================================
