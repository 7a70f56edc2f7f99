---------------------------- MODULE MCBackoffice ----------------------------
(***************************************************************************)
(* TLC instances of what the administrators work on.  The parts share no   *)
(* row, so a behaviour is one of one of them, `office', while the others   *)
(* stay as they start: a run explores the disjoint union of their states.  *)
(***************************************************************************)
EXTENDS Accounts, PushDevices, Menu, ProductImport, MenuSettings, TLC

VARIABLE office

officeVars == <<office, accVars, pdVars, mnVars, imVars, msVars>>

OfficeInit ==
    /\ office \in {"accounts", "devices", "menu", "import", "settings"}
    /\ AccInit /\ PdInit /\ MnInit /\ ImInit /\ MsInit

AccountsNext ==
    office = "accounts" /\ AccNext /\ UNCHANGED <<office, pdVars, mnVars, imVars, msVars>>
DevicesNext ==
    office = "devices" /\ PdNext /\ UNCHANGED <<office, accVars, mnVars, imVars, msVars>>
MenuNext ==
    office = "menu" /\ MnNext /\ UNCHANGED <<office, accVars, pdVars, imVars, msVars>>
ImportNext ==
    office = "import" /\ ImNext /\ UNCHANGED <<office, accVars, pdVars, mnVars, msVars>>
SettingsNext ==
    office = "settings" /\ MsNext /\ UNCHANGED <<office, accVars, pdVars, mnVars, imVars>>

OfficeNext ==
    AccountsNext \/ DevicesNext \/ MenuNext \/ ImportNext \/ SettingsNext

OfficeSpec == OfficeInit /\ [][OfficeNext]_officeVars

\* Rows and requests may be permuted.  The sets of different parts are given
\* the same values, so that few permutations serve all of them.
Symmetry == UNION {Permutations(S) : S \in {Tokens, Procs, Users}}

=============================================================================
