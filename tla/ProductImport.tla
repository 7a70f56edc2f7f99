--------------------------- MODULE ProductImport ---------------------------
(***************************************************************************)
(* The import of a CSV file into the menu (product_import_service).  The   *)
(* commit parses and plans the file against the live menu, reads the       *)
(* categories again, builds the rows one by one and commits them together; *)
(* other imports and the menu editor go on meanwhile, and nothing is       *)
(* locked.  Names stand for what stripping and lower-casing leaves, and a  *)
(* category or product is known by its names and by who made it.           *)
(***************************************************************************)
EXTENDS FiniteSets

CONSTANTS
    CatNames, ProdNames,
    Imports,            \* requests served at the same time
    Editor              \* who makes a category by hand

ASSUME ImportAssumption == Editor \notin Imports

VARIABLES
    cats,               \* categories rows, [name, by]
    gone,               \* the deleted ones
    prods,              \* products rows, [cat, name, by]
    imp                 \* [Imports -> [at, plan, target, built]]

imVars == <<cats, gone, prods, imp>>

\* What a row of the file may hold; bad: some field does not pass ProductCreate.
FileRow == [cat: CatNames, name: ProdNames, bad: BOOLEAN]

NoImport == [at |-> "idle", plan |-> {}, target |-> {}, built |-> {}]

ImInit ==
    /\ cats = {}
    /\ gone = {}
    /\ prods = {}
    /\ imp = [i \in Imports |-> NoImport]

ActiveCategories == cats \ gone

\* Live products of live categories, by name.
ExistingProductKeys == {<<p.cat.name, p.name>> : p \in {q \in prods : q.cat \in ActiveCategories}}

NamesOf(rows) == {r.name : r \in rows}

-----------------------------------------------------------------------------
\* The plan: the pairs of the file that are not on the menu.  The categories
\* no active one has the name of will be new.  One bad row refuses the file.
Plan(i, file) ==
    /\ imp[i].at = "idle"
    /\ \A r \in file : ~r.bad
    /\ LET pairs == {<<r.cat, r.name>> : r \in file}
       IN  imp' = [imp EXCEPT ![i] =
                    [at |-> "read", plan |-> pairs \ ExistingProductKeys, built |-> {},
                     target |-> {[name |-> n, by |-> i] :
                                    n \in {r.cat : r \in file} \ NamesOf(ActiveCategories)}]]
    /\ UNCHANGED <<cats, gone, prods>>

\* category_by_norm: one active category per name, as they are now; the new
\* ones take their names over.
ReadCategories(i) ==
    /\ imp[i].at = "read"
    /\ \E found \in SUBSET {c \in ActiveCategories : c.name \notin NamesOf(imp[i].target)} :
         /\ \A c, d \in found : c.name = d.name => c = d
         /\ NamesOf(found) = NamesOf(ActiveCategories) \ NamesOf(imp[i].target)
         /\ imp' = [imp EXCEPT ![i].at = "write", ![i].target = @ \cup found]
    /\ UNCHANGED <<cats, gone, prods>>

\* The pairs still to be built.
Left(i) == imp[i].plan \ {<<p.cat.name, p.name>> : p \in imp[i].built}

\* Mutant: create_product, which commits, in the place of build_product.
BuildAndCommit(i) ==
    /\ imp[i].at = "write"
    /\ \E pair \in Left(i), c \in imp[i].target :
         /\ c.name = pair[1]
         /\ imp' = [imp EXCEPT ![i].built = @ \cup {[cat |-> c, name |-> pair[2], by |-> i]}]
         /\ prods' = prods \cup {[cat |-> c, name |-> pair[2], by |-> i]}
         /\ cats' = cats \cup {c}
    /\ UNCHANGED gone

BuildProduct(i) ==
    /\ imp[i].at = "write"
    /\ \E pair \in Left(i), c \in imp[i].target :
         /\ c.name = pair[1]
         /\ imp' = [imp EXCEPT ![i].built = @ \cup {[cat |-> c, name |-> pair[2], by |-> i]}]
    /\ UNCHANGED <<cats, gone, prods>>

CommitImport(i) ==
    /\ imp[i].at = "write"
    /\ Left(i) = {}
    /\ cats' = cats \cup imp[i].target
    /\ prods' = prods \cup imp[i].built
    /\ imp' = [imp EXCEPT ![i].at = "done"]
    /\ UNCHANGED gone

\* Rollback: a category of the plan has gone meanwhile (KeyError), or the
\* database or the process fails.
RollBack(i) ==
    /\ imp[i].at \in {"read", "write"}
    /\ imp' = [imp EXCEPT ![i] = NoImport]
    /\ UNCHANGED <<cats, gone, prods>>

\* The menu editor makes and deletes categories.
EditCategory(n) ==
    /\ LET c == [name |-> n, by |-> Editor]
       IN  c \notin cats /\ cats' = cats \cup {c}
    /\ UNCHANGED <<gone, prods, imp>>

DropCategory(c) ==
    /\ c \in ActiveCategories
    /\ gone' = gone \cup {c}
    /\ UNCHANGED <<cats, prods, imp>>

-----------------------------------------------------------------------------
ImNext ==
    \/ \E i \in Imports :
         \/ \E file \in SUBSET FileRow : Plan(i, file)
         \/ ReadCategories(i) \/ BuildProduct(i) \/ CommitImport(i) \/ RollBack(i)
    \/ \E n \in CatNames : EditCategory(n)
    \/ \E c \in cats : DropCategory(c)

ImSpec == ImInit /\ [][ImNext]_imVars

-----------------------------------------------------------------------------
(***************************************************************************)
(* "creates the categories and products in one transaction (all-or-        *)
(* nothing)": whatever fails, is deleted or is imported meanwhile, an      *)
(* import has left either every product of its plan, each in a category of *)
(* the name the file gives it, or nothing.                                 *)
(***************************************************************************)
AllOrNothing ==
    \A i \in Imports :
        LET mine == {p \in prods : p.by = i}
        IN  /\ {c \in cats : c.by = i} # {} \/ mine # {} => imp[i].at = "done"
            /\ imp[i].at = "done" =>
                 /\ {<<p.cat.name, p.name>> : p \in mine} = imp[i].plan
                 /\ \A p \in mine : p.cat \in cats

=============================================================================
