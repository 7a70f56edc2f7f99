-------------------------------- MODULE Menu --------------------------------
(***************************************************************************)
(* The menu of one restaurant (menu_service): a tree of categories that    *)
(* administrators create, move, hide, show and delete, its products, and   *)
(* the page the guests get: the tree and today's specials, as of one       *)
(* moment.  Deleting is a flag; no row goes away.                          *)
(*                                                                         *)
(* A re-parenting request checks the tree with several SELECTs and takes   *)
(* no lock, so other requests commit between its check and its commit; the *)
(* columns it did not change are not written.  The other handlers change   *)
(* one row they do not depend on, in one step.                             *)
(***************************************************************************)
EXTENDS Naturals, FiniteSets

CONSTANTS
    Cats, Prods,        \* categories and products rows
    Movers,             \* re-parenting requests served at the same time
    MaxDepth,           \* _MAX_CATEGORY_DEPTH
    NoCat

ASSUME MenuAssumption == IsFiniteSet(Cats) /\ NoCat \notin Cats

VARIABLES
    cat,                \* [Cats -> [made, parent, active, available]]
    prod,               \* [Prods -> [cat, active, available, special]]; no category before the insert
    move                \* [Movers -> [cat, parent]], a checked move that is not yet committed

mnVars == <<cat, prod, move>>

NoMove == [cat |-> NoCat, parent |-> NoCat]

MnInit ==
    /\ cat = [c \in Cats |-> [made |-> FALSE, parent |-> NoCat, active |-> FALSE, available |-> FALSE]]
    /\ prod = [x \in Prods |-> [cat |-> NoCat, active |-> FALSE, available |-> FALSE, special |-> FALSE]]
    /\ move = [m \in Movers |-> NoMove]

\* Where a walk over the tree ends that starts with the set `from'.
Reached(from, step) ==
    LET N == Cardinality(Cats)
        level[n \in 0 .. N] == IF n = 0 THEN from ELSE step[level[n - 1]]
    IN  level[N]

\* The categories on the way up from c, c included.
Ancestors(c) == Reached({c}, [X \in SUBSET Cats |-> X \cup ({cat[d].parent : d \in X} \ {NoCat})])

\* The walk meets c again.
OnCycle(c) == \E d \in Ancestors(c) : cat[d].parent = c

\* _depth_of: one for a root; on a cycle the walk counts one step more.
DepthOf(c) == Cardinality(Ancestors(c)) + IF \E d \in Ancestors(c) : OnCycle(d) THEN 1 ELSE 0

\* _descendant_ids
Descendants(c) == {d \in Cats : cat[d].parent # NoCat /\ c \in Ancestors(cat[d].parent)}

\* No parent, or an active one that is not too deep.
ParentAllowed(p) == IF p = NoCat THEN TRUE ELSE cat[p].active /\ DepthOf(p) < MaxDepth

-----------------------------------------------------------------------------
(* Categories *)

CreateCategory(c, p, available) ==
    /\ ~cat[c].made
    /\ ParentAllowed(p)
    /\ cat' = [cat EXCEPT ![c] = [made |-> TRUE, parent |-> p, active |-> TRUE, available |-> available]]
    /\ UNCHANGED <<prod, move>>

\* update_category with parent_id_set: all the checks ...
CheckMove(m, c, p) ==
    /\ move[m] = NoMove
    /\ cat[c].made /\ p # c /\ p # cat[c].parent
    /\ p \notin Descendants(c)
    /\ ParentAllowed(p)
    /\ move' = [move EXCEPT ![m] = [cat |-> c, parent |-> p]]
    /\ UNCHANGED <<cat, prod>>

\* ... and the commit, which writes the parent.
CommitMove(m) ==
    /\ move[m] # NoMove
    /\ cat' = [cat EXCEPT ![move[m].cat].parent = move[m].parent]
    /\ move' = [move EXCEPT ![m] = NoMove]
    /\ UNCHANGED prod

\* update_category with is_available = false hides the category's products too.
HideCategory(c) ==
    /\ cat[c].available
    /\ cat' = [cat EXCEPT ![c].available = FALSE]
    /\ prod' = [x \in Prods |-> IF prod[x].cat = c THEN [prod[x] EXCEPT !.available = FALSE]
                                ELSE prod[x]]
    /\ UNCHANGED move

\* Showing it again leaves them hidden.
ShowCategory(c) ==
    /\ cat[c].made /\ ~cat[c].available
    /\ cat' = [cat EXCEPT ![c].available = TRUE]
    /\ UNCHANGED <<prod, move>>

DeleteCategory(c) ==
    /\ cat[c].active
    /\ cat' = [cat EXCEPT ![c].active = FALSE]
    /\ UNCHANGED <<prod, move>>

-----------------------------------------------------------------------------
(* Products *)

\* create_product: the category need not be active.
CreateProduct(x, c, available) ==
    /\ prod[x].cat = NoCat
    /\ cat[c].made
    /\ prod' = [prod EXCEPT ![x] = [cat |-> c, active |-> TRUE, available |-> available,
                                  special |-> FALSE]]
    /\ UNCHANGED <<cat, move>>

\* update_product: another category, shown or hidden, a special or not; a
\* deleted category too.
UpdateProduct(x, c, available, special) ==
    /\ prod[x].cat # NoCat
    /\ cat[c].made
    /\ prod' = [prod EXCEPT ![x].cat = c, ![x].available = available, ![x].special = special]
    /\ UNCHANGED <<cat, move>>

DeleteProduct(x) ==
    /\ prod[x].active
    /\ prod' = [prod EXCEPT ![x].active = FALSE]
    /\ UNCHANGED <<cat, move>>

-----------------------------------------------------------------------------
(* The page the guests get *)

\* The categories the query of get_customer_menu returns.
Listed(c) == cat[c].active /\ cat[c].available

ChildrenOf(c) == {d \in Cats : Listed(d) /\ cat[d].parent = c}

\* _public_products
PublicProducts(c) == {x \in Prods : prod[x].cat = c /\ prod[x].active /\ prod[x].available}

\* Mutant: a category whose parent is not on the page moves to the top.
RerootedRoots ==
    {c \in Cats : Listed(c) /\ (cat[c].parent = NoCat \/ ~Listed(cat[c].parent))}

Roots == {c \in Cats : Listed(c) /\ cat[c].parent = NoCat}

\* The nodes `build' visits, and those it does not prune.
MenuTree ==
    LET built == Reached(Roots, [X \in SUBSET Cats |-> X \cup UNION {ChildrenOf(c) : c \in X}])
        full == Reached({c \in Cats : PublicProducts(c) # {}},
                        [X \in SUBSET Cats |-> X \cup {c \in Cats : ChildrenOf(c) \cap X # {}}])
    IN  built \cap full

MenuProducts == UNION {PublicProducts(c) : c \in MenuTree}

\* get_todays_specials: no category is looked at.
Specials == {x \in Prods : prod[x].special /\ prod[x].active /\ prod[x].available}

PageProducts == MenuProducts \cup Specials

-----------------------------------------------------------------------------
MnNext ==
    \/ \E c \in Cats, p \in Cats \cup {NoCat} :
         \/ \E available \in BOOLEAN : CreateCategory(c, p, available)
         \/ \E m \in Movers : CheckMove(m, c, p)
    \/ \E m \in Movers : CommitMove(m)
    \/ \E c \in Cats : HideCategory(c) \/ ShowCategory(c) \/ DeleteCategory(c)
    \/ \E x \in Prods :
         \/ DeleteProduct(x)
         \/ \E c \in Cats, available \in BOOLEAN :
              \/ CreateProduct(x, c, available)
              \/ \E special \in BOOLEAN : UpdateProduct(x, c, available, special)

MnSpec == MnInit /\ [][MnNext]_mnVars

-----------------------------------------------------------------------------
(* Properties *)

(***************************************************************************)
(* get_customer_menu: a product is in the tree exactly when it and every   *)
(* category above it, up to a root, are active and available ("hiding a    *)
(* parent hides its whole subtree"), and a category is there exactly when  *)
(* such a product is in or below it: whatever the tree has become.  The    *)
(* page has no other products but specials that are not deactivated or     *)
(* hidden themselves; what is above those does not count.                  *)
(***************************************************************************)
MenuShowsWhatIsLive ==
    LET Open(c) == (\A d \in Ancestors(c) : Listed(d)) /\ \E d \in Ancestors(c) : cat[d].parent = NoCat
        Offered == {x \in Prods : prod[x].cat # NoCat /\ prod[x].active /\ prod[x].available}
        Live == {x \in Offered : Open(prod[x].cat)}
    IN  /\ MenuProducts = Live
        /\ MenuTree = UNION {Ancestors(prod[x].cat) : x \in Live}
        /\ PageProducts = {x \in Offered : prod[x].special \/ x \in Live}

=============================================================================
