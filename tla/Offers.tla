------------------------------- MODULE Offers -------------------------------
(***************************************************************************)
(* One "dead hours" offer edited by several administrators (offer_service; *)
(* its prices are in Pricing).  A request reads the offer, then writes the *)
(* columns that differ from what it read, deletes the product rows it read *)
(* and inserts its own.  The UPDATE takes the row until the commit, so the *)
(* write is one action; the CHECK on the target may refuse it.  Discount,  *)
(* hours and name are columns like `enabled' and are left out.             *)
(***************************************************************************)
EXTENDS Naturals, FiniteSets

CONSTANTS
    Goods, Groups,      \* products and categories an offer may name
    Editors,            \* requests served at the same time
    Copies,             \* bound: rows of one product that are alive or remembered
    NoGroup

ASSUME OffersAssumption == Copies \in Nat \ {0}

VARIABLES
    offer,              \* the columns of the row
    links,              \* its product rows, [id, good]
    edit                \* [Editors -> [at, form, seen, seenLinks]]

ofVars == <<offer, links, edit>>

Forms ==
    {f \in [to: {"CATEGORY", "PRODUCTS"}, group: Groups \cup {NoGroup}, goods: SUBSET Goods,
            enabled: BOOLEAN] :
        /\ f.to = "CATEGORY" <=> f.group # NoGroup
        /\ f.to = "CATEGORY" <=> f.goods = {}}

Columns(f, active) == [to |-> f.to, group |-> f.group, enabled |-> f.enabled, active |-> active]

\* ck_offer_windows_target
Checked(o) == o.to = "CATEGORY" <=> o.group # NoGroup

NoForm == [to |-> "PRODUCTS", group |-> NoGroup, goods |-> {}, enabled |-> FALSE]

Quiet == [at |-> "idle", form |-> NoForm, seen |-> Columns(NoForm, FALSE), seenLinks |-> {}]

\* create_offer: the rows of a validated form.
OfInit ==
    /\ \E f \in Forms :
         /\ offer = Columns(f, TRUE)
         /\ links = {[id |-> 1, good |-> g] : g \in f.goods}
    /\ edit = [e \in Editors |-> Quiet]

-----------------------------------------------------------------------------
(* Requests *)

\* _get_or_404, for a form (update_offer), or for the switch and the deletion.
ReadOffer(e, at, f) ==
    /\ edit[e] = Quiet
    /\ offer.active
    /\ edit' = [edit EXCEPT ![e] = [at |-> at, form |-> f, seen |-> offer, seenLinks |-> links]]
    /\ UNCHANGED <<offer, links>>

\* What the UPDATE leaves: `wanted' where it differs from what e has read.
Merged(e, wanted) ==
    [c \in DOMAIN offer |-> IF wanted[c] # edit[e].seen[c] THEN wanted[c] ELSE offer[c]]

\* Row ids of product g that are alive or that a request remembers.
KnownIds(g) ==
    {l.id : l \in {k \in links \cup UNION {edit[e].seenLinks : e \in Editors} : k.good = g}}

\* A row of product g nobody has seen.
FreshLink(g) == [id |-> CHOOSE n \in 1 .. Copies : n \notin KnownIds(g), good |-> g]

\* Mutant: the new rows are added before the old ones are deleted, by product.
AddThenRemove(e, added) ==
    {l \in links \cup added : l.good \notin {k.good : k \in edit[e].seenLinks}}

\* _replace_products: deletes the rows read, then inserts.
ReplaceProducts(e, added) == (links \ edit[e].seenLinks) \cup added

\* update_offer; a refused write ends in a rollback.
UpdateOffer(e) ==
    LET wanted == Columns(edit[e].form, edit[e].seen.active)
        goods == edit[e].form.goods
        left == {l.good : l \in links \ edit[e].seenLinks}
    IN  /\ edit[e].at = "update"
        /\ \A g \in goods : 1 .. Copies \ KnownIds(g) # {}
        /\ edit' = [edit EXCEPT ![e] = Quiet]
        /\ \/ /\ Checked(Merged(e, wanted)) /\ goods \cap left = {}
              /\ offer' = Merged(e, wanted)
              /\ links' = ReplaceProducts(e, {FreshLink(g) : g \in goods})
           \/ /\ ~Checked(Merged(e, wanted)) \/ goods \cap left # {}
              /\ UNCHANGED <<offer, links>>

\* set_enabled
SetEnabled(e) ==
    /\ edit[e].at = "switch"
    /\ offer' = Merged(e, [edit[e].seen EXCEPT !.enabled = edit[e].form.enabled])
    /\ edit' = [edit EXCEPT ![e] = Quiet]
    /\ UNCHANGED links

\* soft_delete_offer
SoftDeleteOffer(e) ==
    /\ edit[e].at = "delete"
    /\ offer' = Merged(e, [edit[e].seen EXCEPT !.enabled = FALSE, !.active = FALSE])
    /\ edit' = [edit EXCEPT ![e] = Quiet]
    /\ UNCHANGED links

OfNext ==
    \E e \in Editors :
        \/ \E f \in Forms : ReadOffer(e, "update", f)
        \/ \E on \in BOOLEAN : ReadOffer(e, "switch", [NoForm EXCEPT !.enabled = on])
        \/ ReadOffer(e, "delete", NoForm)
        \/ UpdateOffer(e) \/ SetEnabled(e) \/ SoftDeleteOffer(e)

OfSpec == OfInit /\ [][OfNext]_ofVars

-----------------------------------------------------------------------------
(* Properties *)

(***************************************************************************)
(* An offer on the price book can price something: whatever forms,         *)
(* switches and deletions overlap and however their columns and rows mix,  *)
(* a PRODUCTS offer keeps a product and a CATEGORY offer its category.     *)
(***************************************************************************)
OfferHasTarget ==
    IF offer.to = "PRODUCTS" THEN links # {} ELSE offer.group # NoGroup

=============================================================================
