------------------------------ MODULE Pricing ------------------------------
(***************************************************************************)
(* What an item costs while "dead hours" offers run (pricing_service).     *)
(* The menu and the order ask the same book about the base price of an     *)
(* item and about the price of each variant.  Prices are whole paisa; an   *)
(* offer is a row of offer_windows with the products its list names.  The  *)
(* operators are the code's; the specification asks them about every book  *)
(* of MaxOffers offers and every item of a small menu.                     *)
(***************************************************************************)
EXTENDS Naturals, Integers, Sequences, FiniteSets

CONSTANTS
    MaxPrice, MaxOffers, LastHour, Weekdays,    \* bounds of the questions
    NoOffer

ASSUME PricingAssumption ==
    /\ MaxPrice \in Nat /\ LastHour \in Nat
    /\ NoOffer \notin Nat /\ NoOffer \notin [final: Nat, offer: Nat]

Larger(a, b) == IF a >= b THEN a ELSE b
Smaller(a, b) == IF a <= b THEN a ELSE b

-----------------------------------------------------------------------------
(* Offers *)

\* The values a validated offer may have: percentages of 100 at most, a floor
\* (0: none) for every fixed discount, an end after the start, one target.
ValidOffer(o) ==
    /\ o.value > 0
    /\ o.type = "PERCENT" => o.value <= 100
    /\ o.type = "FIXED" => o.floor > 0
    /\ o.from < o.till
    /\ o.days # {}
    /\ (o.category # "none") = (o.items = {})

IsLive(o, at) ==
    /\ o.enabled /\ o.active
    /\ at.day \in o.days
    /\ o.from <= at.hour /\ at.hour < o.till

\* The discounted price before rounding, in hundredths of a paisa.
Raw(o, anchor) ==
    IF o.type = "FIXED" THEN 100 * (anchor - o.value) ELSE anchor * (100 - o.value)

\* ROUND_HALF_UP of a price that is not negative.
Quantized(n) == (n + 50) \div 100

Apply(o, anchor) ==
    Quantized(Smaller(Larger(Raw(o, anchor), 100 * o.floor), 100 * anchor))

-----------------------------------------------------------------------------
(* The price book: the offers in order of creation, and the instant *)

Live(book) == {i \in DOMAIN book.offers : IsLive(book.offers[i], book.at)}

\* By product and by category.
Candidates(book, item) ==
    {i \in Live(book) : item.name \in book.offers[i].items
                        \/ item.category = book.offers[i].category}

\* Mutant: the newest offer wins.
ResolveNewest(book, item, anchor) ==
    LET priced == {i \in Candidates(book, item) : Apply(book.offers[i], anchor) < anchor}
    IN  IF priced = {} THEN NoOffer
        ELSE LET best == CHOOSE i \in priced : \A j \in priced : i >= j
             IN  [final |-> Apply(book.offers[best], anchor), offer |-> best]

\* The lowest price below the anchor, and of those the oldest offer.
Resolve(book, item, anchor) ==
    LET priced == {i \in Candidates(book, item) : Apply(book.offers[i], anchor) < anchor}
        Before(i, j) == LET p == Apply(book.offers[i], anchor)
                            q == Apply(book.offers[j], anchor)
                        IN  p < q \/ (p = q /\ i <= j)
    IN  IF priced = {} THEN NoOffer
        ELSE LET best == CHOOSE i \in priced : \A j \in priced : Before(i, j)
             IN  [final |-> Apply(book.offers[best], anchor), offer |-> best]

-----------------------------------------------------------------------------
(* Every question of a small menu *)

VARIABLES
    book,       \* [offers, at]
    asked       \* the item the guest looks at, or NoOffer

prVars == <<book, asked>>

SomeOffers ==
    {o \in [type: {"FIXED", "PERCENT"}, value: {1, 2, 50, 100}, floor: 0 .. 2, from: {0}, till: 1 .. LastHour,
            days: SUBSET Weekdays, items: {{}, {"momo"}, {"tea"}}, category: {"none", "food"},
            enabled: BOOLEAN, active: {TRUE}] :
        ValidOffer(o) /\ (o.type = "FIXED" <=> o.value <= 2)}

PrInit ==
    /\ book = [offers |-> <<>>, at |-> [day |-> 0, hour |-> 0]]
    /\ asked = NoOffer

CreateOffer(o) ==
    /\ asked = NoOffer
    /\ Len(book.offers) < MaxOffers
    /\ book' = [book EXCEPT !.offers = Append(@, o)]
    /\ UNCHANGED asked

\* build_price_book now, and one item of it.
Ask(hour, base, variants) ==
    /\ asked = NoOffer
    /\ asked' = [name |-> "momo", category |-> "food", base |-> base, variants |-> variants]
    /\ book' = [book EXCEPT !.at.hour = hour]

PrNext ==
    \/ \E o \in SomeOffers : CreateOffer(o)
    \/ \E hour \in 0 .. LastHour, base \in 0 .. MaxPrice, variant \in 0 .. MaxPrice :
         Ask(hour, base, {}) \/ Ask(hour, base, {variant})

PrSpec == PrInit /\ [][PrNext]_prVars

-----------------------------------------------------------------------------
(* Properties *)

(***************************************************************************)
(* "Overlapping offers resolve to the LOWEST resulting price", the oldest  *)
(* of equals, through whichever of the two lists they reach the item;      *)
(* there is an offer exactly when somebody saves something; and "DISCOUNTS *)
(* ONLY, never surge": the price stays between the smaller of floor and    *)
(* anchor and the anchor, rounding included.                               *)
(***************************************************************************)
BestOfferWins ==
    asked # NoOffer =>
        \A anchor \in {asked.base} \cup asked.variants :
            LET got == Resolve(book, asked, anchor)
                Covers(o) == IsLive(o, book.at) /\ (asked.name \in o.items \/ o.category = asked.category)
                prices == {Apply(book.offers[i], anchor) : i \in {j \in DOMAIN book.offers : Covers(book.offers[j])}}
            IN  IF \E p \in prices : p < anchor
                THEN /\ \A p \in prices : got.final <= p
                     /\ \A j \in 1 .. got.offer - 1 :
                          Covers(book.offers[j]) => Apply(book.offers[j], anchor) > got.final
                     /\ Smaller(book.offers[got.offer].floor, anchor) <= got.final
                     /\ got.final <= anchor
                ELSE got = NoOffer

=============================================================================
