----------------------------- MODULE Directory ------------------------------
(***************************************************************************)
(* What an address book promises: one card per phone, and changes to it    *)
(* one card at a time.                                                     *)
(***************************************************************************)
CONSTANTS Id, Name, Phone

VARIABLE cards      \* the set of cards

Card == [id: Id, name: Name, phone: Phone]

Init == cards = {}

\* The card fits: no other has its phone.
Fits(card) == \A other \in cards : other.id # card.id => other.phone # card.phone

Add(card) ==
    /\ \A other \in cards : other.id # card.id
    /\ Fits(card)
    /\ cards' = cards \cup {card}

Change(card, new) ==
    /\ card \in cards /\ new.id = card.id
    /\ Fits(new)
    /\ cards' = (cards \ {card}) \cup {new}

Remove(card) ==
    /\ card \in cards
    /\ cards' = cards \ {card}

Next ==
    \/ \E card \in Card : Add(card)
    \/ \E card \in cards : Remove(card) \/ \E new \in Card : Change(card, new)

Spec == Init /\ [][Next]_cards
=============================================================================
