--------------------------- MODULE FencedResource ---------------------------
(***************************************************************************)
(* What docs/SLOT_LEASES.md promises of a leased resource, without         *)
(* journal, clock or retries: ownership changes hands atomically and each  *)
(* change is numbered by a fence, and a protected value is only ever       *)
(* written by the owner of the newest fence while it holds the resource.   *)
(* When a holder may be superseded is the clock's business, so Assign is   *)
(* allowed at any moment here.                                             *)
(***************************************************************************)
EXTENDS Naturals

CONSTANTS Resources, Owners, Keys, None

VARIABLES
    fence,   \* the newest fence of each resource, 0 before the first grant
    owner,   \* whom it was issued to
    held,    \* the resources whose newest owner still holds them
    value    \* who wrote each protected value, under which fence

vars == <<fence, owner, held, value>>

Init ==
    /\ fence = [r \in Resources |-> 0]
    /\ owner = [r \in Resources |-> None]
    /\ held = {}
    /\ value = [r \in Resources |-> [k \in Keys |-> [writer |-> None, fence |-> 0]]]

Assign(r, o) ==
    /\ fence' = [fence EXCEPT ![r] = @ + 1]
    /\ owner' = [owner EXCEPT ![r] = o]
    /\ held' = held \cup {r}
    /\ UNCHANGED value

Write(r, k) ==
    /\ r \in held
    /\ value' = [value EXCEPT ![r] =
                    [@ EXCEPT ![k] = [writer |-> owner[r], fence |-> fence[r]]]]
    /\ UNCHANGED <<fence, owner, held>>

Vacate(r) ==
    /\ r \in held
    /\ held' = held \ {r}
    /\ UNCHANGED <<fence, owner, value>>

Next ==
    \E r \in Resources :
        \/ \E o \in Owners : Assign(r, o)
        \/ \E k \in Keys : Write(r, k)
        \/ Vacate(r)

Spec == Init /\ [][Next]_vars
=============================================================================
