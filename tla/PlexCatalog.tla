----------------------------- MODULE PlexCatalog -----------------------------
(* What the exporter reads from Plex, as its code relies on it: items with    *)
(* increasing keys that come and go, listed per library in a fixed order by   *)
(* offset paging (WalkSectionItems), and the newest play of each item in the  *)
(* watch history.  A rating key is never reused.                              *)
EXTENDS Integers, FiniteSets

CONSTANTS
    Items,              \* rating keys, a set of positive integers
    Libs,               \* section ids, a set of positive integers
    Home,               \* [Items -> Libs], the library an item is in
    Future,             \* items not in Plex at the start
    Deletable,          \* items Plex may delete
    Unreadable,         \* items one of which may have unusable rows
    MaxClock            \* bound of the model's clock, which starts at 2

ASSUME CatalogAssumption ==
    /\ Items \subseteq Nat /\ IsFiniteSet(Items)
    /\ Libs \subseteq Nat /\ IsFiniteSet(Libs)
    /\ Home \in [Items -> Libs]
    /\ Future \subseteq Items /\ Deletable \subseteq Items /\ Unreadable \subseteq Items
    /\ MaxClock \in Nat \ {0, 1}

VARIABLES
    clock,              \* Unix seconds
    catalog,            \* [Items -> where the item is in its life]
    plays,              \* [Items -> newest play in Plex's history, 0 for none]
    unusable            \* items whose rows lack a numeric key or a play time

cvars == <<clock, catalog, plays, unusable>>

CatalogTypeOK ==
    /\ clock \in Nat
    /\ catalog \in [Items -> {"future", "present", "gone"}]
    /\ plays \in [Items -> Nat]
    /\ unusable \subseteq Items

CatalogInit ==
    /\ clock = 2
    /\ catalog = [i \in Items |-> IF i \in Future THEN "future" ELSE "present"]
    /\ plays \in [Items -> {0, 1}]
    /\ \A i \in Future : plays[i] = 0
    /\ unusable \in {{}} \cup {{i} : i \in Unreadable}

\* The item at a row offset of a library's listing.
RowAt(lib, off) ==
    LET rows == {i \in Items : catalog[i] = "present" /\ Home[i] = lib}
    IN  {i \in rows : Cardinality({j \in rows : j < i}) = off}

Rank(i) == Cardinality({j \in Items : catalog[j] = "present" /\ Home[j] = Home[i] /\ j < i})

Advance ==
    /\ clock < MaxClock
    /\ clock' = clock + 1
    /\ UNCHANGED <<catalog, plays, unusable>>

AddItem(i) ==
    /\ catalog[i] = "future"
    /\ catalog' = [catalog EXCEPT ![i] = "present"]
    /\ UNCHANGED <<clock, plays, unusable>>

DeleteItem(i) ==
    /\ i \in Deletable /\ catalog[i] = "present"
    /\ catalog' = [catalog EXCEPT ![i] = "gone"]
    /\ UNCHANGED <<clock, plays, unusable>>

PlayItem(i) ==
    /\ catalog[i] = "present" /\ plays[i] < clock
    /\ plays' = [plays EXCEPT ![i] = clock]
    /\ UNCHANGED <<clock, catalog, unusable>>
==============================================================================
