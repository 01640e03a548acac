------------------------------ MODULE RuntimeProofs ------------------------------
(***************************************************************************)
(* Theorems about Runtime.tla, for every set of accounts, contracts,       *)
(* quests and names, every script and every validated initial world.       *)
(***************************************************************************)
EXTENDS Runtime, FiniteSetTheorems, SequenceTheorems, TLAPS

----------------------------------------------------------------------------
(* Inventories and locations: what removing from and pushing to a vector   *)
(* returns, and which moves keep the lists and the locations consistent.   *)

(* An item that a vector lists has a position in it. *)
LEMMA PositionIn ==
  ASSUME NEW S, NEW s \in Seq(S), NEW x \in Items(s)
  PROVE  Position(s, x) \in 1 .. Len(s) /\ s[Position(s, x)] = x
BY DEF Position, Items

(* Removing an item from a vector that lists it leaves a vector. *)
LEMMA WithoutType ==
  ASSUME NEW S, NEW s \in Seq(S), NEW x \in Items(s)
  PROVE  /\ Without(s, x) \in Seq(S)
         /\ Len(Without(s, x)) = Len(s) - 1
<1>1. Position(s, x) \in 1 .. Len(s)  BY PositionIn
<1>2. Len(s) - 1 \in Nat  BY <1>1
<1>3. \A i \in 1 .. Len(s) - 1 : s[i] \in S /\ s[i + 1] \in S  BY <1>1
<1>4. Without(s, x) \in [1 .. Len(s) - 1 -> S]  BY <1>1, <1>3 DEF Without
<1>5. QED  BY <1>2, <1>4

(* Removing an item from a vector without duplicates removes that item and *)
(* nothing else, and leaves a vector without duplicates.                   *)
LEMMA WithoutItems ==
  ASSUME NEW S, NEW s \in Seq(S), NEW x \in Items(s),
         \A i, j \in DOMAIN s : s[i] = s[j] => i = j
  PROVE  /\ Items(Without(s, x)) = Items(s) \ {x}
         /\ \A i, j \in DOMAIN Without(s, x) :
              Without(s, x)[i] = Without(s, x)[j] => i = j
<1> DEFINE p == Position(s, x)
           w == Without(s, x)
<1>1. p \in 1 .. Len(s) /\ s[p] = x  BY PositionIn
<1>2. DOMAIN s = 1 .. Len(s) /\ Len(s) \in Nat  OBVIOUS
<1>3. DOMAIN w = 1 .. Len(s) - 1  BY DEF Without
<1>4. \A i \in 1 .. Len(s) - 1 : w[i] = IF i < p THEN s[i] ELSE s[i + 1]  BY DEF Without
<1> HIDE DEF p, w
<1>5. Items(w) \subseteq Items(s) \ {x}
  BY <1>1, <1>2, <1>3, <1>4 DEF Items
<1>6. ASSUME NEW y \in Items(s) \ {x}  PROVE y \in Items(w)
  <2>1. PICK k \in 1 .. Len(s) : s[k] = y  BY <1>2 DEF Items
  <2>2. k # p  BY <1>1, <2>1
  <2>3. CASE k < p
    <3>1. k \in 1 .. Len(s) - 1  BY <1>1, <1>2, <2>3
    <3>2. w[k] = y  BY <1>4, <2>1, <2>3, <3>1
    <3>3. QED  BY <1>3, <3>1, <3>2 DEF Items
  <2>4. CASE k > p
    <3>1. k - 1 \in 1 .. Len(s) - 1  BY <1>1, <1>2, <2>1, <2>4
    <3>2. w[k - 1] = y  BY <1>1, <1>4, <2>1, <2>4, <3>1
    <3>3. QED  BY <1>3, <3>1, <3>2 DEF Items
  <2>5. QED  BY <1>1, <2>1, <2>2, <2>3, <2>4
<1>7. ASSUME NEW i \in DOMAIN w, NEW j \in DOMAIN w, w[i] = w[j]  PROVE i = j
  <2> DEFINE src(k) == IF k < p THEN k ELSE k + 1
  <2>1. src(i) \in DOMAIN s /\ src(j) \in DOMAIN s  BY <1>1, <1>2, <1>3
  <2>2. w[i] = s[src(i)] /\ w[j] = s[src(j)]  BY <1>1, <1>3, <1>4
  <2>3. src(i) = src(j)  BY <1>7, <2>1, <2>2
  <2>4. QED  BY <1>1, <1>2, <1>3, <2>3
<1>8. QED  BY <1>5, <1>6, <1>7 DEF w

(* What the vector of an entity lists is typed whether or not it has one. *)
LEMMA InventoryType ==
  ASSUME NEW invs, InventoriesTyped(invs), NEW a
  PROVE  Inventory(invs, a) \in Seq(EntityId)
BY DEF InventoriesTyped, Inventory

(* Pushing an id to a vector keeps the type of the inventories. *)
LEMMA PushedType ==
  ASSUME NEW invs, InventoriesTyped(invs), NEW a \in EntityId, NEW x \in EntityId
  PROVE  InventoriesTyped(Pushed(invs, a, x))
<1>1. Append(Inventory(invs, a), x) \in Seq(EntityId)  BY InventoryType
<1>2. \A b \in DOMAIN invs : invs[b] \in Seq(EntityId)  BY DEF InventoriesTyped
<1>3. QED  BY <1>1, <1>2 DEF Pushed, InventoriesTyped

(* Removing a listed id from a vector keeps the type of the inventories. *)
LEMMA RemovedType ==
  ASSUME NEW invs, InventoriesTyped(invs), NEW a, NEW x \in Items(Inventory(invs, a))
  PROVE  /\ a \in DOMAIN invs
         /\ InventoriesTyped([invs EXCEPT ![a] = Without(@, x)])
<1>1. a \in DOMAIN invs  BY DEF Inventory, Items
<1>2. invs[a] \in Seq(EntityId) /\ x \in Items(invs[a])
  BY <1>1 DEF InventoriesTyped, Inventory
<1>3. Without(invs[a], x) \in Seq(EntityId)  BY <1>2, WithoutType
<1>4. QED  BY <1>1, <1>3 DEF InventoriesTyped

(* The lists and the locations agree and both are well formed: the part of *)
(* the validation that moves and hand-overs could break.                   *)
Consistent(ents, invs) == ValidateLocations(ents) /\ ValidateInventories(ents, invs)

(* Relocating or renaming an entity keeps the type of the entities. *)
LEMMA LocatedType ==
  ASSUME NEW ents, EntitiesTyped(ents), NEW id \in DOMAIN ents,
         NEW at \in EntityId \cup {NoEntity}
  PROVE  EntitiesTyped(Located(ents, id, at))
BY DEF EntitiesTyped, Located, Entity

(* Relocating changes nothing but the location of that entity. *)
LEMMA LocatedFields ==
  ASSUME NEW ents, EntitiesTyped(ents), NEW id \in DOMAIN ents, NEW at
  PROVE  /\ DOMAIN Located(ents, id, at) = DOMAIN ents
         /\ \A e \in DOMAIN ents :
              /\ Located(ents, id, at)[e].kind = ents[e].kind
              /\ Located(ents, id, at)[e].contract = ents[e].contract
              /\ Located(ents, id, at)[e].location = IF e = id THEN at ELSE ents[e].location
BY DEF EntitiesTyped, Located, Entity

(* A zone may be given as the location of an actor. *)
LEMMA ActorMoved ==
  ASSUME NEW ents, EntitiesTyped(ents), NEW invs, Consistent(ents, invs),
         NEW a, IsKind(ents, a, {"actor"}), NEW z, IsKind(ents, z, {"zone"})
  PROVE  Consistent(Located(ents, a, z), invs)
<1> DEFINE ents2 == Located(ents, a, z)
<1>1. a \in DOMAIN ents /\ ents[a].kind = "actor"  BY DEF IsKind, Kind
<1>2. /\ DOMAIN ents2 = DOMAIN ents
      /\ \A e \in DOMAIN ents :
           /\ ents2[e].kind = ents[e].kind
           /\ ents2[e].location = IF e = a THEN z ELSE ents[e].location
  BY <1>1, LocatedFields
<1> HIDE DEF ents2
<1>3. \A e, kinds : IsKind(ents2, e, kinds) <=> IsKind(ents, e, kinds)
  BY <1>2 DEF IsKind, Kind
<1>4. ValidateLocations(ents2)
  BY <1>1, <1>2, <1>3 DEF Consistent, ValidateLocations
<1>5. ListedItemsAreHere(ents2, invs)
  BY <1>1, <1>2, <1>3 DEF Consistent, ValidateInventories, ListedItemsAreHere, IsKind, Kind
<1>6. HeldItemsAreListed(ents2, invs)
  BY <1>1, <1>2, <1>3 DEF Consistent, ValidateInventories, HeldItemsAreListed
<1>7. InventoryOwnersAreActors(ents2, invs) /\ ListedOnce(invs)
  BY <1>3 DEF Consistent, ValidateInventories, InventoryOwnersAreActors
<1>8. QED  BY <1>4, <1>5, <1>6, <1>7 DEF Consistent, ValidateInventories, ents2

(* An item that no inventory lists may be given to an actor. *)
LEMMA ItemListed ==
  ASSUME NEW ents, EntitiesTyped(ents), NEW invs, InventoriesTyped(invs),
         Consistent(ents, invs),
         NEW x, IsKind(ents, x, {"item"}), NEW a, IsKind(ents, a, {"actor"}),
         \A b \in DOMAIN invs : x \notin Items(invs[b])
  PROVE  Consistent(Located(ents, x, a), Pushed(invs, a, x))
<1> DEFINE ents2 == Located(ents, x, a)
           invs2 == Pushed(invs, a, x)
           s     == Inventory(invs, a)
<1>1. x \in DOMAIN ents /\ ents[x].kind = "item" /\ a \in DOMAIN ents /\ ents[a].kind = "actor"
  BY DEF IsKind, Kind
<1>2. /\ DOMAIN ents2 = DOMAIN ents
      /\ \A e \in DOMAIN ents :
           /\ ents2[e].kind = ents[e].kind
           /\ ents2[e].location = IF e = x THEN a ELSE ents[e].location
  BY <1>1, LocatedFields
<1>3. s \in Seq(EntityId) /\ x \in EntityId
  BY <1>1, InventoryType DEF EntitiesTyped
<1>4. /\ DOMAIN invs2 = DOMAIN invs \cup {a}
      /\ \A b \in DOMAIN invs : b # a => invs2[b] = invs[b]
      /\ DOMAIN invs2[a] = 1 .. Len(s) + 1
      /\ \A i \in 1 .. Len(s) : invs2[a][i] = s[i]
      /\ invs2[a][Len(s) + 1] = x
  BY <1>3 DEF Pushed
<1>5. /\ Len(s) \in Nat /\ DOMAIN s = 1 .. Len(s)
      /\ a \in DOMAIN invs => s = invs[a]
      /\ a \notin DOMAIN invs => Len(s) = 0
  BY <1>3 DEF Inventory
<1>6. \A b \in DOMAIN invs : \A i \in DOMAIN invs[b] : invs[b][i] # x
  BY DEF Items
<1> HIDE DEF ents2, invs2, s
<1>7. \A e, kinds : IsKind(ents2, e, kinds) <=> IsKind(ents, e, kinds)
  BY <1>2 DEF IsKind, Kind
<1>8. ValidateLocations(ents2)
  BY <1>1, <1>2, <1>7 DEF Consistent, ValidateLocations, IsKind, Kind
<1>9. InventoryOwnersAreActors(ents2, invs2)
  BY <1>4, <1>7 DEF Consistent, ValidateInventories, InventoryOwnersAreActors
<1>10. ListedItemsAreHere(ents2, invs2)
  <2> SUFFICES ASSUME NEW b \in DOMAIN invs2, NEW i \in DOMAIN invs2[b]
               PROVE  IsKind(ents2, invs2[b][i], {"item"}) /\ ents2[invs2[b][i]].location = b
    BY DEF ListedItemsAreHere
  <2>1. CASE b = a /\ i = Len(s) + 1  BY <1>1, <1>2, <1>4, <1>7, <2>1
  <2>2. CASE ~(b = a /\ i = Len(s) + 1)
    <3>1. b \in DOMAIN invs /\ i \in DOMAIN invs[b] /\ invs2[b][i] = invs[b][i]
      BY <1>4, <1>5, <2>2
    <3>2. IsKind(ents, invs[b][i], {"item"}) /\ ents[invs[b][i]].location = b
      BY <3>1 DEF Consistent, ValidateInventories, ListedItemsAreHere
    <3>3. QED  BY <1>2, <1>6, <1>7, <3>1, <3>2 DEF IsKind
  <2>3. QED  BY <2>1, <2>2
<1>11. ListedOnce(invs2)
  <2> SUFFICES ASSUME NEW b \in DOMAIN invs2, NEW i \in DOMAIN invs2[b],
                      NEW j \in DOMAIN invs2[b], invs2[b][i] = invs2[b][j]
               PROVE  i = j
    BY DEF ListedOnce
  <2>1. \A c \in DOMAIN invs : \A k, l \in DOMAIN invs[c] : invs[c][k] = invs[c][l] => k = l
    BY DEF Consistent, ValidateInventories, ListedOnce
  <2>2. CASE b # a  BY <1>4, <2>1, <2>2
  <2>3. CASE b = a  BY <1>4, <1>5, <1>6, <2>1, <2>3
  <2>4. QED  BY <2>2, <2>3
<1>12. HeldItemsAreListed(ents2, invs2)
  <2> SUFFICES ASSUME NEW id \in DOMAIN ents2, ents2[id].kind = "item",
                      IsKind(ents2, ents2[id].location, {"actor"})
               PROVE  /\ ents2[id].location \in DOMAIN invs2
                      /\ id \in Items(invs2[ents2[id].location])
    BY DEF HeldItemsAreListed
  <2>1. CASE id = x  BY <1>2, <1>4, <1>5, <2>1 DEF Items
  <2>2. CASE id # x
    <3> DEFINE b == ents[id].location
    <3>1. ents2[id].location = b  BY <1>2, <2>2
    <3>2. b \in DOMAIN invs /\ id \in Items(invs[b])
      BY <1>2, <1>7, <3>1 DEF Consistent, ValidateInventories, HeldItemsAreListed
    <3>3. PICK i \in DOMAIN invs[b] : invs[b][i] = id  BY <3>2 DEF Items
    <3>4. i \in DOMAIN invs2[b] /\ invs2[b][i] = id  BY <1>4, <1>5, <3>2, <3>3
    <3>5. QED  BY <1>4, <3>1, <3>2, <3>4 DEF Items
  <2>3. QED  BY <2>1, <2>2
<1>13. QED
  BY <1>8, <1>9, <1>10, <1>11, <1>12 DEF Consistent, ValidateInventories, ents2, invs2

(* An item that an actor's inventory lists may be taken off it and put in  *)
(* a zone or nowhere.                                                      *)
LEMMA ItemUnlisted ==
  ASSUME NEW ents, EntitiesTyped(ents), NEW invs, InventoriesTyped(invs),
         Consistent(ents, invs),
         NEW a, NEW x \in Items(Inventory(invs, a)),
         NEW at, at = NoEntity \/ IsKind(ents, at, {"zone"})
  PROVE  LET ents2 == Located(ents, x, at)
             invs2 == [invs EXCEPT ![a] = Without(@, x)]
         IN  /\ Consistent(ents2, invs2)
             /\ \A b \in DOMAIN invs2 : x \notin Items(invs2[b])
<1> DEFINE ents2 == Located(ents, x, at)
           invs2 == [invs EXCEPT ![a] = Without(@, x)]
<1>1. a \in DOMAIN invs /\ Inventory(invs, a) = invs[a]  BY RemovedType DEF Inventory
<1>2. /\ IsKind(ents, x, {"item"}) /\ ents[x].location = a
      /\ \A b \in DOMAIN invs : x \in Items(invs[b]) => b = a
  BY <1>1 DEF Consistent, ValidateInventories, ListedItemsAreHere, Items
<1>3. x \in DOMAIN ents /\ ents[x].kind = "item"  BY <1>2 DEF IsKind, Kind
<1>4. /\ DOMAIN ents2 = DOMAIN ents
      /\ \A e \in DOMAIN ents :
           /\ ents2[e].kind = ents[e].kind
           /\ ents2[e].location = IF e = x THEN at ELSE ents[e].location
  BY <1>3, LocatedFields
<1>5. /\ Items(Without(invs[a], x)) = Items(invs[a]) \ {x}
      /\ \A i, j \in DOMAIN Without(invs[a], x) :
           Without(invs[a], x)[i] = Without(invs[a], x)[j] => i = j
  <2>1. invs[a] \in Seq(EntityId)  BY <1>1 DEF InventoriesTyped
  <2>2. \A i, j \in DOMAIN invs[a] : invs[a][i] = invs[a][j] => i = j
    BY <1>1 DEF Consistent, ValidateInventories, ListedOnce
  <2>3. QED  BY <1>1, <2>1, <2>2, WithoutItems
<1>6. /\ DOMAIN invs2 = DOMAIN invs
      /\ \A b \in DOMAIN invs : b # a => invs2[b] = invs[b]
      /\ invs2[a] = Without(invs[a], x)
  BY <1>1 DEF InventoriesTyped
<1> HIDE DEF ents2, invs2
<1>7. \A b \in DOMAIN invs2 : Items(invs2[b]) = Items(invs[b]) \ {x}
  BY <1>2, <1>5, <1>6
<1>8. \A e, kinds : IsKind(ents2, e, kinds) <=> IsKind(ents, e, kinds)
  BY <1>4 DEF IsKind, Kind
<1>9. ValidateLocations(ents2)
  BY <1>3, <1>4, <1>8 DEF Consistent, ValidateLocations, IsKind, Kind
<1>10. InventoryOwnersAreActors(ents2, invs2)
  BY <1>6, <1>8 DEF Consistent, ValidateInventories, InventoryOwnersAreActors
<1>11. ListedItemsAreHere(ents2, invs2)
  <2> SUFFICES ASSUME NEW b \in DOMAIN invs2, NEW y \in Items(invs2[b])
               PROVE  IsKind(ents2, y, {"item"}) /\ ents2[y].location = b
    BY DEF ListedItemsAreHere, Items
  <2>1. b \in DOMAIN invs /\ y \in Items(invs[b]) /\ y # x  BY <1>6, <1>7
  <2>2. IsKind(ents, y, {"item"}) /\ ents[y].location = b
    BY <2>1 DEF Consistent, ValidateInventories, ListedItemsAreHere, Items
  <2>3. QED  BY <1>4, <1>8, <2>1, <2>2 DEF IsKind
<1>12. ListedOnce(invs2)
  BY <1>5, <1>6 DEF Consistent, ValidateInventories, ListedOnce
<1>13. HeldItemsAreListed(ents2, invs2)
  <2> SUFFICES ASSUME NEW id \in DOMAIN ents2, ents2[id].kind = "item",
                      IsKind(ents2, ents2[id].location, {"actor"})
               PROVE  /\ ents2[id].location \in DOMAIN invs2
                      /\ id \in Items(invs2[ents2[id].location])
    BY DEF HeldItemsAreListed
  <2>1. id # x
    <3>1. NoEntity \notin DOMAIN ents  BY DEF EntitiesTyped, EntityId, NoEntity
    <3>2. QED  BY <1>4, <1>8, <3>1 DEF IsKind, Kind
  <2>2. ents2[id].location = ents[id].location  BY <1>4, <2>1
  <2>3. /\ ents[id].location \in DOMAIN invs
        /\ id \in Items(invs[ents[id].location])
    BY <1>4, <1>8, <2>2 DEF Consistent, ValidateInventories, HeldItemsAreListed
  <2>4. QED  BY <1>6, <1>7, <2>1, <2>2, <2>3
<1>14. Consistent(ents2, invs2)
  BY <1>9, <1>10, <1>11, <1>12, <1>13 DEF Consistent, ValidateInventories
<1>15. \A b \in DOMAIN invs2 : x \notin Items(invs2[b])  BY <1>7
<1>16. QED  BY <1>14, <1>15 DEF ents2, invs2

(* An item that no inventory lists may be deleted. *)
LEMMA ItemDeleted ==
  ASSUME NEW ents, EntitiesTyped(ents), NEW invs, Consistent(ents, invs),
         NEW x, IsKind(ents, x, {"item"}),
         \A b \in DOMAIN invs : x \notin Items(invs[b])
  PROVE  Consistent([id \in DOMAIN ents \ {x} |-> ents[id]], invs)
<1> DEFINE ents2 == [id \in DOMAIN ents \ {x} |-> ents[id]]
<1>1. x \in DOMAIN ents /\ ents[x].kind = "item"  BY DEF IsKind, Kind
<1>2. \A e, kinds : e # x => (IsKind(ents2, e, kinds) <=> IsKind(ents, e, kinds))
  BY DEF IsKind, Kind
<1>3. \A e, kinds : IsKind(ents2, e, kinds) => IsKind(ents, e, kinds)
  BY DEF IsKind, Kind
<1>4. ~IsKind(ents, x, {"zone"}) /\ ~IsKind(ents, x, {"actor"}) /\ ~IsKind(ents, x, {"zone", "actor"})
  BY <1>1 DEF IsKind, Kind
<1>5. ValidateLocations(ents2)
  BY <1>2, <1>4 DEF Consistent, ValidateLocations
<1>6. InventoryOwnersAreActors(ents2, invs)
  BY <1>2, <1>4 DEF Consistent, ValidateInventories, InventoryOwnersAreActors
<1>7. ListedItemsAreHere(ents2, invs)
  <2> SUFFICES ASSUME NEW b \in DOMAIN invs, NEW y \in Items(invs[b])
               PROVE  IsKind(ents2, y, {"item"}) /\ ents2[y].location = b
    BY DEF ListedItemsAreHere, Items
  <2>1. y # x  OBVIOUS
  <2>2. IsKind(ents, y, {"item"}) /\ ents[y].location = b
    BY DEF Consistent, ValidateInventories, ListedItemsAreHere, Items
  <2>3. QED  BY <1>2, <2>1, <2>2 DEF IsKind
<1>8. HeldItemsAreListed(ents2, invs)
  BY <1>3 DEF Consistent, ValidateInventories, HeldItemsAreListed
<1>9. QED  BY <1>5, <1>6, <1>7, <1>8 DEF Consistent, ValidateInventories

----------------------------------------------------------------------------
(* Type correctness. *)

(* The world in memory is typed, field by field. *)
FieldsTyped ==
  /\ AccountsTyped(accounts)
  /\ contracts \subseteq Contract
  /\ EntitiesTyped(entities)
  /\ InventoriesTyped(inventories)
  /\ ProgressTyped(quest_progress)
  /\ events \in Seq(WorldEvent)
  /\ next_event_id \in Nat \ {0}
  /\ next_entity_id \in Nat \ {0}
  /\ head \in Nat
  /\ ReceiptsTyped(receipts)

(* The record of the world is typed exactly if its fields are, in a state  *)
(* and in the next.                                                        *)
LEMMA SnapshotTyped == WorldTyped(Snapshot) <=> FieldsTyped
BY DEF WorldTyped, Snapshot, FieldsTyped

(* The same for the world after a step. *)
LEMMA SnapshotTypedNext == WorldTyped(Snapshot)' <=> FieldsTyped'
BY DEF WorldTyped, Snapshot, FieldsTyped

(* create_entity makes a typed entity under an id within the bound. *)
LEMMA CreateEntityType ==
  ASSUME FieldsTyped,
         NEW kind \in EntityKind, NEW owner, NEW contract,
         NEW location \in EntityId \cup {NoEntity}, NEW name \in Name,
         CreateEntity(kind, owner, contract, location, name)
  PROVE  EntitiesTyped(entities') /\ next_entity_id' \in Nat \ {0} /\ head' \in Nat
<1>1. owner \in Account /\ contract \in Contract \cup {NoContract}
  BY DEF CreateEntity, FieldsTyped, AccountsTyped
<1>2. FreshId \in EntityId /\ next_entity_id \in Nat \ {0} /\ head \in Nat
  BY DEF CreateEntity, FieldsTyped
<1>3. next_entity_id' \in Nat \ {0} /\ head' \in Nat
  BY <1>2 DEF CreateEntity, FreshId
<1>4. [kind |-> kind, owner |-> owner, location |-> location,
       contract |-> contract, name |-> name] \in Entity
  BY <1>1 DEF Entity
<1>5. EntitiesTyped(entities)  BY DEF FieldsTyped
<1>6. EntitiesTyped(entities')
  BY <1>2, <1>4, <1>5 DEF CreateEntity, EntitiesTyped
<1>7. QED  BY <1>3, <1>6

(* checked_add keeps a balance within u64. *)
LEMMA CreditedType ==
  ASSUME AccountsTyped(accounts), NEW a, NEW amount \in Nat, Credited(a, amount)
  PROVE  AccountsTyped(accounts')
<1>1. accounts[a] \in AccountState /\ a \in DOMAIN accounts  BY DEF Credited, AccountsTyped
<1>2. accounts[a].balance + amount \in 0 .. MaxBalance
  BY <1>1, BoundAssumption DEF Credited, AccountState
<1>3. [accounts[a] EXCEPT !.balance = @ + amount] \in AccountState
  BY <1>1, <1>2 DEF AccountState
<1>4. accounts' = [accounts EXCEPT ![a] = [accounts[a] EXCEPT !.balance = @ + amount]]
  BY DEF Credited
<1>5. QED  BY <1>1, <1>3, <1>4 DEF AccountsTyped

(* A host call that is made leaves a typed world. *)
LEMMA HostCallType ==
  ASSUME FieldsTyped, HostCall
  PROVE  FieldsTyped'
<1> USE DEF FieldsTyped
<1>1. CallerExists => caller \in EntityId  BY DEF CallerExists, EntitiesTyped
<1>2. \A id \in DOMAIN entities : id \in EntityId /\ entities[id].location \in EntityId \cup {NoEntity}
  BY DEF EntitiesTyped, Entity
<1>3. \A x \in Items(Inventory(inventories, caller)) : x \in EntityId
  BY InventoryType DEF Items
<1>4. ASSUME NEW a \in EntityId, NEW z \in EntityId, MoveActor(a, z)  PROVE FieldsTyped'
  BY <1>4, LocatedType DEF MoveActor, IsKind
<1>5. ASSUME NEW i \in EntityId, TakeItem(i)  PROVE FieldsTyped'
  BY <1>1, <1>5, LocatedType, PushedType DEF TakeItem, IsKind
<1>6. ASSUME NEW i \in EntityId, DropItem(i)  PROVE FieldsTyped'
  BY <1>2, <1>6, LocatedType, RemovedType DEF DropItem, CallerExists
<1>7. ASSUME NEW i \in EntityId, NEW t \in EntityId, TransferItem(i, t)  PROVE FieldsTyped'
  BY <1>7, LocatedType, RemovedType, PushedType DEF TransferItem, IsKind
<1>8. ASSUME NEW i \in EntityId, NEW l \in EntityId, MoveEntity(i, l)  PROVE FieldsTyped'
  BY <1>8, LocatedType DEF MoveEntity
<1>9. ASSUME NEW k \in EntityKind, NEW l \in EntityId \cup {NoEntity}, NEW n \in Name,
             SpawnEntity(k, l, n)
      PROVE  FieldsTyped'
  BY <1>9, CreateEntityType DEF SpawnEntity
<1>10. ASSUME NEW i \in EntityId, NEW n \in Name, UpdateEntityName(i, n)  PROVE FieldsTyped'
  BY <1>10 DEF UpdateEntityName, EntitiesTyped, Entity
<1>11. ASSUME NEW k \in EventKind, NEW i \in EntityId \cup {NoEntity}, EmitEvent(k, i)
       PROVE  FieldsTyped'
  <2>1. [id |-> next_event_id, head |-> head, kind |-> k,
         entity_id |-> i, data |-> AnyPayload] \in WorldEvent
    BY DEF WorldEvent, EventData, AnyPayload
  <2>2. QED  BY <1>11, <2>1 DEF EmitEvent
<1>12. ASSUME NEW q \in Quest, NEW g \in EntityId, AcceptQuest(q, g)  PROVE FieldsTyped'
  BY <1>1, <1>12 DEF AcceptQuest, ProgressTyped, QuestStatus
<1>13. ASSUME NEW q \in Quest, CompleteQuest(q)  PROVE FieldsTyped'
  <2>1. QuestDef[q].reward_balance \in Nat  BY QuestAssumption DEF QuestDefinition
  <2>2. AccountsTyped(accounts')  BY <1>13, <2>1, CreditedType DEF CompleteQuest
  <2>3. ProgressTyped(quest_progress')
    BY <1>13 DEF CompleteQuest, ProgressTyped, QuestStatus
  <2>4. EntitiesTyped(entities')  BY <1>13 DEF CompleteQuest, EntitiesTyped
  <2>5. InventoriesTyped(inventories')
    <3> DEFINE held == Inventory(inventories, caller)
    <3>1. CASE inventories' = inventories  BY <3>1
    <3>2. CASE \E p \in DOMAIN held :
                 inventories' = [inventories EXCEPT ![caller] = Without(@, held[p])]
      <4>1. PICK p \in DOMAIN held :
              inventories' = [inventories EXCEPT ![caller] = Without(@, held[p])]
        BY <3>2
      <4>2. held[p] \in Items(held)  BY DEF Items
      <4>3. QED  BY <4>1, <4>2, RemovedType
    <3>3. QED  BY <1>13, <3>1, <3>2 DEF CompleteQuest
  <2>6. QED  BY <1>13, <2>2, <2>3, <2>4, <2>5 DEF CompleteQuest
<1>14. ASSUME NEW n \in 1 .. MaxBalance, CreditBalance(n)  PROVE FieldsTyped'
  BY <1>14, CreditedType DEF CreditBalance
<1>15. QED
  BY <1>4, <1>5, <1>6, <1>7, <1>8, <1>9, <1>10, <1>11, <1>12, <1>13, <1>14 DEF HostCall

(* The sets that the events of a commit are drawn from are finite, so a    *)
(* listing of them is a sequence.                                          *)
LEMMA ChangedFinite ==
  ASSUME FieldsTyped, WorldTyped(saved)
  PROVE  /\ ChangedEntities \subseteq EntityId /\ IsFiniteSet(ChangedEntities)
         /\ ChangedProgress \subseteq EntityId \X Quest /\ IsFiniteSet(ChangedProgress)
<1>1. IsFiniteSet(EntityId)  BY BoundAssumption, FS_Interval DEF EntityId
<1>2. IsFiniteSet(EntityId \X Quest)  BY <1>1, QuestAssumption, FS_Product
<1>3. ChangedEntities \subseteq EntityId
  BY DEF ChangedEntities, FieldsTyped, WorldTyped, EntitiesTyped
<1>4. ChangedProgress \subseteq EntityId \X Quest
  BY DEF ChangedProgress, FieldsTyped, ProgressTyped
<1>5. QED  BY <1>1, <1>2, <1>3, <1>4, FS_Subset

(* A listing of a finite set is a sequence of its elements. *)
LEMMA ListingIsSeq ==
  ASSUME NEW S, IsFiniteSet(S), NEW f \in [1 .. Cardinality(S) -> S]
  PROVE  f \in Seq(S)
<1>1. Cardinality(S) \in Nat  BY FS_CardinalityType
<1>2. QED  BY <1>1

(* The events of a commit are typed. *)
LEMMA EpilogueType ==
  ASSUME TypeOK,
         NEW ids \in Ascending(ChangedEntities), NEW keys \in Listings(ChangedProgress)
  PROVE  Epilogue(ids, keys) \in Seq(WorldEvent)
<1> DEFINE e == Len(ids)
           k == Len(keys)
           n == e + k + 1 + Len(tx)
<1>1. FieldsTyped /\ WorldTyped(saved)  BY SnapshotTyped DEF TypeOK
<1>2. ids \in Seq(EntityId)
  <2>1. ids \in Seq(ChangedEntities)  BY <1>1, ChangedFinite, ListingIsSeq DEF Ascending
  <2>2. QED  BY <1>1, <2>1, ChangedFinite
<1>3. keys \in Seq(ChangedProgress)  BY <1>1, ChangedFinite, ListingIsSeq DEF Listings
<1>4. /\ next_event_id \in Nat \ {0} /\ head \in Nat
      /\ ProgressTyped(quest_progress)
  BY <1>1 DEF FieldsTyped
<1>5. tx \in Seq(Transaction) /\ Len(tx) <= 1 /\ caller \in EntityId \cup {NoEntity}
  BY DEF TypeOK
<1>6. e \in Nat /\ k \in Nat /\ n \in Nat  BY <1>2, <1>3, <1>5
<1>7. ASSUME NEW i \in 1 .. n, NEW kind \in EventKind,
             NEW about \in EntityId \cup {NoEntity}, NEW data \in EventData
      PROVE  Stamped(i, kind, about, data) \in WorldEvent
  BY <1>4, <1>6 DEF Stamped, WorldEvent
<1>8. ASSUME NEW i \in 1 .. e
      PROVE  Stamped(i, "entity_changed", ids[i], ChangeOf(ids[i])) \in WorldEvent
  <2>1. ids[i] \in EntityId  BY <1>2
  <2>2. ChangeOf(ids[i]) \in EventData  BY DEF ChangeOf, EventData
  <2>3. QED  BY <1>6, <1>7, <2>1, <2>2 DEF EventKind, SystemKind
<1>9. ASSUME NEW i \in e + 1 .. e + k
      PROVE  Stamped(i, "quest_progress_changed", keys[i - e][1],
                     [quest |-> keys[i - e][2], status |-> quest_progress[keys[i - e]]])
               \in WorldEvent
  <2>1. keys[i - e] \in ChangedProgress  BY <1>3, <1>6
  <2>2. /\ keys[i - e][1] \in EntityId /\ keys[i - e][2] \in Quest
        /\ keys[i - e] \in DOMAIN quest_progress
    BY <1>1, <2>1, ChangedFinite DEF ChangedProgress
  <2>3. quest_progress[keys[i - e]] \in QuestStatus  BY <1>4, <2>2 DEF ProgressTyped
  <2>4. [quest |-> keys[i - e][2], status |-> quest_progress[keys[i - e]]] \in EventData
    BY <2>2, <2>3 DEF EventData
  <2>5. QED  BY <1>6, <1>7, <2>2, <2>4 DEF EventKind, SystemKind
<1>10. Stamped(e + k + 1, "command_executed", caller, AnyPayload) \in WorldEvent
  <2>1. AnyPayload \in EventData  BY DEF AnyPayload, EventData
  <2>2. QED  BY <1>5, <1>6, <1>7, <2>1 DEF EventKind, SystemKind
<1>11. ASSUME e + k + 2 \in 1 .. n
       PROVE  Stamped(e + k + 2, "transaction_executed", caller, [tx |-> tx[1]]) \in WorldEvent
  <2>1. tx[1] \in Transaction  BY <1>5, <1>6, <1>11
  <2>2. [tx |-> tx[1]] \in EventData  BY <2>1 DEF EventData
  <2>3. QED  BY <1>5, <1>6, <1>7, <1>11, <2>2 DEF EventKind, SystemKind
<1> DEFINE ev(i) ==
      CASE i <= e         -> Stamped(i, "entity_changed", ids[i], ChangeOf(ids[i]))
        [] i \in e + 1 .. e + k ->
             Stamped(i, "quest_progress_changed", keys[i - e][1],
                     [quest |-> keys[i - e][2], status |-> quest_progress[keys[i - e]]])
        [] i = e + k + 1  -> Stamped(i, "command_executed", caller, AnyPayload)
        [] i = e + k + 2  -> Stamped(i, "transaction_executed", caller, [tx |-> tx[1]])
<1>12. ASSUME NEW i \in 1 .. n  PROVE ev(i) \in WorldEvent
  <2>1. i \in 1 .. e \/ i \in e + 1 .. e + k \/ i = e + k + 1 \/ i = e + k + 2
    BY <1>5, <1>6
  <2>2. CASE i \in 1 .. e  BY <1>6, <1>8, <2>2
  <2>3. CASE i \in e + 1 .. e + k  BY <1>6, <1>9, <2>3
  <2>4. CASE i = e + k + 1  BY <1>6, <1>10, <2>4
  <2>5. CASE i = e + k + 2  BY <1>6, <1>11, <2>5
  <2>6. QED  BY <2>1, <2>2, <2>3, <2>4, <2>5
<1>13. Epilogue(ids, keys) = [i \in 1 .. n |-> ev(i)]  BY DEF Epilogue
<1> HIDE DEF n, ev
<1>14. [i \in 1 .. n |-> ev(i)] \in Seq(WorldEvent)  BY <1>6, <1>12
<1>15. QED  BY <1>13, <1>14

(* A commit leaves a typed world. *)
LEMMA CommitType ==
  ASSUME TypeOK, Commit
  PROVE  FieldsTyped'
<1>1. FieldsTyped /\ WorldTyped(saved)  BY SnapshotTyped DEF TypeOK
<1>2. PICK ids \in Ascending(ChangedEntities), keys \in Listings(ChangedProgress) :
        /\ events' = events \o Epilogue(ids, keys)
        /\ next_event_id' = next_event_id + Len(Epilogue(ids, keys))
  BY DEF Commit, AppendEpilogue
<1>3. Epilogue(ids, keys) \in Seq(WorldEvent)  BY EpilogueType
<1>4. events' \in Seq(WorldEvent) /\ next_event_id' \in Nat \ {0}
  <2>1. Len(Epilogue(ids, keys)) \in Nat  BY <1>3
  <2>2. events \in Seq(WorldEvent) /\ next_event_id \in Nat \ {0}
    BY <1>1 DEF FieldsTyped
  <2>3. events \o Epilogue(ids, keys) \in Seq(WorldEvent)  BY <1>3, <2>2
  <2>4. QED  BY <1>2, <2>1, <2>2, <2>3
<1>5. AccountsTyped(accounts') /\ ReceiptsTyped(receipts')
  <2>1. AccountsTyped(accounts) /\ ReceiptsTyped(receipts)  BY <1>1 DEF FieldsTyped
  <2>2. CASE tx = <<>>  BY <2>1, <2>2 DEF Commit, SettleTransaction
  <2>3. CASE tx # <<>>
    <3>1. tx[1] \in Transaction  BY <2>3 DEF TypeOK
    <3>2. tx[1].from \in Account /\ tx[1].nonce \in Nat  BY <3>1 DEF Transaction
    <3>3. AccountsTyped(accounts')
      <4>1. accounts' = [accounts EXCEPT ![tx[1].from].nonce = @ + 1]
        BY <2>3 DEF Commit, SettleTransaction
      <4>2. \A a \in DOMAIN accounts :
              [accounts[a] EXCEPT !.nonce = @ + 1] \in AccountState
        BY <2>1 DEF AccountsTyped, AccountState
      <4>3. QED  BY <2>1, <4>1, <4>2 DEF AccountsTyped
    <3>4. ReceiptsTyped(receipts')
      <4>1. receipts' = [t \in DOMAIN receipts \cup {tx[1]} |->
                           IF t = tx[1] THEN [from |-> t.from, nonce |-> t.nonce]
                           ELSE receipts[t]]
        BY <2>3 DEF Commit, SettleTransaction
      <4>2. QED  BY <2>1, <3>1, <3>2, <4>1 DEF ReceiptsTyped
    <3>5. QED  BY <3>3, <3>4
  <2>4. QED  BY <2>2, <2>3
<1>6. QED  BY <1>1, <1>4, <1>5 DEF Commit, FieldsTyped

(* An admin request that is saved leaves a typed world. *)
LEMMA AdminRequestType ==
  ASSUME FieldsTyped, AdminRequest
  PROVE  FieldsTyped'
<1>1. ASSUME NEW a \in Account, NEW k \in BOOLEAN, NEW b \in Deposits, CreateAccount(a, k, b)
      PROVE  FieldsTyped'
  <2>1. [has_key |-> k, nonce |-> 0, balance |-> b] \in AccountState
    BY ScriptAssumption DEF AccountState
  <2>2. QED  BY <1>1, <2>1 DEF CreateAccount, FieldsTyped, AccountsTyped
<1>2. ASSUME NEW c \in Contract, Deploy(c)  PROVE FieldsTyped'
  BY <1>2 DEF Deploy, FieldsTyped
<1>3. ASSUME NEW k \in EntityKind, NEW a \in Account, NEW c \in Contract \cup {NoContract},
             NEW l \in EntityId \cup {NoEntity}, NEW n \in Name,
             CreateEntityByAdmin(k, a, c, l, n)
      PROVE  FieldsTyped'
  <2>1. CreateEntity(k, a, c, l, n)  BY <1>3 DEF CreateEntityByAdmin
  <2>2. EntitiesTyped(entities') /\ next_entity_id' \in Nat \ {0} /\ head' \in Nat
    BY <2>1, CreateEntityType
  <2>3. QED  BY <1>3, <2>2 DEF CreateEntityByAdmin, FieldsTyped
<1>4. QED  BY <1>1, <1>2, <1>3 DEF AdminRequest

(* The world a node starts with is typed. *)
LEMMA TypeInit == Init => TypeOK
<1> SUFFICES ASSUME Init  PROVE TypeOK
  OBVIOUS
<1>1. WorldTyped(Snapshot)
  BY InitAssumption, SnapshotTyped DEF Init, FieldsTyped, WorldTyped
<1>2. caller \in EntityId \cup {NoEntity} /\ calls \in Nat /\ tx \in Seq(Transaction) /\ Len(tx) = 0
  BY DEF Init
<1>3. QED  BY <1>1, <1>2 DEF Init, TypeOK

(* Every step keeps the types. *)
LEMMA TypeStep == TypeOK /\ [Next]_vars => TypeOK'
<1> SUFFICES ASSUME TypeOK, [Next]_vars  PROVE TypeOK'
  OBVIOUS
<1>1. FieldsTyped /\ WorldTyped(saved)  BY SnapshotTyped DEF TypeOK
<1>2. CASE Request
  <2>1. world' = world /\ saved' = saved /\ calls' = calls
    BY <1>2 DEF Request, BeginCommand, BeginTransaction
  <2>2. FieldsTyped'  BY <1>1, <2>1 DEF world, FieldsTyped
  <2>3. caller' \in EntityId /\ tx' \in Seq(Transaction) /\ Len(tx') <= 1
    <3>1. ASSUME NEW e \in EntityId, BeginCommand(e)
          PROVE  caller' \in EntityId /\ tx' \in Seq(Transaction) /\ Len(tx') <= 1
      BY <3>1 DEF BeginCommand, TypeOK
    <3>2. ASSUME NEW t \in [from : Account, nonce : 0 .. MaxHead, entity_id : EntityId,
                            intent : Intent, signature : {"none", "valid", "invalid"}],
                 BeginTransaction(t)
          PROVE  caller' \in EntityId /\ tx' \in Seq(Transaction) /\ Len(tx') <= 1
      <4>1. t \in Transaction  BY DEF Transaction
      <4>2. caller' = t.entity_id /\ tx' = <<t>>  BY <3>2 DEF BeginTransaction
      <4>3. QED  BY <4>1, <4>2 DEF Transaction
    <3>3. QED  BY <1>2, <3>1, <3>2 DEF Request
  <2>4. QED  BY <1>1, <2>1, <2>2, <2>3, SnapshotTypedNext DEF TypeOK
<1>3. CASE HostCall
  <2>1. FieldsTyped'  BY <1>1, <1>3, HostCallType, Zenon
  <2>2. saved' = saved /\ caller' = caller /\ tx' = tx /\ calls' = calls + 1
    BY <1>3 DEF HostCall, MoveActor, TakeItem, DropItem, TransferItem, MoveEntity,
                SpawnEntity, UpdateEntityName, EmitEvent, AcceptQuest, CompleteQuest,
                CreditBalance, Calling
  <2>3. QED  BY <2>1, <2>2, SnapshotTypedNext DEF TypeOK
<1>4. CASE Fail
  <2>1. FieldsTyped'  BY <1>1, <1>4 DEF Fail, FieldsTyped, WorldTyped
  <2>2. QED  BY <1>1, <1>4, <2>1, SnapshotTypedNext DEF Fail, EndRequest, TypeOK
<1>5. CASE Commit
  <2>1. FieldsTyped'  BY <1>5, CommitType
  <2>2. WorldTyped(saved')  BY <1>5, <2>1, SnapshotTypedNext DEF Commit, Save
  <2>3. QED  BY <1>5, <2>1, <2>2, SnapshotTypedNext DEF Commit, EndRequest, TypeOK
<1>6. CASE AdminRequest
  <2>1. FieldsTyped'  BY <1>1, <1>6, AdminRequestType
  <2>2. saved' = Snapshot' /\ UNCHANGED request
    BY <1>6 DEF AdminRequest, CreateAccount, Deploy, CreateEntityByAdmin, Admin, Save
  <2>3. WorldTyped(saved')  BY <2>1, <2>2, SnapshotTypedNext
  <2>4. QED  BY <2>1, <2>2, <2>3, SnapshotTypedNext DEF request, TypeOK
<1>7. CASE UNCHANGED vars
  <2>1. FieldsTyped'  BY <1>1, <1>7 DEF vars, world, FieldsTyped
  <2>2. QED  BY <1>7, <2>1, SnapshotTypedNext DEF vars, request, TypeOK
<1>8. QED  BY <1>2, <1>3, <1>4, <1>5, <1>6, <1>7 DEF Next

(* Every world the node works on and every world it commits is typed:      *)
(* balances stay within u64, whatever contracts credit and quests reward,  *)
(* ids stay within their range and the log holds well-formed events only.  *)
THEOREM TypeCorrect == Spec => []TypeOK
BY TypeInit, TypeStep, PTL DEF Spec

----------------------------------------------------------------------------
(* Contracts that use only the safe calls.                                 *)

(* Only actors run contracts.                                              *)
OnlyActorsScripted(ents) ==
  \A id \in DOMAIN ents : ents[id].contract # NoContract => ents[id].kind = "actor"

(***************************************************************************)
(* HeldConsistent is not inductive: a refused command goes back to the     *)
(* saved world, which must be consistent too, and the items the caller     *)
(* takes are consistent only because the caller is an actor throughout.    *)
(***************************************************************************)
CallerIsActor ==
  ~Idle => /\ saved.entities[caller].contract \in Contract
           /\ IsKind(entities, caller, {"actor"})

SafeInv ==
  /\ Consistent(entities, inventories)
  /\ OnlyActorsScripted(entities)
  /\ Consistent(saved.entities, saved.inventories)
  /\ OnlyActorsScripted(saved.entities)
  /\ Idle => entities = saved.entities
  /\ CallerIsActor

SafeScripts ==
  /\ \A c \in Contract : Script[c] \subseteq SafeCalls
  /\ Scriptable \subseteq {"actor"}
  /\ OnlyActorsScripted(InitWorld.entities)

(* A host call that leaves the kinds, the contracts and the caller as they *)
(* were keeps what the invariant says of them.                             *)
LEMMA LocatedScripted ==
  ASSUME NEW ents, EntitiesTyped(ents), NEW id \in DOMAIN ents, NEW at
  PROVE  /\ OnlyActorsScripted(ents) => OnlyActorsScripted(Located(ents, id, at))
         /\ \A e, kinds : IsKind(ents, e, kinds) => IsKind(Located(ents, id, at), e, kinds)
BY LocatedFields DEF OnlyActorsScripted, IsKind, Kind

(* The location of the caller of drop_item is a zone. *)
LEMMA CallerInZone ==
  ASSUME SafeInv, ~Idle, entities[caller].location # NoEntity
  PROVE  IsKind(entities, entities[caller].location, {"zone"})
BY DEF SafeInv, CallerIsActor, Consistent, ValidateLocations, IsKind, Kind

(* The part of the invariant that a host call of a safe script can disturb. *)
LEMMA SafeHostCall ==
  ASSUME SafeScripts, TypeOK, SafeInv, HostCall
  PROVE  /\ Consistent(entities', inventories')
         /\ OnlyActorsScripted(entities')
         /\ IsKind(entities', caller, {"actor"})
<1> DEFINE Goal == /\ Consistent(entities', inventories')
                   /\ OnlyActorsScripted(entities')
                   /\ IsKind(entities', caller, {"actor"})
<1>1. EntitiesTyped(entities) /\ InventoriesTyped(inventories)
  BY SnapshotTyped DEF TypeOK, FieldsTyped
<1>2. Consistent(entities, inventories) /\ OnlyActorsScripted(entities)  BY DEF SafeInv
<1>3. ASSUME NEW f, Calling(f)
      PROVE  f \in SafeCalls /\ ~Idle /\ IsKind(entities, caller, {"actor"})
  BY <1>3 DEF Calling, SafeInv, CallerIsActor, SafeScripts
<1>4. ASSUME NEW a \in EntityId, NEW z \in EntityId, MoveActor(a, z)  PROVE Goal
  <2>1. a \in DOMAIN entities  BY <1>4 DEF MoveActor, IsKind
  <2>2. QED
    BY <1>1, <1>2, <1>3, <1>4, <2>1, ActorMoved, LocatedScripted DEF MoveActor
<1>5. ASSUME NEW i \in EntityId, TakeItem(i)  PROVE Goal
  <2>1. i \in DOMAIN entities  BY <1>5 DEF TakeItem, IsKind
  <2>2. QED
    BY <1>1, <1>2, <1>3, <1>5, <2>1, ItemListed, LocatedScripted DEF TakeItem
<1>6. ASSUME NEW i \in EntityId, DropItem(i)  PROVE Goal
  <2>1. i \in DOMAIN entities /\ i \in Items(Inventory(inventories, caller))
    BY <1>6 DEF DropItem
  <2>2. IsKind(entities, entities[caller].location, {"zone"})
    BY <1>3, <1>6, CallerInZone DEF DropItem
  <2>3. QED
    BY <1>1, <1>2, <1>3, <1>6, <2>1, <2>2, ItemUnlisted, LocatedScripted DEF DropItem
<1>7. ASSUME NEW i \in EntityId, NEW t \in EntityId, TransferItem(i, t)  PROVE Goal
  (* Handing over is dropping nowhere and taking from there. *)
  <2> DEFINE ents2 == Located(entities, i, NoEntity)
             invs2 == [inventories EXCEPT ![caller] = Without(@, i)]
  <2>1. /\ i \in DOMAIN entities /\ i \in Items(Inventory(inventories, caller))
        /\ IsKind(entities, i, {"item"}) /\ IsKind(entities, t, {"actor"})
    BY <1>7 DEF TransferItem, IsKind
  <2>2. Consistent(ents2, invs2) /\ \A b \in DOMAIN invs2 : i \notin Items(invs2[b])
    BY <1>1, <1>2, <2>1, ItemUnlisted
  <2>3. EntitiesTyped(ents2) /\ InventoriesTyped(invs2)
    BY <1>1, <2>1, LocatedType, RemovedType
  <2>4. IsKind(ents2, i, {"item"}) /\ IsKind(ents2, t, {"actor"})
    BY <1>1, <2>1, LocatedScripted
  <2>5. Consistent(Located(ents2, i, t), Pushed(invs2, t, i))
    BY <2>2, <2>3, <2>4, ItemListed
  <2>6. Located(ents2, i, t) = Located(entities, i, t)
    BY <1>1, <2>1 DEF Located, EntitiesTyped, Entity
  <2>7. entities' = Located(entities, i, t) /\ inventories' = Pushed(invs2, t, i)
    BY <1>7 DEF TransferItem
  <2>8. IsKind(entities', caller, {"actor"}) /\ OnlyActorsScripted(entities')
    BY <1>1, <1>2, <1>3, <1>7, <2>1, <2>7, LocatedScripted DEF TransferItem
  <2>9. QED  BY <2>5, <2>6, <2>7, <2>8
<1>8. ASSUME NEW i \in EntityId, NEW l \in EntityId, MoveEntity(i, l)  PROVE Goal
  BY <1>3, <1>8 DEF MoveEntity, SafeCalls
<1>9. ASSUME NEW k \in EntityKind, NEW l \in EntityId \cup {NoEntity}, NEW n \in Name,
             SpawnEntity(k, l, n)
      PROVE  Goal
  BY <1>3, <1>9 DEF SpawnEntity, SafeCalls
<1>10. ASSUME NEW i \in EntityId, NEW n \in Name, UpdateEntityName(i, n)  PROVE Goal
  BY <1>3, <1>10 DEF UpdateEntityName, SafeCalls
<1>11. ASSUME NEW q \in Quest, CompleteQuest(q)  PROVE Goal
  <2> DEFINE held == Inventory(inventories, caller)
  <2>0. IsKind(entities, caller, {"actor"})  BY <1>3, <1>11 DEF CompleteQuest
  <2>1. CASE UNCHANGED <<inventories, entities>>  BY <1>2, <2>0, <2>1
  <2>2. CASE \E p \in DOMAIN held :
               /\ held[p] \in DOMAIN entities
               /\ inventories' = [inventories EXCEPT ![caller] = Without(@, held[p])]
               /\ entities' = [id \in DOMAIN entities \ {held[p]} |-> entities[id]]
    <3>1. PICK p \in DOMAIN held :
            /\ held[p] \in DOMAIN entities
            /\ inventories' = [inventories EXCEPT ![caller] = Without(@, held[p])]
            /\ entities' = [id \in DOMAIN entities \ {held[p]} |-> entities[id]]
      BY <2>2
    <3> DEFINE x     == held[p]
               ents2 == Located(entities, x, NoEntity)
    <3>2. x \in Items(held)  BY DEF Items
    <3>3. IsKind(entities, x, {"item"})
      BY <1>2, <3>2 DEF Consistent, ValidateInventories, ListedItemsAreHere, Items, Inventory
    <3>4. Consistent(ents2, inventories') /\ \A b \in DOMAIN inventories' : x \notin Items(inventories'[b])
      BY <1>1, <1>2, <3>1, <3>2, ItemUnlisted
    <3>5. EntitiesTyped(ents2) /\ IsKind(ents2, x, {"item"})
      BY <1>1, <3>1, <3>3, LocatedType, LocatedScripted
    <3>6. Consistent([id \in DOMAIN ents2 \ {x} |-> ents2[id]], inventories')
      BY <3>4, <3>5, ItemDeleted
    <3>7. [id \in DOMAIN ents2 \ {x} |-> ents2[id]] = entities'
      BY <1>1, <3>1 DEF Located, EntitiesTyped
    <3>8. x # caller  BY <2>0, <3>3 DEF IsKind, Kind
    <3>9. OnlyActorsScripted(entities') /\ IsKind(entities', caller, {"actor"})
      BY <1>2, <2>0, <3>1, <3>8 DEF OnlyActorsScripted, IsKind, Kind
    <3>10. QED  BY <3>6, <3>7, <3>9
  <2>3. QED  BY <1>11, <2>1, <2>2 DEF CompleteQuest, FirstNamed
<1>12. ASSUME UNCHANGED <<entities, inventories>>, \E f : Calling(f)  PROVE Goal
  BY <1>2, <1>3, <1>12
<1>13. QED
  BY <1>4, <1>5, <1>6, <1>7, <1>8, <1>9, <1>10, <1>11, <1>12
     DEF HostCall, EmitEvent, AcceptQuest, CreditBalance

(* If contracts use only the safe calls and only actors run them, every    *)
(* world any command passes through has well-formed locations and          *)
(* inventories: move_actor, take_item, drop_item, transfer_item and        *)
(* complete_quest never rely on save to refuse what they make.             *)
THEOREM SafeContractsConsistent ==
  ASSUME SafeScripts
  PROVE  Spec => []HeldConsistent
<1>1. Init => SafeInv
  <2> SUFFICES ASSUME Init  PROVE SafeInv
    OBVIOUS
  <2>1. Consistent(entities, inventories) /\ OnlyActorsScripted(entities)
    BY InitAssumption DEF Init, WorldValid, Consistent, SafeScripts
  <2>2. saved.entities = entities /\ saved.inventories = inventories /\ Idle
    BY DEF Init, Snapshot, Idle
  <2>3. QED  BY <2>1, <2>2 DEF SafeInv, CallerIsActor
<1>2. TypeOK /\ SafeInv /\ [Next]_vars => SafeInv'
  <2> SUFFICES ASSUME TypeOK, SafeInv, [Next]_vars  PROVE SafeInv'
    OBVIOUS
  <2>1. CASE Request
    <3>1. UNCHANGED <<entities, inventories, saved>> /\ Idle
      BY <2>1 DEF Request, BeginCommand, BeginTransaction, world
    <3>2. caller' \in EntityId /\ caller' \in DOMAIN entities /\ entities[caller'].contract \in contracts
      BY <2>1 DEF Request, BeginCommand, BeginTransaction
    <3>3. entities[caller'].contract \in Contract
      BY <3>2, SnapshotTyped DEF TypeOK, FieldsTyped
    <3>4. entities[caller'].kind = "actor"
      BY <3>2, <3>3, ContractAssumption DEF SafeInv, OnlyActorsScripted
    <3>5. ~Idle'  BY <3>2 DEF Idle, EntityId, NoEntity
    <3>6. CallerIsActor'
      BY <3>1, <3>2, <3>3, <3>4 DEF SafeInv, CallerIsActor, IsKind, Kind
    <3>7. QED  BY <3>1, <3>5, <3>6 DEF SafeInv
  <2>2. CASE HostCall
    <3>1. saved' = saved /\ caller' = caller /\ ~Idle
      BY <2>2 DEF HostCall, MoveActor, TakeItem, DropItem, TransferItem, MoveEntity,
                  SpawnEntity, UpdateEntityName, EmitEvent, AcceptQuest, CompleteQuest,
                  CreditBalance, Calling
    <3>2. QED  BY <2>2, <3>1, SafeHostCall, SMTT(30) DEF SafeInv, CallerIsActor, Idle
  <2>3. CASE Fail
    <3>1. /\ entities' = saved.entities /\ inventories' = saved.inventories
          /\ saved' = saved /\ Idle'
      BY <2>3 DEF Fail, EndRequest, Idle
    <3>2. QED  BY <3>1 DEF SafeInv, CallerIsActor
  <2>4. CASE Commit
    <3>1. /\ UNCHANGED <<entities, inventories>> /\ saved' = Snapshot' /\ Idle'
      BY <2>4 DEF Commit, Save, EndRequest, Idle
    <3>2. saved'.entities = entities' /\ saved'.inventories = inventories'
      BY <3>1 DEF Snapshot
    <3>3. QED  BY <3>1, <3>2 DEF SafeInv, CallerIsActor
  <2>5. CASE AdminRequest
    <3>1. WorldValid(Snapshot)' /\ saved' = Snapshot' /\ Idle /\ caller' = caller
      BY <2>5 DEF AdminRequest, CreateAccount, Deploy, CreateEntityByAdmin, Admin, Save, request
    <3>2. saved'.entities = entities' /\ saved'.inventories = inventories'
      BY <3>1 DEF Snapshot
    <3>3. Consistent(entities', inventories')
      BY <3>1 DEF WorldValid, Snapshot, Consistent
    <3>4. OnlyActorsScripted(entities')
      <4>1. CASE UNCHANGED entities  BY <4>1 DEF SafeInv
      <4>2. ASSUME NEW k \in EntityKind, NEW a \in Account, NEW c \in Contract \cup {NoContract},
                   NEW l \in EntityId \cup {NoEntity}, NEW n \in Name,
                   CreateEntityByAdmin(k, a, c, l, n)
            PROVE  OnlyActorsScripted(entities')
        <5>1. c # NoContract => k = "actor"  BY <4>2 DEF CreateEntityByAdmin, SafeScripts
        <5>2. entities' = [id \in DOMAIN entities \cup {FreshId} |->
                             IF id = FreshId
                             THEN [kind |-> k, owner |-> a, location |-> l,
                                   contract |-> c, name |-> n]
                             ELSE entities[id]]
          BY <4>2 DEF CreateEntityByAdmin, CreateEntity
        <5>3. QED  BY <5>1, <5>2 DEF SafeInv, OnlyActorsScripted
      <4>3. QED  BY <2>5, <4>1, <4>2 DEF AdminRequest, CreateAccount, Deploy
    <3>5. QED  BY <3>1, <3>2, <3>3, <3>4 DEF SafeInv, CallerIsActor, Idle
  <2>6. CASE UNCHANGED vars
    BY <2>6 DEF vars, world, request, SafeInv, CallerIsActor, Idle
  <2>7. QED  BY <2>1, <2>2, <2>3, <2>4, <2>5, <2>6 DEF Next
<1>3. SafeInv => HeldConsistent  BY DEF SafeInv, Consistent, HeldConsistent
<1>4. QED  BY <1>1, <1>2, <1>3, TypeCorrect, PTL DEF Spec

----------------------------------------------------------------------------
(* What the commit protocol guarantees whatever the contracts do.          *)

(* saved has the fields of a world and no other.                           *)
SavedIsWorld ==
  saved = [accounts |-> saved.accounts, contracts |-> saved.contracts,
           entities |-> saved.entities, inventories |-> saved.inventories,
           quest_progress |-> saved.quest_progress, events |-> saved.events,
           next_event_id |-> saved.next_event_id,
           next_entity_id |-> saved.next_entity_id,
           head |-> saved.head, receipts |-> saved.receipts]

(* The worlds that failures return to are valid: ServedWorldValid rests on *)
(* the restore of mutate_and_save being complete.                          *)
ServedInv ==
  /\ SavedIsWorld
  /\ WorldValid(saved)
  /\ Idle => Snapshot = saved

(* The world is untouched while a request starts and while it runs, the    *)
(* last commit is.                                                         *)
LEMMA HostCallKeeps ==
  ASSUME HostCall
  PROVE  saved' = saved /\ caller' = caller /\ tx' = tx /\ ~Idle
BY DEF HostCall, MoveActor, TakeItem, DropItem, TransferItem, MoveEntity, SpawnEntity,
       UpdateEntityName, EmitEvent, AcceptQuest, CompleteQuest, CreditBalance, Calling

(* Whatever contracts do, the world served between requests passes the     *)
(* validation and is the last one saved: a command that breaks the world   *)
(* in the middle, or fails after it, leaves nothing behind.                *)
THEOREM ServedWorldIsValid == Spec => []ServedWorldValid
<1>1. Init => ServedInv
  <2> SUFFICES ASSUME Init  PROVE ServedInv
    OBVIOUS
  <2>1. saved = Snapshot  BY DEF Init
  <2>2. WorldValid(Snapshot)  BY InitAssumption DEF Init, Snapshot, WorldValid
  <2>3. SavedIsWorld  BY <2>1 DEF Snapshot, SavedIsWorld
  <2>4. QED  BY <2>1, <2>2, <2>3 DEF ServedInv
<1>2. ServedInv /\ [Next]_vars => ServedInv'
  <2> SUFFICES ASSUME ServedInv, [Next]_vars  PROVE ServedInv'
    OBVIOUS
  <2>1. CASE saved' = saved /\ ~Idle'  BY <2>1 DEF ServedInv, SavedIsWorld
  <2>2. CASE saved' = saved /\ Snapshot' = saved
    BY <2>2 DEF ServedInv, SavedIsWorld
  <2>3. CASE WorldValid(Snapshot)' /\ saved' = Snapshot'
    <3>1. SavedIsWorld'  BY <2>3 DEF Snapshot, SavedIsWorld
    <3>2. QED  BY <2>3, <3>1 DEF ServedInv
  <2>4. CASE Request
    <3>1. saved' = saved /\ caller' \in EntityId
      BY <2>4 DEF Request, BeginCommand, BeginTransaction
    <3>2. QED  BY <2>1, <3>1 DEF Idle, EntityId, NoEntity
  <2>5. CASE HostCall  BY <2>1, <2>5, HostCallKeeps DEF Idle
  <2>6. CASE Fail
    <3>1. saved' = saved /\ Snapshot' = saved
      BY <2>6 DEF Fail, ServedInv, SavedIsWorld, Snapshot
    <3>2. QED  BY <2>2, <3>1
  <2>7. CASE Commit  BY <2>3, <2>7 DEF Commit, Save
  <2>8. CASE AdminRequest
    BY <2>3, <2>8 DEF AdminRequest, CreateAccount, Deploy, CreateEntityByAdmin, Save
  <2>9. CASE UNCHANGED vars
    <3>1. saved' = saved /\ caller' = caller /\ Snapshot' = Snapshot
      BY <2>9 DEF vars, world, request, Snapshot
    <3>2. QED  BY <3>1 DEF ServedInv, SavedIsWorld, Idle
  <2>10. QED  BY <2>4, <2>5, <2>6, <2>7, <2>8, <2>9 DEF Next
<1>3. ServedInv => ServedWorldValid  BY DEF ServedInv, ServedWorldValid
<1>4. QED  BY <1>1, <1>2, <1>3, PTL DEF Spec

(* PrerequisitesFirst of any progress map.                                 *)
InOrder(prog) ==
  \A k \in DOMAIN prog : \A p \in QuestDef[k[2]].prerequisite_quest_ids :
    <<k[1], p>> \in DOMAIN prog /\ prog[<<k[1], p>>] = "completed"

(* No actor, whatever its contract and however its commands interleave     *)
(* with others and fail, starts a quest before it completed every          *)
(* prerequisite of it; completing or accepting never takes that away.      *)
THEOREM PrerequisitesAlwaysFirst ==
  ASSUME InOrder(InitWorld.quest_progress)
  PROVE  Spec => []PrerequisitesFirst
<1> DEFINE Inv == InOrder(quest_progress) /\ InOrder(saved.quest_progress)
<1>1. Init => Inv  BY DEF Init, Snapshot
<1>2. TypeOK /\ Inv /\ [Next]_vars => Inv'
  <2> SUFFICES ASSUME TypeOK, Inv, [Next]_vars  PROVE Inv'
    OBVIOUS
  <2>1. ProgressTyped(quest_progress)  BY SnapshotTyped DEF TypeOK, FieldsTyped
  <2>2. ASSUME NEW q \in Quest, NEW g \in EntityId, AcceptQuest(q, g)  PROVE Inv'
    <3>1. \A p \in QuestDef[q].prerequisite_quest_ids :
            /\ <<caller, p>> \in DOMAIN quest_progress
            /\ quest_progress[<<caller, p>>] = "completed"
      BY <2>2 DEF AcceptQuest, PrerequisitesMet, Completed
    <3>2. /\ <<caller, q>> \notin DOMAIN quest_progress
          /\ quest_progress' = [k \in DOMAIN quest_progress \cup {<<caller, q>>} |->
                                  IF k = <<caller, q>> THEN "accepted" ELSE quest_progress[k]]
      BY <2>2 DEF AcceptQuest
    <3>3. InOrder(quest_progress')
      <4> SUFFICES ASSUME NEW k \in DOMAIN quest_progress',
                          NEW p \in QuestDef[k[2]].prerequisite_quest_ids
                   PROVE  /\ <<k[1], p>> \in DOMAIN quest_progress
                          /\ quest_progress[<<k[1], p>>] = "completed"
        BY <3>2 DEF InOrder
      <4>1. CASE k = <<caller, q>>  BY <3>1, <4>1
      <4>2. CASE k # <<caller, q>>  BY <3>2, <4>2 DEF InOrder
      <4>3. QED  BY <4>1, <4>2
    <3>4. QED  BY <2>2, <3>3 DEF AcceptQuest, Calling
  <2>3. ASSUME NEW q \in Quest, CompleteQuest(q)  PROVE Inv'
    <3>1. quest_progress' = [quest_progress EXCEPT ![<<caller, q>>] = "completed"]
      BY <2>3 DEF CompleteQuest
    <3>2. InOrder(quest_progress')  BY <2>1, <3>1 DEF InOrder, ProgressTyped
    <3>3. QED  BY <2>3, <3>2 DEF CompleteQuest, Calling
  <2>4. CASE UNCHANGED <<quest_progress, saved>>  BY <2>4
  <2>5. CASE Fail  BY <2>5 DEF Fail
  <2>6. CASE Commit  BY <2>6 DEF Commit, Save, Snapshot
  <2>7. CASE AdminRequest
    <3>1. UNCHANGED quest_progress /\ saved' = Snapshot'
      BY <2>7 DEF AdminRequest, CreateAccount, Deploy, CreateEntityByAdmin, Save
    <3>2. saved'.quest_progress = quest_progress'  BY <3>1 DEF Snapshot
    <3>3. QED  BY <3>1, <3>2
  <2>8. CASE Request \/ UNCHANGED vars
    BY <2>4, <2>8 DEF Request, BeginCommand, BeginTransaction, vars, world
  <2>9. CASE HostCall
    BY <2>2, <2>3, <2>4, <2>9
       DEF HostCall, MoveActor, TakeItem, DropItem, TransferItem, MoveEntity, SpawnEntity,
           UpdateEntityName, EmitEvent, CreditBalance, Calling
  <2>10. QED  BY <2>5, <2>6, <2>7, <2>8, <2>9 DEF Next
<1>3. Inv => PrerequisitesFirst
  <2> SUFFICES ASSUME InOrder(quest_progress),
                      NEW k \in DOMAIN quest_progress,
                      NEW p \in QuestDef[k[2]].prerequisite_quest_ids
               PROVE  Completed(k[1], p)
    BY DEF PrerequisitesFirst
  <2>1. QED  BY DEF InOrder, Completed
<1>4. QED  BY <1>1, <1>2, <1>3, TypeCorrect, PTL DEF Spec

----------------------------------------------------------------------------
(* The log.                                                                *)

(* Events numbered without a gap up to next, with heads in order.          *)
LogInOrder(evs, next, hd) ==
  /\ \A i \in DOMAIN evs : evs[i].id = next - Len(evs) + i - 1 /\ evs[i].head <= hd
  /\ \A i, j \in DOMAIN evs : i < j => evs[i].head <= evs[j].head

(* Appending events of the current or the next head keeps the log in order. *)
LEMMA LogAppended ==
  ASSUME NEW evs \in Seq(WorldEvent), NEW next \in Nat, NEW hd \in Nat,
         LogInOrder(evs, next, hd),
         NEW new \in Seq(WorldEvent), NEW hd2 \in Nat, hd2 >= hd,
         NEW at \in Nat, hd <= at, at <= hd2,
         \A i \in DOMAIN new : new[i].id = next + i - 1 /\ new[i].head = at
  PROVE  LogInOrder(evs \o new, next + Len(new), hd2)
<1> DEFINE log == evs \o new
           m == Len(evs)
           n == Len(new)
<1>1. /\ m \in Nat /\ n \in Nat /\ Len(log) = m + n /\ DOMAIN log = 1 .. m + n
      /\ DOMAIN evs = 1 .. m /\ DOMAIN new = 1 .. n
      /\ \A i \in 1 .. m : log[i] = evs[i]
      /\ \A i \in m + 1 .. m + n : log[i] = new[i - m]
  OBVIOUS
<1>2. \A i \in 1 .. m : evs[i].head \in Nat /\ evs[i].id \in Nat
  <2>1. \A i \in 1 .. m : evs[i] \in WorldEvent  BY <1>1
  <2>2. QED  BY <2>1 DEF WorldEvent
<1> HIDE DEF log, m, n
<1>3. \A i \in 1 .. m : log[i].id = next - m + i - 1 /\ log[i].head <= hd
  BY <1>1 DEF LogInOrder, m
<1>4. \A i \in m + 1 .. m + n : log[i].id = next + i - m - 1 /\ log[i].head = at
  <2> SUFFICES ASSUME NEW i \in m + 1 .. m + n
               PROVE  log[i].id = next + i - m - 1 /\ log[i].head = at
    OBVIOUS
  <2>1. i - m \in DOMAIN new  BY <1>1
  <2>2. QED  BY <1>1, <2>1
<1>5. ASSUME NEW i \in 1 .. m + n
      PROVE  log[i].id = next + n - (m + n) + i - 1 /\ log[i].head <= hd2
  <2>1. CASE i \in 1 .. m  BY <1>1, <1>2, <1>3, <2>1
  <2>2. CASE i \in m + 1 .. m + n  BY <1>1, <1>4, <2>2, SMTT(30)
  <2>3. QED  BY <1>1, <2>1, <2>2
<1>6. ASSUME NEW i \in 1 .. m + n, NEW j \in 1 .. m + n, i < j
      PROVE  log[i].head <= log[j].head
  <2>1. CASE j \in 1 .. m
    <3>1. i \in 1 .. m  BY <1>1, <1>6, <2>1
    <3>2. evs[i].head <= evs[j].head  BY <1>1, <1>6, <2>1, <3>1 DEF LogInOrder
    <3>3. QED  BY <1>1, <2>1, <3>1, <3>2
  <2>2. CASE i \in 1 .. m /\ j \in m + 1 .. m + n
    BY <1>1, <1>2, <1>3, <1>4, <2>2, SMTT(30)
  <2>3. CASE i \in m + 1 .. m + n /\ j \in m + 1 .. m + n  BY <1>4, <2>3
  <2>4. QED  BY <1>1, <1>6, <2>1, <2>2, <2>3
<1>7. LogInOrder(log, next + n, hd2)  BY <1>1, <1>5, <1>6 DEF LogInOrder
<1>8. QED  BY <1>7 DEF log, n

(* The events of a commit are numbered from the next id and carry the head *)
(* the commit makes.                                                       *)
LEMMA EpilogueNumbered ==
  ASSUME TypeOK,
         NEW ids \in Ascending(ChangedEntities), NEW keys \in Listings(ChangedProgress),
         NEW i \in DOMAIN Epilogue(ids, keys)
  PROVE  /\ Epilogue(ids, keys)[i].id = next_event_id + i - 1
         /\ Epilogue(ids, keys)[i].head = head + 1
<1> DEFINE e == Len(ids)
           k == Len(keys)
           n == e + k + 1 + Len(tx)
<1>1. FieldsTyped /\ WorldTyped(saved)  BY SnapshotTyped DEF TypeOK
<1>2. ids \in Seq(ChangedEntities) /\ keys \in Seq(ChangedProgress)
  BY <1>1, ChangedFinite, ListingIsSeq DEF Ascending, Listings
<1>3. e \in Nat /\ k \in Nat /\ Len(tx) \in Nat /\ Len(tx) <= 1  BY <1>2 DEF TypeOK
<1>4. i \in 1 .. n  BY DEF Epilogue
<1> HIDE DEF e, k, n
<1>5. i <= e \/ i \in e + 1 .. e + k \/ i = e + k + 1 \/ i = e + k + 2
  BY <1>3, <1>4 DEF n
<1>6. \E kind, about, data : Epilogue(ids, keys)[i] = Stamped(i, kind, about, data)
  <2>1. CASE i <= e  BY <1>4, <2>1 DEF Epilogue, e, k, n
  <2>2. CASE i \in e + 1 .. e + k /\ ~(i <= e)
    BY <1>4, <2>2, SMTT(30) DEF Epilogue, e, k, n
  <2>3. CASE i = e + k + 1  BY <1>3, <1>4, <2>3 DEF Epilogue, e, k, n
  <2>4. CASE i = e + k + 2  BY <1>3, <1>4, <2>4 DEF Epilogue, e, k, n
  <2>5. QED  BY <1>3, <1>5, <2>1, <2>2, <2>3, <2>4
<1>7. QED  BY <1>6 DEF Stamped

(* The log in memory and the saved log are in order, and the head of the   *)
(* world a command works on is not behind the saved one.                   *)
LogInv ==
  /\ LogInOrder(events, next_event_id, head)
  /\ LogInOrder(saved.events, saved.next_event_id, saved.head)

(* The heads and ids of a step that appends no event. *)
LEMMA HeadAdvanced ==
  ASSUME TypeOK, LogInOrder(events, next_event_id, head),
         events' = events, next_event_id' = next_event_id,
         head' = head \/ head' = head + 1
  PROVE  LogInOrder(events', next_event_id', head')
<1>1. events \in Seq(WorldEvent) /\ head \in Nat
  BY SnapshotTyped DEF TypeOK, FieldsTyped
<1>2. \A i \in DOMAIN events : events[i] \in WorldEvent  BY <1>1
<1>3. \A i \in DOMAIN events : events[i].head \in Nat  BY <1>2 DEF WorldEvent
<1>4. \A i \in DOMAIN events : events[i].head <= head'  BY <1>1, <1>3 DEF LogInOrder
<1>5. QED  BY <1>4 DEF LogInOrder

(* A host call keeps the log in order: spawn_entity advances the head in   *)
(* the middle of a command, and emit_event stamps the head it finds.       *)
LEMMA HostCallLog ==
  ASSUME TypeOK, LogInOrder(events, next_event_id, head), HostCall
  PROVE  LogInOrder(events', next_event_id', head')
<1>1. /\ events \in Seq(WorldEvent) /\ head \in Nat
      /\ next_event_id \in Nat
  BY SnapshotTyped DEF TypeOK, FieldsTyped
<1>2. ASSUME NEW k \in EventKind, NEW i \in EntityId \cup {NoEntity}, EmitEvent(k, i)
      PROVE  LogInOrder(events', next_event_id', head')
  <2> DEFINE ev  == [id |-> next_event_id, head |-> head, kind |-> k,
                     entity_id |-> i, data |-> AnyPayload]
             new == <<ev>>
  <2>1. ev \in WorldEvent  BY <1>1 DEF WorldEvent, EventData, AnyPayload
  <2>2. new \in Seq(WorldEvent) /\ Len(new) = 1 /\ DOMAIN new = {1}  BY <2>1
  <2>3. new[1].id = next_event_id + 1 - 1 /\ new[1].head = head  BY <1>1
  <2>4. \A j \in DOMAIN new : new[j].id = next_event_id + j - 1 /\ new[j].head = head
    BY <2>2, <2>3
  <2>5. events' = events \o new /\ next_event_id' = next_event_id + Len(new) /\ head' = head
    BY <1>1, <1>2, <2>1, <2>2 DEF EmitEvent
  <2> HIDE DEF new
  <2>6. head >= head /\ head <= head  BY <1>1
  <2>7. LogInOrder(events \o new, next_event_id + Len(new), head)
    BY <1>1, <2>2, <2>4, <2>6, LogAppended
  <2>8. QED  BY <2>5, <2>7
<1>3. CASE /\ events' = events /\ next_event_id' = next_event_id
           /\ head' = head \/ head' = head + 1
  BY <1>3, HeadAdvanced
<1>4. QED
  BY <1>2, <1>3
     DEF HostCall, MoveActor, TakeItem, DropItem, TransferItem, MoveEntity, SpawnEntity,
         CreateEntity, UpdateEntityName, AcceptQuest, CompleteQuest, CreditBalance

(* If it starts so, the log numbers its events without a gap and never     *)
(* goes back to an earlier head, in every committed world and at every     *)
(* point inside a command, whatever the contracts emit and spawn.          *)
THEOREM LogAlwaysInOrder ==
  ASSUME LogInOrder(InitWorld.events, InitWorld.next_event_id, InitWorld.head)
  PROVE  Spec => []LogFollowsHead
<1>1. Init => LogInv
  <2>1. Init => saved.events = events /\ saved.head = head /\ saved.next_event_id = next_event_id
    BY DEF Init, Snapshot
  <2>2. QED  BY <2>1 DEF Init, LogInv
<1>2. TypeOK /\ LogInv /\ [Next]_vars => LogInv'
  <2> SUFFICES ASSUME TypeOK, LogInv, [Next]_vars  PROVE LogInv'
    OBVIOUS
  <2>1. /\ events \in Seq(WorldEvent) /\ head \in Nat /\ next_event_id \in Nat
    BY SnapshotTyped DEF TypeOK, FieldsTyped
  <2>2. CASE Request \/ UNCHANGED vars
    BY <2>2 DEF Request, BeginCommand, BeginTransaction, vars, world, LogInv
  <2>3. CASE HostCall  BY <2>3, HostCallKeeps, HostCallLog DEF LogInv
  <2>4. CASE Fail  BY <2>4 DEF Fail, LogInv
  <2>5. CASE Commit
    <3>1. PICK ids \in Ascending(ChangedEntities), keys \in Listings(ChangedProgress) :
            /\ events' = events \o Epilogue(ids, keys)
            /\ next_event_id' = next_event_id + Len(Epilogue(ids, keys))
      BY <2>5 DEF Commit, AppendEpilogue
    <3>2. head' = head + 1 /\ saved' = Snapshot'  BY <2>5 DEF Commit, Save
    <3>3. Epilogue(ids, keys) \in Seq(WorldEvent)  BY EpilogueType
    <3>4. \A i \in DOMAIN Epilogue(ids, keys) :
            /\ Epilogue(ids, keys)[i].id = next_event_id + i - 1
            /\ Epilogue(ids, keys)[i].head = head + 1
      BY EpilogueNumbered
    <3>5. head + 1 \in Nat /\ head + 1 >= head /\ head <= head + 1 /\ head + 1 <= head + 1
      BY <2>1
    <3>6. LogInOrder(events, next_event_id, head)  BY DEF LogInv
    <3>7. LogInOrder(events', next_event_id', head')
      BY <2>1, <3>1, <3>2, <3>3, <3>4, <3>5, <3>6, LogAppended
    <3>8. /\ saved'.events = events' /\ saved'.head = head'
          /\ saved'.next_event_id = next_event_id'
      BY <3>2 DEF Snapshot
    <3>9. QED  BY <3>7, <3>8 DEF LogInv
  <2>6. CASE AdminRequest
    <3>1. /\ events' = events /\ next_event_id' = next_event_id /\ head' = head + 1
          /\ saved' = Snapshot'
      BY <2>6 DEF AdminRequest, CreateAccount, Deploy, CreateEntityByAdmin, CreateEntity, Save
    <3>2. LogInOrder(events', next_event_id', head')  BY <3>1, HeadAdvanced DEF LogInv
    <3>3. /\ saved'.events = events' /\ saved'.head = head'
          /\ saved'.next_event_id = next_event_id'
      BY <3>1 DEF Snapshot
    <3>4. QED  BY <3>2, <3>3 DEF LogInv
  <2>7. QED  BY <2>2, <2>3, <2>4, <2>5, <2>6 DEF Next
<1>3. TypeOK /\ LogInv => LogFollowsHead
  <2> SUFFICES ASSUME TypeOK, LogInv,
                      NEW i \in DOMAIN events, NEW j \in DOMAIN events, i < j
               PROVE  events[j].id = events[i].id + (j - i) /\ events[i].head <= events[j].head
    BY DEF LogFollowsHead
  <2>1. events \in Seq(WorldEvent) /\ next_event_id \in Nat
    BY SnapshotTyped DEF TypeOK, FieldsTyped
  <2>2. i \in Nat /\ j \in Nat /\ Len(events) \in Nat  BY <2>1
  <2>3. QED  BY <2>1, <2>2 DEF LogInv, LogInOrder
<1>4. QED  BY <1>1, <1>2, <1>3, TypeCorrect, PTL DEF Spec

(* new starts with old. *)
Extends(new, old) == Len(old) <= Len(new) /\ \A i \in 1 .. Len(old) : new[i] = old[i]

LEMMA AppendExtends ==
  ASSUME NEW evs \in Seq(WorldEvent), NEW old \in Seq(WorldEvent), Extends(evs, old),
         NEW more \in Seq(WorldEvent)
  PROVE  Extends(evs \o more, old)
<1>1. Len(evs \o more) = Len(evs) + Len(more) /\ Len(old) \in Nat /\ Len(evs) \in Nat
      /\ Len(more) \in Nat
  OBVIOUS
<1>2. \A i \in 1 .. Len(evs) : (evs \o more)[i] = evs[i]  OBVIOUS
<1>3. QED  BY <1>1, <1>2 DEF Extends

(* The world a command works on is ahead of the last commit: its log       *)
(* starts with the saved one and its head and next id are not behind.      *)
Ahead ==
  /\ Extends(events, saved.events)
  /\ head >= saved.head
  /\ next_entity_id >= saved.next_entity_id

(* The node starts ahead of, that is at, the world it loaded. *)
LEMMA AheadInit == Init => Ahead
<1> SUFFICES ASSUME Init  PROVE Ahead
  OBVIOUS
<1>1. FieldsTyped
  BY InitAssumption DEF Init, FieldsTyped, WorldTyped
<1>2. saved.events = events /\ saved.head = head /\ saved.next_entity_id = next_entity_id
  BY DEF Init, Snapshot
<1>3. QED  BY <1>1, <1>2 DEF Ahead, Extends, FieldsTyped

(* It stays ahead in every step, and what a step saves grows. *)
LEMMA AheadStep ==
  TypeOK /\ Ahead /\ [Next]_vars =>
    /\ Ahead'
    /\ saved' # saved => /\ Extends(saved'.events, saved.events)
                         /\ saved'.head > saved.head
                         /\ saved'.next_entity_id >= saved.next_entity_id
<1> DEFINE Grown == /\ Extends(saved'.events, saved.events)
                    /\ saved'.head > saved.head
                    /\ saved'.next_entity_id >= saved.next_entity_id
<1> SUFFICES ASSUME TypeOK, Ahead, [Next]_vars
             PROVE  Ahead' /\ (saved' # saved => Grown)
  OBVIOUS
<1>1. /\ events \in Seq(WorldEvent) /\ head \in Nat /\ next_entity_id \in Nat
      /\ saved.events \in Seq(WorldEvent) /\ saved.head \in Nat
      /\ saved.next_entity_id \in Nat
  BY SnapshotTyped DEF TypeOK, FieldsTyped, WorldTyped
<1>2. CASE Request \/ UNCHANGED vars
  BY <1>2 DEF Request, BeginCommand, BeginTransaction, vars, world, Ahead
<1>3. CASE HostCall
  <2>1. saved' = saved  BY <1>3, HostCallKeeps
  <2>2. /\ head' = head \/ head' = head + 1
        /\ next_entity_id' = next_entity_id \/ next_entity_id' = next_entity_id + 1
        /\ events' = events \/ \E e \in WorldEvent : events' = Append(events, e)
    <3>1. ASSUME NEW k \in EventKind, NEW i \in EntityId \cup {NoEntity}, EmitEvent(k, i)
          PROVE  /\ head' = head /\ next_entity_id' = next_entity_id
                 /\ \E e \in WorldEvent : events' = Append(events, e)
      <4> DEFINE ev == [id |-> next_event_id, head |-> head, kind |-> k,
                        entity_id |-> i, data |-> AnyPayload]
      <4>1. next_event_id \in Nat \ {0}  BY SnapshotTyped DEF TypeOK, FieldsTyped
      <4>2. ev \in WorldEvent  BY <1>1, <4>1 DEF WorldEvent, EventData, AnyPayload
      <4>3. QED  BY <3>1, <4>2 DEF EmitEvent
    <3>2. QED
      BY <1>3, <3>1
         DEF HostCall, MoveActor, TakeItem, DropItem, TransferItem, MoveEntity,
             SpawnEntity, CreateEntity, FreshId, UpdateEntityName, AcceptQuest,
             CompleteQuest, CreditBalance
  <2>3. Extends(events', saved.events)
    <3>1. CASE events' = events  BY <3>1 DEF Ahead
    <3>2. ASSUME NEW e \in WorldEvent, events' = Append(events, e)
          PROVE  Extends(events', saved.events)
      <4>1. <<e>> \in Seq(WorldEvent) /\ events' = events \o <<e>>  BY <1>1, <3>2
      <4>2. Extends(events \o <<e>>, saved.events)
        BY <1>1, <4>1, AppendExtends DEF Ahead
      <4>3. QED  BY <4>1, <4>2
    <3>3. QED  BY <2>2, <3>1, <3>2
  <2>4. head' >= saved.head /\ next_entity_id' >= saved.next_entity_id
    BY <1>1, <2>2 DEF Ahead
  <2>5. QED  BY <2>1, <2>3, <2>4 DEF Ahead
<1>4. CASE Fail  BY <1>1, <1>4 DEF Fail, Ahead, Extends
<1>5. ASSUME Extends(events', saved.events), events' \in Seq(WorldEvent),
             head' = head + 1, saved' = Snapshot',
             next_entity_id' = next_entity_id \/ next_entity_id' = next_entity_id + 1
      PROVE  Ahead' /\ Grown
  <2>1. /\ saved'.events = events' /\ saved'.head = head'
        /\ saved'.next_entity_id = next_entity_id'
    BY <1>5 DEF Snapshot
  <2>2. Ahead'  BY <1>1, <1>5, <2>1 DEF Ahead, Extends
  <2>3. Grown  BY <1>1, <1>5, <2>1 DEF Ahead
  <2>4. QED  BY <2>2, <2>3
<1>6. CASE Commit
  <2>1. PICK ids \in Ascending(ChangedEntities), keys \in Listings(ChangedProgress) :
          events' = events \o Epilogue(ids, keys)
    BY <1>6 DEF Commit, AppendEpilogue
  <2>2. Epilogue(ids, keys) \in Seq(WorldEvent)  BY EpilogueType
  <2>3. Extends(events', saved.events) /\ events' \in Seq(WorldEvent)
    BY <1>1, <2>1, <2>2, AppendExtends DEF Ahead
  <2>4. QED  BY <1>5, <1>6, <2>3 DEF Commit, Save
<1>7. CASE AdminRequest
  <2>1. /\ events' = events /\ head' = head + 1 /\ saved' = Snapshot'
        /\ next_entity_id' = next_entity_id \/ next_entity_id' = next_entity_id + 1
    BY <1>7 DEF AdminRequest, CreateAccount, Deploy, CreateEntityByAdmin, CreateEntity,
                FreshId, Save
  <2>2. QED  BY <1>1, <1>5, <2>1 DEF Ahead
<1>8. QED  BY <1>2, <1>3, <1>4, <1>5, <1>6, <1>7 DEF Next, vars

(* Nothing a contract does takes the log, the head or the ids back: a      *)
(* commit keeps every event ever saved where it is, moves the head         *)
(* forward and never frees an id, although a failure restores all three.   *)
THEOREM LogAlwaysGrows == Spec => LogOnlyGrows
<1>1. TypeOK /\ TypeOK' /\ Ahead /\ [Next]_vars =>
        [/\ Len(saved.events) <= Len(saved'.events)
         /\ SubSeq(saved'.events, 1, Len(saved.events)) = saved.events
         /\ saved'.head > saved.head
         /\ saved'.next_entity_id >= saved.next_entity_id]_saved
  <2> SUFFICES ASSUME TypeOK, TypeOK', Extends(saved'.events, saved.events)
               PROVE  /\ Len(saved.events) <= Len(saved'.events)
                      /\ SubSeq(saved'.events, 1, Len(saved.events)) = saved.events
    BY AheadStep
  <2>1. saved.events \in Seq(WorldEvent) /\ saved'.events \in Seq(WorldEvent)
    BY DEF TypeOK, WorldTyped
  <2>2. QED  BY <2>1 DEF Extends
<1>2. TypeOK /\ Ahead /\ [Next]_vars => Ahead'  BY AheadStep
<1>3. QED  BY <1>1, <1>2, AheadInit, TypeCorrect, PTL DEF Spec, LogOnlyGrows

----------------------------------------------------------------------------
(* The lives of entities.                                                  *)

(* Event i of the log says that entity id changed. *)
ChangeAt(evs, i, id) == evs[i].kind = "entity_changed" /\ evs[i].entity_id = id

(* What the log evs says of the entities ents, whose ids are below next. *)
Life(evs, ents, next) ==
  \A i \in DOMAIN evs, id \in EntityId : ChangeAt(evs, i, id) =>
    /\ id < next
    /\ evs[i].data.change = "deleted" =>
         id \notin DOMAIN ents /\ \A j \in DOMAIN evs : ChangeAt(evs, j, id) => j <= i
    /\ evs[i].data.change = "created" =>
         /\ id \notin DOMAIN InitWorld.entities
         /\ \A j \in DOMAIN evs : ChangeAt(evs, j, id) => i <= j
    /\ id \notin DOMAIN ents =>
         \E j \in DOMAIN evs : ChangeAt(evs, j, id) /\ evs[j].data.change = "deleted"

(* The saved log tells the lives of the saved entities; the running        *)
(* command has said nothing about changes yet, and what it has created     *)
(* bears ids no saved entity ever had.                                     *)
LifeInv ==
  /\ Life(saved.events, saved.entities, saved.next_entity_id)
  /\ InitWorld.next_entity_id <= saved.next_entity_id
  /\ \A id \in DOMAIN saved.entities : id < saved.next_entity_id
  /\ \A id \in DOMAIN entities : id \in DOMAIN saved.entities \/ id >= saved.next_entity_id
  /\ \A i \in DOMAIN events : i > Len(saved.events) => events[i].kind # "entity_changed"

(* An ascending listing of a finite set of numbers leaves none out. *)
LEMMA AscendingOnto ==
  ASSUME NEW S, IsFiniteSet(S), S \subseteq Nat, NEW f \in Ascending(S)
  PROVE  /\ \A i, j \in DOMAIN f : f[i] = f[j] => i = j
         /\ \A x \in S : \E i \in DOMAIN f : f[i] = x
<1> DEFINE n == Cardinality(S)
<1>1. n \in Nat  BY FS_CardinalityType
<1>2. f \in [1 .. n -> S] /\ \A i, j \in 1 .. n : i < j => f[i] < f[j]
  BY DEF Ascending
<1>3. \A i, j \in 1 .. n : f[i] = f[j] => i = j
  <2> SUFFICES ASSUME NEW i \in 1 .. n, NEW j \in 1 .. n, f[i] = f[j]  PROVE i = j
    OBVIOUS
  <2>1. f[i] \in Nat /\ f[j] \in Nat  BY <1>2
  <2>2. ~(f[i] < f[j]) /\ ~(f[j] < f[i])  BY <2>1
  <2>3. i < j \/ j < i \/ i = j  BY <1>1
  <2>4. QED  BY <1>2, <2>2, <2>3
<1>4. f \in Injection(1 .. n, S)  BY <1>2, <1>3 DEF Injection, IsInjective
<1>5. IsFiniteSet(1 .. n) /\ Cardinality(1 .. n) = n  BY <1>1, FS_Interval
<1>6. f \in Surjection(1 .. n, S)  BY <1>4, <1>5, FS_Injection
<1>7. \A x \in S : \E i \in 1 .. n : f[i] = x  BY <1>6 DEF Surjection
<1>8. QED  BY <1>2, <1>3, <1>7

(* The events of a commit say of every changed entity once what became of  *)
(* it, and of no other.                                                    *)
EpilogueTells(new) ==
  /\ \A i \in DOMAIN new : new[i].kind = "entity_changed" =>
       new[i].entity_id \in ChangedEntities /\ new[i].data = ChangeOf(new[i].entity_id)
  /\ \A i, j \in DOMAIN new : \A id \in EntityId :
       ChangeAt(new, i, id) /\ ChangeAt(new, j, id) => i = j
  /\ \A id \in ChangedEntities : \E i \in DOMAIN new : ChangeAt(new, i, id)

LEMMA EpilogueTellsAll ==
  ASSUME TypeOK,
         NEW ids \in Ascending(ChangedEntities), NEW keys \in Listings(ChangedProgress)
  PROVE  EpilogueTells(Epilogue(ids, keys))
<1> DEFINE e == Len(ids)
           k == Len(keys)
           n == e + k + 1 + Len(tx)
           new == Epilogue(ids, keys)
<1>1. FieldsTyped /\ WorldTyped(saved)  BY SnapshotTyped DEF TypeOK
<1>2. ids \in Seq(ChangedEntities) /\ keys \in Seq(ChangedProgress)
  BY <1>1, ChangedFinite, ListingIsSeq DEF Ascending, Listings
<1>3. e \in Nat /\ k \in Nat /\ Len(tx) \in Nat /\ Len(tx) <= 1 /\ DOMAIN ids = 1 .. e
  BY <1>2 DEF TypeOK
<1>4. DOMAIN new = 1 .. n  BY DEF Epilogue
<1>5. /\ \A i, j \in 1 .. e : ids[i] = ids[j] => i = j
      /\ \A x \in ChangedEntities : \E i \in 1 .. e : ids[i] = x
  <2>1. ChangedEntities \subseteq Nat /\ IsFiniteSet(ChangedEntities)
    BY <1>1, ChangedFinite, BoundAssumption DEF EntityId
  <2>2. QED  BY <1>3, <2>1, AscendingOnto
<1> HIDE DEF e, k, n
<1>6. ASSUME NEW i \in 1 .. n, i <= e
      PROVE  new[i] = Stamped(i, "entity_changed", ids[i], ChangeOf(ids[i]))
  BY <1>6 DEF Epilogue, e, k, n
<1>7. ASSUME NEW i \in 1 .. n, ~(i <= e)
      PROVE  new[i].kind # "entity_changed"
  <2>1. i \in e + 1 .. e + k \/ i = e + k + 1 \/ i = e + k + 2
    BY <1>3, <1>7 DEF n
  <2>2. \E kind, about, data : /\ new[i] = Stamped(i, kind, about, data)
                               /\ kind # "entity_changed"
    <3>1. CASE i \in e + 1 .. e + k
      <4>1. new[i] = Stamped(i, "quest_progress_changed", keys[i - e][1],
              [quest |-> keys[i - e][2], status |-> quest_progress[keys[i - e]]])
        BY <1>7, <3>1, SMTT(30) DEF Epilogue, e, k, n
      <4>2. QED  BY <4>1
    <3>2. CASE i = e + k + 1
      <4>1. new[i] = Stamped(i, "command_executed", caller, AnyPayload)
        BY <1>3, <1>7, <3>2 DEF Epilogue, e, k, n
      <4>2. QED  BY <4>1
    <3>3. CASE i = e + k + 2
      <4>1. new[i] = Stamped(i, "transaction_executed", caller, [tx |-> tx[1]])
        BY <1>3, <1>7, <3>3 DEF Epilogue, e, k, n
      <4>2. QED  BY <4>1
    <3>4. QED  BY <2>1, <3>1, <3>2, <3>3
  <2>3. QED  BY <2>2 DEF Stamped
<1>8. \A i \in 1 .. n : new[i].kind = "entity_changed" =>
        i \in 1 .. e /\ new[i].entity_id = ids[i] /\ new[i].data = ChangeOf(ids[i])
  <2> SUFFICES ASSUME NEW i \in 1 .. n, new[i].kind = "entity_changed"
               PROVE  i \in 1 .. e /\ new[i].entity_id = ids[i] /\ new[i].data = ChangeOf(ids[i])
    OBVIOUS
  <2>1. i <= e  BY <1>7
  <2>2. i \in 1 .. e  BY <1>3, <2>1 DEF n
  <2>3. new[i] = Stamped(i, "entity_changed", ids[i], ChangeOf(ids[i]))  BY <1>6, <2>1
  <2> HIDE DEF new
  <2>4. QED  BY <2>2, <2>3 DEF Stamped
<1>9. \A i \in 1 .. e : i \in 1 .. n /\ new[i].kind = "entity_changed" /\ new[i].entity_id = ids[i]
  <2> SUFFICES ASSUME NEW i \in 1 .. e
               PROVE  i \in 1 .. n /\ new[i].kind = "entity_changed" /\ new[i].entity_id = ids[i]
    OBVIOUS
  <2>1. i \in 1 .. n /\ i <= e  BY <1>3 DEF n
  <2>2. new[i] = Stamped(i, "entity_changed", ids[i], ChangeOf(ids[i]))  BY <1>6, <2>1
  <2> HIDE DEF new
  <2>3. QED  BY <2>1, <2>2 DEF Stamped
<1>10. \A i \in 1 .. e : ids[i] \in ChangedEntities  BY <1>2, <1>3
<1> HIDE DEF new
<1>11. QED  BY <1>4, <1>5, <1>8, <1>9, <1>10 DEF EpilogueTells, ChangeAt, new

(* The log of a commit tells the lives of the entities it leaves behind.   *)
LEMMA CommitLife ==
  ASSUME TypeOK, Ahead, LifeInv,
         \A id \in DOMAIN InitWorld.entities : id < InitWorld.next_entity_id,
         \A id \in DOMAIN entities : id < next_entity_id,
         NEW new \in Seq(WorldEvent), EpilogueTells(new)
  PROVE  Life(events \o new, entities, next_entity_id)
<1> DEFINE log == events \o new
           m == Len(events)
           o == Len(saved.events)
           old == saved.events
<1>1. /\ events \in Seq(WorldEvent) /\ old \in Seq(WorldEvent)
      /\ next_entity_id \in Nat /\ saved.next_entity_id \in Nat
      /\ InitWorld.next_entity_id \in Nat
      /\ EntityId \subseteq Nat
      /\ FieldsTyped /\ WorldTyped(saved)
  <2>1. FieldsTyped /\ WorldTyped(saved)  BY SnapshotTyped DEF TypeOK
  <2>2. EntityId \subseteq Nat  BY BoundAssumption DEF EntityId
  <2>3. QED  BY <2>1, <2>2, InitAssumption DEF FieldsTyped, WorldTyped
<1>2. /\ m \in Nat /\ o \in Nat /\ o <= m /\ DOMAIN log = 1 .. m + Len(new)
      /\ DOMAIN events = 1 .. m /\ DOMAIN old = 1 .. o
      /\ Len(new) \in Nat /\ DOMAIN new = 1 .. Len(new)
      /\ \A i \in 1 .. m : log[i] = events[i]
      /\ \A i \in 1 .. Len(new) : m + i \in 1 .. m + Len(new) /\ log[m + i] = new[i]
      /\ \A i \in 1 .. o : events[i] = old[i]
  BY <1>1 DEF Ahead, Extends
<1> DEFINE E == saved.entities
<1>3. Life(old, E, saved.next_entity_id)  BY DEF LifeInv
<1>4. /\ saved.next_entity_id <= next_entity_id
      /\ \A id \in DOMAIN E : id < saved.next_entity_id /\ id < next_entity_id
      /\ \A id \in DOMAIN entities : id \in DOMAIN E \/ id >= saved.next_entity_id
      /\ DOMAIN E \subseteq EntityId /\ DOMAIN entities \subseteq EntityId
  <2>1. DOMAIN E \subseteq EntityId /\ DOMAIN entities \subseteq EntityId
    BY <1>1 DEF FieldsTyped, WorldTyped, EntitiesTyped
  <2>2. \A id \in DOMAIN E : id < saved.next_entity_id  BY DEF LifeInv
  <2>3. saved.next_entity_id <= next_entity_id  BY <1>1 DEF Ahead
  <2>4. \A id \in DOMAIN E : id < next_entity_id
    <3>1. ASSUME NEW id \in DOMAIN E  PROVE id < next_entity_id
      <4>1. id \in Nat /\ id < saved.next_entity_id  BY <1>1, <2>1, <2>2
      <4>2. QED  BY <1>1, <2>3, <4>1
    <3>2. QED  BY <3>1
  <2>5. \A id \in DOMAIN entities : id \in DOMAIN E \/ id >= saved.next_entity_id
    BY DEF LifeInv
  <2>6. QED  BY <2>1, <2>2, <2>3, <2>4, <2>5
<1>5. \A i \in 1 .. m : \A id : ChangeAt(log, i, id) => i \in 1 .. o /\ ChangeAt(old, i, id)
  <2> SUFFICES ASSUME NEW i \in 1 .. m, NEW id, ChangeAt(log, i, id)
               PROVE  i \in 1 .. o /\ ChangeAt(old, i, id)
    OBVIOUS
  <2>1. events[i].kind = "entity_changed" /\ events[i].entity_id = id
    BY <1>2 DEF ChangeAt
  <2>2. ~(i > o)  BY <1>2, <2>1 DEF LifeInv
  <2>3. i \in 1 .. o  BY <1>2, <2>2
  <2>4. QED  BY <1>2, <2>1, <2>3 DEF ChangeAt
<1>6. \A i \in 1 .. o : \A id : ChangeAt(old, i, id) =>
        i \in DOMAIN log /\ ChangeAt(log, i, id) /\ log[i] = old[i]
  <2>1. \A i \in 1 .. o : i \in 1 .. m /\ i \in 1 .. m + Len(new)  BY <1>2
  <2>2. \A i \in 1 .. o : log[i] = old[i]  BY <1>2, <2>1
  <2>3. QED  BY <1>2, <2>1, <2>2 DEF ChangeAt
<1>7. \A i \in DOMAIN log : i \in 1 .. m \/ (i - m \in DOMAIN new /\ log[i] = new[i - m] /\ i > m)
  BY <1>1, <1>2
<1> HIDE DEF log, m, o, old, E
<1>8. ASSUME NEW i \in DOMAIN log, NEW id \in EntityId, ChangeAt(log, i, id)
      PROVE  \/ i \in 1 .. o /\ ChangeAt(old, i, id) /\ log[i] = old[i]
             \/ /\ i > m /\ i - m \in DOMAIN new /\ ChangeAt(new, i - m, id)
                /\ id \in ChangedEntities /\ log[i].data = ChangeOf(id)
  <2>1. CASE i \in 1 .. m  BY <1>5, <1>6, <1>8, <2>1
  <2>2. CASE i - m \in DOMAIN new /\ log[i] = new[i - m] /\ i > m
    BY <1>8, <2>2 DEF ChangeAt, EpilogueTells
  <2>3. QED  BY <1>7, <2>1, <2>2
<1>9. ASSUME NEW id \in ChangedEntities
      PROVE  \E j \in DOMAIN log : ChangeAt(log, j, id) /\ log[j].data = ChangeOf(id)
  <2>1. PICK j \in DOMAIN new : ChangeAt(new, j, id)  BY DEF EpilogueTells
  <2>2. new[j].data = ChangeOf(id)  BY <2>1 DEF ChangeAt, EpilogueTells
  <2>3. m + j \in DOMAIN log /\ log[m + j] = new[j]  BY <1>2
  <2>4. QED  BY <2>1, <2>2, <2>3 DEF ChangeAt
<1>10. \A id \in EntityId :
         /\ id \in ChangedEntities => id \in DOMAIN E \/ id \in DOMAIN entities
         /\ id \in DOMAIN E /\ id \notin DOMAIN entities => id \in ChangedEntities
         /\ ChangeOf(id).change = "created" <=> id \notin DOMAIN E
         /\ ChangeOf(id).change = "deleted" <=> id \in DOMAIN E /\ id \notin DOMAIN entities
  BY DEF ChangedEntities, ChangeOf, E
<1>11. ASSUME NEW i \in 1 .. o, NEW id \in EntityId, ChangeAt(old, i, id)
       PROVE  /\ id < saved.next_entity_id
              /\ old[i].data.change = "deleted" =>
                   id \notin DOMAIN E /\ \A j \in 1 .. o : ChangeAt(old, j, id) => j <= i
              /\ old[i].data.change = "created" =>
                   /\ id \notin DOMAIN InitWorld.entities
                   /\ \A j \in 1 .. o : ChangeAt(old, j, id) => i <= j
              /\ id \notin DOMAIN E =>
                   \E j \in 1 .. o : ChangeAt(old, j, id) /\ old[j].data.change = "deleted"
  BY <1>2, <1>3, <1>11 DEF Life
<1>12. ASSUME NEW id \in EntityId, id \notin DOMAIN E, id < saved.next_entity_id
       PROVE  id \notin DOMAIN entities /\ id \notin ChangedEntities
  <2>1. id \in Nat /\ saved.next_entity_id \in Nat  BY <1>1
  <2>2. id \notin DOMAIN entities  BY <1>4, <1>12, <2>1
  <2>3. QED  BY <1>10, <1>12, <2>2
<1> SUFFICES ASSUME NEW i \in DOMAIN log, NEW id \in EntityId, ChangeAt(log, i, id)
             PROVE
    /\ id < next_entity_id
    /\ log[i].data.change = "deleted" =>
         id \notin DOMAIN entities /\ \A j \in DOMAIN log : ChangeAt(log, j, id) => j <= i
    /\ log[i].data.change = "created" =>
         /\ id \notin DOMAIN InitWorld.entities
         /\ \A j \in DOMAIN log : ChangeAt(log, j, id) => i <= j
    /\ id \notin DOMAIN entities =>
         \E j \in DOMAIN log : ChangeAt(log, j, id) /\ log[j].data.change = "deleted"
  BY DEF Life, log
<1>13. id \in Nat  BY <1>1
<1>14. CASE i \in 1 .. o /\ ChangeAt(old, i, id) /\ log[i] = old[i]
  <2>1. id < next_entity_id  BY <1>1, <1>4, <1>11, <1>13, <1>14
  <2>2. ASSUME log[i].data.change = "deleted"
        PROVE  id \notin DOMAIN entities /\ \A j \in DOMAIN log : ChangeAt(log, j, id) => j <= i
    <3>1. /\ id \notin DOMAIN E /\ id < saved.next_entity_id
          /\ \A j \in 1 .. o : ChangeAt(old, j, id) => j <= i
      BY <1>11, <1>14, <2>2
    <3>2. id \notin DOMAIN entities /\ id \notin ChangedEntities  BY <1>12, <3>1
    <3>3. QED  BY <1>8, <3>1, <3>2
  <2>3. ASSUME log[i].data.change = "created"
        PROVE  /\ id \notin DOMAIN InitWorld.entities
               /\ \A j \in DOMAIN log : ChangeAt(log, j, id) => i <= j
    <3>1. /\ id \notin DOMAIN InitWorld.entities
          /\ \A j \in 1 .. o : ChangeAt(old, j, id) => i <= j
      BY <1>11, <1>14, <2>3
    <3>2. \A j \in DOMAIN log : j > m => i <= j  BY <1>2, <1>7, <1>14
    <3>3. QED  BY <1>8, <3>1, <3>2
  <2>4. ASSUME id \notin DOMAIN entities
        PROVE  \E j \in DOMAIN log : ChangeAt(log, j, id) /\ log[j].data.change = "deleted"
    <3>1. CASE id \in DOMAIN E  BY <1>9, <1>10, <2>4, <3>1
    <3>2. CASE id \notin DOMAIN E  BY <1>6, <1>11, <1>14, <3>2
    <3>3. QED  BY <3>1, <3>2
  <2>5. QED  BY <2>1, <2>2, <2>3, <2>4
<1>15. CASE /\ i > m /\ i - m \in DOMAIN new /\ ChangeAt(new, i - m, id)
            /\ id \in ChangedEntities /\ log[i].data = ChangeOf(id)
  <2>1. id < next_entity_id  BY <1>4, <1>10, <1>15
  <2>2. ASSUME NEW j \in DOMAIN log, ChangeAt(log, j, id)
        PROVE  j = i \/ (j \in 1 .. o /\ ChangeAt(old, j, id))
    <3>1. CASE j > m /\ j - m \in DOMAIN new /\ ChangeAt(new, j - m, id)
      <4>1. j - m = i - m  BY <1>15, <3>1 DEF EpilogueTells
      <4>2. QED  BY <1>2, <4>1
    <3>2. QED  BY <1>8, <2>2, <3>1
  <2>3. \A j \in 1 .. o : j <= i  BY <1>2, <1>15
  <2>4. ASSUME id \notin DOMAIN E
        PROVE  /\ id \notin DOMAIN InitWorld.entities
               /\ \A j \in 1 .. o : ~ChangeAt(old, j, id)
    <3>1. id >= saved.next_entity_id  BY <1>4, <1>10, <1>15, <2>4
    <3>2. InitWorld.next_entity_id <= saved.next_entity_id  BY DEF LifeInv
    <3>3. ~(id < saved.next_entity_id) /\ ~(id < InitWorld.next_entity_id)
      BY <1>1, <1>13, <3>1, <3>2
    <3>4. QED  BY <1>11, <3>3
  <2>5. i \in Nat  BY <1>2
  <2>6. QED  BY <1>10, <1>15, <2>1, <2>2, <2>3, <2>4, <2>5
<1>16. QED  BY <1>8, <1>14, <1>15

(* A host call speaks of no change and creates entities under fresh ids.   *)
LEMMA HostCallLife ==
  ASSUME TypeOK, Ahead, LifeInv, HostCall
  PROVE  LifeInv'
<1>1. /\ events \in Seq(WorldEvent) /\ next_entity_id \in Nat
      /\ saved.next_entity_id \in Nat /\ next_entity_id >= saved.next_entity_id
      /\ saved.events \in Seq(WorldEvent)
  BY SnapshotTyped DEF TypeOK, FieldsTyped, WorldTyped, Ahead
<1>2. saved' = saved  BY HostCallKeeps
<1>3. /\ DOMAIN entities' \subseteq DOMAIN entities \cup {next_entity_id}
      /\ \/ events' = events
         \/ \E e \in WorldEvent : e.kind \notin SystemKind /\ events' = Append(events, e)
  <2>1. ASSUME NEW k \in EventKind, NEW i \in EntityId \cup {NoEntity}, EmitEvent(k, i)
        PROVE  \E e \in WorldEvent : e.kind \notin SystemKind /\ events' = Append(events, e)
    <3> DEFINE ev == [id |-> next_event_id, head |-> head, kind |-> k,
                      entity_id |-> i, data |-> AnyPayload]
    <3>1. next_event_id \in Nat \ {0} /\ head \in Nat
      BY SnapshotTyped DEF TypeOK, FieldsTyped
    <3>2. ev \in WorldEvent /\ ev.kind = k
      BY <3>1 DEF WorldEvent, EventData, AnyPayload
    <3>3. k \notin SystemKind  BY <2>1 DEF EmitEvent
    <3>4. QED  BY <2>1, <3>2, <3>3 DEF EmitEvent
  <2>2. QED
    BY <2>1 DEF HostCall, MoveActor, TakeItem, DropItem, TransferItem, MoveEntity,
                SpawnEntity, CreateEntity, FreshId, UpdateEntityName, EmitEvent,
                AcceptQuest, CompleteQuest, CreditBalance, Located
<1>4. \A id \in DOMAIN entities' : id \in DOMAIN saved.entities \/ id >= saved.next_entity_id
  BY <1>1, <1>3 DEF LifeInv
<1>5. \A i \in DOMAIN events' : i > Len(saved.events) => events'[i].kind # "entity_changed"
  <2>1. \A i \in DOMAIN events : i > Len(saved.events) => events[i].kind # "entity_changed"
    BY DEF LifeInv
  <2>2. ASSUME NEW e \in WorldEvent, e.kind \notin SystemKind, events' = Append(events, e),
               NEW i \in DOMAIN events', i > Len(saved.events)
        PROVE  events'[i].kind # "entity_changed"
    <3>1. (i \in DOMAIN events /\ events'[i] = events[i]) \/ events'[i] = e
      BY <1>1, <2>2
    <3>2. QED  BY <2>1, <2>2, <3>1 DEF SystemKind
  <2>3. QED  BY <1>3, <2>1, <2>2
<1>6. QED  BY <1>2, <1>4, <1>5 DEF LifeInv

(* Whatever contracts spawn, rename and consume, and however commands      *)
(* fail and are restored, the log of every saved world tells each entity's *)
(* life: created once and first, deleted once and last, gone exactly if it *)
(* says so; and no id is given twice.                                      *)
THEOREM EntitiesLiveOnce ==
  ASSUME \A i \in DOMAIN InitWorld.events : InitWorld.events[i].kind # "entity_changed"
  PROVE  Spec => []EntityLifecycle
<1> DEFINE Inv == TypeOK /\ Ahead /\ ServedWorldValid /\ LifeInv
<1>1. /\ \A id \in DOMAIN InitWorld.entities : id < InitWorld.next_entity_id
      /\ InitWorld.next_entity_id \in Nat /\ InitWorld.events \in Seq(WorldEvent)
  BY InitAssumption DEF WorldValid, WorldTyped, ValidateReferences
<1>2. Init => LifeInv
  <2> SUFFICES ASSUME Init  PROVE LifeInv
    OBVIOUS
  <2>1. /\ saved.events = InitWorld.events /\ events = InitWorld.events
        /\ saved.entities = InitWorld.entities /\ entities = InitWorld.entities
        /\ saved.next_entity_id = InitWorld.next_entity_id
    BY DEF Init, Snapshot
  <2>2. Life(saved.events, saved.entities, saved.next_entity_id)
    BY <2>1 DEF Life, ChangeAt
  <2>3. QED  BY <1>1, <2>1, <2>2 DEF LifeInv
<1>3. Inv /\ TypeOK' /\ [Next]_vars => LifeInv'
  <2> SUFFICES ASSUME Inv, TypeOK', [Next]_vars  PROVE LifeInv'
    OBVIOUS
  <2>1. /\ events \in Seq(WorldEvent) /\ next_entity_id \in Nat
        /\ saved.next_entity_id \in Nat /\ next_entity_id >= saved.next_entity_id
        /\ InitWorld.next_entity_id <= saved.next_entity_id
        /\ FieldsTyped
    BY SnapshotTyped DEF TypeOK, FieldsTyped, WorldTyped, Ahead, LifeInv
  <2>2. ASSUME Life(events', entities', next_entity_id'), saved' = Snapshot',
               next_entity_id' = next_entity_id \/ next_entity_id' = next_entity_id + 1,
               \A id \in DOMAIN entities' : id < next_entity_id'
        PROVE  LifeInv'
    <3>1. /\ saved'.events = events' /\ saved'.entities = entities'
          /\ saved'.next_entity_id = next_entity_id'
      BY <2>2 DEF Snapshot
    <3>2. InitWorld.next_entity_id <= next_entity_id'  BY <1>1, <2>1, <2>2
    <3>3. \A i \in DOMAIN events' : ~(i > Len(events'))
      <4>1. events' \in Seq(WorldEvent)  BY SnapshotTypedNext DEF TypeOK, FieldsTyped
      <4>2. QED  BY <4>1
    <3>4. QED  BY <2>2, <3>1, <3>2, <3>3 DEF LifeInv
  <2>3. CASE Request \/ UNCHANGED vars
    BY <2>3 DEF Request, BeginCommand, BeginTransaction, vars, world, LifeInv
  <2>4. CASE HostCall  BY <2>4, HostCallLife
  <2>5. CASE Fail
    <3>1. /\ events' = saved.events /\ entities' = saved.entities /\ saved' = saved
      BY <2>5 DEF Fail
    <3>2. saved.events \in Seq(WorldEvent)  BY DEF TypeOK, WorldTyped
    <3>3. \A i \in DOMAIN saved.events : ~(i > Len(saved.events))  BY <3>2
    <3>4. QED  BY <3>1, <3>3 DEF LifeInv
  <2>6. CASE Commit
    <3>1. PICK ids \in Ascending(ChangedEntities), keys \in Listings(ChangedProgress) :
            events' = events \o Epilogue(ids, keys)
      BY <2>6 DEF Commit, AppendEpilogue
    <3>2. /\ saved' = Snapshot' /\ entities' = entities
          /\ next_entity_id' = next_entity_id /\ WorldValid(Snapshot)'
      BY <2>6 DEF Commit, Save
    <3>3. \A id \in DOMAIN entities' : id < next_entity_id'
      BY <3>2 DEF WorldValid, ValidateReferences, Snapshot
    <3>4. Epilogue(ids, keys) \in Seq(WorldEvent) /\ EpilogueTells(Epilogue(ids, keys))
      BY EpilogueType, EpilogueTellsAll
    <3>5. Life(events \o Epilogue(ids, keys), entities, next_entity_id)
      BY <1>1, <3>2, <3>3, <3>4, CommitLife
    <3>6. QED  BY <2>2, <3>1, <3>2, <3>3, <3>5
  <2>7. CASE AdminRequest
    <3>1. Snapshot = saved  BY <2>7
      DEF AdminRequest, CreateAccount, Deploy, CreateEntityByAdmin, Admin, ServedWorldValid
    <3>2. /\ saved.events = events /\ saved.entities = entities
          /\ saved.next_entity_id = next_entity_id
      BY <3>1 DEF Snapshot
    <3>3. Life(events, entities, next_entity_id)  BY <3>2 DEF LifeInv
    <3>4. /\ saved' = Snapshot' /\ events' = events /\ WorldValid(Snapshot)'
          /\ next_entity_id' = next_entity_id \/ next_entity_id' = next_entity_id + 1
          /\ \/ entities' = entities
             \/ DOMAIN entities' = DOMAIN entities \cup {next_entity_id}
      BY <2>7 DEF AdminRequest, CreateAccount, Deploy, CreateEntityByAdmin, CreateEntity,
                  FreshId, Save
    <3>5. \A id \in DOMAIN entities' : id < next_entity_id'
      BY <3>4 DEF WorldValid, ValidateReferences, Snapshot
    <3>6. Life(events', entities', next_entity_id')
      <4>1. EntityId \subseteq Nat  BY BoundAssumption DEF EntityId
      <4>2. \A id \in EntityId : id < next_entity_id =>
              /\ id < next_entity_id'
              /\ id \in DOMAIN entities' <=> id \in DOMAIN entities
        BY <2>1, <3>4, <4>1
      <4>3. QED  BY <3>3, <3>4, <4>2 DEF Life
    <3>7. QED  BY <2>2, <3>4, <3>5, <3>6
  <2>8. QED  BY <2>3, <2>4, <2>5, <2>6, <2>7 DEF Next
<1>4. LifeInv => EntityLifecycle
  <2> SUFFICES ASSUME LifeInv, NEW id \in EntityId, NEW i \in Changes(id)
               PROVE
      /\ saved.events[i].data.change = "deleted" =>
           id \notin DOMAIN saved.entities /\ \A j \in Changes(id) : j <= i
      /\ saved.events[i].data.change = "created" =>
           id \notin DOMAIN InitWorld.entities /\ \A j \in Changes(id) : i <= j
      /\ id \notin DOMAIN saved.entities =>
           \E j \in Changes(id) : saved.events[j].data.change = "deleted"
    BY DEF EntityLifecycle
  <2>1. \A j : j \in Changes(id) <=> j \in DOMAIN saved.events /\ ChangeAt(saved.events, j, id)
    BY DEF Changes, ChangeAt
  <2>2. QED  BY <2>1 DEF LifeInv, Life
<1>5. TypeOK /\ Ahead /\ [Next]_vars => Ahead'  BY AheadStep
<1>6. Spec => []TypeOK /\ []ServedWorldValid  BY TypeCorrect, ServedWorldIsValid
<1>7. QED  BY <1>2, <1>3, <1>4, <1>5, <1>6, AheadInit, PTL DEF Spec

----------------------------------------------------------------------------
(* Nonces, receipts and transaction events.                                *)

TxAt(evs) == {i \in DOMAIN evs : evs[i].kind = "transaction_executed"}

MineOf(rcpts, a) == {t \in DOMAIN rcpts : rcpts[t].from = a}

(* The receipts rcpts are those of the nonces used up in accs and of the   *)
(* transactions logged in evs.                                             *)
Settled(accs, rcpts, evs) ==
  /\ DOMAIN InitWorld.accounts \subseteq DOMAIN accs
  /\ IsFiniteSet(DOMAIN rcpts)
  /\ \A t \in DOMAIN rcpts : /\ rcpts[t].from = t.from /\ rcpts[t].nonce = t.nonce
                             /\ t.from \in DOMAIN accs
  /\ \A a \in DOMAIN accs :
       /\ {rcpts[t].nonce : t \in MineOf(rcpts, a)} = InitialNonce(a) .. accs[a].nonce - 1
       /\ Cardinality(MineOf(rcpts, a)) = accs[a].nonce - InitialNonce(a)
  /\ {evs[i].data.tx : i \in TxAt(evs)} = DOMAIN rcpts
  /\ Cardinality(TxAt(evs)) = Cardinality(DOMAIN rcpts)

(* Both worlds are settled, and the running transaction is the next of its *)
(* account.                                                                *)
ReceiptInv ==
  /\ Settled(accounts, receipts, events)
  /\ Settled(saved.accounts, saved.receipts, saved.events)
  /\ tx # <<>> => /\ tx[1].from \in DOMAIN accounts
                  /\ tx[1].nonce = accounts[tx[1].from].nonce

(* Events that are no transaction events settle nothing.                   *)
LEMMA SettledBesides ==
  ASSUME NEW accs, NEW accs2, NEW rcpts, NEW evs \in Seq(WorldEvent), NEW new \in Seq(WorldEvent),
         Settled(accs, rcpts, evs),
         DOMAIN accs2 = DOMAIN accs, \A a \in DOMAIN accs : accs2[a].nonce = accs[a].nonce,
         \A i \in DOMAIN new : new[i].kind # "transaction_executed"
  PROVE  Settled(accs2, rcpts, evs \o new)
<1> DEFINE log == evs \o new
<1>1. /\ DOMAIN evs = 1 .. Len(evs) /\ DOMAIN new = 1 .. Len(new)
      /\ DOMAIN log = 1 .. Len(evs) + Len(new) /\ Len(evs) \in Nat /\ Len(new) \in Nat
      /\ \A i \in 1 .. Len(evs) : log[i] = evs[i]
      /\ \A i \in DOMAIN log : i \in 1 .. Len(evs) \/ (i - Len(evs) \in DOMAIN new
                                                       /\ log[i] = new[i - Len(evs)])
  OBVIOUS
<1> HIDE DEF log
<1>2. TxAt(log) = TxAt(evs)
  <2>1. \A i \in 1 .. Len(evs) : i \in DOMAIN log  BY <1>1
  <2>2. \A i \in DOMAIN log : log[i].kind = "transaction_executed" => i \in 1 .. Len(evs)
    BY <1>1
  <2>3. QED  BY <1>1, <2>1, <2>2 DEF TxAt
<1>3. {log[i].data.tx : i \in TxAt(log)} = {evs[i].data.tx : i \in TxAt(evs)}
  <2>1. \A i \in TxAt(evs) : log[i] = evs[i]  BY <1>1 DEF TxAt
  <2>2. QED  BY <1>2, <2>1
<1>4. QED  BY <1>2, <1>3 DEF Settled, log

(* The events of a commit end with the transaction's, if there is one.     *)
LEMMA EpilogueTx ==
  ASSUME TypeOK,
         NEW ids \in Ascending(ChangedEntities), NEW keys \in Listings(ChangedProgress),
         NEW i \in DOMAIN Epilogue(ids, keys)
  PROVE  IF tx # <<>> /\ i = Len(Epilogue(ids, keys))
         THEN /\ Epilogue(ids, keys)[i].kind = "transaction_executed"
              /\ Epilogue(ids, keys)[i].data.tx = tx[1]
         ELSE Epilogue(ids, keys)[i].kind # "transaction_executed"
<1> DEFINE e == Len(ids)
           k == Len(keys)
           n == e + k + 1 + Len(tx)
           new == Epilogue(ids, keys)
<1>1. FieldsTyped /\ WorldTyped(saved)  BY SnapshotTyped DEF TypeOK
<1>2. ids \in Seq(ChangedEntities) /\ keys \in Seq(ChangedProgress)
  BY <1>1, ChangedFinite, ListingIsSeq DEF Ascending, Listings
<1>3. /\ e \in Nat /\ k \in Nat /\ Len(tx) \in Nat /\ Len(tx) <= 1
      /\ tx = <<>> <=> Len(tx) = 0
  BY <1>2 DEF TypeOK
<1>4. n \in Nat /\ DOMAIN new = 1 .. n /\ Len(new) = n
  <2>1. n \in Nat  BY <1>3
  <2>2. new \in Seq(WorldEvent)  BY EpilogueType
  <2>3. DOMAIN new = 1 .. n  BY DEF Epilogue
  <2>4. DOMAIN new = 1 .. Len(new) /\ Len(new) \in Nat  BY <2>2
  <2>5. QED  BY <2>1, <2>3, <2>4
<1> HIDE DEF e, k, n
<1>5. i \in 1 .. n  BY <1>4
<1>6. CASE tx # <<>> /\ i = n
  <2>1. i = e + k + 2  BY <1>3, <1>6 DEF n
  <2>2. new[i] = Stamped(i, "transaction_executed", caller, [tx |-> tx[1]])
    BY <1>3, <1>5, <2>1 DEF Epilogue, e, k, n
  <2> HIDE DEF new
  <2>3. new[i].kind = "transaction_executed" /\ new[i].data.tx = tx[1]  BY <2>2 DEF Stamped
  <2>4. QED  BY <1>4, <1>6, <2>3 DEF new
<1>7. CASE ~(tx # <<>> /\ i = n)
  <2>1. i <= e \/ (i \in e + 1 .. e + k /\ ~(i <= e)) \/ i = e + k + 1
    BY <1>3, <1>5, <1>7 DEF n
  <2>2. \E kind, about, data : /\ new[i] = Stamped(i, kind, about, data)
                               /\ kind # "transaction_executed"
    <3>1. CASE i <= e
      <4>1. new[i] = Stamped(i, "entity_changed", ids[i], ChangeOf(ids[i]))
        BY <1>5, <3>1 DEF Epilogue, e, k, n
      <4>2. QED  BY <4>1
    <3>2. CASE i \in e + 1 .. e + k /\ ~(i <= e)
      <4>1. new[i] = Stamped(i, "quest_progress_changed", keys[i - e][1],
              [quest |-> keys[i - e][2], status |-> quest_progress[keys[i - e]]])
        BY <1>5, <3>2, SMTT(30) DEF Epilogue, e, k, n
      <4>2. QED  BY <4>1
    <3>3. CASE i = e + k + 1
      <4>1. new[i] = Stamped(i, "command_executed", caller, AnyPayload)
        BY <1>3, <1>5, <3>3 DEF Epilogue, e, k, n
      <4>2. QED  BY <4>1
    <3>4. QED  BY <2>1, <3>1, <3>2, <3>3
  <2> HIDE DEF new
  <2>3. new[i].kind # "transaction_executed"  BY <2>2 DEF Stamped
  <2>4. QED  BY <1>4, <1>7, <2>3 DEF new
<1>8. QED  BY <1>6, <1>7

(* The transaction t is settled by the events new, which end with its own, *)
(* in the accounts accs and the receipts rcpts.                            *)
Settling(t, new, accs, rcpts) ==
  /\ t.from \in DOMAIN accounts /\ t.nonce = accounts[t.from].nonce
  /\ new # <<>>
  /\ new[Len(new)].kind = "transaction_executed" /\ new[Len(new)].data.tx = t
  /\ \A i \in DOMAIN new : i # Len(new) => new[i].kind # "transaction_executed"
  /\ accs = [accounts EXCEPT ![t.from].nonce = @ + 1]
  /\ rcpts = [u \in DOMAIN receipts \cup {t} |->
                IF u = t THEN [from |-> u.from, nonce |-> u.nonce] ELSE receipts[u]]

(* A commit settles its transaction: a nonce, a receipt and an event more. *)
LEMMA SettledCommit ==
  ASSUME AccountsTyped(accounts), Settled(accounts, receipts, events),
         events \in Seq(WorldEvent), NEW new \in Seq(WorldEvent),
         NEW t, NEW accs, NEW rcpts, Settling(t, new, accs, rcpts)
  PROVE  Settled(accs, rcpts, events \o new)
<1> DEFINE log == events \o new
           last == Len(events) + Len(new)
<1>1. /\ DOMAIN accs = DOMAIN accounts
      /\ \A a \in DOMAIN accounts : accounts[a].nonce \in Nat
      /\ \A a \in DOMAIN accounts : accs[a].nonce = IF a = t.from THEN accounts[a].nonce + 1
                                                    ELSE accounts[a].nonce
      /\ \A a \in Account : InitialNonce(a) \in Nat
      /\ DOMAIN accounts \subseteq Account
  <2>1. AccountsTyped(InitWorld.accounts)  BY InitAssumption DEF WorldTyped
  <2>2. \A a \in DOMAIN accounts : accounts[a] \in AccountState  BY DEF AccountsTyped
  <2>3. \A a \in DOMAIN InitWorld.accounts : InitWorld.accounts[a] \in AccountState
    BY <2>1 DEF AccountsTyped
  <2>4. QED  BY <2>2, <2>3 DEF AccountState, AccountsTyped, InitialNonce, Settling
<1>2. t \notin DOMAIN receipts
  <2> SUFFICES ASSUME t \in DOMAIN receipts  PROVE FALSE
    OBVIOUS
  <2>1. t \in MineOf(receipts, t.from) /\ receipts[t].nonce = t.nonce
    BY DEF Settled, MineOf
  <2>2. t.nonce \in InitialNonce(t.from) .. accounts[t.from].nonce - 1
    BY <2>1 DEF Settled, Settling
  <2>3. QED  BY <1>1, <2>2 DEF Settling
<1>3. /\ DOMAIN rcpts = DOMAIN receipts \cup {t}
      /\ rcpts[t].from = t.from /\ rcpts[t].nonce = t.nonce
      /\ \A u \in DOMAIN receipts : rcpts[u] = receipts[u]
      /\ t.from \in DOMAIN accounts /\ t.nonce = accounts[t.from].nonce
  BY <1>2 DEF Settling
<1>4. /\ IsFiniteSet(DOMAIN rcpts)
      /\ Cardinality(DOMAIN rcpts) = Cardinality(DOMAIN receipts) + 1
  <2>1. IsFiniteSet(DOMAIN receipts)  BY DEF Settled
  <2>2. IsFiniteSet(DOMAIN receipts \cup {t})  BY <2>1, FS_AddElement
  <2>3. Cardinality(DOMAIN receipts \cup {t}) = Cardinality(DOMAIN receipts) + 1
    BY <1>2, <2>1, FS_AddElement
  <2>4. QED  BY <1>3, <2>2, <2>3
<1>5. \A u \in DOMAIN rcpts : /\ rcpts[u].from = u.from /\ rcpts[u].nonce = u.nonce
                              /\ u.from \in DOMAIN accs
  BY <1>1, <1>3 DEF Settled
<1>6. ASSUME NEW a \in DOMAIN accs
      PROVE  /\ {rcpts[u].nonce : u \in MineOf(rcpts, a)} = InitialNonce(a) .. accs[a].nonce - 1
             /\ Cardinality(MineOf(rcpts, a)) = accs[a].nonce - InitialNonce(a)
  <2> DEFINE mine == MineOf(receipts, a)
  <2>1. /\ {receipts[u].nonce : u \in mine} = InitialNonce(a) .. accounts[a].nonce - 1
        /\ Cardinality(mine) = accounts[a].nonce - InitialNonce(a)
        /\ a \in Account /\ InitialNonce(a) \in Nat /\ accounts[a].nonce \in Nat
    BY <1>1 DEF Settled
  <2>2. IsFiniteSet(mine)
    <3>1. mine \subseteq DOMAIN receipts  BY DEF MineOf
    <3>2. QED  BY <3>1, FS_Subset DEF Settled
  <2>3. CASE a # t.from
    <3>1. MineOf(rcpts, a) = mine  BY <1>3, <2>3 DEF MineOf
    <3>2. {rcpts[u].nonce : u \in MineOf(rcpts, a)} = {receipts[u].nonce : u \in mine}
      <4>1. \A u \in mine : rcpts[u].nonce = receipts[u].nonce  BY <1>3 DEF MineOf
      <4> HIDE DEF mine
      <4>2. QED  BY <3>1, <4>1
    <3>3. QED  BY <1>1, <2>1, <2>3, <3>1, <3>2
  <2>4. CASE a = t.from
    <3>1. MineOf(rcpts, a) = mine \cup {t} /\ t \notin mine
      BY <1>2, <1>3, <2>4 DEF MineOf
    <3>2. \A u \in mine : rcpts[u] = receipts[u]  BY <1>3 DEF MineOf
    <3>3. rcpts[t].nonce = accounts[a].nonce  BY <1>3, <2>4
    <3>4. accs[a].nonce = accounts[a].nonce + 1  BY <1>1, <2>4
    <3>5. accs[a].nonce - 1 = accounts[a].nonce  BY <2>1, <3>4
    <3> DEFINE n  == accounts[a].nonce
               lo == InitialNonce(a)
    <3>6. /\ lo \in Nat /\ n \in Nat /\ rcpts[t].nonce = n /\ t \notin mine
          /\ {receipts[u].nonce : u \in mine} = lo .. n - 1 /\ Cardinality(mine) = n - lo
      BY <2>1, <3>1, <3>3
    <3>7. accs[a].nonce = n + 1 /\ accs[a].nonce - 1 = n  BY <3>4, <3>5
    <3> HIDE DEF mine, n, lo
    <3>8. /\ {rcpts[u].nonce : u \in mine \cup {t}} = lo .. n
          /\ Cardinality(mine \cup {t}) = n + 1 - lo
      <4>1. Cardinality(mine) \in Nat  BY <2>2, FS_CardinalityType
      <4>2. Cardinality(mine \cup {t}) = Cardinality(mine) + 1
        BY <2>2, <3>6, FS_AddElement
      <4>3. {rcpts[u].nonce : u \in mine \cup {t}} = {receipts[u].nonce : u \in mine} \cup {n}
        BY <3>2, <3>6
      <4>4. lo .. n = (lo .. n - 1) \cup {n} /\ n - lo + 1 = n + 1 - lo
        BY <3>6, <4>1
      <4>5. QED  BY <3>6, <4>2, <4>3, <4>4
    <3>9. /\ {rcpts[u].nonce : u \in MineOf(rcpts, a)} = lo .. accs[a].nonce - 1
          /\ Cardinality(MineOf(rcpts, a)) = accs[a].nonce - lo
      <4>1. accs[a].nonce - lo = n + 1 - lo  BY <3>6, <3>7
      <4>2. QED  BY <3>1, <3>7, <3>8, <4>1, Zenon
    <3>10. QED  BY <3>9 DEF lo
  <2>5. QED  BY <2>3, <2>4
<1>7. /\ TxAt(log) = TxAt(events) \cup {last} /\ last \notin TxAt(events)
      /\ IsFiniteSet(TxAt(events))
      /\ \A i \in TxAt(events) : log[i] = events[i]
      /\ log[last].data.tx = t
  <2>1. /\ DOMAIN events = 1 .. Len(events) /\ DOMAIN new = 1 .. Len(new)
        /\ DOMAIN log = 1 .. last /\ Len(events) \in Nat /\ Len(new) \in Nat \ {0}
        /\ \A i \in 1 .. Len(events) : log[i] = events[i]
        /\ \A i \in DOMAIN log :
             \/ i \in 1 .. Len(events)
             \/ /\ i - Len(events) \in DOMAIN new /\ log[i] = new[i - Len(events)]
                /\ i > Len(events)
        /\ last - Len(events) = Len(new) /\ log[last] = new[Len(new)]
    BY DEF Settling
  <2> HIDE DEF log
  <2>2. \A i \in 1 .. Len(events) : i \in DOMAIN log  BY <2>1
  <2>3. last \in DOMAIN log /\ last \notin 1 .. Len(events)  BY <2>1
  <2>4. \A i \in DOMAIN log : log[i].kind = "transaction_executed" =>
          i \in 1 .. Len(events) \/ i = last
    <3> SUFFICES ASSUME NEW i \in DOMAIN log, log[i].kind = "transaction_executed",
                        i \notin 1 .. Len(events)
                 PROVE  i = last
      OBVIOUS
    <3>1. i - Len(events) \in DOMAIN new /\ log[i] = new[i - Len(events)]  BY <2>1
    <3>2. i - Len(events) = Len(new)  BY <3>1 DEF Settling
    <3>3. i \in Int  BY <2>1
    <3>4. QED  BY <2>1, <3>2, <3>3
  <2>5. TxAt(events) \subseteq 1 .. Len(events) /\ IsFiniteSet(1 .. Len(events))
    BY <2>1, FS_Interval DEF TxAt
  <2>6. IsFiniteSet(TxAt(events))  BY <2>5, FS_Subset
  <2>7. log[last].kind = "transaction_executed" /\ log[last].data.tx = t
    BY <2>1 DEF Settling
  <2> HIDE DEF last
  <2>8. TxAt(log) = TxAt(events) \cup {last}
    BY <2>1, <2>2, <2>3, <2>4, <2>7 DEF TxAt
  <2>9. QED  BY <2>1, <2>3, <2>5, <2>6, <2>7, <2>8
<1> HIDE DEF log, last
<1>8. Cardinality(TxAt(log)) = Cardinality(DOMAIN rcpts)
  <2>1. Cardinality(TxAt(log)) = Cardinality(TxAt(events)) + 1  BY <1>7, FS_AddElement
  <2>2. QED  BY <1>4, <2>1 DEF Settled
<1>9. {log[i].data.tx : i \in TxAt(log)} = DOMAIN rcpts
  <2>1. {log[i].data.tx : i \in TxAt(log)} = {events[i].data.tx : i \in TxAt(events)} \cup {t}
    BY <1>7
  <2>2. QED  BY <1>3, <2>1 DEF Settled
<1>10. DOMAIN InitWorld.accounts \subseteq DOMAIN accs  BY <1>1 DEF Settled
<1>11. QED  BY <1>4, <1>5, <1>6, <1>8, <1>9, <1>10 DEF Settled, log

(* A new account has used no nonce and has no receipt.                     *)
LEMMA SettledAccount ==
  ASSUME Settled(accounts, receipts, events), NEW a, a \notin DOMAIN accounts,
         NEW accs, DOMAIN accs = DOMAIN accounts \cup {a}, accs[a].nonce = 0,
         \A b \in DOMAIN accounts : accs[b] = accounts[b]
  PROVE  Settled(accs, receipts, events)
<1>1. InitialNonce(a) = 0  BY DEF InitialNonce, Settled
<1>2. MineOf(receipts, a) = {}  BY DEF MineOf, Settled
<1>3. Cardinality(MineOf(receipts, a)) = 0  BY <1>2, FS_EmptySet
<1>4. {receipts[t].nonce : t \in MineOf(receipts, a)} = 0 .. 0 - 1  BY <1>2
<1>5. QED  BY <1>1, <1>3, <1>4 DEF Settled

(* What a host call leaves of accounts, receipts and the log.              *)
LEMMA HostCallSettles ==
  ASSUME TypeOK, HostCall
  PROVE  /\ receipts' = receipts /\ DOMAIN accounts' = DOMAIN accounts
         /\ \A a \in DOMAIN accounts : accounts'[a].nonce = accounts[a].nonce
         /\ \E new \in Seq(WorldEvent) :
              /\ events' = events \o new
              /\ \A i \in DOMAIN new : new[i].kind # "transaction_executed"
<1>1. events \in Seq(WorldEvent) /\ AccountsTyped(accounts)
  BY SnapshotTyped DEF TypeOK, FieldsTyped
<1>2. ASSUME NEW a, NEW n, Credited(a, n)
      PROVE  /\ DOMAIN accounts' = DOMAIN accounts
             /\ \A b \in DOMAIN accounts : accounts'[b].nonce = accounts[b].nonce
  <2>1. \A b \in DOMAIN accounts : accounts[b] \in AccountState  BY <1>1 DEF AccountsTyped
  <2>2. QED  BY <1>2, <2>1 DEF Credited, AccountState
<1>3. /\ receipts' = receipts /\ DOMAIN accounts' = DOMAIN accounts
      /\ \A a \in DOMAIN accounts : accounts'[a].nonce = accounts[a].nonce
  BY <1>2 DEF HostCall, MoveActor, TakeItem, DropItem, TransferItem, MoveEntity, SpawnEntity,
              UpdateEntityName, EmitEvent, AcceptQuest, CompleteQuest, CreditBalance
<1>4. CASE \E k \in EventKind, i \in EntityId \cup {NoEntity} : EmitEvent(k, i)
  <2>1. PICK k \in EventKind, i \in EntityId \cup {NoEntity} : EmitEvent(k, i)  BY <1>4
  <2> DEFINE ev == [id |-> next_event_id, head |-> head, kind |-> k,
                    entity_id |-> i, data |-> AnyPayload]
  <2>2. next_event_id \in Nat \ {0} /\ head \in Nat
    BY SnapshotTyped DEF TypeOK, FieldsTyped
  <2>3. ev \in WorldEvent  BY <2>2 DEF WorldEvent, EventData, AnyPayload
  <2>4. ev.kind # "transaction_executed" /\ events' = Append(events, ev)
    BY <2>1 DEF EmitEvent, SystemKind
  <2> HIDE DEF ev
  <2>5. <<ev>> \in Seq(WorldEvent) /\ events' = events \o <<ev>>  BY <1>1, <2>3, <2>4
  <2>6. \A j \in DOMAIN <<ev>> : <<ev>>[j].kind # "transaction_executed"  BY <2>4
  <2>7. QED  BY <1>3, <2>5, <2>6
<1>5. CASE events' = events
  <2>1. << >> \in Seq(WorldEvent) /\ events' = events \o << >>  BY <1>1, <1>5
  <2>2. \A j \in DOMAIN << >> : << >>[j].kind # "transaction_executed"  OBVIOUS
  <2>3. QED  BY <1>3, <2>1, <2>2
<1>6. QED
  BY <1>4, <1>5 DEF HostCall, MoveActor, TakeItem, DropItem, TransferItem, MoveEntity,
                    SpawnEntity, UpdateEntityName, AcceptQuest, CompleteQuest, CreditBalance

(* From a world without receipts, every account's receipts are those of    *)
(* exactly the nonces it has used, one each, and the log holds exactly one *)
(* event for each: no signed transaction is ever executed twice, skipped   *)
(* or forgotten, whatever fails and whoever sends it again.                *)
THEOREM TransactionsRunOnce ==
  ASSUME InitWorld.receipts = << >>,
         \A i \in DOMAIN InitWorld.events : InitWorld.events[i].kind # "transaction_executed"
  PROVE  Spec => []OneReceiptPerNonce
<1>1. Init => ReceiptInv
  <2> SUFFICES ASSUME Init  PROVE ReceiptInv
    OBVIOUS
  <2>1. /\ accounts = InitWorld.accounts /\ receipts = << >> /\ events = InitWorld.events
        /\ saved.accounts = accounts /\ saved.receipts = receipts /\ saved.events = events
        /\ tx = << >>
    BY DEF Init, Snapshot
  <2>2. TxAt(events) = {}  BY <2>1 DEF TxAt
  <2>3. DOMAIN receipts = {} /\ \A a : MineOf(receipts, a) = {}  BY <2>1 DEF MineOf
  <2>4. IsFiniteSet({}) /\ Cardinality({}) = 0  BY FS_EmptySet
  <2>5. \A a \in DOMAIN accounts : /\ InitialNonce(a) = accounts[a].nonce
                                   /\ accounts[a].nonce \in Nat
    <3>1. AccountsTyped(accounts)  BY <2>1, InitAssumption DEF WorldTyped
    <3>2. \A a \in DOMAIN accounts : accounts[a] \in AccountState
      BY <3>1 DEF AccountsTyped
    <3>3. QED  BY <2>1, <3>2 DEF InitialNonce, AccountState
  <2>6. Settled(accounts, receipts, events)
    <3>1. \A a \in DOMAIN accounts :
            InitialNonce(a) .. accounts[a].nonce - 1 = {} /\ accounts[a].nonce - InitialNonce(a) = 0
      BY <2>5
    <3>2. QED  BY <2>1, <2>2, <2>3, <2>4, <3>1 DEF Settled
  <2>7. QED  BY <2>1, <2>6 DEF ReceiptInv
<1>2. TypeOK /\ ReceiptInv /\ [Next]_vars => ReceiptInv'
  <2> SUFFICES ASSUME TypeOK, ReceiptInv, [Next]_vars
               PROVE  ReceiptInv'
    OBVIOUS
  <2>1. /\ events \in Seq(WorldEvent) /\ AccountsTyped(accounts)
        /\ tx \in Seq(Transaction) /\ Len(tx) <= 1
    BY SnapshotTyped DEF TypeOK, FieldsTyped
  <2>2. ASSUME Settled(accounts', receipts', events'), saved' = Snapshot', tx' = << >>
        PROVE  ReceiptInv'
    <3>1. /\ saved'.accounts = accounts' /\ saved'.receipts = receipts'
          /\ saved'.events = events'
      BY <2>2 DEF Snapshot
    <3>2. QED  BY <2>2, <3>1 DEF ReceiptInv
  <2>3. CASE \E e \in EntityId : BeginCommand(e)
    BY <2>3 DEF BeginCommand, world, ReceiptInv
  <2>4. ASSUME NEW t, BeginTransaction(t)  PROVE ReceiptInv'
    <3>1. /\ accounts' = accounts /\ receipts' = receipts /\ events' = events
          /\ saved' = saved /\ tx' = <<t>>
          /\ t.from \in DOMAIN accounts /\ accounts[t.from].nonce = t.nonce
      BY <2>4 DEF BeginTransaction, world, NonceMatches
    <3>2. tx'[1] = t  BY <3>1
    <3>3. QED  BY <3>1, <3>2 DEF ReceiptInv
  <2>5. CASE UNCHANGED vars  BY <2>5 DEF vars, world, request, ReceiptInv
  <2>6. CASE HostCall
    <3>1. saved' = saved /\ tx' = tx  BY <2>6, HostCallKeeps
    <3>2. /\ receipts' = receipts /\ DOMAIN accounts' = DOMAIN accounts
          /\ \A a \in DOMAIN accounts : accounts'[a].nonce = accounts[a].nonce
      BY <2>6, HostCallSettles
    <3>3. PICK new \in Seq(WorldEvent) :
            /\ events' = events \o new
            /\ \A i \in DOMAIN new : new[i].kind # "transaction_executed"
      BY <2>6, HostCallSettles
    <3>4. Settled(accounts, receipts, events)  BY DEF ReceiptInv
    <3>5. Settled(accounts', receipts, events \o new)
      BY <2>1, <3>2, <3>3, <3>4, SettledBesides
    <3>6. QED  BY <3>1, <3>2, <3>3, <3>5 DEF ReceiptInv
  <2>7. CASE Fail  BY <2>7 DEF Fail, EndRequest, ReceiptInv
  <2>8. CASE Commit
    <3>1. PICK ids \in Ascending(ChangedEntities), keys \in Listings(ChangedProgress) :
            events' = events \o Epilogue(ids, keys)
      BY <2>8 DEF Commit, AppendEpilogue
    <3> DEFINE new == Epilogue(ids, keys)
    <3>2. new \in Seq(WorldEvent)  BY EpilogueType
    <3>3. \A i \in DOMAIN new :
            IF tx # <<>> /\ i = Len(new)
            THEN new[i].kind = "transaction_executed" /\ new[i].data.tx = tx[1]
            ELSE new[i].kind # "transaction_executed"
      BY EpilogueTx
    <3>4. new # << >>
      <4>1. 1 \in DOMAIN new
        <5>1. Len(ids) \in Nat /\ Len(keys) \in Nat /\ Len(tx) \in Nat
          <6>1. ids \in Seq(ChangedEntities) /\ keys \in Seq(ChangedProgress)
            BY SnapshotTyped, ChangedFinite, ListingIsSeq DEF TypeOK, Ascending, Listings
          <6>2. QED  BY <2>1, <6>1
        <5>2. DOMAIN new = 1 .. Len(ids) + Len(keys) + 1 + Len(tx)  BY DEF Epilogue
        <5>3. QED  BY <5>1, <5>2
      <4>2. QED  BY <4>1
    <3> HIDE DEF new
    <3>5. Len(new) \in DOMAIN new  BY <3>2, <3>4
    <3>6. Settled(accounts, receipts, events)  BY DEF ReceiptInv
    <3>7. Settled(accounts', receipts', events \o new)
      <4>1. CASE tx = << >>
        <5>1. accounts' = accounts /\ receipts' = receipts
          BY <2>8, <4>1 DEF Commit, SettleTransaction
        <5>2. \A i \in DOMAIN new : new[i].kind # "transaction_executed"  BY <3>3, <4>1
        <5>3. QED  BY <2>1, <3>2, <3>6, <5>1, <5>2, SettledBesides
      <4>2. CASE tx # << >>
        <5>1. /\ accounts' = [accounts EXCEPT ![tx[1].from].nonce = @ + 1]
              /\ receipts' = [u \in DOMAIN receipts \cup {tx[1]} |->
                                IF u = tx[1] THEN [from |-> u.from, nonce |-> u.nonce]
                                ELSE receipts[u]]
          BY <2>8, <4>2 DEF Commit, SettleTransaction
        <5>2. /\ tx[1].from \in DOMAIN accounts
              /\ tx[1].nonce = accounts[tx[1].from].nonce
          BY <4>2 DEF ReceiptInv
        <5>3. /\ new[Len(new)].kind = "transaction_executed" /\ new[Len(new)].data.tx = tx[1]
              /\ \A i \in DOMAIN new : i # Len(new) => new[i].kind # "transaction_executed"
          BY <3>3, <3>5, <4>2
        <5>4. Settling(tx[1], new, accounts', receipts')
          BY <3>4, <5>1, <5>2, <5>3 DEF Settling
        <5>5. QED  BY <2>1, <3>2, <3>6, <5>4, SettledCommit
      <4>3. QED  BY <4>1, <4>2
    <3>8. saved' = Snapshot' /\ tx' = << >>  BY <2>8 DEF Commit, Save, EndRequest
    <3>9. QED  BY <2>2, <3>1, <3>7, <3>8 DEF new
  <2>9. CASE AdminRequest
    <3>1. /\ receipts' = receipts /\ events' = events /\ saved' = Snapshot' /\ tx' = tx
      BY <2>9 DEF AdminRequest, CreateAccount, Deploy, CreateEntityByAdmin, CreateEntity,
                  Admin, request, Save
    <3>2. Settled(accounts, receipts, events)  BY DEF ReceiptInv
    <3>3. Settled(accounts', receipts, events)
      <4>1. ASSUME NEW a \in Account, NEW k \in BOOLEAN, NEW b \in Deposits, CreateAccount(a, k, b)
            PROVE  Settled(accounts', receipts, events)
        <5>1. /\ a \notin DOMAIN accounts /\ DOMAIN accounts' = DOMAIN accounts \cup {a}
              /\ accounts'[a].nonce = 0 /\ \A c \in DOMAIN accounts : accounts'[c] = accounts[c]
          BY <4>1 DEF CreateAccount
        <5>2. QED  BY <3>2, <5>1, SettledAccount
      <4>2. CASE accounts' = accounts  BY <3>2, <4>2
      <4>3. QED
        BY <2>9, <4>1, <4>2 DEF AdminRequest, Deploy, CreateEntityByAdmin
    <3>4. CASE tx = << >>  BY <2>2, <3>1, <3>3, <3>4
    <3>5. CASE tx # << >>
      <4>1. tx[1].nonce = accounts[tx[1].from].nonce /\ tx[1].from \in DOMAIN accounts
        BY <3>5 DEF ReceiptInv
      <4>2. /\ tx[1].from \in DOMAIN accounts'
            /\ accounts'[tx[1].from] = accounts[tx[1].from]
        BY <2>9, <4>1 DEF AdminRequest, CreateAccount, Deploy, CreateEntityByAdmin
      <4>3. /\ saved'.accounts = accounts' /\ saved'.receipts = receipts'
            /\ saved'.events = events'
        BY <3>1 DEF Snapshot
      <4>4. QED  BY <3>1, <3>3, <4>1, <4>2, <4>3 DEF ReceiptInv
    <3>6. QED  BY <3>4, <3>5
  <2>10. QED  BY <2>3, <2>4, <2>5, <2>6, <2>7, <2>8, <2>9 DEF Next, Request
<1>3. ReceiptInv => OneReceiptPerNonce
  BY DEF ReceiptInv, Settled, OneReceiptPerNonce, MineOf, TxAt, TransactionEvents
<1>4. QED  BY <1>1, <1>2, <1>3, TypeCorrect, PTL DEF Spec

----------------------------------------------------------------------------
(* What commands take away.                                                *)

Finished(prog) == {k \in DOMAIN prog : prog[k] = "completed"}

(* What the running command has taken away and the consuming quests it has *)
(* completed.                                                              *)
Gone == DOMAIN saved.entities \ DOMAIN entities

Consumed == {k \in Finished(quest_progress) \ Finished(saved.quest_progress) :
               QuestDef[k[2]].consume_required_item}

(* Each item gone is paid for by a quest; nothing else has changed its     *)
(* kind or name, so the item consumed is the one that was saved.           *)
ConserveInv ==
  /\ Idle => entities = saved.entities /\ quest_progress = saved.quest_progress
  /\ ~Idle => saved.entities[caller].contract \in Contract
  /\ DOMAIN entities \subseteq DOMAIN saved.entities
  /\ \A id \in DOMAIN entities : /\ entities[id].kind = saved.entities[id].kind
                                 /\ entities[id].name = saved.entities[id].name
  /\ Finished(saved.quest_progress) \subseteq Finished(quest_progress)
  /\ \A id \in Gone : /\ saved.entities[id].kind = "item"
                      /\ \E k \in Consumed :
                           QuestDef[k[2]].required_item = saved.entities[id].name
  /\ Cardinality(Gone) <= Cardinality(Consumed)

(* The sets compared are finite. *)
LEMMA ConservedFinite ==
  ASSUME TypeOK
  PROVE  IsFiniteSet(Gone) /\ IsFiniteSet(Consumed)
<1>1. FieldsTyped /\ WorldTyped(saved)  BY SnapshotTyped DEF TypeOK
<1>2. IsFiniteSet(EntityId)  BY BoundAssumption, FS_Interval DEF EntityId
<1>3. IsFiniteSet(EntityId \X Quest)  BY <1>2, QuestAssumption, FS_Product
<1>4. Gone \subseteq EntityId  BY <1>1 DEF Gone, WorldTyped, EntitiesTyped
<1>5. Consumed \subseteq EntityId \X Quest
  BY <1>1 DEF Consumed, Finished, FieldsTyped, ProgressTyped
<1>6. QED  BY <1>2, <1>3, <1>4, <1>5, FS_Subset

(* A host call that moves or leaves the entities and finishes no quest.    *)
LEMMA NothingGone ==
  ASSUME ConserveInv, saved' = saved, caller' = caller, ~Idle,
         DOMAIN entities' = DOMAIN entities,
         \A id \in DOMAIN entities : /\ entities'[id].kind = entities[id].kind
                                     /\ entities'[id].name = entities[id].name,
         Finished(quest_progress') = Finished(quest_progress)
  PROVE  ConserveInv'
<1>1. Gone' = Gone /\ Consumed' = Consumed  BY DEF Gone, Consumed
<1>2. QED  BY <1>1 DEF ConserveInv, Idle

(* Completing a quest takes at most the one item the quest asks for.       *)
LEMMA QuestConsumes ==
  ASSUME TypeOK, HeldConsistent, ConserveInv, NEW q \in Quest, CompleteQuest(q)
  PROVE  ConserveInv'
<1> DEFINE key == <<caller, q>>
<1>1. /\ saved' = saved /\ caller' = caller /\ ~Idle
      /\ key \in DOMAIN quest_progress /\ quest_progress[key] = "accepted"
      /\ quest_progress' = [quest_progress EXCEPT ![key] = "completed"]
  BY DEF CompleteQuest, Calling, Accepted
<1>2. Finished(quest_progress') = Finished(quest_progress) \cup {key}
      /\ key \notin Finished(quest_progress)
  BY <1>1, SnapshotTyped DEF Finished, TypeOK, FieldsTyped, ProgressTyped
<1>3. key \notin Finished(saved.quest_progress)  BY <1>2 DEF ConserveInv
<1>4. Consumed' = IF QuestDef[q].consume_required_item THEN Consumed \cup {key} ELSE Consumed
  <2>1. key[2] = q  OBVIOUS
  <2> HIDE DEF key
  <2>2. QED  BY <1>1, <1>2, <1>3, <2>1 DEF Consumed
<1>5. key \notin Consumed  BY <1>2 DEF Consumed
<1>6. Finished(saved'.quest_progress) \subseteq Finished(quest_progress')
  BY <1>1, <1>2 DEF ConserveInv
<1>7. CASE UNCHANGED entities /\ ~QuestDef[q].consume_required_item
  <2>1. Gone' = Gone /\ Consumed' = Consumed  BY <1>1, <1>4, <1>7 DEF Gone
  <2>2. QED  BY <1>1, <1>6, <1>7, <2>1 DEF ConserveInv, Idle
<1>8. CASE QuestDef[q].consume_required_item
  <2>1. PICK p \in DOMAIN Inventory(inventories, caller) :
          /\ FirstNamed(Inventory(inventories, caller), p, QuestDef[q].required_item)
          /\ entities' = [id \in DOMAIN entities \ {Inventory(inventories, caller)[p]} |->
                            entities[id]]
    BY <1>8 DEF CompleteQuest
  <2> DEFINE item == Inventory(inventories, caller)[p]
  <2>2. item \in DOMAIN entities /\ entities[item].name = QuestDef[q].required_item
    BY <2>1 DEF FirstNamed
  <2>3. entities[item].kind = "item"
    <3>1. caller \in DOMAIN inventories /\ p \in DOMAIN inventories[caller]
          /\ item = inventories[caller][p]
      BY <2>1 DEF Inventory
    <3>2. QED
      BY <3>1 DEF HeldConsistent, ValidateInventories, ListedItemsAreHere, IsKind, Kind
  <2> HIDE DEF item
  <2>4. /\ DOMAIN entities' = DOMAIN entities \ {item}
        /\ \A id \in DOMAIN entities' : entities'[id] = entities[id]
    BY <2>1 DEF item
  <2>5. /\ item \in DOMAIN saved.entities /\ saved.entities[item].kind = "item"
        /\ saved.entities[item].name = QuestDef[q].required_item
    BY <2>2, <2>3 DEF ConserveInv
  <2>6. Gone' = Gone \cup {item} /\ item \notin Gone  BY <1>1, <2>2, <2>4, <2>5 DEF Gone
  <2>7. Consumed' = Consumed \cup {key}  BY <1>4, <1>8
  <2>8. key[2] = q  OBVIOUS
  <2>9. \A id \in Gone' : /\ saved.entities[id].kind = "item"
                          /\ \E k \in Consumed' :
                               QuestDef[k[2]].required_item = saved.entities[id].name
    <3>1. ASSUME NEW id \in Gone
          PROVE  /\ saved.entities[id].kind = "item"
                 /\ \E k \in Consumed' : QuestDef[k[2]].required_item = saved.entities[id].name
      BY <2>7 DEF ConserveInv
    <3>2. \E k \in Consumed' : QuestDef[k[2]].required_item = saved.entities[item].name
      BY <2>5, <2>7, <2>8
    <3>3. QED  BY <2>5, <2>6, <3>1, <3>2
  <2>10. Cardinality(Gone') <= Cardinality(Consumed')
    <3>1. Cardinality(Gone') = Cardinality(Gone) + 1
      BY <2>6, ConservedFinite, FS_AddElement
    <3>2. Cardinality(Consumed') = Cardinality(Consumed) + 1
      BY <1>5, <2>7, ConservedFinite, FS_AddElement
    <3>3. Cardinality(Gone) \in Nat /\ Cardinality(Consumed) \in Nat
      BY ConservedFinite, FS_CardinalityType
    <3>4. Cardinality(Gone) <= Cardinality(Consumed)  BY DEF ConserveInv
    <3>5. QED  BY <3>1, <3>2, <3>3, <3>4
  <2> HIDE DEF key
  <2>11. \A id \in DOMAIN entities' : /\ entities'[id].kind = saved.entities[id].kind
                                      /\ entities'[id].name = saved.entities[id].name
    BY <2>4 DEF ConserveInv
  <2>12. DOMAIN entities' \subseteq DOMAIN saved.entities  BY <2>4 DEF ConserveInv
  <2>13. saved.entities[caller].contract \in Contract /\ ~Idle'
    BY <1>1 DEF ConserveInv, Idle
  <2>14. QED  BY <1>1, <1>6, <2>9, <2>10, <2>11, <2>12, <2>13 DEF ConserveInv
<1>9. QED  BY <1>7, <1>8 DEF CompleteQuest

(* The host calls of safe scripts. *)
LEMMA SafeCallConserves ==
  ASSUME SafeScripts, TypeOK, HeldConsistent, ConserveInv, HostCall
  PROVE  ConserveInv'
<1>1. saved' = saved /\ caller' = caller /\ ~Idle  BY HostCallKeeps
<1>2. Script[saved.entities[caller].contract] \subseteq SafeCalls
  BY <1>1 DEF SafeScripts, ConserveInv
<1>3. EntitiesTyped(entities) /\ ProgressTyped(quest_progress)
  BY SnapshotTyped DEF TypeOK, FieldsTyped
<1>4. ASSUME NEW id \in DOMAIN entities, NEW at, entities' = Located(entities, id, at),
             quest_progress' = quest_progress
      PROVE  ConserveInv'
  <2>1. /\ DOMAIN entities' = DOMAIN entities
        /\ \A e \in DOMAIN entities : /\ entities'[e].kind = entities[e].kind
                                      /\ entities'[e].name = entities[e].name
    BY <1>3, <1>4 DEF Located, EntitiesTyped, Entity
  <2>2. QED  BY <1>1, <1>4, <2>1, NothingGone
<1>5. CASE UNCHANGED <<entities, quest_progress>>  BY <1>1, <1>5, NothingGone
<1>6. ASSUME NEW q \in Quest, NEW g \in EntityId, AcceptQuest(q, g)  PROVE ConserveInv'
  <2>1. entities' = entities  BY <1>6 DEF AcceptQuest
  <2>2. Finished(quest_progress') = Finished(quest_progress)
    BY <1>3, <1>6 DEF AcceptQuest, Finished, ProgressTyped
  <2>3. QED  BY <1>1, <2>1, <2>2, NothingGone
<1>7. ASSUME NEW q \in Quest, CompleteQuest(q)  PROVE ConserveInv'  BY <1>7, QuestConsumes
<1>8. CASE \/ \E a, z \in EntityId : MoveActor(a, z)
           \/ \E i \in EntityId : TakeItem(i) \/ DropItem(i)
           \/ \E i, t \in EntityId : TransferItem(i, t)
  BY <1>4, <1>8 DEF MoveActor, TakeItem, DropItem, TransferItem, IsKind
<1>9. CASE \/ \E k \in EventKind, i \in EntityId \cup {NoEntity} : EmitEvent(k, i)
           \/ \E n \in 1 .. MaxBalance : CreditBalance(n)
  BY <1>5, <1>9 DEF EmitEvent, CreditBalance
<1>10. ~ (\/ \E i, l \in EntityId : MoveEntity(i, l)
          \/ \E k \in EntityKind, l \in EntityId \cup {NoEntity}, n \in Name : SpawnEntity(k, l, n)
          \/ \E i \in EntityId, n \in Name : UpdateEntityName(i, n))
  BY <1>2 DEF MoveEntity, SpawnEntity, UpdateEntityName, Calling, SafeCalls
<1>11. QED  BY <1>6, <1>7, <1>8, <1>9, <1>10 DEF HostCall

(* Commands of safe scripts lose nothing: whatever order contracts take,   *)
(* hand over, drop and give items in, a commit lacks an entity only if it  *)
(* completed a quest that consumes an item of that name, one for each.     *)
THEOREM ItemsAlwaysConserved ==
  ASSUME SafeScripts
  PROVE  Spec => ItemsConserved
<1> DEFINE Conserved ==
      /\ Cardinality(LostEntities) <= Cardinality(NewlyConsuming)
      /\ \A id \in LostEntities :
           /\ saved.entities[id].kind = "item"
           /\ \E k \in NewlyConsuming :
                QuestDef[k[2]].required_item = saved.entities[id].name
<1>1. ASSUME entities = saved.entities, quest_progress = saved.quest_progress,
             ~Idle => saved.entities[caller].contract \in Contract
      PROVE  ConserveInv
  <2>1. Gone = {} /\ Consumed = {}  BY <1>1 DEF Gone, Consumed
  <2>2. Cardinality({}) <= Cardinality({})  BY FS_EmptySet
  <2>3. QED  BY <1>1, <2>1, <2>2 DEF ConserveInv
<1>2. Init => ConserveInv  BY <1>1 DEF Init, Idle, Snapshot
<1>3. TypeOK /\ HeldConsistent /\ ConserveInv /\ [Next]_vars =>
        ConserveInv' /\ [Conserved]_saved
  <2> SUFFICES ASSUME TypeOK, HeldConsistent, ConserveInv, [Next]_vars
               PROVE  ConserveInv' /\ (saved' = saved \/ Conserved)
    OBVIOUS
  <2>1. ASSUME entities' = saved'.entities, quest_progress' = saved'.quest_progress,
               ~Idle' => saved'.entities[caller'].contract \in Contract
        PROVE  ConserveInv'
    <3>1. Gone' = {} /\ Consumed' = {}  BY <2>1 DEF Gone, Consumed
    <3>2. Cardinality({}) <= Cardinality({})  BY FS_EmptySet
    <3>3. QED  BY <2>1, <3>1, <3>2 DEF ConserveInv
  <2>2. CASE Request
    <3>1. PICK e \in EntityId :
            /\ Idle /\ UNCHANGED <<world, saved>> /\ caller' = e
            /\ e \in DOMAIN entities /\ entities[e].contract \in contracts
      BY <2>2 DEF Request, BeginCommand, BeginTransaction
    <3>2. contracts \subseteq Contract  BY SnapshotTyped DEF TypeOK, FieldsTyped
    <3>3. QED  BY <2>1, <3>1, <3>2 DEF ConserveInv, world
  <2>3. CASE HostCall  BY <2>3, SafeCallConserves, HostCallKeeps
  <2>4. CASE Fail  BY <2>1, <2>4 DEF Fail, EndRequest, Idle
  <2>5. CASE Commit
    <3>1. /\ saved' = Snapshot' /\ entities' = entities /\ quest_progress' = quest_progress
          /\ Idle'
      BY <2>5 DEF Commit, Save, EndRequest, Idle
    <3>2. saved'.entities = entities /\ saved'.quest_progress = quest_progress
      BY <3>1 DEF Snapshot
    <3>3. ConserveInv'  BY <2>1, <3>1, <3>2
    <3>4. LostEntities = Gone  BY <3>2 DEF LostEntities, Gone
    <3>5. NewlyConsuming = Consumed
      BY <3>2 DEF NewlyConsuming, Consumed, Finished
    <3>6. QED  BY <3>3, <3>4, <3>5 DEF ConserveInv
  <2>6. CASE AdminRequest
    <3>1. /\ saved' = Snapshot' /\ quest_progress' = quest_progress /\ Idle /\ caller' = caller
          /\ DOMAIN entities \subseteq DOMAIN entities'
      BY <2>6 DEF AdminRequest, CreateAccount, Deploy, CreateEntityByAdmin, CreateEntity,
                  Admin, request, Save
    <3>2. saved'.entities = entities' /\ saved'.quest_progress = quest_progress'
      BY <3>1 DEF Snapshot
    <3>3. ConserveInv'  BY <2>1, <3>1, <3>2 DEF Idle
    <3>4. entities = saved.entities /\ quest_progress = saved.quest_progress
      BY <3>1 DEF ConserveInv
    <3>5. LostEntities = {}  BY <3>1, <3>2, <3>4 DEF LostEntities
    <3>6. NewlyConsuming = {}  BY <3>1, <3>2, <3>4 DEF NewlyConsuming
    <3>7. Cardinality({}) <= Cardinality({})  BY FS_EmptySet
    <3>8. QED  BY <3>3, <3>5, <3>6, <3>7
  <2>7. CASE UNCHANGED vars
    <3>1. UNCHANGED <<entities, quest_progress, saved, caller>>
      BY <2>7 DEF vars, world, request
    <3>2. Gone' = Gone /\ Consumed' = Consumed /\ Idle' <=> Idle
      BY <3>1 DEF Gone, Consumed, Idle
    <3>3. QED  BY <3>1, <3>2 DEF ConserveInv, Gone, Consumed, Idle
  <2>8. QED  BY <2>2, <2>3, <2>4, <2>5, <2>6, <2>7 DEF Next
<1>4. QED
  BY <1>2, <1>3, TypeCorrect, SafeContractsConsistent, PTL DEF Spec, ItemsConserved
----------------------------------------------------------------------------
(* What quests pay.  The sum over a set of quests is counted: a quest that *)
(* pays n stands for n units, so that the sum is the number of units,      *)
(* whatever order the quests are added in.                                 *)

ProgressKey == EntityId \X Quest
RewardOf(k) == QuestDef[k[2]].reward_balance
RewardSum(S) == MapThenSumSet(LAMBDA k : QuestDef[k[2]].reward_balance, S)
Units(S) == {u \in S \X Nat : u[2] \in 1 .. RewardOf(u[1])}

(* A reward is a number. *)
LEMMA RewardType == \A k \in ProgressKey : RewardOf(k) \in Nat
BY QuestAssumption DEF RewardOf, ProgressKey, QuestDefinition

(* The units of one quest. *)
LEMMA UnitsOfOne ==
  ASSUME NEW k \in ProgressKey
  PROVE  IsFiniteSet(Units({k})) /\ Cardinality(Units({k})) = RewardOf(k)
<1> DEFINE n == RewardOf(k)
           f == [i \in 1 .. n |-> <<k, i>>]
<1>1. n \in Nat  BY RewardType
<1>2. IsFiniteSet(1 .. n) /\ Cardinality(1 .. n) = n  BY <1>1, FS_Interval
<1>3. Units({k}) = {<<k, i>> : i \in 1 .. n}  BY <1>1 DEF Units
<1> HIDE DEF n
<1>4. f \in Bijection(1 .. n, Units({k}))
  BY <1>3 DEF Bijection, Injection, Surjection, IsInjective
<1>5. ExistsBijection(1 .. n, Units({k}))  BY <1>4 DEF ExistsBijection
<1>6. QED  BY <1>2, <1>5, FS_Bijection DEF n

(* Finitely many quests have finitely many units. *)
LEMMA UnitsFinite ==
  ASSUME NEW S, IsFiniteSet(S), S \subseteq ProgressKey
  PROVE  IsFiniteSet(Units(S))
<1> DEFINE U == {Units({k}) : k \in S}
           f == [k \in S |-> Units({k})]
<1>1. f \in Surjection(S, U)  BY DEF Surjection
<1>2. IsFiniteSet(U)  BY <1>1, FS_Surjection
<1>3. \A T \in U : IsFiniteSet(T)  BY UnitsOfOne
<1>4. IsFiniteSet(UNION U)
  <2> HIDE DEF U
  <2>1. QED  BY <1>2, <1>3, FS_UNION
<1>5. Units(S) = UNION U  BY DEF Units
<1>6. QED  BY <1>4, <1>5

(* One more quest adds its own units. *)
LEMMA UnitsAdded ==
  ASSUME NEW S, IsFiniteSet(S), S \subseteq ProgressKey, NEW k \in ProgressKey, k \notin S
  PROVE  Cardinality(Units(S \cup {k})) = RewardOf(k) + Cardinality(Units(S))
<1>1. Units(S \cup {k}) = Units(S) \cup Units({k})  BY DEF Units
<1>2. Units(S) \cap Units({k}) = {}  BY DEF Units
<1>3. IsFiniteSet(Units(S)) /\ IsFiniteSet(Units({k}))  BY UnitsFinite, UnitsOfOne
<1>4. Cardinality(Units(S) \cup Units({k}))
        = Cardinality(Units(S)) + Cardinality(Units({k})) - Cardinality({})
  <2>1. Cardinality(Units(S) \cup Units({k}))
          = Cardinality(Units(S)) + Cardinality(Units({k})) - Cardinality(Units(S) \cap Units({k}))
    BY <1>3, FS_Union
  <2>2. QED  BY <1>2, <2>1
<1>5. Cardinality(Units({k})) = RewardOf(k) /\ RewardOf(k) \in Nat  BY UnitsOfOne, RewardType
<1>6. Cardinality(Units(S)) \in Nat  BY <1>3, FS_CardinalityType
<1>7. Cardinality({}) = 0  BY FS_EmptySet
<1>8. Cardinality(Units(S \cup {k})) = Cardinality(Units(S)) + RewardOf(k) - 0
  BY <1>1, <1>4, <1>5, <1>7, Zenon
<1>9. QED
  <2>1. \A a, b \in Nat : a + b - 0 = b + a  OBVIOUS
  <2>2. QED  BY <1>5, <1>6, <1>8, <2>1, Zenon

(* The sum is the number of units: two functions that satisfy the          *)
(* recursion of the fold agree, for a smallest set on which they differed  *)
(* would differ on that set without an element, too.                       *)
LEMMA SumIsUnits ==
  ASSUME NEW S, IsFiniteSet(S), S \subseteq ProgressKey
  PROVE  RewardSum(S) = Cardinality(Units(S))
<1> DEFINE Pick(s) == CHOOSE x \in s : TRUE
           Folds(h) == h = [s \in SUBSET S |-> IF s = {} THEN 0
                              ELSE RewardOf(Pick(s)) + h[s \ {Pick(s)}]]
           fold == CHOOSE h : Folds(h)
           count == [s \in SUBSET S |-> Cardinality(Units(s))]
<1>1. RewardSum(S) = fold[S]
  BY DEF RewardSum, RewardOf, MapThenSumSet, MapThenFoldSet
<1>2. ASSUME NEW s \in SUBSET S, s # {}
      PROVE  Pick(s) \in s /\ count[s] = RewardOf(Pick(s)) + count[s \ {Pick(s)}]
  <2>1. PICK k : k = Pick(s)  OBVIOUS
  <2>2. k \in s  BY <1>2, <2>1
  <2>3. IsFiniteSet(s \ {k}) /\ s \ {k} \subseteq ProgressKey /\ k \in ProgressKey
    BY <2>2, FS_Subset
  <2>4. s = (s \ {k}) \cup {k} /\ k \notin s \ {k}  BY <2>2
  <2>5. Cardinality(Units(s)) = RewardOf(k) + Cardinality(Units(s \ {k}))
    BY <2>3, <2>4, UnitsAdded
  <2>6. QED  BY <2>1, <2>2, <2>5
<1>3. count[{}] = 0
  <2>1. Units({}) = {}  BY DEF Units
  <2>2. QED  BY <2>1, FS_EmptySet
<1>4. Folds(count)
  <2>1. ASSUME NEW s \in SUBSET S
        PROVE  count[s] = IF s = {} THEN 0 ELSE RewardOf(Pick(s)) + count[s \ {Pick(s)}]
    BY <1>2, <1>3
  <2> DEFINE other == [s \in SUBSET S |-> IF s = {} THEN 0
                         ELSE RewardOf(Pick(s)) + count[s \ {Pick(s)}]]
  <2>2. \A s \in SUBSET S : count[s] = other[s]  BY <2>1
  <2>3. DOMAIN count = SUBSET S /\ DOMAIN other = SUBSET S  OBVIOUS
  <2>4. count = other
    <3> DEFINE c == count
               o == other
    <3>1. c = [s \in SUBSET S |-> c[s]] /\ o = [s \in SUBSET S |-> o[s]]  OBVIOUS
    <3>2. \A s \in SUBSET S : c[s] = o[s]  BY <2>2
    <3> HIDE DEF c, o
    <3>3. c = o  BY <3>1, <3>2
    <3>4. QED  BY <3>3 DEF c, o
  <2>5. QED  BY <2>4
<1>5. Folds(fold)
  <2> HIDE DEF Folds, count
  <2>1. QED  BY <1>4
<1>6. \A s \in SUBSET S : fold[s] = count[s]
  <2> DEFINE Differ == {s \in SUBSET S : fold[s] # count[s]}
             R == StrictSubsetOrdering(S)
  <2>1. FiniteSubsetsOf(S) = SUBSET S  BY FS_FiniteSubsetsOfFinite
  <2>2. IsWellFoundedOn(R, SUBSET S)  BY <2>1, FS_StrictSubsetOrderingWellFounded
  <2>3. SUFFICES ASSUME Differ # {}  PROVE FALSE
    OBVIOUS
  <2>4. \E x \in Differ : \A y \in Differ : ~ (<<y, x>> \in R)
    <3>1. Differ \subseteq SUBSET S  OBVIOUS
    <3> HIDE DEF Differ, R
    <3>2. QED  BY <2>2, <2>3, <3>1, WFMin
  <2>5. PICK s \in Differ : \A y \in Differ : ~ (<<y, s>> \in R)  BY <2>4
  <2> HIDE DEF count
  <2>6. s \in SUBSET S /\ fold[s] # count[s]  OBVIOUS
  <2>7. fold[s] = IF s = {} THEN 0 ELSE RewardOf(Pick(s)) + fold[s \ {Pick(s)}]
    <3> HIDE DEF fold, Differ, R
    <3>1. QED  BY <1>5, <2>6
  <2>8. s # {}
    <3> HIDE DEF fold
    <3>1. QED  BY <1>3, <2>6, <2>7
  <2>9. PICK r : r = s \ {Pick(s)}  OBVIOUS
  <2>10. r \in SUBSET S /\ <<r, s>> \in R
    BY <1>2, <2>6, <2>8, <2>9 DEF StrictSubsetOrdering
  <2>11. fold[r] = count[r]
    <3> HIDE DEF fold, R
    <3>1. QED  BY <2>5, <2>10
  <2>12. count[s] = RewardOf(Pick(s)) + count[r]  BY <1>2, <2>6, <2>8, <2>9
  <2>13. fold[s] = RewardOf(Pick(s)) + fold[r]
    <3> HIDE DEF fold, Differ, R
    <3>1. QED  BY <2>7, <2>8, <2>9
  <2>14. QED
    <3> HIDE DEF fold, Differ, R
    <3>1. QED  BY <2>6, <2>11, <2>12, <2>13
<1>7. QED
  <2> HIDE DEF fold
  <2>1. QED  BY <1>1, <1>6

(* One more quest adds its reward to the sum. *)
LEMMA RewardAdded ==
  ASSUME NEW S, IsFiniteSet(S), S \subseteq ProgressKey, NEW k \in ProgressKey, k \notin S
  PROVE  RewardSum(S \cup {k}) = RewardSum(S) + RewardOf(k)
<1>1. IsFiniteSet(S \cup {k}) /\ S \cup {k} \subseteq ProgressKey  BY FS_AddElement
<1>2. RewardSum(S) = Cardinality(Units(S)) /\ Cardinality(Units(S)) \in Nat
  BY SumIsUnits, UnitsFinite, FS_CardinalityType
<1>3. RewardSum(S \cup {k}) = Cardinality(Units(S \cup {k}))  BY <1>1, SumIsUnits
<1>4. RewardOf(k) \in Nat  BY RewardType
<1>5. QED  BY <1>2, <1>3, <1>4, UnitsAdded

(* Nothing pays nothing. *)
LEMMA RewardNone == RewardSum({}) = 0
<1>1. Units({}) = {}  BY DEF Units
<1>2. QED  BY <1>1, SumIsUnits, FS_EmptySet

(* The quests that paid an account, as far as a world tells.               *)
PaidQuests(prog, ents, a) ==
  {k \in Finished(prog) : k[1] \in DOMAIN ents /\ ents[k[1]].owner = a}

(***************************************************************************)
(* A world whose balances are the initial ones and the rewards.  That this *)
(* stays so needs more: quests are kept by actors, which nothing deletes;  *)
(* only actors run contracts; what an inventory lists is an item or, when  *)
(* it is gone, an id that no later entity gets; and whoever owns an entity *)
(* has an account, so that a new account starts with nothing earned.       *)
(***************************************************************************)
Paid(accs, ents, invs, prog, next) ==
  /\ DOMAIN InitWorld.accounts \subseteq DOMAIN accs
  /\ \A a \in DOMAIN accs :
       accs[a].balance = InitialBalance(a) + RewardSum(PaidQuests(prog, ents, a))
  /\ \A k \in DOMAIN prog : IsKind(ents, k[1], {"actor"})
  /\ \A id \in DOMAIN ents : id < next /\ ents[id].owner \in DOMAIN accs
  /\ OnlyActorsScripted(ents)
  /\ \A b \in DOMAIN invs : \A x \in Items(invs[b]) :
       x < next /\ (x \in DOMAIN ents => ents[x].kind = "item")

RewardInv ==
  /\ Paid(accounts, entities, inventories, quest_progress, next_entity_id)
  /\ Paid(saved.accounts, saved.entities, saved.inventories, saved.quest_progress,
          saved.next_entity_id)
  /\ Idle => entities = saved.entities
  /\ CallerIsActor

(* Balances are credited for quests only: contracts do not credit them by  *)
(* themselves, and an operator creates accounts that hold nothing.         *)
OnlyQuestsPay ==
  /\ \A c \in Contract : "credit_balance" \notin Script[c]
  /\ Scriptable \subseteq {"actor"}
  /\ OnlyActorsScripted(InitWorld.entities)
  /\ AdminEnabled => Deposits \subseteq {0}
  /\ Finished(InitWorld.quest_progress) = {}

(* What a step may do to a world that is paid: keep the finished quests,   *)
(* every balance, and what identifies the entities, and add accounts that  *)
(* hold nothing, entities with new ids and quests of actors.               *)
LEMMA StillPaid ==
  ASSUME NEW accs, NEW ents, NEW invs, NEW prog, NEW next \in Nat,
         NEW accs2, NEW ents2, NEW invs2, NEW prog2, NEW next2 \in Nat,
         Paid(accs, ents, invs, prog, next),
         InventoriesTyped(invs), EntitiesTyped(ents), EntitiesTyped(ents2),
         AccountsTyped(accs2), ProgressTyped(prog), next <= next2,
         \A a \in DOMAIN accs : a \in DOMAIN accs2 /\ accs2[a].balance = accs[a].balance,
         \A a \in DOMAIN accs2 : a \in DOMAIN accs \/ accs2[a].balance = 0,
         \A id \in DOMAIN ents : /\ id \in DOMAIN ents2
                                 /\ ents2[id].kind = ents[id].kind
                                 /\ ents2[id].owner = ents[id].owner
                                 /\ ents2[id].contract = ents[id].contract,
         \A id \in DOMAIN ents2 :
           \/ id \in DOMAIN ents
           \/ /\ next <= id /\ id < next2
              /\ ents2[id].owner \in DOMAIN accs2
              /\ ents2[id].contract # NoContract => ents2[id].kind = "actor",
         Finished(prog2) = Finished(prog),
         \A k \in DOMAIN prog2 : k \in DOMAIN prog \/ IsKind(ents, k[1], {"actor"}),
         \A b \in DOMAIN invs2 : \A x \in Items(invs2[b]) :
           \/ \E c \in DOMAIN invs : x \in Items(invs[c])
           \/ IsKind(ents, x, {"item"})
  PROVE  Paid(accs2, ents2, invs2, prog2, next2)
<1>1. DOMAIN InitWorld.accounts \subseteq DOMAIN accs2  BY DEF Paid
<1>2. \A a : PaidQuests(prog2, ents2, a) = PaidQuests(prog, ents, a)
  <2>1. \A k \in Finished(prog) : k[1] \in DOMAIN ents
    BY DEF Paid, Finished, IsKind
  <2>2. QED  BY <2>1 DEF PaidQuests
<1>3. ASSUME NEW a \in DOMAIN accs2
      PROVE  accs2[a].balance = InitialBalance(a) + RewardSum(PaidQuests(prog2, ents2, a))
  <2>1. CASE a \in DOMAIN accs  BY <1>2, <2>1 DEF Paid
  <2>2. CASE a \notin DOMAIN accs
    <3>1. PaidQuests(prog, ents, a) = {}  BY <2>2 DEF Paid, PaidQuests
    <3>2. InitialBalance(a) = 0  BY <2>2 DEF Paid, InitialBalance
    <3>3. RewardSum(PaidQuests(prog2, ents2, a)) = 0  BY <1>2, <3>1, RewardNone
    <3>4. accs2[a].balance = 0  BY <2>2
    <3>5. QED  BY <3>2, <3>3, <3>4
  <2>3. QED  BY <2>1, <2>2
<1>4. \A k \in DOMAIN prog2 : IsKind(ents2, k[1], {"actor"})  BY DEF Paid, IsKind, Kind
<1>5. \A id \in DOMAIN ents2 : id < next2 /\ ents2[id].owner \in DOMAIN accs2
  <2>1. \A id \in DOMAIN ents2 : id \in Int  BY DEF EntitiesTyped, EntityId
  <2>2. QED  BY <2>1 DEF Paid
<1>6. OnlyActorsScripted(ents2)  BY DEF Paid, OnlyActorsScripted
<1>7. ASSUME NEW b \in DOMAIN invs2, NEW x \in Items(invs2[b])
      PROVE  x < next2 /\ (x \in DOMAIN ents2 => ents2[x].kind = "item")
  <2>1. CASE IsKind(ents, x, {"item"})
    <3>1. x \in Int  BY <2>1 DEF IsKind, EntitiesTyped, EntityId
    <3>2. QED  BY <2>1, <3>1 DEF Paid, IsKind, Kind
  <2>2. CASE \E c \in DOMAIN invs : x \in Items(invs[c])
    <3>1. PICK c \in DOMAIN invs : x \in Items(invs[c])  BY <2>2
    <3>2. x \in Int
      <4>1. invs[c] \in Seq(EntityId)  BY <3>1 DEF InventoriesTyped
      <4>2. x \in EntityId  BY <3>1, <4>1 DEF Items
      <4>3. QED  BY <4>2 DEF EntityId
    <3>3. x < next /\ (x \in DOMAIN ents => ents[x].kind = "item")  BY <3>1 DEF Paid
    <3>4. QED  BY <3>2, <3>3
  <2>3. QED  BY <2>1, <2>2
<1>8. QED  BY <1>1, <1>3, <1>4, <1>5, <1>6, <1>7 DEF Paid

(* Completing a quest pays its reward to the owner of the actor, once, and *)
(* what it deletes is an item, which keeps no quest.                       *)
LEMMA QuestPays ==
  ASSUME TypeOK, RewardInv, NEW q \in Quest, CompleteQuest(q)
  PROVE  /\ Paid(accounts', entities', inventories', quest_progress', next_entity_id')
         /\ IsKind(entities', caller, {"actor"})
<1> DEFINE key    == <<caller, q>>
           owner  == entities[caller].owner
           reward == QuestDef[q].reward_balance
           held   == Inventory(inventories, caller)
<1>1. /\ AccountsTyped(accounts) /\ EntitiesTyped(entities) /\ InventoriesTyped(inventories)
      /\ ProgressTyped(quest_progress)
  BY SnapshotTyped DEF TypeOK, FieldsTyped
<1>2. IsKind(entities, caller, {"actor"})
  BY DEF CompleteQuest, Calling, RewardInv, CallerIsActor
<1>3. Paid(accounts, entities, inventories, quest_progress, next_entity_id)
  BY DEF RewardInv
<1>4. /\ owner \in DOMAIN accounts
      /\ accounts' = [accounts EXCEPT ![owner].balance = @ + reward]
      /\ next_entity_id' = next_entity_id
  BY DEF CompleteQuest, Credited, OwnerOf
<1>5. /\ key \in DOMAIN quest_progress /\ quest_progress[key] = "accepted"
      /\ quest_progress' = [quest_progress EXCEPT ![key] = "completed"]
  BY DEF CompleteQuest, Accepted
<1>6. /\ Finished(quest_progress') = Finished(quest_progress) \cup {key}
      /\ key \notin Finished(quest_progress)
      /\ DOMAIN quest_progress' = DOMAIN quest_progress
  BY <1>1, <1>5 DEF Finished, ProgressTyped
<1>7. /\ DOMAIN entities' \subseteq DOMAIN entities
      /\ \A id \in DOMAIN entities' : entities'[id] = entities[id]
      /\ \A id \in DOMAIN entities : id \in DOMAIN entities' \/ entities[id].kind = "item"
  <2>1. CASE UNCHANGED <<inventories, entities>>  BY <2>1
  <2>2. CASE \E p \in DOMAIN held :
               /\ held[p] \in DOMAIN entities
               /\ inventories' = [inventories EXCEPT ![caller] = Without(@, held[p])]
               /\ entities' = [id \in DOMAIN entities \ {held[p]} |-> entities[id]]
    <3>1. PICK p \in DOMAIN held :
            /\ held[p] \in DOMAIN entities
            /\ inventories' = [inventories EXCEPT ![caller] = Without(@, held[p])]
            /\ entities' = [id \in DOMAIN entities \ {held[p]} |-> entities[id]]
      BY <2>2
    <3>2. caller \in DOMAIN inventories /\ held = inventories[caller]
      BY <3>1 DEF Inventory
    <3>3. held[p] \in Items(inventories[caller])  BY <3>2 DEF Items
    <3>4. entities[held[p]].kind = "item"  BY <1>3, <3>1, <3>2, <3>3 DEF Paid
    <3>5. QED  BY <3>1, <3>4
  <2>3. QED  BY <2>1, <2>2 DEF CompleteQuest, FirstNamed
<1>8. /\ DOMAIN inventories' = DOMAIN inventories
      /\ \A b \in DOMAIN inventories' : Items(inventories'[b]) \subseteq Items(inventories[b])
  <2>1. CASE UNCHANGED <<inventories, entities>>  BY <2>1
  <2>2. CASE \E p \in DOMAIN held :
               /\ held[p] \in DOMAIN entities
               /\ inventories' = [inventories EXCEPT ![caller] = Without(@, held[p])]
               /\ entities' = [id \in DOMAIN entities \ {held[p]} |-> entities[id]]
    <3>1. PICK p \in DOMAIN held :
            /\ held[p] \in DOMAIN entities
            /\ inventories' = [inventories EXCEPT ![caller] = Without(@, held[p])]
            /\ entities' = [id \in DOMAIN entities \ {held[p]} |-> entities[id]]
      BY <2>2
    <3>2. caller \in DOMAIN inventories /\ held = inventories[caller]
      BY <3>1 DEF Inventory
    <3>3. held \in Seq(EntityId)  BY <1>1, <3>2 DEF InventoriesTyped
    <3>4. Items(Without(held, held[p])) \subseteq Items(held)
      <4>1. \E i \in DOMAIN held : held[i] = held[p]  OBVIOUS
      <4>2. Position(held, held[p]) \in DOMAIN held  BY <4>1 DEF Position
      <4>3. QED  BY <3>3, <4>2 DEF Items, Without
    <3>5. QED  BY <1>1, <3>1, <3>2, <3>4 DEF InventoriesTyped
  <2>3. QED  BY <2>1, <2>2 DEF CompleteQuest, FirstNamed
<1>10. \A id \in DOMAIN entities :
         entities[id].kind = "actor" => id \in DOMAIN entities' /\ entities'[id] = entities[id]
  BY <1>7
<1>11. \A k \in DOMAIN quest_progress : IsKind(entities, k[1], {"actor"})  BY <1>3 DEF Paid
<1>12. \A k \in DOMAIN quest_progress' : IsKind(entities', k[1], {"actor"})
  BY <1>6, <1>10, <1>11 DEF IsKind, Kind
<1>13. IsKind(entities', caller, {"actor"})  BY <1>2, <1>10 DEF IsKind, Kind
<1>14. key[1] = caller /\ key[2] = q  OBVIOUS
<1>15. \A k \in Finished(quest_progress) :
         k[1] \in DOMAIN entities /\ k[1] \in DOMAIN entities' /\ entities'[k[1]] = entities[k[1]]
  BY <1>10, <1>11 DEF Finished, IsKind, Kind
<1>16. caller \in DOMAIN entities' /\ entities'[caller] = entities[caller]
  BY <1>2, <1>10 DEF IsKind, Kind
<1>17. ASSUME NEW a
       PROVE  PaidQuests(quest_progress', entities', a)
                = IF a = owner THEN PaidQuests(quest_progress, entities, a) \cup {key}
                  ELSE PaidQuests(quest_progress, entities, a)
  <2> HIDE DEF key
  <2>1. QED  BY <1>6, <1>14, <1>15, <1>16 DEF PaidQuests
<1>18. /\ IsFiniteSet(PaidQuests(quest_progress, entities, owner))
       /\ PaidQuests(quest_progress, entities, owner) \subseteq ProgressKey
       /\ key \in ProgressKey /\ key \notin PaidQuests(quest_progress, entities, owner)
  <2>1. IsFiniteSet(EntityId)  BY BoundAssumption, FS_Interval DEF EntityId
  <2>2. IsFiniteSet(ProgressKey)  BY <2>1, QuestAssumption, FS_Product DEF ProgressKey
  <2>3. PaidQuests(quest_progress, entities, owner) \subseteq ProgressKey
    BY <1>1 DEF PaidQuests, Finished, ProgressKey, ProgressTyped
  <2>4. key \in ProgressKey  BY <1>1, <1>5 DEF ProgressKey, ProgressTyped
  <2>5. key \notin PaidQuests(quest_progress, entities, owner)  BY <1>6 DEF PaidQuests
  <2>6. QED  BY <2>2, <2>3, <2>4, <2>5, FS_Subset
<1>19. RewardSum(PaidQuests(quest_progress', entities', owner))
         = RewardSum(PaidQuests(quest_progress, entities, owner)) + reward
  <2>1. RewardOf(key) = reward  BY <1>14 DEF RewardOf
  <2> HIDE DEF key, owner, reward
  <2>2. RewardSum(PaidQuests(quest_progress, entities, owner) \cup {key})
          = RewardSum(PaidQuests(quest_progress, entities, owner)) + RewardOf(key)
    BY <1>18, RewardAdded
  <2>3. QED  BY <1>17, <2>1, <2>2
<1>20. /\ DOMAIN accounts' = DOMAIN accounts
       /\ accounts'[owner].balance = accounts[owner].balance + reward
       /\ \A a \in DOMAIN accounts : a # owner => accounts'[a] = accounts[a]
  BY <1>1, <1>4 DEF AccountsTyped, AccountState
<1>21. ASSUME NEW a \in DOMAIN accounts'
       PROVE  accounts'[a].balance
                = InitialBalance(a) + RewardSum(PaidQuests(quest_progress', entities', a))
  <2>1. accounts[a].balance = InitialBalance(a) + RewardSum(PaidQuests(quest_progress, entities, a))
    BY <1>3, <1>20 DEF Paid
  <2>2. CASE a # owner
    <3>1. PaidQuests(quest_progress', entities', a) = PaidQuests(quest_progress, entities, a)
      BY <1>17, <2>2
    <3>2. accounts'[a] = accounts[a]  BY <1>20, <2>2
    <3>3. QED  BY <2>1, <3>1, <3>2
  <2>3. CASE a = owner
    <3>1. PICK s : s = RewardSum(PaidQuests(quest_progress, entities, owner))  OBVIOUS
    <3>2. s \in Nat /\ reward \in Nat /\ InitialBalance(a) \in Nat
      <4>1. s \in Nat  BY <1>18, <3>1, SumIsUnits, UnitsFinite, FS_CardinalityType
      <4>2. reward \in Nat  BY QuestAssumption DEF QuestDefinition
      <4>3. AccountsTyped(InitWorld.accounts)  BY InitAssumption DEF WorldTyped
      <4>4. InitialBalance(a) \in Nat
        BY <4>3, BoundAssumption DEF InitialBalance, AccountsTyped, AccountState
      <4>5. QED  BY <4>1, <4>2, <4>4
    <3>3. RewardSum(PaidQuests(quest_progress', entities', a)) = s + reward
      BY <1>19, <2>3, <3>1
    <3>4. accounts[a].balance = InitialBalance(a) + s  BY <2>1, <2>3, <3>1
    <3>5. accounts'[a].balance = (InitialBalance(a) + s) + reward
      BY <1>20, <2>3, <3>4
    <3>6. (InitialBalance(a) + s) + reward = InitialBalance(a) + (s + reward)
      BY <3>2
    <3>7. QED  BY <3>3, <3>5, <3>6, Zenon
  <2>4. QED  BY <2>2, <2>3
<1>22. \A id \in DOMAIN entities' : id < next_entity_id' /\ entities'[id].owner \in DOMAIN accounts'
  BY <1>3, <1>4, <1>7, <1>20 DEF Paid
<1>23. OnlyActorsScripted(entities')  BY <1>3, <1>7 DEF Paid, OnlyActorsScripted
<1>24. \A b \in DOMAIN inventories' : \A x \in Items(inventories'[b]) :
         x < next_entity_id' /\ (x \in DOMAIN entities' => entities'[x].kind = "item")
  BY <1>3, <1>4, <1>7, <1>8 DEF Paid
<1>25. DOMAIN InitWorld.accounts \subseteq DOMAIN accounts'  BY <1>3, <1>20 DEF Paid
<1>26. QED  BY <1>12, <1>13, <1>21, <1>22, <1>23, <1>24, <1>25 DEF Paid

(* A host call that pays nothing and says nothing new of who owns what.    *)
LEMMA CallKeepsPaid ==
  ASSUME TypeOK, TypeOK', RewardInv,
         next_entity_id' = next_entity_id, accounts' = accounts,
         DOMAIN entities' = DOMAIN entities,
         \A id \in DOMAIN entities : /\ entities'[id].kind = entities[id].kind
                                     /\ entities'[id].owner = entities[id].owner
                                     /\ entities'[id].contract = entities[id].contract,
         Finished(quest_progress') = Finished(quest_progress),
         \A k \in DOMAIN quest_progress' :
           k \in DOMAIN quest_progress \/ IsKind(entities, k[1], {"actor"}),
         \A b \in DOMAIN inventories' : \A x \in Items(inventories'[b]) :
           \/ \E c \in DOMAIN inventories : x \in Items(inventories[c])
           \/ IsKind(entities, x, {"item"})
  PROVE  Paid(accounts', entities', inventories', quest_progress', next_entity_id')
<1>1. /\ AccountsTyped(accounts) /\ EntitiesTyped(entities) /\ InventoriesTyped(inventories)
      /\ ProgressTyped(quest_progress) /\ next_entity_id \in Nat
  BY SnapshotTyped DEF TypeOK, FieldsTyped
<1>2. EntitiesTyped(entities')  BY SnapshotTypedNext DEF TypeOK, FieldsTyped
<1>3. Paid(accounts, entities, inventories, quest_progress, next_entity_id)  BY DEF RewardInv
<1>4. PICK accs, ents, invs, prog, next :
        /\ accs = accounts' /\ ents = entities' /\ invs = inventories'
        /\ prog = quest_progress' /\ next = next_entity_id'
  OBVIOUS
<1>5. Paid(accs, ents, invs, prog, next)
  <2>1. next \in Nat /\ next_entity_id <= next  BY <1>1, <1>4
  <2>2. AccountsTyped(accs) /\ EntitiesTyped(ents)  BY <1>1, <1>2, <1>4
  <2>3. \A a \in DOMAIN accounts : a \in DOMAIN accs /\ accs[a].balance = accounts[a].balance
    BY <1>4
  <2>4. \A a \in DOMAIN accs : a \in DOMAIN accounts \/ accs[a].balance = 0  BY <1>4
  <2>5. \A id \in DOMAIN entities : /\ id \in DOMAIN ents
                                    /\ ents[id].kind = entities[id].kind
                                    /\ ents[id].owner = entities[id].owner
                                    /\ ents[id].contract = entities[id].contract
    BY <1>4
  <2>6. \A id \in DOMAIN ents :
          \/ id \in DOMAIN entities
          \/ /\ next_entity_id <= id /\ id < next
             /\ ents[id].owner \in DOMAIN accs
             /\ ents[id].contract # NoContract => ents[id].kind = "actor"
    BY <1>4
  <2>7. /\ Finished(prog) = Finished(quest_progress)
        /\ \A k \in DOMAIN prog : k \in DOMAIN quest_progress \/ IsKind(entities, k[1], {"actor"})
        /\ \A b \in DOMAIN invs : \A x \in Items(invs[b]) :
             \/ \E c \in DOMAIN inventories : x \in Items(inventories[c])
             \/ IsKind(entities, x, {"item"})
    BY <1>4
  <2>8. QED  BY <1>1, <1>3, <2>1, <2>2, <2>3, <2>4, <2>5, <2>6, <2>7, StillPaid
<1>6. QED  BY <1>4, <1>5

(* A new entity belongs to an account and, if it runs a contract, acts.    *)
LEMMA CreatedPaid ==
  ASSUME TypeOK, TypeOK', RewardInv,
         NEW kind, NEW owner, NEW contract, NEW location, NEW name,
         CreateEntity(kind, owner, contract, location, name),
         contract # NoContract => kind = "actor",
         UNCHANGED <<accounts, inventories, quest_progress>>
  PROVE  /\ Paid(accounts', entities', inventories', quest_progress', next_entity_id')
         /\ \A id \in DOMAIN entities : id \in DOMAIN entities' /\ entities'[id] = entities[id]
<1>1. /\ AccountsTyped(accounts) /\ EntitiesTyped(entities) /\ InventoriesTyped(inventories)
      /\ ProgressTyped(quest_progress) /\ next_entity_id \in Nat
  BY SnapshotTyped DEF TypeOK, FieldsTyped
<1>2. EntitiesTyped(entities')  BY SnapshotTypedNext DEF TypeOK, FieldsTyped
<1>3. Paid(accounts, entities, inventories, quest_progress, next_entity_id)  BY DEF RewardInv
<1>4. next_entity_id \notin DOMAIN entities
  BY <1>1, <1>3 DEF Paid
<1>5. /\ next_entity_id' = next_entity_id + 1 /\ owner \in DOMAIN accounts
      /\ DOMAIN entities' = DOMAIN entities \cup {next_entity_id}
      /\ \A id \in DOMAIN entities : entities'[id] = entities[id]
      /\ entities'[next_entity_id].owner = owner
      /\ entities'[next_entity_id].contract = contract
      /\ entities'[next_entity_id].kind = kind
  BY <1>4 DEF CreateEntity, FreshId
<1>6. PICK ents, next : ents = entities' /\ next = next_entity_id'  OBVIOUS
<1>7. Paid(accounts, ents, inventories, quest_progress, next)
  <2>1. next \in Nat /\ next_entity_id <= next /\ next_entity_id < next  BY <1>1, <1>5, <1>6
  <2>2. EntitiesTyped(ents)  BY <1>2, <1>6
  <2>3. \A a \in DOMAIN accounts : accounts[a].balance = accounts[a].balance  OBVIOUS
  <2>4. \A id \in DOMAIN entities : /\ id \in DOMAIN ents
                                    /\ ents[id].kind = entities[id].kind
                                    /\ ents[id].owner = entities[id].owner
                                    /\ ents[id].contract = entities[id].contract
    BY <1>5, <1>6
  <2>5. \A id \in DOMAIN ents :
          \/ id \in DOMAIN entities
          \/ /\ next_entity_id <= id /\ id < next
             /\ ents[id].owner \in DOMAIN accounts
             /\ ents[id].contract # NoContract => ents[id].kind = "actor"
    <3>1. ents[next_entity_id].contract # NoContract => ents[next_entity_id].kind = "actor"
      BY <1>5, <1>6
    <3>2. ents[next_entity_id].owner \in DOMAIN accounts  BY <1>5, <1>6
    <3>3. next_entity_id <= next_entity_id  BY <1>1
    <3>4. DOMAIN ents = DOMAIN entities \cup {next_entity_id}  BY <1>5, <1>6
    <3>5. QED  BY <2>1, <3>1, <3>2, <3>3, <3>4
  <2>6. QED  BY <1>1, <1>3, <2>1, <2>2, <2>3, <2>4, <2>5, StillPaid
<1>8. QED  BY <1>5, <1>6, <1>7

(* The host calls.                                                         *)
LEMMA HostCallPaid ==
  ASSUME OnlyQuestsPay, TypeOK, TypeOK', RewardInv, HostCall
  PROVE  /\ Paid(accounts', entities', inventories', quest_progress', next_entity_id')
         /\ IsKind(entities', caller, {"actor"})
<1> DEFINE Goal == /\ Paid(accounts', entities', inventories', quest_progress', next_entity_id')
                   /\ IsKind(entities', caller, {"actor"})
           Listed == \A b \in DOMAIN inventories' : \A x \in Items(inventories'[b]) :
                       \/ \E c \in DOMAIN inventories : x \in Items(inventories[c])
                       \/ IsKind(entities, x, {"item"})
<1>1. EntitiesTyped(entities) /\ InventoriesTyped(inventories) /\ ProgressTyped(quest_progress)
  BY SnapshotTyped DEF TypeOK, FieldsTyped
<1>2. ~Idle /\ IsKind(entities, caller, {"actor"})  BY HostCallKeeps DEF RewardInv, CallerIsActor
<1>3. ASSUME accounts' = accounts, next_entity_id' = next_entity_id,
             quest_progress' = quest_progress, Listed,
             NEW id \in DOMAIN entities, NEW at, entities' = Located(entities, id, at)
      PROVE  Goal
  <2>1. /\ DOMAIN entities' = DOMAIN entities
        /\ \A e \in DOMAIN entities : /\ entities'[e].kind = entities[e].kind
                                      /\ entities'[e].owner = entities[e].owner
                                      /\ entities'[e].contract = entities[e].contract
    BY <1>1, <1>3 DEF Located, EntitiesTyped, Entity
  <2>2. IsKind(entities', caller, {"actor"})  BY <1>2, <2>1 DEF IsKind, Kind
  <2>3. Paid(accounts', entities', inventories', quest_progress', next_entity_id')
    <3> HIDE DEF Listed
    <3>1. \A k \in DOMAIN quest_progress' :
            k \in DOMAIN quest_progress \/ IsKind(entities, k[1], {"actor"})
      BY <1>3
    <3>2. Finished(quest_progress') = Finished(quest_progress)  BY <1>3
    <3>3. QED  BY <1>3, <2>1, <3>1, <3>2, CallKeepsPaid DEF Listed
  <2>4. QED  BY <2>2, <2>3
<1>4. inventories' = inventories => Listed  OBVIOUS
<1>5. ASSUME NEW x \in Items(Inventory(inventories, caller))
      PROVE  \A y \in Items(Inventory([inventories EXCEPT ![caller] = Without(@, x)], caller)) :
               y \in Items(inventories[caller])
  <2>1. caller \in DOMAIN inventories /\ Inventory(inventories, caller) = inventories[caller]
    BY DEF Inventory, Items
  <2>2. inventories[caller] \in Seq(EntityId)  BY <1>1, <2>1 DEF InventoriesTyped
  <2>3. Items(Without(inventories[caller], x)) \subseteq Items(inventories[caller])
    <3>1. PICK s : s = inventories[caller]  OBVIOUS
    <3>2. s \in Seq(EntityId) /\ x \in Items(s)  BY <2>1, <2>2, <3>1
    <3>3. Position(s, x) \in DOMAIN s  BY <3>2 DEF Position, Items
    <3>4. Items(Without(s, x)) \subseteq Items(s)  BY <3>2, <3>3 DEF Items, Without
    <3>5. QED  BY <3>1, <3>4
  <2>4. QED  BY <2>1, <2>3 DEF Inventory
<1>6. ASSUME NEW x \in Items(Inventory(inventories, caller)),
             inventories' = [inventories EXCEPT ![caller] = Without(@, x)]
      PROVE  Listed
  <2>1. caller \in DOMAIN inventories  BY DEF Inventory, Items
  <2>2. Inventory(inventories', caller) = inventories'[caller] /\ DOMAIN inventories' = DOMAIN inventories
    BY <1>1, <1>6, <2>1 DEF Inventory, InventoriesTyped
  <2>3. \A b \in DOMAIN inventories : b # caller => inventories'[b] = inventories[b]
    BY <1>1, <1>6 DEF InventoriesTyped
  <2>4. \A y \in Items(inventories'[caller]) : y \in Items(inventories[caller])
    BY <1>5, <1>6, <2>2
  <2>5. QED  BY <2>1, <2>2, <2>3, <2>4
<1>7. ASSUME NEW invs, NEW a, NEW x, IsKind(entities, x, {"item"}),
             \A b \in DOMAIN invs : invs[b] \in Seq(EntityId),
             \A b \in DOMAIN invs : \A y \in Items(invs[b]) :
               \E c \in DOMAIN inventories : y \in Items(inventories[c]),
             inventories' = Pushed(invs, a, x)
      PROVE  Listed
  <2>1. /\ DOMAIN inventories' = DOMAIN invs \cup {a}
        /\ \A b \in DOMAIN inventories' :
             inventories'[b] = IF b = a THEN Append(Inventory(invs, a), x) ELSE invs[b]
    BY <1>7 DEF Pushed
  <2>2. Inventory(invs, a) \in Seq(EntityId)  BY <1>7 DEF Inventory
  <2>3. x \in EntityId  BY <1>1, <1>7 DEF IsKind, EntitiesTyped
  <2>4. Items(Append(Inventory(invs, a), x)) \subseteq Items(Inventory(invs, a)) \cup {x}
    BY <2>2, <2>3 DEF Items
  <2>5. \A y \in Items(Inventory(invs, a)) : \E c \in DOMAIN inventories : y \in Items(inventories[c])
    BY <1>7 DEF Inventory, Items
  <2>6. ASSUME NEW b \in DOMAIN inventories', NEW y \in Items(inventories'[b])
        PROVE  \/ \E c \in DOMAIN inventories : y \in Items(inventories[c])
               \/ IsKind(entities, y, {"item"})
    <3>1. CASE b = a  BY <1>7, <2>1, <2>4, <2>5, <2>6, <3>1
    <3>2. CASE b # a  BY <1>7, <2>1, <2>6, <3>2
    <3>3. QED  BY <3>1, <3>2
  <2>7. QED  BY <2>6
<1>8. ASSUME NEW a \in EntityId, NEW z \in EntityId, MoveActor(a, z)  PROVE Goal
  <2>1. a \in DOMAIN entities /\ entities' = Located(entities, a, z)
    BY <1>8 DEF MoveActor, IsKind
  <2>2. Listed  BY <1>4, <1>8 DEF MoveActor
  <2> HIDE DEF Goal, Listed
  <2>3. QED  BY <1>3, <1>8, <2>1, <2>2 DEF MoveActor
<1>9. ASSUME NEW i \in EntityId, NEW l \in EntityId, MoveEntity(i, l)  PROVE Goal
  <2>1. Listed  BY <1>4, <1>9 DEF MoveEntity
  <2> HIDE DEF Goal, Listed
  <2>2. QED  BY <1>3, <1>9, <2>1 DEF MoveEntity
<1>10. ASSUME NEW i \in EntityId, TakeItem(i)  PROVE Goal
  <2>1. i \in DOMAIN entities /\ IsKind(entities, i, {"item"})  BY <1>10 DEF TakeItem, IsKind
  <2>2. Listed  BY <1>1, <1>7, <1>10, <2>1 DEF TakeItem, InventoriesTyped
  <2> HIDE DEF Goal, Listed
  <2>3. QED  BY <1>3, <1>10, <2>1, <2>2 DEF TakeItem
<1>11. ASSUME NEW i \in EntityId, DropItem(i)  PROVE Goal
  <2>1. Listed  BY <1>6, <1>11 DEF DropItem
  <2> HIDE DEF Goal, Listed
  <2>2. QED  BY <1>3, <1>11, <2>1 DEF DropItem
<1>12. ASSUME NEW i \in EntityId, NEW t \in EntityId, TransferItem(i, t)  PROVE Goal
  <2> DEFINE invs == [inventories EXCEPT ![caller] = Without(@, i)]
  <2>1. /\ i \in Items(Inventory(inventories, caller)) /\ IsKind(entities, i, {"item"})
        /\ inventories' = Pushed(invs, t, i) /\ i \in DOMAIN entities
    BY <1>12 DEF TransferItem, IsKind
  <2>2. caller \in DOMAIN inventories  BY <2>1 DEF Inventory, Items
  <2>3. /\ DOMAIN invs = DOMAIN inventories
        /\ \A b \in DOMAIN inventories : b # caller => invs[b] = inventories[b]
        /\ invs[caller] = Inventory(invs, caller)
    BY <1>1, <2>2 DEF InventoriesTyped, Inventory
  <2>4. \A b \in DOMAIN invs : invs[b] \in Seq(EntityId)
    BY <1>1, <2>1, <2>3, RemovedType DEF InventoriesTyped
  <2>5. \A y \in Items(invs[caller]) : y \in Items(inventories[caller])
    BY <1>5, <2>1, <2>3
  <2>6. \A b \in DOMAIN invs : \A y \in Items(invs[b]) :
          \E c \in DOMAIN inventories : y \in Items(inventories[c])
    <3> HIDE DEF invs
    <3>1. QED  BY <2>2, <2>3, <2>5
  <2>7. Listed
    <3> HIDE DEF invs, Listed
    <3>1. QED  BY <1>7, <2>1, <2>4, <2>6
  <2> HIDE DEF Goal, Listed
  <2>8. QED  BY <1>3, <1>12, <2>1, <2>7 DEF TransferItem
<1>13. ASSUME NEW k \in EntityKind, NEW l \in EntityId \cup {NoEntity}, NEW n \in Name,
              SpawnEntity(k, l, n)
       PROVE  Goal
  <2>1. /\ CreateEntity(k, OwnerOf(caller), NoContract, l, n)
        /\ UNCHANGED <<accounts, inventories, quest_progress>>
    BY <1>13 DEF SpawnEntity
  <2>2. /\ Paid(accounts', entities', inventories', quest_progress', next_entity_id')
        /\ \A id \in DOMAIN entities : id \in DOMAIN entities' /\ entities'[id] = entities[id]
    BY <2>1, CreatedPaid
  <2>3. QED  BY <1>2, <2>2 DEF IsKind, Kind
<1>14. ASSUME NEW i \in EntityId, NEW n \in Name, UpdateEntityName(i, n)  PROVE Goal
  <2>1. /\ DOMAIN entities' = DOMAIN entities
        /\ \A e \in DOMAIN entities : /\ entities'[e].kind = entities[e].kind
                                      /\ entities'[e].owner = entities[e].owner
                                      /\ entities'[e].contract = entities[e].contract
    BY <1>1, <1>14 DEF UpdateEntityName, EntitiesTyped, Entity
  <2>2. /\ accounts' = accounts /\ next_entity_id' = next_entity_id
        /\ quest_progress' = quest_progress /\ inventories' = inventories
    BY <1>14 DEF UpdateEntityName
  <2>3. Paid(accounts', entities', inventories', quest_progress', next_entity_id')
    BY <1>4, <2>1, <2>2, CallKeepsPaid
  <2>4. QED  BY <1>2, <2>1, <2>3 DEF IsKind, Kind
<1>15. ASSUME NEW q \in Quest, NEW g \in EntityId, AcceptQuest(q, g)  PROVE Goal
  <2>1. /\ accounts' = accounts /\ next_entity_id' = next_entity_id
        /\ entities' = entities /\ inventories' = inventories
        /\ <<caller, q>> \notin DOMAIN quest_progress
        /\ quest_progress' = [k \in DOMAIN quest_progress \cup {<<caller, q>>} |->
                                IF k = <<caller, q>> THEN "accepted" ELSE quest_progress[k]]
    BY <1>15 DEF AcceptQuest
  <2>2. Finished(quest_progress') = Finished(quest_progress)  BY <2>1 DEF Finished
  <2>3. \A k \in DOMAIN quest_progress' :
          k \in DOMAIN quest_progress \/ IsKind(entities, k[1], {"actor"})
    BY <1>2, <2>1
  <2>4. Paid(accounts', entities', inventories', quest_progress', next_entity_id')
    BY <1>4, <2>1, <2>2, <2>3, CallKeepsPaid
  <2>5. QED  BY <1>2, <2>1, <2>4
<1>16. ASSUME NEW q \in Quest, CompleteQuest(q)  PROVE Goal  BY <1>16, QuestPays
<1>17. ASSUME NEW n \in 1 .. MaxBalance, CreditBalance(n)  PROVE Goal
  BY <1>17 DEF CreditBalance, Calling, RewardInv, CallerIsActor, OnlyQuestsPay
<1>18. ASSUME NEW k \in EventKind, NEW i \in EntityId \cup {NoEntity}, EmitEvent(k, i)
       PROVE  Goal
  BY <1>2, <1>18 DEF EmitEvent, RewardInv
<1>19. QED
  BY <1>8, <1>9, <1>10, <1>11, <1>12, <1>13, <1>14, <1>15, <1>16, <1>17, <1>18 DEF HostCall

(* Contracts that do not credit balances pay exactly the rewards of the    *)
(* quests the account's actors have completed, each once: no refusal and   *)
(* no order of calls and commands makes complete_quest pay twice, pay      *)
(* another account or fail to pay, whatever the contracts do to entities.  *)
THEOREM RewardsPaidOnce ==
  ASSUME OnlyQuestsPay
  PROVE  Spec => []RewardOnce
<1>1. Init => RewardInv
  <2> SUFFICES ASSUME Init  PROVE RewardInv
    OBVIOUS
  <2>1. /\ accounts = InitWorld.accounts /\ entities = InitWorld.entities
        /\ inventories = InitWorld.inventories /\ quest_progress = InitWorld.quest_progress
        /\ next_entity_id = InitWorld.next_entity_id /\ Idle
    BY DEF Init, Idle
  <2>2. /\ saved.accounts = accounts /\ saved.entities = entities
        /\ saved.inventories = inventories /\ saved.quest_progress = quest_progress
        /\ saved.next_entity_id = next_entity_id
    BY DEF Init, Snapshot
  <2>3. AccountsTyped(accounts) /\ EntitiesTyped(entities)
    BY <2>1, InitAssumption DEF WorldTyped
  <2>4. /\ ValidateReferences(accounts, InitWorld.contracts, entities, next_entity_id,
                              quest_progress, InitWorld.receipts)
        /\ InventoriesTyped(inventories)
        /\ ValidateInventories(entities, inventories)
    BY <2>1, InitAssumption DEF WorldValid, WorldTyped
  <2>5. ASSUME NEW a \in DOMAIN accounts
        PROVE  accounts[a].balance
                 = InitialBalance(a) + RewardSum(PaidQuests(quest_progress, entities, a))
    <3>1. PaidQuests(quest_progress, entities, a) = {}  BY <2>1 DEF PaidQuests, OnlyQuestsPay
    <3>2. RewardSum(PaidQuests(quest_progress, entities, a)) = 0  BY <3>1, RewardNone
    <3>3. InitialBalance(a) = accounts[a].balance  BY <2>1 DEF InitialBalance
    <3>4. accounts[a].balance \in Nat  BY <2>3, BoundAssumption DEF AccountsTyped, AccountState
    <3>5. QED  BY <3>2, <3>3, <3>4
  <2>6. ASSUME NEW b \in DOMAIN inventories, NEW x \in Items(inventories[b])
        PROVE  x < next_entity_id /\ (x \in DOMAIN entities => entities[x].kind = "item")
    <3>1. IsKind(entities, x, {"item"})
      BY <2>4 DEF ValidateInventories, ListedItemsAreHere, Items
    <3>2. QED  BY <2>4, <3>1 DEF ValidateReferences, IsKind, Kind
  <2>7. Paid(accounts, entities, inventories, quest_progress, next_entity_id)
    BY <2>1, <2>4, <2>5, <2>6 DEF Paid, ValidateReferences, OnlyQuestsPay
  <2>8. QED  BY <2>1, <2>2, <2>7 DEF RewardInv, CallerIsActor
<1>2. TypeOK /\ TypeOK' /\ RewardInv /\ [Next]_vars => RewardInv'
  <2> SUFFICES ASSUME TypeOK, TypeOK', RewardInv, [Next]_vars
               PROVE  RewardInv'
    OBVIOUS
  <2> DEFINE Now   == Paid(accounts', entities', inventories', quest_progress', next_entity_id')
             Saved == Paid(saved.accounts, saved.entities, saved.inventories,
                           saved.quest_progress, saved.next_entity_id)
  <2>1. /\ AccountsTyped(accounts) /\ EntitiesTyped(entities) /\ InventoriesTyped(inventories)
        /\ ProgressTyped(quest_progress) /\ next_entity_id \in Nat /\ contracts \subseteq Contract
    BY SnapshotTyped DEF TypeOK, FieldsTyped
  <2>2. Paid(accounts, entities, inventories, quest_progress, next_entity_id) /\ Saved
    BY DEF RewardInv
  <2>3. ASSUME Now, saved' = Snapshot', Idle'  PROVE RewardInv'
    <3>1. /\ saved'.accounts = accounts' /\ saved'.entities = entities'
          /\ saved'.inventories = inventories' /\ saved'.quest_progress = quest_progress'
          /\ saved'.next_entity_id = next_entity_id'
      BY <2>3 DEF Snapshot
    <3>2. QED  BY <2>3, <3>1 DEF RewardInv, CallerIsActor
  <2>4. ASSUME NEW accs, AccountsTyped(accs), accs = accounts',
               \A a \in DOMAIN accounts : a \in DOMAIN accs /\ accs[a].balance = accounts[a].balance,
               \A a \in DOMAIN accs : a \in DOMAIN accounts \/ accs[a].balance = 0,
               UNCHANGED <<entities, inventories, quest_progress, next_entity_id>>
        PROVE  Now
    <3>1. /\ \A id \in DOMAIN entities : id \in DOMAIN entities
          /\ \A k \in DOMAIN quest_progress : k \in DOMAIN quest_progress
          /\ next_entity_id <= next_entity_id
      BY <2>1
    <3>2. \A b \in DOMAIN inventories : \A x \in Items(inventories[b]) :
            \E c \in DOMAIN inventories : x \in Items(inventories[c])
      OBVIOUS
    <3>3. Paid(accs, entities, inventories, quest_progress, next_entity_id)
      BY <2>1, <2>2, <2>4, <3>1, <3>2, StillPaid
    <3>4. QED  BY <2>4, <3>3
  <2>5. CASE Request
    <3>1. PICK e \in EntityId :
            /\ Idle /\ UNCHANGED <<world, saved>> /\ caller' = e
            /\ e \in DOMAIN entities /\ entities[e].contract \in contracts
      BY <2>5 DEF Request, BeginCommand, BeginTransaction
    <3>2. entities[e].contract \in Contract /\ entities[e].contract # NoContract
      BY <2>1, <3>1, ContractAssumption
    <3>3. IsKind(entities, e, {"actor"})
      BY <2>2, <3>1, <3>2 DEF Paid, OnlyActorsScripted, IsKind, Kind
    <3>4. entities = saved.entities  BY <3>1 DEF RewardInv
    <3>5. Now
      BY <2>2, <3>1 DEF world
    <3>6. CallerIsActor'  BY <3>1, <3>2, <3>3, <3>4 DEF CallerIsActor, world
    <3>7. entities' = saved'.entities  BY <3>1, <3>4 DEF world
    <3>8. QED  BY <2>2, <3>1, <3>5, <3>6, <3>7 DEF RewardInv
  <2>6. CASE HostCall
    <3>1. Now /\ IsKind(entities', caller, {"actor"})  BY <2>6, HostCallPaid
    <3>2. saved' = saved /\ caller' = caller /\ ~Idle  BY <2>6, HostCallKeeps
    <3>3. CallerIsActor' /\ ~Idle'  BY <3>1, <3>2 DEF RewardInv, CallerIsActor, Idle
    <3>4. QED  BY <2>2, <3>1, <3>2, <3>3 DEF RewardInv
  <2>7. CASE Fail
    <3>1. /\ accounts' = saved.accounts /\ entities' = saved.entities
          /\ inventories' = saved.inventories /\ quest_progress' = saved.quest_progress
          /\ next_entity_id' = saved.next_entity_id /\ saved' = saved /\ Idle'
      BY <2>7 DEF Fail, EndRequest, Idle
    <3>2. QED  BY <2>2, <3>1 DEF RewardInv, CallerIsActor
  <2>8. CASE Commit
    <3>1. /\ UNCHANGED <<entities, inventories, quest_progress, next_entity_id>>
          /\ saved' = Snapshot' /\ Idle' /\ SettleTransaction
      BY <2>8 DEF Commit, Save, EndRequest, Idle
    <3>2. DOMAIN accounts' = DOMAIN accounts
          /\ \A a \in DOMAIN accounts : accounts'[a].balance = accounts[a].balance
      BY <2>1, <3>1 DEF SettleTransaction, AccountsTyped, AccountState
    <3>3. PICK accs : accs = accounts'  OBVIOUS
    <3>4. AccountsTyped(accs)  BY <3>3, SnapshotTypedNext DEF TypeOK, FieldsTyped
    <3>5. Now  BY <2>4, <3>1, <3>2, <3>3, <3>4
    <3> HIDE DEF Now
    <3>6. QED  BY <2>3, <3>1, <3>5
  <2>9. ASSUME NEW a \in Account, NEW k \in BOOLEAN, NEW b \in Deposits, CreateAccount(a, k, b)
        PROVE  RewardInv'
    <3>1. /\ UNCHANGED <<entities, inventories, quest_progress, next_entity_id>>
          /\ saved' = Snapshot' /\ Idle' /\ AdminEnabled /\ a \notin DOMAIN accounts
          /\ accounts' = [c \in DOMAIN accounts \cup {a} |->
                            IF c = a THEN [has_key |-> k, nonce |-> 0, balance |-> b]
                            ELSE accounts[c]]
      BY <2>9 DEF CreateAccount, Admin, request, Save, Idle
    <3>2. b = 0  BY <3>1 DEF OnlyQuestsPay
    <3>3. PICK accs : accs = accounts'  OBVIOUS
    <3>4. AccountsTyped(accs)  BY <3>3, SnapshotTypedNext DEF TypeOK, FieldsTyped
    <3>5. Now  BY <2>4, <3>1, <3>2, <3>3, <3>4
    <3> HIDE DEF Now
    <3>6. QED  BY <2>3, <3>1, <3>5
  <2>10. ASSUME NEW c \in Contract, Deploy(c)  PROVE RewardInv'
    <3>1. /\ UNCHANGED <<accounts, entities, inventories, quest_progress, next_entity_id>>
          /\ saved' = Snapshot' /\ Idle'
      BY <2>10 DEF Deploy, Admin, request, Save, Idle
    <3>2. QED  BY <2>2, <2>3, <3>1
  <2>11. ASSUME NEW k \in EntityKind, NEW a \in Account, NEW c \in Contract \cup {NoContract},
                NEW l \in EntityId \cup {NoEntity}, NEW n \in Name,
                CreateEntityByAdmin(k, a, c, l, n)
         PROVE  RewardInv'
    <3>1. /\ CreateEntity(k, a, c, l, n) /\ UNCHANGED <<accounts, inventories, quest_progress>>
          /\ c # NoContract => k = "actor"
          /\ saved' = Snapshot' /\ Idle'
      BY <2>11 DEF CreateEntityByAdmin, Admin, request, Save, Idle, OnlyQuestsPay
    <3>2. Now  BY <3>1, CreatedPaid
    <3> HIDE DEF Now
    <3>3. QED  BY <2>3, <3>1, <3>2
  <2>12. CASE UNCHANGED vars
    <3>1. UNCHANGED <<accounts, entities, inventories, quest_progress, next_entity_id, saved,
                      caller>>
      BY <2>12 DEF vars, world, request
    <3>2. QED  BY <3>1 DEF RewardInv, CallerIsActor, Idle
  <2>13. QED
    BY <2>5, <2>6, <2>7, <2>8, <2>9, <2>10, <2>11, <2>12 DEF Next, AdminRequest
<1>3. RewardInv => RewardOnce
  <2>1. \A a : Earned(a) = RewardSum(PaidQuests(quest_progress, entities, a))
    <3> TAKE a
    <3>1. {k \in DOMAIN quest_progress :
             /\ quest_progress[k] = "completed"
             /\ k[1] \in DOMAIN entities /\ entities[k[1]].owner = a}
            = PaidQuests(quest_progress, entities, a)
      BY DEF PaidQuests, Finished
    <3>2. QED  BY <3>1 DEF Earned, RewardSum
  <2>2. QED  BY <2>1 DEF RewardInv, Paid, RewardOnce
<1>4. QED  BY <1>1, <1>2, <1>3, TypeCorrect, PTL DEF Spec
==================================================================================
