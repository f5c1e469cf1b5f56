----------------------------- MODULE Inventory ------------------------------
(***************************************************************************)
(* The inventory of a subscription: its resources by their tags and types. *)
(* Tags and type counts are Go maps, which are walked in any order, and    *)
(* the artifact must come out the same.                                    *)
(*                                                                         *)
(* The keys of a resource's tags are numbers in the order of their         *)
(* spelling, of which several may be normalized to one wanted key; a value *)
(* is trimmed and in lower case.  Types are numbers in their order too.    *)
(***************************************************************************)
EXTENDS Integers, Sequences, FiniteSets, SequencesExt

CONSTANTS
  Resources,          \* the resources a subscription may have
  environmentTagKeys,  \* the wanted keys, in the order they are read
  Limit,              \* how many of the types are listed (10)
  MaxResources        \* bound: the resources the subscription has

NoType == 0
Blank == ""

ASSUME ResourcesAssumption ==
  \A r \in Resources :
    /\ DOMAIN r = {"type", "tags"} /\ r.type \in Nat /\ IsFiniteSet(r.tags)
    /\ \A t \in r.tags : /\ DOMAIN t = {"spelling", "key", "value"}
                         /\ t.spelling \in Nat
    /\ \A t, u \in r.tags : t.spelling = u.spelling => t = u
ASSUME KeysAssumption ==
  /\ DOMAIN environmentTagKeys \subseteq Nat
  /\ \A i, j \in DOMAIN environmentTagKeys :
       environmentTagKeys[i] = environmentTagKeys[j] => i = j
ASSUME InventoryBoundsAssumption == Limit \in Nat \ {0} /\ MaxResources \in Nat

VARIABLES
  resources,          \* the resources counted so far
  environmentTagged, production,
  typeCounts,         \* the resources of each type
  top,                \* the types listed
  written             \* whether they were

inventoryVars == <<resources, environmentTagged, production, typeCounts, top, written>>

InventoryInit ==
  /\ resources = <<>> /\ environmentTagged = 0 /\ production = 0
  /\ typeCounts = [t \in {} |-> 0] /\ top = <<>> /\ written = FALSE

-----------------------------------------------------------------------------
(* Mutant: the tags stay as the map gave them.                             *)
asWalked(tags) == TRUE

(* The tags in the order of their keys' spelling.                          *)
inOrder(tags) ==
  \A i, j \in DOMAIN tags : i < j => tags[i].spelling < tags[j].spelling

Found(tags, want) == {i \in DOMAIN tags : tags[i].key = want /\ tags[i].value # Blank}

(* The value of the first nonempty tag of the first wanted key that has    *)
(* one, or Blank.                                                          *)
normalizedTagValue(tags, keys) ==
  LET wanted == {k \in DOMAIN keys : Found(tags, keys[k]) # {}}
  IN  IF wanted = {} THEN Blank
      ELSE tags[Min(Found(tags, keys[Min(wanted)]))].value

isProduction(value) == value \in {"prod", "production"}

counted(type) ==
  IF type = NoType THEN typeCounts
  ELSE [t \in DOMAIN typeCounts \cup {type} |->
          (IF t \in DOMAIN typeCounts THEN typeCounts[t] ELSE 0) + (IF t = type THEN 1 ELSE 0)]

CountResource(resource) ==
  /\ ~written /\ Len(resources) < MaxResources
  /\ \E tags \in {walk \in SetToSeqs(resource.tags) : inOrder(walk)} :
       LET value == normalizedTagValue(tags, environmentTagKeys) IN
       /\ environmentTagged' = environmentTagged + (IF value # Blank THEN 1 ELSE 0)
       /\ production' = production + (IF isProduction(value) THEN 1 ELSE 0)
  /\ resources' = Append(resources, resource)
  /\ typeCounts' = counted(resource.type)
  /\ UNCHANGED <<top, written>>

(* Mutant: types of which there are as many stay as the map gave them.     *)
precedesByCount(a, b) == typeCounts[a] > typeCounts[b]
precedes(a, b) == typeCounts[a] > typeCounts[b] \/ (typeCounts[a] = typeCounts[b] /\ a < b)

(* Sorting may leave what does not precede one another in any order.       *)
topResourceTypes ==
  /\ ~written /\ written' = TRUE
  /\ \E sorted \in SetToSeqs(DOMAIN typeCounts) :
       /\ \A i, j \in DOMAIN sorted : i < j => ~precedes(sorted[j], sorted[i])
       /\ top' = [i \in 1 .. Min({Len(sorted), Limit}) |->
                    [type |-> sorted[i], count |-> typeCounts[sorted[i]]]]
  /\ UNCHANGED <<resources, environmentTagged, production, typeCounts>>

InventoryNext == \/ \E r \in Resources : CountResource(r)
        \/ topResourceTypes

InventorySpec == InventoryInit /\ [][InventoryNext]_inventoryVars

-----------------------------------------------------------------------------
(* The tag a reader of the portal would name: of the nonempty tags the one *)
(* of the earliest wanted key, and of those the first by its spelling.     *)
Environment(resource) ==
  LET RankOf(t) == CHOOSE k \in DOMAIN environmentTagKeys : environmentTagKeys[k] = t.key
      wanted == {t \in resource.tags : t.value # Blank /\
                   \E k \in DOMAIN environmentTagKeys : environmentTagKeys[k] = t.key}
      First(t) == \A u \in wanted :
                    \/ RankOf(t) < RankOf(u)
                    \/ RankOf(t) = RankOf(u) /\ t.spelling <= u.spelling
  IN  {t.value : t \in {u \in wanted : First(u)}}

(* The resources whose environment is one of these, and those of a type.   *)
Having(envs) == {i \in DOMAIN resources : Environment(resources[i]) \cap envs # {}}
HavingAny == {i \in DOMAIN resources : Environment(resources[i]) # {}}
NumberOf(t) == Cardinality({i \in DOMAIN resources : resources[i].type = t})
TypesMet == {resources[i].type : i \in DOMAIN resources} \ {NoType}
TypesAhead(t) == {u \in TypesMet : \/ NumberOf(u) > NumberOf(t)
                                   \/ NumberOf(u) = NumberOf(t) /\ u < t}

(* However the maps were walked, one artifact is like the next.  The       *)
(* environment of a resource is that of its first nonempty tag, and each   *)
(* resource is tagged and production for that tag alone.  The types that   *)
(* are listed are the most common ones, and of two with as many resources  *)
(* the first by name, also where the limit cuts between them               *)
(* (azure_inventory.go, normalizedTagValue and topResourceTypes).          *)
InventoryIsDetermined ==
  /\ production = Cardinality(Having({"prod", "production"}))
  /\ environmentTagged = Cardinality(HavingAny)
  /\ written =>
       /\ Len(top) = Min({Limit, Cardinality(TypesMet)})
       /\ \A i \in DOMAIN top : /\ top[i].count = NumberOf(top[i].type)
                                /\ Cardinality(TypesAhead(top[i].type)) = i - 1
=============================================================================
