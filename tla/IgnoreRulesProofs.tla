--------------------------- MODULE IgnoreRulesProofs --------------------------
(***************************************************************************)
(* What the operations of the hash map promise, for all keys, hashes and   *)
(* capacities: a map is a function from the keys it holds to values.  And  *)
(* what the parser makes of files with it: the maps hold what the files    *)
(* say, each rule once.                                                    *)
(***************************************************************************)
EXTENDS IgnoreRules, SequenceFacts

Pairs(V) == [key : Keys, value : V]

(* A map that sm_new and sm_put can make: each pair is in the bucket of its *)
(* key, and no bucket has two pairs with one key.                           *)
IsMap(map, V) ==
  /\ map \in [0 .. (Capacity - 1) -> Seq(Pairs(V))]
  /\ \A b \in 0 .. (Capacity - 1) : \A i \in DOMAIN map[b] :
       /\ index(map[b][i].key) = b
       /\ \A j \in DOMAIN map[b] : map[b][i].key = map[b][j].key => i = j

(* The bucket of a key exists.                                              *)
LEMMA IndexInRange ==
  ASSUME NEW key \in Keys
  PROVE  index(key) \in 0 .. (Capacity - 1)
<1>1. hash[key] \in Nat /\ Capacity \in Nat \ {0}
  BY MapAssumption
<1>2. hash[key] % Capacity \in 0 .. (Capacity - 1)
  BY <1>1
<1> QED
  BY <1>2 DEF index

LEMMA LeastElement ==
  ASSUME NEW S, S # {}, S \subseteq Nat
  PROVE  \E n \in S : \A m \in S : n <= m
<1>1. PICK n \in S : \A m \in S : <<m, n>> \notin OpToRel(<, Nat)
  BY NatLessThanWellFounded, WFMin, Zenon
<1>2. ASSUME NEW m \in S PROVE n <= m
  <2>1. m \in Nat /\ n \in Nat
    OBVIOUS
  <2>2. <<m, n>> \in OpToRel(<, Nat) <=> m < n
    BY <2>1 DEF OpToRel
  <2>3. ~ (m < n)
    BY <1>1, <2>2, Zenon
  <2> QED
    BY <2>1, <2>3
<1> QED
  BY <1>2

(* get_pair finds a pair with the key if there is one.                      *)
LEMMA PairFound ==
  ASSUME NEW V, NEW bucket \in Seq(Pairs(V)), NEW key, NEW k \in DOMAIN bucket,
         Holds(bucket, key, k)
  PROVE  Holds(bucket, key, get_pair(bucket, key)) /\ get_pair(bucket, key) # 0
<1> DEFINE S == {i \in DOMAIN bucket : Holds(bucket, key, i)}
<1>1. DOMAIN bucket = 1 .. Len(bucket) /\ Len(bucket) \in Nat
  OBVIOUS
<1>2. S # {} /\ S \subseteq Nat
  BY <1>1
<1>3. \E n \in S : \A m \in S : n <= m
  <2> HIDE DEF S
  <2> QED
    BY <1>2, LeastElement, Zenon
<1>4. get_pair(bucket, key) \in DOMAIN bucket /\ Holds(bucket, key, get_pair(bucket, key))
  BY <1>3 DEF get_pair
<1> QED
  BY <1>1, <1>4

(* What get_pair finds is a pair with the key.                              *)
LEMMA FoundPair ==
  ASSUME NEW V, NEW bucket \in Seq(Pairs(V)), NEW key, get_pair(bucket, key) # 0
  PROVE  Holds(bucket, key, get_pair(bucket, key))
<1>1. PICK i \in DOMAIN bucket : Holds(bucket, key, i)
  BY DEF get_pair
<1> QED
  BY <1>1, PairFound

(* sm_put keeps the pairs of the other keys, holds its key once, in the     *)
(* bucket of the key, with the new value (strmap.c:180-245).                *)
LEMMA BucketAfterPut ==
  ASSUME NEW V, NEW map, IsMap(map, V), NEW key \in Keys, NEW value \in V
  PROVE  LET bucket == map[index(key)]
             new    == sm_put(map, key, value)[index(key)]
         IN  /\ bucket \in Seq(Pairs(V)) /\ new \in Seq(Pairs(V))
             /\ \A i \in DOMAIN bucket :
                  i \in DOMAIN new /\ new[i].key = bucket[i].key
                  /\ (bucket[i].key # key => new[i] = bucket[i])
             /\ \E n \in DOMAIN new :
                  /\ new[n] = Pair(key, value)
                  /\ \A i \in DOMAIN new : i # n => i \in DOMAIN bucket /\ bucket[i].key # key
<1> DEFINE bucket == map[index(key)]
           new    == sm_put(map, key, value)[index(key)]
           p      == get_pair(bucket, key)
<1>1. index(key) \in 0 .. (Capacity - 1)
  BY IndexInRange
<1>2. map \in [0 .. (Capacity - 1) -> Seq(Pairs(V))] /\ bucket \in Seq(Pairs(V))
  BY <1>1 DEF IsMap
<1>3. new = IF p # 0 THEN [bucket EXCEPT ![p] = Pair(key, value)]
            ELSE Append(bucket, Pair(key, value))
  BY <1>1, <1>2 DEF sm_put
<1>4. Pair(key, value) \in Pairs(V)
  BY DEF Pair, Pairs
<1>5. CASE p # 0
  <2>1. p \in DOMAIN bucket /\ bucket[p].key = key
    BY <1>2, <1>5, FoundPair DEF Holds
  <2>2. new = [bucket EXCEPT ![p] = Pair(key, value)]
    BY <1>3, <1>5
  <2>3. new \in Seq(Pairs(V)) /\ DOMAIN new = DOMAIN bucket
    <3> HIDE DEF bucket, new, p
    <3>1. bucket \in [1 .. Len(bucket) -> Pairs(V)] /\ Len(bucket) \in Nat
      BY <1>2
    <3>2. new \in [1 .. Len(bucket) -> Pairs(V)]
      BY <1>4, <2>2, <3>1
    <3> QED
      BY <3>1, <3>2
  <2>4. new[p] = Pair(key, value) /\ new[p].key = key
    BY <1>2, <2>1, <2>2 DEF Pair
  <2>5. \A i \in DOMAIN new : i # p => new[i] = bucket[i]
    BY <1>2, <2>2, <2>3
  <2>6. \A i \in DOMAIN new : i # p => bucket[i].key # key
    BY <1>1, <2>1, <2>3 DEF IsMap
  <2>7. \A i \in DOMAIN bucket : i \in DOMAIN new /\ new[i].key = bucket[i].key
                                 /\ (bucket[i].key # key => new[i] = bucket[i])
    BY <2>1, <2>3, <2>4, <2>5
  <2> QED
    BY <1>2, <2>1, <2>3, <2>4, <2>6, <2>7
<1>6. CASE p = 0
  <2> DEFINE n == Len(bucket) + 1
  <2>1. new = Append(bucket, Pair(key, value))
    BY <1>3, <1>6
  <2>2. new \in Seq(Pairs(V)) /\ DOMAIN new = 1 .. n /\ DOMAIN bucket = 1 .. Len(bucket)
        /\ Len(bucket) \in Nat
    BY <1>2, <1>4, <2>1
  <2>3. new[n] = Pair(key, value)
    BY <1>2, <2>1
  <2>4. \A i \in DOMAIN bucket : i \in DOMAIN new /\ i # n /\ new[i] = bucket[i]
    BY <1>2, <2>1, <2>2
  <2>5. \A i \in DOMAIN bucket : bucket[i].key # key
    BY <1>2, <1>6, PairFound DEF Holds
  <2>6. \A i \in DOMAIN new : i # n => i \in DOMAIN bucket
    BY <2>2
  <2> QED
    BY <1>2, <2>2, <2>3, <2>4, <2>5, <2>6
<1> QED
  BY <1>5, <1>6

(* Maps stay well formed: no key is twice in a map, so that replacing one   *)
(* pair replaces the value of the key (strmap.c:204-211).                   *)
THEOREM PutKeepsMap ==
  ASSUME NEW V, NEW map, IsMap(map, V), NEW key \in Keys, NEW value \in V
  PROVE  IsMap(sm_put(map, key, value), V)
<1> DEFINE new == sm_put(map, key, value)
<1>1. index(key) \in 0 .. (Capacity - 1)
  BY IndexInRange
<1>2. map \in [0 .. (Capacity - 1) -> Seq(Pairs(V))]
  BY DEF IsMap
<1>3. \A b \in 0 .. (Capacity - 1) : b # index(key) => new[b] = map[b]
  BY <1>1, <1>2 DEF sm_put
<1>4. /\ new[index(key)] \in Seq(Pairs(V))
      /\ \A i \in DOMAIN map[index(key)] : new[index(key)][i].key = map[index(key)][i].key
  BY BucketAfterPut
<1>5. PICK n \in DOMAIN new[index(key)] :
        /\ new[index(key)][n] = Pair(key, value)
        /\ \A i \in DOMAIN new[index(key)] :
             i # n => i \in DOMAIN map[index(key)] /\ map[index(key)][i].key # key
  BY BucketAfterPut
<1>6. new \in [0 .. (Capacity - 1) -> Seq(Pairs(V))]
  <2>1. \A b \in 0 .. (Capacity - 1) : new[b] \in Seq(Pairs(V))
    BY <1>2, <1>3, <1>4
  <2>2. new = [b \in 0 .. (Capacity - 1) |-> new[b]]
    BY <1>2 DEF sm_put
  <2> HIDE DEF new
  <2> QED
    BY <2>1, <2>2
<1>7. new[index(key)][n].key = key
  BY <1>5 DEF Pair
<1> HIDE DEF new
<1>8. ASSUME NEW b \in 0 .. (Capacity - 1), NEW i \in DOMAIN new[b]
      PROVE  /\ index(new[b][i].key) = b
             /\ \A j \in DOMAIN new[b] : new[b][i].key = new[b][j].key => i = j
  <2>1. CASE b # index(key)
    BY <1>3, <2>1 DEF IsMap
  <2>2. CASE b = index(key)
    <3>1. \A j \in DOMAIN map[b] : /\ index(map[b][j].key) = b
                                   /\ \A k \in DOMAIN map[b] : map[b][j].key = map[b][k].key => j = k
      BY <1>1, <2>2 DEF IsMap
    <3>2. \A j \in DOMAIN map[b] : new[b][j].key = map[b][j].key
      BY <1>4, <2>2
    <3>3. \A j \in DOMAIN new[b] : j # n => j \in DOMAIN map[b] /\ map[b][j].key # key
      BY <1>5, <2>2
    <3>. QED BY <1>7, <2>2, <3>1, <3>2, <3>3
  <2> QED
    BY <2>1, <2>2
<1>9. IsMap(new, V)
  BY <1>6, <1>8 DEF IsMap
<1> QED
  BY <1>9 DEF new

(* After sm_put the key has the new value and every other key what it had:  *)
(* sm_get returns the last value that was put for its key                   *)
(* (strmap.c:116-137, 180-245).                                             *)
THEOREM GetAfterPut ==
  ASSUME NEW V, NEW map, IsMap(map, V), NEW key \in Keys, NEW value \in V,
         NEW other \in Keys, NEW res
  PROVE  sm_get(sm_put(map, key, value), other, res) =
           IF other = key THEN value ELSE sm_get(map, other, res)
<1> DEFINE new == sm_put(map, key, value)
           b   == index(key)
           c   == index(other)
<1>1. b \in 0 .. (Capacity - 1) /\ c \in 0 .. (Capacity - 1)
  BY IndexInRange
<1>2. map \in [0 .. (Capacity - 1) -> Seq(Pairs(V))]
  BY DEF IsMap
<1>3. IsMap(new, V)
  BY PutKeepsMap
<1>4. new[c] \in Seq(Pairs(V)) /\ map[c] \in Seq(Pairs(V))
  BY <1>1, <1>2, <1>3 DEF IsMap
<1>5. CASE other = key
  <2>1. PICK n \in DOMAIN new[b] : new[b][n] = Pair(key, value)
    BY BucketAfterPut
  <2>2. Holds(new[b], key, n)
    BY <2>1 DEF Holds, Pair
  <2>3. /\ Holds(new[b], key, get_pair(new[b], key)) /\ get_pair(new[b], key) # 0
    BY <1>4, <1>5, <2>1, <2>2, PairFound
  <2>4. get_pair(new[b], key) = n
    BY <1>1, <1>3, <2>2, <2>3 DEF Holds, IsMap
  <2>5. new[b][n].value = value
    BY <2>1 DEF Pair
  <2> HIDE DEF new
  <2>6. sm_get(new, key, res) = value
    BY <2>3, <2>4, <2>5 DEF sm_get, sm_exists
  <2> QED
    BY <1>5, <2>6 DEF new
<1>6. CASE other # key /\ b # c
  <2>1. new[c] = map[c]
    BY <1>1, <1>2, <1>6 DEF sm_put
  <2> HIDE DEF new
  <2>2. sm_get(new, other, res) = sm_get(map, other, res)
    BY <2>1 DEF sm_get, sm_exists
  <2> QED
    BY <1>6, <2>2 DEF new
<1>7. CASE other # key /\ b = c
  <2>1. \A i \in DOMAIN map[c] : Holds(map[c], other, i) =>
          i \in DOMAIN new[c] /\ Holds(new[c], other, i) /\ new[c][i] = map[c][i]
    BY <1>7, BucketAfterPut DEF Holds
  <2>2. \A i \in DOMAIN new[c] : Holds(new[c], other, i) =>
          i \in DOMAIN map[c] /\ Holds(map[c], other, i)
    <3>1. PICK n \in DOMAIN new[b] :
            /\ new[b][n] = Pair(key, value)
            /\ \A i \in DOMAIN new[b] : i # n => i \in DOMAIN map[b] /\ map[b][i].key # key
      BY BucketAfterPut
    <3>2. new[b][n].key = key
      BY <3>1 DEF Pair
    <3>3. \A i \in DOMAIN map[b] : map[b][i].key # key => new[b][i] = map[b][i]
      BY BucketAfterPut
    <3> HIDE DEF new
    <3> QED
      BY <1>7, <3>1, <3>2, <3>3 DEF Holds
  <2> DEFINE m == get_pair(map[c], other)
             n == get_pair(new[c], other)
  <2> HIDE DEF new
  <2>3. CASE \E i \in DOMAIN map[c] : Holds(map[c], other, i)
    <3>1. Holds(map[c], other, m) /\ m # 0
      BY <1>4, <2>3, PairFound
    <3>2. m \in DOMAIN new[c] /\ Holds(new[c], other, m) /\ new[c][m] = map[c][m]
      BY <2>1, <3>1 DEF Holds
    <3>3. Holds(new[c], other, n) /\ n # 0
      BY <1>4, <3>2, PairFound
    <3>4. n = m
      BY <1>1, <1>3, <3>2, <3>3 DEF Holds, IsMap
    <3>5. sm_get(new, other, res) = new[c][n].value
      BY <3>3 DEF sm_get, sm_exists
    <3>6. sm_get(map, other, res) = map[c][m].value
      BY <3>1 DEF sm_get, sm_exists
    <3> QED
      BY <1>7, <3>2, <3>4, <3>5, <3>6 DEF new
  <2>4. CASE ~ \E i \in DOMAIN map[c] : Holds(map[c], other, i)
    <3>1. m = 0 /\ n = 0
      BY <2>2, <2>4 DEF get_pair
    <3>2. sm_get(new, other, res) = res /\ sm_get(map, other, res) = res
      BY <3>1 DEF sm_get, sm_exists
    <3> QED
      BY <1>7, <3>2 DEF new
  <2> QED
    BY <2>3, <2>4
<1> QED
  BY <1>5, <1>6, <1>7

(* A new map holds nothing (strmap.c:26-45).                                *)
THEOREM NewIsEmpty ==
  ASSUME NEW V
  PROVE  /\ IsMap(sm_new, V)
         /\ \A key \in Keys : \A res : sm_get(sm_new, key, res) = res
<1>1. \A b \in 0 .. (Capacity - 1) : sm_new[b] = <<>>
  BY DEF sm_new
<1>2. IsMap(sm_new, V)
  <2>1. sm_new \in [0 .. (Capacity - 1) -> Seq(Pairs(V))]
    BY DEF sm_new
  <2> QED
    BY <1>1, <2>1 DEF IsMap
<1>3. ASSUME NEW key \in Keys, NEW res PROVE sm_get(sm_new, key, res) = res
  <2>1. sm_new[index(key)] = <<>>
    BY <1>1, IndexInRange
  <2>2. get_pair(sm_new[index(key)], key) = 0
    BY <2>1 DEF get_pair
  <2> QED
    BY <2>2 DEF sm_get, sm_exists
<1> QED
  BY <1>2, <1>3
-----------------------------------------------------------------------------
(* What a key has is a value of the map, or there is none.                  *)
LEMMA GetIsTyped ==
  ASSUME NEW V, NEW map, IsMap(map, V), NEW key \in Keys, NEW res
  PROVE  sm_get(map, key, res) \in V \cup {res}
<1>1. index(key) \in 0 .. (Capacity - 1)
  BY IndexInRange
<1>2. map[index(key)] \in Seq(Pairs(V))
  BY <1>1 DEF IsMap
<1>3. CASE sm_exists(map, key)
  <2>1. get_pair(map[index(key)], key) \in DOMAIN map[index(key)]
    BY <1>2, <1>3, FoundPair DEF sm_exists, Holds
  <2>2. map[index(key)][get_pair(map[index(key)], key)] \in Pairs(V)
    BY <1>2, <2>1
  <2>. QED BY <1>3, <2>2 DEF sm_get, Pairs
<1>. QED BY <1>3 DEF sm_get

(* A map used as a set of keys.                                             *)
LEMMA SetAfterPut ==
  ASSUME NEW yes, NEW no, NEW map, IsMap(map, {yes}), NEW key \in Keys, NEW k \in Keys
  PROVE  /\ IsMap(sm_put(map, key, yes), {yes})
         /\ sm_get(sm_put(map, key, yes), k, no) = yes <=> sm_get(map, k, no) = yes \/ k = key
<1>1. yes \in {yes}
  OBVIOUS
<1>2. IsMap(sm_put(map, key, yes), {yes})
  BY <1>1, PutKeepsMap
<1>3. sm_get(sm_put(map, key, yes), k, no) = IF k = key THEN yes ELSE sm_get(map, k, no)
  BY <1>1, GetAfterPut
<1>. QED BY <1>2, <1>3

(* Types of what files are read into.                                       *)
Names    == {line.name : line \in {l \in Lines : l.kind = "pair"}}
Values   == {line.value : line \in Lines} \cup {NoNumber}
RuleSet  == [id : Nat \ {0}, field : {Last(name) : name \in Names}, threshold : Values]
NameMaps == {m \in [0 .. (Capacity - 1) -> Seq(Pairs({TRUE}))] : IsMap(m, {TRUE})}
RuleMaps == {m \in [0 .. (Capacity - 1) -> Seq(Pairs(Seq(RuleSet)))] : IsMap(m, Seq(RuleSet))}
Maps     == [ignore_classes : NameMaps, ignore_referenced_by : RuleMaps, made : Nat]

Ignores(maps, k)    == sm_get(maps.ignore_classes, k, FALSE) = TRUE
RulesAtKey(maps, k) == sm_get(maps.ignore_referenced_by, k, <<>>)

LEMMA MapsFacts ==
  ASSUME NEW maps \in Maps
  PROVE  /\ IsMap(maps.ignore_classes, {TRUE}) /\ IsMap(maps.ignore_referenced_by, Seq(RuleSet))
         /\ maps.made \in Nat
         /\ maps = [ignore_classes |-> maps.ignore_classes,
                    ignore_referenced_by |-> maps.ignore_referenced_by, made |-> maps.made]
BY DEF Maps, NameMaps, RuleMaps

LEMMA MapsAre ==
  ASSUME NEW c, IsMap(c, {TRUE}), NEW r, IsMap(r, Seq(RuleSet)), NEW n \in Nat
  PROVE  [ignore_classes |-> c, ignore_referenced_by |-> r, made |-> n] \in Maps
<1>1. c \in NameMaps
  BY Zenon DEF NameMaps, IsMap
<1>2. r \in RuleMaps
  BY DEF RuleMaps, IsMap
<1>. QED BY <1>1, <1>2 DEF Maps

LEMMA RulesAtKeyTyped ==
  ASSUME NEW maps \in Maps, NEW k \in Keys
  PROVE  RulesAtKey(maps, k) \in Seq(RuleSet)
<1>1. IsMap(maps.ignore_referenced_by, Seq(RuleSet))
  BY MapsFacts
<1>2. sm_get(maps.ignore_referenced_by, k, <<>>) \in Seq(RuleSet) \cup {<<>>}
  BY <1>1, GetIsTyped
<1>. QED BY <1>2, EmptySeq DEF RulesAtKey

(* A pair of the section that makes rules.                                  *)
IsRule(section, name, value) ==
  /\ section = "ignore_referenced_by"
  /\ value # NoNumber /\ Len(name) > 1 /\ Last(name) # Empty

(* What the handler does with a pair of the section of ignored classes.     *)
LEMMA HandlerIgnores ==
  ASSUME NEW maps \in Maps, NEW name \in Names, NEW value, NEW k \in Keys,
         NEW new, new = ini_handler(maps, "ignore_classes", name, value)
  PROVE  /\ new \in Maps /\ new.made = maps.made
         /\ Ignores(new, k) <=> Ignores(maps, k) \/ k = name
         /\ RulesAtKey(new, k) = RulesAtKey(maps, k)
<1>1. name \in Keys
  BY LinesAssumption DEF Names
<1>2. PICK c : c = sm_put(maps.ignore_classes, name, TRUE)
  OBVIOUS
<1>3. new = [ignore_classes |-> c, ignore_referenced_by |-> maps.ignore_referenced_by,
             made |-> maps.made]
  <2>1. new = [maps EXCEPT !.ignore_classes = c]
    BY <1>2 DEF ini_handler
  <2>. QED BY <2>1, MapsFacts
<1>4. /\ IsMap(c, {TRUE})
      /\ sm_get(c, k, FALSE) = TRUE <=> sm_get(maps.ignore_classes, k, FALSE) = TRUE \/ k = name
  BY <1>1, <1>2, MapsFacts, SetAfterPut, Zenon
<1>5. new \in Maps
  BY <1>3, <1>4, MapsFacts, MapsAre
<1>6. /\ new.ignore_classes = c /\ new.ignore_referenced_by = maps.ignore_referenced_by
      /\ new.made = maps.made
  BY <1>3
<1>. QED BY <1>4, <1>5, <1>6, Zenon DEF Ignores, RulesAtKey

(* And with a rule.                                                         *)
LEMMA HandlerAddsRule ==
  ASSUME NEW maps \in Maps, NEW name \in Names, NEW value \in Values, NEW k \in Keys,
         IsRule("ignore_referenced_by", name, value),
         NEW new, new = ini_handler(maps, "ignore_referenced_by", name, value)
  PROVE  /\ new \in Maps /\ new.made = maps.made + 1
         /\ Ignores(new, k) <=> Ignores(maps, k)
         /\ RulesAtKey(new, k) =
              IF k = Front(name)
              THEN <<Rule(maps.made + 1, Last(name), value)>> \o RulesAtKey(maps, k)
              ELSE RulesAtKey(maps, k)
<1>1. PICK key \in Keys : key = Front(name)
  BY LinesAssumption DEF Names, IsRule
<1>2. PICK rule : rule = Rule(maps.made + 1, Last(name), value)
  OBVIOUS
<1>3. PICK old : old = sm_get(maps.ignore_referenced_by, key, <<>>)
  OBVIOUS
<1>4. PICK list : list = <<rule>> \o old
  OBVIOUS
<1>5. PICK r : r = sm_put(maps.ignore_referenced_by, key, list)
  OBVIOUS
<1>6. new = [ignore_classes |-> maps.ignore_classes, ignore_referenced_by |-> r,
             made |-> maps.made + 1]
  <2>1. new = AddRule(maps, key, rule)
    BY <1>1, <1>2 DEF ini_handler, IsRule
  <2>2. new = [maps EXCEPT !.ignore_referenced_by = r, !.made = maps.made + 1]
    BY <2>1, <1>3, <1>4, <1>5 DEF AddRule
  <2>. QED BY <2>2, MapsFacts
<1>7. list \in Seq(RuleSet)
  <2>1. rule \in RuleSet
    <3>1. maps.made + 1 \in Nat \ {0}
      BY MapsFacts
    <3>2. Last(name) \in {Last(n) : n \in Names}
      OBVIOUS
    <3>. QED BY <1>2, <3>1, <3>2 DEF Rule, RuleSet
  <2>2. old \in Seq(RuleSet)
    BY <1>3, RulesAtKeyTyped DEF RulesAtKey
  <2>. QED BY <1>4, <2>1, <2>2
<1>8. IsMap(r, Seq(RuleSet))
  BY <1>5, <1>7, MapsFacts, PutKeepsMap
<1>9. sm_get(r, k, <<>>) = IF k = key THEN list ELSE sm_get(maps.ignore_referenced_by, k, <<>>)
  BY <1>5, <1>7, MapsFacts, GetAfterPut
<1>10. new \in Maps
  BY <1>6, <1>8, MapsFacts, MapsAre
<1>11. /\ new.ignore_classes = maps.ignore_classes /\ new.ignore_referenced_by = r
       /\ new.made = maps.made + 1
  BY <1>6
<1>12. RulesAtKey(new, k) = IF k = key THEN <<rule>> \o RulesAtKey(maps, k)
                            ELSE RulesAtKey(maps, k)
  BY <1>3, <1>4, <1>9, <1>11 DEF RulesAtKey
<1>13. Ignores(new, k) <=> Ignores(maps, k)
  BY <1>11, Zenon DEF Ignores
<1>. QED BY <1>1, <1>2, <1>10, <1>11, <1>12, <1>13

(* All other pairs are refused.                                             *)
LEMMA HandlerRefuses ==
  ASSUME NEW maps, NEW section, NEW name, NEW value,
         section # "ignore_classes", ~ IsRule(section, name, value)
  PROVE  ini_handler(maps, section, name, value) = maps
BY DEF ini_handler, IsRule
-----------------------------------------------------------------------------
(* The reading of a file, up to a line: the section it is in, the pair that *)
(* more values can belong to, and what was said.                            *)
SectionAt(file, n) ==
  IF SectionLines(file, n) = {} THEN NoSection ELSE file[Latest(SectionLines(file, n))].name

Before(file, n) == {i \in PairLines(file, n) : \A j \in SectionLines(file, n + 1) : j < i}

NameAt(file, n) == IF Before(file, n) = {} THEN NoName ELSE file[Latest(Before(file, n))].name

IgnoredTo(file, n) ==
  {file[i].name : i \in {m \in PairLines(file, n) : InSection(file, m, "ignore_classes")}}

RulesTo(file, n, k) ==
  UNION {{<<Last(file[p].name), file[m].value>> : p \in PairOf(file, m)} :
           m \in {i \in RuleLines(file, k) : i <= n}}

IsLatest(n, S) == S \subseteq Nat /\ n \in S /\ \A i \in S : i <= n

LEMMA LatestIs ==
  ASSUME NEW S, NEW n, IsLatest(n, S)
  PROVE  Latest(S) = n
<1>1. \A m \in S : (\A i \in S : i <= m) => m = n
  BY DEF IsLatest
<1>2. n \in S /\ \A i \in S : i <= n
  BY DEF IsLatest
<1>3. Latest(S) \in S /\ \A i \in S : i <= Latest(S)
  BY <1>2, Zenon DEF Latest
<1>. QED BY <1>1, <1>3

LEMMA LatestIn ==
  ASSUME NEW n \in Nat, NEW S \in SUBSET (1 .. n), S # {}
  PROVE  Latest(S) \in S
<1>. DEFINE T == {n - i : i \in S}
<1>1. T # {} /\ T \subseteq Nat
  <2>1. \A i \in S : i \in 1 .. n /\ n - i \in Nat
    OBVIOUS
  <2>. QED BY <2>1
<1>2. PICK t \in T : \A u \in T : t <= u
  <2>. HIDE DEF T
  <2>. QED BY <1>1, LeastElement, Zenon
<1>3. PICK m \in S : t = n - m
  OBVIOUS
<1>4. \A i \in S : i <= m
  <2>. SUFFICES ASSUME NEW i \in S PROVE i <= m
    OBVIOUS
  <2>1. n - m <= n - i
    BY <1>2, <1>3
  <2>. QED BY <2>1
<1>5. IsLatest(m, S)
  <2>1. \A i \in S : i \in 1 .. n
    OBVIOUS
  <2>2. S \subseteq Nat
    BY <2>1
  <2>. QED BY <1>4, <2>2 DEF IsLatest
<1>. QED BY <1>5, LatestIs

(* Whether there is a pair to continue, after one more line.                *)
LEMMA ContinuesNext ==
  ASSUME NEW file \in Seq(Lines), NEW n \in Nat, n < Len(file)
  PROVE  Continues(file, n + 2)
           <=> \/ file[n + 1].kind = "pair" /\ file[n + 1].name # NoName
               \/ Continues(file, n + 1) /\ ~ EndsValues(file[n + 1])
<1>. DEFINE Named(i)   == file[i].kind = "pair" /\ file[i].name # NoName
            Ends(i)    == EndsValues(file[i])
            To(m)      == \E i \in 1 .. m : Named(i) /\ \A j \in (i + 1) .. m : ~ Ends(j)
<1>1. (Continues(file, n + 2) <=> To(n + 1)) /\ (Continues(file, n + 1) <=> To(n))
  <2>1. \A m : Continues(file, m) <=> To(m - 1)
    BY Zenon DEF Continues
  <2>2. n + 2 - 1 = n + 1 /\ n + 1 - 1 = n
    OBVIOUS
  <2>. HIDE DEF To
  <2>. QED BY <2>1, <2>2
<1>. HIDE DEF Named, Ends
<1>2. ASSUME Named(n + 1) PROVE To(n + 1)
  <2>1. n + 1 \in 1 .. (n + 1) /\ \A j \in (n + 1 + 1) .. (n + 1) : ~ Ends(j)
    OBVIOUS
  <2>. QED BY <1>2, <2>1
<1>3. ASSUME To(n), ~ Ends(n + 1) PROVE To(n + 1)
  <2>1. PICK i \in 1 .. n : Named(i) /\ \A j \in (i + 1) .. n : ~ Ends(j)
    BY <1>3
  <2>2. \A j \in (i + 1) .. (n + 1) : j \in (i + 1) .. n \/ j = n + 1
    OBVIOUS
  <2>. QED BY <1>3, <2>1, <2>2
<1>4. ASSUME To(n + 1), ~ Named(n + 1) PROVE To(n) /\ ~ Ends(n + 1)
  <2>1. PICK i \in 1 .. (n + 1) : Named(i) /\ \A j \in (i + 1) .. (n + 1) : ~ Ends(j)
    BY <1>4
  <2>2. i \in 1 .. n /\ n + 1 \in (i + 1) .. (n + 1)
    BY <1>4, <2>1
  <2>. QED BY <2>1, <2>2
<1>5. ASSUME Named(n + 1) PROVE To(n + 1) <=> Named(n + 1) \/ (To(n) /\ ~ Ends(n + 1))
  BY <1>2, <1>5
<1>6. To(n + 1) <=> Named(n + 1) \/ (To(n) /\ ~ Ends(n + 1))
  BY <1>3, <1>4, <1>5
<1>. QED BY <1>1, <1>6 DEF Named, Ends

(* A line that is a section.                                                *)
LEMMA AfterSection ==
  ASSUME NEW file \in Seq(Lines), NEW n \in Nat, n < Len(file), file[n + 1].kind = "section",
         Stands(file, n + 1)
  PROVE  SectionAt(file, n + 2) = file[n + 1].name /\ NameAt(file, n + 1) = NoName
<1>1. n + 1 \in SectionLines(file, n + 2)
  BY DEF SectionLines
<1>2. Latest(SectionLines(file, n + 2)) = n + 1
  <2>1. IsLatest(n + 1, SectionLines(file, n + 2))
    BY <1>1 DEF IsLatest, SectionLines
  <2>. QED BY <2>1, LatestIs
<1>3. Before(file, n + 1) = {}
  <2>1. n + 1 + 1 = n + 2
    OBVIOUS
  <2>. QED BY <1>1, <2>1 DEF Before, PairLines
<1>. QED BY <1>1, <1>2, <1>3 DEF SectionAt, NameAt

(* A line that is none.                                                     *)
LEMMA SectionStays ==
  ASSUME NEW file \in Seq(Lines), NEW n \in Nat, n < Len(file),
         ~ (file[n + 1].kind = "section" /\ Stands(file, n + 1))
  PROVE  /\ SectionLines(file, n + 2) = SectionLines(file, n + 1)
         /\ SectionAt(file, n + 2) = SectionAt(file, n + 1)
<1>1. SectionLines(file, n + 2) = SectionLines(file, n + 1)
  BY DEF SectionLines
<1>. QED BY <1>1 DEF SectionAt

(* A line that is a pair.                                                   *)
LEMMA AfterPair ==
  ASSUME NEW file \in Seq(Lines), NEW n \in Nat, n < Len(file), file[n + 1].kind = "pair",
         Stands(file, n + 1)
  PROVE  /\ PairOf(file, n + 1) = {n + 1}
         /\ NameAt(file, n + 1) = file[n + 1].name
<1>1. n + 1 \in PairLines(file, n + 1)
  BY DEF PairLines
<1>2. \A j \in SectionLines(file, n + 1) : j < n + 1
  BY DEF SectionLines
<1>3. Latest({i \in PairLines(file, n + 1) : \A j \in SectionLines(file, n + 1) : j < i}) = n + 1
  <2>. DEFINE S == {i \in PairLines(file, n + 1) : \A j \in SectionLines(file, n + 1) : j < i}
  <2>1. IsLatest(n + 1, S)
    BY <1>1, <1>2 DEF PairLines, IsLatest
  <2>. HIDE DEF S
  <2>2. Latest(S) = n + 1
    BY <2>1, LatestIs
  <2>. QED BY <2>2 DEF S
<1>4. PairOf(file, n + 1) = {n + 1}
  BY <1>1, <1>2, <1>3 DEF PairOf
<1>5. SectionLines(file, n + 2) = SectionLines(file, n + 1)
  BY SectionStays
<1>6. Before(file, n + 1) = {i \in PairLines(file, n + 1) : \A j \in SectionLines(file, n + 1) : j < i}
  <2>1. n + 1 + 1 = n + 2
    OBVIOUS
  <2>. QED BY <1>5, <2>1 DEF Before
<1>7. NameAt(file, n + 1) = file[n + 1].name
  BY <1>1, <1>2, <1>3, <1>6 DEF NameAt
<1>. QED BY <1>4, <1>7

(* A line that is neither.                                                  *)
LEMMA AfterOther ==
  ASSUME NEW file \in Seq(Lines), NEW n \in Nat, n < Len(file),
         file[n + 1].kind \notin {"section", "pair"} \/ ~ Stands(file, n + 1)
  PROVE  /\ NameAt(file, n + 1) = NameAt(file, n)
         /\ PairOf(file, n + 1) = IF file[n + 1].indent /\ Before(file, n) # {}
                                  THEN {Latest(Before(file, n))} ELSE {}
         /\ IgnoredTo(file, n + 1) = IgnoredTo(file, n)
<1>1. PairLines(file, n + 1) = PairLines(file, n)
  BY DEF PairLines
<1>2. SectionLines(file, n + 2) = SectionLines(file, n + 1) /\ n + 1 + 1 = n + 2
  BY SectionStays
<1>3. Before(file, n + 1) = Before(file, n)
  BY <1>1, <1>2 DEF Before
<1>4. PairOf(file, n + 1) = IF file[n + 1].indent /\ Before(file, n) # {}
                            THEN {Latest(Before(file, n))} ELSE {}
  <2>1. Before(file, n)
          = {i \in PairLines(file, n + 1) : \A j \in SectionLines(file, n + 1) : j < i}
    BY <1>1 DEF Before
  <2>2. n + 1 \notin Before(file, n)
    BY DEF Before, PairLines
  <2>. QED BY <2>1, <2>2, Zenon DEF PairOf
<1>. QED BY <1>1, <1>3, <1>4 DEF NameAt, IgnoredTo

LEMMA InSectionAt ==
  ASSUME NEW file, NEW n, NEW s, s # NoSection
  PROVE  InSection(file, n, s) <=> SectionAt(file, n) = s
BY DEF InSection, SectionAt

(* The pair that more values can belong to lies in the section.             *)
LEMMA PairsInSection ==
  ASSUME NEW file \in Seq(Lines), NEW n \in Nat, n <= Len(file), Before(file, n) # {}
  PROVE  LET p == Latest(Before(file, n))
         IN  /\ p \in PairLines(file, n)
             /\ SectionAt(file, p) = SectionAt(file, n + 1)
<1>. DEFINE p == Latest(Before(file, n))
<1>1. p \in Before(file, n)
  <2>1. Before(file, n) \subseteq 1 .. n
    BY DEF Before, PairLines
  <2>. QED BY <2>1, LatestIn
<1>. HIDE DEF p
<1>2. p \in PairLines(file, n) /\ p \in 1 .. n /\ \A j \in SectionLines(file, n + 1) : j < p
  BY <1>1 DEF Before, PairLines
<1>3. SectionLines(file, p) = SectionLines(file, n + 1)
  BY <1>2 DEF SectionLines
<1>4. SectionAt(file, p) = SectionAt(file, n + 1)
  BY <1>3 DEF SectionAt
<1>. QED BY <1>2, <1>4 DEF p
-----------------------------------------------------------------------------
(* One line.                                                                *)
Reading == [section : {NoSection} \cup {line.name : line \in Lines},
            prev_name : Names \cup {NoName}, maps : Maps]

LEMMA ReadingFacts ==
  ASSUME NEW at \in Reading
  PROVE  at = [section |-> at.section, prev_name |-> at.prev_name, maps |-> at.maps]
BY DEF Reading

TextValue(line) == IF line.kind = "text" THEN line.value ELSE NoNumber

LEMMA ContinuationIsHandled ==
  ASSUME NEW at \in Reading, NEW line \in Lines, IsContinuation(at, line),
         NEW new, new = ParseLine(at, line)
  PROVE  /\ line.indent /\ at.prev_name \in Names /\ at.prev_name # NoName
         /\ new = [section |-> at.section, prev_name |-> at.prev_name,
                   maps |-> ini_handler(at.maps, at.section, at.prev_name, TextValue(line))]
<1>1. line.indent
  BY DEF IsContinuation
<1>2. at.prev_name \in Names /\ at.prev_name # NoName
  BY DEF Reading, IsContinuation
<1>3. PICK m : m = ini_handler(at.maps, at.section, at.prev_name, TextValue(line))
  OBVIOUS
<1>4. new = [at EXCEPT !.maps = m]
  BY <1>1, <1>3 DEF ParseLine, TextValue
<1>. QED BY <1>1, <1>2, <1>3, <1>4, ReadingFacts

LEMMA PairIsHandled ==
  ASSUME NEW at \in Reading, NEW line \in Lines, ~ IsContinuation(at, line), line.kind = "pair",
         NEW new, new = ParseLine(at, line)
  PROVE  /\ line.name \in Names
         /\ new = [section |-> at.section, prev_name |-> line.name,
                   maps |-> ini_handler(at.maps, at.section, line.name, line.value)]
<1>1. line.name \in Names
  BY DEF Names
<1>2. PICK m : m = ini_handler(at.maps, at.section, line.name, line.value)
  OBVIOUS
<1>3. new = [at EXCEPT !.prev_name = line.name, !.maps = m]
  BY <1>2 DEF ParseLine
<1>. QED BY <1>1, <1>2, <1>3, ReadingFacts

LEMMA SectionIsRead ==
  ASSUME NEW at \in Reading, NEW line \in Lines, ~ IsContinuation(at, line), line.kind = "section",
         NEW new, new = ParseLine(at, line)
  PROVE  new = [section |-> line.name, prev_name |-> NoName, maps |-> at.maps]
<1>1. new = AtSection(at, line)
  BY DEF ParseLine
<1>. QED BY <1>1, ReadingFacts DEF AtSection

LEMMA OtherIsSkipped ==
  ASSUME NEW at \in Reading, NEW line \in Lines, ~ IsContinuation(at, line),
         line.kind \notin {"section", "pair"}
  PROVE  ParseLine(at, line) = at
BY DEF ParseLine

(* The handler, whatever it is given.                                       *)
LEMMA HandlerTyped ==
  ASSUME NEW maps \in Maps, NEW section, NEW name \in Names, NEW value \in Values
  PROVE  ini_handler(maps, section, name, value) \in Maps
<1>1. PICK new : new = ini_handler(maps, section, name, value)
  OBVIOUS
<1>2. PICK k \in Keys : k = name
  BY LinesAssumption DEF Names
<1>3. CASE section = "ignore_classes"
  BY <1>1, <1>2, <1>3, HandlerIgnores
<1>4. CASE section = "ignore_referenced_by" /\ IsRule(section, name, value)
  BY <1>1, <1>2, <1>4, HandlerAddsRule
<1>5. CASE section # "ignore_classes" /\ ~ IsRule(section, name, value)
  BY <1>5, HandlerRefuses
<1>. QED BY <1>1, <1>3, <1>4, <1>5 DEF IsRule

LEMMA ParseLineTyped ==
  ASSUME NEW at \in Reading, NEW line \in Lines
  PROVE  ParseLine(at, line) \in Reading
<1>1. PICK new : new = ParseLine(at, line)
  OBVIOUS
<1>2. at.maps \in Maps /\ line.value \in Values /\ TextValue(line) \in Values
  BY DEF Reading, Values, TextValue
<1>3. CASE IsContinuation(at, line)
  <2>1. ini_handler(at.maps, at.section, at.prev_name, TextValue(line)) \in Maps
    BY <1>2, <1>3, HandlerTyped, ContinuationIsHandled
  <2>2. new = [section |-> at.section, prev_name |-> at.prev_name,
               maps |-> ini_handler(at.maps, at.section, at.prev_name, TextValue(line))]
    BY <1>1, <1>3, ContinuationIsHandled
  <2>. QED BY <1>1, <2>1, <2>2 DEF Reading
<1>4. CASE ~ IsContinuation(at, line) /\ line.kind = "pair"
  <2>1. line.name \in Names
    BY <1>4 DEF Names
  <2>2. ini_handler(at.maps, at.section, line.name, line.value) \in Maps
    BY <1>2, <2>1, HandlerTyped
  <2>3. new = [section |-> at.section, prev_name |-> line.name,
               maps |-> ini_handler(at.maps, at.section, line.name, line.value)]
    BY <1>1, <1>4, PairIsHandled
  <2>. QED BY <1>1, <2>1, <2>2, <2>3 DEF Reading
<1>5. CASE ~ IsContinuation(at, line) /\ line.kind = "section"
  <2>1. new = [section |-> line.name, prev_name |-> NoName, maps |-> at.maps]
    BY <1>1, <1>5, SectionIsRead
  <2>. QED BY <1>1, <1>2, <2>1 DEF Reading
<1>6. CASE ~ IsContinuation(at, line) /\ line.kind \notin {"section", "pair"}
  BY <1>6, OtherIsSkipped
<1>. QED BY <1>3, <1>4, <1>5, <1>6
-----------------------------------------------------------------------------
(* What a list of rules holds with one more at its head.                    *)
LEMMA OneMoreRule ==
  ASSUME NEW rule \in RuleSet, NEW old \in Seq(RuleSet), NEW list, list = <<rule>> \o old
  PROVE  /\ Ids(list) = Ids(old) \cup {rule.id}
         /\ Contents(list) = Contents(old) \cup {<<rule.field, rule.threshold>>}
<1>1. /\ list \in Seq(RuleSet) /\ Len(list) = 1 + Len(old) /\ list[1] = rule
      /\ \A i \in 1 .. Len(old) : list[1 + i] = old[i]
  <2>1. <<rule>> \in Seq(RuleSet) /\ Len(<<rule>>) = 1 /\ <<rule>>[1] = rule
    OBVIOUS
  <2>. QED BY <2>1, ConcatFacts
<1>2. /\ DOMAIN list = 1 .. (1 + Len(old)) /\ DOMAIN old = 1 .. Len(old) /\ Len(old) \in Nat
  BY <1>1
<1>3. \A i \in DOMAIN list : i = 1 \/ (i - 1 \in DOMAIN old /\ list[i] = old[i - 1])
  <2>. SUFFICES ASSUME NEW i \in DOMAIN list, i # 1
                PROVE  i - 1 \in DOMAIN old /\ list[i] = old[i - 1]
    OBVIOUS
  <2>1. i - 1 \in 1 .. Len(old) /\ 1 + (i - 1) = i
    BY <1>2
  <2>. QED BY <1>1, <1>2, <2>1
<1>4. \A i \in DOMAIN old : 1 + i \in DOMAIN list /\ list[1 + i] = old[i]
  BY <1>1, <1>2
<1>5. 1 \in DOMAIN list
  BY <1>2
<1>6. ASSUME NEW i \in DOMAIN list
      PROVE  /\ list[i].id \in Ids(old) \cup {rule.id}
             /\ <<list[i].field, list[i].threshold>>
                  \in Contents(old) \cup {<<rule.field, rule.threshold>>}
  <2>1. CASE i = 1
    BY <1>1, <2>1
  <2>2. CASE i # 1
    <3>1. PICK j \in DOMAIN old : list[i] = old[j]
      BY <1>3, <2>2
    <3>. QED BY <3>1 DEF Ids, Contents
  <2>. QED BY <2>1, <2>2
<1>7. ASSUME NEW i \in DOMAIN old
      PROVE  old[i].id \in Ids(list) /\ <<old[i].field, old[i].threshold>> \in Contents(list)
  <2>1. PICK j \in DOMAIN list : list[j] = old[i]
    BY <1>4
  <2>. QED BY <2>1 DEF Ids, Contents
<1>8. rule.id \in Ids(list) /\ <<rule.field, rule.threshold>> \in Contents(list)
  BY <1>1, <1>5 DEF Ids, Contents
<1>9. Ids(list) = Ids(old) \cup {rule.id}
  <2>1. \A x \in Ids(list) : x \in Ids(old) \cup {rule.id}
    BY <1>6 DEF Ids
  <2>2. \A x \in Ids(old) : x \in Ids(list)
    BY <1>7 DEF Ids
  <2>. QED BY <1>8, <2>1, <2>2
<1>10. Contents(list) = Contents(old) \cup {<<rule.field, rule.threshold>>}
  <2>1. \A x \in Contents(list) : x \in Contents(old) \cup {<<rule.field, rule.threshold>>}
    BY <1>6 DEF Contents
  <2>2. \A x \in Contents(old) : x \in Contents(list)
    BY <1>7 DEF Contents
  <2>. QED BY <1>8, <2>1, <2>2
<1>. QED BY <1>9, <1>10

LEMMA RuleTyped ==
  ASSUME NEW n \in Nat, NEW name \in Names, NEW value \in Values
  PROVE  Rule(n + 1, Last(name), value) \in RuleSet
<1>1. n + 1 \in Nat \ {0}
  OBVIOUS
<1>2. Last(name) \in {Last(m) : m \in Names}
  OBVIOUS
<1>. QED BY <1>1, <1>2 DEF Rule, RuleSet

RuleOf(section, name, value, k) ==
  IF IsRule(section, name, value) /\ k = Front(name) THEN {<<Last(name), value>>} ELSE {}

(* What the maps hold after a pair was handled.                             *)
LEMMA HandlerSays ==
  ASSUME NEW maps \in Maps, NEW section, NEW name \in Names, NEW value \in Values,
         NEW k \in Keys, NEW new, new = ini_handler(maps, section, name, value)
  PROVE  /\ Ignores(new, k) <=> Ignores(maps, k) \/ (section = "ignore_classes" /\ k = name)
         /\ Contents(RulesAtKey(new, k))
              = Contents(RulesAtKey(maps, k)) \cup RuleOf(section, name, value, k)
<1>1. CASE section = "ignore_classes"
  <2>1. /\ Ignores(new, k) <=> Ignores(maps, k) \/ k = name
        /\ RulesAtKey(new, k) = RulesAtKey(maps, k)
    BY <1>1, HandlerIgnores
  <2>2. RuleOf(section, name, value, k) = {}
    BY <1>1 DEF RuleOf, IsRule
  <2>. QED BY <1>1, <2>1, <2>2
<1>2. CASE IsRule(section, name, value)
  <2>1. section = "ignore_referenced_by"
    BY <1>2 DEF IsRule
  <2>2. PICK rule : rule = Rule(maps.made + 1, Last(name), value)
    OBVIOUS
  <2>3. /\ Ignores(new, k) <=> Ignores(maps, k)
        /\ RulesAtKey(new, k) = IF k = Front(name) THEN <<rule>> \o RulesAtKey(maps, k)
                                ELSE RulesAtKey(maps, k)
    BY <1>2, <2>1, <2>2, HandlerAddsRule
  <2>4. rule \in RuleSet /\ RulesAtKey(maps, k) \in Seq(RuleSet)
    BY <2>2, RuleTyped, MapsFacts, RulesAtKeyTyped
  <2>5. rule.field = Last(name) /\ rule.threshold = value
    BY <2>2 DEF Rule
  <2>6. CASE k = Front(name)
    <3>1. PICK list : list = <<rule>> \o RulesAtKey(maps, k)
      OBVIOUS
    <3>2. Contents(list) = Contents(RulesAtKey(maps, k)) \cup {<<rule.field, rule.threshold>>}
      BY <2>4, <3>1, OneMoreRule
    <3>3. RulesAtKey(new, k) = list
      BY <2>3, <2>6, <3>1
    <3>4. RuleOf(section, name, value, k) = {<<rule.field, rule.threshold>>}
      BY <1>2, <2>5, <2>6 DEF RuleOf
    <3>. QED BY <2>1, <2>3, <3>2, <3>3, <3>4
  <2>7. CASE k # Front(name)
    BY <2>1, <2>3, <2>7 DEF RuleOf
  <2>. QED BY <2>6, <2>7
<1>3. CASE section # "ignore_classes" /\ ~ IsRule(section, name, value)
  <2>1. new = maps
    BY <1>3, HandlerRefuses
  <2>. QED BY <1>3, <2>1 DEF RuleOf
<1>. QED BY <1>1, <1>2, <1>3

Tells(file, n) == file[n].kind = "text" \/ n \in PairLines(file, n)

TellsOf(file, n, p) == PairOf(file, n) = {p} /\ Tells(file, n)

(* What the files say with one more line.                                   *)
LEMMA LineSays ==
  ASSUME NEW file \in Seq(Lines), NEW n \in Nat, n < Len(file), NEW k, NEW p,
         TellsOf(file, n + 1, p)
  PROVE  RulesTo(file, n + 1, k)
           = RulesTo(file, n, k)
               \cup RuleOf(SectionAt(file, n + 1), file[p].name, file[n + 1].value, k)
<1>1. n + 1 \in RuleLines(file, k)
        <=> IsRule(SectionAt(file, n + 1), file[p].name, file[n + 1].value)
            /\ k = Front(file[p].name)
  <2>1. InSection(file, n + 1, "ignore_referenced_by")
          <=> SectionAt(file, n + 1) = "ignore_referenced_by"
    <3>1. "ignore_referenced_by" # NoSection
      BY Zenon DEF NoSection
    <3>. QED BY <3>1, InSectionAt
  <2>2. n + 1 \in 1 .. Len(file)
    OBVIOUS
  <2>. QED BY <2>1, <2>2 DEF RuleLines, IsRule, TellsOf, Tells
<1>2. {i \in RuleLines(file, k) : i <= n + 1}
        = {i \in RuleLines(file, k) : i <= n}
            \cup IF n + 1 \in RuleLines(file, k) THEN {n + 1} ELSE {}
  BY DEF RuleLines
<1>3. RulesTo(file, n + 1, k)
        = RulesTo(file, n, k)
            \cup IF n + 1 \in RuleLines(file, k)
                 THEN {<<Last(file[p].name), file[n + 1].value>>} ELSE {}
  BY <1>2 DEF RulesTo, TellsOf
<1>. QED BY <1>1, <1>3 DEF RuleOf

LEMMA LineSaysNothing ==
  ASSUME NEW file \in Seq(Lines), NEW n \in Nat, n < Len(file), NEW k,
         PairOf(file, n + 1) = {} \/ ~ Tells(file, n + 1)
  PROVE  RulesTo(file, n + 1, k) = RulesTo(file, n, k)
<1>1. n + 1 \notin RuleLines(file, k)
  BY DEF RuleLines, Tells
<1>2. {i \in RuleLines(file, k) : i <= n + 1} = {i \in RuleLines(file, k) : i <= n}
  BY <1>1 DEF RuleLines
<1>. QED BY <1>2 DEF RulesTo

LEMMA PairIgnores ==
  ASSUME NEW file \in Seq(Lines), NEW n \in Nat, n < Len(file), file[n + 1].kind = "pair",
         Stands(file, n + 1), NEW k
  PROVE  k \in IgnoredTo(file, n + 1)
           <=> k \in IgnoredTo(file, n)
               \/ (SectionAt(file, n + 1) = "ignore_classes" /\ k = file[n + 1].name)
<1>1. InSection(file, n + 1, "ignore_classes") <=> SectionAt(file, n + 1) = "ignore_classes"
  <2>1. "ignore_classes" # NoSection
    BY Zenon DEF NoSection
  <2>. QED BY <2>1, InSectionAt
<1>2. PairLines(file, n + 1) = PairLines(file, n) \cup {n + 1}
  BY DEF PairLines
<1>. QED BY <1>1, <1>2 DEF IgnoredTo

(* The state of the reading after n lines of a file is where those lines    *)
(* leave it, and holds what they say.                                       *)
AtLine(file, n, at) ==
  /\ at.section = SectionAt(file, n + 1) /\ at.prev_name = NameAt(file, n)
  /\ NameAt(file, n) # NoName <=> Continues(file, n + 1)

Said(file, n, first, maps, k) ==
  /\ Ignores(maps, k) <=> Ignores(first, k) \/ k \in IgnoredTo(file, n)
  /\ Contents(RulesAtKey(maps, k)) = Contents(RulesAtKey(first, k)) \cup RulesTo(file, n, k)

LEMMA ParseLineSays ==
  ASSUME NEW file \in Seq(Lines), NEW n \in Nat, n < Len(file), NEW k \in Keys, NEW first,
         NEW at \in Reading, AtLine(file, n, at), Said(file, n, first, at.maps, k),
         NEW new, new = ParseLine(at, file[n + 1])
  PROVE  AtLine(file, n + 1, new) /\ Said(file, n + 1, first, new.maps, k)
<1>1. PICK line \in Lines : line = file[n + 1]
  <2>1. n + 1 \in 1 .. Len(file)
    OBVIOUS
  <2>. QED BY <2>1, ElementOfSeq
<1>2. at.maps \in Maps /\ line.value \in Values /\ TextValue(line) \in Values /\ n + 1 + 1 = n + 2
  BY DEF Reading, Values, TextValue
<1>3. PICK section : section = at.section /\ section = SectionAt(file, n + 1)
  BY DEF AtLine
<1>0. Continues(file, n + 2)
        <=> \/ line.kind = "pair" /\ line.name # NoName
            \/ Continues(file, n + 1) /\ ~ EndsValues(line)
  BY <1>1, ContinuesNext
<1>4. CASE IsContinuation(at, line)
  <2>0. ~ Stands(file, n + 1) \/ line.kind \notin {"section", "pair"}
    BY <1>1, <1>4 DEF IsContinuation, Stands, AtLine
  <2>1. PICK name \in Names : name = at.prev_name /\ name # NoName
    BY <1>4, ContinuationIsHandled
  <2>2. /\ line.indent
        /\ new = [section |-> section, prev_name |-> name,
                  maps |-> ini_handler(at.maps, section, name, TextValue(line))]
    <3>1. new = ParseLine(at, line)
      BY <1>1
    <3>2. /\ line.indent
          /\ new = [section |-> at.section, prev_name |-> at.prev_name,
                    maps |-> ini_handler(at.maps, at.section, at.prev_name, TextValue(line))]
      BY <1>4, <3>1, ContinuationIsHandled, Zenon
    <3>. QED BY <1>3, <2>1, <3>2
  <2>3. PICK m : m = ini_handler(at.maps, section, name, TextValue(line))
    OBVIOUS
  <2>4. new.section = section /\ new.prev_name = name /\ new.maps = m
    BY <2>2, <2>3
  <2>5. Before(file, n) # {} /\ name = file[Latest(Before(file, n))].name
    BY <2>1 DEF AtLine, NameAt
  <2>6. PICK p : p = Latest(Before(file, n))
    OBVIOUS
  <2>7. p \in PairLines(file, n) /\ SectionAt(file, p) = section
    BY <1>3, <2>5, <2>6, PairsInSection
  <2>8. /\ NameAt(file, n + 1) = NameAt(file, n) /\ PairOf(file, n + 1) = {p}
        /\ IgnoredTo(file, n + 1) = IgnoredTo(file, n)
    BY <1>1, <2>0, <2>2, <2>5, <2>6, AfterOther
  <2>9. SectionAt(file, n + 2) = section
    BY <1>1, <1>3, <2>0, SectionStays
  <2>10. section = "ignore_classes" => name \in IgnoredTo(file, n)
    <3>. SUFFICES ASSUME section = "ignore_classes" PROVE name \in IgnoredTo(file, n)
      OBVIOUS
    <3>1. InSection(file, p, "ignore_classes")
      <4>1. "ignore_classes" # NoSection
        BY Zenon DEF NoSection
      <4>. QED BY <2>7, <4>1, InSectionAt
    <3>. QED BY <2>5, <2>6, <2>7, <3>1 DEF IgnoredTo
  <2>11. /\ Ignores(m, k) <=> Ignores(at.maps, k) \/ (section = "ignore_classes" /\ k = name)
         /\ Contents(RulesAtKey(m, k))
              = Contents(RulesAtKey(at.maps, k)) \cup RuleOf(section, name, TextValue(line), k)
    BY <1>2, <2>3, HandlerSays
  <2>12. RulesTo(file, n + 1, k) = RulesTo(file, n, k) \cup RuleOf(section, name, TextValue(line), k)
    <3>1. CASE line.kind = "text"
      <4>1. TellsOf(file, n + 1, p)
        BY <1>1, <2>8, <3>1 DEF TellsOf, Tells
      <4>2. RulesTo(file, n + 1, k)
              = RulesTo(file, n, k)
                  \cup RuleOf(SectionAt(file, n + 1), file[p].name, file[n + 1].value, k)
        BY <4>1, LineSays, Zenon
      <4>. QED BY <1>1, <1>3, <2>5, <2>6, <3>1, <4>2 DEF TextValue
    <3>2. CASE line.kind # "text"
      <4>1. ~ Tells(file, n + 1)
        BY <1>1, <2>0, <3>2 DEF Tells, PairLines
      <4>2. RuleOf(section, name, TextValue(line), k) = {}
        BY <3>2 DEF RuleOf, IsRule, TextValue
      <4>. QED BY <4>1, <4>2, LineSaysNothing
    <3>. QED BY <3>1, <3>2
  <2>13. AtLine(file, n + 1, new)
    <3>1. Continues(file, n + 2)
      BY <1>0, <2>2, <2>1 DEF AtLine, EndsValues
    <3>. QED BY <1>2, <2>4, <2>1, <2>8, <2>9, <3>1 DEF AtLine
  <2>14. Said(file, n + 1, first, new.maps, k)
    BY <2>4, <2>8, <2>10, <2>11, <2>12 DEF Said
  <2>. QED BY <2>13, <2>14
<1>5. CASE ~ IsContinuation(at, line) /\ line.kind = "pair"
  <2>0. Stands(file, n + 1) /\ file[n + 1].kind = "pair"
    BY <1>1, <1>5 DEF IsContinuation, Stands, AtLine
  <2>1. PICK name \in Names : name = line.name
    BY <1>5 DEF Names
  <2>2. PICK m : m = ini_handler(at.maps, section, name, line.value)
    OBVIOUS
  <2>3. new.section = section /\ new.prev_name = name /\ new.maps = m
    <3>1. new = ParseLine(at, line)
      BY <1>1
    <3>2. new = [section |-> at.section, prev_name |-> line.name,
                 maps |-> ini_handler(at.maps, at.section, line.name, line.value)]
      BY <1>5, <3>1, PairIsHandled, Zenon
    <3>. QED BY <1>3, <2>1, <2>2, <3>2
  <2>4. PairOf(file, n + 1) = {n + 1} /\ NameAt(file, n + 1) = name
    BY <1>1, <2>0, <2>1, AfterPair
  <2>5. SectionAt(file, n + 2) = section
    BY <1>3, <2>0, SectionStays
  <2>6. /\ Ignores(m, k) <=> Ignores(at.maps, k) \/ (section = "ignore_classes" /\ k = name)
        /\ Contents(RulesAtKey(m, k))
             = Contents(RulesAtKey(at.maps, k)) \cup RuleOf(section, name, line.value, k)
    BY <1>2, <2>2, HandlerSays
  <2>7. RulesTo(file, n + 1, k) = RulesTo(file, n, k) \cup RuleOf(section, name, line.value, k)
    <3>0. PICK p : p = n + 1
      OBVIOUS
    <3>1. TellsOf(file, n + 1, p)
      BY <2>0, <2>4, <3>0 DEF TellsOf, Tells, PairLines
    <3>2. RulesTo(file, n + 1, k)
            = RulesTo(file, n, k)
                \cup RuleOf(SectionAt(file, n + 1), file[p].name, file[n + 1].value, k)
      BY <3>1, LineSays, Zenon
    <3>. QED BY <1>1, <1>3, <2>1, <3>0, <3>2
  <2>8. k \in IgnoredTo(file, n + 1)
          <=> k \in IgnoredTo(file, n) \/ (section = "ignore_classes" /\ k = name)
    BY <1>1, <1>3, <2>0, <2>1, PairIgnores
  <2>9. AtLine(file, n + 1, new)
    <3>1. Continues(file, n + 2) <=> name # NoName
      BY <1>0, <1>5, <2>1 DEF AtLine, EndsValues, IsContinuation
    <3>. QED BY <1>2, <2>3, <2>4, <2>5, <3>1 DEF AtLine
  <2>10. Said(file, n + 1, first, new.maps, k)
    BY <2>3, <2>6, <2>7, <2>8 DEF Said
  <2>. QED BY <2>9, <2>10
<1>6. CASE ~ IsContinuation(at, line) /\ line.kind = "section"
  <2>0. Stands(file, n + 1) /\ file[n + 1].kind = "section"
    BY <1>1, <1>6 DEF IsContinuation, Stands, AtLine
  <2>1. new.section = line.name /\ new.prev_name = NoName /\ new.maps = at.maps
    BY <1>1, <1>6, SectionIsRead
  <2>2. SectionAt(file, n + 2) = line.name /\ NameAt(file, n + 1) = NoName
    BY <1>1, <2>0, AfterSection
  <2>3. RulesTo(file, n + 1, k) = RulesTo(file, n, k)
    BY <2>0, LineSaysNothing DEF Tells, PairLines
  <2>4. IgnoredTo(file, n + 1) = IgnoredTo(file, n)
    <3>1. PairLines(file, n + 1) = PairLines(file, n)
      BY <2>0 DEF PairLines
    <3>. QED BY <3>1 DEF IgnoredTo
  <2>5. AtLine(file, n + 1, new)
    <3>1. ~ Continues(file, n + 2)
      BY <1>0, <1>6 DEF AtLine, EndsValues, IsContinuation
    <3>. QED BY <1>2, <2>1, <2>2, <3>1 DEF AtLine
  <2>6. Said(file, n + 1, first, new.maps, k)
    BY <2>1, <2>3, <2>4 DEF Said
  <2>. QED BY <2>5, <2>6
<1>7. CASE ~ IsContinuation(at, line) /\ line.kind \notin {"section", "pair"}
  <2>1. new = at
    BY <1>1, <1>7, OtherIsSkipped
  <2>2. /\ NameAt(file, n + 1) = NameAt(file, n)
        /\ PairOf(file, n + 1) = IF line.indent /\ Before(file, n) # {}
                                 THEN {Latest(Before(file, n))} ELSE {}
        /\ IgnoredTo(file, n + 1) = IgnoredTo(file, n)
    BY <1>1, <1>7, AfterOther
  <2>3. SectionAt(file, n + 2) = section
    BY <1>1, <1>3, <1>7, SectionStays
  <2>4. RulesTo(file, n + 1, k) = RulesTo(file, n, k)
    <3>1. CASE PairOf(file, n + 1) = {} \/ line.kind # "text"
      <4>1. PairOf(file, n + 1) = {} \/ ~ Tells(file, n + 1)
        BY <1>1, <1>7, <3>1 DEF Tells, PairLines
      <4>. QED BY <4>1, LineSaysNothing
    <3>2. CASE PairOf(file, n + 1) # {} /\ line.kind = "text"
      <4>1. PICK p : p = Latest(Before(file, n))
        OBVIOUS
      <4>2. line.indent /\ Before(file, n) # {} /\ PairOf(file, n + 1) = {p}
        BY <2>2, <3>2, <4>1
      <4>3. file[p].name = NoName
        BY <1>7, <3>2, <4>1, <4>2 DEF IsContinuation, AtLine, NameAt
      <4>4. ~ IsRule(section, NoName, line.value)
        BY DEF IsRule, NoName
      <4>5. RuleOf(section, file[p].name, line.value, k) = {}
        BY <4>3, <4>4 DEF RuleOf
      <4>6. TellsOf(file, n + 1, p)
        BY <1>1, <3>2, <4>2 DEF TellsOf, Tells
      <4>7. RulesTo(file, n + 1, k)
              = RulesTo(file, n, k)
                  \cup RuleOf(SectionAt(file, n + 1), file[p].name, file[n + 1].value, k)
        BY <4>6, LineSays, Zenon
      <4>. QED BY <1>1, <1>3, <4>5, <4>7
    <3>. QED BY <1>7, <3>1, <3>2
  <2>5. AtLine(file, n + 1, new)
    <3>1. Continues(file, n + 2) <=> Continues(file, n + 1)
      BY <1>0, <1>7 DEF EndsValues
    <3>. QED BY <1>2, <1>3, <2>1, <2>2, <2>3, <3>1 DEF AtLine
  <2>6. Said(file, n + 1, first, new.maps, k)
    BY <2>1, <2>2, <2>4 DEF Said
  <2>. QED BY <2>5, <2>6
<1>. QED BY <1>4, <1>5, <1>6, <1>7
-----------------------------------------------------------------------------
(* Rules are numbered in the order they are made in; each is in one list.   *)
OneOwner(maps) ==
  /\ \A k \in Keys : Ids(RulesAtKey(maps, k)) \subseteq 1 .. maps.made
  /\ \A i \in 1 .. maps.made : \E k \in Keys : i \in Ids(RulesAtKey(maps, k))
  /\ \A j, k \in Keys : j # k => Ids(RulesAtKey(maps, j)) \cap Ids(RulesAtKey(maps, k)) = {}

LEMMA HandlerOwns ==
  ASSUME NEW maps \in Maps, NEW section, NEW name \in Names, NEW value \in Values,
         OneOwner(maps), NEW new, new = ini_handler(maps, section, name, value)
  PROVE  OneOwner(new)
<1>1. name \in Keys
  BY LinesAssumption DEF Names
<1>2. CASE section = "ignore_classes"
  <2>1. ASSUME NEW k \in Keys
        PROVE  new.made = maps.made /\ RulesAtKey(new, k) = RulesAtKey(maps, k)
    BY <1>2, HandlerIgnores
  <2>2. new.made = maps.made
    BY <1>1, <2>1
  <2>. QED BY <2>1, <2>2 DEF OneOwner
<1>3. CASE IsRule(section, name, value)
  <2>1. section = "ignore_referenced_by" /\ Front(name) \in Keys
    BY <1>3, LinesAssumption DEF IsRule, Names
  <2>2. PICK key \in Keys : key = Front(name)
    BY <2>1
  <2>3. PICK m \in Nat : m = maps.made
    BY MapsFacts
  <2>4. PICK rule : rule = Rule(m + 1, Last(name), value)
    OBVIOUS
  <2>5. rule \in RuleSet /\ rule.id = m + 1
    BY <2>3, <2>4, RuleTyped DEF Rule
  <2>6. ASSUME NEW k \in Keys
        PROVE  /\ new.made = m + 1
               /\ RulesAtKey(new, k) = IF k = key THEN <<rule>> \o RulesAtKey(maps, k)
                                       ELSE RulesAtKey(maps, k)
    BY <1>3, <2>1, <2>2, <2>3, <2>4, HandlerAddsRule
  <2>7. ASSUME NEW k \in Keys
        PROVE  Ids(RulesAtKey(new, k)) = Ids(RulesAtKey(maps, k))
                                           \cup IF k = key THEN {m + 1} ELSE {}
    <3>1. PICK old \in Seq(RuleSet) : old = RulesAtKey(maps, k)
      BY RulesAtKeyTyped
    <3>2. PICK list : list = <<rule>> \o old
      OBVIOUS
    <3>3. Ids(list) = Ids(old) \cup {rule.id}
      BY <2>5, <3>1, <3>2, OneMoreRule, Zenon
    <3>4. RulesAtKey(new, k) = IF k = key THEN list ELSE old
      BY <2>6, <3>1, <3>2
    <3>. QED BY <2>5, <3>1, <3>3, <3>4
  <2>8. new.made = m + 1
    BY <2>2, <2>6
  <2>9. ASSUME NEW k \in Keys PROVE Ids(RulesAtKey(new, k)) \subseteq 1 .. new.made
    <3>1. Ids(RulesAtKey(maps, k)) \subseteq 1 .. maps.made
      BY DEF OneOwner
    <3>. QED BY <2>3, <2>7, <2>8, <3>1
  <2>10. \A i \in 1 .. new.made : \E k \in Keys : i \in Ids(RulesAtKey(new, k))
    <3>. SUFFICES ASSUME NEW i \in 1 .. new.made
                  PROVE  \E k \in Keys : i \in Ids(RulesAtKey(new, k))
      OBVIOUS
    <3>1. CASE i = m + 1
      BY <2>2, <2>7, <3>1
    <3>2. CASE i # m + 1
      <4>1. i \in 1 .. maps.made
        BY <2>3, <2>8, <3>2
      <4>2. PICK k \in Keys : i \in Ids(RulesAtKey(maps, k))
        BY <4>1 DEF OneOwner
      <4>. QED BY <2>7, <4>2
    <3>. QED BY <3>1, <3>2
  <2>11. ASSUME NEW j \in Keys, NEW k \in Keys, j # k
         PROVE  Ids(RulesAtKey(new, j)) \cap Ids(RulesAtKey(new, k)) = {}
    <3>1. /\ Ids(RulesAtKey(maps, j)) \subseteq 1 .. m /\ Ids(RulesAtKey(maps, k)) \subseteq 1 .. m
          /\ Ids(RulesAtKey(maps, j)) \cap Ids(RulesAtKey(maps, k)) = {}
      BY <2>3, <2>11 DEF OneOwner
    <3>2. m + 1 \notin 1 .. m
      OBVIOUS
    <3>. QED BY <2>7, <2>11, <3>1, <3>2
  <2>. QED BY <2>9, <2>10, <2>11 DEF OneOwner
<1>4. CASE section # "ignore_classes" /\ ~ IsRule(section, name, value)
  BY <1>4, HandlerRefuses
<1>. QED BY <1>2, <1>3, <1>4

LEMMA ParseLineOwns ==
  ASSUME NEW at \in Reading, NEW line \in Lines, OneOwner(at.maps),
         NEW new, new = ParseLine(at, line)
  PROVE  OneOwner(new.maps)
<1>1. at.maps \in Maps /\ line.value \in Values /\ TextValue(line) \in Values
  BY DEF Reading, Values, TextValue
<1>2. CASE IsContinuation(at, line)
  <2>1. PICK m : m = ini_handler(at.maps, at.section, at.prev_name, TextValue(line))
    OBVIOUS
  <2>2. /\ at.prev_name \in Names
        /\ new = [section |-> at.section, prev_name |-> at.prev_name,
                  maps |-> ini_handler(at.maps, at.section, at.prev_name, TextValue(line))]
    BY <1>2, ContinuationIsHandled, Zenon
  <2>3. OneOwner(m)
    BY <1>1, <2>1, <2>2, HandlerOwns
  <2>. QED BY <2>1, <2>2, <2>3
<1>3. CASE ~ IsContinuation(at, line) /\ line.kind = "pair"
  <2>1. PICK m : m = ini_handler(at.maps, at.section, line.name, line.value)
    OBVIOUS
  <2>2. /\ line.name \in Names
        /\ new = [section |-> at.section, prev_name |-> line.name,
                  maps |-> ini_handler(at.maps, at.section, line.name, line.value)]
    BY <1>3, PairIsHandled, Zenon
  <2>3. OneOwner(m)
    BY <1>1, <2>1, <2>2, HandlerOwns
  <2>. QED BY <2>1, <2>2, <2>3
<1>4. CASE ~ IsContinuation(at, line) /\ line.kind = "section"
  <2>1. new = [section |-> line.name, prev_name |-> NoName, maps |-> at.maps]
    BY <1>4, SectionIsRead
  <2>. QED BY <2>1
<1>5. CASE ~ IsContinuation(at, line) /\ line.kind \notin {"section", "pair"}
  BY <1>5, OtherIsSkipped
<1>. QED BY <1>2, <1>3, <1>4, <1>5
-----------------------------------------------------------------------------
(* A file, read to some line, and one line more.                            *)
ReadTo(file, n, first, at) ==
  /\ at \in Reading
  /\ \A k \in Keys : AtLine(file, n, at) /\ Said(file, n, first, at.maps, k)
  /\ OneOwner(first) => OneOwner(at.maps)

LEMMA ReadToNext ==
  ASSUME NEW file \in Seq(Lines), NEW n \in Nat, n < Len(file), NEW first,
         NEW at, ReadTo(file, n, first, at), NEW new, new = ParseLine(at, file[n + 1])
  PROVE  ReadTo(file, n + 1, first, new)
<1>1. at \in Reading /\ file[n + 1] \in Lines
  <2>1. n + 1 \in 1 .. Len(file)
    OBVIOUS
  <2>. QED BY <2>1, ElementOfSeq DEF ReadTo
<1>2. new \in Reading
  BY <1>1, ParseLineTyped
<1>3. ASSUME NEW k \in Keys
      PROVE  AtLine(file, n + 1, new) /\ Said(file, n + 1, first, new.maps, k)
  <2>1. AtLine(file, n, at) /\ Said(file, n, first, at.maps, k)
    BY DEF ReadTo
  <2>. QED BY <1>1, <2>1, ParseLineSays, Zenon
<1>4. OneOwner(first) => OneOwner(new.maps)
  BY <1>1, ParseLineOwns DEF ReadTo
<1>. QED BY <1>2, <1>3, <1>4 DEF ReadTo

ParseStep == [at \in Reading |-> [line \in Lines |-> ParseLine(at, line)]]

(* What the whole file leaves.                                              *)
LEMMA FileIsRead ==
  ASSUME NEW file \in Seq(Lines), NEW maps \in Maps,
         NEW new, new = ini_parse_file(maps, file)
  PROVE  \E at : ReadTo(file, Len(file), maps, at) /\ new = at.maps
<1>. DEFINE start  == [section |-> NoSection, prev_name |-> NoName, maps |-> maps]
            Rec(f) == f = [n \in 0 .. Len(file) |-> IF n = 0 THEN start
                                                   ELSE ParseLine(f[n - 1], file[n])]
            f      == CHOOSE f : Rec(f)
<1>1. Len(file) \in Nat /\ \A i \in 1 .. Len(file) : file[i] \in Lines
  BY LenProperties, ElementOfSeq
<1>2. start \in Reading
  BY DEF Reading
<1>3. ParseStep \in [Reading -> [Lines -> Reading]]
  BY ParseLineTyped DEF ParseStep
<1>. HIDE DEF start
<1>4. PICK g \in [0 .. Len(file) -> Reading] : IsFold(g, Len(file), start, ParseStep, file)
  BY <1>1, <1>2, <1>3, FoldExists
<1>5. Rec(g)
  <2>1. \A n \in 0 .. Len(file) : g[n] = IF n = 0 THEN start ELSE ParseLine(g[n - 1], file[n])
    <3>. SUFFICES ASSUME NEW n \in 1 .. Len(file) PROVE g[n] = ParseLine(g[n - 1], file[n])
      BY <1>4 DEF IsFold
    <3>1. g[n - 1] \in Reading /\ file[n] \in Lines
      BY <1>1
    <3>2. ParseStep[g[n - 1]][file[n]] = ParseLine(g[n - 1], file[n])
      BY <3>1 DEF ParseStep
    <3>. QED BY <1>4, <3>2 DEF IsFold
  <2>. QED BY <2>1
<1>6. Rec(f)
  <2>. HIDE DEF Rec
  <2>. QED BY <1>5
<1>. HIDE DEF f
<1>7. f[0] = start /\ \A n \in 1 .. Len(file) : f[n] = ParseLine(f[n - 1], file[n])
  BY <1>1, <1>6
<1>8. new = f[Len(file)].maps
  BY DEF ini_parse_file, f, start
<1>. HIDE DEF Rec
<1>. DEFINE N == {n \in Nat : n <= Len(file) => ReadTo(file, n, maps, f[n])}
<1>9. 0 \in N
  <2>1. PICK at : at = start
    OBVIOUS
  <2>2. at.section = NoSection /\ at.prev_name = NoName /\ at.maps = maps
    BY <2>1 DEF start
  <2>3. SectionLines(file, 0 + 1) = {} /\ PairLines(file, 0) = {}
    BY DEF SectionLines, PairLines
  <2>4. AtLine(file, 0, at)
    <3>1. NameAt(file, 0) = NoName /\ SectionAt(file, 0 + 1) = NoSection
      BY <2>3 DEF SectionAt, NameAt, Before
    <3>2. ~ Continues(file, 0 + 1)
      BY DEF Continues
    <3>. QED BY <2>2, <3>1, <3>2 DEF AtLine
  <2>5. ASSUME NEW k \in Keys PROVE Said(file, 0, maps, at.maps, k)
    <3>1. IgnoredTo(file, 0) = {}
      BY <2>3 DEF IgnoredTo
    <3>2. RulesTo(file, 0, k) = {}
      BY DEF RulesTo, RuleLines
    <3>. QED BY <2>2, <3>1, <3>2 DEF Said
  <2>6. ReadTo(file, 0, maps, at)
    BY <1>2, <2>1, <2>2, <2>4, <2>5 DEF ReadTo
  <2>. QED BY <1>7, <2>1, <2>6
<1>10. ASSUME NEW n \in Nat, n \in N PROVE n + 1 \in N
  <2>. SUFFICES ASSUME n < Len(file) PROVE ReadTo(file, n + 1, maps, f[n + 1])
    BY <1>1
  <2>1. ReadTo(file, n, maps, f[n])
    BY <1>1, <1>10
  <2>2. f[n + 1] = ParseLine(f[n], file[n + 1])
    <3>1. n + 1 \in 1 .. Len(file) /\ n + 1 - 1 = n
      BY <1>1
    <3>. QED BY <1>7, <3>1
  <2>. QED BY <2>1, <2>2, ReadToNext
<1>11. Nat \subseteq N
  <2>. HIDE DEF N
  <2>. QED BY <1>9, <1>10, Induction
<1>12. ReadTo(file, Len(file), maps, f[Len(file)])
  BY <1>1, <1>11
<1>. QED BY <1>8, <1>12

(* What a file says by itself.                                              *)
NamesIn(file) ==
  {file[n].name : n \in {m \in PairLines(file, Len(file)) : InSection(file, m, "ignore_classes")}}

RulesInFile(file, k) ==
  UNION {{<<Last(file[p].name), file[n].value>> : p \in PairOf(file, n)} : n \in RuleLines(file, k)}

LEMMA FileSays ==
  ASSUME NEW file \in Seq(Lines), NEW maps \in Maps, NEW k \in Keys,
         NEW new, new = ini_parse_file(maps, file)
  PROVE  /\ new \in Maps /\ (OneOwner(maps) => OneOwner(new))
         /\ Ignores(new, k) <=> Ignores(maps, k) \/ k \in NamesIn(file)
         /\ Contents(RulesAtKey(new, k)) = Contents(RulesAtKey(maps, k)) \cup RulesInFile(file, k)
<1>1. PICK at : ReadTo(file, Len(file), maps, at) /\ new = at.maps
  BY FileIsRead
<1>2. IgnoredTo(file, Len(file)) = NamesIn(file)
  BY DEF IgnoredTo, NamesIn
<1>3. RulesTo(file, Len(file), k) = RulesInFile(file, k)
  <2>1. {i \in RuleLines(file, k) : i <= Len(file)} = RuleLines(file, k)
    BY DEF RuleLines
  <2>. QED BY <2>1 DEF RulesTo, RulesInFile
<1>. QED BY <1>1, <1>2, <1>3 DEF ReadTo, Reading, Said

(* The maps after n files.                                                  *)
LoadedTo(files, n, maps) ==
  /\ maps \in Maps /\ OneOwner(maps)
  /\ \A k \in Keys :
       /\ Ignores(maps, k) <=> \E i \in 1 .. n : k \in NamesIn(files[i])
       /\ Contents(RulesAtKey(maps, k)) = UNION {RulesInFile(files[i], k) : i \in 1 .. n}

LEMMA NoMapsFacts ==
  /\ NoMaps \in Maps /\ OneOwner(NoMaps)
  /\ \A k \in Keys : ~ Ignores(NoMaps, k) /\ RulesAtKey(NoMaps, k) = <<>>
<1>1. NoMaps \in Maps
  <2>1. IsMap(sm_new, {TRUE}) /\ IsMap(sm_new, Seq(RuleSet))
    BY NewIsEmpty
  <2>2. [ignore_classes |-> sm_new, ignore_referenced_by |-> sm_new, made |-> 0] \in Maps
    BY <2>1, MapsAre
  <2>. QED BY <2>2 DEF NoMaps
<1>2. ASSUME NEW k \in Keys PROVE ~ Ignores(NoMaps, k) /\ RulesAtKey(NoMaps, k) = <<>>
  <2>1. \A res : sm_get(sm_new, k, res) = res
    BY NewIsEmpty
  <2>2. NoMaps.ignore_classes = sm_new /\ NoMaps.ignore_referenced_by = sm_new
    BY DEF NoMaps
  <2>3. sm_get(sm_new, k, FALSE) = FALSE /\ sm_get(sm_new, k, <<>>) = <<>>
    BY <2>1, Zenon
  <2>4. ~ Ignores(NoMaps, k)
    BY <2>2, <2>3, Zenon DEF Ignores
  <2>. QED BY <2>2, <2>3, <2>4, Zenon DEF RulesAtKey
<1>3. OneOwner(NoMaps)
  <2>1. NoMaps.made = 0
    BY DEF NoMaps
  <2>2. ASSUME NEW k \in Keys PROVE Ids(RulesAtKey(NoMaps, k)) = {}
    BY <1>2 DEF Ids
  <2>. QED BY <2>1, <2>2 DEF OneOwner
<1>. QED BY <1>1, <1>2, <1>3

LEMMA LoadedToNext ==
  ASSUME NEW files \in Seq(Seq(Lines)), NEW n \in Nat, n < Len(files),
         NEW maps, LoadedTo(files, n, maps),
         NEW new, new = ini_parse_file(maps, files[n + 1])
  PROVE  LoadedTo(files, n + 1, new)
<1>1. PICK file \in Seq(Lines) : file = files[n + 1]
  <2>1. n + 1 \in 1 .. Len(files)
    OBVIOUS
  <2>. QED BY <2>1, ElementOfSeq
<1>2. maps \in Maps /\ OneOwner(maps)
  BY DEF LoadedTo
<1>3. 1 .. n + 1 = (1 .. n) \cup {n + 1}
  OBVIOUS
<1>4. new \in Maps /\ OneOwner(new)
  <2>1. PICK at : ReadTo(file, Len(file), maps, at) /\ new = at.maps
    BY <1>1, <1>2, FileIsRead
  <2>. QED BY <1>2, <2>1 DEF ReadTo, Reading
<1>5. ASSUME NEW k \in Keys
      PROVE  /\ Ignores(new, k) <=> \E i \in 1 .. n + 1 : k \in NamesIn(files[i])
             /\ Contents(RulesAtKey(new, k)) = UNION {RulesInFile(files[i], k) : i \in 1 .. n + 1}
  <2>1. /\ Ignores(new, k) <=> Ignores(maps, k) \/ k \in NamesIn(file)
        /\ Contents(RulesAtKey(new, k)) = Contents(RulesAtKey(maps, k)) \cup RulesInFile(file, k)
    BY <1>1, <1>2, FileSays
  <2>2. /\ Ignores(maps, k) <=> \E i \in 1 .. n : k \in NamesIn(files[i])
        /\ Contents(RulesAtKey(maps, k)) = UNION {RulesInFile(files[i], k) : i \in 1 .. n}
    BY DEF LoadedTo
  <2>3. UNION {RulesInFile(files[i], k) : i \in 1 .. n + 1}
          = (UNION {RulesInFile(files[i], k) : i \in 1 .. n}) \cup RulesInFile(file, k)
    BY <1>1, <1>3
  <2>. QED BY <1>1, <1>3, <2>1, <2>2, <2>3
<1>. QED BY <1>4, <1>5 DEF LoadedTo

FileStep == [maps \in Maps |-> [file \in Seq(Lines) |-> ini_parse_file(maps, file)]]

LEMMA AllFilesAreRead ==
  ASSUME NEW files \in Seq(Seq(Lines))
  PROVE  LoadedTo(files, Len(files), LoadRules(files))
<1>. DEFINE Rec(f) == f = [n \in 0 .. Len(files) |-> IF n = 0 THEN NoMaps
                                                    ELSE ini_parse_file(f[n - 1], files[n])]
            f      == CHOOSE f : Rec(f)
<1>1. Len(files) \in Nat /\ \A i \in 1 .. Len(files) : files[i] \in Seq(Lines)
  BY LenProperties, ElementOfSeq
<1>2. NoMaps \in Maps
  BY NoMapsFacts
<1>3. FileStep \in [Maps -> [Seq(Lines) -> Maps]]
  <2>1. ASSUME NEW maps \in Maps, NEW file \in Seq(Lines)
        PROVE  ini_parse_file(maps, file) \in Maps
    <3>1. PICK new : new = ini_parse_file(maps, file)
      OBVIOUS
    <3>2. PICK at : ReadTo(file, Len(file), maps, at) /\ new = at.maps
      BY <3>1, FileIsRead
    <3>. QED BY <3>1, <3>2 DEF ReadTo, Reading
  <2>. QED BY <2>1 DEF FileStep
<1>4. PICK g \in [0 .. Len(files) -> Maps] : IsFold(g, Len(files), NoMaps, FileStep, files)
  BY <1>1, <1>2, <1>3, FoldExists
<1>5. Rec(g)
  <2>1. \A n \in 0 .. Len(files) :
          g[n] = IF n = 0 THEN NoMaps ELSE ini_parse_file(g[n - 1], files[n])
    <3>. SUFFICES ASSUME NEW n \in 1 .. Len(files)
                  PROVE  g[n] = ini_parse_file(g[n - 1], files[n])
      BY <1>4 DEF IsFold
    <3>1. g[n - 1] \in Maps /\ files[n] \in Seq(Lines)
      <4>1. n - 1 \in 0 .. Len(files)
        BY <1>1
      <4>2. files[n] \in Seq(Lines)
        BY <1>1, Zenon
      <4>. QED BY <4>1, <4>2
    <3>2. FileStep[g[n - 1]][files[n]] = ini_parse_file(g[n - 1], files[n])
      BY <3>1 DEF FileStep
    <3>. QED BY <1>4, <3>2 DEF IsFold
  <2>. QED BY <2>1
<1>6. Rec(f)
  <2>. HIDE DEF Rec
  <2>. QED BY <1>5
<1>. HIDE DEF f
<1>7. f[0] = NoMaps /\ \A n \in 1 .. Len(files) : f[n] = ini_parse_file(f[n - 1], files[n])
  BY <1>1, <1>6
<1>8. LoadRules(files) = f[Len(files)]
  BY DEF LoadRules, f
<1>. HIDE DEF Rec
<1>. DEFINE N == {n \in Nat : n <= Len(files) => LoadedTo(files, n, f[n])}
<1>9. 0 \in N
  <2>1. 1 .. 0 = {}
    OBVIOUS
  <2>2. Contents(<<>>) = {}
    BY DEF Contents
  <2>3. LoadedTo(files, 0, NoMaps)
    BY <2>1, <2>2, NoMapsFacts DEF LoadedTo
  <2>. QED BY <1>7, <2>3
<1>10. ASSUME NEW n \in Nat, n \in N PROVE n + 1 \in N
  <2>. SUFFICES ASSUME n < Len(files) PROVE LoadedTo(files, n + 1, f[n + 1])
    BY <1>1
  <2>1. LoadedTo(files, n, f[n])
    BY <1>1, <1>10
  <2>2. f[n + 1] = ini_parse_file(f[n], files[n + 1])
    <3>1. n + 1 \in 1 .. Len(files) /\ n + 1 - 1 = n
      BY <1>1
    <3>. QED BY <1>7, <3>1
  <2>. QED BY <2>1, <2>2, LoadedToNext
<1>11. Nat \subseteq N
  <2>. HIDE DEF N
  <2>. QED BY <1>9, <1>10, Induction
<1>. QED BY <1>1, <1>8, <1>11

(* The maps that are loaded hold what the files say: whatever the files     *)
(* hold, in however many parts a section or the rules of a class come, a    *)
(* line adds to the maps what reading the files by themselves finds in it,  *)
(* and a line that is wrong nothing (ini.c:62-160, jleaker.c:91-139,        *)
(* 273-285).                                                                *)
THEOREM RulesAreTheFiles ==
  ASSUME NEW files \in Seq(Seq(Lines)), NEW k \in Keys
  PROVE  /\ Ignores(LoadRules(files), k) <=> k \in IgnoredNames(files)
         /\ Contents(RulesAtKey(LoadRules(files), k)) = RulesFor(files, k)
<1>1. PICK maps : maps = LoadRules(files)
  OBVIOUS
<1>2. LoadedTo(files, Len(files), maps)
  BY <1>1, AllFilesAreRead
<1>3. ToSet(files) = {files[i] : i \in 1 .. Len(files)}
  <2>1. DOMAIN files = 1 .. Len(files)
    OBVIOUS
  <2>. QED BY <2>1, Zenon DEF ToSet
<1>4. k \in IgnoredNames(files) <=> \E i \in 1 .. Len(files) : k \in NamesIn(files[i])
  <2>1. IgnoredNames(files) = UNION {NamesIn(file) : file \in ToSet(files)}
    BY Zenon DEF IgnoredNames, NamesIn
  <2>. QED BY <1>3, <2>1
<1>5. RulesFor(files, k) = UNION {RulesInFile(files[i], k) : i \in 1 .. Len(files)}
  <2>1. RulesFor(files, k) = UNION {RulesInFile(file, k) : file \in ToSet(files)}
    BY Zenon DEF RulesFor, RulesInFile
  <2>2. {RulesInFile(file, k) : file \in ToSet(files)}
          = {RulesInFile(files[i], k) : i \in 1 .. Len(files)}
    BY <1>3
  <2>. QED BY <2>1, <2>2
<1>. QED BY <1>1, <1>2, <1>4, <1>5 DEF LoadedTo

(* Each rule that loading allocates is in the list of one class, and lists  *)
(* hold no others: a rule that is refused is not allocated, and one that is *)
(* added is linked once (jleaker.c:97-137).                                 *)
THEOREM RulesAreLoadedOnce ==
  ASSUME NEW files \in Seq(Seq(Lines))
  PROVE  LoadRules(files) \in Maps /\ OneOwner(LoadRules(files))
BY AllFilesAreRead DEF LoadedTo
===============================================================================
