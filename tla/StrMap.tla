-------------------------------- MODULE StrMap --------------------------------
(***************************************************************************)
(* The hash map of strmap.c, as operators.  A map is the array of its      *)
(* buckets, a bucket the sequence of its pairs; a new key goes to the end  *)
(* of its bucket, a key that is there has its value replaced.              *)
(*                                                                         *)
(* Keys are compared as a whole, so strings are values of the set Keys and *)
(* the hash of each is given.  Allocation does not fail here.              *)
(***************************************************************************)
EXTENDS Integers, Sequences

CONSTANTS
  Keys,
  hash,                   (* The hash of each key.                          *)
  Capacity                (* Number of buckets.                             *)

ASSUME MapAssumption ==
  /\ Capacity \in Nat \ {0}
  /\ hash \in [Keys -> Nat]

Pair(key, value) == [key |-> key, value |-> value]

sm_new == [i \in 0 .. (Capacity - 1) |-> <<>>]

(* The bucket of a key.                                                     *)
index(key) == hash[key] % Capacity

(* Pair i of the bucket has the key.                                        *)
Holds(bucket, key, i) == i \in DOMAIN bucket /\ bucket[i].key = key

(* The position of the first pair with the key; 0 stands for NULL.          *)
get_pair(bucket, key) ==
  IF \E i \in DOMAIN bucket : Holds(bucket, key, i)
  THEN CHOOSE i \in DOMAIN bucket :
         /\ Holds(bucket, key, i)
         /\ \A j \in DOMAIN bucket : Holds(bucket, key, j) => i <= j
  ELSE 0

sm_exists(map, key) == get_pair(map[index(key)], key) # 0

(* The result, and what the caller's variable keeps when there is none.     *)
sm_get(map, key, res) ==
  IF sm_exists(map, key) THEN map[index(key)][get_pair(map[index(key)], key)].value
  ELSE res

sm_put(map, key, value) ==
  LET bucket == map[index(key)]
      i      == get_pair(bucket, key)
  IN  [map EXCEPT ![index(key)] =
         IF i # 0 THEN [bucket EXCEPT ![i] = Pair(key, value)]
         ELSE Append(bucket, Pair(key, value))]

(* The values that sm_delete hands to the map's free_func.                  *)
sm_delete(map) == UNION {{map[b][i].value : i \in DOMAIN map[b]} : b \in DOMAIN map}
===============================================================================
