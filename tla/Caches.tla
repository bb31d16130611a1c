------------------------------- MODULE Caches ------------------------------
(***************************************************************************)
(* The server's bounded in-memory tables.                                  *)
(*                                                                         *)
(*   reasoningcache  the reasoning of past assistant turns, found again    *)
(*                   by a tool call's id or by the turn's hash, evicted by *)
(*                   age and by number;                                    *)
(*   schemaCache     normalised tool schemas, least recently used out;     *)
(*   ratelimit       a token bucket for each client address.               *)
(*                                                                         *)
(* They share nothing but the clock: MCDesk lets one of them move in a     *)
(* behaviour.                                                              *)
(***************************************************************************)
EXTENDS Integers, Sequences, FiniteSets, SequencesExt, Positions

CONSTANTS Turns,          \* assistant turns: [content, calls], calls a sequence of call identities [id, args]
          Shapes,         \* the JSON shapes a turn's calls are written in
          MaxReasoning,   \* maxEntries
          ReasoningTTL,
          MaxPuts,        \* turns ever stored
          Replays,        \* requests that replay a turn
          Schemas,        \* schema cache keys
          SchemaMax,      \* schemaCacheMax
          Normalizers,    \* requests that normalise schemas
          MaxMisses,      \* schemas normalised in a behaviour
          Clients,        \* client addresses
          Rates,          \* configured [rate, burst], the rate in fractions of a request per tick
          Token,          \* how many fractions make one request
          MaxClients,     \* maxEntries of the limiter
          StaleAfter,     \* how long an address is remembered in a full table
          MaxCacheClock

NoContent == "none"
NoShape == "none"
NoKey == << >>

ASSUME ReasoningAssumption ==
  /\ \A turn \in Turns : turn.calls \in Seq(ToSet(turn.calls))
  /\ NoShape \notin Shapes
  /\ MaxReasoning \in Nat \ {0} /\ ReasoningTTL \in Nat /\ MaxPuts \in Nat

ASSUME SchemaAssumption ==
  /\ NoKey \notin Schemas
  /\ SchemaMax \in Nat \ {0} /\ MaxMisses \in Nat

\* A limited address may burst one request at least (New, SetRate); the rates are
\* finitely many, so that one of them is the highest.
ASSUME LimiterAssumption ==
  /\ Token \in Nat \ {0} /\ StaleAfter \in Nat /\ MaxCacheClock \in Nat
  /\ \A l \in Rates : l.rate \in Nat /\ l.burst \in Nat /\ (l.rate > 0 => l.burst >= 1)
  /\ \E top \in Rates : \A l \in Rates : l.rate <= top.rate
  /\ \E top \in Rates : \A l \in Rates : l.burst <= top.burst

VARIABLES
  cacheClock,
  stored,     \* number -> [turn, ids, hash, bind, created]: every entry ever put
  lru,        \* the numbers of the entries held, newest first
  byToolID,   \* call id -> entry
  byHash,     \* [content, shape, calls] -> entry
  replay,     \* request -> [at, turn, shape, key, found]
  schemas,    \* the keys cached
  order,      \* the keys, most recently used last
  normalizer, \* request -> the key it is normalising
  misses,
  limit,      \* the rate and burst in force
  buckets,    \* client -> [tokens, seen]
  spent,      \* client -> [since, grants], from the making of its bucket
  refused     \* client -> when its last refusal told it to come back

reasoningVars == <<stored, lru, byToolID, byHash, replay>>
schemaVars == <<schemas, order, normalizer, misses>>
limiterVars == <<limit, buckets, spent, refused>>
cachesVars == <<cacheClock, reasoningVars, schemaVars, limiterVars>>

Empty == [k \in {} |-> 0]
Waiting == [at |-> "idle"]
Set(m, k, v) == [x \in DOMAIN m \cup {k} |-> IF x = k THEN v ELSE m[x]]
Drop(m, ks) == [x \in DOMAIN m \ ks |-> m[x]]

CachesInit ==
  /\ cacheClock = 1
  /\ stored = << >> /\ lru = << >> /\ byToolID = Empty /\ byHash = Empty
  /\ replay = [r \in Replays |-> Waiting]
  /\ schemas = {} /\ order = << >> /\ normalizer = [n \in Normalizers |-> NoKey] /\ misses = 0
  /\ limit \in Rates /\ buckets = Empty /\ spent = Empty /\ refused = Empty

CacheTick ==
  /\ cacheClock < MaxCacheClock /\ cacheClock' = cacheClock + 1
  /\ UNCHANGED <<reasoningVars, schemaVars, limiterVars>>

-----------------------------------------------------------------------------
(* reasoningcache *)

IdsOf(turn) == {turn.calls[i].id : i \in DOMAIN turn.calls}

(* The identity of the calls whatever JSON shape they came in; without an   *)
(* id a call has none.                                                      *)
CanonicalToolKey(calls) == Picked(calls, {i \in DOMAIN calls : calls[i].id /= NoContent})
bindKeyFor(content, canonical) ==
  IF content = NoContent /\ canonical = << >> THEN NoKey ELSE <<content, canonical>>
hashKey(content, shape, calls) ==
  IF content = NoContent /\ shape = NoShape THEN NoKey ELSE <<content, shape, IF shape = NoShape THEN << >> ELSE calls>>

Expired(n) == cacheClock - stored[n].created > ReasoningTTL

\* Whatever the indexes hold by now under their keys is dropped.
evictNodesOwn(ns) ==
  [lru |-> KeptAmong(lru, ToSet(lru) \ ns),
   ids |-> Drop(byToolID, UNION {stored[n].ids : n \in ns}),
   hashes |-> Drop(byHash, {stored[n].hash : n \in ns})]

(* An index entry that another put has taken over in the meantime stays.    *)
evictNodes(ns) ==
  [lru |-> KeptAmong(lru, ToSet(lru) \ ns),
   ids |-> Drop(byToolID, {id \in DOMAIN byToolID : byToolID[id] \in ns /\ id \in stored[byToolID[id]].ids}),
   hashes |-> Drop(byHash, {k \in DOMAIN byHash : byHash[k] \in ns /\ stored[byHash[k]].hash = k})]

(* From the oldest on: the expired ones, then as many as the bound wants.   *)
Evicted ==
  LET old == {i \in DOMAIN lru : \A j \in i..Len(lru) : Expired(lru[j])}
      left == Len(lru) - Cardinality(old)
      keep == IF left >= MaxReasoning THEN MaxReasoning - 1 ELSE left
  IN  evictNodes({lru[i] : i \in (keep + 1)..Len(lru)})

(* A relay stores a turn: with the raw JSON of its calls, or (a stream) with *)
(* their identity only, which leaves its hash to the content alone.         *)
put(turn, shape) ==
  LET n == Len(stored) + 1
      hash == hashKey(turn.content, shape, turn.calls)
      kept == Evicted
  IN  /\ n <= MaxPuts
      /\ stored' = Append(stored, [turn |-> turn, ids |-> IdsOf(turn) \ {NoContent}, hash |-> hash,
                                   bind |-> bindKeyFor(turn.content, CanonicalToolKey(turn.calls)), created |-> cacheClock])
      /\ lru' = <<n>> \o kept.lru
      /\ byToolID' = [id \in DOMAIN kept.ids \cup (IdsOf(turn) \ {NoContent}) |-> IF id \in IdsOf(turn) THEN n ELSE kept.ids[id]]
      /\ byHash' = IF hash = NoKey THEN kept.hashes ELSE Set(kept.hashes, hash, n)
      /\ UNCHANGED <<cacheClock, replay, schemaVars, limiterVars>>

(* A request replays a turn: for each call the id, bound to the turn, then  *)
(* the hash.                                                                *)
normalizeMessages(r, turn, shape) ==
  /\ replay[r].at /= "evict" /\ turn.calls /= << >>
  /\ replay' = [replay EXCEPT ![r] = [at |-> "look", turn |-> turn, shape |-> shape, call |-> 1, found |-> 0]]
  /\ UNCHANGED <<cacheClock, stored, lru, byToolID, byHash, schemaVars, limiterVars>>

Asked(r) == replay[r].turn
LookingUp(r) == replay[r].at = "look" /\ replay[r].call <= Len(Asked(r).calls)
CallID(r) == Asked(r).calls[replay[r].call].id
Step(r) == [replay EXCEPT ![r].call = @ + 1]

\* The id alone decides.
boundToAnything(n, r) == TRUE

bound(n, r) == stored[n].bind = NoKey \/ stored[n].bind = bindKeyFor(Asked(r).content, CanonicalToolKey(Asked(r).calls))

getByToolIDBound(r) ==
  /\ LookingUp(r) /\ CallID(r) \in DOMAIN byToolID /\ ~Expired(byToolID[CallID(r)])
  /\ LET n == byToolID[CallID(r)] IN
     replay' = IF bound(n, r) THEN [replay EXCEPT ![r].at = "found", ![r].found = n] ELSE Step(r)
  /\ UNCHANGED <<cacheClock, stored, lru, byToolID, byHash, schemaVars, limiterVars>>

ToolIDMissed(r) ==
  /\ LookingUp(r) /\ CallID(r) \notin DOMAIN byToolID
  /\ replay' = Step(r)
  /\ UNCHANGED <<cacheClock, stored, lru, byToolID, byHash, schemaVars, limiterVars>>

(* An expired entry is a miss; the read lock is given up for the write lock *)
(* before it is evicted.                                                    *)
ToolIDExpired(r) ==
  /\ LookingUp(r) /\ CallID(r) \in DOMAIN byToolID /\ Expired(byToolID[CallID(r)])
  /\ replay' = [replay EXCEPT ![r].at = "evict"]
  /\ UNCHANGED <<cacheClock, stored, lru, byToolID, byHash, schemaVars, limiterVars>>

lookupByToolID(r) ==
  LET id == CallID(r) IN
  /\ replay[r].at = "evict"
  /\ IF id \in DOMAIN byToolID /\ Expired(byToolID[id])
     THEN LET kept == evictNodes({byToolID[id]})
          IN  lru' = kept.lru /\ byToolID' = kept.ids /\ byHash' = kept.hashes
     ELSE UNCHANGED <<lru, byToolID, byHash>>
  /\ replay' = [replay EXCEPT ![r].at = "look", ![r].call = @ + 1]
  /\ UNCHANGED <<cacheClock, stored, schemaVars, limiterVars>>

(* An expired entry is evicted under the write lock here too: nobody else   *)
(* looks at the key in between that would not find it expired as well.      *)
GetByHash(r) ==
  LET k == hashKey(Asked(r).content, replay[r].shape, Asked(r).calls)
      hit == k \in DOMAIN byHash
  IN  /\ replay[r].at = "look" /\ ~LookingUp(r)
      /\ IF hit /\ Expired(byHash[k])
         THEN LET kept == evictNodes({byHash[k]})
              IN  lru' = kept.lru /\ byToolID' = kept.ids /\ byHash' = kept.hashes
         ELSE UNCHANGED <<lru, byToolID, byHash>>
      /\ replay' = [replay EXCEPT ![r] = IF hit /\ ~Expired(byHash[k]) THEN [@ EXCEPT !.at = "found", !.found = byHash[k]] ELSE Waiting]
      /\ UNCHANGED <<cacheClock, stored, schemaVars, limiterVars>>

ReasoningNext ==
  \/ CacheTick
  \/ \E turn \in Turns, shape \in Shapes \cup {NoShape} : put(turn, shape)
  \/ \E r \in Replays, turn \in Turns, shape \in Shapes : normalizeMessages(r, turn, shape)
  \/ \E r \in Replays : getByToolIDBound(r) \/ ToolIDMissed(r) \/ ToolIDExpired(r) \/ lookupByToolID(r) \/ GetByHash(r)

-----------------------------------------------------------------------------
(* schemaCache *)

schemaCacheGet(n, k) ==
  /\ normalizer[n] = NoKey /\ k \in schemas
  /\ order' = Append(KeptAmong(order, ToSet(order) \ {k}), k)
  /\ UNCHANGED <<cacheClock, reasoningVars, limiterVars, schemas, normalizer, misses>>

schemaCacheMiss(n, k) ==
  /\ normalizer[n] = NoKey /\ k \notin schemas /\ misses < MaxMisses
  /\ normalizer' = [normalizer EXCEPT ![n] = k] /\ misses' = misses + 1
  /\ UNCHANGED <<cacheClock, reasoningVars, limiterVars, schemas, order>>

\* A key that another request has stored since the miss is stored again.
schemaCachePutAgain(n) ==
  LET full == Cardinality(schemas) >= SchemaMax IN
  /\ normalizer[n] /= NoKey /\ normalizer' = [normalizer EXCEPT ![n] = NoKey]
  /\ schemas' = (IF full THEN schemas \ {Head(order)} ELSE schemas) \cup {normalizer[n]}
  /\ order' = Append(IF full THEN Tail(order) ELSE order, normalizer[n])
  /\ UNCHANGED <<cacheClock, reasoningVars, limiterVars, misses>>

schemaCachePut(n) ==
  LET full == Cardinality(schemas) >= SchemaMax IN
  /\ normalizer[n] /= NoKey /\ normalizer' = [normalizer EXCEPT ![n] = NoKey]
  /\ IF normalizer[n] \in schemas THEN UNCHANGED <<schemas, order>>
     ELSE /\ schemas' = (IF full THEN schemas \ {Head(order)} ELSE schemas) \cup {normalizer[n]}
          /\ order' = Append(IF full THEN Tail(order) ELSE order, normalizer[n])
  /\ UNCHANGED <<cacheClock, reasoningVars, limiterVars, misses>>

SchemaNext ==
  \E n \in Normalizers : schemaCachePut(n) \/ \E k \in Schemas : schemaCacheGet(n, k) \/ schemaCacheMiss(n, k)

-----------------------------------------------------------------------------
(* ratelimit *)

CeilDiv(a, b) == (a + b - 1) \div b
Least(a, b) == IF a < b THEN a ELSE b
Refilled(c) == Least(limit.burst * Token, buckets[c].tokens + (cacheClock - buckets[c].seen) * limit.rate)

(* Stale addresses go; if that is not enough, any half of the table.        *)
pruneOldest ==
  LET fresh == Drop(buckets, {c \in DOMAIN buckets : buckets[c].seen < cacheClock - StaleAfter})
      size == Cardinality(DOMAIN fresh)
      drop == IF size \div 2 = 0 THEN 1 ELSE size \div 2
  IN  IF Cardinality(DOMAIN buckets) < MaxClients THEN {buckets}
      ELSE IF size < MaxClients THEN {fresh}
      ELSE {Drop(fresh, gone) : gone \in {g \in SUBSET DOMAIN fresh : Cardinality(g) = drop}}

(* A new address starts with a full bucket less one; the bookkeeping of the *)
(* addresses that were dropped goes with them.                              *)
AllowNew(c) ==
  /\ limit.rate > 0 /\ c \notin DOMAIN buckets
  /\ \E kept \in pruneOldest :
       /\ buckets' = Set(kept, c, [tokens |-> limit.burst * Token - Token, seen |-> cacheClock])
       /\ spent' = Set(Drop(spent, DOMAIN spent \ DOMAIN kept), c, [since |-> cacheClock, grants |-> 1])
       /\ refused' = Drop(refused, DOMAIN refused \ DOMAIN kept)
  /\ UNCHANGED <<cacheClock, reasoningVars, schemaVars, limit>>

Allow(c) ==
  /\ limit.rate > 0 /\ c \in DOMAIN buckets /\ Refilled(c) >= Token
  /\ buckets' = [buckets EXCEPT ![c] = [tokens |-> Refilled(c) - Token, seen |-> cacheClock]]
  /\ spent' = [spent EXCEPT ![c].grants = @ + 1]
  /\ refused' = Drop(refused, {c})
  /\ UNCHANGED <<cacheClock, reasoningVars, schemaVars, limit>>

\* Rounded to the nearest tick below.
retryAfterFloor(missing) == IF missing \div limit.rate < 1 THEN 1 ELSE missing \div limit.rate

retryAfter(missing) == IF CeilDiv(missing, limit.rate) < 1 THEN 1 ELSE CeilDiv(missing, limit.rate)

Refuse(c) ==
  /\ limit.rate > 0 /\ c \in DOMAIN buckets /\ Refilled(c) < Token
  /\ buckets' = [buckets EXCEPT ![c] = [tokens |-> Refilled(c), seen |-> cacheClock]]
  /\ refused' = Set(refused, c, cacheClock + retryAfter(Token - Refilled(c)))
  /\ UNCHANGED <<cacheClock, reasoningVars, schemaVars, limit, spent>>

(* A reload.  What the addresses hold stays; the next refill is capped.     *)
SetRate(l) ==
  /\ l /= limit /\ limit' = l
  /\ refused' = Empty
  /\ UNCHANGED <<cacheClock, reasoningVars, schemaVars, buckets, spent>>

LimiterNext ==
  \/ CacheTick
  \/ \E c \in Clients : AllowNew(c) \/ Allow(c) \/ Refuse(c)
  \/ \E l \in Rates : SetRate(l)

CachesNext == ReasoningNext \/ SchemaNext \/ LimiterNext
CachesSpec == CachesInit /\ [][CachesNext]_cachesVars

-----------------------------------------------------------------------------
(* The reasoning restored into a replayed turn with tool calls was stored   *)
(* for a turn of the same content and the same calls, whatever ids other    *)
(* conversations have used for theirs.                                      *)
RestoredOwn ==
  \A r \in Replays : replay[r].at = "found" =>
    LET t == stored[replay[r].found].turn
    IN  t.content = Asked(r).content /\ CanonicalToolKey(t.calls) = CanonicalToolKey(Asked(r).calls)

(* Through every eviction, by age, by number or by a reader that found the  *)
(* entry expired and came back for it after a put: the indexes lead to      *)
(* entries that are held, and the newest turn with a call id, unless it is  *)
(* expired or has been pushed out, is the one found under that id.          *)
ReasoningIndexed ==
  /\ \A id \in DOMAIN byToolID : Contains(lru, byToolID[id]) /\ id \in stored[byToolID[id]].ids
  /\ \A k \in DOMAIN byHash : Contains(lru, byHash[k])
  /\ \A i \in DOMAIN lru : \A id \in stored[lru[i]].ids :
       (~Expired(lru[i]) /\ \A j \in 1..(i - 1) : id \notin stored[lru[j]].ids)
         => id \in DOMAIN byToolID /\ byToolID[id] = lru[i]
  /\ Len(lru) <= MaxReasoning

(* Requests that miss the same schema at the same time store it one after   *)
(* the other: the eviction order still names every cached key once.         *)
SchemaIndexed ==
  ToSet(order) = schemas /\ Len(order) = Cardinality(schemas) /\ Cardinality(schemas) <= SchemaMax

TopRate == CHOOSE x \in {l.rate : l \in Rates} : \A l \in Rates : l.rate <= x
TopBurst == CHOOSE x \in {l.burst : l \in Rates} : \A l \in Rates : l.burst <= x

(* From the making of its bucket on, an address is granted no more than the *)
(* burst and what the rate has brought since, through refusals and reloads; *)
(* and one that was refused is granted a request when it comes back after   *)
(* the time it was told.                                                    *)
RateHonest ==
  /\ \A c \in DOMAIN spent : spent[c].grants * Token <= TopBurst * Token + (cacheClock - spent[c].since) * TopRate
  /\ \A c \in DOMAIN refused : cacheClock >= refused[c] => Refilled(c) >= Token

=============================================================================
