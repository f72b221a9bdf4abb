-------------------------- MODULE LogRecordsProofs --------------------------
(***************************************************************************)
(* Theorems about LogRecords, for any number of threads, records, modules  *)
(* and entities, and any size of the buffers.                              *)
(***************************************************************************)
EXTENDS LogRecords, ByteSums, FiniteSetTheorems, SequenceTheorems, TLAPS

USE LogRecordsAssumption

InCache(e) == \E i \in 1 .. Len(cache) : cache[i] = e
Counted == \A e \in Entities : ref[e] = Cardinality(Holders(e))

(***************************************************************************)
(* OneOwner and NoEntityLost need to know where a thread is: it releases   *)
(* an entity exactly while it executes release, and during an assignment   *)
(* another record of the thread holds the entity that is assigned.  And an *)
(* entity that was not made yet is nowhere.                                *)
(***************************************************************************)
ReleasePlaces == {"release", "log4cxx", "module", "message", "put"}

AtWell(t) ==
  /\ at[t] \in ReleasePlaces <=> releasing[t] # None
  /\ at[t] = "idle" => rhs[t] = NoAssignment
  /\ at[t] = "ref" => rhs[t] # NoAssignment
  /\ rhs[t] # NoAssignment =>
       /\ rhs[t].slot \in Slots /\ rhs[t].entity \in Entities
       /\ rec[t][rhs[t].slot] = None
       /\ \E s \in Slots : rec[t][s] = rhs[t].entity

Owned(e) ==
  /\ \A h, k \in Holders(e) : h[1] = k[1]
  /\ \A t \in Releasing(e) : Holders(e) = {} /\ Releasing(e) = {t}
  /\ InCache(e) => Holders(e) = {} /\ Releasing(e) = {}
  /\ e \in made <=> InCache(e) \/ Holders(e) # {} \/ Releasing(e) # {}

Where == \A t \in Threads : AtWell(t)
Owner == CachedOnce /\ Counted /\ \A e \in Entities : Owned(e)

Inv == TypeOK /\ Where /\ Owner

-----------------------------------------------------------------------------
(***************************************************************************)
(* What a change of one record does to the holders and their number.       *)
(***************************************************************************)
LEMMA HoldersFinite ==
  ASSUME NEW e
  PROVE  IsFiniteSet(Holders(e))
<1>1. IsFiniteSet(Threads \X Slots)
  BY FS_Product
<1> QED
  BY <1>1, FS_Subset DEF Holders

LEMMA Gain ==
  ASSUME TypeOK, Counted,
         NEW t \in Threads, NEW s \in Slots, NEW e \in Entities,
         rec[t][s] = None,
         rec' = [rec EXCEPT ![t][s] = e],
         ref' = [ref EXCEPT ![e] = @ + 1]
  PROVE  /\ Counted'
         /\ Holders(e)' = Holders(e) \cup {<<t, s>>}
         /\ \A f \in Entities : f # e => Holders(f)' = Holders(f)
<1>1. \A u \in Threads, r \in Slots :
        rec'[u][r] = IF u = t /\ r = s THEN e ELSE rec[u][r]
  BY DEF TypeOK
<1>2. Holders(e)' = Holders(e) \cup {<<t, s>>}
  BY <1>1 DEF Holders
<1>3. \A f \in Entities : f # e => Holders(f)' = Holders(f)
  BY <1>1 DEF Holders
<1>4. <<t, s>> \notin Holders(e)
  BY DEF Holders
<1>5. Cardinality(Holders(e)') = Cardinality(Holders(e)) + 1
  BY <1>2, <1>4, HoldersFinite, FS_AddElement
<1>6. Counted'
  BY <1>3, <1>5 DEF Counted, TypeOK
<1> QED
  BY <1>2, <1>3, <1>6

LEMMA Lose ==
  ASSUME TypeOK, Counted,
         NEW t \in Threads, NEW s \in Slots, NEW e \in Entities,
         rec[t][s] = e,
         rec' = [rec EXCEPT ![t][s] = None],
         ref' = [ref EXCEPT ![e] = @ - 1]
  PROVE  /\ Counted'
         /\ Holders(e)' = Holders(e) \ {<<t, s>>}
         /\ \A f \in Entities : f # e => Holders(f)' = Holders(f)
         /\ ref[e] \in Nat \ {0}
         /\ ref[e] = 1 <=> Holders(e)' = {}
<1>1. \A u \in Threads, r \in Slots :
        rec'[u][r] = IF u = t /\ r = s THEN None ELSE rec[u][r]
  BY DEF TypeOK
<1>2. Holders(e)' = Holders(e) \ {<<t, s>>}
  BY <1>1 DEF Holders
<1>3. \A f \in Entities : f # e => Holders(f)' = Holders(f)
  BY <1>1 DEF Holders
<1>4. <<t, s>> \in Holders(e)
  BY DEF Holders
<1>5. IsFiniteSet(Holders(e)') /\ Cardinality(Holders(e)') = Cardinality(Holders(e)) - 1
  BY <1>2, <1>4, HoldersFinite, FS_RemoveElement
<1>6. Cardinality(Holders(e)') \in Nat /\ Cardinality(Holders(e)) \in Nat
  BY <1>5, HoldersFinite, FS_CardinalityType
<1>7. Cardinality(Holders(e)') = 0 <=> Holders(e)' = {}
  BY <1>5, FS_EmptySet
<1>8. ref[e] = Cardinality(Holders(e))
  BY DEF Counted
<1>9. Counted'
  BY <1>3, <1>5, <1>8 DEF Counted, TypeOK
<1> QED
  BY <1>2, <1>3, <1>5, <1>6, <1>7, <1>8, <1>9
-----------------------------------------------------------------------------
(***************************************************************************)
(* Types.                                                                  *)
(***************************************************************************)
LEMMA IdsAreTuples ==
  ASSUME NEW t \in Threads, NEW n \in 1 .. MaxRecords[t]
  PROVE  <<t, n>> \in Ids
BY DEF Ids

LEMMA InitType == Init => TypeOK
<1>1. AnyTag \in Tags
  <2>1. PICK m \in Modules : TRUE
    OBVIOUS
  <2>2. [level |-> "INFO", module |-> m] \in Tags
    BY DEF Tags, Levels
  <2> QED
    BY <2>2 DEF AnyTag
<1>2. AnyId \in Ids
  <2>1. PICK t \in Threads : TRUE
    OBVIOUS
  <2>2. <<t, 1>> \in Ids
    BY IdsAreTuples
  <2> QED
    BY <2>2 DEF AnyId
<1> QED
  BY <1>1, <1>2 DEF Init, TypeOK, NoAssignment

LEMMA ConstructType ==
  ASSUME TypeOK, NEW t \in Threads, NEW s \in Slots, NEW tg \in Tags, Construct(t, s, tg)
  PROVE  TypeOK'
<1> DEFINE id == <<t, opened[t] + 1>>
<1>1. opened[t] \in Nat /\ opened[t] + 1 \in 1 .. MaxRecords[t]
  BY DEF Construct, TypeOK
<1>2. id \in Ids
  BY <1>1, IdsAreTuples
<1>3. PICK e \in Entities :
        /\ CacheGet(e)
        /\ whandler' = [whandler EXCEPT ![e] = handler[tg.module]]
        /\ tag' = [tag EXCEPT ![e] = tg]
        /\ rec' = [rec EXCEPT ![t][s] = e]
        /\ serves' = [serves EXCEPT ![e] = id]
  BY DEF Construct
<1>4. cache' \in Seq(Entities) /\ made' \subseteq Entities /\ ref' \in [Entities -> Nat]
  <2>1. CASE cache # << >> /\ cache' = Tail(cache) /\ ref' = [ref EXCEPT ![e] = @ + 1] /\ UNCHANGED made
    <3>1. cache \in Seq(Entities) /\ made \subseteq Entities /\ ref \in [Entities -> Nat]
      BY DEF TypeOK
    <3>2. Tail(cache) \in Seq(Entities)
      BY <2>1, <3>1, HeadTailProperties
    <3>3. ref' \in [Entities -> Nat]
      BY <2>1, <3>1
    <3> QED
      BY <2>1, <3>1, <3>2, <3>3
  <2>2. CASE made' = made \cup {e} /\ ref' = [ref EXCEPT ![e] = 1] /\ UNCHANGED cache
    BY <2>2 DEF TypeOK
  <2> QED
    BY <1>3, <2>1, <2>2 DEF CacheGet
<1>5. tg.module \in Modules
  BY DEF Tags
<1>6. /\ whandler' \in [Entities -> BOOLEAN]
      /\ tag' \in [Entities -> Tags]
      /\ rec' \in [Threads -> [Slots -> Entities \cup {None}]]
      /\ serves' \in [Entities -> Ids]
  BY <1>2, <1>3, <1>5 DEF TypeOK
<1>7. opened' = [opened EXCEPT ![t] = @ + 1] /\ info' = [info EXCEPT ![id] = tg]
  BY DEF Construct
<1>8. /\ opened' \in [Threads -> Nat] /\ \A u \in Threads : opened'[u] <= MaxRecords[u]
      /\ info' \in [Ids -> Tags]
  BY <1>1, <1>2, <1>7 DEF TypeOK
<1>9. UNCHANGED <<handler, text, bad, at, releasing, rhs, console, logged, written>>
  BY DEF Construct, outputVars
<1> HIDE DEF id
<1> QED
  BY <1>4, <1>6, <1>8, <1>9 DEF TypeOK

Places == {"idle", "release", "log4cxx", "module", "message", "put", "ref"}

LEMMA MoveType ==
  ASSUME TypeOK, NEW t \in Threads, NEW p \in Places, at' = [at EXCEPT ![t] = p]
  PROVE  at' \in [Threads -> Places]
<1>1. at \in [Threads -> Places]
  BY DEF TypeOK, Places
<1> QED
  BY <1>1

LEMMA ResetType ==
  ASSUME TypeOK, NEW e, Reset(e)
  PROVE  text' \in [Entities -> Seq(Ids)]
<1>1. text \in [Entities -> Seq(Ids)] /\ << >> \in Seq(Ids)
  BY DEF TypeOK
<1> QED
  BY <1>1 DEF Reset

LEMMA UnrefType ==
  ASSUME TypeOK, NEW t \in Threads, NEW e \in Entities, NEW next \in {"idle", "ref"},
         Unref(t, e, next), ref[e] \in Nat \ {0}
  PROVE  /\ ref' \in [Entities -> Nat]
         /\ at' \in [Threads -> Places]
         /\ releasing' \in [Threads -> Entities \cup {None}]
<1>1. ref \in [Entities -> Nat] /\ releasing \in [Threads -> Entities \cup {None}]
  BY DEF TypeOK
<1>2. ref' \in [Entities -> Nat]
  BY <1>1 DEF Unref
<1>3. releasing' \in [Threads -> Entities \cup {None}]
  BY <1>1 DEF Unref
<1>4. at' = [at EXCEPT ![t] = "release"] \/ at' = [at EXCEPT ![t] = next]
  BY DEF Unref, GoTo
<1>5. at' \in [Threads -> Places]
  BY <1>4, MoveType DEF Places
<1> QED
  BY <1>2, <1>3, <1>5

LEMMA CallerType ==
  ASSUME TypeOK, Counted, NEW t \in Threads, Caller(t)
  PROVE  TypeOK'
<1> USE DEF threadVars, outputVars, callerVars, cacheVars, entityVars
<1>1. ASSUME NEW s \in Slots, NEW tg \in Tags, Construct(t, s, tg) PROVE TypeOK'
  BY <1>1, ConstructType
<1>2. ASSUME NEW s \in Slots, Write(t, s) PROVE TypeOK'
  <2> DEFINE e == rec[t][s]
             id == serves[e]
  <2>1. e \in Entities /\ id \in Ids
    BY <1>2 DEF Write, TypeOK
  <2>2. written[id] < MaxWrites /\ written' = [written EXCEPT ![id] = @ + 1]
    BY <1>2 DEF Write
  <2>3. written' \in [Ids -> 0 .. MaxWrites]
    <3>1. written \in [Ids -> 0 .. MaxWrites]
      BY DEF TypeOK
    <3>2. written[id] \in 0 .. MaxWrites /\ written[id] + 1 \in 0 .. MaxWrites
      BY <2>1, <2>2, <3>1
    <3> HIDE DEF id
    <3> QED
      BY <2>1, <2>2, <3>1, <3>2
  <2>4. text' \in [Entities -> Seq(Ids)] /\ bad' \in [Entities -> BOOLEAN]
    <3>1. text \in [Entities -> Seq(Ids)] /\ bad \in [Entities -> BOOLEAN]
      BY DEF TypeOK
    <3>2. Append(text[e], id) \in Seq(Ids)
      BY <2>1, <3>1
    <3>3. \/ text' = [text EXCEPT ![e] = Append(@, id)] /\ UNCHANGED bad
          \/ bad' = [bad EXCEPT ![e] = TRUE] /\ UNCHANGED text
      BY <1>2 DEF Write
    <3> HIDE DEF e, id
    <3> QED
      BY <2>1, <3>1, <3>2, <3>3
  <2>5. UNCHANGED <<handler, cacheVars, ref, tag, whandler, serves, threadVars, outputVars, opened, info>>
    BY <1>2 DEF Write
  <2> QED
    BY <2>3, <2>4, <2>5 DEF TypeOK
<1>3. ASSUME NEW s \in Slots, Destroy(t, s) PROVE TypeOK'
  <2>1. rec[t][s] \in Entities
    BY <1>3 DEF Destroy, TypeOK
  <2>2. ref[rec[t][s]] \in Nat \ {0}
    BY <1>3, <2>1, Lose DEF Destroy, Unref
  <2>3. /\ ref' \in [Entities -> Nat]
        /\ at' \in [Threads -> Places]
        /\ releasing' \in [Threads -> Entities \cup {None}]
    BY <1>3, <2>1, <2>2, UnrefType DEF Destroy
  <2>4. rec' \in [Threads -> [Slots -> Entities \cup {None}]]
    BY <1>3 DEF Destroy, TypeOK
  <2> QED
    BY <1>3, <2>3, <2>4 DEF Destroy, TypeOK, Places
<1>4. ASSUME NEW s \in Slots, NEW d \in Slots, Copy(t, s, d) PROVE TypeOK'
  <2>1. rec[t][s] \in Entities
    BY <1>4 DEF Copy, TypeOK
  <2>2. ref' \in [Entities -> Nat] /\ rec' \in [Threads -> [Slots -> Entities \cup {None}]]
    BY <1>4, <2>1 DEF Copy, TypeOK
  <2> QED
    BY <1>4, <2>2 DEF Copy, TypeOK
<1>5. ASSUME NEW s \in Slots, NEW d \in Slots, Assign(t, d, s) PROVE TypeOK'
  <2>1. rec[t][d] \in Entities /\ rec[t][s] \in Entities
    BY <1>5 DEF Assign, TypeOK
  <2>2. ref[rec[t][d]] \in Nat \ {0}
    BY <1>5, <2>1, Lose DEF Assign, Unref
  <2>3. /\ ref' \in [Entities -> Nat]
        /\ at' \in [Threads -> Places]
        /\ releasing' \in [Threads -> Entities \cup {None}]
    BY <1>5, <2>1, <2>2, UnrefType DEF Assign
  <2>4. /\ rec' \in [Threads -> [Slots -> Entities \cup {None}]]
        /\ rhs' \in [Threads -> [slot : Slots \cup {None}, entity : Entities \cup {None}]]
    BY <1>5, <2>1 DEF Assign, TypeOK
  <2> QED
    BY <1>5, <2>3, <2>4 DEF Assign, TypeOK, Places
<1> QED
  BY <1>1, <1>2, <1>3, <1>4, <1>5 DEF Caller

LEMMA OwnType ==
  ASSUME TypeOK, Where, NEW t \in Threads,
         Release(t) \/ Log4cxx(t) \/ ConsoleModule(t) \/ ConsoleMessage(t) \/ Put(t) \/ AssignRef(t)
  PROVE  TypeOK'
<1> USE DEF outputVars, callerVars, cacheVars, entityVars, ReleaseUnchanged, GoTo
<1>1. at[t] \in ReleasePlaces => releasing[t] \in Entities
  BY DEF Where, AtWell, TypeOK
<1>2. CASE Release(t)
  <2>1. at' = [at EXCEPT ![t] = "log4cxx"] \/ at' = [at EXCEPT ![t] = "put"]
    BY <1>2 DEF Release
  <2>2. at' \in [Threads -> Places]
    BY <2>1, MoveType DEF Places
  <2>3. text' = text \/ Reset(releasing[t])
    BY <1>2 DEF Release
  <2>4. text' \in [Entities -> Seq(Ids)]
    BY <2>3, ResetType DEF TypeOK
  <2> QED
    BY <1>2, <2>2, <2>4 DEF Release, TypeOK, Places
<1>3. CASE Log4cxx(t)
  <2>1. at' = [at EXCEPT ![t] = "module"] \/ at' = [at EXCEPT ![t] = "put"]
    BY <1>3 DEF Log4cxx
  <2>2. at' \in [Threads -> Places]
    BY <2>1, MoveType DEF Places
  <2>3. text' = text \/ Reset(releasing[t])
    BY <1>3 DEF Log4cxx
  <2>4. text' \in [Entities -> Seq(Ids)]
    BY <2>3, ResetType DEF TypeOK
  <2>5. serves[releasing[t]] \in Ids
    BY <1>1, <1>3 DEF Log4cxx, ReleasePlaces, TypeOK
  <2>6. logged' = logged \/ logged' = logged \cup {serves[releasing[t]]}
    BY <1>3 DEF Log4cxx
  <2>7. logged' \subseteq Ids
    BY <2>5, <2>6 DEF TypeOK
  <2> QED
    BY <1>3, <2>2, <2>4, <2>7 DEF Log4cxx, TypeOK, Places
<1>4. ASSUME NEW e \in Entities, NEW what \in {"module", "message"}
      PROVE  Piece(e, what) \in Pieces
  BY <1>4 DEF Piece, Pieces, TypeOK
<1>5. CASE ConsoleModule(t)
  <2>1. console' \in Seq(Pieces)
    <3>1. Piece(releasing[t], "module") \in Pieces
      BY <1>1, <1>4, <1>5 DEF ConsoleModule, ReleasePlaces
    <3> QED
      BY <1>5, <3>1 DEF ConsoleModule, TypeOK
  <2> QED
    BY <1>5, <2>1 DEF ConsoleModule, TypeOK
<1>6. CASE ConsoleMessage(t)
  <2>1. console' \in Seq(Pieces)
    <3>1. Piece(releasing[t], "message") \in Pieces
      BY <1>1, <1>4, <1>6 DEF ConsoleMessage, ReleasePlaces
    <3> QED
      BY <1>6, <3>1 DEF ConsoleMessage, TypeOK
  <2>2. text' \in [Entities -> Seq(Ids)]
    BY <1>6, ResetType DEF ConsoleMessage
  <2> QED
    BY <1>6, <2>1, <2>2 DEF ConsoleMessage, TypeOK
<1>7. CASE Put(t)
  <2>1. cache' \in Seq(Entities)
    <3>1. releasing[t] \in Entities /\ <<releasing[t]>> \in Seq(Entities) /\ cache \in Seq(Entities)
      BY <1>1, <1>7 DEF Put, ReleasePlaces, TypeOK
    <3> QED
      BY <1>7, <3>1, ConcatProperties DEF Put
  <2> QED
    BY <1>7, <2>1 DEF Put, TypeOK
<1>8. CASE AssignRef(t)
  <2>1. rhs[t].entity \in Entities
    BY <1>8 DEF AssignRef, Where, AtWell
  <2>2. /\ ref' \in [Entities -> Nat]
        /\ rec' \in [Threads -> [Slots -> Entities \cup {None}]]
        /\ rhs' \in [Threads -> [slot : Slots \cup {None}, entity : Entities \cup {None}]]
    <3>1. /\ ref \in [Entities -> Nat]
          /\ rec \in [Threads -> [Slots -> Entities \cup {None}]]
          /\ rhs \in [Threads -> [slot : Slots \cup {None}, entity : Entities \cup {None}]]
          /\ NoAssignment \in [slot : Slots \cup {None}, entity : Entities \cup {None}]
      BY DEF TypeOK, NoAssignment
    <3>2. ref[rhs[t].entity] + 1 \in Nat
      BY <2>1, <3>1
    <3>3. /\ ref' = [ref EXCEPT ![rhs[t].entity] = @ + 1]
          /\ rec' = [rec EXCEPT ![t][rhs[t].slot] = rhs[t].entity]
          /\ rhs' = [rhs EXCEPT ![t] = NoAssignment]
      BY <1>8 DEF AssignRef
    <3>4. ref' \in [Entities -> Nat]
      BY <3>1, <3>2, <3>3
    <3>5. rec' \in [Threads -> [Slots -> Entities \cup {None}]]
      BY <2>1, <3>1, <3>3
    <3>6. rhs' \in [Threads -> [slot : Slots \cup {None}, entity : Entities \cup {None}]]
      BY <3>1, <3>3
    <3> QED
      BY <3>4, <3>5, <3>6
  <2> QED
    BY <1>8, <2>2 DEF AssignRef, TypeOK
<1> QED
  BY <1>2, <1>3, <1>5, <1>6, <1>7, <1>8
-----------------------------------------------------------------------------
(***************************************************************************)
(* Owners.                                                                 *)
(***************************************************************************)
LEMMA OwnedStays ==
  ASSUME NEW e \in Entities, Owned(e),
         Holders(e)' = Holders(e), Releasing(e)' = Releasing(e),
         InCache(e)' <=> InCache(e), e \in made' <=> e \in made
  PROVE  Owned(e)'
BY DEF Owned

LEMMA AtWellStays ==
  ASSUME NEW t \in Threads, AtWell(t),
         rec'[t] = rec[t], at'[t] = at[t], releasing'[t] = releasing[t], rhs'[t] = rhs[t]
  PROVE  AtWell(t)'
BY DEF AtWell

LEMMA CacheGetOwner ==
  ASSUME TypeOK, Owner, NEW e \in Entities, CacheGet(e)
  PROVE  /\ Holders(e) = {} /\ Releasing(e) = {}
         /\ ref' = [ref EXCEPT ![e] = @ + 1]
         /\ CachedOnce'
         /\ \A f \in Entities : InCache(f)' <=> InCache(f) /\ f # e
         /\ made' = made \cup {e}
<1>1. cache \in Seq(Entities) /\ ref \in [Entities -> Nat]
  BY DEF TypeOK
<1>2. CASE cache # << >> /\ e = Head(cache) /\ cache' = Tail(cache)
           /\ ref' = [ref EXCEPT ![e] = @ + 1] /\ UNCHANGED made
  <2>1. InCache(e)
    BY <1>1, <1>2 DEF InCache
  <2>2. Len(cache') = Len(cache) - 1 /\ \A i \in 1 .. Len(cache') : cache'[i] = cache[i + 1]
    BY <1>1, <1>2
  <2>3. CachedOnce'
    <3> SUFFICES ASSUME NEW i \in 1 .. Len(cache'), NEW j \in 1 .. Len(cache'), cache'[i] = cache'[j]
                 PROVE  i = j
      BY DEF CachedOnce
    <3>1. Len(cache) \in Nat /\ Len(cache') = Len(cache) - 1
      BY <1>1, <2>2
    <3>2. i + 1 \in 1 .. Len(cache) /\ j + 1 \in 1 .. Len(cache)
      BY <3>1
    <3>3. cache[i + 1] = cache'[i] /\ cache[j + 1] = cache'[j]
      BY <2>2
    <3>4. i + 1 = j + 1
      BY <3>2, <3>3 DEF Owner, CachedOnce
    <3> QED
      BY <3>4
  <2>4. \A f \in Entities : InCache(f)' <=> InCache(f) /\ f # e
    <3> SUFFICES ASSUME NEW f \in Entities PROVE InCache(f)' <=> InCache(f) /\ f # e
      OBVIOUS
    <3>1. ASSUME NEW i \in 1 .. Len(cache'), cache'[i] = f PROVE InCache(f) /\ f # e
      <4>1. Len(cache) \in Nat /\ Len(cache) > 0 /\ cache[1] = e
        BY <1>1, <1>2
      <4>2. i + 1 \in 1 .. Len(cache) /\ 1 \in 1 .. Len(cache) /\ i + 1 # 1
        BY <2>2, <3>1, <4>1
      <4>3. cache[i + 1] = f
        BY <2>2, <3>1
      <4> QED
        BY <4>1, <4>2, <4>3 DEF InCache, Owner, CachedOnce
    <3>2. ASSUME NEW i \in 1 .. Len(cache), cache[i] = f, f # e PROVE InCache(f)'
      <4>1. i # 1
        BY <1>2, <3>2
      <4>2. Len(cache) \in Nat
        BY <1>1
      <4>3. i - 1 \in 1 .. Len(cache')
        BY <2>2, <3>2, <4>1, <4>2
      <4>4. cache'[i - 1] = f
        BY <2>2, <3>2, <4>3
      <4> QED
        BY <4>3, <4>4 DEF InCache
    <3> QED
      BY <3>1, <3>2 DEF InCache
  <2> QED
    BY <1>2, <2>1, <2>3, <2>4 DEF Owner, Owned
<1>3. CASE cache = << >> /\ e \notin made /\ made' = made \cup {e}
           /\ ref' = [ref EXCEPT ![e] = 1] /\ UNCHANGED cache
  <2>1. ~InCache(e) /\ Holders(e) = {} /\ Releasing(e) = {}
    BY <1>3 DEF Owner, Owned
  <2>2. ref[e] = 0
    BY <2>1, FS_EmptySet DEF Owner, Counted
  <2>3. \A f \in Entities : InCache(f)' <=> InCache(f)
    BY <1>3 DEF InCache
  <2>4. CachedOnce'
    BY <1>3 DEF Owner, CachedOnce
  <2> QED
    BY <1>1, <1>3, <2>1, <2>2, <2>3, <2>4
<1>4. ASSUME NEW S, S # {} PROVE (CHOOSE new \in S : TRUE) \in S
  BY <1>4
<1>5. Entities \ made # {} /\ e = (CHOOSE new \in Entities \ made : TRUE) => e \notin made
  BY <1>4
<1> QED
  BY <1>2, <1>3, <1>5 DEF CacheGet

LEMMA ConstructOwner ==
  ASSUME Inv, NEW t \in Threads, NEW s \in Slots, NEW tg \in Tags, Construct(t, s, tg)
  PROVE  Where' /\ Owner'
<1>1. PICK e \in Entities : CacheGet(e) /\ rec' = [rec EXCEPT ![t][s] = e]
  BY DEF Construct
<1>2. /\ Holders(e) = {} /\ Releasing(e) = {}
      /\ ref' = [ref EXCEPT ![e] = @ + 1]
      /\ CachedOnce'
      /\ \A f \in Entities : InCache(f)' <=> InCache(f) /\ f # e
      /\ made' = made \cup {e}
  BY <1>1, CacheGetOwner DEF Inv
<1>3. rec[t][s] = None /\ at[t] = "idle" /\ UNCHANGED <<at, releasing, rhs>>
  BY DEF Construct
<1>4. /\ Counted'
      /\ Holders(e)' = {<<t, s>>}
      /\ \A f \in Entities : f # e => Holders(f)' = Holders(f)
  <2>1. TypeOK /\ Counted
    BY DEF Inv, Owner
  <2>2. /\ Counted'
        /\ Holders(e)' = Holders(e) \cup {<<t, s>>}
        /\ \A f \in Entities : f # e => Holders(f)' = Holders(f)
    BY <1>1, <1>2, <1>3, <2>1, Gain
  <2> QED
    BY <1>2, <2>2
<1>5. \A f \in Entities : Releasing(f)' = Releasing(f)
  BY <1>3 DEF Releasing
<1>6. Owned(e)'
  BY <1>2, <1>4, <1>5 DEF Owned
<1>7. ASSUME NEW f \in Entities, f # e PROVE Owned(f)'
  BY <1>2, <1>4, <1>5, <1>7, OwnedStays DEF Inv, Owner
<1>8. ASSUME NEW u \in Threads PROVE AtWell(u)'
  <2>1. CASE u = t
    BY <1>3, <2>1 DEF Inv, Where, AtWell
  <2>2. CASE u # t
    <3>1. rec'[u] = rec[u]
      BY <1>1, <2>2 DEF Inv, TypeOK
    <3> QED
      BY <1>3, <3>1, AtWellStays DEF Inv, Where
  <2> QED
    BY <2>1, <2>2
<1> QED
  BY <1>2, <1>4, <1>6, <1>7, <1>8 DEF Owner, Where

\* One more record of the thread for an entity it holds.
LEMMA GainOwner ==
  ASSUME TypeOK, Owner,
         NEW t \in Threads, NEW s \in Slots, NEW r \in Slots, NEW e \in Entities,
         rec[t][s] = None, rec[t][r] = e,
         rec' = [rec EXCEPT ![t][s] = e],
         ref' = [ref EXCEPT ![e] = @ + 1],
         UNCHANGED <<cache, made, releasing>>
  PROVE  Owner'
<1>1. /\ Counted'
      /\ Holders(e)' = Holders(e) \cup {<<t, s>>}
      /\ \A f \in Entities : f # e => Holders(f)' = Holders(f)
  BY Gain DEF Owner
<1>2. \A f \in Entities : Releasing(f)' = Releasing(f) /\ (InCache(f)' <=> InCache(f))
  BY DEF Releasing, InCache
<1>3. <<t, r>> \in Holders(e)
  BY DEF Holders
<1>4. \A h \in Holders(e) : h[1] = t
  BY <1>3 DEF Owner, Owned
<1>5. Owned(e)'
  BY <1>1, <1>2, <1>3, <1>4 DEF Owner, Owned
<1>6. ASSUME NEW f \in Entities, f # e PROVE Owned(f)'
  BY <1>1, <1>2, <1>6, OwnedStays DEF Owner
<1>7. CachedOnce'
  BY DEF Owner, CachedOnce
<1> QED
  BY <1>1, <1>5, <1>6, <1>7 DEF Owner

\* One record less, and release when it was the last.
LEMMA LoseOwner ==
  ASSUME TypeOK, Owner,
         NEW t \in Threads, NEW s \in Slots, NEW e \in Entities, NEW next,
         rec[t][s] = e, releasing[t] = None,
         rec' = [rec EXCEPT ![t][s] = None],
         Unref(t, e, next),
         UNCHANGED <<cache, made>>
  PROVE  Owner'
<1>1. /\ Counted'
      /\ Holders(e)' = Holders(e) \ {<<t, s>>}
      /\ \A f \in Entities : f # e => Holders(f)' = Holders(f)
      /\ ref[e] = 1 <=> Holders(e)' = {}
  BY Lose DEF Owner, Unref
<1>2. \A f \in Entities : InCache(f)' <=> InCache(f)
  BY DEF InCache
<1>3. <<t, s>> \in Holders(e)
  BY DEF Holders
<1>4. Releasing(e) = {} /\ ~InCache(e) /\ e \in made
  BY <1>3 DEF Owner, Owned
<1>5. releasing' = IF ref[e] = 1 THEN [releasing EXCEPT ![t] = e] ELSE releasing
  BY DEF Unref
<1>6. Releasing(e)' = IF ref[e] = 1 THEN {t} ELSE {}
  BY <1>4, <1>5 DEF Releasing, TypeOK
<1>7. \A f \in Entities : f # e => Releasing(f)' = Releasing(f)
  BY <1>5 DEF Releasing, TypeOK
<1>8. Owned(e)'
  BY <1>1, <1>2, <1>4, <1>6 DEF Owner, Owned
<1>9. ASSUME NEW f \in Entities, f # e PROVE Owned(f)'
  BY <1>1, <1>2, <1>7, <1>9, OwnedStays DEF Owner
<1>10. CachedOnce'
  BY DEF Owner, CachedOnce
<1> QED
  BY <1>1, <1>8, <1>9, <1>10 DEF Owner

\* A step that touches no record, no counter and not the cache.
LEMMA QuietOwner ==
  ASSUME Owner, UNCHANGED <<rec, ref, cache, made, releasing>>
  PROVE  Owner'
<1>1. Counted'
  <2> SUFFICES ASSUME NEW e \in Entities PROVE ref'[e] = Cardinality(Holders(e)')
    BY DEF Counted
  <2>1. Holders(e)' = Holders(e)
    BY DEF Holders
  <2> QED
    BY <2>1 DEF Owner, Counted
<1>2. CachedOnce'
  BY DEF Owner, CachedOnce
<1>3. ASSUME NEW e \in Entities PROVE Owned(e)'
  <2>1. /\ Holders(e)' = Holders(e) /\ Releasing(e)' = Releasing(e)
        /\ InCache(e)' <=> InCache(e)
    BY DEF Holders, Releasing, InCache
  <2>2. Owned(e)
    BY DEF Owner
  <2> QED
    BY <2>1, <2>2, OwnedStays
<1> QED
  BY <1>1, <1>2, <1>3 DEF Owner

LEMMA PutOwner ==
  ASSUME Inv, NEW t \in Threads, Put(t)
  PROVE  Owner'
<1>0. releasing[t] \in Entities
  BY DEF Put, Inv, Where, AtWell, TypeOK, ReleasePlaces
<1> PICK e \in Entities : e = releasing[t]
  BY <1>0
<1>1. /\ cache \in Seq(Entities)
      /\ cache' = <<e>> \o cache /\ releasing' = [releasing EXCEPT ![t] = None]
      /\ UNCHANGED <<rec, ref, made>>
  BY DEF Put, Inv, TypeOK, entityVars
<1>2. /\ Releasing(e) = {t} /\ Holders(e) = {} /\ ~InCache(e) /\ e \in made
  <2>1. t \in Releasing(e)
    BY DEF Releasing
  <2> QED
    BY <1>1, <2>1 DEF Inv, Owner, Owned
<1>3. /\ Len(cache') = Len(cache) + 1 /\ cache'[1] = e
      /\ \A i \in 1 .. Len(cache) : cache'[i + 1] = cache[i]
  <2>1. <<e>> \in Seq(Entities) /\ Len(<<e>>) = 1 /\ <<e>>[1] = e
    BY <1>1
  <2> QED
    BY <1>1, <2>1, ConcatProperties
<1>4. \A i \in 1 .. Len(cache') : i # 1 => i - 1 \in 1 .. Len(cache) /\ cache'[i] = cache[i - 1]
  BY <1>1, <1>3
<1>5. CachedOnce'
  <2> SUFFICES ASSUME NEW i \in 1 .. Len(cache'), NEW j \in 1 .. Len(cache'), cache'[i] = cache'[j]
               PROVE  i = j
    BY DEF CachedOnce
  <2>1. CASE i # 1 /\ j # 1
    <3>1. i - 1 = j - 1
      BY <1>4, <2>1 DEF Inv, Owner, CachedOnce
    <3> QED
      BY <3>1
  <2>2. CASE i = 1 /\ j # 1
    BY <1>2, <1>3, <1>4, <2>2 DEF InCache
  <2>3. CASE i # 1 /\ j = 1
    BY <1>2, <1>3, <1>4, <2>3 DEF InCache
  <2> QED
    BY <2>1, <2>2, <2>3
<1>6. ASSUME NEW f \in Entities PROVE Holders(f)' = Holders(f)
  BY <1>1 DEF Holders
<1>7. Releasing(e)' = {} /\ \A f \in Entities : f # e => Releasing(f)' = Releasing(f)
  <2>1. \A u \in Threads : releasing'[u] = IF u = t THEN None ELSE releasing[u]
    BY <1>1 DEF Inv, TypeOK
  <2>2. \A u \in Threads : u # t => releasing[u] # e
    BY <1>2 DEF Releasing
  <2>3. releasing[t] = e
    OBVIOUS
  <2> QED
    BY <2>1, <2>2, <2>3 DEF Releasing
<1>8. InCache(e)'
  <2>1. 1 \in 1 .. Len(cache')
    BY <1>1, <1>3
  <2> QED
    BY <1>3, <2>1 DEF InCache
<1>9. ASSUME NEW f \in Entities, f # e PROVE InCache(f)' <=> InCache(f)
  <2>1. ASSUME NEW i \in 1 .. Len(cache'), cache'[i] = f PROVE InCache(f)
    BY <1>3, <1>4, <1>9, <2>1 DEF InCache
  <2>2. ASSUME NEW i \in 1 .. Len(cache), cache[i] = f PROVE InCache(f)'
    <3>1. i + 1 \in 1 .. Len(cache') /\ cache'[i + 1] = f
      BY <1>1, <1>3, <2>2
    <3> QED
      BY <3>1 DEF InCache
  <2> QED
    BY <2>1, <2>2 DEF InCache
<1>10. Owned(e)'
  BY <1>1, <1>2, <1>6, <1>7, <1>8 DEF Owned
<1>11. ASSUME NEW f \in Entities, f # e PROVE Owned(f)'
  BY <1>1, <1>6, <1>7, <1>9, <1>11, OwnedStays DEF Inv, Owner
<1>12. Counted'
  BY <1>1, <1>6 DEF Inv, Owner, Counted
<1> QED
  BY <1>5, <1>10, <1>11, <1>12 DEF Owner

-----------------------------------------------------------------------------
(***************************************************************************)
(* Every step keeps the invariant.                                         *)
(***************************************************************************)
LEMMA CallerOwner ==
  ASSUME Inv, NEW t \in Threads, Caller(t)
  PROVE  Where' /\ Owner'
<1> USE DEF outputVars, callerVars, cacheVars, entityVars, threadVars
<1>1. ASSUME NEW s \in Slots, NEW tg \in Tags, Construct(t, s, tg) PROVE Where' /\ Owner'
  BY <1>1, ConstructOwner
<1>2. ASSUME NEW s \in Slots, Write(t, s) PROVE Where' /\ Owner'
  <2>1. UNCHANGED <<rec, ref, cache, made, releasing, at, rhs>>
    BY <1>2 DEF Write
  <2>2. Where'
    BY <2>1, AtWellStays DEF Inv, Where
  <2> QED
    BY <2>1, <2>2, QuietOwner DEF Inv
<1>3. ASSUME NEW s \in Slots, Destroy(t, s) PROVE Where' /\ Owner'
  <2>1. /\ at[t] = "idle" /\ rec[t][s] \in Entities
        /\ Unref(t, rec[t][s], "idle")
        /\ rec' = [rec EXCEPT ![t][s] = None]
        /\ UNCHANGED <<cache, made, rhs>>
    BY <1>3 DEF Destroy, Inv, TypeOK
  <2>2. releasing[t] = None /\ rhs[t] = NoAssignment
    BY <2>1 DEF Inv, Where, AtWell, ReleasePlaces
  <2>3. Owner'
    BY <2>1, <2>2, LoseOwner DEF Inv
  <2>4. AtWell(t)'
    BY <2>1, <2>2 DEF AtWell, ReleasePlaces, Unref, GoTo, Inv, TypeOK
  <2>5. ASSUME NEW u \in Threads, u # t PROVE AtWell(u)'
    <3>1. rec'[u] = rec[u] /\ at'[u] = at[u] /\ releasing'[u] = releasing[u] /\ rhs'[u] = rhs[u]
      BY <2>1, <2>5 DEF Unref, GoTo, Inv, TypeOK
    <3> QED
      BY <3>1, AtWellStays DEF Inv, Where
  <2> QED
    BY <2>3, <2>4, <2>5 DEF Where
<1>4. ASSUME NEW s \in Slots, NEW d \in Slots, Copy(t, s, d) PROVE Where' /\ Owner'
  <2>1. /\ at[t] = "idle" /\ rec[t][s] \in Entities /\ rec[t][d] = None
        /\ rec' = [rec EXCEPT ![t][d] = rec[t][s]]
        /\ ref' = [ref EXCEPT ![rec[t][s]] = @ + 1]
        /\ UNCHANGED <<cache, made, releasing, at, rhs>>
    BY <1>4 DEF Copy, Inv, TypeOK
  <2>2. Owner'
    BY <2>1, GainOwner DEF Inv
  <2>3. AtWell(t)'
    BY <2>1 DEF AtWell, ReleasePlaces, Inv, Where
  <2>4. ASSUME NEW u \in Threads, u # t PROVE AtWell(u)'
    <3>1. rec'[u] = rec[u]
      BY <2>1, <2>4 DEF Inv, TypeOK
    <3> QED
      BY <2>1, <3>1, AtWellStays DEF Inv, Where
  <2> QED
    BY <2>2, <2>3, <2>4 DEF Where
<1>5. ASSUME NEW s \in Slots, NEW d \in Slots, Assign(t, d, s) PROVE Where' /\ Owner'
  <2>1. /\ at[t] = "idle" /\ s # d /\ rec[t][s] \in Entities /\ rec[t][d] \in Entities
        /\ Unref(t, rec[t][d], "ref")
        /\ rec' = [rec EXCEPT ![t][d] = None]
        /\ rhs' = [rhs EXCEPT ![t] = [slot |-> d, entity |-> rec[t][s]]]
        /\ UNCHANGED <<cache, made>>
    BY <1>5 DEF Assign, Inv, TypeOK
  <2>2. releasing[t] = None
    BY <2>1 DEF Inv, Where, AtWell, ReleasePlaces
  <2>3. Owner'
    BY <2>1, <2>2, LoseOwner DEF Inv
  <2>4. AtWell(t)'
    <3>1. rhs'[t] = [slot |-> d, entity |-> rec[t][s]] /\ rhs'[t] # NoAssignment
      BY <2>1 DEF Inv, TypeOK, NoAssignment
    <3>2. rec'[t][d] = None /\ rec'[t][s] = rec[t][s]
      BY <2>1 DEF Inv, TypeOK
    <3>3. \/ at'[t] = "release" /\ releasing'[t] = rec[t][d]
          \/ at'[t] = "ref" /\ releasing'[t] = None
      BY <2>1, <2>2 DEF Unref, GoTo, Inv, TypeOK
    <3> QED
      BY <2>1, <3>1, <3>2, <3>3 DEF AtWell, ReleasePlaces
  <2>5. ASSUME NEW u \in Threads, u # t PROVE AtWell(u)'
    <3>1. rec'[u] = rec[u] /\ at'[u] = at[u] /\ releasing'[u] = releasing[u] /\ rhs'[u] = rhs[u]
      BY <2>1, <2>5 DEF Unref, GoTo, Inv, TypeOK
    <3> QED
      BY <3>1, AtWellStays DEF Inv, Where
  <2> QED
    BY <2>3, <2>4, <2>5 DEF Where
<1> QED
  BY <1>1, <1>2, <1>3, <1>4, <1>5 DEF Caller

LEMMA ReleaseOwner ==
  ASSUME Inv, NEW t \in Threads, Release(t) \/ Log4cxx(t) \/ ConsoleModule(t) \/ ConsoleMessage(t)
  PROVE  Where' /\ Owner'
<1>1. UNCHANGED <<rec, ref, cache, made, releasing, rhs>>
  BY DEF Release, Log4cxx, ConsoleModule, ConsoleMessage, ReleaseUnchanged, cacheVars
<1>2. at[t] \in ReleasePlaces /\ \E p \in ReleasePlaces : at' = [at EXCEPT ![t] = p]
  BY DEF Release, Log4cxx, ConsoleModule, ConsoleMessage, GoTo, ReleasePlaces
<1>3. AtWell(t)'
  BY <1>1, <1>2 DEF Inv, TypeOK, Where, AtWell, ReleasePlaces
<1>4. ASSUME NEW u \in Threads, u # t PROVE AtWell(u)'
  <2>1. at'[u] = at[u]
    BY <1>2, <1>4 DEF Inv, TypeOK
  <2> QED
    BY <1>1, <2>1, AtWellStays DEF Inv, Where
<1> QED
  BY <1>1, <1>3, <1>4, QuietOwner DEF Inv, Where

LEMMA PutWhere ==
  ASSUME Inv, NEW t \in Threads, Put(t)
  PROVE  Where'
<1>1. /\ releasing' = [releasing EXCEPT ![t] = None]
      /\ at' = [at EXCEPT ![t] = IF rhs[t] = NoAssignment THEN "idle" ELSE "ref"]
      /\ UNCHANGED <<rec, rhs>>
  BY DEF Put, GoTo
<1>2. AtWell(t)'
  BY <1>1 DEF Inv, TypeOK, Where, AtWell, ReleasePlaces
<1>3. ASSUME NEW u \in Threads, u # t PROVE AtWell(u)'
  <2>1. at'[u] = at[u] /\ releasing'[u] = releasing[u]
    BY <1>1, <1>3 DEF Inv, TypeOK
  <2> QED
    BY <1>1, <2>1, AtWellStays DEF Inv, Where
<1> QED
  BY <1>2, <1>3 DEF Where

LEMMA AssignRefOwner ==
  ASSUME Inv, NEW t \in Threads, AssignRef(t)
  PROVE  Where' /\ Owner'
<1>1. /\ at[t] = "ref" /\ at' = [at EXCEPT ![t] = "idle"]
      /\ ref' = [ref EXCEPT ![rhs[t].entity] = @ + 1]
      /\ rec' = [rec EXCEPT ![t][rhs[t].slot] = rhs[t].entity]
      /\ rhs' = [rhs EXCEPT ![t] = NoAssignment]
      /\ UNCHANGED <<cache, made, releasing>>
  BY DEF AssignRef, GoTo, cacheVars
<1>2. /\ rhs[t].slot \in Slots /\ rhs[t].entity \in Entities
      /\ rec[t][rhs[t].slot] = None
      /\ \E s \in Slots : rec[t][s] = rhs[t].entity
      /\ releasing[t] = None
  BY <1>1 DEF Inv, Where, AtWell, ReleasePlaces
<1>3. Owner'
  BY <1>1, <1>2, GainOwner DEF Inv
<1>4. AtWell(t)'
  BY <1>1, <1>2 DEF Inv, TypeOK, AtWell, ReleasePlaces
<1>5. ASSUME NEW u \in Threads, u # t PROVE AtWell(u)'
  <2>1. rec'[u] = rec[u] /\ at'[u] = at[u] /\ rhs'[u] = rhs[u]
    BY <1>1, <1>5 DEF Inv, TypeOK
  <2> QED
    BY <1>1, <2>1, AtWellStays DEF Inv, Where
<1> QED
  BY <1>3, <1>4, <1>5 DEF Where

LEMMA InvStep ==
  ASSUME Inv, [Next]_vars
  PROVE  Inv'
<1>1. ASSUME NEW t \in Threads, Caller(t) PROVE Inv'
  BY <1>1, CallerType, CallerOwner DEF Inv, Owner
<1>2. ASSUME NEW t \in Threads,
             Release(t) \/ Log4cxx(t) \/ ConsoleModule(t) \/ ConsoleMessage(t)
      PROVE  Inv'
  BY <1>2, OwnType, ReleaseOwner DEF Inv
<1>3. ASSUME NEW t \in Threads, Put(t) PROVE Inv'
  BY <1>3, OwnType, PutOwner, PutWhere DEF Inv
<1>4. ASSUME NEW t \in Threads, AssignRef(t) PROVE Inv'
  BY <1>4, OwnType, AssignRefOwner DEF Inv
<1>5. CASE UNCHANGED vars
  <2> USE DEF vars, cacheVars, entityVars, threadVars, outputVars, callerVars
  <2>1. TypeOK'
    BY <1>5 DEF Inv, TypeOK
  <2>2. Owner'
    BY <1>5, QuietOwner DEF Inv
  <2>3. Where'
    BY <1>5, AtWellStays DEF Inv, Where
  <2> QED
    BY <2>1, <2>2, <2>3 DEF Inv
<1> QED
  BY <1>1, <1>2, <1>3, <1>4, <1>5 DEF Next

LEMMA InvInit == Init => Inv
<1> SUFFICES ASSUME Init PROVE Inv
  OBVIOUS
<1>1. TypeOK
  BY InitType
<1>2. Where
  BY DEF Init, Where, AtWell, ReleasePlaces
<1>3. \A e \in Entities : Holders(e) = {} /\ Releasing(e) = {} /\ ~InCache(e) /\ e \notin made /\ ref[e] = 0
  BY DEF Init, Holders, Releasing, InCache
<1>4. Counted
  BY <1>3, FS_EmptySet DEF Counted
<1>5. CachedOnce
  BY DEF Init, CachedOnce
<1>6. \A e \in Entities : Owned(e)
  BY <1>3 DEF Owned
<1> QED
  BY <1>1, <1>2, <1>4, <1>5, <1>6 DEF Inv, Owner

LEMMA InvHolds == Spec => []Inv
BY InvInit, InvStep, PTL DEF Spec

(***************************************************************************)
(* Counters, records and the cache always have the values and the bounds   *)
(* they should have; no counter of references goes below zero.             *)
(***************************************************************************)
THEOREM LogTypeCorrect == Spec => []TypeOK
<1>1. Inv => TypeOK
  BY DEF Inv
<1> QED
  BY <1>1, InvHolds, PTL

(***************************************************************************)
(* The counter of an entity is the number of its records, all of one       *)
(* thread, and no thread gets an entity from the cache that another one    *)
(* uses or releases (log.cc 48-74, 105-146, 167-182): copies and           *)
(* assignments included, for any number of threads.                        *)
(***************************************************************************)
THEOREM EntitiesNotShared == Spec => []OneOwner
<1>1. Inv => OneOwner
  BY DEF Inv, Owner, Counted, Owned, OneOwner, InCache
<1> QED
  BY <1>1, InvHolds, PTL

(***************************************************************************)
(* No entity is forgotten: each one made is in use or in the cache.        *)
(***************************************************************************)
THEOREM EntitiesKept == Spec => []NoEntityLost
<1>1. Inv => NoEntityLost
  BY DEF Inv, TypeOK, Owner, Owned, NoEntityLost, InCache
<1> QED
  BY <1>1, InvHolds, PTL
-----------------------------------------------------------------------------
(***************************************************************************)
(* The messages on the console, as LogSink's output: a piece more is a     *)
(* message more, or none.  Delivered is recursive, so that this needs      *)
(* induction: there is a function that satisfies its definition, and what  *)
(* the function gives for the beginnings does not depend on the end.       *)
(***************************************************************************)
AsRecord(p) == [id |-> p.id, tag |-> p.tag, text |-> p.text]

Longer(records, p) == IF p.piece # "message" THEN records ELSE Append(records, AsRecord(p))

DeliveredUpTo(pieces) ==
  LET upTo[i \in 0 .. Len(pieces)] ==
        IF i = 0 THEN << >>
        ELSE IF pieces[i].piece # "message" THEN upTo[i - 1]
        ELSE Append(upTo[i - 1],
                    [id |-> pieces[i].id, tag |-> pieces[i].tag, text |-> pieces[i].text])
  IN  upTo

IsDelivered(f, pieces, n) ==
  f = [i \in 0 .. n |-> IF i = 0 THEN << >>
                        ELSE IF pieces[i].piece # "message" THEN f[i - 1]
                        ELSE Append(f[i - 1], [id |-> pieces[i].id, tag |-> pieces[i].tag,
                                               text |-> pieces[i].text])]

LEMMA DeliveredIsLast ==
  ASSUME NEW pieces
  PROVE  Delivered(pieces) = DeliveredUpTo(pieces)[Len(pieces)]
  BY DEF Delivered, DeliveredUpTo

LEMMA DeliveredDefined ==
  ASSUME NEW pieces, Len(pieces) \in Nat
  PROVE  IsDelivered(DeliveredUpTo(pieces), pieces, Len(pieces))
<1> DEFINE n == Len(pieces)
           S == {k \in Nat : \E f : IsDelivered(f, pieces, k)}
<1>1. 0 \in S
  <2>1. IsDelivered([i \in 0 .. 0 |-> << >>], pieces, 0)
    BY DEF IsDelivered
  <2> QED
    BY <2>1
<1>2. ASSUME NEW k \in Nat, k \in S PROVE k + 1 \in S
  <2>1. PICK f : IsDelivered(f, pieces, k)
    BY <1>2
  <2> DEFINE g == [i \in 0 .. k + 1 |-> IF i <= k THEN f[i] ELSE Longer(f[k], pieces[k + 1])]
  <2>2. ASSUME NEW i \in 0 .. k + 1
        PROVE  g[i] = IF i = 0 THEN << >>
                      ELSE IF pieces[i].piece # "message" THEN g[i - 1]
                      ELSE Append(g[i - 1], [id |-> pieces[i].id, tag |-> pieces[i].tag,
                                             text |-> pieces[i].text])
    <3>1. CASE i = 0
      BY <2>1, <3>1 DEF IsDelivered
    <3>2. CASE i \in 1 .. k
      <4>1. g[i] = f[i] /\ g[i - 1] = f[i - 1] /\ i # 0 /\ i \in 0 .. k
        BY <3>2
      <4> HIDE DEF g
      <4> QED
        BY <2>1, <4>1 DEF IsDelivered
    <3>3. CASE i = k + 1
      <4>1. g[i] = Longer(f[k], pieces[i]) /\ g[i - 1] = f[k] /\ i # 0
        BY <3>3
      <4> HIDE DEF g
      <4> QED
        BY <4>1 DEF Longer, AsRecord
    <3> QED
      BY <3>1, <3>2, <3>3
  <2>3. IsDelivered(g, pieces, k + 1)
    BY <2>2 DEF IsDelivered
  <2>4. \E h : IsDelivered(h, pieces, k + 1)
    <3> HIDE DEF g
    <3> QED
      BY <2>3
  <2> QED
    BY <2>4
<1>3. n \in S
  <2>1. n \in Nat
    OBVIOUS
  <2> HIDE DEF S, n
  <2>2. \A k \in 0 .. n - 1 : k \in S => k + 1 \in S
    BY <1>2, <2>1
  <2>3. 0 .. n \subseteq S
    BY <1>1, <2>1, <2>2, Induction
  <2> QED
    BY <2>1, <2>3
<1>4. \E f : IsDelivered(f, pieces, n)
  BY <1>3
<1> QED
  BY <1>4 DEF DeliveredUpTo, IsDelivered

LEMMA DeliveredSteps ==
  ASSUME NEW pieces, Len(pieces) \in Nat
  PROVE  /\ DeliveredUpTo(pieces)[0] = << >>
         /\ \A i \in 0 .. Len(pieces) - 1 :
              DeliveredUpTo(pieces)[i + 1] = Longer(DeliveredUpTo(pieces)[i], pieces[i + 1])
<1> DEFINE f == DeliveredUpTo(pieces)
<1>1. IsDelivered(f, pieces, Len(pieces))
  BY DeliveredDefined
<1> HIDE DEF f
<1>2. f[0] = << >>
  BY <1>1 DEF IsDelivered
<1>3. ASSUME NEW i \in 0 .. Len(pieces) - 1 PROVE f[i + 1] = Longer(f[i], pieces[i + 1])
  <2>1. i + 1 \in 0 .. Len(pieces) /\ i + 1 # 0 /\ (i + 1) - 1 = i
    OBVIOUS
  <2> QED
    BY <1>1, <2>1 DEF IsDelivered, Longer, AsRecord
<1> QED
  BY <1>2, <1>3 DEF f

LEMMA DeliveredAppend ==
  ASSUME NEW P, NEW pieces \in Seq(P), NEW p \in P
  PROVE  Delivered(Append(pieces, p)) = Longer(Delivered(pieces), p)
<1> DEFINE longer == Append(pieces, p)
           n == Len(pieces)
           f == DeliveredUpTo(pieces)
           g == DeliveredUpTo(longer)
           S == {i \in 0 .. n : g[i] = f[i]}
<1>1. /\ Len(longer) = n + 1 /\ longer[n + 1] = p /\ n \in Nat
      /\ \A i \in 1 .. n : longer[i] = pieces[i]
  OBVIOUS
<1>2. f[0] = << >> /\ \A i \in 0 .. n - 1 : f[i + 1] = Longer(f[i], pieces[i + 1])
  BY DeliveredSteps
<1>3. g[0] = << >> /\ \A i \in 0 .. n : g[i + 1] = Longer(g[i], longer[i + 1])
  <2> HIDE DEF longer, n, S, f
  <2>1. Len(longer) \in Nat
    BY <1>1
  <2>2. g[0] = << >> /\ \A i \in 0 .. Len(longer) - 1 : g[i + 1] = Longer(g[i], longer[i + 1])
    BY <2>1, DeliveredSteps
  <2> HIDE DEF g
  <2> QED
    BY <1>1, <2>2
<1> HIDE DEF f, g, longer, n
<1>4. 0 .. n \subseteq S
  <2>1. 0 \in S
    BY <1>1, <1>2, <1>3
  <2>2. ASSUME NEW i \in 0 .. n - 1, i \in S PROVE i + 1 \in S
    <3>1. g[i] = f[i] /\ i + 1 \in 1 .. n /\ i \in 0 .. n
      BY <1>1, <2>2
    <3>2. g[i + 1] = Longer(f[i], pieces[i + 1])
      BY <1>1, <1>3, <3>1
    <3>3. f[i + 1] = Longer(f[i], pieces[i + 1])
      BY <1>2
    <3> QED
      BY <1>1, <3>1, <3>2, <3>3
  <2> HIDE DEF S
  <2> QED
    BY <1>1, <2>1, <2>2, Induction
<1>5. g[n] = f[n]
  BY <1>1, <1>4
<1>6. g[n + 1] = Longer(f[n], p)
  BY <1>1, <1>3, <1>5
<1> QED
  BY <1>1, <1>6, DeliveredIsLast DEF f, g, longer, n

LEMMA DeliveredNothing == Delivered(<< >>) = << >>
  BY DeliveredSteps, DeliveredIsLast
-----------------------------------------------------------------------------
(***************************************************************************)
(* What the refinement of LogSink needs: an entity that is not in use has  *)
(* no text left; those in use serve different records, and neither they    *)
(* nor the output know a record that was not opened yet.                   *)
(***************************************************************************)
WasOpened(id) == id[2] <= opened[id[1]]

ServesOne ==
  /\ \A e \in Entities : ~InUse(e) => text[e] = << >>
  /\ \A e \in Entities : InUse(e) => WasOpened(serves[e])
  /\ \A e, f \in Entities : InUse(e) /\ InUse(f) /\ serves[e] = serves[f] => e = f

Records == [id : Ids, tag : Tags, text : Seq(Ids)]

OutputKnown ==
  /\ Delivered(console) \in Seq(Records)
  /\ \A i \in 1 .. Len(Delivered(console)) : WasOpened(Delivered(console)[i].id)

SinkInv == ServesOne /\ OutputKnown

Serving == {Served(e) : e \in {f \in Entities : InUse(f)}}

\* A step that changes neither who is in use, nor what for, nor the messages.
LEMMA SinkSame ==
  ASSUME SinkInv, UNCHANGED <<text, tag, serves, opened>>,
         Delivered(console)' = Delivered(console),
         \A e \in Entities : InUse(e)' <=> InUse(e)
  PROVE  SinkInv' /\ UNCHANGED Sink!vars
<1>1. \A e \in Entities : Served(e)' = Served(e)
  BY DEF Served
<1>2. Serving' = Serving
  BY <1>1 DEF Serving
<1>3. ServesOne'
  BY DEF SinkInv, ServesOne, WasOpened
<1>4. OutputKnown'
  BY DEF SinkInv, OutputKnown, WasOpened
<1> QED
  BY <1>2, <1>3, <1>4 DEF Serving, Sink!vars, SinkInv

\* A thread that gives up what it holds, or takes what it holds already.
LEMMA InUseSame ==
  ASSUME Inv, NEW t \in Threads,
         \/ \E s \in Slots : Destroy(t, s)
         \/ \E s, d \in Slots : Copy(t, s, d) \/ Assign(t, d, s)
         \/ Put(t) \/ AssignRef(t),
         NEW e \in Entities
  PROVE  InUse(e)' <=> InUse(e)
<1>0. TypeOK /\ Where /\ Owner /\ Counted
  BY DEF Inv, Owner
<1>1. ASSUME NEW s \in Slots, NEW f \in Entities, NEW next \in {"idle", "ref"}, at[t] \in {"idle", "ref"},
             rec[t][s] = f, rec' = [rec EXCEPT ![t][s] = None], Unref(t, f, next)
      PROVE  InUse(e)' <=> InUse(e)
  <2>1. releasing[t] = None
    BY <1>0, <1>1 DEF Where, AtWell, ReleasePlaces
  <2>2. /\ Holders(f)' = Holders(f) \ {<<t, s>>} /\ (ref[f] = 1 <=> Holders(f)' = {})
        /\ \A g \in Entities : g # f => Holders(g)' = Holders(g)
    BY <1>0, <1>1, Lose DEF Unref
  <2>3. \A u \in Threads : u # t => releasing'[u] = releasing[u] /\ at'[u] = at[u]
    BY <1>0, <1>1 DEF Unref, GoTo, TypeOK
  <2>4. releasing'[t] = IF ref[f] = 1 THEN f ELSE None
    BY <1>0, <1>1, <2>1 DEF Unref, TypeOK
  <2>5. ref[f] = 1 => at'[t] = "release"
    BY <1>0, <1>1 DEF Unref, GoTo, TypeOK
  <2>6. CASE e = f
    <3>1. <<t, s>> \in Holders(f)
      BY <1>1 DEF Holders
    <3>2. InUse(e)
      BY <2>6, <3>1 DEF InUse
    <3>3. ref[f] = 1 => t \in Releasing(e)' /\ at'[t] # "put"
      BY <2>4, <2>5, <2>6 DEF Releasing
    <3>4. InUse(e)'
      BY <2>2, <2>6, <3>3 DEF InUse
    <3> QED
      BY <3>2, <3>4
  <2>7. CASE e # f
    <3>1. Releasing(e)' = Releasing(e) /\ t \notin Releasing(e)
      BY <2>1, <2>3, <2>4, <2>7 DEF Releasing
    <3>2. \A u \in Releasing(e) : at'[u] = at[u]
      BY <2>3, <3>1 DEF Releasing
    <3> QED
      BY <2>2, <2>7, <3>1, <3>2 DEF InUse
  <2> QED
    BY <2>6, <2>7
<1>2. ASSUME NEW s \in Slots, NEW r \in Slots, NEW f \in Entities, rec[t][s] = None, rec[t][r] = f,
             rec' = [rec EXCEPT ![t][s] = f], ref' = [ref EXCEPT ![f] = @ + 1],
             at[t] \in {"idle", "ref"}, at' \in {at, [at EXCEPT ![t] = "idle"]}, UNCHANGED releasing
      PROVE  InUse(e)' <=> InUse(e)
  <2>1. releasing[t] = None
    BY <1>0, <1>2 DEF Where, AtWell, ReleasePlaces
  <2>2. /\ Holders(f)' = Holders(f) \cup {<<t, s>>}
        /\ \A g \in Entities : g # f => Holders(g)' = Holders(g)
    BY <1>0, <1>2, Gain
  <2>3. <<t, r>> \in Holders(f)
    BY <1>2 DEF Holders
  <2>4. (Holders(e)' # {}) <=> (Holders(e) # {})
    BY <2>2, <2>3
  <2>5. Releasing(e)' = Releasing(e) /\ \A u \in Releasing(e) : at'[u] = at[u]
    BY <1>0, <1>2, <2>1 DEF Releasing, TypeOK
  <2> QED
    BY <2>4, <2>5 DEF InUse
<1>3. ASSUME NEW s \in Slots, Destroy(t, s) PROVE InUse(e)' <=> InUse(e)
  <2>1. /\ at[t] = "idle" /\ rec[t][s] \in Entities
        /\ Unref(t, rec[t][s], "idle") /\ rec' = [rec EXCEPT ![t][s] = None]
    BY <1>0, <1>3 DEF Destroy, TypeOK
  <2> QED
    BY <1>1, <2>1
<1>4. ASSUME NEW s \in Slots, NEW d \in Slots, Assign(t, d, s) PROVE InUse(e)' <=> InUse(e)
  <2>1. /\ at[t] = "idle" /\ rec[t][d] \in Entities
        /\ Unref(t, rec[t][d], "ref") /\ rec' = [rec EXCEPT ![t][d] = None]
    BY <1>0, <1>4 DEF Assign, TypeOK
  <2> QED
    BY <1>1, <2>1
<1>5. ASSUME NEW s \in Slots, NEW d \in Slots, Copy(t, s, d) PROVE InUse(e)' <=> InUse(e)
  <2>1. /\ at[t] = "idle" /\ rec[t][s] \in Entities /\ rec[t][d] = None
        /\ ref' = [ref EXCEPT ![rec[t][s]] = @ + 1] /\ rec' = [rec EXCEPT ![t][d] = rec[t][s]]
        /\ at' = at /\ releasing' = releasing
    BY <1>0, <1>5 DEF Copy, TypeOK
  <2> QED
    BY <1>2, <2>1
<1>6. CASE AssignRef(t)
  <2>1. /\ rhs[t].slot \in Slots /\ rhs[t].entity \in Entities
        /\ rec[t][rhs[t].slot] = None /\ \E r \in Slots : rec[t][r] = rhs[t].entity
    BY <1>0, <1>6 DEF AssignRef, Where, AtWell
  <2> QED
    BY <1>2, <1>6, <2>1 DEF AssignRef, GoTo
<1>7. CASE Put(t)
  <2>1. /\ at[t] = "put" /\ releasing[t] \in Entities
        /\ rec' = rec /\ releasing' = [releasing EXCEPT ![t] = None]
    BY <1>0, <1>7 DEF Put, Where, AtWell, ReleasePlaces, TypeOK
  <2>2. \A u \in Threads : u # t => releasing'[u] = releasing[u] /\ at'[u] = at[u]
    BY <1>0, <1>7 DEF Put, GoTo, TypeOK
  <2>3. releasing'[t] = None
    BY <1>0, <2>1 DEF TypeOK
  <2>4. Holders(e)' = Holders(e)
    BY <2>1 DEF Holders
  <2>5. Releasing(e)' = Releasing(e) \ {t}
    BY <2>2, <2>3 DEF Releasing
  <2>6. \A u \in Releasing(e)' : at'[u] = at[u]
    BY <2>2, <2>5 DEF Releasing
  <2> QED
    BY <2>1, <2>4, <2>5, <2>6 DEF InUse
<1> QED
  BY <1>3, <1>4, <1>5, <1>6, <1>7

\* A step of release that goes on with the same record.
LEMMA ReleaseGoesOn ==
  ASSUME Inv, NEW t \in Threads, NEW e \in Entities, at[t] # "put", NEW p, p # "put",
         at' = [at EXCEPT ![t] = p], UNCHANGED <<rec, releasing>>
  PROVE  InUse(e)' <=> InUse(e)
<1>1. Holders(e)' = Holders(e) /\ Releasing(e)' = Releasing(e)
  BY DEF Holders, Releasing
<1>2. \A u \in Threads : at'[u] = "put" <=> at[u] = "put"
  BY DEF Inv, TypeOK
<1> QED
  BY <1>1, <1>2 DEF InUse, Releasing

\* The step of release that resets the text: its record is no longer open.
LEMMA ReleaseEnds ==
  ASSUME Inv, ServesOne, NEW t \in Threads, at[t] \in {"release", "log4cxx", "message"},
         at' = [at EXCEPT ![t] = "put"], Reset(releasing[t]),
         UNCHANGED <<rec, releasing, tag, serves, opened>>
  PROVE  /\ ServesOne' /\ releasing[t] \in Entities /\ InUse(releasing[t])
         /\ \A f \in Entities : InUse(f)' <=> InUse(f) /\ f # releasing[t]
         /\ \A f \in Entities : f # releasing[t] => text'[f] = text[f]
         /\ Served(releasing[t]) \in Serving
         /\ Serving' = Serving \ {Served(releasing[t])}
<1>0. releasing[t] \in Entities
  BY DEF Inv, Where, AtWell, ReleasePlaces, TypeOK
<1>1. PICK e \in Entities : e = releasing[t]
  BY <1>0
<1>2. t \in Releasing(e)
  BY <1>1 DEF Releasing
<1>3. Holders(e) = {} /\ Releasing(e) = {t} /\ \A f \in Entities : f # e => t \notin Releasing(f)
  BY <1>1, <1>2 DEF Inv, Owner, Owned, Releasing
<1>4. InUse(e)
  BY <1>2 DEF InUse
<1>5. \A f \in Entities : Holders(f)' = Holders(f) /\ Releasing(f)' = Releasing(f)
  BY DEF Holders, Releasing
<1>6. at'[t] = "put" /\ \A u \in Threads : u # t => at'[u] = at[u]
  BY DEF Inv, TypeOK
<1>7. \A f \in Entities : InUse(f)' <=> InUse(f) /\ f # e
  <2>1. ~InUse(e)'
    BY <1>1, <1>3, <1>5, <1>6 DEF InUse
  <2>2. ASSUME NEW f \in Entities, f # e PROVE InUse(f)' <=> InUse(f)
    <3>1. \A u \in Releasing(f) : at'[u] = at[u]
      BY <1>3, <1>6, <2>2 DEF Releasing
    <3> QED
      BY <1>5, <3>1 DEF InUse
  <2> QED
    BY <1>4, <2>1, <2>2
<1>8. text'[e] = << >> /\ \A f \in Entities : f # e => text'[f] = text[f]
  <2>1. text' = [text EXCEPT ![e] = << >>]
    BY <1>1 DEF Reset
  <2> QED
    BY <1>1, <2>1 DEF Inv, TypeOK
<1>9. ServesOne'
  BY <1>7, <1>8 DEF ServesOne, WasOpened
<1>10. \A f \in Entities : f # e => Served(f)' = Served(f)
  BY <1>8 DEF Served
<1>11. \A f \in Entities : InUse(f) /\ f # e => Served(f) # Served(e)
  BY <1>1, <1>4 DEF ServesOne, Served
<1>12. Served(e) \in Serving
  BY <1>1, <1>4 DEF Serving
<1>13. Serving' = Serving \ {Served(e)}
  <2>1. Serving' = {Served(f) : f \in {g \in Entities : InUse(g) /\ g # e}}
    BY <1>7, <1>10 DEF Serving
  <2> QED
    BY <1>1, <1>4, <1>11, <2>1 DEF Serving
<1> QED
  BY <1>1, <1>4, <1>7, <1>8, <1>9, <1>12, <1>13

\* What get gives serves the new record, and nobody else's.
LEMMA ConstructServes ==
  ASSUME Inv, ServesOne, NEW t \in Threads, NEW s \in Slots, NEW tg \in Tags, Construct(t, s, tg)
  PROVE  \E e \in Entities :
           /\ ~InUse(e) /\ \A f \in Entities : InUse(f)' <=> InUse(f) \/ f = e
           /\ text'[e] = << >> /\ UNCHANGED <<text, console>>
           /\ tag' = [tag EXCEPT ![e] = tg]
           /\ whandler' = [whandler EXCEPT ![e] = handler[tg.module]]
           /\ serves' = [serves EXCEPT ![e] = <<t, opened[t] + 1>>]
<1>1. PICK e \in Entities :
        /\ CacheGet(e) /\ rec' = [rec EXCEPT ![t][s] = e]
        /\ whandler' = [whandler EXCEPT ![e] = handler[tg.module]]
        /\ tag' = [tag EXCEPT ![e] = tg]
        /\ serves' = [serves EXCEPT ![e] = <<t, opened[t] + 1>>]
  BY DEF Construct
<1>2. UNCHANGED <<text, console, at, releasing>> /\ rec[t][s] = None
  BY DEF Construct, outputVars
<1>3. Holders(e) = {} /\ Releasing(e) = {}
  BY <1>1, CacheGetOwner DEF Inv
<1>4. ~InUse(e)
  BY <1>3 DEF InUse
<1>5. \A u \in Threads, r \in Slots : rec'[u][r] = IF u = t /\ r = s THEN e ELSE rec[u][r]
  BY <1>1 DEF Inv, TypeOK
<1>6. \A f \in Entities : Releasing(f)' = Releasing(f)
  BY <1>2 DEF Releasing
<1>7. <<t, s>> \in Holders(e)' /\ \A f \in Entities : f # e => Holders(f)' = Holders(f)
  BY <1>2, <1>5 DEF Holders
<1>8. \A f \in Entities : InUse(f)' <=> InUse(f) \/ f = e
  BY <1>2, <1>6, <1>7 DEF InUse
<1>9. text'[e] = << >>
  BY <1>2, <1>4 DEF ServesOne
<1> QED
  BY <1>1, <1>2, <1>4, <1>8, <1>9

\* The record that is opened is new.
LEMMA OpensNew ==
  ASSUME Inv, NEW t \in Threads, NEW s, NEW tg, Construct(t, s, tg)
  PROVE  /\ <<t, opened[t] + 1>> \in Ids
         /\ ~WasOpened(<<t, opened[t] + 1>>)
         /\ \A id \in Ids : WasOpened(id)' <=> WasOpened(id) \/ id = <<t, opened[t] + 1>>
<1>1. opened[t] \in Nat /\ opened[t] + 1 \in 1 .. MaxRecords[t]
  BY DEF Construct, Inv, TypeOK
<1>2. \A u \in Threads : opened'[u] = IF u = t THEN opened[t] + 1 ELSE opened[u]
  BY DEF Construct, Inv, TypeOK
<1>3. <<t, opened[t] + 1>> \in Ids
  BY <1>1, IdsAreTuples
<1>4. ASSUME NEW id \in Ids PROVE WasOpened(id)' <=> WasOpened(id) \/ id = <<t, opened[t] + 1>>
  <2>1. PICK u \in Threads : \E n \in 1 .. MaxRecords[u] : id = <<u, n>>
    BY DEF Ids
  <2> PICK n \in 1 .. MaxRecords[u] : id = <<u, n>>
    BY <2>1
  <2>2. n \in Nat /\ opened[u] \in Nat
    BY DEF Inv, TypeOK
  <2>3. u = t => (n <= opened[t] + 1 <=> n <= opened[t] \/ n = opened[t] + 1)
    BY <2>2
  <2> QED
    BY <1>2, <2>1, <2>2, <2>3 DEF WasOpened
<1>5. ~WasOpened(<<t, opened[t] + 1>>)
  <2>1. ~(opened[t] + 1 <= opened[t])
    BY <1>1
  <2> QED
    BY <2>1 DEF WasOpened
<1> QED
  BY <1>3, <1>4, <1>5

LEMMA ConstructKeeps ==
  ASSUME Inv, ServesOne, NEW t \in Threads, NEW s \in Slots, NEW tg \in Tags, Construct(t, s, tg)
  PROVE  /\ ServesOne'
         /\ Serving' = Serving \cup {[id |-> <<t, opened[t] + 1>>, tag |-> tg, text |-> << >>]}
<1>0. PICK id \in Ids : id = <<t, opened[t] + 1>>
  BY OpensNew
<1>1. PICK e \in Entities :
        /\ ~InUse(e) /\ \A f \in Entities : InUse(f)' <=> InUse(f) \/ f = e
        /\ text'[e] = << >> /\ UNCHANGED text
        /\ tag' = [tag EXCEPT ![e] = tg]
        /\ serves' = [serves EXCEPT ![e] = id]
  BY <1>0, ConstructServes
<1>2. ~WasOpened(id) /\ \A i \in Ids : WasOpened(i)' <=> WasOpened(i) \/ i = id
  BY <1>0, OpensNew
<1>3. /\ serves'[e] = id /\ tag'[e] = tg
      /\ \A f \in Entities : f # e => serves'[f] = serves[f] /\ tag'[f] = tag[f]
      /\ \A f \in Entities : serves[f] \in Ids
  BY <1>1 DEF Inv, TypeOK
<1>4. \A f \in Entities : InUse(f) => serves[f] # id
  BY <1>2 DEF ServesOne
<1>5. ServesOne'
  <2>1. ASSUME NEW f \in Entities
        PROVE  /\ ~InUse(f)' => text'[f] = << >>
               /\ InUse(f)' => serves'[f][2] <= opened'[serves'[f][1]]
    <3>1. CASE f = e
      BY <1>1, <1>2, <1>3, <3>1 DEF WasOpened
    <3>2. CASE f # e
      <4>1. InUse(f) => WasOpened(serves[f]) /\ serves'[f] = serves[f] /\ serves[f] \in Ids
        BY <1>3, <3>2 DEF ServesOne
      <4>2. WasOpened(serves[f]) => serves[f][2] <= opened'[serves[f][1]]
        BY <1>2, <1>3 DEF WasOpened
      <4> QED
        BY <1>1, <3>2, <4>1, <4>2 DEF ServesOne, WasOpened
    <3> QED
      BY <3>1, <3>2
  <2>2. ASSUME NEW f \in Entities, NEW g \in Entities, InUse(f)', InUse(g)', serves'[f] = serves'[g]
        PROVE  f = g
    BY <1>1, <1>3, <1>4, <2>2 DEF ServesOne
  <2> QED
    BY <2>1, <2>2 DEF ServesOne, WasOpened
<1>6. \A f \in Entities : f # e => Served(f)' = Served(f)
  BY <1>1, <1>3 DEF Served
<1>7. Served(e)' = [id |-> id, tag |-> tg, text |-> << >>]
  BY <1>1, <1>3 DEF Served
<1>8. Serving' = Serving \cup {[id |-> id, tag |-> tg, text |-> << >>]}
  <2>1. Serving' = {Served(f) : f \in {g \in Entities : InUse(g)}} \cup {Served(e)'}
    BY <1>1, <1>6 DEF Serving
  <2> QED
    BY <1>7, <2>1 DEF Serving
<1> QED
  BY <1>0, <1>5, <1>8

\* A write that fits goes to the text of its own record; one that does not
\* fit goes nowhere.
LEMMA WriteKeeps ==
  ASSUME Inv, ServesOne, NEW t \in Threads, NEW s \in Slots, Write(t, s)
  PROVE  /\ ServesOne'
         /\ \A f \in Entities : InUse(f)' <=> InUse(f)
         /\ rec[t][s] \in Entities /\ InUse(rec[t][s])
         /\ \/ Serving' = Serving
            \/ LET r == Served(rec[t][s])
               IN  Serving' = (Serving \ {r}) \cup {[r EXCEPT !.text = Append(@, r.id)]}
         /\ Served(rec[t][s]) \in Serving
<1>0. rec[t][s] \in Entities
  BY DEF Write, Inv, TypeOK
<1>1. PICK e \in Entities : e = rec[t][s]
  BY <1>0
<1>2. <<t, s>> \in Holders(e)
  BY <1>1 DEF Holders
<1>3. InUse(e)
  BY <1>2 DEF InUse
<1>4. /\ UNCHANGED <<rec, at, releasing, tag, serves, opened>>
      /\ text' = text \/ text' = [text EXCEPT ![e] = Append(@, serves[e])]
  BY <1>1 DEF Write, threadVars
<1>5. \A f \in Entities : Holders(f)' = Holders(f) /\ Releasing(f)' = Releasing(f)
  BY <1>4 DEF Holders, Releasing
<1>6. \A f \in Entities : InUse(f)' <=> InUse(f)
  BY <1>4, <1>5 DEF InUse
<1>7. \A f \in Entities : f # e => text'[f] = text[f] /\ Served(f)' = Served(f)
  <2>1. \A f \in Entities : f # e => text'[f] = text[f]
    BY <1>4 DEF Inv, TypeOK
  <2> QED
    BY <1>4, <2>1 DEF Served
<1>8. ServesOne'
  BY <1>3, <1>4, <1>6, <1>7 DEF ServesOne, WasOpened
<1>9. \A f \in Entities : InUse(f) /\ f # e => Served(f) # Served(e)
  BY <1>3 DEF ServesOne, Served
<1>10. Served(e) \in Serving
  BY <1>3 DEF Serving
<1>11. Serving' = (Serving \ {Served(e)}) \cup {Served(e)'}
  <2>1. Serving' = {Served(f) : f \in {g \in Entities : InUse(g) /\ g # e}} \cup {Served(e)'}
    BY <1>3, <1>6, <1>7 DEF Serving
  <2>2. {Served(f) : f \in {g \in Entities : InUse(g) /\ g # e}} = Serving \ {Served(e)}
    BY <1>9 DEF Serving
  <2> QED
    BY <2>1, <2>2
<1>12. \/ Served(e)' = Served(e)
       \/ Served(e)' = [Served(e) EXCEPT !.text = Append(@, Served(e).id)]
  <2>1. CASE text' = text
    BY <1>4, <2>1 DEF Served
  <2>2. CASE text' = [text EXCEPT ![e] = Append(@, serves[e])]
    <3>1. text'[e] = Append(text[e], serves[e])
      BY <2>2 DEF Inv, TypeOK
    <3>2. Served(e)' = [id |-> serves[e], tag |-> tag[e], text |-> Append(text[e], serves[e])]
      BY <1>4, <3>1 DEF Served
    <3>3. [Served(e) EXCEPT !.text = Append(@, Served(e).id)]
            = [id |-> serves[e], tag |-> tag[e], text |-> Append(text[e], serves[e])]
      <4>1. /\ Served(e).id = serves[e] /\ Served(e).text = text[e]
            /\ \A new : [Served(e) EXCEPT !.text = new]
                          = [id |-> serves[e], tag |-> tag[e], text |-> new]
        BY DEF Served
      <4> QED
        BY <4>1
    <3> QED
      BY <3>2, <3>3
  <2> QED
    BY <1>4, <2>1, <2>2
<1>13. \/ Serving' = Serving
       \/ Serving' = (Serving \ {Served(e)})
                       \cup {[Served(e) EXCEPT !.text = Append(@, Served(e).id)]}
  BY <1>10, <1>11, <1>12
<1> QED
  BY <1>1, <1>3, <1>6, <1>8, <1>10, <1>13

\* What one piece more on the console does to the output.
LEMMA DeliveredPiece ==
  ASSUME Inv, NEW e \in Entities, NEW what \in {"module", "message"},
         console' = Append(console, Piece(e, what))
  PROVE  Delivered(console)' = IF what = "message" THEN Append(Delivered(console), Served(e))
                               ELSE Delivered(console)
<1>1. console \in Seq(Pieces) /\ Piece(e, what) \in Pieces
  BY DEF Inv, TypeOK, Piece, Pieces
<1>2. Delivered(Append(console, Piece(e, what))) = Longer(Delivered(console), Piece(e, what))
  BY <1>1, DeliveredAppend
<1>3. Delivered(console)' = Delivered(console')
  BY DEF Delivered
<1>4. Piece(e, what).piece = what /\ AsRecord(Piece(e, what)) = Served(e)
  BY DEF Piece, AsRecord, Served
<1> QED
  BY <1>2, <1>3, <1>4 DEF Longer

LEMMA DeliveredSame ==
  ASSUME UNCHANGED console
  PROVE  Delivered(console)' = Delivered(console)
  BY DEF Delivered

\* One action of LogRecords, one of LogSink: opening a record.
LEMMA SinkOpen ==
  ASSUME Inv, SinkInv, NEW t \in Threads, NEW s \in Slots, NEW tg \in Tags, Construct(t, s, tg)
  PROVE  SinkInv' /\ [Sink!Next]_(Sink!vars)
<1>1. PICK id \in Ids : id = <<t, opened[t] + 1>>
  BY OpensNew
<1>2. ~WasOpened(id) /\ \A i \in Ids : WasOpened(i)' <=> WasOpened(i) \/ i = id
  BY <1>1, OpensNew
<1>3. ServesOne' /\ Serving' = Serving \cup {[id |-> id, tag |-> tg, text |-> << >>]}
  BY <1>1, ConstructKeeps DEF SinkInv
<1>4. Delivered(console)' = Delivered(console)
  BY DeliveredSame DEF Construct, outputVars
<1>5. \A i \in 1 .. Len(Delivered(console)) : /\ WasOpened(Delivered(console)[i].id)
                                              /\ Delivered(console)[i].id \in Ids
  <2> DEFINE out == Delivered(console)
  <2>1. out \in Seq(Records) /\ \A i \in 1 .. Len(out) : WasOpened(out[i].id)
    BY DEF SinkInv, OutputKnown
  <2> HIDE DEF out
  <2>2. \A i \in 1 .. Len(out) : out[i] \in Records
    BY <2>1
  <2> QED
    BY <2>1, <2>2 DEF Records, out
<1>6. OutputKnown'
  BY <1>2, <1>4, <1>5 DEF SinkInv, OutputKnown, WasOpened
<1>7. \A r \in Serving : r.id # id
  BY <1>2 DEF Serving, Served, SinkInv, ServesOne
<1>8. \A i \in 1 .. Len(Delivered(console)) : Delivered(console)[i].id # id
  BY <1>2, <1>5
<1>9. Sink!Open(id, tg)
  BY <1>3, <1>4, <1>7, <1>8 DEF Sink!Open, Serving
<1> QED
  BY <1>3, <1>6, <1>9 DEF SinkInv, Sink!Next

LEMMA SinkWrite ==
  ASSUME Inv, SinkInv, NEW t \in Threads, NEW s \in Slots, Write(t, s)
  PROVE  SinkInv' /\ [Sink!Next]_(Sink!vars)
<1> DEFINE r == Served(rec[t][s])
<1>1. /\ ServesOne' /\ r \in Serving
      /\ \/ Serving' = Serving
         \/ Serving' = (Serving \ {r}) \cup {[r EXCEPT !.text = Append(@, r.id)]}
  BY WriteKeeps DEF SinkInv
<1>2. Delivered(console)' = Delivered(console)
  BY DeliveredSame DEF Write, outputVars
<1>3. UNCHANGED opened
  BY DEF Write
<1>4. OutputKnown'
  BY <1>2, <1>3 DEF SinkInv, OutputKnown, WasOpened
<1> HIDE DEF r
<1>5. CASE Serving' = Serving
  BY <1>1, <1>2, <1>4, <1>5 DEF SinkInv, Sink!vars, Serving
<1>6. CASE Serving' = (Serving \ {r}) \cup {[r EXCEPT !.text = Append(@, r.id)]}
  <2>1. Sink!Write(r)
    BY <1>1, <1>2, <1>6 DEF Sink!Write, Serving
  <2> QED
    BY <1>1, <1>4, <2>1 DEF SinkInv, Sink!Next, Serving
<1> QED
  BY <1>1, <1>5, <1>6

\* The steps of release.
LEMMA SinkRelease ==
  ASSUME Inv, SinkInv, NEW t \in Threads,
         Release(t) \/ Log4cxx(t) \/ ConsoleModule(t) \/ ConsoleMessage(t)
  PROVE  SinkInv' /\ [Sink!Next]_(Sink!vars)
<1> USE DEF GoTo
<1>0. releasing[t] \in Entities /\ at[t] # "put"
  BY DEF Release, Log4cxx, ConsoleModule, ConsoleMessage, Inv, Where, AtWell, ReleasePlaces, TypeOK
<1>1. UNCHANGED <<rec, releasing, tag, serves, opened>>
  BY DEF Release, Log4cxx, ConsoleModule, ConsoleMessage, ReleaseUnchanged, callerVars
<1>2. CASE /\ UNCHANGED text /\ Delivered(console)' = Delivered(console)
           /\ \E p \in {"log4cxx", "module", "message"} : at' = [at EXCEPT ![t] = p]
  <2>1. \A e \in Entities : InUse(e)' <=> InUse(e)
    BY <1>0, <1>1, <1>2, ReleaseGoesOn
  <2> QED
    BY <1>1, <1>2, <2>1, SinkSame
<1>3. CASE /\ at[t] \in {"release", "log4cxx", "message"} /\ at' = [at EXCEPT ![t] = "put"]
           /\ Reset(releasing[t])
           /\ \/ Delivered(console)' = Delivered(console)
              \/ Delivered(console)' = Append(Delivered(console), Served(releasing[t]))
  <2> DEFINE r == Served(releasing[t])
  <2>1. ServesOne' /\ r \in Serving /\ Serving' = Serving \ {r} /\ InUse(releasing[t])
    BY <1>1, <1>3, ReleaseEnds DEF SinkInv
  <2>2. r \in Records /\ WasOpened(r.id)
    BY <1>0, <2>1 DEF Served, Records, SinkInv, ServesOne, Inv, TypeOK
  <2> HIDE DEF r
  <2>3. CASE Delivered(console)' = Delivered(console)
    <3>1. OutputKnown'
      BY <1>1, <2>3 DEF SinkInv, OutputKnown, WasOpened
    <3>2. Sink!Drop(r)
      BY <2>1, <2>3 DEF Sink!Drop, Serving
    <3> QED
      BY <2>1, <3>1, <3>2 DEF SinkInv, Sink!Next, Serving
  <2>4. CASE Delivered(console)' = Append(Delivered(console), r)
    <3>1. OutputKnown'
      <4> DEFINE out == Delivered(console)
      <4>1. out \in Seq(Records) /\ \A i \in 1 .. Len(out) : WasOpened(out[i].id)
        BY DEF SinkInv, OutputKnown
      <4> HIDE DEF out
      <4>2. /\ Append(out, r) \in Seq(Records)
            /\ \A i \in 1 .. Len(Append(out, r)) : WasOpened(Append(out, r)[i].id)
        BY <2>2, <4>1
      <4> QED
        BY <1>1, <2>4, <4>2 DEF OutputKnown, WasOpened, out
    <3>2. Sink!Deliver(r)
      BY <2>1, <2>4 DEF Sink!Deliver, Serving
    <3> QED
      BY <2>1, <3>1, <3>2 DEF SinkInv, Sink!Next, Serving
  <2> QED
    BY <1>3, <2>3, <2>4 DEF r
<1>4. CASE Release(t) \/ Log4cxx(t)
  <2>1. Delivered(console)' = Delivered(console)
    BY <1>4, DeliveredSame DEF Release, Log4cxx, outputVars
  <2> QED
    BY <1>2, <1>3, <1>4, <2>1 DEF Release, Log4cxx
<1>5. CASE ConsoleModule(t)
  <2>1. Delivered(console)' = Delivered(console)
    BY <1>0, <1>5, DeliveredPiece DEF ConsoleModule
  <2> QED
    BY <1>2, <1>5, <2>1 DEF ConsoleModule
<1>6. CASE ConsoleMessage(t)
  <2>1. Delivered(console)' = Append(Delivered(console), Served(releasing[t]))
    BY <1>0, <1>6, DeliveredPiece DEF ConsoleMessage
  <2> QED
    BY <1>3, <1>6, <2>1 DEF ConsoleMessage
<1> QED
  BY <1>4, <1>5, <1>6

LEMMA SinkStep ==
  ASSUME Inv, SinkInv, [Next]_vars
  PROVE  SinkInv' /\ [Sink!Next]_(Sink!vars)
<1>1. ASSUME NEW t \in Threads,
             \/ \E s \in Slots : Destroy(t, s)
             \/ \E s, d \in Slots : Copy(t, s, d) \/ Assign(t, d, s)
             \/ Put(t) \/ AssignRef(t)
      PROVE  SinkInv' /\ UNCHANGED Sink!vars
  <2>1. UNCHANGED <<text, tag, serves, opened, console>>
    BY <1>1 DEF Destroy, Copy, Assign, Put, AssignRef, entityVars, outputVars, callerVars
  <2>2. Delivered(console)' = Delivered(console)
    BY <2>1, DeliveredSame
  <2>3. \A e \in Entities : InUse(e)' <=> InUse(e)
    BY <1>1, InUseSame
  <2> QED
    BY <2>1, <2>2, <2>3, SinkSame
<1>2. CASE UNCHANGED vars
  <2>1. UNCHANGED <<text, tag, serves, opened, console, rec, at, releasing>>
    BY <1>2 DEF vars, entityVars, outputVars, callerVars, threadVars
  <2>2. \A e \in Entities : InUse(e)' <=> InUse(e)
    BY <2>1 DEF InUse, Holders, Releasing
  <2>3. Delivered(console)' = Delivered(console)
    BY <2>1, DeliveredSame
  <2> QED
    BY <2>1, <2>2, <2>3, SinkSame
<1> QED
  BY <1>1, <1>2, SinkOpen, SinkWrite, SinkRelease DEF Next, Caller

LEMMA SinkInit == Init => SinkInv /\ Sink!Init
<1> SUFFICES ASSUME Init PROVE SinkInv /\ Sink!Init
  OBVIOUS
<1>1. \A e \in Entities : ~InUse(e) /\ text[e] = << >>
  BY DEF Init, InUse, Holders, Releasing
<1>2. Delivered(console) = << >>
  BY DeliveredNothing DEF Init
<1> QED
  BY <1>1, <1>2 DEF SinkInv, ServesOne, OutputKnown, Sink!Init

(***************************************************************************)
(* LogRecords implements LogSink: whatever records are copied, assigned    *)
(* and destroyed in whatever threads, and however the entities go from one *)
(* record to the next through the cache, a record has a text of its own,   *)
(* which is delivered at most once, with its own tag and with nothing else *)
(* (log.cc 48-74, 105-182, loghandler.cc 18-64).                           *)
(***************************************************************************)
THEOREM LogImplementsSink == Spec => ImplementsLogSink
<1>1. Init => Sink!Init /\ SinkInv
  BY SinkInit
<1>2. Inv /\ SinkInv /\ [Next]_vars => SinkInv' /\ [Sink!Next]_(Sink!vars)
  BY SinkStep
<1> QED
  BY <1>1, <1>2, InvHolds, PTL DEF Spec, Sink!Spec, ImplementsLogSink
-----------------------------------------------------------------------------
(***************************************************************************)
(* What NothingLostWithoutOverflow needs while no buffer has overflowed:   *)
(* an entity in use carries the whole record it serves, of which nothing   *)
(* was delivered yet; a record that no entity serves any more is done; and *)
(* a thread inside the console handler has been at log4cxx.                *)
(***************************************************************************)
Whole == \A e \in Entities : ~bad[e]

NoMessage(id) == \A i \in 1 .. Len(console) : ~(console[i].piece = "message" /\ console[i].id = id)

Done(id) ==
  info[id].level = "INFO" /\ handler[info[id].module] /\ written[id] > 0 =>
    /\ id \in logged
    /\ \E n \in 1 .. Len(console) : {i \in 1 .. Len(console) : console[i] = Message(id)} = {n}

Faithful(e) ==
  InUse(e) =>
    /\ tag[e] = info[serves[e]] /\ whandler[e] = handler[tag[e].module]
    /\ text[e] = [i \in 1 .. written[serves[e]] |-> serves[e]]
    /\ NoMessage(serves[e])

AtConsole(t) == at[t] \in {"module", "message"} => serves[releasing[t]] \in logged
Untouched(id) == ~WasOpened(id) => written[id] = 0 /\ NoMessage(id)
Finished(id) == WasOpened(id) /\ (\A e \in Entities : InUse(e) => serves[e] # id) => Done(id)

DeliveryInv ==
  Whole => /\ \A e \in Entities : Faithful(e)
           /\ \A t \in Threads : AtConsole(t)
           /\ \A id \in Ids : Untouched(id) /\ Finished(id)

LEMMA DeliverySame ==
  ASSUME DeliveryInv,
         UNCHANGED <<text, bad, tag, whandler, serves, console, logged, opened, info, written, handler>>,
         \A e \in Entities : InUse(e)' <=> InUse(e),
         \A t \in Threads : at'[t] \in {"module", "message"} =>
                              at[t] \in {"module", "message"} /\ releasing'[t] = releasing[t]
  PROVE  DeliveryInv'
<1> SUFFICES ASSUME Whole'
             PROVE  /\ \A e \in Entities : Faithful(e)'
                    /\ \A t \in Threads : AtConsole(t)'
                    /\ \A id \in Ids : Untouched(id)' /\ Finished(id)'
  BY DEF DeliveryInv
<1>1. Whole
  BY DEF Whole
<1>2. ASSUME NEW e \in Entities PROVE Faithful(e)'
  BY <1>1 DEF DeliveryInv, Faithful, NoMessage
<1>3. ASSUME NEW t \in Threads PROVE AtConsole(t)'
  BY <1>1 DEF DeliveryInv, AtConsole
<1>4. ASSUME NEW id \in Ids PROVE Untouched(id)' /\ Finished(id)'
  BY <1>1 DEF DeliveryInv, Untouched, Finished, NoMessage, WasOpened, Done, Message
<1> QED
  BY <1>2, <1>3, <1>4

\* A new record is served whole.
LEMMA DeliveryConstruct ==
  ASSUME Inv, SinkInv, DeliveryInv,
         NEW t \in Threads, NEW s \in Slots, NEW tg \in Tags, Construct(t, s, tg)
  PROVE  DeliveryInv'
<1> SUFFICES ASSUME Whole'
             PROVE  /\ \A e \in Entities : Faithful(e)'
                    /\ \A u \in Threads : AtConsole(u)'
                    /\ \A id \in Ids : Untouched(id)' /\ Finished(id)'
  BY DEF DeliveryInv
<1>0. UNCHANGED <<handler, text, bad, at, releasing, console, logged, written>>
  BY DEF Construct, outputVars
<1>1. Whole
  BY <1>0 DEF Whole
<1>2. PICK id \in Ids : id = <<t, opened[t] + 1>>
  BY OpensNew
<1>3. ~WasOpened(id) /\ \A i \in Ids : WasOpened(i)' <=> WasOpened(i) \/ i = id
  BY <1>2, OpensNew
<1>4. PICK e \in Entities :
        /\ ~InUse(e) /\ \A f \in Entities : InUse(f)' <=> InUse(f) \/ f = e
        /\ text'[e] = << >>
        /\ tag' = [tag EXCEPT ![e] = tg]
        /\ whandler' = [whandler EXCEPT ![e] = handler[tg.module]]
        /\ serves' = [serves EXCEPT ![e] = id]
  BY <1>2, ConstructServes DEF SinkInv
<1>5. /\ serves'[e] = id /\ tag'[e] = tg /\ whandler'[e] = handler[tg.module]
      /\ \A f \in Entities : f # e => /\ serves'[f] = serves[f] /\ tag'[f] = tag[f]
                                      /\ whandler'[f] = whandler[f]
      /\ \A f \in Entities : serves[f] \in Ids
  BY <1>4 DEF Inv, TypeOK
<1>6. info' = [info EXCEPT ![id] = tg]
  BY <1>2 DEF Construct
<1>7. info'[id] = tg /\ \A i \in Ids : i # id => info'[i] = info[i]
  BY <1>6 DEF Inv, TypeOK
<1>8. \A f \in Entities : InUse(f) => serves[f] # id
  BY <1>3 DEF SinkInv, ServesOne
<1>9. written[id] = 0 /\ NoMessage(id)
  BY <1>1, <1>3 DEF DeliveryInv, Untouched
<1>10. ASSUME NEW f \in Entities PROVE Faithful(f)'
  <2>1. CASE f = e
    <3>1. << >> = [i \in 1 .. 0 |-> id]
      OBVIOUS
    <3> QED
      BY <1>0, <1>4, <1>5, <1>7, <1>9, <2>1, <3>1 DEF Faithful, NoMessage
  <2>2. CASE f # e /\ InUse(f)
    <3>1. Faithful(f) /\ serves'[f] = serves[f] /\ info'[serves[f]] = info[serves[f]]
      BY <1>1, <1>5, <1>7, <1>8, <2>2 DEF DeliveryInv
    <3> QED
      BY <1>0, <1>5, <2>2, <3>1 DEF Faithful, NoMessage
  <2>3. CASE f # e /\ ~InUse(f)
    BY <1>4, <2>3 DEF Faithful
  <2> QED
    BY <2>1, <2>2, <2>3
<1>11. ASSUME NEW u \in Threads PROVE AtConsole(u)'
  <2>1. ASSUME at[u] \in {"module", "message"} PROVE releasing[u] \in Entities /\ InUse(releasing[u])
    <3>1. releasing[u] \in Entities
      BY <2>1 DEF Inv, Where, AtWell, ReleasePlaces, TypeOK
    <3>2. u \in Releasing(releasing[u]) /\ at[u] # "put"
      BY <2>1 DEF Releasing
    <3> QED
      BY <3>1, <3>2 DEF InUse
  <2>2. AtConsole(u)
    BY <1>1 DEF DeliveryInv
  <2> QED
    BY <1>0, <1>4, <1>5, <2>1, <2>2 DEF AtConsole
<1>12. ASSUME NEW i \in Ids PROVE Untouched(i)'
  BY <1>0, <1>1, <1>3 DEF DeliveryInv, Untouched, NoMessage
<1>13. ASSUME NEW i \in Ids PROVE Finished(i)'
  <2>1. CASE i = id
    BY <1>4, <1>5, <2>1 DEF Finished
  <2>2. CASE i # id
    <3>1. Finished(i) /\ (WasOpened(i)' <=> WasOpened(i)) /\ info'[i] = info[i]
      BY <1>1, <1>3, <1>7, <2>2 DEF DeliveryInv
    <3>2. Done(i) => Done(i)'
      BY <1>0, <3>1 DEF Done, Message
    <3>3. (\A f \in Entities : InUse(f)' => serves'[f] # i) => \A f \in Entities : InUse(f) => serves[f] # i
      BY <1>4, <1>5
    <3> QED
      BY <3>1, <3>2, <3>3 DEF Finished
  <2> QED
    BY <2>1, <2>2
<1> QED
  BY <1>10, <1>11, <1>12, <1>13

\* What is written goes to the text, or the buffer has overflowed.
LEMMA DeliveryWrite ==
  ASSUME Inv, SinkInv, DeliveryInv, NEW t \in Threads, NEW s \in Slots, Write(t, s)
  PROVE  DeliveryInv'
<1> SUFFICES ASSUME Whole'
             PROVE  /\ \A e \in Entities : Faithful(e)'
                    /\ \A u \in Threads : AtConsole(u)'
                    /\ \A id \in Ids : Untouched(id)' /\ Finished(id)'
  BY DEF DeliveryInv
<1>0. rec[t][s] \in Entities /\ InUse(rec[t][s]) /\ \A f \in Entities : InUse(f)' <=> InUse(f)
  BY WriteKeeps DEF SinkInv
<1>1. PICK e \in Entities : e = rec[t][s]
  BY <1>0
<1>2. PICK id \in Ids : id = serves[e]
  BY DEF Inv, TypeOK
<1>3. UNCHANGED <<handler, tag, whandler, serves, at, releasing, console, logged, opened, info>>
  BY DEF Write, threadVars, outputVars
<1>4. ~bad'[e]
  BY DEF Whole
<1>5. UNCHANGED bad /\ text' = [text EXCEPT ![e] = Append(@, id)]
  <2>1. bad' # [bad EXCEPT ![e] = TRUE]
    BY <1>4 DEF Inv, TypeOK
  <2> QED
    BY <1>1, <1>2, <2>1 DEF Write
<1>6. written' = [written EXCEPT ![id] = @ + 1]
  BY <1>1, <1>2 DEF Write
<1>7. Whole
  BY <1>5 DEF Whole
<1>8. /\ text'[e] = Append(text[e], id) /\ \A f \in Entities : f # e => text'[f] = text[f]
      /\ written'[id] = written[id] + 1 /\ \A i \in Ids : i # id => written'[i] = written[i]
      /\ written[id] \in Nat
  BY <1>5, <1>6 DEF Inv, TypeOK
<1>9. InUse(e) /\ WasOpened(id)
  BY <1>0, <1>1, <1>2 DEF SinkInv, ServesOne
<1>10. ASSUME NEW f \in Entities PROVE Faithful(f)'
  <2>1. CASE f = e
    <3>1. text[e] = [i \in 1 .. written[id] |-> id] /\ Faithful(e)
      BY <1>2, <1>7, <1>9 DEF DeliveryInv, Faithful
    <3>2. Append([i \in 1 .. written[id] |-> id], id) = [i \in 1 .. written[id] + 1 |-> id]
      <4> DEFINE n == written[id]
                 shorter == [i \in 1 .. n |-> id]
      <4>1. shorter \in Seq(Ids) /\ Len(shorter) = n
        BY <1>8
      <4> QED
        BY <1>8, <4>1
    <3> QED
      BY <1>2, <1>3, <1>8, <1>9, <2>1, <3>1, <3>2 DEF Faithful, NoMessage
  <2>2. CASE f # e /\ InUse(f)
    <3>1. serves[f] # id /\ serves[f] \in Ids
      BY <1>2, <1>9, <2>2 DEF SinkInv, ServesOne, Inv, TypeOK
    <3>2. Faithful(f)
      BY <1>7 DEF DeliveryInv
    <3> QED
      BY <1>3, <1>8, <2>2, <3>1, <3>2 DEF Faithful, NoMessage
  <2>3. CASE ~InUse(f)
    BY <1>0, <2>3 DEF Faithful
  <2> QED
    BY <2>1, <2>2, <2>3
<1>11. ASSUME NEW u \in Threads PROVE AtConsole(u)'
  BY <1>3, <1>7 DEF DeliveryInv, AtConsole
<1>12. ASSUME NEW i \in Ids PROVE Untouched(i)' /\ Finished(i)'
  <2>1. CASE i = id
    <3>1. WasOpened(i)' /\ InUse(e)' /\ serves'[e] = i
      BY <1>0, <1>1, <1>2, <1>3, <1>9, <2>1 DEF WasOpened
    <3> QED
      BY <3>1 DEF Untouched, Finished
  <2>2. CASE i # id
    <3>1. written'[i] = written[i] /\ Untouched(i) /\ Finished(i)
      BY <1>7, <1>8, <2>2 DEF DeliveryInv
    <3>2. Done(i) => Done(i)'
      BY <1>3, <3>1 DEF Done, Message
    <3> QED
      BY <1>0, <1>3, <3>1, <3>2 DEF Untouched, Finished, WasOpened, NoMessage
  <2> QED
    BY <2>1, <2>2
<1> QED
  BY <1>10, <1>11, <1>12

\* What one more piece on the console does to a record.
LEMMA ConsoleGrows ==
  ASSUME Inv, NEW p \in Pieces, console' = Append(console, p), NEW id \in Ids,
         logged \subseteq logged', UNCHANGED <<handler, info, written>>
  PROVE  /\ NoMessage(id) /\ ~(p.piece = "message" /\ p.id = id) => NoMessage(id)'
         /\ Done(id) /\ p # Message(id) => Done(id)'
         /\ NoMessage(id) /\ p = Message(id) /\ id \in logged' => Done(id)'
<1> DEFINE n == Len(console)
           there == {i \in 1 .. n : console[i] = Message(id)}
<1>1. /\ n \in Nat /\ Len(console') = n + 1 /\ console'[n + 1] = p
      /\ \A i \in 1 .. n : console'[i] = console[i]
  BY DEF Inv, TypeOK
<1>2. Message(id)' = Message(id)
  BY DEF Message
<1> HIDE DEF n
<1>3. {i \in 1 .. n + 1 : console'[i] = Message(id)} = there \cup {i \in {n + 1} : p = Message(id)}
  BY <1>1
<1>4. {i \in 1 .. Len(console') : console'[i] = Message(id)'} = there \cup {i \in {n + 1} : p = Message(id)}
  BY <1>1, <1>2, <1>3
<1>5. NoMessage(id) /\ ~(p.piece = "message" /\ p.id = id) => NoMessage(id)'
  BY <1>1 DEF NoMessage, n
<1>6. ASSUME Done(id), p # Message(id) PROVE Done(id)'
  <2>1. {i \in 1 .. Len(console') : console'[i] = Message(id)'} = there
    BY <1>4, <1>6
  <2> HIDE DEF there
  <2> SUFFICES ASSUME info[id].level = "INFO", handler[info[id].module], written[id] > 0
               PROVE  id \in logged' /\ \E k \in 1 .. n + 1 : there = {k}
    BY <1>1, <2>1 DEF Done
  <2>2. id \in logged /\ \E k \in 1 .. n : there = {k}
    BY <1>6 DEF Done, there, n
  <2> QED
    BY <1>1, <2>2
<1>7. ASSUME NoMessage(id), p = Message(id), id \in logged' PROVE Done(id)'
  <2>1. there = {}
    BY <1>7 DEF NoMessage, Message, n
  <2>2. {i \in 1 .. Len(console') : console'[i] = Message(id)'} = {n + 1} /\ n + 1 \in 1 .. Len(console')
    BY <1>1, <1>4, <1>7, <2>1
  <2> QED
    BY <1>7, <2>2 DEF Done
<1> QED
  BY <1>5, <1>6, <1>7

\* A step of release that goes on with its record.
LEMMA DeliveryMoves ==
  ASSUME Inv, DeliveryInv, NEW t \in Threads, at[t] # "put",
         NEW where, where # "put", at' = [at EXCEPT ![t] = where], ReleaseUnchanged, UNCHANGED text,
         logged \subseteq logged', Whole => AtConsole(t)',
         \/ UNCHANGED console
         \/ \E p \in Pieces : p.piece = "module" /\ console' = Append(console, p)
  PROVE  DeliveryInv'
<1> SUFFICES ASSUME Whole'
             PROVE  /\ \A e \in Entities : Faithful(e)'
                    /\ \A u \in Threads : AtConsole(u)'
                    /\ \A id \in Ids : Untouched(id)' /\ Finished(id)'
  BY DEF DeliveryInv
<1>0. UNCHANGED <<handler, bad, tag, whandler, serves, rec, releasing, opened, info, written>>
  BY DEF ReleaseUnchanged, callerVars
<1>1. Whole
  BY <1>0 DEF Whole
<1>2. \A e \in Entities : InUse(e)' <=> InUse(e)
  BY <1>0, ReleaseGoesOn
<1>3. ASSUME NEW id \in Ids PROVE (NoMessage(id) => NoMessage(id)') /\ (Done(id) => Done(id)')
  <2>1. CASE UNCHANGED console
    BY <1>0, <2>1 DEF NoMessage, Done, Message
  <2>2. ASSUME NEW p \in Pieces, p.piece = "module", console' = Append(console, p)
        PROVE  (NoMessage(id) => NoMessage(id)') /\ (Done(id) => Done(id)')
    <3>1. p # Message(id)
      BY <2>2 DEF Message
    <3> QED
      BY <1>0, <2>2, <3>1, ConsoleGrows
  <2> QED
    BY <2>1, <2>2
<1>4. ASSUME NEW e \in Entities PROVE Faithful(e)'
  <2>1. serves[e] \in Ids
    BY DEF Inv, TypeOK
  <2>2. PICK id \in Ids : id = serves[e]
    BY <2>1
  <2>3. Faithful(e) /\ (NoMessage(id) => NoMessage(id)')
    BY <1>1, <1>3 DEF DeliveryInv
  <2> QED
    BY <1>0, <1>2, <2>2, <2>3 DEF Faithful
<1>5. ASSUME NEW u \in Threads PROVE AtConsole(u)'
  <2>1. u # t => at'[u] = at[u]
    BY DEF Inv, TypeOK
  <2>2. AtConsole(u)
    BY <1>1 DEF DeliveryInv
  <2> QED
    BY <1>0, <1>1, <2>1, <2>2 DEF AtConsole
<1>6. ASSUME NEW id \in Ids PROVE Untouched(id)' /\ Finished(id)'
  <2>1. Untouched(id) /\ Finished(id)
    BY <1>1 DEF DeliveryInv
  <2> QED
    BY <1>0, <1>2, <1>3, <2>1 DEF Untouched, Finished, WasOpened
<1> QED
  BY <1>4, <1>5, <1>6

\* The step of release that resets the text: the record was delivered now, or
\* never had to be.
LEMMA DeliveryEnds ==
  ASSUME Inv, SinkInv, DeliveryInv, NEW t \in Threads, at[t] \in {"release", "log4cxx", "message"},
         at' = [at EXCEPT ![t] = "put"], Reset(releasing[t]), ReleaseUnchanged, UNCHANGED logged,
         \/ /\ UNCHANGED console
            /\ \/ text[releasing[t]] = << >> \/ ~whandler[releasing[t]]
               \/ tag[releasing[t]].level # "INFO"
         \/ at[t] = "message" /\ console' = Append(console, Piece(releasing[t], "message"))
  PROVE  DeliveryInv'
<1> SUFFICES ASSUME Whole'
             PROVE  /\ \A f \in Entities : Faithful(f)'
                    /\ \A u \in Threads : AtConsole(u)'
                    /\ \A i \in Ids : Untouched(i)' /\ Finished(i)'
  BY DEF DeliveryInv
<1>0. UNCHANGED <<handler, bad, tag, whandler, serves, rec, releasing, opened, info, written>>
  BY DEF ReleaseUnchanged, callerVars
<1>1. Whole
  BY <1>0 DEF Whole
<1>2. /\ releasing[t] \in Entities /\ InUse(releasing[t])
      /\ \A f \in Entities : InUse(f)' <=> InUse(f) /\ f # releasing[t]
      /\ \A f \in Entities : f # releasing[t] => text'[f] = text[f]
  BY <1>0, ReleaseEnds DEF SinkInv
<1>3. PICK e \in Entities : e = releasing[t]
  BY <1>2
<1>4. PICK id \in Ids : id = serves[e]
  BY DEF Inv, TypeOK
<1>5. /\ WasOpened(id) /\ tag[e] = info[id] /\ whandler[e] = handler[tag[e].module]
      /\ text[e] = [i \in 1 .. written[id] |-> id] /\ NoMessage(id)
  BY <1>1, <1>2, <1>3, <1>4 DEF DeliveryInv, Faithful, SinkInv, ServesOne
<1>6. written[id] \in Nat
  BY DEF Inv, TypeOK
<1>7. ASSUME NEW i \in Ids, i # id PROVE (NoMessage(i) => NoMessage(i)') /\ (Done(i) => Done(i)')
  <2>1. CASE UNCHANGED console
    BY <1>0, <2>1 DEF NoMessage, Done, Message
  <2>2. CASE console' = Append(console, Piece(releasing[t], "message"))
    <3>1. PICK p \in Pieces : p = Piece(e, "message")
      BY DEF Piece, Pieces, Inv, TypeOK
    <3>2. p.id = id /\ p # Message(i)
      BY <1>4, <1>7, <3>1 DEF Piece, Message
    <3> QED
      BY <1>0, <1>3, <1>7, <2>2, <3>1, <3>2, ConsoleGrows
  <2> QED
    BY <2>1, <2>2
<1>8. Done(id)'
  <2>1. CASE UNCHANGED console /\ (text[e] = << >> \/ ~whandler[e] \/ tag[e].level # "INFO")
    <3>1. text[e] = << >> => written[id] = 0
      <4>1. PICK n \in Nat : n = written[id]
        BY <1>6
      <4>2. [i \in 1 .. n |-> id] = << >> => n = 0
        OBVIOUS
      <4> QED
        BY <1>5, <4>1, <4>2
    <3> QED
      BY <1>0, <1>5, <1>6, <2>1, <3>1 DEF Done
  <2>2. CASE at[t] = "message" /\ console' = Append(console, Piece(releasing[t], "message"))
    <3>1. PICK p \in Pieces : p = Piece(e, "message")
      BY DEF Piece, Pieces, Inv, TypeOK
    <3>2. p = Message(id)
      BY <1>4, <1>5, <3>1 DEF Piece, Message
    <3>3. id \in logged'
      BY <1>1, <1>3, <1>4, <2>2 DEF DeliveryInv, AtConsole
    <3> QED
      BY <1>0, <1>3, <1>5, <2>2, <3>1, <3>2, <3>3, ConsoleGrows
  <2> QED
    BY <1>3, <2>1, <2>2
<1>9. ASSUME NEW f \in Entities PROVE Faithful(f)'
  <2>1. CASE InUse(f) /\ f # e
    <3>1. serves[f] \in Ids /\ serves[f] # id
      BY <1>2, <1>3, <1>4, <2>1 DEF SinkInv, ServesOne, Inv, TypeOK
    <3>2. PICK i \in Ids : i = serves[f]
      BY <3>1
    <3>3. Faithful(f) /\ (NoMessage(i) => NoMessage(i)')
      BY <1>1, <1>7, <3>1, <3>2 DEF DeliveryInv
    <3> QED
      BY <1>0, <1>2, <1>3, <2>1, <3>2, <3>3 DEF Faithful
  <2>2. CASE ~(InUse(f) /\ f # e)
    BY <1>2, <1>3, <2>2 DEF Faithful
  <2> QED
    BY <2>1, <2>2
<1>10. ASSUME NEW u \in Threads PROVE AtConsole(u)'
  <2>1. at'[u] \in {"module", "message"} => at[u] = at'[u]
    BY DEF Inv, TypeOK
  <2>2. AtConsole(u)
    BY <1>1 DEF DeliveryInv
  <2> QED
    BY <1>0, <2>1, <2>2 DEF AtConsole
<1>11. ASSUME NEW i \in Ids PROVE Untouched(i)' /\ Finished(i)'
  <2>1. CASE i = id
    BY <1>0, <1>5, <1>8, <2>1 DEF Untouched, Finished, WasOpened
  <2>2. CASE i # id
    <3>1. Untouched(i) /\ Finished(i)
      BY <1>1 DEF DeliveryInv
    <3>2. (\A f \in Entities : InUse(f)' => serves'[f] # i) => \A f \in Entities : InUse(f) => serves[f] # i
      BY <1>0, <1>2, <1>3, <1>4, <2>2
    <3> QED
      BY <1>0, <1>7, <2>2, <3>1, <3>2 DEF Untouched, Finished, WasOpened
  <2> QED
    BY <2>1, <2>2
<1> QED
  BY <1>9, <1>10, <1>11

LEMMA DeliveryRelease ==
  ASSUME Inv, SinkInv, DeliveryInv, NEW t \in Threads,
         Release(t) \/ Log4cxx(t) \/ ConsoleModule(t) \/ ConsoleMessage(t)
  PROVE  DeliveryInv'
<1> USE DEF GoTo
<1>0. /\ releasing[t] \in Entities /\ at[t] # "put" /\ ReleaseUnchanged
      /\ releasing' = releasing /\ serves' = serves /\ at[t] \in ReleasePlaces
  BY DEF Release, Log4cxx, ConsoleModule, ConsoleMessage, ReleaseUnchanged,
         Inv, Where, AtWell, ReleasePlaces, TypeOK
<1>1. ASSUME NEW where, at' = [at EXCEPT ![t] = where] PROVE at'[t] = where
  BY <1>1 DEF Inv, TypeOK
<1>2. CASE Release(t)
  <2>1. CASE at' = [at EXCEPT ![t] = "log4cxx"] /\ UNCHANGED text
    <3>1. AtConsole(t)'
      BY <1>1, <2>1 DEF AtConsole
    <3> QED
      BY <1>0, <1>2, <2>1, <3>1, DeliveryMoves DEF Release, outputVars
  <2>2. CASE /\ at' = [at EXCEPT ![t] = "put"] /\ Reset(releasing[t])
             /\ text[releasing[t]] = << >> \/ ~whandler[releasing[t]]
    BY <1>0, <1>2, <2>2, DeliveryEnds DEF Release, outputVars
  <2> QED
    BY <1>2, <2>1, <2>2 DEF Release
<1>3. CASE Log4cxx(t)
  <2>1. CASE at' = [at EXCEPT ![t] = "module"] /\ logged' = logged \cup {serves[releasing[t]]} /\ UNCHANGED text
    <3>1. AtConsole(t)'
      BY <1>0, <2>1 DEF AtConsole
    <3> QED
      BY <1>0, <1>3, <2>1, <3>1, DeliveryMoves DEF Log4cxx
  <2>2. CASE /\ at' = [at EXCEPT ![t] = "put"] /\ Reset(releasing[t]) /\ UNCHANGED logged
             /\ tag[releasing[t]].level # "INFO"
    BY <1>0, <1>3, <2>2, DeliveryEnds DEF Log4cxx
  <2> QED
    BY <1>3, <2>1, <2>2 DEF Log4cxx
<1>4. CASE ConsoleModule(t)
  <2>1. Whole => AtConsole(t)'
    BY <1>0, <1>4 DEF DeliveryInv, AtConsole, ConsoleModule
  <2>2. PICK p \in Pieces : p = Piece(releasing[t], "module")
    BY <1>0 DEF Piece, Pieces, Inv, TypeOK
  <2>3. p.piece = "module"
    BY <2>2 DEF Piece
  <2> QED
    BY <1>0, <1>4, <2>1, <2>2, <2>3, DeliveryMoves DEF ConsoleModule
<1>5. CASE ConsoleMessage(t)
  BY <1>0, <1>5, DeliveryEnds DEF ConsoleMessage
<1> QED
  BY <1>2, <1>3, <1>4, <1>5

LEMMA DeliveryStep ==
  ASSUME Inv, SinkInv, DeliveryInv, [Next]_vars
  PROVE  DeliveryInv'
<1>1. ASSUME NEW t \in Threads,
             \/ \E s \in Slots : Destroy(t, s)
             \/ \E s, d \in Slots : Copy(t, s, d) \/ Assign(t, d, s)
             \/ Put(t) \/ AssignRef(t)
      PROVE  DeliveryInv'
  <2>1. UNCHANGED <<text, bad, tag, whandler, serves, console, logged, opened, info, written, handler>>
    BY <1>1 DEF Destroy, Copy, Assign, Put, AssignRef, entityVars, outputVars, callerVars
  <2>2. \A e \in Entities : InUse(e)' <=> InUse(e)
    BY <1>1, InUseSame
  <2>3. ASSUME NEW u \in Threads, at'[u] \in {"module", "message"}
        PROVE  at[u] \in {"module", "message"} /\ releasing'[u] = releasing[u]
    <3>1. \/ at'[t] = at[t] /\ releasing'[t] = releasing[t]
          \/ at'[t] \in {"idle", "release", "ref"}
      BY <1>1 DEF Destroy, Copy, Assign, Put, AssignRef, Unref, GoTo, Inv, TypeOK
    <3>2. u # t => at'[u] = at[u] /\ releasing'[u] = releasing[u]
      BY <1>1 DEF Destroy, Copy, Assign, Put, AssignRef, Unref, GoTo, Inv, TypeOK
    <3> QED
      BY <2>3, <3>1, <3>2
  <2> QED
    BY <2>1, <2>2, <2>3, DeliverySame
<1>2. CASE UNCHANGED vars
  <2>1. UNCHANGED <<text, bad, tag, whandler, serves, console, logged, opened, info, written, handler,
                    rec, at, releasing>>
    BY <1>2 DEF vars, entityVars, outputVars, callerVars, threadVars
  <2>2. \A e \in Entities : InUse(e)' <=> InUse(e)
    BY <2>1 DEF InUse, Holders, Releasing
  <2> QED
    BY <2>1, <2>2, DeliverySame
<1> QED
  BY <1>1, <1>2, DeliveryConstruct, DeliveryWrite, DeliveryRelease DEF Next, Caller

LEMMA DeliveryInit == Init => DeliveryInv
<1> SUFFICES ASSUME Init PROVE DeliveryInv
  OBVIOUS
<1>1. \A e \in Entities : ~InUse(e)
  BY DEF Init, InUse, Holders, Releasing
<1>2. \A id \in Ids : written[id] = 0 /\ NoMessage(id)
  BY DEF Init, NoMessage
<1>3. \A t \in Threads : at[t] = "idle"
  BY DEF Init
<1> QED
  BY <1>1, <1>2, <1>3 DEF DeliveryInv, Faithful, AtConsole, Untouched, Finished, Done

(***************************************************************************)
(* Nothing gets lost unless a buffer overflows: whatever the records an    *)
(* entity served before, and whatever the threads do at once, a record     *)
(* with a level and a handler that show it, and with something written to  *)
(* it, reaches both handlers, once and in full (log.cc 120-146,            *)
(* loghandler.cc 18-64).                                                   *)
(***************************************************************************)
THEOREM NothingLost == Spec => []NothingLostWithoutOverflow
<1>1. DeliveryInv => NothingLostWithoutOverflow
  <2> SUFFICES ASSUME DeliveryInv, Whole, NEW id \in Closed,
                      info[id].level = "INFO" /\ handler[info[id].module] /\ written[id] > 0
               PROVE  /\ id \in logged
                      /\ Cardinality({i \in 1 .. Len(console) : console[i] = Message(id)}) = 1
    BY DEF NothingLostWithoutOverflow, Whole
  <2>1. id \in Ids /\ WasOpened(id)
    BY DEF Closed, WasOpened
  <2>2. \A e \in Entities : InUse(e) => serves[e] # id
    BY DEF Closed, InUse
  <2>3. Done(id)
    BY <2>1, <2>2 DEF DeliveryInv, Finished
  <2>4. PICK n \in 1 .. Len(console) : {i \in 1 .. Len(console) : console[i] = Message(id)} = {n}
    BY <2>3 DEF Done
  <2> QED
    BY <2>3, <2>4, FS_Singleton DEF Done
<1>2. Init => DeliveryInv
  BY DeliveryInit
<1>3. Inv /\ SinkInv /\ DeliveryInv /\ [Next]_vars => DeliveryInv'
  BY DeliveryStep
<1>4. Init => SinkInv
  BY SinkInit
<1>5. Inv /\ SinkInv /\ [Next]_vars => SinkInv'
  BY SinkStep
<1> QED
  BY <1>1, <1>2, <1>3, <1>4, <1>5, InvHolds, PTL DEF Spec
-----------------------------------------------------------------------------
(***************************************************************************)
(* What TornByOthersOnly needs: the entities a thread holds or releases    *)
(* serve records of its own, so that nobody else writes a piece of them;   *)
(* and a thread about to write a message has written the module, and       *)
(* nothing since.                                                          *)
(***************************************************************************)
OwnRecords ==
  \A t \in Threads :
    /\ \A s \in Slots : rec[t][s] # None => serves[rec[t][s]][1] = t
    /\ releasing[t] # None => serves[releasing[t]][1] = t

ModuleWritten(t) ==
  at[t] = "message" =>
    \E j \in 1 .. Len(console) :
      /\ console[j] = Piece(releasing[t], "module")
      /\ \A k \in j + 1 .. Len(console) : console[k].id[1] # t

LineInv == OwnRecords /\ TornByOthersOnly /\ \A t \in Threads : ModuleWritten(t)

\* A thread that takes nothing from the cache: it holds what it held, and
\* releases what it released or held.
LEMMA OwnStays ==
  ASSUME Inv, OwnRecords, UNCHANGED serves, NEW t \in Threads,
         \A u \in Threads : u # t => rec'[u] = rec[u] /\ releasing'[u] = releasing[u],
         \A s \in Slots : rec'[t][s] = None \/ \E r \in Slots : rec'[t][s] = rec[t][r],
         releasing'[t] = None \/ releasing'[t] = releasing[t] \/ \E r \in Slots : releasing'[t] = rec[t][r]
  PROVE  OwnRecords'
<1>1. ASSUME NEW u \in Threads, u # t
      PROVE  /\ \A s \in Slots : rec'[u][s] # None => serves'[rec'[u][s]][1] = u
             /\ releasing'[u] # None => serves'[releasing'[u]][1] = u
  BY <1>1 DEF OwnRecords
<1>2. \A s \in Slots : rec'[t][s] # None => serves'[rec'[t][s]][1] = t
  BY DEF OwnRecords
<1>3. releasing'[t] # None => serves'[releasing'[t]][1] = t
  BY DEF OwnRecords
<1> QED
  BY <1>1, <1>2, <1>3 DEF OwnRecords

LEMMA OwnConstruct ==
  ASSUME Inv, OwnRecords, NEW t \in Threads, NEW s \in Slots, NEW tg \in Tags, Construct(t, s, tg)
  PROVE  OwnRecords'
<1>1. PICK e \in Entities :
        /\ CacheGet(e) /\ rec' = [rec EXCEPT ![t][s] = e]
        /\ serves' = [serves EXCEPT ![e] = <<t, opened[t] + 1>>]
  BY DEF Construct
<1>2. Holders(e) = {} /\ Releasing(e) = {}
  BY <1>1, CacheGetOwner DEF Inv
<1>3. releasing' = releasing /\ serves \in [Entities -> Ids] /\ releasing \in [Threads -> Entities \cup {None}]
  BY DEF Construct, Inv, TypeOK
<1>4. \A u \in Threads, r \in Slots : rec'[u][r] = IF u = t /\ r = s THEN e ELSE rec[u][r]
  BY <1>1 DEF Inv, TypeOK
<1>5. serves'[e][1] = t /\ \A f \in Entities : f # e => serves'[f] = serves[f]
  BY <1>1, <1>3
<1>6. \A u \in Threads, r \in Slots : rec[u][r] \in Entities \cup {None} /\ rec[u][r] # e
  <2>1. ASSUME NEW u \in Threads, NEW r \in Slots, rec[u][r] = e PROVE FALSE
    <3>1. <<u, r>> \in Holders(e)
      BY <2>1 DEF Holders
    <3> QED
      BY <1>2, <3>1
  <2> QED
    BY <2>1 DEF Inv, TypeOK
<1>7. \A u \in Threads : releasing[u] # e
  BY <1>2 DEF Releasing
<1>8. ASSUME NEW u \in Threads, NEW r \in Slots, rec'[u][r] # None PROVE serves'[rec'[u][r]][1] = u
  BY <1>4, <1>5, <1>6, <1>8 DEF OwnRecords
<1>9. ASSUME NEW u \in Threads, releasing'[u] # None PROVE serves'[releasing'[u]][1] = u
  BY <1>3, <1>5, <1>7, <1>9 DEF OwnRecords
<1> QED
  BY <1>8, <1>9 DEF OwnRecords

LEMMA OwnStep ==
  ASSUME Inv, OwnRecords, [Next]_vars
  PROVE  OwnRecords'
<1>0. /\ rec \in [Threads -> [Slots -> Entities \cup {None}]]
      /\ releasing \in [Threads -> Entities \cup {None}]
  BY DEF Inv, TypeOK
<1>1. ASSUME NEW t \in Threads, UNCHANGED <<rec, releasing, serves>> PROVE OwnRecords'
  BY <1>1 DEF OwnRecords
<1>2. ASSUME NEW t \in Threads,
             \/ \E s \in Slots : Destroy(t, s)
             \/ \E s, d \in Slots : Copy(t, s, d) \/ Assign(t, d, s)
             \/ Put(t) \/ AssignRef(t)
      PROVE  OwnRecords'
  <2>1. /\ UNCHANGED serves
        /\ \A u \in Threads : u # t => rec'[u] = rec[u] /\ releasing'[u] = releasing[u]
    BY <1>0, <1>2 DEF Destroy, Copy, Assign, Put, AssignRef, Unref, entityVars
  <2>2. ASSUME NEW s \in Slots PROVE rec'[t][s] = None \/ \E r \in Slots : rec'[t][s] = rec[t][r]
    <3>1. CASE AssignRef(t)
      <4>1. at[t] = "ref" /\ rec' = [rec EXCEPT ![t][rhs[t].slot] = rhs[t].entity]
        BY <3>1 DEF AssignRef
      <4>2. \E r \in Slots : rec[t][r] = rhs[t].entity
        BY <4>1 DEF Inv, Where, AtWell
      <4> QED
        BY <1>0, <4>1, <4>2
    <3>2. CASE ~AssignRef(t)
      BY <1>0, <1>2, <3>2 DEF Destroy, Copy, Assign, Put
    <3> QED
      BY <3>1, <3>2
  <2>3. \/ releasing'[t] = None \/ releasing'[t] = releasing[t]
        \/ \E r \in Slots : releasing'[t] = rec[t][r]
    BY <1>0, <1>2 DEF Destroy, Copy, Assign, Put, AssignRef, Unref
  <2> QED
    BY <2>1, <2>2, <2>3, OwnStays
<1>3. ASSUME NEW t \in Threads,
             \/ \E s \in Slots : Write(t, s)
             \/ Release(t) \/ Log4cxx(t) \/ ConsoleModule(t) \/ ConsoleMessage(t)
      PROVE  OwnRecords'
  BY <1>1, <1>3 DEF Write, Release, Log4cxx, ConsoleModule, ConsoleMessage, ReleaseUnchanged, threadVars
<1>4. CASE UNCHANGED vars
  BY <1>4 DEF vars, entityVars, threadVars, OwnRecords
<1> QED
  BY <1>2, <1>3, <1>4, OwnConstruct DEF Next, Caller

\* The console after one more piece.
LEMMA OnePieceMore ==
  ASSUME Inv, NEW p \in Pieces, console' = Append(console, p)
  PROVE  \E n \in Nat : /\ n = Len(console) /\ Len(console') = n + 1 /\ console'[n + 1] = p
                        /\ \A i \in 1 .. n : console'[i] = console[i]
<1>1. console \in Seq(Pieces)
  BY DEF Inv, TypeOK
<1>2. /\ Len(console') = Len(console) + 1 /\ console'[Len(console) + 1] = p
      /\ \A i \in 1 .. Len(console) : console'[i] = console[i]
  BY <1>1, AppendProperties
<1>3. Len(console) \in Nat
  BY <1>1, LenProperties
<1> QED
  BY <1>2, <1>3

\* The record a thread is about to write stays as it is, and what others
\* write to the console in between is not its own.
LEMMA ModuleStays ==
  ASSUME Inv, NEW u \in Threads, ModuleWritten(u),
         at'[u] = "message" =>
           /\ at[u] = "message" /\ releasing'[u] = releasing[u]
           /\ Piece(releasing[u], "module")' = Piece(releasing[u], "module"),
         console' = console \/ \E p \in Pieces : p.id[1] # u /\ console' = Append(console, p)
  PROVE  ModuleWritten(u)'
<1> SUFFICES ASSUME at'[u] = "message"
             PROVE  \E j \in 1 .. Len(console') :
                      /\ console'[j] = Piece(releasing[u], "module")
                      /\ \A k \in j + 1 .. Len(console') : console'[k].id[1] # u
  BY DEF ModuleWritten, Piece
<1>1. PICK j \in 1 .. Len(console) :
        /\ console[j] = Piece(releasing[u], "module")
        /\ \A k \in j + 1 .. Len(console) : console[k].id[1] # u
  BY DEF ModuleWritten
<1>2. CASE console' = console
  BY <1>1, <1>2
<1>3. ASSUME NEW p \in Pieces, p.id[1] # u, console' = Append(console, p)
      PROVE  /\ j \in 1 .. Len(console') /\ console'[j] = console[j]
             /\ \A k \in j + 1 .. Len(console') : console'[k].id[1] # u
  <2>1. PICK n \in Nat : n = Len(console)
    BY DEF Inv, TypeOK
  <2>2. Len(console') = n + 1 /\ console'[n + 1] = p /\ \A i \in 1 .. n : console'[i] = console[i]
    BY <1>3, <2>1, OnePieceMore
  <2>3. \A k \in j + 1 .. n + 1 : k = n + 1 \/ (k \in j + 1 .. n /\ k \in 1 .. n)
    BY <1>1, <2>1
  <2> QED
    BY <1>1, <1>3, <2>1, <2>2, <2>3
<1> QED
  BY <1>1, <1>2, <1>3

\* One more piece leaves the lines before it as they are.
ModuleOf(p) == [p EXCEPT !.piece = "module"]

LEMMA LinesStay ==
  ASSUME Inv, TornByOthersOnly, NEW p \in Pieces, console' = Append(console, p),
         p.piece = "message" =>
           \E j \in 1 .. Len(console) :
             /\ console[j] = ModuleOf(p)
             /\ \A k \in j + 1 .. Len(console) : console[k].id[1] # p.id[1]
  PROVE  TornByOthersOnly'
<1>1. PICK n \in Nat : /\ n = Len(console) /\ Len(console') = n + 1 /\ console'[n + 1] = p
                       /\ \A i \in 1 .. n : console'[i] = console[i]
  BY OnePieceMore
<1>2. ASSUME NEW i \in 1 .. n + 1, console'[i].piece = "message"
      PROVE  \E j \in 1 .. i - 1 :
               /\ console'[j] = ModuleOf(console'[i])
               /\ \A k \in j + 1 .. i - 1 : console'[k].id[1] # console'[i].id[1]
  <2>1. CASE i = n + 1
    <3>1. PICK j \in 1 .. n :
            /\ console[j] = ModuleOf(p)
            /\ \A k \in j + 1 .. n : console[k].id[1] # p.id[1]
      BY <1>1, <1>2, <2>1
    <3>2. i - 1 = n
      BY <2>1
    <3>3. \A k \in j + 1 .. n : k \in 1 .. n
      OBVIOUS
    <3>4. console'[i] = p /\ console'[j] = console[j]
      BY <1>1, <2>1
    <3>5. \A k \in j + 1 .. n : console'[k] = console[k]
      BY <1>1, <3>3
    <3> QED
      BY <3>1, <3>2, <3>4, <3>5
  <2>2. CASE i # n + 1
    <3>1. i \in 1 .. n /\ console'[i] = console[i]
      BY <1>1, <2>2
    <3>2. PICK j \in 1 .. i - 1 :
            /\ console[j] = ModuleOf(console[i])
            /\ \A k \in j + 1 .. i - 1 : console[k].id[1] # console[i].id[1]
      BY <1>1, <1>2, <3>1 DEF TornByOthersOnly, ModuleOf
    <3>3. j \in 1 .. n /\ \A k \in j + 1 .. i - 1 : k \in 1 .. n
      BY <3>1
    <3> QED
      BY <1>1, <3>1, <3>2, <3>3
  <2> QED
    BY <2>1, <2>2
<1> QED
  BY <1>1, <1>2 DEF TornByOthersOnly, ModuleOf

(***************************************************************************)
(* Every step keeps the lines whole.                                       *)
(***************************************************************************)
\* Steps that leave the console alone: only the caller and a thread at the end
\* of a release touch an entity, and it is their own.
LEMMA LineQuiet ==
  ASSUME Inv, LineInv, OwnRecords', UNCHANGED console,
         \A u \in Threads : at'[u] = "message" =>
           /\ at[u] = "message" /\ releasing'[u] = releasing[u]
           /\ Piece(releasing[u], "module")' = Piece(releasing[u], "module")
  PROVE  LineInv'
<1>1. TornByOthersOnly'
  BY DEF LineInv, TornByOthersOnly
<1>2. ASSUME NEW u \in Threads PROVE ModuleWritten(u)'
  BY ModuleStays DEF LineInv
<1> QED
  BY <1>1, <1>2 DEF LineInv

LEMMA LineConstruct ==
  ASSUME Inv, LineInv, OwnRecords', NEW t \in Threads, NEW s \in Slots, NEW tg \in Tags, Construct(t, s, tg)
  PROVE  LineInv'
<1>1. UNCHANGED <<at, releasing, text, console>>
  BY DEF Construct, outputVars
<1>2. PICK e \in Entities :
        /\ CacheGet(e) /\ tag' = [tag EXCEPT ![e] = tg]
        /\ serves' = [serves EXCEPT ![e] = <<t, opened[t] + 1>>]
  BY DEF Construct
<1>3. Releasing(e) = {}
  BY <1>2, CacheGetOwner DEF Inv
<1>4. ASSUME NEW u \in Threads
      PROVE  Piece(releasing[u], "module")' = Piece(releasing[u], "module")
  <2>1. releasing[u] # e
    BY <1>3 DEF Releasing
  <2> QED
    BY <1>1, <1>2, <2>1 DEF Piece, Inv, TypeOK
<1> QED
  BY <1>1, <1>4, LineQuiet

LEMMA LineWrite ==
  ASSUME Inv, LineInv, OwnRecords', NEW t \in Threads, NEW s \in Slots, Write(t, s)
  PROVE  LineInv'
<1>1. PICK e \in Entities : e = rec[t][s]
  BY DEF Write, Inv, TypeOK
<1>2. UNCHANGED <<at, releasing, tag, serves, console>>
  BY DEF Write, threadVars, outputVars
<1>3. \A f \in Entities : f # e => text'[f] = text[f]
  BY <1>1 DEF Write, Inv, TypeOK
<1>4. <<t, s>> \in Holders(e)
  BY <1>1 DEF Holders
<1>5. ASSUME NEW u \in Threads, at[u] = "message"
      PROVE  Piece(releasing[u], "module")' = Piece(releasing[u], "module")
  <2>1. releasing[u] \in Entities
    BY <1>5 DEF Inv, Where, AtWell, ReleasePlaces, TypeOK
  <2>2. releasing[u] # e
    <3>1. \A v \in Releasing(e) : Holders(e) = {}
      BY DEF Inv, Owner, Owned
    <3> QED
      BY <1>4, <3>1 DEF Releasing
  <2> QED
    BY <1>2, <1>3, <2>1, <2>2 DEF Piece
<1> QED
  BY <1>2, <1>5, LineQuiet

LEMMA LineRelease ==
  ASSUME Inv, LineInv, OwnRecords', NEW t \in Threads,
         Release(t) \/ Log4cxx(t) \/ ConsoleModule(t) \/ ConsoleMessage(t)
  PROVE  LineInv'
<1>0. /\ releasing[t] \in Entities /\ serves[releasing[t]][1] = t
      /\ UNCHANGED <<releasing, serves, tag>>
  BY DEF Release, Log4cxx, ConsoleModule, ConsoleMessage, ReleaseUnchanged, LineInv, OwnRecords,
         Inv, Where, AtWell, ReleasePlaces, TypeOK
<1>1. PICK e \in Entities : e = releasing[t]
  BY <1>0
<1>2. \A f \in Entities : f # e => text'[f] = text[f]
  BY <1>1 DEF Release, Log4cxx, ConsoleModule, ConsoleMessage, Reset, Inv, TypeOK
<1>3. ASSUME NEW u \in Threads, u # t
      PROVE  at'[u] = "message" =>
               /\ at[u] = "message" /\ releasing'[u] = releasing[u]
               /\ Piece(releasing[u], "module")' = Piece(releasing[u], "module")
  <2>1. at'[u] = at[u]
    BY <1>3 DEF Release, Log4cxx, ConsoleModule, ConsoleMessage, GoTo, Inv, TypeOK
  <2>2. at[u] = "message" => releasing[u] \in Entities
    BY DEF Inv, Where, AtWell, ReleasePlaces, TypeOK
  <2>3. releasing[u] # e
    <3>1. \A v \in Releasing(e) : Releasing(e) = {v}
      BY DEF Inv, Owner, Owned
    <3> QED
      BY <1>1, <1>3, <3>1 DEF Releasing
  <2> QED
    BY <1>0, <1>2, <2>1, <2>2, <2>3 DEF Piece
<1>4. CASE Release(t) \/ Log4cxx(t)
  <2>1. UNCHANGED console /\ at'[t] # "message"
    BY <1>4 DEF Release, Log4cxx, GoTo, outputVars, Inv, TypeOK
  <2> QED
    BY <1>3, <2>1, LineQuiet
<1>5. ASSUME NEW what \in {"module", "message"} PROVE Piece(e, what) \in Pieces
  BY DEF Piece, Pieces, Inv, TypeOK
<1>6. ASSUME NEW p \in Pieces, p.id = serves[e], console' = Append(console, p),
             NEW u \in Threads, u # t
      PROVE  ModuleWritten(u)'
  <2>1. p.id[1] # u
    BY <1>0, <1>1, <1>6
  <2> QED
    BY <1>3, <1>6, <2>1, ModuleStays DEF LineInv
<1>7. CASE ConsoleModule(t)
  <2>1. PICK p \in Pieces : p = Piece(e, "module")
    BY <1>5
  <2>2. p.piece = "module" /\ p.id = serves[e]
    BY <2>1 DEF Piece
  <2>3. console' = Append(console, p) /\ UNCHANGED text
    BY <1>1, <1>7, <2>1 DEF ConsoleModule
  <2>4. TornByOthersOnly'
    BY <2>2, <2>3, LinesStay DEF LineInv
  <2>5. ModuleWritten(t)'
    <3>1. PICK n \in Nat : Len(console') = n + 1 /\ console'[n + 1] = p
      BY <2>3, OnePieceMore
    <3>2. Piece(releasing[t], "module")' = p
      BY <1>0, <1>1, <2>1, <2>3 DEF Piece
    <3>3. n + 1 \in 1 .. n + 1 /\ (n + 1) + 1 .. n + 1 = {}
      OBVIOUS
    <3> QED
      BY <3>1, <3>2, <3>3 DEF ModuleWritten
  <2> QED
    BY <1>6, <2>2, <2>3, <2>4, <2>5 DEF LineInv
<1>8. CASE ConsoleMessage(t)
  <2>1. PICK p \in Pieces : p = Piece(e, "message")
    BY <1>5
  <2>2. p.id = serves[e] /\ p.id[1] = t /\ ModuleOf(p) = Piece(e, "module")
    BY <1>0, <1>1, <2>1 DEF Piece, ModuleOf
  <2>3. console' = Append(console, p) /\ at[t] = "message" /\ at'[t] = "put"
    BY <1>1, <1>8, <2>1 DEF ConsoleMessage, GoTo, Inv, TypeOK
  <2>4. \E j \in 1 .. Len(console) :
          /\ console[j] = ModuleOf(p)
          /\ \A k \in j + 1 .. Len(console) : console[k].id[1] # p.id[1]
    BY <1>1, <2>2, <2>3 DEF LineInv, ModuleWritten
  <2>5. TornByOthersOnly'
    BY <2>3, <2>4, LinesStay DEF LineInv
  <2>6. ModuleWritten(t)'
    BY <2>3 DEF ModuleWritten
  <2> QED
    BY <1>6, <2>2, <2>3, <2>5, <2>6 DEF LineInv
<1> QED
  BY <1>4, <1>7, <1>8

LEMMA LineStep ==
  ASSUME Inv, LineInv, [Next]_vars
  PROVE  LineInv'
<1>0. OwnRecords'
  BY OwnStep DEF LineInv
<1>1. ASSUME NEW t \in Threads,
             \/ \E s \in Slots : Destroy(t, s)
             \/ \E s, d \in Slots : Copy(t, s, d) \/ Assign(t, d, s)
             \/ Put(t) \/ AssignRef(t)
      PROVE  LineInv'
  <2>1. UNCHANGED <<text, tag, serves, console>>
    BY <1>1 DEF Destroy, Copy, Assign, Put, AssignRef, entityVars, outputVars
  <2>2. ASSUME NEW u \in Threads, at'[u] = "message"
        PROVE  at[u] = "message" /\ releasing'[u] = releasing[u]
    <3>1. at'[t] \in {"idle", "release", "ref"}
      BY <1>1 DEF Destroy, Copy, Assign, Put, AssignRef, Unref, GoTo, Inv, TypeOK
    <3>2. u # t => at'[u] = at[u] /\ releasing'[u] = releasing[u]
      BY <1>1 DEF Destroy, Copy, Assign, Put, AssignRef, Unref, GoTo, Inv, TypeOK
    <3> QED
      BY <2>2, <3>1, <3>2
  <2> QED
    BY <1>0, <2>1, <2>2, LineQuiet DEF Piece
<1>2. CASE UNCHANGED vars
  BY <1>0, <1>2, LineQuiet DEF vars, entityVars, outputVars, threadVars, Piece
<1> QED
  BY <1>0, <1>1, <1>2, LineConstruct, LineWrite, LineRelease DEF Next, Caller

(***************************************************************************)
(* A line of the console is torn by other threads at most: between the two *)
(* writes of logMessage the entity stays with the thread, for any number   *)
(* of threads, records and entities, copies and assignments included       *)
(* (loghandler.cc 50-64, log.cc 105-146).                                  *)
(***************************************************************************)
THEOREM OwnLinesWhole == Spec => []TornByOthersOnly
<1>1. Init => LineInv
  BY DEF Init, LineInv, OwnRecords, TornByOthersOnly, ModuleWritten
<1>2. LineInv => TornByOthersOnly
  BY DEF LineInv
<1>3. Inv /\ LineInv /\ [Next]_vars => LineInv'
  BY LineStep
<1> QED
  BY <1>1, <1>2, <1>3, InvHolds, PTL DEF Spec
=============================================================================
