----------------------------- MODULE LogRecords -----------------------------
(***************************************************************************)
(* The logger (log.h, log.cc, loghandler.cc): LogRecord objects share      *)
(* reference-counted LogStreamEntity objects, which go back to a global    *)
(* cache when their last record is destroyed.  COMMON_LOG makes a record,  *)
(* writes to its stream and destroys it; records can also be copied and    *)
(* assigned.  A record is a variable of one thread.  The cache has a       *)
(* mutex, the counter is atomic, and nothing else is protected.            *)
(***************************************************************************)
EXTENDS Integers, Sequences, FiniteSets

CONSTANTS
  Threads,
  Slots,       \* the LogRecord variables of a thread
  Entities,    \* the LogStreamEntity objects
  None,        \* no entity, no slot
  Modules,     \* the CommonLog objects
  Capacity,    \* what fits in an entity's buffer
  MaxRecords,  \* bound: MaxRecords[t] records opened by t
  MaxWrites    \* bound: writes to one record

ASSUME LogRecordsAssumption ==
  /\ IsFiniteSet(Threads) /\ IsFiniteSet(Slots)
  /\ Threads # {} /\ Modules # {}
  /\ None \notin Entities \cup Slots
  /\ Capacity \in Nat /\ MaxRecords \in [Threads -> Nat \ {0}] /\ MaxWrites \in Nat

VARIABLES
  handler,     \* handler[m]: the CommonLog m has a LogHandler
  cache,       \* the stack of entities, top first
  made,        \* the entities constructed so far
  ref,         \* _ref
  text,        \* the buffer: of each write the record it was meant for
  bad,         \* the stream of the entity has failed
  tag,         \* level and module of the entity
  whandler,    \* whandler[e]: the handler given to e is not null
  rec,         \* rec[t][s]: the entity of record s of thread t
  at,          \* where t is
  releasing,   \* releasing[t]: the entity whose release t executes
  rhs,         \* rhs[t]: the assignment t is in
  console,     \* what was written to std::cout
  logged,      \* the records log4cxx was given
  \* what the caller asked for
  opened,      \* opened[t]: the records t has opened
  serves,      \* serves[e]: the last record e was taken for
  info,        \* info[id]: the tag of a record
  written      \* written[id]: the writes to a record

entityVars == <<ref, text, bad, tag, whandler, serves>>
cacheVars == <<cache, made>>
outputVars == <<console, logged>>
threadVars == <<rec, at, releasing, rhs>>
callerVars == <<opened, info, written>>
vars == <<handler, cacheVars, entityVars, threadVars, outputVars, callerVars>>

\* CommonLog::INFO, which both handlers show, and DEBUG, which none does.
Levels == {"INFO", "DEBUG"}
Tags == [level : Levels, module : Modules]
Ids == UNION {{t} \X (1 .. MaxRecords[t]) : t \in Threads}
AnyTag == CHOOSE tg \in Tags : TRUE
AnyId == CHOOSE id \in Ids : TRUE
NoAssignment == [slot |-> None, entity |-> None]

Pieces == [piece : {"module", "message"}, id : Ids, tag : Tags, text : Seq(Ids)]

TypeOK ==
  /\ handler \in [Modules -> BOOLEAN]
  /\ cache \in Seq(Entities) /\ made \subseteq Entities
  /\ ref \in [Entities -> Nat]
  /\ text \in [Entities -> Seq(Ids)]
  /\ bad \in [Entities -> BOOLEAN]
  /\ tag \in [Entities -> Tags]
  /\ whandler \in [Entities -> BOOLEAN]
  /\ rec \in [Threads -> [Slots -> Entities \cup {None}]]
  /\ at \in [Threads -> {"idle", "release", "log4cxx", "module", "message", "put", "ref"}]
  /\ releasing \in [Threads -> Entities \cup {None}]
  /\ rhs \in [Threads -> [slot : Slots \cup {None}, entity : Entities \cup {None}]]
  /\ console \in Seq(Pieces) /\ logged \subseteq Ids
  /\ opened \in [Threads -> Nat] /\ \A t \in Threads : opened[t] <= MaxRecords[t]
  /\ serves \in [Entities -> Ids]
  /\ info \in [Ids -> Tags]
  /\ written \in [Ids -> 0 .. MaxWrites]

(***************************************************************************)
(* logHandler, defined in main.cpp, and the CommonLog objects, each in a   *)
(* file of its own and given a copy of logHandler, are initialised before  *)
(* main in an order the language leaves open: a CommonLog that comes first *)
(* copies a null pointer.                                                  *)
(***************************************************************************)
Init ==
  /\ handler \in [Modules -> BOOLEAN]
  /\ cache = << >> /\ made = {}
  /\ ref = [e \in Entities |-> 0]
  /\ text = [e \in Entities |-> << >>]
  /\ bad = [e \in Entities |-> FALSE]
  /\ tag = [e \in Entities |-> AnyTag]
  /\ whandler = [e \in Entities |-> FALSE]
  /\ rec = [t \in Threads |-> [s \in Slots |-> None]]
  /\ at = [t \in Threads |-> "idle"]
  /\ releasing = [t \in Threads |-> None]
  /\ rhs = [t \in Threads |-> NoAssignment]
  /\ console = << >> /\ logged = {}
  /\ opened = [t \in Threads |-> 0]
  /\ serves = [e \in Entities |-> AnyId]
  /\ info = [id \in Ids |-> AnyTag]
  /\ written = [id \in Ids |-> 0]
-----------------------------------------------------------------------------
GoTo(t, where) == at' = [at EXCEPT ![t] = where]

\* LogStreamCache::get, under the mutex of the cache: the top of the stack, or
\* a new entity, no matter which.
CacheGet(e) ==
  \/ /\ cache # << >> /\ e = Head(cache)
     /\ cache' = Tail(cache)
     /\ ref' = [ref EXCEPT ![e] = @ + 1]
     /\ UNCHANGED made
  \/ /\ cache = << >> /\ Entities \ made # {}
     /\ e = CHOOSE new \in Entities \ made : TRUE
     /\ made' = made \cup {e}
     /\ ref' = [ref EXCEPT ![e] = 1]
     /\ UNCHANGED cache

\* A faulty form of Construct: an entity from the cache keeps its level.
ConstructKeepsLevel(t, s, tg) ==
  LET id == <<t, opened[t] + 1>> IN
  /\ at[t] = "idle" /\ rec[t][s] = None /\ opened[t] < MaxRecords[t]
  /\ \E e \in Entities :
       /\ CacheGet(e)
       /\ whandler' = [whandler EXCEPT ![e] = handler[tg.module]]
       /\ tag' = [tag EXCEPT ![e] = IF e \in made THEN [tg EXCEPT !.level = tag[e].level] ELSE tg]
       /\ rec' = [rec EXCEPT ![t][s] = e]
       /\ serves' = [serves EXCEPT ![e] = id]
  /\ opened' = [opened EXCEPT ![t] = @ + 1]
  /\ info' = [info EXCEPT ![id] = tg]
  /\ UNCHANGED <<handler, text, bad, at, releasing, rhs, outputVars, written>>

\* LogRecord(log, level): after get the thread has the entity to itself.
Construct(t, s, tg) ==
  LET id == <<t, opened[t] + 1>> IN
  /\ at[t] = "idle" /\ rec[t][s] = None /\ opened[t] < MaxRecords[t]
  /\ \E e \in Entities :
       /\ CacheGet(e)
       /\ whandler' = [whandler EXCEPT ![e] = handler[tg.module]]
       /\ tag' = [tag EXCEPT ![e] = tg]
       /\ rec' = [rec EXCEPT ![t][s] = e]
       /\ serves' = [serves EXCEPT ![e] = id]
  /\ opened' = [opened EXCEPT ![t] = @ + 1]
  /\ info' = [info EXCEPT ![id] = tg]
  /\ UNCHANGED <<handler, text, bad, at, releasing, rhs, outputVars, written>>

\* stream() << something.  What does not fit sets badbit, and nothing ever
\* clears it.
Write(t, s) ==
  LET e == rec[t][s]
      id == serves[e] IN
  /\ at[t] = "idle" /\ e # None
  /\ written[id] < MaxWrites
  /\ written' = [written EXCEPT ![id] = @ + 1]
  /\ \/ /\ ~bad[e] /\ Len(text[e]) < Capacity
        /\ text' = [text EXCEPT ![e] = Append(@, id)]
        /\ UNCHANGED bad
     \/ /\ bad[e] \/ Len(text[e]) >= Capacity
        /\ bad' = [bad EXCEPT ![e] = TRUE]
        /\ UNCHANGED text
  /\ UNCHANGED <<handler, cacheVars, ref, tag, whandler, serves, threadVars, outputVars, opened, info>>

\* A faulty form of Copy: two records, one reference.
CopyUncounted(t, s, d) ==
  /\ at[t] = "idle" /\ rec[t][s] # None /\ rec[t][d] = None
  /\ rec' = [rec EXCEPT ![t][d] = rec[t][s]]
  /\ UNCHANGED <<handler, cacheVars, entityVars, at, releasing, rhs, outputVars, callerVars>>

\* LogRecord(const LogRecord &).
Copy(t, s, d) ==
  /\ at[t] = "idle" /\ rec[t][s] # None /\ rec[t][d] = None
  /\ ref' = [ref EXCEPT ![rec[t][s]] = @ + 1]
  /\ rec' = [rec EXCEPT ![t][d] = rec[t][s]]
  /\ UNCHANGED <<handler, cacheVars, text, bad, tag, whandler, serves, at, releasing, rhs,
                 outputVars, callerVars>>

\* unref: the thread that drops the last reference executes release, and goes
\* on at next otherwise.
Unref(t, e, next) ==
  /\ ref' = [ref EXCEPT ![e] = @ - 1]
  /\ IF ref[e] = 1 THEN releasing' = [releasing EXCEPT ![t] = e] /\ GoTo(t, "release")
                   ELSE UNCHANGED releasing /\ GoTo(t, next)

\* ~LogRecord.
Destroy(t, s) ==
  /\ at[t] = "idle" /\ rec[t][s] # None
  /\ Unref(t, rec[t][s], "idle")
  /\ rec' = [rec EXCEPT ![t][s] = None]
  /\ UNCHANGED <<handler, cacheVars, text, bad, tag, whandler, serves, rhs, outputVars, callerVars>>

\* operator=: first unref, then ref (AssignRef).  In between the record is as
\* good as none.  No record is assigned to itself.
Assign(t, d, s) ==
  /\ at[t] = "idle" /\ s # d /\ rec[t][s] # None /\ rec[t][d] # None
  /\ Unref(t, rec[t][d], "ref")
  /\ rec' = [rec EXCEPT ![t][d] = None]
  /\ rhs' = [rhs EXCEPT ![t] = [slot |-> d, entity |-> rec[t][s]]]
  /\ UNCHANGED <<handler, cacheVars, text, bad, tag, whandler, serves, outputVars, callerVars>>

\* A faulty form of AssignRef: the reference is not counted.
AssignUncounted(t) ==
  /\ at[t] = "ref"
  /\ rec' = [rec EXCEPT ![t][rhs[t].slot] = rhs[t].entity]
  /\ rhs' = [rhs EXCEPT ![t] = NoAssignment]
  /\ GoTo(t, "idle")
  /\ UNCHANGED <<handler, cacheVars, entityVars, releasing, outputVars, callerVars>>

AssignRef(t) ==
  /\ at[t] = "ref"
  /\ ref' = [ref EXCEPT ![rhs[t].entity] = @ + 1]
  /\ rec' = [rec EXCEPT ![t][rhs[t].slot] = rhs[t].entity]
  /\ rhs' = [rhs EXCEPT ![t] = NoAssignment]
  /\ GoTo(t, "idle")
  /\ UNCHANGED <<handler, cacheVars, text, bad, tag, whandler, serves, releasing, outputVars, callerVars>>

\* A faulty form of Reset: the text of a record without a handler stays.
ResetDelivered(e) ==
  text' = IF whandler[e] THEN [text EXCEPT ![e] = << >>] ELSE text

\* pbump(-nbytes).
Reset(e) == text' = [text EXCEPT ![e] = << >>]

ReleaseUnchanged == UNCHANGED <<handler, cacheVars, ref, bad, tag, whandler, serves, rec, releasing,
                                rhs, callerVars>>

\* A faulty form of Release: the entity is back before its text is delivered.
ReleasePutsFirst(t) ==
  LET e == releasing[t] IN
  /\ at[t] = "release"
  /\ IF text[e] # << >> /\ whandler[e] THEN GoTo(t, "log4cxx") /\ UNCHANGED text
                                       ELSE GoTo(t, "put") /\ Reset(e)
  /\ cache' = <<e>> \o cache
  /\ UNCHANGED <<handler, made, ref, bad, tag, whandler, serves, rec, releasing, rhs,
                 outputVars, callerVars>>

\* release: an empty text, or a handler that is null, and nobody is told.
Release(t) ==
  LET e == releasing[t] IN
  /\ at[t] = "release"
  /\ IF text[e] # << >> /\ whandler[e] THEN GoTo(t, "log4cxx") /\ UNCHANGED text
                                       ELSE GoTo(t, "put") /\ Reset(e)
  /\ UNCHANGED outputVars
  /\ ReleaseUnchanged

\* Log4cxxHandler::logMessage, then the next handler of the chain, which has
\* the same level.
Log4cxx(t) ==
  LET e == releasing[t] IN
  /\ at[t] = "log4cxx"
  /\ IF tag[e].level = "INFO" THEN GoTo(t, "module") /\ logged' = logged \cup {serves[e]} /\ UNCHANGED text
                              ELSE GoTo(t, "put") /\ UNCHANGED logged /\ Reset(e)
  /\ UNCHANGED console
  /\ ReleaseUnchanged

Piece(e, what) == [piece |-> what, id |-> serves[e], tag |-> tag[e], text |-> text[e]]

\* ConsoleLogHandler::logMessage writes twice.
ConsoleModule(t) ==
  /\ at[t] = "module"
  /\ console' = Append(console, Piece(releasing[t], "module"))
  /\ GoTo(t, "message")
  /\ UNCHANGED <<text, logged>>
  /\ ReleaseUnchanged

ConsoleMessage(t) ==
  /\ at[t] = "message"
  /\ console' = Append(console, Piece(releasing[t], "message"))
  /\ Reset(releasing[t])
  /\ GoTo(t, "put")
  /\ UNCHANGED logged
  /\ ReleaseUnchanged

\* A faulty form of Put: the entity is not kept.
PutForgotten(t) ==
  /\ at[t] = "put"
  /\ releasing' = [releasing EXCEPT ![t] = None]
  /\ GoTo(t, IF rhs[t] = NoAssignment THEN "idle" ELSE "ref")
  /\ UNCHANGED <<handler, cacheVars, entityVars, rec, rhs, outputVars, callerVars>>

\* LogStreamCache::put, under the mutex of the cache.
Put(t) ==
  /\ at[t] = "put"
  /\ cache' = <<releasing[t]>> \o cache
  /\ releasing' = [releasing EXCEPT ![t] = None]
  /\ GoTo(t, IF rhs[t] = NoAssignment THEN "idle" ELSE "ref")
  /\ UNCHANGED <<handler, made, entityVars, rec, rhs, outputVars, callerVars>>

Caller(t) ==
  \/ \E s \in Slots, tg \in Tags : Construct(t, s, tg)
  \/ \E s \in Slots : Write(t, s) \/ Destroy(t, s)
  \/ \E s, d \in Slots : Copy(t, s, d) \/ Assign(t, d, s)

Next == \E t \in Threads :
  Caller(t) \/ Release(t) \/ Log4cxx(t) \/ ConsoleModule(t) \/ ConsoleMessage(t) \/ Put(t) \/ AssignRef(t)

Spec == Init /\ [][Next]_vars
-----------------------------------------------------------------------------
\* The records that hold e.
Holders(e) == {h \in Threads \X Slots : rec[h[1]][h[2]] = e}
Releasing(e) == {t \in Threads : releasing[t] = e}

(***************************************************************************)
(* The counter is right, and an entity is at one place only: records of    *)
(* one thread hold it, or one thread is releasing it, or it is once in the *)
(* cache (log.cc 48-74, 105-146, 167-182).  Only this makes the unlocked   *)
(* stream of an entity safe.                                               *)
(***************************************************************************)
CachedOnce ==
  \A i, j \in 1 .. Len(cache) : cache[i] = cache[j] => i = j

OneOwner ==
  /\ CachedOnce
  /\ \A e \in Entities :
       /\ ref[e] = Cardinality(Holders(e))
       /\ \A h, k \in Holders(e) : h[1] = k[1]
       /\ \A t \in Releasing(e) : Holders(e) = {} /\ Releasing(e) = {t}
       /\ (\E i \in 1 .. Len(cache) : cache[i] = e) => Holders(e) = {} /\ Releasing(e) = {}

(***************************************************************************)
(* No entity gets lost: each one that was made is held, being released or  *)
(* back in the cache, so that there are never more than records were open  *)
(* at once, however many come and go (log.cc 105-182).                     *)
(***************************************************************************)
NoEntityLost ==
  \A e \in made :
    Holders(e) # {} \/ Releasing(e) # {} \/ \E i \in 1 .. Len(cache) : cache[i] = e

\* The records that were opened, and whose last LogRecord has gone.
Closed == {id \in Ids : /\ id[2] <= opened[id[1]]
                        /\ \A e \in Entities : serves[e] = id => Holders(e) = {} /\ Releasing(e) = {}}

Message(id) == [piece |-> "message", id |-> id, tag |-> info[id],
                text |-> [i \in 1 .. written[id] |-> id]]

(***************************************************************************)
(* Nothing gets lost unless a buffer overflows: a record that was written  *)
(* to, with a level the handlers show and a handler that is not null, is   *)
(* delivered to both handlers, once and in full, though its entity may     *)
(* have served others, also records that were dropped (log.cc 120-146,     *)
(* loghandler.cc 18-64).                                                   *)
(***************************************************************************)
NothingLostWithoutOverflow ==
  (\A e \in Entities : ~bad[e]) =>
    \A id \in Closed :
      info[id].level = "INFO" /\ handler[info[id].module] /\ written[id] > 0 =>
        /\ id \in logged
        /\ Cardinality({i \in 1 .. Len(console) : console[i] = Message(id)}) = 1

(***************************************************************************)
(* A line of the console is torn by other threads at most: the last piece  *)
(* a thread wrote before a message is the module of the same record, with  *)
(* the same tag and text; the entity did not change hands between the two  *)
(* writes (log.cc 120-146, loghandler.cc 50-64, without a lock).           *)
(***************************************************************************)
TornByOthersOnly ==
  \A i \in 1 .. Len(console) : console[i].piece = "message" =>
    \E j \in 1 .. i - 1 :
      /\ console[j] = [console[i] EXCEPT !.piece = "module"]
      /\ \A k \in j + 1 .. i - 1 : console[k].id[1] # console[i].id[1]

(***************************************************************************)
(* The logger keeps its promise (LogSink), with the entities hidden: the   *)
(* records that are open are those whose entity is in use, until its text  *)
(* is reset; what is delivered is the messages on the console, in order.   *)
(***************************************************************************)
InUse(e) == Holders(e) # {} \/ \E t \in Releasing(e) : at[t] # "put"

Served(e) == [id |-> serves[e], tag |-> tag[e], text |-> text[e]]

Delivered(pieces) ==
  LET upTo[i \in 0 .. Len(pieces)] ==
        IF i = 0 THEN << >>
        ELSE IF pieces[i].piece # "message" THEN upTo[i - 1]
        ELSE Append(upTo[i - 1],
                    [id |-> pieces[i].id, tag |-> pieces[i].tag, text |-> pieces[i].text])
  IN  upTo[Len(pieces)]

Sink == INSTANCE LogSink WITH
  open <- {Served(e) : e \in {f \in Entities : InUse(f)}},
  output <- Delivered(console)

ImplementsLogSink == Sink!Spec
=============================================================================
