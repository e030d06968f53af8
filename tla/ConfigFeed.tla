----------------------------- MODULE ConfigFeed -----------------------------
(***************************************************************************)
(* The way of a config from the API server to the controller's queue: the  *)
(* informer lists and watches through ListFunc and WatchFunc and the       *)
(* generated client, queues what it learns, stores it in the cache the     *)
(* lister reads and only then, in another goroutine, calls the handlers    *)
(* that NewController registered.  Between the store and the handler the   *)
(* worker and the poller may read the new version already.                 *)
(*                                                                         *)
(* The reflector, its queue of deltas and the store are client-go's        *)
(* (external); the informer's two functions, the client and the handlers   *)
(* are the repository's.  Writes are numbered as they happen, and their    *)
(* numbers are the resource versions.                                      *)
(***************************************************************************)
EXTENDS Naturals, Sequences, Functions, FiniteSetsExt

CONSTANTS
    Config,
    MaxWrites,    \* bound: writes of configs
    MaxRelists,   \* bound: watches that break so that a new list is needed
    MaxNotices    \* bound: calls of handlers that a resync may add to

ASSUME FeedAssumption ==
    MaxWrites \in Nat /\ MaxRelists \in Nat /\ MaxNotices \in Nat

VARIABLES
    log,         \* all writes of configs: log[i] = [config, present]
    forgotten,   \* the API server can no longer send the writes up to this
    reflector,   \* [at |-> "list" or "watch", version |-> how far it has come]
    relists,     \* watches that broke so far
    deltas,      \* deltas[c]: what is queued for c, in order
    seen,        \* seen[c]: the write of c the store shows, 0 for none
    notices,     \* the handlers' calls to come: [config, old, new]
    owed,        \* configs in the work queue, in whatever state
    loaded       \* loaded[c]: the write the worker last read

feedVars == <<log, forgotten, reflector, relists, deltas, seen, notices, owed, loaded>>

Init ==
    /\ log = <<>> /\ forgotten = 0
    /\ reflector = [at |-> "list", version |-> 0] /\ relists = 0
    /\ deltas = [c \in Config |-> <<>>]
    /\ seen = [c \in Config |-> 0]
    /\ notices = <<>>
    /\ owed = {}
    /\ loaded = [c \in Config |-> 0]

-----------------------------------------------------------------------------
(* The API server *)

\* The last write of c up to version v, 0 when there was none.
LastWrite(c, v) == Max({0} \union {i \in 1..v : log[i].config = c})

There(i) == i # 0 /\ log[i].present

\* Users create, change and delete configs.
Write(c, there) ==
    /\ Len(log) < MaxWrites
    /\ there \/ There(LastWrite(c, Len(log)))
    /\ log' = Append(log, [config |-> c, present |-> there])
    /\ UNCHANGED <<forgotten, reflector, relists, deltas, seen, notices, owed, loaded>>

\* The API server drops old events.
Forget ==
    /\ forgotten < Len(log)
    /\ forgotten' = Len(log)
    /\ UNCHANGED <<log, reflector, relists, deltas, seen, notices, owed, loaded>>

-----------------------------------------------------------------------------
(* The reflector *)

Known(c) ==
    There(seen[c]) \/ \E d \in Range(deltas[c]) : There(d)

\* ListFunc: the answer is of some version, not older than what was asked for and
\* not so old that it could not be watched from.
\* What is in it replaces what is known, and what is not in it was deleted.
List ==
    /\ reflector.at = "list"
    /\ \E v \in Max({reflector.version, forgotten})..Len(log) :
          /\ reflector' = [at |-> "watch", version |-> v]
          /\ deltas' = [c \in Config |->
                          IF There(LastWrite(c, v)) \/ Known(c)
                            THEN Append(deltas[c], LastWrite(c, v))
                            ELSE deltas[c]]
    /\ UNCHANGED <<log, forgotten, relists, seen, notices, owed, loaded>>

\* (mistake) The options of the watch are lost on the way: it starts from now.
WatchFromNow ==
    /\ reflector.at = "watch"
    /\ reflector.version < Len(log)
    /\ LET i == Len(log)
       IN  /\ reflector' = [reflector EXCEPT !.version = i]
           /\ deltas' = [deltas EXCEPT ![log[i].config] = Append(@, i)]
    /\ UNCHANGED <<log, forgotten, relists, seen, notices, owed, loaded>>

\* WatchFunc: the events come in order, from the version asked for.  A watch
\* that ends is begun again from where it was.
Watch ==
    /\ reflector.at = "watch"
    /\ reflector.version < Len(log)
    /\ reflector.version >= forgotten
    /\ LET i == reflector.version + 1
       IN  /\ reflector' = [reflector EXCEPT !.version = i]
           /\ deltas' = [deltas EXCEPT ![log[i].config] = Append(@, i)]
    /\ UNCHANGED <<log, forgotten, relists, seen, notices, owed, loaded>>

\* The version is too old for the API server to watch from.
WatchExpires ==
    /\ reflector.at = "watch"
    /\ reflector.version < forgotten
    /\ reflector' = [reflector EXCEPT !.at = "list"]
    /\ UNCHANGED <<log, forgotten, relists, deltas, seen, notices, owed, loaded>>

\* Any other error the reflector answers with a new list.
WatchBreaks ==
    /\ reflector.at = "watch"
    /\ relists < MaxRelists
    /\ relists' = relists + 1
    /\ reflector' = [reflector EXCEPT !.at = "list"]
    /\ UNCHANGED <<log, forgotten, deltas, seen, notices, owed, loaded>>

-----------------------------------------------------------------------------
(* The store and the handlers *)

\* Every resync period each stored config without news is queued as it is.
Resync ==
    LET quiet == {c \in Config : There(seen[c]) /\ deltas[c] = <<>>}
    IN  /\ quiet # {} /\ Len(notices) + Cardinality(quiet) <= MaxNotices
        /\ deltas' = [c \in Config |-> IF c \in quiet THEN <<seen[c]>> ELSE deltas[c]]
        /\ UNCHANGED <<log, forgotten, reflector, relists, seen, notices, owed, loaded>>

\* A delta goes to the store, and with it a call to the handler.  There is no
\* handler for deletions.
Store(c) ==
    /\ deltas[c] # <<>>
    /\ LET i == Head(deltas[c])
       IN  /\ deltas' = [deltas EXCEPT ![c] = Tail(@)]
           /\ seen' = [seen EXCEPT ![c] = i]
           /\ notices' = IF There(i)
                           THEN Append(notices, [config |-> c, old |-> seen[c], new |-> i])
                           ELSE notices
    /\ UNCHANGED <<log, forgotten, reflector, relists, owed, loaded>>

\* (mistake) The update handler does not compare resource versions.
EnqueuesAlways(n) == TRUE

\* (mistake) The update handler returns when the versions differ.
EnqueuesResyncs(n) == ~There(n.old) \/ n.old = n.new

\* AddFunc enqueues.  UpdateFunc enqueues, unless both objects have the same
\* resource version, as in a resync.
Enqueues(n) == ~There(n.old) \/ n.old # n.new

CallHandler ==
    /\ notices # <<>>
    /\ notices' = Tail(notices)
    /\ LET n == Head(notices)
       IN  owed' = IF Enqueues(n) THEN owed \union {n.config} ELSE owed
    /\ UNCHANGED <<log, forgotten, reflector, relists, deltas, seen, loaded>>

\* The worker takes the key and reads the config from the lister.
Handle(c) ==
    /\ c \in owed
    /\ owed' = owed \ {c}
    /\ loaded' = [loaded EXCEPT ![c] = seen[c]]
    /\ UNCHANGED <<log, forgotten, reflector, relists, deltas, seen, notices>>

Next ==
    \/ \E c \in Config : Store(c) \/ Handle(c) \/ \E there \in BOOLEAN : Write(c, there)
    \/ Forget \/ List \/ Watch \/ WatchExpires \/ WatchBreaks
    \/ Resync \/ CallHandler

\* The reflector and the goroutines that store and notify run, its requests
\* are answered, and the worker comes round.  Resyncs need not happen.
Fairness ==
    /\ WF_feedVars(List) /\ WF_feedVars(Watch) /\ WF_feedVars(WatchExpires)
    /\ \A c \in Config : WF_feedVars(Store(c)) /\ WF_feedVars(Handle(c))
    /\ WF_feedVars(CallHandler)

Spec == Init /\ [][Next]_feedVars
FairSpec == Spec /\ Fairness

-----------------------------------------------------------------------------
\* Configs the handlers will enqueue count as owed already.
Announced == {n.config : n \in {m \in Range(notices) : Enqueues(m)}}

Cache == INSTANCE LaggingCache WITH owed <- owed \union Announced

\* The feed is the cache Controller assumes: it never goes back, and each version
\* it moves to is owed a look from that moment on, whatever lists, watches,
\* resyncs and delayed handlers do.
FeedIsLaggingCache == Cache!Spec

\* Once users, broken watches and the API server's forgetting come to rest, the
\* store shows the last write of every config and the worker has read it.
FeedCatchesUp ==
    <>[](\A c \in Config :
            /\ There(LastWrite(c, Len(log))) \/ There(seen[c]) =>
                  seen[c] = LastWrite(c, Len(log))
            /\ There(seen[c]) => loaded[c] = seen[c])

\* Resyncs, which go on for ever, do not keep the worker busy.
ResyncsAreFree == <>[](owed = {})
=============================================================================
