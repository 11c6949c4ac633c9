------------------------------- MODULE LiveReads --------------------------------
(***************************************************************************)
(* What players see of the live auction: the short-lived cache             *)
(* (lib/ttl-cache.ts), the broadcaster behind the event stream             *)
(* (lib/auction-events.ts), and publishAuctionChange, which every write in *)
(* lib/auction.ts calls after its commit.                                  *)
(*                                                                         *)
(* The state of the auctions is a version that every commit raises.  A     *)
(* load is a call of a loader, that is a promise: it reads the version at  *)
(* some moment after it began, and the cache holds promises, settled or    *)
(* not.                                                                    *)
(***************************************************************************)
EXTENDS Integers

CONSTANTS
  Loads, NoLoad,  \* bound: promises that are held at one time
  Readers,        \* bound: requests for the state at one time
  Subscribers,    \* the open event streams
  MaxVersion      \* bound: commits

ASSUME ReadsAssumption == NoLoad \notin Loads /\ MaxVersion \in Nat \ {0}

VARIABLES
  version,      \* what is committed
  unpublished,  \* commits whose publishAuctionChange is still to come
  announced,    \* history: the version at the last publishAuctionChange
  entry,        \* the store of the cache, by key
  load,         \* the promises
  reader,       \* the requests that wait for one; since is what was announced
  subscribed,   \* the Set subscribers
  timer,        \* the interval is set
  lastSent,     \* lastSerialized
  run,          \* running: runOnce and what it waits for
  dirty,
  got,          \* the last message each stream received
  owed          \* history: what was announced before the last finished load

cacheVars == <<entry, load>>
streamVars == <<subscribed, timer, lastSent, run, dirty, got, owed>>
readVars == <<version, unpublished, announced, cacheVars, reader, streamVars>>

Keys == {"live", "state"}   \* the live auction's id, and its state
Versions == 0..MaxVersion
Snapshots == [live : Versions, state : Versions]
NoSnapshot == [live |-> 0, state |-> 0]   \* version 0 is never committed
IdleReader == [waits |-> FALSE, load |-> NoLoad, since |-> 0]
IdleRun == [at |-> "idle", load |-> NoLoad, since |-> 0, live |-> 0]

ReadsTypeOK ==
  /\ version \in Versions /\ unpublished \in Versions /\ announced \in Versions
  /\ entry \in [Keys -> Loads \cup {NoLoad}]
  /\ load \in [Loads -> [at : {"reading", "read", "done", "failed"}, value : Versions]]
  /\ reader \in [Readers -> [waits : BOOLEAN, load : Loads \cup {NoLoad}, since : Versions]]
  /\ subscribed \subseteq Subscribers /\ timer \in BOOLEAN
  /\ lastSent \in Snapshots /\ dirty \in BOOLEAN
  /\ run \in [at : {"idle", "live", "state", "ending"}, load : Loads \cup {NoLoad},
              since : Versions, live : Versions]
  /\ got \in [Subscribers -> Snapshots] /\ owed \in [Subscribers -> Versions]

ReadsInit ==
  /\ version = 1 /\ unpublished = 0 /\ announced = 0
  /\ entry = [k \in Keys |-> NoLoad]
  /\ load = [l \in Loads |-> [at |-> "failed", value |-> 0]]
  /\ reader = [r \in Readers |-> IdleReader]
  /\ subscribed = {} /\ timer = FALSE /\ lastSent = NoSnapshot
  /\ run = IdleRun /\ dirty = FALSE
  /\ got = [s \in Subscribers |-> NoSnapshot]
  /\ owed = [s \in Subscribers |-> 0]
--------------------------------------------------------------------------------
(* cached: a promise that is in the store is shared, also one that is not  *)
(* settled; otherwise the loader is called.  l is the promise of the       *)
(* caller, store the store as the caller finds it.                         *)

Held(store) ==
  {store[k] : k \in Keys} \cup {reader[r].load : r \in Readers} \cup {run.load}

FreeLoad(store) == CHOOSE l \in Loads : l \notin Held(store)

Cached(store, k, l) ==
  \/ /\ store[k] = l
     /\ entry' = store /\ UNCHANGED load
  \/ /\ store[k] = NoLoad
     /\ ~(Loads \subseteq Held(store)) /\ l = FreeLoad(store)
     /\ entry' = [store EXCEPT ![k] = l]
     /\ load' = [load EXCEPT ![l] = [at |-> "reading", value |-> 0]]

(* The loader reads the database, and later the promise settles; or it     *)
(* throws: then the entry is deleted, if it is still this promise.         *)
LoadReads(l) ==
  /\ load[l].at = "reading"
  /\ load' = [load EXCEPT ![l] = [at |-> "read", value |-> version]]
  /\ UNCHANGED <<version, unpublished, announced, entry, reader, streamVars>>

LoadSettles(l) ==
  /\ load[l].at = "read"
  /\ load' = [load EXCEPT ![l].at = "done"]
  /\ UNCHANGED <<version, unpublished, announced, entry, reader, streamVars>>

LoadFails(l) ==
  /\ load[l].at = "reading"
  /\ load' = [load EXCEPT ![l].at = "failed"]
  /\ entry' = [k \in Keys |-> IF entry[k] = l THEN NoLoad ELSE entry[k]]
  /\ UNCHANGED <<version, unpublished, announced, reader, streamVars>>

(* The entry expires, or makes room for another key (MAX_ENTRIES).         *)
EntryLeaves(k) ==
  /\ entry[k] # NoLoad
  /\ entry' = [entry EXCEPT ![k] = NoLoad]
  /\ UNCHANGED <<version, unpublished, announced, load, reader, streamVars>>

InvalidateSettled ==
  [k \in Keys |-> IF entry[k] # NoLoad /\ load[entry[k]].at = "done" THEN NoLoad ELSE entry[k]]

(* invalidate(AUCTION_CACHE_PREFIX): the store without the auction's keys. *)
Invalidate == [k \in Keys |-> NoLoad]

(* A request, of getPublicAuctionState or another reader of the cache.     *)
ReaderAsks(r, k) ==
  /\ ~reader[r].waits
  /\ \E l \in Loads :
       /\ Cached(entry, k, l)
       /\ reader' = [reader EXCEPT ![r] = [waits |-> TRUE, load |-> l, since |-> announced]]
  /\ UNCHANGED <<version, unpublished, announced, streamVars>>

ReaderAnswers(r) ==
  /\ reader[r].waits /\ load[reader[r].load].at \in {"done", "failed"}
  /\ reader' = [reader EXCEPT ![r] = IdleReader]
  /\ UNCHANGED <<version, unpublished, announced, cacheVars, streamVars>>
--------------------------------------------------------------------------------
(* The broadcaster.                                                        *)

StartsRun(store, since) ==
  /\ dirty' = FALSE
  /\ \E l \in Loads :
       /\ Cached(store, "live", l)
       /\ run' = [at |-> "live", load |-> l, since |-> since, live |-> 0]

(* tick: one run at a time; another one follows if it is asked for.        *)
Tick(store, since) ==
  IF run.at = "idle" THEN StartsRun(store, since)
  ELSE dirty' = TRUE /\ entry' = store /\ UNCHANGED <<load, run>>

TimerFires ==
  /\ timer
  /\ Tick(entry, announced)
  /\ UNCHANGED <<version, unpublished, announced, reader, subscribed, timer, lastSent, got, owed>>

(* A new stream gets the last message at once, if there is one.            *)
Subscribe(s) ==
  /\ s \notin subscribed
  /\ subscribed' = subscribed \cup {s}
  /\ timer' = TRUE
  /\ got' = [got EXCEPT ![s] = lastSent]
  /\ IF lastSent = NoSnapshot THEN Tick(entry, announced) ELSE UNCHANGED <<cacheVars, run, dirty>>
  /\ UNCHANGED <<version, unpublished, announced, reader, lastSent, owed>>

(* stop, when the last stream has gone; a run that waits goes on.          *)
Unsubscribe(s) ==
  /\ s \in subscribed
  /\ subscribed' = subscribed \ {s}
  /\ timer' = (timer /\ subscribed' # {})
  /\ lastSent' = IF subscribed' = {} THEN NoSnapshot ELSE lastSent
  /\ got' = [got EXCEPT ![s] = NoSnapshot]
  /\ owed' = [owed EXCEPT ![s] = 0]
  /\ UNCHANGED <<version, unpublished, announced, cacheVars, reader, run, dirty>>

(* loadLiveSnapshot has the id and asks for the state.                     *)
RunHasId ==
  /\ run.at = "live" /\ load[run.load].at = "done"
  /\ \E l \in Loads :
       /\ Cached(entry, "state", l)
       /\ run' = [run EXCEPT !.at = "state", !.load = l, !.live = load[run.load].value]
  /\ UNCHANGED <<version, unpublished, announced, reader, subscribed, timer, lastSent, dirty, got, owed>>

RunGoesOn ==
  IF dirty /\ subscribed # {} THEN StartsRun(entry, announced)
  ELSE run' = [IdleRun EXCEPT !.at = "ending"] /\ UNCHANGED <<cacheVars, dirty>>

(* Both are there: the snapshot is sent if it is not the last one again.   *)
RunSends ==
  LET snapshot == [live |-> run.live, state |-> load[run.load].value] IN
  /\ run.at = "state" /\ load[run.load].at = "done"
  /\ IF subscribed = {} \/ snapshot = lastSent
     THEN UNCHANGED <<lastSent, got>>
     ELSE /\ lastSent' = snapshot
          /\ got' = [s \in Subscribers |-> IF s \in subscribed THEN snapshot ELSE got[s]]
  /\ owed' = [s \in Subscribers |-> IF s \in subscribed THEN run.since ELSE owed[s]]
  /\ RunGoesOn
  /\ UNCHANGED <<version, unpublished, announced, reader, subscribed, timer>>

RunFails ==
  /\ run.at \in {"live", "state"} /\ load[run.load].at = "failed"
  /\ RunGoesOn
  /\ UNCHANGED <<version, unpublished, announced, reader, subscribed, timer, lastSent, got, owed>>

(* The promise of the run settles a little after its loop has ended: what  *)
(* is asked for in between waits for the timer.                            *)
RunSettles ==
  /\ run.at = "ending"
  /\ run' = IdleRun
  /\ UNCHANGED <<version, unpublished, announced, cacheVars, reader, subscribed, timer, lastSent,
                 dirty, got, owed>>
--------------------------------------------------------------------------------
(* A write of lib/auction.ts, and its publishAuctionChange.                *)

Commit ==
  /\ version < MaxVersion
  /\ version' = version + 1 /\ unpublished' = unpublished + 1
  /\ UNCHANGED <<announced, cacheVars, reader, streamVars>>

PublishAuctionChange ==
  /\ unpublished > 0 /\ unpublished' = unpublished - 1
  /\ announced' = version
  /\ IF subscribed # {} THEN Tick(Invalidate, version)
     ELSE entry' = Invalidate /\ UNCHANGED <<load, run, dirty>>
  /\ UNCHANGED <<version, reader, subscribed, timer, lastSent, got, owed>>

ReadsNext ==
  \/ \E l \in Loads : LoadReads(l) \/ LoadSettles(l) \/ LoadFails(l)
  \/ \E k \in Keys : EntryLeaves(k)
  \/ \E r \in Readers : ReaderAnswers(r) \/ \E k \in Keys : ReaderAsks(r, k)
  \/ \E s \in Subscribers : Subscribe(s) \/ Unsubscribe(s)
  \/ TimerFires
  \/ RunHasId \/ RunSends \/ RunFails \/ RunSettles
  \/ Commit \/ PublishAuctionChange

ReadsSpec == ReadsInit /\ [][ReadsNext]_readVars
--------------------------------------------------------------------------------
(* Properties *)

(* "After every write in the auction: the cache is void and the fresh      *)
(* state is broadcast at once" (auction-events.ts:138).  Whoever asks the  *)
(* cache after a publication gets nothing older than it, although loads    *)
(* that began before it are still under way and are shared; and no stream  *)
(* is left with something older than what was published before the load    *)
(* that the last run made.                                                 *)
FreshReads ==
  /\ \A r \in Readers :
       reader[r].waits /\ load[reader[r].load].at = "done"
         => load[reader[r].load].value >= reader[r].since
  /\ \A s \in subscribed : got[s].live >= owed[s] /\ got[s].state >= owed[s]
================================================================================
