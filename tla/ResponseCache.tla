---------------------------- MODULE ResponseCache ----------------------------
(***************************************************************************)
(* The read path of the API: the response cache (response_cache.go) in     *)
(* front of GET /portfolio and GET /stats, and the uncached reads, on      *)
(* several API processes that share one database, some reading from a      *)
(* replica, racing with the writes that invalidate the cache.              *)
(*                                                                         *)
(* What a response says is abstracted to the version of the user's data    *)
(* its snapshot saw, and its ETag (a hash of the bytes) is that version.   *)
(* A key is a URL; Owner gives the user parseUserID reads in it.           *)
(***************************************************************************)
EXTENDS Integers, Sequences, SequencesExt

CONSTANTS Process, Reader, Writer, User,
          Key,         \* request URLs with their query (requestCacheKey)
          Owner,       \* Key -> User: strconv.Atoi of the path parameter
          Canonical,   \* the URLs that spell the user id as strconv.Itoa does
          Cached,      \* the URLs of /portfolio and /stats: Routes puts the cache
                       \* in front of these two of the four reads
          Lag,         \* how far the database p reads from may be behind: 0 for
                       \* the primary, Lag[p] for a replica
          MaxEntries, TTL,
          Limit,       \* longest time from a handler's snapshot to its store
          MaxTime, MaxVersion, MaxRequests,
          None         \* nothing yet

VARIABLES clock,
          ended,       \* ended[u][v]: when version v of u's data was superseded
          cache,       \* per process: the entries in LRU order, newest first
          acked,       \* acked[p][u]: newest version p reported as written
          shown,       \* history, shown[p][k]: newest version of k that p has
                       \* stored in its cache or answered from it
          rd,          \* readers: one GET at a time each
          requests,    \* how many GETs were made, bounded by MaxRequests
          wr           \* writers: one POST each

vars == <<clock, ended, cache, acked, shown, rd, requests, wr>>

ASSUME ConstantsAssumption ==
  /\ Owner \in [Key -> User] /\ Canonical \subseteq Key /\ Cached \subseteq Key
  /\ Lag \in [Process -> Nat]
  /\ MaxEntries \in Nat /\ TTL \in Nat /\ Limit \in Nat /\ MaxTime \in Nat
  /\ None \notin Process \cup Key \cup User

-----------------------------------------------------------------------------
Version == 1..MaxVersion
Entry   == [key: Key, version: Version, storedAt: 0..MaxTime, overtaken: BOOLEAN]
ReaderState ==
  [pc: {"idle", "handler", "body", "done"}, process: Process \cup {None},
   key: Key \cup {None}, version: 0..MaxVersion, snapshotAt: 0..MaxTime, overtaken: BOOLEAN,
   floor: 0..MaxVersion]
WriterState == [pc: {"idle", "committed", "done"}, process: Process \cup {None},
                user: User \cup {None}, version: 0..MaxVersion]

Idle == [pc |-> "idle", process |-> None, key |-> None, version |-> 0, snapshotAt |-> 0,
         overtaken |-> FALSE, floor |-> 0]

Written == [pc |-> "done", process |-> None, user |-> None, version |-> 0]

TypeOK ==
  /\ requests \in 0..MaxRequests
  /\ clock \in 0..MaxTime
  /\ \A u \in User : Len(ended[u]) < MaxVersion /\ \A v \in DOMAIN ended[u] : ended[u][v] <= clock
  /\ \A p \in Process :
        /\ \A i \in DOMAIN cache[p] : cache[p][i] \in Entry
        /\ Len(cache[p]) <= MaxEntries
        /\ \A i, j \in DOMAIN cache[p] : cache[p][i].key = cache[p][j].key => i = j
  /\ acked \in [Process -> [User -> 0..MaxVersion]]
  /\ shown \in [Process -> [Key -> 0..MaxVersion]]
  /\ rd \in [Reader -> ReaderState]
  /\ wr \in [Writer -> WriterState]

Current(u) == Len(ended[u]) + 1

-----------------------------------------------------------------------------
(* The cache, called with its mutex held *)

CacheEnabled == TTL > 0 /\ MaxEntries > 0

\* Mutant: an entry expires one tick late.
LiveAtTTL(e) == clock - e.storedAt <= TTL

Live(e) == clock - e.storedAt < TTL

\* The entries at the positions in kept, in their order.
Sifted(entries, kept) ==
  LET upTo[n \in 0..Len(entries)] ==
        IF n = 0 THEN <<>>
        ELSE IF n \in kept THEN Append(upTo[n - 1], entries[n]) ELSE upTo[n - 1]
  IN upTo[Len(entries)]

Without(entries, k) == Sifted(entries, {i \in DOMAIN entries : entries[i].key # k})

\* Mutant: store leaves an entry that another request made meanwhile.
StoredOnce(entries, e) ==
  LET all == <<e>> \o entries
  IN IF \A i \in DOMAIN entries : entries[i].key # e.key
     THEN SubSeq(all, 1, IF Len(all) > MaxEntries THEN MaxEntries ELSE Len(all))
     ELSE entries

\* store: replace the key's entry, push to the front, drop the oldest entries
\* beyond maxEntries.
Stored(entries, e) ==
  LET all == <<e>> \o Without(entries, e.key)
  IN SubSeq(all, 1, IF Len(all) > MaxEntries THEN MaxEntries ELSE Len(all))

\* Mutant: the write invalidates nothing.
ClearedNothing(entries, u) == entries

\* InvalidateUser(strconv.Itoa(u)) compares with the raw path parameter, so an
\* entry stored under another spelling of the id stays.
Cleared(entries, u) ==
  Sifted(entries, {i \in DOMAIN entries :
                     ~(Owner[entries[i].key] = u /\ entries[i].key \in Canonical)})

-----------------------------------------------------------------------------
(* ResponseCache.Middleware *)

Finish(r) == rd' = [rd EXCEPT ![r] = [@ EXCEPT !.pc = "done", !.snapshotAt = 0]]

\* The history of what p's cache has shown of k.
Show(p, k, v) == shown' = [shown EXCEPT ![p][k] = IF v > @ THEN v ELSE @]

Hits(p, k) == {i \in DOMAIN cache[p] : CacheEnabled /\ cache[p][i].key = k}

\* A hit is answered from the entry (200, or 304 when the client's ETag
\* matches) and moves it to the front; an expired entry is dropped.
Lookup(r, p, k) ==
  LET asked == [Idle EXCEPT !.process = p, !.key = k, !.floor = acked[p][Owner[k]]]
      miss  == [asked EXCEPT !.pc = "handler"]
      hit(e) == [asked EXCEPT !.pc = "done", !.version = e.version, !.overtaken = e.overtaken]
  IN /\ rd[r].pc \in {"idle", "done"} /\ requests < MaxRequests
     /\ requests' = requests + 1
     /\ \/ /\ Hits(p, k) = {}
           /\ rd' = [rd EXCEPT ![r] = miss]
           /\ UNCHANGED <<cache, shown>>
        \/ \E i \in Hits(p, k) :
              LET e == cache[p][i] IN
              \/ /\ ~Live(e)
                 /\ rd' = [rd EXCEPT ![r] = miss]
                 /\ cache' = [cache EXCEPT ![p] = Without(@, k)]
                 /\ UNCHANGED shown
              \/ /\ Live(e)
                 /\ rd' = [rd EXCEPT ![r] = hit(e)]
                 /\ cache' = [cache EXCEPT ![p] = <<e>> \o Without(@, k)]
                 /\ Show(p, k, e.version)
     /\ UNCHANGED <<clock, ended, acked, wr>>

\* What a snapshot of p's database may show of u: the current version, or at a
\* replica one that was superseded less than its lag ago.
Visible(p, u) == {v \in 1..Current(u) : v = Current(u) \/ clock - ended[u][v] < Lag[p]}

\* A read handler's first query.  Portfolio and stats make their two queries in
\* one read-only repeatable-read transaction (beginReadSnapshot), whose snapshot
\* is taken here: the second query sees the same, by the database's promise.
FirstQuery(r) ==
  /\ rd[r].pc = "handler"
  /\ \E v \in Visible(rd[r].process, Owner[rd[r].key]) :
        rd' = [rd EXCEPT ![r] = [@ EXCEPT !.pc = "body", !.version = v, !.snapshotAt = clock]]
  /\ UNCHANGED <<clock, ended, cache, acked, shown, requests, wr>>

\* The handler returned 200: a client that already has these bytes gets 304 and
\* nothing is stored; otherwise the response is stored and sent.
Respond(r, matches) ==
  LET e == [key |-> rd[r].key, version |-> rd[r].version, storedAt |-> clock,
            overtaken |-> rd[r].overtaken]
  IN /\ rd[r].pc = "body"
     /\ Finish(r)
     /\ IF matches \/ rd[r].key \notin Cached \/ ~CacheEnabled THEN UNCHANGED <<cache, shown>>
        ELSE /\ cache' = [cache EXCEPT ![rd[r].process] = Stored(@, e)]
             /\ Show(rd[r].process, rd[r].key, rd[r].version)
     /\ UNCHANGED <<clock, ended, acked, requests, wr>>

\* parseUserID, parsePagination: refused with 400 before any query.
BadRequest(r) ==
  /\ rd[r].pc = "handler"
  /\ rd' = [rd EXCEPT ![r] = Idle]
  /\ UNCHANGED <<clock, ended, cache, acked, shown, requests, wr>>

InHandler(r) == rd[r].pc \in {"handler", "body"}

\* Any other status (an asOf in the future, an error of the begin, a query, a scan or the
\* commit, deadline) is not stored.
HandlerFails(r) ==
  /\ InHandler(r)
  /\ rd' = [rd EXCEPT ![r] = Idle]
  /\ UNCHANGED <<clock, ended, cache, acked, shown, requests, wr>>

-----------------------------------------------------------------------------
(* Writes *)

\* History: which running reads of this user took their snapshot before the
\* commit.  It changes no behaviour.
Overtake(u) ==
  rd' = [r \in Reader |->
           IF rd[r].pc = "body" /\ Owner[rd[r].key] = u
           THEN [rd[r] EXCEPT !.overtaken = TRUE] ELSE rd[r]]

Supersede(u) == /\ Current(u) < MaxVersion
                /\ ended' = [ended EXCEPT ![u] = Append(@, clock)]
                /\ Overtake(u)

\* CreateReward / adjustmentHandler: tx.Commit succeeded on process p.
Commit(w, p, u) ==
  /\ wr[w].pc = "idle"
  /\ Supersede(u)
  /\ wr' = [wr EXCEPT ![w] = [pc |-> "committed", process |-> p, user |-> u,
                              version |-> Current(u) + 1]]
  /\ UNCHANGED <<clock, cache, acked, shown, requests>>

\* ... then invalidateReadCache, then the 200 to the client.
Invalidate(w) ==
  LET p == wr[w].process
      u == wr[w].user
  IN /\ wr[w].pc = "committed"
     /\ cache' = [cache EXCEPT ![p] = Cleared(@, u)]
     /\ acked' = [acked EXCEPT ![p][u] = IF wr[w].version > @ THEN wr[w].version ELSE @]
     /\ wr' = [wr EXCEPT ![w] = Written]
     /\ UNCHANGED <<clock, ended, shown, rd, requests>>

\* A commit no cache hears of: the worker's price and corporate-action writes,
\* or a handler whose commit was applied but reported an error.
CommitUnheard(w, u) ==
  /\ wr[w].pc = "idle"
  /\ Supersede(u)
  /\ wr' = [wr EXCEPT ![w] = Written]
  /\ UNCHANGED <<clock, cache, acked, shown, requests>>

-----------------------------------------------------------------------------
(* Processes and time *)

\* The process restarts: its cache is empty and its requests are gone.
Restart(p) ==
  /\ cache[p] # <<>>
  /\ cache' = [cache EXCEPT ![p] = <<>>]
  /\ rd' = [r \in Reader |-> IF rd[r].process = p /\ InHandler(r)
                             THEN Idle ELSE rd[r]]
  /\ wr' = [w \in Writer |-> IF wr[w].process = p THEN Written ELSE wr[w]]
  /\ UNCHANGED <<clock, ended, acked, shown, requests>>

\* The request's context deadline keeps a handler from storing a snapshot older
\* than Limit.  Answers are judged in the tick they are given.
Tick ==
  /\ clock < MaxTime
  /\ \A r \in Reader : rd[r].pc = "body" => clock - rd[r].snapshotAt < Limit
  /\ clock' = clock + 1
  /\ rd' = [r \in Reader |-> IF rd[r].pc = "done" THEN Idle ELSE rd[r]]
  /\ UNCHANGED <<ended, cache, acked, shown, requests, wr>>

Init ==
  /\ clock = 0
  /\ ended = [u \in User |-> <<>>]
  /\ cache = [p \in Process |-> <<>>]
  /\ acked = [p \in Process |-> [u \in User |-> 0]]
  /\ shown = [p \in Process |-> [k \in Key |-> 0]]
  /\ rd = [r \in Reader |-> Idle]
  /\ requests = 0
  /\ wr = [w \in Writer |-> [pc |-> "idle", process |-> None, user |-> None, version |-> 0]]

\* Every bounded request, write and clock tick is used up.
Quiet == /\ clock = MaxTime /\ requests = MaxRequests
         /\ \A r \in Reader : ~InHandler(r)
         /\ \A w \in Writer : wr[w].pc = "done"

Next ==
  \/ \E r \in Reader : \/ \E p \in Process, k \in Key : Lookup(r, p, k)
                       \/ \E matches \in BOOLEAN : Respond(r, matches)
                       \/ FirstQuery(r) \/ BadRequest(r) \/ HandlerFails(r)
  \/ \E w \in Writer, u \in User : \/ \E p \in Process : Commit(w, p, u)
                                   \/ CommitUnheard(w, u)
  \/ \E w \in Writer : Invalidate(w)
  \/ \E p \in Process : Restart(p)
  \/ Tick
  \/ Quiet /\ UNCHANGED vars

Spec == Init /\ [][Next]_vars

-----------------------------------------------------------------------------
(* Properties *)

Answered(r) == rd[r].pc = "done"

\* "A short TTL bounds that staleness": whichever process answers, and however
\* reads, writes, expiry and restarts interleave, a response (200 or 304) shows
\* data that was still current less than TTL + Limit ago, plus the lag of the
\* database that process reads from.  The TTL alone is not the bound: the
\* entry's age starts when it is stored, not at its snapshot.
StalenessBounded ==
  \A r \in Reader :
    Answered(r) => LET u == Owner[rd[r].key] v == rd[r].version
                   IN v < Current(u) => ended[u][v] + TTL + Limit + Lag[rd[r].process] > clock

\* Once a process has answered a write, reads it begins later show that write,
\* unless the entry they hit was filled by a handler whose snapshot the write
\* overtook.  Replicas and URLs that spell the id differently are outside this
\* promise.
ReadYourWrites ==
  \A r \in Reader :
    (Answered(r) /\ rd[r].key \in Canonical /\ ~rd[r].overtaken /\ Lag[rd[r].process] = 0)
      => rd[r].version >= rd[r].floor

\* What a process has once kept of a URL it does not take back: a request that
\* begins after its cache stored or answered a version gets that version or a
\* newer one, whoever answers it, through expiry, eviction, restarts, writes no
\* cache hears of, and handlers that finish in another order than they read.
\* An entry whose handler a write overtook, and replicas, are outside.
CacheAdvances ==
  [][\A r \in Reader :
       (rd'[r] # rd[r] /\ Answered(r)' /\ ~rd'[r].overtaken /\ Lag[rd'[r].process] = 0)
         => rd'[r].version >= shown[rd'[r].process][rd'[r].key]]_vars

\* handler.go:18 says the single-database deployment "preserves
\* read-your-writes", and response_cache.go:23 that "every local write clears
\* the cache immediately": the same without the exception.
EveryLocalWriteVisible ==
  \A r \in Reader :
    (Answered(r) /\ rd[r].key \in Canonical) => rd[r].version >= rd[r].floor

\* response_cache.go:136: "InvalidateUser removes every cached response for one
\* user".
InvalidateRemovesUser ==
  [][\A w \in Writer :
       (wr[w].pc = "committed" /\ wr'[w].pc = "done" /\ acked' # acked) =>
         \A i \in DOMAIN cache'[wr[w].process] :
            Owner[cache'[wr[w].process][i].key] # wr[w].user]_vars
=============================================================================
