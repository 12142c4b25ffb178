------------------------------- MODULE Caches -------------------------------
(***************************************************************************)
(* The small per-worker caches: the operator's settings                    *)
(* (services/server_settings.py), the island's logo                        *)
(* (services/island_logo.py) and the headcount (routers/server.py), on the *)
(* one-refresh-at-a-time of core/single_flight.py and the ticker of        *)
(* main.py.                                                                *)
(*                                                                         *)
(* The cache is that of one worker; the other workers are seen through     *)
(* what they commit.  Two operators may save on this worker at the same    *)
(* time.  A refresh is a task: it begins, reads the table and publishes,   *)
(* or fails, and an operator's reload after the commit is a second one     *)
(* beside the shared one.                                                  *)
(*                                                                         *)
(* What the table has held is the sequence `saves`; a read is the index of *)
(* the last save it saw, and zero the table as it was at boot, with no     *)
(* logo in it; clearing the logo brings that content back.                 *)
(***************************************************************************)
EXTENDS Integers, Sequences

CONSTANTS
    CacheKinds,    \* "settings", "logo", "count"
    Contents,      \* what a save may bring
    Operators,     \* saves in progress on this worker
    RowsTTL,       \* _TTL, in ticks
    RetryAfter,    \* _RETRY_AFTER, in ticks
    NoRefresh,
    MaxTicks, MaxSaves      \* bounds

ASSUME CachesAssumption ==
    /\ Contents # {} /\ RetryAfter \in Nat
    /\ NoRefresh \notin [stage : {"queued", "begun", "read", "unchanged"}, started : Nat,
                         outdated : BOOLEAN, known : Nat, got : Nat]

VARIABLES
    cacheKind,  \* which of the caches this behaviour is about
    ticks,      \* time.monotonic()
    saves,      \* what was committed, in order
    asOf,       \* ghost: how many saves were committed when each tick began
    held,       \* the cache: _Cache
    flight,     \* the shared refresh of this worker
    console,    \* the operators' saves
    published   \* ghost: the newest save whose own reload published it

cacheVars == <<cacheKind, ticks, saves, asOf, held, flight, console, published>>

Content(n) == IF n = 0 THEN "boot" ELSE saves[n]

IdleConsole == [stage |-> "idle", brings |-> "boot", save |-> 0, refresh |-> NoRefresh]

CachesInit ==
    /\ cacheKind \in CacheKinds
    /\ ticks = 0
    /\ saves = <<>>
    /\ asOf = <<0>>
    /\ held = [row |-> 0, at |-> -1, retryAt |-> 0]
    /\ flight = NoRefresh
    /\ console = [o \in Operators |-> IdleConsole]
    /\ published = 0

Elapse ==
    /\ ticks < MaxTicks
    /\ ticks' = ticks + 1
    /\ asOf' = Append(asOf, Len(saves))
    /\ UNCHANGED <<cacheKind, saves, held, flight, console, published>>

\* What is saved matters to the logo alone.
Brought == IF cacheKind = "logo" THEN Contents ELSE {CHOOSE c \in Contents : TRUE}

\* Another worker commits; a count changes with every account.
SaveElsewhere(c) ==
    /\ Len(saves) < MaxSaves
    /\ \A o \in Operators : console[o].stage # "flushed"
    /\ saves' = Append(saves, c)
    /\ UNCHANGED <<cacheKind, ticks, asOf, held, flight, console, published>>

-----------------------------------------------------------------------------
(* When the shared refresh is started: SingleFlight.start, which hands out *)
(* the one in flight when there is one.  The task has not run yet.         *)

Queued == [stage |-> "queued", started |-> 0, outdated |-> FALSE, known |-> 0, got |-> 0]

Start ==
    /\ flight' = IF flight = NoRefresh
                 THEN Queued
                 ELSE flight
    /\ UNCHANGED <<cacheKind, ticks, saves, asOf, held, console, published>>

Stale == ticks - held.at >= RowsTTL

\* A reader finds the rows stale and the last failure long enough ago; a cold
\* reader waits for the shared read whatever the last one did.
Overrides ==
    /\ cacheKind = "settings"
    /\ IF held.at >= 0 THEN Stale /\ flight = NoRefresh /\ ticks >= held.retryAt ELSE TRUE
    /\ Start

Current ==
    /\ cacheKind = "logo"
    /\ IF held.at >= 0 THEN Stale /\ flight = NoRefresh /\ ticks >= held.retryAt ELSE TRUE
    /\ Start

\* The count keeps its pause even when it is cold: zero says "not published".
UserCount ==
    /\ cacheKind = "count"
    /\ held.at < 0 \/ Stale
    /\ flight = NoRefresh /\ ticks >= held.retryAt
    /\ Start

\* wait_loaded and warm: at boot and for the first callers, back-off or not.
WaitLoaded ==
    /\ held.at < 0
    /\ Start

\* The ticker, once a second, whether or not anybody reads.
CacheTicker ==
    /\ held.at < 0 \/ Stale
    /\ ticks >= held.retryAt
    /\ cacheKind = "count" => flight = NoRefresh
    /\ Start

-----------------------------------------------------------------------------
(* _refresh, as the shared task or as an operator's reload.                *)

\* The start of the read, the generation and, for the logo, the version the
\* worker holds are noted before the first await.  Of the generation all that
\* matters is whether it has moved since: the refresh is then outdated.
Begun == [Queued EXCEPT !.stage = "begun", !.started = ticks,
                        !.known = IF cacheKind = "logo" THEN held.row ELSE 0]

Outdated(f) == IF f = NoRefresh \/ f = Queued THEN f ELSE [f EXCEPT !.outdated = TRUE]

\* The logo's version is read first, and its picture only when it differs.
SameVersion(f) ==
    /\ cacheKind = "logo"
    /\ Content(f.known) # "boot"
    /\ Content(Len(saves)) = Content(f.known)

ReadRow(f) == [f EXCEPT !.stage = IF SameVersion(f) THEN "unchanged" ELSE "read",
                        !.got = Len(saves)]

\* The rows are thrown away when a write on this worker came in between.
Discarded(f) == f.outdated

\* The cache after a refresh that ended well.  An unchanged logo is the one
\* the worker holds: the same save under a later number.
Published(f) ==
    IF Discarded(f) THEN [held EXCEPT !.retryAt = 0]
    ELSE [row |-> IF f.stage = "read" \/ Content(held.row) = Content(f.got)
                  THEN f.got ELSE held.row,
          at |-> f.started, retryAt |-> 0]

\* A read that fails or outlives its deadline moves nothing but the back-off,
\* counted from the failure.
Failed == [held EXCEPT !.retryAt = ticks + RetryAfter]

FlightBegins ==
    /\ flight # NoRefresh
    /\ flight.stage = "queued"
    /\ flight' = Begun
    /\ UNCHANGED <<cacheKind, ticks, saves, asOf, held, console, published>>

FlightReads ==
    /\ flight # NoRefresh
    /\ flight.stage = "begun"
    /\ flight' = ReadRow(flight)
    /\ UNCHANGED <<cacheKind, ticks, saves, asOf, held, console, published>>

FlightLands ==
    /\ flight # NoRefresh
    /\ \/ flight.stage \in {"read", "unchanged"} /\ held' = Published(flight)
       \/ flight.stage = "begun" /\ held' = Failed
    /\ flight' = NoRefresh
    /\ UNCHANGED <<cacheKind, ticks, saves, asOf, console, published>>

-----------------------------------------------------------------------------
(* An operator saves: apply (store, clear), the commit, then reload.       *)

\* The generation moves: every refresh that has begun on this worker.
Bumped(o, entry) ==
    [p \in Operators |-> IF p = o THEN entry
                         ELSE [console[p] EXCEPT !.refresh = Outdated(@)]]

\* The flush holds the row until the commit; the generation moves with it.
Apply(o, c) ==
    /\ cacheKind # "count"
    /\ console[o].stage = "idle"
    /\ Len(saves) < MaxSaves
    /\ \A p \in Operators : console[p].stage # "flushed"
    /\ console' = Bumped(o, [IdleConsole EXCEPT !.stage = "flushed", !.brings = c])
    /\ flight' = Outdated(flight)
    /\ UNCHANGED <<cacheKind, ticks, saves, asOf, held, published>>

Commit(o) ==
    /\ console[o].stage = "flushed"
    /\ \/ /\ saves' = Append(saves, console[o].brings)
          /\ console' = [console EXCEPT ![o].stage = "committed", ![o].save = Len(saves) + 1]
       \/ /\ console' = [console EXCEPT ![o] = IdleConsole]
          /\ UNCHANGED saves
    /\ UNCHANGED <<cacheKind, ticks, asOf, held, flight, published>>

ReloadUnmarked(o) ==
    /\ console[o].stage = "committed"
    /\ console' = [console EXCEPT ![o].stage = "reload", ![o].refresh = Begun]
    /\ UNCHANGED <<cacheKind, ticks, saves, asOf, held, flight, published>>

\* Not through the shared refresh, which may have read before the commit.
Reload(o) ==
    /\ console[o].stage = "committed"
    /\ console' = Bumped(o, [console[o] EXCEPT !.stage = "reload", !.refresh = Begun])
    /\ flight' = Outdated(flight)
    /\ UNCHANGED <<cacheKind, ticks, saves, asOf, held, published>>

ReloadReads(o) ==
    /\ console[o].stage = "reload"
    /\ console[o].refresh.stage = "begun"
    /\ console' = [console EXCEPT ![o].refresh = ReadRow(@)]
    /\ UNCHANGED <<cacheKind, ticks, saves, asOf, held, flight, published>>

\* The console is then described from the cache, whatever the reload did.
ReloadLands(o) ==
    /\ console[o].stage = "reload"
    /\ LET f == console[o].refresh
       IN  \/ /\ f.stage \in {"read", "unchanged"}
              /\ held' = Published(f)
              /\ published' = IF Discarded(f) \/ console[o].save < published
                              THEN published ELSE console[o].save
           \/ /\ f.stage = "begun"
              /\ held' = Failed
              /\ UNCHANGED published
    /\ console' = [console EXCEPT ![o] = IdleConsole]
    /\ UNCHANGED <<cacheKind, ticks, saves, asOf, flight>>

CachesNext ==
    \/ Elapse
    \/ \E c \in Brought : SaveElsewhere(c)
    \/ Overrides \/ Current \/ UserCount \/ WaitLoaded \/ CacheTicker
    \/ FlightBegins \/ FlightReads \/ FlightLands
    \/ \E o \in Operators :
         \/ \E c \in Brought : Apply(o, c)
         \/ Commit(o) \/ Reload(o) \/ ReloadReads(o) \/ ReloadLands(o)

CachesSpec == CachesInit /\ [][CachesNext]_cacheVars

-----------------------------------------------------------------------------
(* Properties.                                                             *)

\* The settings a worker serves, and the headcount, are at least as fresh as
\* the cache says (server_settings.py _Cache.at: "the rows are at least this
\* fresh"): every save committed before the tick of the stamp is in them, so
\* the age that TTL, back-off and the stale cap go by is never flattered, in
\* whatever order the shared refresh and two reloads read and publish.  The
\* logo is left out: a refresh that found its version unchanged stamps what a
\* reload has meanwhile replaced.
FreshAsClaimed ==
    (cacheKind # "logo" /\ held.at >= 0) => held.row >= asOf[held.at + 1]

\* Once the reload of a save has published it, this worker never goes back to
\* anything older (reload: "a refresh another request started between the
\* write's flush and its commit read the table WITHOUT the write").
SavedStays == held.row >= published

\* The rows a worker serves are as fresh as their stamp, and a save that its
\* reload published is never taken back on that worker (server_settings.py
\* _refresh, reload).
CacheTruthful == FreshAsClaimed /\ SavedStays
=============================================================================
