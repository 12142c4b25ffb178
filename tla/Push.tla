-------------------------------- MODULE Push --------------------------------
(***************************************************************************)
(* Push addresses and the wakes sent to them: routers/users.py             *)
(* register_push_token and delete_push_token, services/apns.py and         *)
(* services/unifiedpush.py.                                                *)
(*                                                                         *)
(* An install (a phone, a tablet) holds several accounts and registers the *)
(* same token under each of them.  A registration travels, so it may be    *)
(* handled after later ones; it carries the list of accounts the install   *)
(* held when it was composed, and the server removes the install's rows of *)
(* every other account, unless they are fresh.  A wake reads the rows in   *)
(* one session, speaks to Apple or the distributor with no session open,   *)
(* and folds the verdicts into a batch that a later flush writes by id.    *)
(*                                                                         *)
(* An "old" build sends no device id, a "list" build sends it with the     *)
(* list; one generation between them sent the id alone, and never prunes.  *)
(*                                                                         *)
(* Time is counted in hours.  An install's tokens are numbered in the      *)
(* order it was given them; only its last one is alive.                    *)
(***************************************************************************)
EXTENDS Naturals, FiniteSets

CONSTANTS
    Accounts,      \* account numbers
    Installs,      \* installs: physical devices with the app on them
    HereGrace,     \* ACCOUNTS_HERE_GRACE, in hours
    LegacyAge,     \* the seven days that spare a row without a device id
    NoDevice,      \* a row registered by a build that knew no device id
    MaxHours, MaxTokens, MaxMoves, MaxSends, MaxWakes   \* bounds

VARIABLES
    install,    \* what the install itself knows
    tokenRows,  \* device_tokens: at most one row for a number and a token
    hours,
    inbox,      \* registrations on their way or being handled
    wakes,      \* wakes that have read their targets
    health,     \* the pending batch of verdicts, and the one being flushed
    usage       \* calls made, ids given

pushVars == <<install, tokenRows, hours, inbox, wakes, health, usage>>


CurrentToken(i) == <<i, install[i].token>>

NoVerdict == [ok |-> {}, failed |-> {}, dead |-> {}]

InstallsAtFirst ==
    [Installs -> {[held |-> {CHOOSE a \in Accounts : TRUE}, token |-> 1, build |-> "old",
                   acked |-> {}, platform |-> p] : p \in {"ios", "android"}}]

PushInit ==
    /\ install \in InstallsAtFirst
    /\ tokenRows = {}
    /\ hours = 0
    /\ inbox = {}
    /\ wakes = {}
    /\ health = [pending |-> NoVerdict, flush |-> NoVerdict]
    /\ usage = [moves |-> 0, sends |-> 0, wakes |-> 0, ids |-> 0]

PushTick ==
    /\ hours < MaxHours
    /\ hours' = hours + 1
    /\ UNCHANGED <<install, tokenRows, inbox, wakes, health, usage>>

-----------------------------------------------------------------------------
(* The install.                                                            *)

Moves ==
    /\ usage.moves < MaxMoves
    /\ usage' = [usage EXCEPT !.moves = @ + 1]

Add(i, a) ==
    /\ Moves
    /\ a \notin install[i].held
    /\ install' = [install EXCEPT ![i].held = @ \cup {a}]
    /\ UNCHANGED <<tokenRows, hours, inbox, wakes, health>>

\* An account is removed from the install.  A log-out says so to the server;
\* an install that has already thrown the credentials away cannot.
RemoveAccount(i, a) ==
    /\ Moves
    /\ a \in install[i].held
    /\ install' = [install EXCEPT ![i].held = @ \ {a}, ![i].acked = @ \ {a}]
    /\ \/ UNCHANGED tokenRows
       \/ tokenRows' = {r \in tokenRows : ~ (r.uin = a /\ r.token = CurrentToken(i))}
    /\ UNCHANGED <<hours, inbox, wakes, health>>

\* A reinstall brings a new token; an update brings a build that says more.
Remint(i) ==
    /\ Moves
    /\ install[i].token < MaxTokens
    /\ install' = [install EXCEPT ![i].token = @ + 1, ![i].acked = {}]
    /\ UNCHANGED <<tokenRows, hours, inbox, wakes, health>>

Upgrade(i) ==
    /\ Moves
    /\ install[i].build = "old"
    /\ install' = [install EXCEPT ![i].build = "list"]
    /\ UNCHANGED <<tokenRows, hours, inbox, wakes, health>>

Register(i, a) ==
    /\ a \in install[i].held
    /\ usage.sends < MaxSends
    /\ usage' = [usage EXCEPT !.sends = @ + 1]
    /\ inbox' = inbox \cup
         {[stage |-> "sent", uin |-> a, token |-> CurrentToken(i), by |-> i,
           device |-> IF install[i].build = "old" THEN NoDevice ELSE i,
           here |-> install[i].held,
           composed |-> hours, prune |-> FALSE]}
    /\ UNCHANGED <<install, tokenRows, hours, wakes, health>>

-----------------------------------------------------------------------------
(* register_push_token.                                                    *)

\* The list acts only for an install that was already registered under this
\* account with this token and this device id, before this request.
PriorReads(q) ==
    /\ q \in inbox
    /\ q.stage = "sent"
    /\ inbox' = (inbox \ {q}) \cup
         {[q EXCEPT !.stage = "read",
             !.prune = /\ q.device # NoDevice
                       /\ \E r \in tokenRows : /\ r.uin = q.uin
                                               /\ r.token = q.token
                                               /\ r.device = q.device]}
    /\ UNCHANGED <<install, tokenRows, hours, wakes, health, usage>>

\* ON CONFLICT (uin, token) DO UPDATE: the row keeps its id.
Upserted(q) ==
    LET same == {r \in tokenRows : r.uin = q.uin /\ r.token = q.token}
    IN  (tokenRows \ same) \cup
          {[id |-> IF same = {} THEN usage.ids + 1 ELSE (CHOOSE r \in same : TRUE).id,
            uin |-> q.uin, token |-> q.token, device |-> q.device,
            seen |-> hours, error |-> FALSE]}

\* The rows this device left under other tokens.
Replaced(q, r) ==
    /\ q.device # NoDevice
    /\ r.uin = q.uin
    /\ r.device = q.device
    /\ r.token # q.token

\* The rows from before device ids existed, once nobody has refreshed them.
Legacy(q, r) ==
    /\ q.device # NoDevice
    /\ r.uin = q.uin
    /\ r.device = NoDevice
    /\ r.seen + LegacyAge < hours

AbandonedNoGrace(q, r) ==
    /\ q.prune
    /\ r.token = q.token
    /\ r.device = q.device
    /\ r.uin \notin q.here \cup {q.uin}

\* The rows of accounts the install no longer holds, unless they are fresh.
Abandoned(q, r) ==
    /\ q.prune
    /\ r.token = q.token
    /\ r.device = q.device
    /\ r.uin \notin q.here \cup {q.uin}
    /\ r.seen + HereGrace < hours

RegisterWrites(q) ==
    /\ q \in inbox
    /\ q.stage = "read"
    /\ LET rows == Upserted(q)
           gone == {r \in rows : Replaced(q, r) \/ Legacy(q, r) \/ Abandoned(q, r)}
       IN  tokenRows' = rows \ gone
    /\ usage' = [usage EXCEPT !.ids =
                   IF \E r \in tokenRows : r.uin = q.uin /\ r.token = q.token
                   THEN @ ELSE @ + 1]
    /\ inbox' = inbox \ {q}
    /\ install' = [install EXCEPT ![q.by].acked =
                     IF q.token = CurrentToken(q.by) /\ q.uin \in install[q.by].held
                     THEN @ \cup {q.uin} ELSE @]
    /\ UNCHANGED <<hours, wakes, health>>

-----------------------------------------------------------------------------
(* A wake: the targets are read, then spoken to without a session.         *)

\* Of the rows of one account: not the author's own tokens; and when some
\* installs hold a socket, or one has answered the call, only the rows that
\* can be placed on another install.
Wanted(r, a, exclude, skip) ==
    /\ r.uin = a
    /\ r.token \notin exclude
    /\ skip = {} \/ (r.device # NoDevice /\ r.device \notin skip)

\* What the sender carries of each row, past the end of its session: the rows
\* of its own platform.
Targets(a, exclude, skip, road) ==
    {[id |-> r.id, token |-> r.token, error |-> r.error] :
       r \in {x \in tokenRows : /\ install[x.token[1]].platform = road
                                /\ Wanted(x, a, exclude, skip)}}

\* The author of a post has its own tokens left alone: on an install with two
\* accounts they are the reader's too.  The installs in skip are those with a
\* socket, or the one that answered the call: builds that gave a device id.
Wake(a, author, skip, road) ==
    /\ usage.wakes < MaxWakes
    /\ \A i \in skip : a \in install[i].held /\ install[i].build = "list"
    /\ LET exclude == {r.token : r \in {x \in tokenRows : x.uin = author /\ x.uin # a}}
           rows == Targets(a, exclude, skip, road)
       IN  /\ rows # {}
           /\ wakes' = wakes \cup {[rows |-> rows, skip |-> skip, road |-> road,
                                    stage |-> "read", dead |-> {}]}
    /\ usage' = [usage EXCEPT !.wakes = @ + 1]
    /\ UNCHANGED <<install, tokenRows, hours, inbox, health>>

\* send_to_user and send_call_to_user of unifiedpush.py, and send_to_user and
\* send_voip_to_user of apns.py, are the same read with other filters.
WakeAndroid(a, author, skip) == Wake(a, author, skip, "android")

WakeApple(a, author, skip) == Wake(a, author, skip, "ios")

\* The answers one address gives a push: a distributor never says of the
\* endpoint it serves now that it is gone; of an older one it may, or may
\* accept what nobody will read.  Retries end in an answer or in a failure.
Deliver(t) ==
    {"ok", "fail"} \cup IF t = CurrentToken(t[1]) THEN {} ELSE {"drop"}

\* One attempt at one of Apple's two hosts.  A token belongs to the host of
\* the build it was made by, its home; the other host calls it a bad token.
TrySend(t, host, home) ==
    CASE t = CurrentToken(t[1]) /\ host = home -> {"ok", "fail"}
      [] t = CurrentToken(t[1]) /\ host # home -> {"mismatch", "fail"}
      [] OTHER -> {"mismatch", "gone", "fail"}

\* A mismatch is asked again of the other host; a token both refuse is dead.
SendOne(t) ==
    LET last(home) ==
          LET first == TrySend(t, "production", home)
          IN  (first \ {"mismatch"})
                \cup (IF "mismatch" \in first THEN TrySend(t, "sandbox", home) ELSE {})
    IN  {IF x \in {"mismatch", "gone"} THEN "drop" ELSE x :
           x \in UNION {last(home) : home \in {"production", "sandbox"}}}

\* Apple is asked for one token after the other; the dead ones are kept in mind.
SendToApple(w) ==
    /\ w \in wakes
    /\ w.road = "ios" /\ w.stage = "read"
    /\ \E answer \in [w.rows -> {"ok", "fail", "drop"}] :
         /\ \A r \in w.rows : answer[r] \in SendOne(r.token)
         /\ wakes' = (wakes \ {w}) \cup
              {[w EXCEPT !.stage = "sent",
                         !.dead = {r.id : r \in {x \in w.rows : answer[x] = "drop"}}]}
    /\ UNCHANGED <<install, tokenRows, hours, inbox, health, usage>>

\* _drop_dead_tokens: by id, in a session of its own; its failure is only logged.
DropDeadTokens(w) ==
    /\ w \in wakes
    /\ w.stage = "sent"
    /\ \/ UNCHANGED tokenRows
       \/ tokenRows' = {r \in tokenRows : r.id \notin w.dead}
    /\ wakes' = wakes \ {w}
    /\ UNCHANGED <<install, hours, inbox, health, usage>>

\* _fan_out and _queue_health: the verdicts worth writing are a success when
\* the row said otherwise, and a failure when the row does not say so yet.
Answered(w) ==
    /\ w \in wakes
    /\ w.road = "android"
    /\ \E answer \in [w.rows -> {"ok", "fail", "drop"}] :
         /\ \A r \in w.rows : answer[r] \in Deliver(r.token)
         /\ health' = [health EXCEPT
              !.pending.ok = @ \cup {r.id : r \in {x \in w.rows : answer[x] = "ok" /\ x.error}},
              !.pending.failed = @ \cup
                {r.id : r \in {x \in w.rows : answer[x] = "fail" /\ ~ x.error}},
              !.pending.dead = @ \cup {r.id : r \in {x \in w.rows : answer[x] = "drop"}}]
    /\ wakes' = wakes \ {w}
    /\ UNCHANGED <<install, tokenRows, hours, inbox, usage>>

\* The batch is drained without an await; what arrives later is the next one.
Drain ==
    /\ health.pending # NoVerdict
    /\ health.flush = NoVerdict
    /\ health' = [pending |-> NoVerdict, flush |-> health.pending]
    /\ UNCHANGED <<install, tokenRows, hours, inbox, wakes, usage>>

\* _record_health: dead rows go by id, then successes, then failures; or the
\* write fails, and nothing is said.
RecordHealth ==
    /\ health.flush # NoVerdict
    /\ health' = [health EXCEPT !.flush = NoVerdict]
    /\ \/ UNCHANGED tokenRows
       \/ tokenRows' =
            {[r EXCEPT !.error = CASE r.id \in health.flush.failed -> TRUE
                                   [] r.id \in health.flush.ok \ health.flush.failed -> FALSE
                                   [] OTHER -> @] :
              r \in {x \in tokenRows : x.id \notin health.flush.dead}}
    /\ UNCHANGED <<install, hours, inbox, wakes, usage>>

PushNext ==
    \/ PushTick
    \/ \E i \in Installs : Remint(i) \/ Upgrade(i)
    \/ \E i \in Installs, a \in Accounts : Add(i, a) \/ RemoveAccount(i, a) \/ Register(i, a)
    \/ \E q \in inbox : PriorReads(q) \/ RegisterWrites(q)
    \/ \E a, author \in Accounts, skip \in SUBSET Installs :
         WakeAndroid(a, author, skip) \/ WakeApple(a, author, skip)
    \/ \E w \in wakes : Answered(w) \/ SendToApple(w) \/ DropDeadTokens(w)
    \/ Drain
    \/ RecordHealth

PushSpec == PushInit /\ [][PushNext]_pushVars

-----------------------------------------------------------------------------
(* Properties.                                                             *)

RowOf(rows, a, t) == {r \in rows : r.uin = a /\ r.token = t}

\* An account an install holds, and has registered with the token it has now,
\* keeps its address through everybody else's registrations, verdicts and
\* flushes (users.py ACCOUNTS_HERE_GRACE: without it "the stale list would
\* delete the newcomer's row and its pushes would stop").  Two registrations
\* may still remove it, both of the install itself and both late: one whose
\* list was composed more than the grace ago, and one that brings a token the
\* install no longer has.
HeldStillRingsStep ==
    \A i \in Installs : \A a \in install[i].acked \cap install'[i].acked :
      (RowOf(tokenRows, a, CurrentToken(i)) # {} /\ RowOf(tokenRows', a, CurrentToken(i)) = {})
        => \E q \in inbox \ inbox' :
             /\ q.by = i
             /\ (q.composed + HereGrace < hours) \/ (q.token # CurrentToken(i))

\* register_push_token and the verdicts on tokens: every step keeps the address.
HeldStillRings == [][HeldStillRingsStep]_pushVars
=============================================================================
