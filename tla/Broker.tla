------------------------------- MODULE Broker -------------------------------
(***************************************************************************)
(* The relay broker (routers/broker.py): operators register relays, the    *)
(* canary reports on those it listed earlier, clients vote on              *)
(* reachability, the founder assigns and lights rows, and the console      *)
(* mints tenants.  The founder, the canary and the minting requests each   *)
(* act on rows they read before; a row is addressed by its tag, which a    *)
(* re-registration of the same relay gets again.                           *)
(***************************************************************************)
EXTENDS Naturals, FiniteSets, Sequences

CONSTANTS
  Tags, Networks,
  Minters,       \* requests minting a tenant for the same customer
  ReachQuorum,   \* _REACH_QUORUM
  DeadAfter,     \* _DEAD_AFTER_FAILS
  MaxParked,     \* _MAX_PARKED_ROWS
  MaxRows,       \* _MAX_TOTAL_ROWS
  MaxRegistered, MaxTenants, NoNode,
  Aims           \* what the broker is watched for: its relays or its tenants

ASSUME BrokerAssumption == NoNode \notin Minters

VARIABLES
  aim,
  relay,      \* broker_relays by tag; and, for the property: which registration it is, how it was
              \* registered, whether the founder opened it, whether a call meant for an older row touched it
  vote,       \* the fresh votes of the networks of one region
  founder,    \* the founder's call between its reads and its commit
  canary,     \* the tag it probed, or the report between its reads and its commit
  registered, \* registrations so far
  tenant,     \* relay_tenants of one customer, in the order of their creation
  mint, lock, \* the minting requests and the advisory lock
  inquiry     \* open team-paid inquiries of the customer

brokerVars == <<aim, relay, vote, founder, canary, registered, tenant, mint, lock, inquiry>>
relayVars == <<aim, relay, vote, founder, canary, registered>>
tenantVars == <<aim, tenant, mint, lock, inquiry>>

Listed == {t \in Tags : relay[t] # NoNode}
Unowned(r) == r.owner = "nobody"

BrokerInit ==
  /\ aim \in Aims /\ relay = [t \in Tags |-> NoNode] /\ vote = [t \in Tags |-> [ok |-> {}, fail |-> {}]]
  /\ founder = NoNode /\ canary = NoNode /\ registered = 0
  /\ tenant = <<>> /\ mint = [m \in Minters |-> NoNode] /\ lock = NoNode /\ inquiry = 0

\* _parked_where: registered private, dark, never probed, owned by nobody.
Parked(r) == ~r.enabled /\ Unowned(r) /\ r.ok = "never"

\* register_relay: a known tag is refreshed and keeps its switches; a new one lands lit or parked.
RegisterRelay(t, private) ==
  /\ aim = "relays" /\ t \notin Listed /\ registered < MaxRegistered /\ Cardinality(Listed) < MaxRows
  /\ private => Cardinality({u \in Listed : Parked(relay[u])}) < MaxParked
  /\ registered' = registered + 1
  /\ relay' = [relay EXCEPT ![t] = [enabled |-> ~private, owner |-> "nobody", trusted |-> FALSE, ok |-> "never", fails |-> 0,
                                    forgotten |-> FALSE, id |-> registered', private |-> private, opened |-> FALSE, late |-> FALSE]]
  /\ UNCHANGED <<aim, vote, founder, canary>> /\ UNCHANGED tenantVars

\* get_bridges, _serve: what a stranger in the region may be given.
Public(t) ==
  /\ t \in Listed /\ relay[t].enabled /\ Unowned(relay[t])
  /\ \/ relay[t].trusted
     \/ Cardinality(vote[t].ok) >= ReachQuorum
     \/ relay[t].ok = "recent" /\ Cardinality(vote[t].fail) < ReachQuorum

\* report_reachability: a network's vote on a lit relay, and votes outliving their window.
Vote(t, n, side) ==
  /\ t \in Listed /\ relay[t].enabled
  /\ vote' = [vote EXCEPT ![t][side] = @ \cup {n}]
  /\ UNCHANGED <<aim, relay, founder, canary, registered>> /\ UNCHANGED tenantVars
VotesExpire(t) ==
  /\ vote' = [vote EXCEPT ![t] = [ok |-> {}, fail |-> {}]]
  /\ UNCHANGED <<aim, relay, founder, canary, registered>> /\ UNCHANGED tenantVars

\* The founder's two calls read the row and refuse to light a parked one that nobody would own:
\* admin_set unless forced, admin_assign_relay always.
Switches(t) == [id |-> relay[t].id, owner |-> relay[t].owner, enabled |-> relay[t].enabled, trusted |-> relay[t].trusted]
Lights(r, enabled) == enabled /\ ~r.enabled /\ r.ok = "never"
SetReads(t, enabled, trusted, force) ==
  /\ founder = NoNode /\ t \in Listed /\ (Lights(relay[t], enabled) /\ Unowned(relay[t]) => force)
  /\ founder' = [tag |-> t, read |-> Switches(t), owner |-> relay[t].owner, enabled |-> enabled, trusted |-> trusted, force |-> force]
  /\ UNCHANGED <<aim, relay, vote, canary, registered>> /\ UNCHANGED tenantVars
AssignTo(t, owner, enabled) ==
  /\ founder = NoNode /\ t \in Listed
  /\ founder' = [tag |-> t, read |-> Switches(t), owner |-> owner, enabled |-> enabled, trusted |-> relay[t].trusted, force |-> FALSE]
  /\ UNCHANGED <<aim, relay, vote, canary, registered>> /\ UNCHANGED tenantVars
AssignUnasked(t, owner, enabled) == AssignTo(t, owner, enabled)
AssignReads(t, owner, enabled) ==
  t \in Listed /\ (Lights(relay[t], enabled) => owner # "nobody") /\ AssignTo(t, owner, enabled)

\* The commit writes the columns that differ from the row that was read.
FounderWrites ==
  /\ founder # NoNode /\ founder' = NoNode
  /\ LET t == founder.tag  was == founder.read  r == relay[t]
         Moved(field) == IF founder[field] # was[field] THEN founder[field] ELSE r[field]
     IN relay' = IF t \notin Listed THEN relay
                 ELSE [relay EXCEPT ![t] = [r EXCEPT !.owner = Moved("owner"), !.enabled = Moved("enabled"), !.trusted = Moved("trusted"),
                                                     !.opened = @ \/ founder.force \/ (founder.owner = "nobody" /\ was.owner # "nobody"),
                                                     !.late = @ \/ r.id # was.id]]
  /\ UNCHANGED <<aim, vote, canary, registered>> /\ UNCHANGED tenantVars

\* admin_delete.
Retire(t) ==
  /\ founder = NoNode /\ t \in Listed /\ relay' = [relay EXCEPT ![t] = NoNode]
  /\ UNCHANGED <<aim, vote, founder, canary, registered>> /\ UNCHANGED tenantVars

\* The canary probes a lit row; admin_liveness reads the row that has its tag by then.
Probe(t) ==
  /\ canary = NoNode /\ t \in Listed /\ relay[t].enabled
  /\ canary' = [do |-> "probed", tag |-> t, id |-> relay[t].id]
  /\ UNCHANGED <<aim, relay, vote, founder, registered>> /\ UNCHANGED tenantVars
\* A row that never answered and that nobody owns is dead after _DEAD_AFTER_FAILS.
Dead(r) == ~r.trusted /\ r.ok = "never" /\ Unowned(r) /\ r.fails + 1 >= DeadAfter
Report(ok) ==
  /\ canary # NoNode /\ canary.do = "probed"
  /\ canary' = IF canary.tag \in Listed
               THEN [do |-> "report", tag |-> canary.tag, id |-> canary.id, ok |-> ok, fails |-> relay[canary.tag].fails + 1, dead |-> ~ok /\ Dead(relay[canary.tag])] ELSE [do |-> "sweep"]
  /\ UNCHANGED <<aim, relay, vote, founder, registered>> /\ UNCHANGED tenantVars

\* A success is stamped, a failure counted, a dead row deleted by its tag.
ReportWrites ==
  /\ canary # NoNode /\ canary.do = "report" /\ canary' = [do |-> "sweep"]
  /\ LET t == canary.tag  r == relay[t] IN
     relay' = IF t \notin Listed THEN relay
              ELSE [relay EXCEPT ![t] = CASE canary.ok   -> [r EXCEPT !.ok = "recent", !.fails = 0, !.late = @ \/ r.id # canary.id]
                                          [] canary.dead -> NoNode
                                          [] OTHER       -> [r EXCEPT !.fails = IF canary.fails > DeadAfter THEN DeadAfter ELSE canary.fails]]
  /\ UNCHANGED <<aim, vote, founder, registered>> /\ UNCHANGED tenantVars

\* _sweep_stale_parked, in the same call: parked rows nobody assigned within _PARKED_TTL.
SweepParked ==
  /\ canary # NoNode /\ canary.do = "sweep" /\ canary' = NoNode
  /\ relay' = [t \in Tags |-> IF t \in Listed /\ Parked(relay[t]) /\ relay[t].forgotten THEN NoNode ELSE relay[t]]
  /\ UNCHANGED <<aim, vote, founder, registered>> /\ UNCHANGED tenantVars

\* A probe falls out of the liveness window; a row grows older than _PARKED_TTL.
Lapse(t) ==
  /\ t \in Listed
  /\ \/ relay[t].ok = "recent" /\ relay' = [relay EXCEPT ![t].ok = "old"]
     \/ ~relay[t].forgotten /\ relay' = [relay EXCEPT ![t].forgotten = TRUE]
  /\ UNCHANGED <<aim, vote, founder, canary, registered>> /\ UNCHANGED tenantVars

-----------------------------------------------------------------------------
ActiveTenants == {i \in DOMAIN tenant : tenant[i].active}
Minting(m, do) == mint[m] # NoNode /\ mint[m].do = do
HoldMint(m, r) == mint' = [mint EXCEPT ![m] = r]

\* _apply_pool: a team stays on the shared pool, and an inquiry is filed once, until its own pool
\* has a lit node; then the open inquiries are closed.
PoolFor(was, node) == IF node THEN "team" ELSE was
Inquiries(node) == IF node THEN 0 ELSE IF inquiry = 0 THEN 1 ELSE inquiry

\* admin_create_tenant: the advisory lock of the customer's id and, under it, the check.
MintChecks(m) ==
  /\ aim = "tenants" /\ mint[m] = NoNode /\ ActiveTenants = {} /\ Len(tenant) < MaxTenants
  /\ HoldMint(m, [do |-> "insert", known |-> Len(tenant)]) /\ UNCHANGED relayVars /\ UNCHANGED <<tenant, inquiry>>
MintUnlocked(m) == MintChecks(m) /\ UNCHANGED lock
Mint(m) == lock = NoNode /\ lock' = m /\ MintChecks(m)

\* The row commits and the lock goes with the transaction.
MintWrites(m, node) ==
  /\ Minting(m, "insert") /\ Len(tenant) < MaxTenants /\ lock' = NoNode
  /\ tenant' = Append(tenant, [active |-> TRUE, paid |-> TRUE, pool |-> PoolFor("shared", node)])
  /\ HoldMint(m, [do |-> "settle", id |-> Len(tenant')]) /\ inquiry' = Inquiries(node) /\ UNCHANGED relayVars

\* _settle_double_mint: a new row gives way to an active one created before it.
Settle(m) ==
  /\ Minting(m, "settle") /\ HoldMint(m, NoNode)
  /\ tenant' = [tenant EXCEPT ![mint[m].id].active = @ /\ \A i \in ActiveTenants : i >= mint[m].id]
  /\ UNCHANGED relayVars /\ UNCHANGED <<lock, inquiry>>

\* admin_set_tenant: status, term and pool.
SetTenant(i, active, node) ==
  /\ tenant' = [tenant EXCEPT ![i] = [active |-> active, paid |-> TRUE, pool |-> PoolFor(@.pool, node)]]
  /\ inquiry' = Inquiries(node) /\ UNCHANGED relayVars /\ UNCHANGED <<mint, lock>>
TermEnds(i) ==
  /\ tenant' = [tenant EXCEPT ![i].paid = FALSE]
  /\ UNCHANGED relayVars /\ UNCHANGED <<mint, lock, inquiry>>

\* _tenant_from_request: the tenants whose key is answered with private relays.
Served == {i \in ActiveTenants : tenant[i].paid}

RelayNext ==
  \/ \E t \in Tags :
       \/ Retire(t) \/ Probe(t) \/ Lapse(t) \/ VotesExpire(t)
       \/ \E private \in BOOLEAN : RegisterRelay(t, private)
       \/ \E n \in Networks, side \in {"ok", "fail"} : Vote(t, n, side)
       \/ \E enabled, trusted, force \in BOOLEAN : SetReads(t, enabled, trusted, force)
       \/ \E owner \in {"nobody", "somebody"}, enabled \in BOOLEAN : AssignReads(t, owner, enabled)
  \/ FounderWrites \/ ReportWrites \/ SweepParked \/ \E ok \in BOOLEAN : Report(ok)

TenantNext ==
  \/ \E m \in Minters : Mint(m) \/ Settle(m) \/ \E node \in BOOLEAN : MintWrites(m, node)
  \/ \E i \in DOMAIN tenant : TermEnds(i) \/ \E active, node \in BOOLEAN : SetTenant(i, active, node)

BrokerNext == RelayNext \/ TenantNext

BrokerSpec == BrokerInit /\ [][BrokerNext]_brokerVars

-----------------------------------------------------------------------------
\* A relay registered private is in nobody's public answer unless the founder forced it or handed it
\* back, whatever founder, canary, voters and re-registrations do meanwhile (_serve, admin_set,
\* admin_assign_relay).  The one way round is a probe, or a founder's call, made on an older row of
\* the same tag and landing on the new one.
PrivateStaysPrivate ==
  \A t \in Tags : (Public(t) /\ relay[t].private) => relay[t].opened \/ relay[t].late

\* Two mints for one customer never both hand out a key: a new row joins no active row that came in
\* after its own check, even when the cron and the cabinet arrive together (admin_create_tenant).
OneKeyPerCustomerStep ==
  \A m \in Minters : (Minting(m, "insert") /\ mint'[m] # mint[m]) => \A i \in ActiveTenants : i <= mint[m].known

\* admin_create_tenant: every mint keeps to one key for one customer.
OneKeyPerCustomer == [][OneKeyPerCustomerStep]_brokerVars
=============================================================================
