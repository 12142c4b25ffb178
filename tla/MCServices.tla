----------------------------- MODULE MCServices -----------------------------
(***************************************************************************)
(* The services that share nothing but the database, checked in one run: a *)
(* behaviour is about one of them, its part, and the others sleep.  The    *)
(* state space is the sum of theirs.                                       *)
(***************************************************************************)
EXTENDS Keys, Contacts, Vault, Broker, Reports, Push, Invites, Gate, Caches

CONSTANT Parts

VARIABLE part

vars ==
    <<part, keyVars, conVars, vaultVars, brokerVars, reportVars, pushVars,
      inviteVars, gateVars, cacheVars>>

\* A service the behaviour is not about: what its properties read is as in an
\* initial state, nothing else is kept.
Asleep == 0

KeysAsleep ==
    /\ letters = {} /\ focus = Asleep /\ day = Asleep /\ installs = Asleep
    /\ slot = Asleep /\ pool = Asleep /\ rows = Asleep /\ fetch = Asleep
    /\ refill = Asleep /\ session = Asleep
ContactsAsleep ==
    /\ edges = {} /\ asked = [p \in Pairs |-> Nil] /\ handler = Asleep
    /\ clock = Asleep /\ ids = Asleep /\ calls = Asleep /\ answered = Asleep
BrokerAsleep ==
    /\ relay = [t \in Tags |-> NoNode] /\ mint = [m \in Minters |-> NoNode]
    /\ aim = Asleep /\ vote = Asleep /\ founder = Asleep /\ canary = Asleep
    /\ registered = Asleep /\ tenant = Asleep /\ lock = Asleep /\ inquiry = Asleep
ReportsAsleep ==
    /\ report = NoDay /\ turns = Asleep /\ evidence = Asleep /\ reporter = Asleep
    /\ operator = Asleep /\ sweeper = Asleep /\ cleaner = Asleep /\ days = Asleep
    /\ filed = Asleep
PushAsleep ==
    /\ install = [i \in Installs |-> [acked |-> {}]]
    /\ tokenRows = Asleep /\ hours = Asleep /\ inbox = Asleep /\ wakes = Asleep
    /\ health = Asleep /\ usage = Asleep
GateAsleep ==
    /\ pass = [p \in Passes |-> NoToken] /\ phone = [d \in Phones |-> NoToken]
    /\ granted = NoToken /\ watch = Asleep /\ cache = Asleep /\ redeem = Asleep
    /\ revoker = Asleep /\ check = Asleep /\ reap = Asleep /\ time = Asleep

Init ==
    /\ part \in Parts
    /\ IF part = "keys" THEN KeysInit ELSE KeysAsleep
    /\ IF part = "contacts" THEN ContactsInit ELSE ContactsAsleep
    /\ VaultInit
    /\ IF part = "broker" THEN BrokerInit ELSE BrokerAsleep
    /\ IF part = "reports" THEN ReportsInit ELSE ReportsAsleep
    /\ IF part = "push" THEN PushInit ELSE PushAsleep
    /\ InvitesInit
    /\ IF part = "gate" THEN GateInit ELSE GateAsleep
    /\ CachesInit
    /\ part = "caches" \/ cacheKind = CHOOSE k \in CacheKinds : TRUE

KeysSteps ==
    /\ part = "keys" /\ KeysNext
    /\ UNCHANGED <<part, conVars, vaultVars, brokerVars, reportVars,
                   pushVars, inviteVars, gateVars, cacheVars>>
ContactsSteps ==
    /\ part = "contacts" /\ ContactsNext
    /\ UNCHANGED <<part, keyVars, vaultVars, brokerVars, reportVars,
                   pushVars, inviteVars, gateVars, cacheVars>>
VaultSteps ==
    /\ part = "vault" /\ VaultNext
    /\ UNCHANGED <<part, keyVars, conVars, brokerVars, reportVars,
                   pushVars, inviteVars, gateVars, cacheVars>>
BrokerSteps ==
    /\ part = "broker" /\ BrokerNext
    /\ UNCHANGED <<part, keyVars, conVars, vaultVars, reportVars,
                   pushVars, inviteVars, gateVars, cacheVars>>
ReportsSteps ==
    /\ part = "reports" /\ ReportsNext
    /\ UNCHANGED <<part, keyVars, conVars, vaultVars, brokerVars,
                   pushVars, inviteVars, gateVars, cacheVars>>
PushSteps ==
    /\ part = "push" /\ PushNext
    /\ UNCHANGED <<part, keyVars, conVars, vaultVars, brokerVars,
                   reportVars, inviteVars, gateVars, cacheVars>>
InvitesSteps ==
    /\ part = "invites" /\ InvitesNext
    /\ UNCHANGED <<part, keyVars, conVars, vaultVars, brokerVars,
                   reportVars, pushVars, gateVars, cacheVars>>
GateSteps ==
    /\ part = "gate" /\ GateNext
    /\ UNCHANGED <<part, keyVars, conVars, vaultVars, brokerVars,
                   reportVars, pushVars, inviteVars, cacheVars>>
CachesSteps ==
    /\ part = "caches" /\ CachesNext
    /\ UNCHANGED <<part, keyVars, conVars, vaultVars, brokerVars,
                   reportVars, pushVars, inviteVars, gateVars>>

Next ==
    \/ KeysSteps
    \/ ContactsSteps
    \/ VaultSteps
    \/ BrokerSteps
    \/ ReportsSteps
    \/ PushSteps
    \/ InvitesSteps
    \/ GateSteps
    \/ CachesSteps

Spec == Init /\ [][Next]_vars
=============================================================================
