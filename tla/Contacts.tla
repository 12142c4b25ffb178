------------------------------ MODULE Contacts ------------------------------
(***************************************************************************)
(* Two people and their contact rows: routers/contacts.py, the writer of   *)
(* the edges in services/contact_source.py and the sweep of answered       *)
(* requests.  A handler reads, and commits what it read in a later step;   *)
(* an UPDATE of a row that is gone, or an INSERT of one that is there,     *)
(* rolls the whole request back.                                           *)
(***************************************************************************)
EXTENDS Naturals, FiniteSets

CONSTANTS
  People,
  Handlers,      \* requests that may be under way at once
  AcceptedGrace, \* ACCEPTED_GRACE_MINUTES
  DeclinedAge,   \* DECLINED_MAX_AGE_DAYS
  MaxClock, MaxCalls, Nil

ASSUME ContactsAssumption ==
  /\ AcceptedGrace \in Nat /\ DeclinedAge \in Nat
  /\ Nil \notin Nat \cup [id : Nat, state : {"pending", "accepted", "declined"}, resolved : {Nil} \cup Nat]

VARIABLES
  asked,   \* contact_requests by sender and addressee: id, state, resolved_at
  edges,   \* contacts: owner and contact
  handler, \* a request between its reads and its commit
  clock, ids, calls,
  answered \* when the last answer to a request was given

conVars == <<asked, edges, handler, clock, ids, calls, answered>>

Pairs == {p \in People \X People : p[1] # p[2]}
Back(p) == <<p[2], p[1]>>

\* Strangers, or an inviter and a newcomer whom _connect_inviter made contacts.
ContactsInit ==
  /\ asked = [p \in Pairs |-> Nil] /\ edges \in {{}, Pairs} /\ handler = [h \in Handlers |-> Nil]
  /\ clock = 0 /\ ids = 0 /\ calls = 0 /\ answered = [p \in Pairs |-> 0]

IdleHandler(h) == handler[h] = Nil
HoldHandler(h, r) == handler' = [handler EXCEPT ![h] = r]
Begin(h, r) == IdleHandler(h) /\ calls < MaxCalls /\ calls' = calls + 1 /\ HoldHandler(h, r)
Drop(h) == HoldHandler(h, Nil) /\ UNCHANGED calls
At(h, do) == handler[h] # Nil /\ handler[h].do = do
Pending(p) == asked[p] # Nil /\ asked[p].state = "pending"
\* The row the request loaded is still there.
There(r) == asked[r.p] # Nil /\ asked[r.p].id = r.id

\* send_request: refused to a contact; a pending request the other way is an acceptance; one's own
\* is answered as it stands when pending and reopened in any other state; else a new one.
Send(h, p) ==
  /\ p \notin edges
  /\ \/ Pending(Back(p)) /\ Begin(h, [do |-> "accept", p |-> Back(p), id |-> asked[Back(p)].id, new |-> {}, left |-> 2])
     \/ ~Pending(Back(p)) /\ asked[p] # Nil /\ ~Pending(p) /\ Begin(h, [do |-> "reopen", p |-> p, id |-> asked[p].id])
     \/ ~Pending(Back(p)) /\ asked[p] = Nil /\ Begin(h, [do |-> "ask", p |-> p])
  /\ UNCHANGED <<asked, edges, clock, ids, answered>>

\* The new row; the unique pair refuses a second one.
Ask(h) ==
  /\ At(h, "ask") /\ Drop(h)
  /\ LET p == handler[h].p IN
     \/ /\ asked[p] = Nil /\ ids' = ids + 1
        /\ asked' = [asked EXCEPT ![p] = [id |-> ids', state |-> "pending", resolved |-> Nil]]
     \/ asked[p] # Nil /\ UNCHANGED <<asked, ids>>
  /\ UNCHANGED <<edges, clock, answered>>

Reopen(h) ==
  /\ At(h, "reopen") /\ Drop(h)
  /\ asked' = IF There(handler[h]) THEN [asked EXCEPT ![handler[h].p].state = "pending"] ELSE asked
  /\ UNCHANGED <<edges, clock, ids, answered>>

\* respond by the addressee, to a request still pending.
Respond(h, p, accept) ==
  /\ Pending(p)
  /\ Begin(h, IF accept THEN [do |-> "accept", p |-> p, id |-> asked[p].id, new |-> {}, left |-> 2]
                       ELSE [do |-> "decline", p |-> p, id |-> asked[p].id])
  /\ UNCHANGED <<asked, edges, clock, ids, answered>>

Answer(p, state) == [asked EXCEPT ![p].state = state, ![p].resolved = clock]

\* add_edges: one direction at a time, a row that is there is left alone.
AddEdge(h) ==
  /\ At(h, "accept") /\ handler[h].left > 0
  /\ UNCHANGED calls
  /\ LET p == IF handler[h].left = 2 THEN handler[h].p ELSE Back(handler[h].p) IN
     HoldHandler(h, [handler[h] EXCEPT !.left = @ - 1, !.new = IF p \in edges THEN @ ELSE @ \cup {p}])
  /\ UNCHANGED <<asked, edges, clock, ids, answered>>

\* The answer and the edges commit together, or not at all when the request has been withdrawn or
\* an edge was inserted by somebody else.
AcceptAnyway(h) ==
  /\ At(h, "accept") /\ handler[h].left = 0 /\ Drop(h)
  /\ LET r == handler[h] IN
     \/ /\ r.new \cap edges = {}
        /\ asked' = (IF There(r) THEN [asked EXCEPT ![r.p].state = "accepted", ![r.p].resolved = clock] ELSE asked)
        /\ edges' = edges \cup r.new /\ answered' = [answered EXCEPT ![r.p] = clock]
     \/ r.new \cap edges # {} /\ UNCHANGED <<asked, edges, answered>>
  /\ UNCHANGED <<clock, ids>>
Accept(h) ==
  /\ At(h, "accept") /\ handler[h].left = 0 /\ Drop(h)
  /\ LET r == handler[h] IN
     \/ /\ There(r) /\ r.new \cap edges = {}
        /\ asked' = Answer(r.p, "accepted") /\ edges' = edges \cup r.new /\ answered' = [answered EXCEPT ![r.p] = clock]
     \/ (~There(r) \/ r.new \cap edges # {}) /\ UNCHANGED <<asked, edges, answered>>
  /\ UNCHANGED <<clock, ids>>

Decline(h) ==
  /\ At(h, "decline") /\ Drop(h)
  /\ LET r == handler[h] IN
     \/ There(r) /\ asked' = Answer(r.p, "declined") /\ answered' = [answered EXCEPT ![r.p] = clock]
     \/ ~There(r) /\ UNCHANGED <<asked, answered>>
  /\ UNCHANGED <<edges, clock, ids>>

\* cancel_outgoing takes any row of the sender, withdraw_pending the addressee's pending one; the
\* DELETE is by id and does not mind that the row has gone.
Cancel(h, p) ==
  /\ asked[p] # Nil /\ Begin(h, [do |-> "delete", p |-> p, id |-> asked[p].id])
  /\ UNCHANGED <<asked, edges, clock, ids, answered>>
Withdraw(h, p) ==
  /\ Pending(p) /\ Begin(h, [do |-> "delete", p |-> p, id |-> asked[p].id])
  /\ UNCHANGED <<asked, edges, clock, ids, answered>>
DeleteRequest(h) ==
  /\ At(h, "delete") /\ Drop(h)
  /\ asked' = IF There(handler[h]) THEN [asked EXCEPT ![handler[h].p] = Nil] ELSE asked
  /\ UNCHANGED <<edges, clock, ids, answered>>

\* remove_contact: one's own row and, read after it, the other's.
RemoveContact(h, p) ==
  /\ p \in edges /\ Begin(h, [do |-> "remove", p |-> p])
  /\ UNCHANGED <<asked, edges, clock, ids, answered>>
Removed(h) ==
  /\ At(h, "remove") /\ Drop(h) /\ edges' = edges \ {handler[h].p, Back(handler[h].p)}
  /\ UNCHANGED <<asked, clock, ids, answered>>

\* contact_request_sweep: answers past their age, from the moment of the answer.
Age(p) == IF asked[p].state = "accepted" THEN AcceptedGrace ELSE DeclinedAge
Expired(p) == asked[p] # Nil /\ ~Pending(p) /\ asked[p].resolved # Nil /\ asked[p].resolved + Age(p) < clock
SweepRequests ==
  /\ asked' = [p \in Pairs |-> IF Expired(p) THEN Nil ELSE asked[p]] /\ asked' # asked
  /\ UNCHANGED <<edges, handler, clock, ids, calls, answered>>

\* Time passes between requests.
ContactsTick ==
  /\ clock < MaxClock /\ clock' = clock + 1 /\ \A h \in Handlers : IdleHandler(h)
  /\ UNCHANGED <<asked, edges, handler, ids, calls, answered>>

ContactsNext ==
  \/ \E h \in Handlers :
       \/ Ask(h) \/ Reopen(h) \/ AddEdge(h) \/ Accept(h) \/ Decline(h) \/ DeleteRequest(h) \/ Removed(h)
       \/ \E p \in Pairs : \/ Send(h, p) \/ Cancel(h, p) \/ Withdraw(h, p) \/ RemoveContact(h, p)
                           \/ \E accept \in BOOLEAN : Respond(h, p, accept)
  \/ SweepRequests \/ ContactsTick

ContactsSpec == ContactsInit /\ [][ContactsNext]_conVars

-----------------------------------------------------------------------------
\* Nobody becomes a contact through a request that was withdrawn: a new edge commits with the
\* acceptance of a request of that pair which is still there (send_request, respond, cancel_outgoing).
ConsentStandsStep ==
  \A p \in edges' \ edges : \E q \in {p, Back(p)} : asked'[q] # Nil /\ asked'[q].state = "accepted"

\* The sweep leaves an answer where its sender and a client that asks again can find it, for the
\* whole of its time, however old the request is and however often it was reopened.
AnswerSeenStep ==
  SweepRequests => \A p \in Pairs : asked'[p] # asked[p] => answered[p] + Age(p) < clock

\* An edge commits with the acceptance of a request that is still there, and the sweep leaves an
\* answer in place for the whole of its time (send_request, respond, cancel_outgoing,
\* contact_request_sweep).
RequestsHonoured == [][ConsentStandsStep /\ AnswerSeenStep]_conVars
=============================================================================
