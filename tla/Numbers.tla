------------------------------- MODULE Numbers -------------------------------
(***************************************************************************)
(* Who has a number: registration, migration, the UIN shop, the resale     *)
(* market, the operator's grants and the till's holds (app/routers/auth.py *)
(* register, migrate.py, uin_shop.py, admin.py, services/uin.py,           *)
(* services/uin_rows.py, services/account_delete.py).                      *)
(*                                                                         *)
(* A number can be spoken for in five tables (users, owned_uins,           *)
(* uin_holds, uin_listings, invites) and no key spans two of them.  Every  *)
(* request reads first, decides, and writes in later statements of a READ  *)
(* COMMITTED transaction, so a request here is two steps: Begin, which     *)
(* makes the reads, and one Commit action per operation.                   *)
(***************************************************************************)
EXTENDS Naturals, FiniteSets

CONSTANTS Uin,        \* the numbers
          Scarce,     \* those is_reserved_uin answers for
          Shelf,      \* those the till sells and the operator promises
          Person,     \* accounts: a profile and its keys, made by one registration
          Request,    \* requests in flight
          Nonce,      \* of the vouchers the till has signed
          Voucher,    \* what each is for: [uin, offer], offer 0 for a sale by the island
          HoldId,     \* invoices the till holds a number for
          MaxOwned,   \* MAX_OWNED_UINS
          MaxOffer,   \* bound on the offers ever made
          MaxCall,    \* bound on the requests ever made
          Calls,      \* which operations the instance includes
          None

ASSUME NumbersAssumption ==
  /\ Scarce \subseteq Uin /\ Shelf \subseteq Uin
  /\ None \notin Uin \cup Person \cup HoldId
  /\ MaxOwned \in Nat /\ MaxOffer \in Nat /\ MaxCall \in Nat
  /\ Voucher \in [Nonce -> [uin : Uin, offer : 0..MaxOffer]]

VARIABLES
  user,      \* users: the account on each number
  deed,      \* owned_uins.owner_uin
  paid,      \* the rows of owned_uins whose source is "purchase"
  hold,      \* uin_holds.hold_id
  lapsed,    \* the rows of uin_holds past expires_at
  seller,    \* uin_listings.seller_uin
  offer,     \* uin_listings.listing_id
  promised,  \* numbers a live invite reserves
  spent,     \* spent_vouchers
  req,       \* what each request has read
  offers,    \* listing ids drawn so far
  calls,     \* requests made so far
  title,     \* who bought, was given or took each number, and has not parted with it
  handed,    \* how often each voucher has delivered its number
  stale,     \* a request has committed on an answer that was no longer true
  seized     \* a request has moved a row another person had meanwhile been given

market == <<hold, lapsed, seller, offer>>
history == <<title, handed, stale, seized>>
vars == <<user, deed, paid, market, promised, spent, req, offers, calls, history>>

Idle == [op |-> "idle"]

\* Each account is on one number, or not yet registered.
Init ==
  /\ user \in [Uin -> Person \cup {None}]
  /\ \A m, n \in Uin : (user[m] # None /\ user[m] = user[n]) => m = n
  /\ deed = [n \in Uin |-> None] /\ paid = {}
  /\ hold = [n \in Uin |-> None] /\ lapsed = {}
  /\ seller = [n \in Uin |-> None] /\ offer = [n \in Uin |-> 0]
  /\ promised = {} /\ spent = {}
  /\ req = [r \in Request |-> Idle] /\ offers = 0 /\ calls = 0
  /\ title = [n \in Uin |-> IF n \in Scarce THEN user[n] ELSE None] /\ handed = [v \in Nonce |-> 0]
  /\ stale = FALSE /\ seized = FALSE

-----------------------------------------------------------------------------
(* What a request reads. *)

Held(n) == hold[n] # None /\ n \notin lapsed
Listed(n) == seller[n] # None

\* Only users, holds and invites are asked.
TakenBesidesDeeds(n, invite, ignoreHolds) ==
  \/ user[n] # None
  \/ ~ignoreHolds /\ Held(n)
  \/ n \in promised \ {invite}

\* uin_is_taken, with the invite being redeemed and ignore_holds.
UinIsTaken(n, invite, ignoreHolds) ==
  \/ user[n] # None
  \/ deed[n] # None
  \/ ~ignoreHolds /\ Held(n)
  \/ n \in promised \ {invite}

\* _owned_uins
OwnedUins(me) == {n \in Uin \ {me} : deed[n] = me}
Full(me) == Cardinality(OwnedUins(me)) >= MaxOwned

\* Every request but registration and the operator's is made by the person
\* answering as q.me.
Answering(q) == user[q.me] = q.who

\* register: the invite's number when it is free, otherwise a number asked for
\* or allocated that is free.
RegisterReads(q) ==
  /\ q.invite # None => /\ q.invite \in promised
                        /\ (q.n # q.invite) => UinIsTaken(q.invite, q.invite, FALSE)
  /\ ~UinIsTaken(q.n, IF q.n = q.invite THEN q.invite ELSE None, FALSE)

\* migrate: allocate_uin mints no scarce number.
MigrateReads(q) == Answering(q) /\ q.n \notin Scarce /\ ~UinIsTaken(q.n, None, FALSE)

\* claim (POST /uin/purchase), then the cap when the account stays where it is.
ClaimReads(q) ==
  /\ Answering(q) /\ q.n # q.me /\ q.n \notin Scarce
  /\ ~UinIsTaken(q.n, None, FALSE)
  /\ q.switch \/ ~Full(q.me)

\* activate
ActivateReads(q) == Answering(q) /\ ~Listed(q.n) /\ deed[q.n] = q.me

\* redeem: a listed number is bought from its seller at the offer paid for,
\* any other from the island.
RedeemReads(q) ==
  /\ Answering(q) /\ q.n # q.me /\ q.n = Voucher[q.voucher].uin
  /\ seller[q.n] = q.seller
  /\ IF q.seller = None
     THEN Voucher[q.voucher].offer = 0 /\ ~UinIsTaken(q.n, None, TRUE)
     ELSE q.seller # q.me /\ offer[q.n] = Voucher[q.voucher].offer
  /\ q.switch \/ ~Full(q.me)

\* release
ReleaseReads(q) == Answering(q) /\ ~Listed(q.n) /\ q.n # q.me /\ deed[q.n] = q.me

\* create_listing: a new row, or a new price on the one there is unless
\* somebody is paying.
ListReads(q) ==
  /\ Answering(q) /\ q.n # q.me /\ deed[q.n] = q.me
  /\ q.reprice <=> Listed(q.n)
  /\ q.reprice => ~Held(q.n)

\* delete_listing
DelistReads(q) == Answering(q) /\ seller[q.n] = q.me /\ ~Held(q.n)

\* purge_account
BurnReads(q) == Answering(q)

\* grant_uin asks about users, owned_uins and invites.
GrantReads(q) == user[q.me] # None /\ user[q.n] = None /\ deed[q.n] = None /\ q.n \notin promised

Reads(q) ==
  CASE q.op = "register" -> RegisterReads(q)
    [] q.op = "migrate" -> MigrateReads(q)
    [] q.op = "claim" -> ClaimReads(q)
    [] q.op = "activate" -> ActivateReads(q)
    [] q.op = "redeem" -> RedeemReads(q)
    [] q.op = "release" -> ReleaseReads(q)
    [] q.op = "list" -> ListReads(q)
    [] q.op = "delist" -> DelistReads(q)
    [] q.op = "burn" -> BurnReads(q)
    [] q.op = "grant" -> GrantReads(q)

\* The requests that can be made of the state as it is.
Asked ==
  LET on == {m \in Uin : user[m] # None} IN
       {[op |-> "register", who |-> p, n |-> n, invite |-> i] : p \in Person, n \in Uin, i \in promised \cup {None}}
  \cup {[op |-> o, who |-> user[m], me |-> m, n |-> n] :
          o \in {"migrate", "activate", "release", "delist", "grant"}, m \in on, n \in Uin}
  \cup {[op |-> "claim", who |-> user[m], me |-> m, n |-> n, switch |-> s] : m \in on, n \in Uin, s \in BOOLEAN}
  \cup {[op |-> "redeem", who |-> user[m], me |-> m, n |-> Voucher[v].uin, voucher |-> v,
         seller |-> seller[Voucher[v].uin], switch |-> s] : m \in on, v \in Nonce, s \in BOOLEAN}
  \cup {[op |-> "list", who |-> user[m], me |-> m, n |-> n, reprice |-> Listed(n)] : m \in on, n \in Uin}
  \cup {[op |-> "burn", who |-> user[m], me |-> m] : m \in on}

\* migrate reads the account FOR UPDATE and keeps the lock until it commits.
RowFree(r, m) == \A s \in Request \ {r} : req[s].op = "migrate" => req[s].me # m

\* register's UPDATE of the invite keeps that row locked until it commits.
InviteFree(r, i) == \A s \in Request \ {r} : req[s].op = "register" => req[s].invite # i

\* A registration makes an account of its own.
NewAccount(p) ==
  /\ \A n \in Uin : user[n] # p
  /\ \A s \in Request : req[s] # Idle => req[s].who # p

Begin(r) ==
  /\ req[r] = Idle /\ calls < MaxCall
  /\ \E q \in Asked :
       /\ q.op \in Calls /\ Reads(q)
       /\ q.op = "migrate" => RowFree(r, q.me)
       /\ q.op = "register" => NewAccount(q.who) /\ (q.invite # None => InviteFree(r, q.invite))
       /\ req' = [req EXCEPT ![r] = q]
  /\ calls' = calls + 1
  /\ UNCHANGED <<user, deed, paid, market, promised, spent, offers, history>>

\* A refusal after the reads, a key that is taken, a lost connection or a
\* crash: the transaction rolls back and nothing of it remains.
Abort(r) ==
  /\ req[r] # Idle
  /\ req' = [req EXCEPT ![r] = Idle]
  /\ UNCHANGED <<user, deed, paid, market, promised, spent, offers, calls, history>>

-----------------------------------------------------------------------------
(* What it writes. *)

\* The request q of r has committed.
Settled(r, op, q) ==
  /\ q.op = op
  /\ req' = [req EXCEPT ![r] = Idle]
  /\ stale' = (stale \/ ~Reads(q))

\* rekey_uin_rows
Rekey(f, old, new) == [n \in Uin |-> IF f[n] = old THEN new ELSE f[n]]

\* Every number left behind goes back to the pool unless it has a deed.
VacateToPool(d, old, new) == Rekey(d, old, new)

\* The number left behind: a deed that exists stays, scarce stock gets one, an
\* ordinary number goes back to the pool.
Vacate(d, old, new) ==
  LET k == Rekey(d, old, new) IN
  IF k[old] = None /\ old \in Scarce THEN [k EXCEPT ![old] = new] ELSE k

\* The move builds on the row its request read.
RowAssumed(q) == TRUE

\* _perform_migration, step 0: FOR UPDATE finds a row under the old number.
RowThere(q) == user[q.me] # None

\* _perform_migration, on deeds d and listings s: the account's row under its
\* new number, every row that names the old one re-keyed, the old row deleted.
PerformMigration(r, q, d, s) ==
  /\ RowFree(r, q.me) /\ RowThere(q)
  /\ user[q.n] = None
  /\ user' = [user EXCEPT ![q.n] = q.who, ![q.me] = None]
  /\ deed' = Vacate(d, q.me, q.n)
  /\ seller' = Rekey(s, q.me, q.n)
  /\ seized' = (seized \/ user[q.me] \notin {q.who, None})

\* The account stays where it is.
Stay(d, s) == deed' = d /\ seller' = s /\ UNCHANGED <<user, seized>>

\* register
Register(r) ==
  LET q == req[r] IN
  /\ Settled(r, "register", q)
  /\ user[q.n] = None
  /\ user' = [user EXCEPT ![q.n] = q.who]
  /\ promised' = promised \ {q.invite}
  /\ title' = IF q.n \in Scarce THEN [title EXCEPT ![q.n] = q.who] ELSE title
  /\ UNCHANGED <<deed, paid, market, spent, offers, calls, handed, seized>>

\* migrate
Migrate(r) ==
  LET q == req[r] IN
  /\ Settled(r, "migrate", q)
  /\ PerformMigration(r, q, deed, seller)
  /\ UNCHANGED <<paid, hold, lapsed, offer, promised, spent, offers, calls, title, handed>>

\* activate: the deed stays and moves with its holder.
Activate(r) ==
  LET q == req[r] IN
  /\ Settled(r, "activate", q)
  /\ PerformMigration(r, q, deed, seller)
  /\ UNCHANGED <<paid, hold, lapsed, offer, promised, spent, offers, calls, title, handed>>

\* claim and _take: a number to answer as is a loan, one to keep is a deed.
Claim(r) ==
  LET q == req[r] IN
  /\ Settled(r, "claim", q)
  /\ IF q.switch
     THEN PerformMigration(r, q, deed, seller) /\ UNCHANGED title
     ELSE /\ deed[q.n] = None
          /\ Stay([deed EXCEPT ![q.n] = q.me], seller)
          /\ title' = [title EXCEPT ![q.n] = q.who]
  /\ UNCHANGED <<paid, hold, lapsed, offer, promised, spent, offers, calls, handed>>

\* The nonce is written down without a key.
NonceUnchecked(v) == TRUE

\* The nonce is a primary key.
NonceFree(v) == v \notin spent

\* The deed a sale writes: a new row for the island's own stock, and for a
\* listed number the seller's row by one conditional UPDATE.
DeedFree(q) == deed[q.n] = q.seller

\* redeem and _redeem_resale: nonce, deed, hold, listing and the move in one
\* transaction.
Redeem(r) ==
  LET q == req[r]
      d == [deed EXCEPT ![q.n] = q.me]
      s == IF q.seller = None THEN seller ELSE [seller EXCEPT ![q.n] = None] IN
  /\ Settled(r, "redeem", q)
  /\ NonceFree(q.voucher) /\ DeedFree(q)
  /\ spent' = spent \cup {q.voucher}
  /\ paid' = paid \cup {q.n}
  /\ hold' = [hold EXCEPT ![q.n] = None] /\ lapsed' = lapsed \ {q.n}
  /\ IF q.switch THEN PerformMigration(r, q, d, s) ELSE Stay(d, s)
  /\ title' = [title EXCEPT ![q.n] = q.who]
  /\ handed' = [handed EXCEPT ![q.voucher] = @ + 1]
  /\ UNCHANGED <<offer, promised, offers, calls>>

\* release
Release(r) ==
  LET q == req[r] IN
  /\ Settled(r, "release", q)
  /\ deed' = [deed EXCEPT ![q.n] = None] /\ paid' = paid \ {q.n}
  /\ title' = [title EXCEPT ![q.n] = IF @ = q.who THEN None ELSE @]
  /\ UNCHANGED <<user, market, promised, spent, offers, calls, handed, seized>>

\* create_listing: a changed price is a new offer, and the UPDATE of a row that
\* is gone, like the INSERT of one that is there, rolls back.
CreateListing(r) ==
  LET q == req[r] IN
  /\ Settled(r, "list", q)
  /\ q.reprice <=> Listed(q.n)
  /\ offers < MaxOffer
  /\ offers' = offers + 1 /\ offer' = [offer EXCEPT ![q.n] = offers + 1]
  /\ seller' = IF q.reprice THEN seller ELSE [seller EXCEPT ![q.n] = q.me]
  /\ UNCHANGED <<user, deed, paid, hold, lapsed, promised, spent, calls, title, handed, seized>>

\* delete_listing
DeleteListing(r) ==
  LET q == req[r] IN
  /\ Settled(r, "delist", q)
  /\ seller' = [seller EXCEPT ![q.n] = None]
  /\ UNCHANGED <<user, deed, paid, hold, lapsed, offer, promised, spent, offers, calls, title, handed, seized>>

\* purge_account: every row that names the number, whoever has it by now.
PurgeAccount(r) ==
  LET q == req[r]
      gone == {n \in Uin : deed[n] = q.me} IN
  /\ Settled(r, "burn", q)
  /\ RowFree(r, q.me)
  /\ user' = [user EXCEPT ![q.me] = None]
  /\ deed' = Rekey(deed, q.me, None) /\ paid' = paid \ gone
  /\ seller' = Rekey(seller, q.me, None)
  /\ title' = Rekey(title, q.who, None)
  /\ seized' = (seized \/ user[q.me] \notin {q.who, None})
  /\ UNCHANGED <<hold, lapsed, offer, promised, spent, offers, calls, handed>>

\* grant_uin
Grant(r) ==
  LET q == req[r] IN
  /\ Settled(r, "grant", q)
  /\ deed[q.n] = None
  /\ deed' = [deed EXCEPT ![q.n] = q.me]
  /\ title' = [title EXCEPT ![q.n] = user[q.me]]
  /\ UNCHANGED <<user, paid, market, promised, spent, offers, calls, handed, seized>>

-----------------------------------------------------------------------------
(* The till and the operator, one statement each. *)

\* till_hold: the invoice's own hold is extended, and a new row is inserted for
\* a number that is listed or free.  The INSERT fails when any row is there,
\* lapsed or not.
TillHold(n, h) ==
  LET free == Listed(n) \/ ~UinIsTaken(n, None, FALSE) IN
  /\ "hold" \in Calls
  /\ hold[n] = h \/ free
  /\ hold' = IF hold[n] = None THEN [hold EXCEPT ![n] = h] ELSE hold
  /\ lapsed' = IF hold[n] \in {h, None} THEN lapsed \ {n} ELSE lapsed
  /\ UNCHANGED <<user, deed, paid, seller, offer, promised, spent, req, offers, calls, title, handed, stale, seized>>

\* till_hold with kind "release", and release_hold.
HoldReleased(n) ==
  /\ hold[n] # None
  /\ hold' = [hold EXCEPT ![n] = None] /\ lapsed' = lapsed \ {n}
  /\ UNCHANGED <<user, deed, paid, seller, offer, promised, spent, req, offers, calls, history>>

\* hold_uin, by the operator: the row there is may be taken over once it has
\* lapsed.
HoldUin(n, h) ==
  /\ "hold" \in Calls
  /\ ~UinIsTaken(n, None, FALSE)
  /\ hold' = [hold EXCEPT ![n] = h] /\ lapsed' = lapsed \ {n}
  /\ UNCHANGED <<user, deed, paid, seller, offer, promised, spent, req, offers, calls, history>>

\* expires_at passes.
HoldLapses(n) ==
  /\ Held(n)
  /\ lapsed' = lapsed \cup {n}
  /\ UNCHANGED <<user, deed, paid, hold, seller, offer, promised, spent, req, offers, calls, history>>

\* mint_invite
MintInvite(n) ==
  /\ "invite" \in Calls
  /\ ~UinIsTaken(n, None, FALSE)
  /\ promised' = promised \cup {n}
  /\ UNCHANGED <<user, deed, paid, market, spent, req, offers, calls, history>>

\* revoke_invite, or the invite expires.
InviteDies(n) ==
  /\ n \in promised
  /\ \A r \in Request : req[r].op = "register" => req[r].invite # n
  /\ promised' = promised \ {n}
  /\ UNCHANGED <<user, deed, paid, market, spent, req, offers, calls, history>>

\* remove_listing, by the operator.
RemoveListing(n) ==
  /\ Listed(n) /\ ~Held(n)
  /\ seller' = [seller EXCEPT ![n] = None]
  /\ UNCHANGED <<user, deed, paid, hold, lapsed, offer, promised, spent, req, offers, calls, history>>

\* reclaim_reserved, _release_parked: every deed nobody paid for.
Parked == {n \in Uin : deed[n] # None} \ paid

ReleaseParked ==
  LET gone == Parked IN
  /\ "reclaim" \in Calls
  /\ gone # {}
  /\ deed' = [n \in Uin |-> IF n \in gone THEN None ELSE deed[n]]
  /\ title' = [n \in Uin |-> IF n \in gone /\ ~(n \in Scarce /\ user[n] = title[n]) THEN None ELSE title[n]]
  /\ UNCHANGED <<user, paid, market, promised, spent, req, offers, calls, handed, stale, seized>>

Operate(n) ==
  \/ \E h \in HoldId : TillHold(n, h) \/ HoldUin(n, h)
  \/ HoldReleased(n) \/ HoldLapses(n)
  \/ MintInvite(n) \/ InviteDies(n)
  \/ RemoveListing(n)

Commit(r) ==
  \/ Register(r) \/ Migrate(r) \/ Claim(r) \/ Activate(r) \/ Redeem(r)
  \/ Release(r) \/ CreateListing(r) \/ DeleteListing(r) \/ PurgeAccount(r) \/ Grant(r)

Next ==
  \/ \E r \in Request : Begin(r) \/ Commit(r) \/ Abort(r)
  \/ \E n \in Shelf : Operate(n)
  \/ ReleaseParked

Spec == Init /\ [][Next]_vars

-----------------------------------------------------------------------------
(* Properties. *)

\* Whose hands a number is in: the account on it, or the account on the number
\* its deed names.
InHands(n, p) == user[n] = p \/ (deed[n] # None /\ user[deed[n]] = p)

\* The tables hold what their columns may, and only a deed has a source.
TypeOK ==
  /\ user \in [Uin -> Person \cup {None}]
  /\ deed \in [Uin -> Uin \cup {None}] /\ seller \in [Uin -> Uin \cup {None}]
  /\ hold \in [Uin -> HoldId \cup {None}] /\ offer \in [Uin -> 0..MaxOffer]
  /\ paid \subseteq {n \in Uin : deed[n] # None}
  /\ lapsed \subseteq {n \in Uin : hold[n] # None}
  /\ promised \subseteq Uin /\ spent \subseteq Nonce
  /\ title \in [Uin -> Person \cup {None}] /\ handed \in [Nonce -> Nat]

\* migrate.py, step 0: two moves of one account, from any of the four doors and
\* in any order, leave one account.  Excepted is a move whose old number was
\* vacated and given to somebody else between its reads and its lock: it finds
\* a row to lock, and the row is not its own.
OneBody ==
  ~seized => \A m, n \in Uin : (user[m] # None /\ user[m] = user[n]) => m = n

\* redeem: a voucher is spent exactly when its number has been handed over, and
\* it hands it over once, whatever else is in flight and wherever it stops.
VoucherHonoured == \A v \in Nonce : handed[v] = IF v \in spent THEN 1 ELSE 0

\* A number somebody bought, was given or chose to keep stays in their hands
\* until they release, sell or burn it or the operator reclaims what nobody
\* paid for: through moves, listings, holds and everyone else's requests, as
\* long as no request has written on an answer that was no longer true.
TitleKept == ~stale => \A n \in Uin : title[n] # None => InHands(n, title[n])

\* models/owned_uin.py: while no request has written on an answer that was no
\* longer true, nobody answers as a number that is in another's collection.
DeedExclusive ==
  ~stale => \A n \in Uin : (user[n] # None /\ deed[n] # None) => user[deed[n]] = user[n]
=============================================================================
