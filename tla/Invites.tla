------------------------------ MODULE Invites -------------------------------
(***************************************************************************)
(* The invites one account may hand out: routers/invites.py, the purchase  *)
(* of residency in routers/residency.py, the use of a code by a            *)
(* registration and the invite half of services/credential_sweep.py.       *)
(*                                                                         *)
(* An account that was there before entry was sold earns free codes from a *)
(* fixed day on; a resident earns paid ones from the day of payment.  One  *)
(* counter, invites_minted, is spent against whichever allowance applies.  *)
(* A mint reads its allowance and then spends it in a conditional UPDATE;  *)
(* a purchase reads the counter and then writes it as the paid base; the   *)
(* sweep reads the codes of the dead and deletes them by key.              *)
(***************************************************************************)
EXTENDS Integers, FiniteSets

CONSTANTS
    Requests,                  \* requests of the account that may overlap
    PaidTotal, FreeTotal,      \* resident_invites_total, free_invites_total
    PeriodDays, InviteTTL,     \* resident_invites_period_days, .._ttl_days
    CutoffDay, MinAgeDays,     \* free_invites_before, free_invites_min_age_days
    CredentialAge,             \* CREDENTIAL_MAX_AGE_DAYS
    Unset,                     \* NULL
    MaxDate                    \* bound: the last day

ASSUME InvitesAssumption ==
    /\ PeriodDays \in Nat \ {0} /\ InviteTTL \in Nat \ {0} /\ CredentialAge \in Nat
    /\ PaidTotal \in Int /\ FreeTotal \in Int /\ CutoffDay \in Int /\ MinAgeDays \in Int
    /\ Unset \notin Int \cup [granted : Int, at : Int]

VARIABLES
    account,   \* the users row: minted, base, since, suspended
    codes,     \* the account's invites
    minting,   \* mints that have read their allowance
    buying,    \* a purchase that has read the counter
    reaper,    \* the codes the sweep is about to delete
    date

inviteVars == <<account, codes, minting, buying, reaper, date>>

Least(a, b) == IF a <= b THEN a ELSE b

\* The account joined on day 0, before the cutoff and by no paid or invited
\* door: the population the free drip is for.
Joined == 0

InvitesInit ==
    /\ account = [minted |-> 0, base |-> 0, since |-> Unset, suspended |-> FALSE]
    /\ codes = {}
    /\ minting = [q \in Requests |-> Unset]
    /\ buying = Unset
    /\ reaper = {}
    /\ date = 0

NextDay ==
    /\ date < MaxDate
    /\ date' = date + 1
    /\ UNCHANGED <<account, codes, minting, buying, reaper>>

-----------------------------------------------------------------------------
(* The two allowances.                                                     *)

\* Anchored on what had been minted when residency was bought, so that the
\* first paid code is in hand at once.
Accrued(u) ==
    IF u.since = Unset \/ PaidTotal <= 0 THEN 0
    ELSE Least(PaidTotal, u.base + 1 + ((date - u.since) \div PeriodDays))

FreeAnchor == IF CutoffDay > Joined + MinAgeDays THEN CutoffDay ELSE Joined + MinAgeDays

AccruedFree ==
    IF FreeTotal <= 0 \/ date < FreeAnchor THEN 0
    ELSE Least(FreeTotal, 1 + ((date - FreeAnchor) \div PeriodDays))

FreeEligible(u) == FreeTotal > 0 /\ u.since = Unset /\ Joined < CutoffDay

\* A resident draws the paid allowance and nothing else.  Whether the row
\* looks like a person is asked of other tables.
Source(u, person) ==
    IF u.since # Unset THEN Accrued(u)
    ELSE IF FreeEligible(u) /\ person THEN AccruedFree
    ELSE 0

-----------------------------------------------------------------------------
(* POST /invites, DELETE /invites/{id}, POST /residency/redeem.            *)

MintReads(q) ==
    /\ minting[q] = Unset
    /\ ~ account.suspended
    /\ \E person \in BOOLEAN :
         /\ account.since # Unset \/ (FreeEligible(account) /\ person)
         /\ minting' = [minting EXCEPT ![q] = [granted |-> Source(account, person), at |-> date]]
    /\ UNCHANGED <<account, codes, buying, reaper, date>>

MintSpendsBlind(q) ==
    /\ minting[q] # Unset
    /\ minting' = [minting EXCEPT ![q] = Unset]
    /\ IF minting[q].granted > 0
       THEN /\ account' = [account EXCEPT !.minted = @ + 1]
            /\ codes' = codes \cup {[no |-> account.minted + 1, used |-> FALSE, spent |-> Unset,
                                     made |-> minting[q].at, expires |-> minting[q].at + InviteTTL]}
       ELSE UNCHANGED <<account, codes>>
    /\ UNCHANGED <<buying, reaper, date>>

\* UPDATE users SET invites_minted = invites_minted + 1 WHERE invites_minted <
\* granted, and the code in the same transaction; or no row, and a refusal.
MintSpends(q) ==
    /\ minting[q] # Unset
    /\ minting' = [minting EXCEPT ![q] = Unset]
    /\ IF account.minted < minting[q].granted
       THEN /\ account' = [account EXCEPT !.minted = @ + 1]
            /\ codes' = codes \cup {[no |-> account.minted + 1, used |-> FALSE, spent |-> Unset,
                                     made |-> minting[q].at, expires |-> minting[q].at + InviteTTL]}
       ELSE UNCHANGED <<account, codes>>
    /\ UNCHANGED <<buying, reaper, date>>

\* The invite stops working, the allowance stays spent.
Revoke(c) ==
    /\ c \in codes
    /\ codes' = codes \ {c}
    /\ UNCHANGED <<account, minting, buying, reaper, date>>

Suspend ==
    /\ account' = [account EXCEPT !.suspended = ~ @]
    /\ UNCHANGED <<codes, minting, buying, reaper, date>>

PurchaseReads ==
    /\ buying = Unset
    /\ ~ account.suspended
    /\ account.since = Unset
    /\ buying' = account.minted
    /\ UNCHANGED <<account, codes, minting, reaper, date>>

PurchaseWrites ==
    /\ buying # Unset
    /\ account' = [account EXCEPT !.since = date, !.base = buying]
    /\ buying' = Unset
    /\ UNCHANGED <<codes, minting, reaper, date>>

-----------------------------------------------------------------------------
(* A newcomer registers with a code; the sweep.                            *)

\* _invite_gates in the WHERE of the one UPDATE that spends the use.
Use(c) ==
    /\ c \in codes
    /\ ~ c.used
    /\ c.expires > date
    /\ codes' = (codes \ {c}) \cup {[c EXCEPT !.used = TRUE, !.spent = date]}
    /\ UNCHANGED <<account, minting, buying, reaper, date>>

DeadInvite(c) ==
    \/ c.used /\ c.spent # Unset /\ c.spent + CredentialAge < date
    \/ c.used /\ c.spent = Unset /\ c.made + CredentialAge < date
    \/ c.expires + CredentialAge < date

InviteSweepReads ==
    /\ reaper = {}
    /\ \E some \in (SUBSET {c \in codes : DeadInvite(c)}) \ {{}} : reaper' = {c.no : c \in some}
    /\ UNCHANGED <<account, codes, minting, buying, date>>

InviteSweepDeletes ==
    /\ reaper # {}
    /\ codes' = {c \in codes : c.no \notin reaper}
    /\ reaper' = {}
    /\ UNCHANGED <<account, minting, buying, date>>

InvitesNext ==
    \/ NextDay
    \/ \E q \in Requests : MintReads(q) \/ MintSpends(q)
    \/ \E c \in codes : Revoke(c) \/ Use(c)
    \/ Suspend
    \/ PurchaseReads
    \/ PurchaseWrites
    \/ InviteSweepReads
    \/ InviteSweepDeletes

InvitesSpec == InvitesInit /\ [][InvitesNext]_inviteVars

-----------------------------------------------------------------------------
(* Properties.                                                             *)

\* However mints, a purchase and the days interleave, the account has never
\* taken more codes than the allowance it drew from had grown to
\* (invites.py: "Two requests arriving together would both read the same
\* remaining count and both mint").
TakenWasEarned ==
    account.minted <= Accrued(account) \/ account.minted <= AccruedFree

\* What the sweep is about to delete by key can let nobody in any more: no
\* step revives a dead code between its read and its write, and a code that a
\* newcomer may still use is withdrawn by its owner or not at all.
SweepTakesDead ==
    \A c \in codes : c.no \in reaper => c.used \/ c.expires <= date

\* An account never takes more codes than its allowance had grown to, and what
\* the sweep is about to delete lets nobody in any more (invites.py mint,
\* credential_sweep.py).
CodesAccounted == TakenWasEarned /\ SweepTakesDead
=============================================================================
