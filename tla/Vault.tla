-------------------------------- MODULE Vault --------------------------------
(***************************************************************************)
(* The sealed slots of one account (routers/vault.py): a write or a delete *)
(* names the version its device read, and a key reissue empties the vault  *)
(* in its own transaction.  A reply may be lost, so a device may repeat a  *)
(* call that was already carried out.                                      *)
(***************************************************************************)
EXTENDS Naturals, FiniteSets

CONSTANTS
  Devices, SlotNames,
  MaxSlots,   \* MAX_SLOTS, live slots per account
  MaxTexts,   \* bound on the texts written
  MaxReissues,
  NoSlot

ASSUME VaultAssumption ==
  NoSlot \notin [version : Nat, blob : Nat, over : Nat, of : Nat]
              \cup [do : {"insert", "delete"}, slot : SlotNames, base : [version : Nat, blob : Nat, of : Nat]]

VARIABLES
  vault,   \* vault_slots by name: version, blob (0 for a tombstone), and the blob its writer had read
  read,    \* what each device last read of each slot, and under which identity
  call,    \* a request of a device between its reads and its write
  texts, reissues

vaultVars == <<vault, read, call, texts, reissues>>

LiveSlots == {s \in SlotNames : vault[s] # NoSlot /\ vault[s].blob # 0}

\* _current_version: 0 for a slot that has no row.
Version(s) == IF vault[s] = NoSlot THEN 0 ELSE vault[s].version
Blob(s) == IF vault[s] = NoSlot THEN 0 ELSE vault[s].blob

VaultInit ==
  /\ vault = [s \in SlotNames |-> NoSlot] /\ texts = 0 /\ reissues = 0
  /\ read = [d \in Devices |-> [s \in SlotNames |-> [version |-> 0, blob |-> 0, of |-> 0]]]
  /\ call = [d \in Devices |-> NoSlot]

\* get_slot and list_slots: a 404 carries the version too.
Get(d, s) ==
  /\ read' = [read EXCEPT ![d][s] = [version |-> Version(s), blob |-> Blob(s), of |-> reissues]]
  /\ UNCHANGED <<vault, call, texts, reissues>>

IdleDevice(d) == call[d] = NoSlot
Done(d) == call' = [call EXCEPT ![d] = NoSlot]
Row(version, blob, base) == [version |-> version, blob |-> blob, over |-> base.blob, of |-> base.of]

\* put_slot of a slot the device takes for new: the live slots are counted, the row comes later.
Count(d, s) ==
  /\ IdleDevice(d) /\ read[d][s].version = 0 /\ Cardinality(LiveSlots) < MaxSlots /\ texts < MaxTexts
  /\ call' = [call EXCEPT ![d] = [do |-> "insert", slot |-> s, base |-> read[d][s]]]
  /\ UNCHANGED <<vault, read, texts, reissues>>
InsertSlot(d) ==
  /\ ~IdleDevice(d) /\ call[d].do = "insert" /\ Done(d)
  /\ LET s == call[d].slot IN
     \/ /\ vault[s] = NoSlot /\ texts < MaxTexts /\ texts' = texts + 1
        /\ vault' = [vault EXCEPT ![s] = Row(1, texts', call[d].base)]
     \/ (vault[s] # NoSlot \/ texts = MaxTexts) /\ UNCHANGED <<vault, texts>>
  /\ UNCHANGED <<read, reissues>>

\* put_slot of a known version, live or tombstone: one UPDATE that names it.
Overwrite(d, s) ==
  /\ read[d][s].version > 0 /\ texts < MaxTexts /\ texts' = texts + 1
  /\ vault' = [vault EXCEPT ![s] = Row(read[d][s].version + 1, texts', read[d][s])]
  /\ UNCHANGED <<read, call, reissues>>
PutBlind(d, s) == vault[s] # NoSlot /\ Overwrite(d, s)
Put(d, s) == vault[s] # NoSlot /\ vault[s].version = read[d][s].version /\ Overwrite(d, s)

\* delete_slot: nothing to do for a slot that is not live; else an UPDATE that names the version.
Look(d, s) ==
  /\ IdleDevice(d) /\ s \in LiveSlots /\ read[d][s].version > 0
  /\ call' = [call EXCEPT ![d] = [do |-> "delete", slot |-> s, base |-> read[d][s]]]
  /\ UNCHANGED <<vault, read, texts, reissues>>
Bury(d, Left(_, _)) ==
  /\ ~IdleDevice(d) /\ call[d].do = "delete" /\ Done(d)
  /\ LET s == call[d].slot  base == call[d].base IN
     vault' = IF s \in LiveSlots /\ vault[s].version = base.version THEN [vault EXCEPT ![s] = Left(s, base)] ELSE vault
  /\ UNCHANGED <<read, texts, reissues>>
Nothing(s, base) == NoSlot
Tombstone(s, base) == Row(base.version + 1, 0, base)
DeleteHard(d) == Bury(d, Nothing)
DeleteSlot(d) == Bury(d, Tombstone)

\* The key reissue deletes the rows; the new identity derives other names, the old one keeps these.
Reissue ==
  /\ reissues < MaxReissues /\ reissues' = reissues + 1
  /\ vault' = [s \in SlotNames |-> NoSlot]
  /\ UNCHANGED <<read, call, texts>>

VaultNext ==
  \/ \E d \in Devices : InsertSlot(d) \/ DeleteSlot(d) \/ \E s \in SlotNames : Get(d, s) \/ Count(d, s) \/ Put(d, s) \/ Look(d, s)
  \/ Reissue

VaultSpec == VaultInit /\ [][VaultNext]_vaultVars

-----------------------------------------------------------------------------
\* A version names one content for as long as the identity lasts: two devices that read the same
\* version of a slot read the same blob, through deletes and re-creations (put_slot, delete_slot).
VersionNamesBlob ==
  \A d, e \in Devices : \A s \in SlotNames :
    (read[d][s].of = read[e][s].of /\ read[d][s].version = read[e][s].version) => read[d][s].blob = read[e][s].blob

\* No write or delete lands on a content its author never saw, whatever requests were under way and
\* however often they were repeated, as long as the author read under the present identity.
SeenBeforeOverwrittenStep ==
  \A s \in SlotNames :
    (vault'[s] # vault[s] /\ vault'[s] # NoSlot /\ vault'[s].of = reissues) => vault'[s].over = Blob(s)

\* put_slot, delete_slot: every step of a vault writes over what its author saw.
SeenBeforeOverwritten == [][SeenBeforeOverwrittenStep]_vaultVars
=============================================================================
