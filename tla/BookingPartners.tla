--------------------------- MODULE BookingPartners ---------------------------
(***************************************************************************)
(* The booking partners and the day's customer-id sequence: creation one   *)
(* by one and in bulk, edits, the lock, deletion and the wipe before a     *)
(* fresh import (booking-partner.service.ts).  Every operation but delete  *)
(* is a transaction; none of them locks a partner it only reads.           *)
(*                                                                         *)
(* A partner is its customer id, its other fields and its lock.  Customer  *)
(* ids are the sequence's numbers, and ids that came from elsewhere.       *)
(***************************************************************************)
EXTENDS Integers, FiniteSets, EntitySave

CONSTANTS
  PartnerIds,    \* primary keys
  Editors,       \* operations under way at one time
  Fields,        \* values of the fields staff edit
  LegacyIds,     \* customer ids of another system: negative numbers
  NoPartner,
  MaxSequence,   \* bound: customer ids reserved in a behaviour
  MaxPartnerOps  \* bound: operations

ASSUME PartnerAssumption ==
  /\ MaxSequence \in Nat /\ MaxPartnerOps \in Nat
  /\ LegacyIds \subseteq Int \ Nat /\ PartnerIds \subseteq Nat \ {0}

VARIABLES
  partners,  \* [PartnerIds -> row or NoPartner], committed
  sequence,  \* customer_id_sequences.current_value of today, committed
  nextKey,   \* the serial of the primary key
  named,     \* partners some booking document names in its payload
  op,        \* [Editors -> operation under way]
  opened,    \* counter of the bound
  used       \* history: customer ids partners have had

partnerVars == <<partners, sequence, nextKey, named, op, opened, used>>

NotEditing == [pc |-> "none"]
Existing == {p \in PartnerIds : partners[p] # NoPartner}
CustomerIds == {partners[p].customer : p \in Existing}

PartnersInit ==
  /\ partners = [p \in PartnerIds |-> NoPartner]
  /\ sequence = 0 /\ nextKey = 1 /\ named = {}
  /\ op = [e \in Editors |-> NotEditing]
  /\ opened = 0 /\ used = {}

Open(e, record) ==
  /\ op[e].pc = "none" /\ opened < MaxPartnerOps
  /\ op' = [op EXCEPT ![e] = record] /\ opened' = opened + 1
Close(e) == op' = [op EXCEPT ![e] = NotEditing]

-----------------------------------------------------------------------------
(* createPartner and createPartnersBulk: `given' are the customer ids the  *)
(* rows bring along, `autos' the number of rows that bring none.           *)

OpenCreate(e, bulk, given, autos) ==
  /\ IF bulk THEN given # {} \/ autos > 0 ELSE Cardinality(given) + autos = 1
  /\ Open(e, [pc |-> "taken", bulk |-> bulk, given |-> given, autos |-> autos,
              ids |-> {}, end |-> sequence, reads |-> given # {}])
  /\ UNCHANGED <<partners, sequence, nextKey, named, used>>

\* One query for the ids that are taken: a single creation is refused, a bulk
\* one leaves these rows out.
FindTaken(e) ==
  LET taken == op[e].given \cap CustomerIds IN
  /\ op[e].pc = "taken"
  /\ IF taken # {} /\ ~op[e].bulk THEN Close(e)
     ELSE op' = [op EXCEPT ![e].given = @ \ taken,
                           ![e].pc = IF op[e].autos = 0 THEN "insert"
                                     ELSE "reserve"]
  /\ UNCHANGED <<partners, sequence, nextKey, named, opened, used>>

\* Mutant of SequenceHeld: the block is reserved without keeping the row.
SequenceHeldNever(e) == FALSE

\* The sequence's row is locked from the UPDATE to the end of the transaction.
SequenceHeld(e) ==
  \E o \in Editors \ {e} : op[o].pc = "insert" /\ op[o].ids # {}

\* reserveCustomerIdBlock: UPDATE ... RETURNING, its effect not committed yet.
Reserve(e) ==
  LET end == sequence + op[e].autos IN
  /\ op[e].pc = "reserve" /\ ~SequenceHeld(e) /\ end <= MaxSequence
  /\ op' = [op EXCEPT ![e].pc = "insert", ![e].end = end,
                      ![e].ids = (sequence + 1) .. end]
  /\ UNCHANGED <<partners, sequence, nextKey, named, opened, used>>

\* A new partner for each customer id, under the next primary keys.
Inserted(ids, fields) ==
  LET keys == nextKey .. (nextKey + Cardinality(ids) - 1)
      nth == CHOOSE f \in [keys -> ids] : \A x, y \in keys : x # y => f[x] # f[y]
  IN [p \in PartnerIds |-> IF p \in keys
        THEN [customer |-> nth[p], fields |-> fields, locked |-> FALSE]
        ELSE partners[p]]

\* The INSERTs and the commit, which also publishes the sequence; the unique
\* constraint on customer_id turns the whole transaction back.
Insert(e) ==
  LET ids == op[e].given \cup op[e].ids IN
  /\ op[e].pc = "insert"
  /\ nextKey + Cardinality(ids) - 1 \in PartnerIds \cup {nextKey - 1}
  /\ IF ids \cap CustomerIds = {}
     THEN /\ \E fields \in Fields : partners' = Inserted(ids, fields)
          /\ sequence' = IF op[e].ids = {} THEN sequence ELSE op[e].end
          /\ used' = used \cup ids
     ELSE UNCHANGED <<partners, sequence, used>>
  /\ nextKey' = nextKey + Cardinality(ids)
  /\ Close(e)
  /\ UNCHANGED <<named, opened>>

-----------------------------------------------------------------------------
(* updatePartner and updateCustomerStatus: saves of a whole entity.        *)

OpenUpdate(e, p, fields) ==
  /\ p \in Existing /\ ~partners[p].locked
  /\ Open(e, [pc |-> "reload", key |-> p, columns |-> {},
              entity |-> [partners[p] EXCEPT !.fields = fields]])
  /\ UNCHANGED <<partners, sequence, nextKey, named, used>>

ReloadPartner(e) ==
  /\ op[e].pc = "reload"
  /\ IF op[e].key \in Existing
     THEN op' = [op EXCEPT ![e].pc = "flush",
                   ![e].columns = Differing(op[e].entity, partners[op[e].key])]
     ELSE Close(e)
  /\ UNCHANGED <<partners, sequence, nextKey, named, opened, used>>

FlushPartner(e) ==
  LET p == op[e].key IN
  /\ op[e].pc = "flush"
  /\ partners' = IF p \notin Existing THEN partners
                 ELSE [partners EXCEPT ![p] =
                         Overwritten(@, op[e].entity, op[e].columns)]
  /\ Close(e)
  /\ UNCHANGED <<sequence, nextKey, named, opened, used>>

\* lockPartner: one UPDATE ... WHERE locked_at IS NULL.
Lock(p) ==
  /\ p \in Existing /\ ~partners[p].locked
  /\ partners' = [partners EXCEPT ![p].locked = TRUE]
  /\ UNCHANGED <<sequence, nextKey, named, op, opened, used>>

-----------------------------------------------------------------------------
(* delete and deleteAll.                                                   *)

\* delete finds the partner, asks the documents, and removes by id, in three
\* statements without a transaction.
OpenDelete(e, p) ==
  /\ p \in Existing
  /\ Open(e, [pc |-> "named", key |-> p])
  /\ UNCHANGED <<partners, sequence, nextKey, named, used>>

AskDocuments(e) ==
  /\ op[e].pc = "named"
  /\ IF op[e].key \in named THEN Close(e)
     ELSE op' = [op EXCEPT ![e].pc = "remove"]
  /\ UNCHANGED <<partners, sequence, nextKey, named, opened, used>>

RemovePartner(e) ==
  /\ op[e].pc = "remove"
  /\ partners' = [partners EXCEPT ![op[e].key] = NoPartner]
  /\ Close(e)
  /\ UNCHANGED <<sequence, nextKey, named, opened, used>>

\* deleteAll: the count the client has confirmed, no document that names any
\* partner, TRUNCATE ... RESTART IDENTITY, which waits for every transaction
\* that has read or written the table.  The sequence of the day stays.
DeleteAll(expected) ==
  /\ expected = Cardinality(Existing) /\ named = {}
  /\ \A e \in Editors :
       \/ op[e].pc \in {"none", "taken", "named", "remove"}
       \/ op[e].pc \in {"reserve", "insert"} /\ ~op[e].reads
  /\ partners' = [p \in PartnerIds |-> NoPartner]
  /\ nextKey' = 1
  /\ UNCHANGED <<sequence, named, op, opened, used>>

-----------------------------------------------------------------------------
\* A failing statement or a lost connection rolls the transaction back.
GiveUp(e) ==
  /\ op[e].pc # "none" /\ Close(e)
  /\ UNCHANGED <<partners, sequence, nextKey, named, opened, used>>

\* A booking document is saved that names the partner, or no longer does.
Name(p) ==
  /\ named' = IF p \in named THEN named \ {p} ELSE named \cup {p}
  /\ p \in named \/ p \in Existing
  /\ UNCHANGED <<partners, sequence, nextKey, op, opened, used>>

PartnersNext ==
  \/ \E e \in Editors :
       \/ FindTaken(e) \/ Reserve(e) \/ Insert(e) \/ ReloadPartner(e)
       \/ FlushPartner(e) \/ AskDocuments(e) \/ RemovePartner(e) \/ GiveUp(e)
       \/ \E bulk \in BOOLEAN, autos \in 0 .. 2,
             given \in {{}} \cup {{id} : id \in LegacyIds \cup used} :
            OpenCreate(e, bulk, given, autos)
       \/ \E p \in PartnerIds :
            OpenDelete(e, p) \/ (\E f \in Fields : OpenUpdate(e, p, f))
  \/ \E p \in PartnerIds : Lock(p) \/ Name(p)
  \/ \E n \in 0 .. Cardinality(PartnerIds) : DeleteAll(n)

PartnersSpec == PartnersInit /\ [][PartnersNext]_partnerVars

-----------------------------------------------------------------------------
\* The customer ids a creation has reserved were never those of any partner,
\* present or past: not when creations race, when one is rolled back, when all
\* partners were wiped and an export of them is imported again.
AutoIdsAreFresh ==
  \A e \in Editors : op[e].pc = "insert" => op[e].ids \cap used = {}

\* A locked partner stays as it is as long as it exists: the service has no
\* operation that unlocks.
LockIsForEver ==
  [][\A p \in Existing :
       partners[p].locked /\ partners'[p] # NoPartner =>
         partners'[p] = partners[p]]_partnerVars
=============================================================================
