---------------------------- MODULE CharContacts ----------------------------
(***************************************************************************)
(* The contact-list and bounty handlers of CharMgrService                  *)
(* (character/CharMgrService.cpp): AddContact and EditContact (both        *)
(* overloads each), DeleteContacts, BlockOwners, UnblockOwners,            *)
(* EditContactsRelationshipID and AddToBounty.                             *)
(*                                                                         *)
(* CharacterDB and AccountService are outside this repository.  Their      *)
(* calls are modelled by what their names and arguments say: a contact row *)
(* keyed by (ownerID, contactID) is written, updated or removed, a block   *)
(* flag is set or cleared, TransferFunds moves the amount from one wallet  *)
(* to another, and AddBounty records [target, placer, amount].  Standings  *)
(* arrive as PyInt or PyFloat; only their value is kept.  A row holds its *)
(* standing only: the inWatchlist flag AddContact writes is read by no    *)
(* handler here and no property.                                          *)
(***************************************************************************)
EXTENDS Integers, FiniteSets, FiniteSetsExt, Bags, BagsExt

CONSTANTS
    Chars,          \* characters calling the service (and their contacts)
    Standings,      \* standing / relationshipID values the client sends
    Amounts,        \* bounty amounts the client sends (a PyInt: any sign)
    StartBalance,   \* each character's wallet balance at the start
    MaxBounties     \* bound on AddBounty rows

corpCONCORD == 1000125
NoContact == [none |-> TRUE]

VARIABLES
    contacts,   \* <<ownerID, contactID>> -> [standing] or NoContact
    blocked,    \* set of <<ownerID, blockedID>>
    balance,    \* wallet of every character and of CONCORD
    bounties,   \* bag of [target, placer, amount]
    req         \* history: the last call, its caller and its arguments

vars == << contacts, blocked, balance, bounties, req >>

Wallets == Chars \cup {corpCONCORD}

Init ==
    /\ contacts = [k \in Chars \X Chars |-> NoContact]
    /\ blocked = {}
    /\ balance = [w \in Wallets |-> IF w = corpCONCORD THEN 0 ELSE StartBalance]
    /\ bounties = EmptyBag
    /\ req = [call |-> "none", char |-> CHOOSE c \in Chars : TRUE]

-----------------------------------------------------------------------------
\* m_db.UpdateContact(standing, charID, ownerID): the row's standing, if the
\* row exists.
UpdateContact(f, standing, charID, ownerID) ==
    IF f[<< ownerID, charID >>] = NoContact THEN f
    ELSE [f EXCEPT ![<< ownerID, charID >>].standing = standing]

\* Both AddContact overloads: m_db.AddContact(ownerID, charID, standing,
\* inWatchlist); notify and note are not used.
AddContact ==
    \E c \in Chars, t \in Chars, s \in Standings :
        /\ contacts' = [contacts EXCEPT ![<< c, t >>] = [standing |-> s]]
        /\ req' = [call |-> "contacts", char |-> c]
        /\ UNCHANGED << blocked, balance, bounties >>

\* Seeded bug: UpdateContact given (ownerID, charID) in AddContact's order.
EditContactSwapped ==
    \E c \in Chars, t \in Chars, s \in Standings :
        /\ contacts' = UpdateContact(contacts, s, c, t)
        /\ req' = [call |-> "contacts", char |-> c]
        /\ UNCHANGED << blocked, balance, bounties >>

\* Both EditContact overloads: only the standing is passed on; inWatchlist,
\* notify and note are dropped.
EditContact ==
    \E c \in Chars, t \in Chars, s \in Standings :
        /\ contacts' = UpdateContact(contacts, s, t, c)
        /\ req' = [call |-> "contacts", char |-> c]
        /\ UNCHANGED << blocked, balance, bounties >>

\* DeleteContacts(contactIDs): m_db.RemoveContact(id, ownerID) for each.
DeleteContacts ==
    \E c \in Chars, ids \in SUBSET Chars :
        /\ contacts' = [k \in DOMAIN contacts |->
                           IF k[1] = c /\ k[2] \in ids THEN NoContact ELSE contacts[k]]
        /\ req' = [call |-> "contacts", char |-> c]
        /\ UNCHANGED << blocked, balance, bounties >>

\* BlockOwners(ownerIDs): m_db.SetBlockContact(id, ownerID, true) for each.
BlockOwners ==
    \E c \in Chars, ids \in SUBSET Chars :
        /\ blocked' = blocked \cup {<< c, i >> : i \in ids}
        /\ req' = [call |-> "contacts", char |-> c]
        /\ UNCHANGED << contacts, balance, bounties >>

\* UnblockOwners(ownerIDs): m_db.SetBlockContact(id, ownerID, false) for each.
UnblockOwners ==
    \E c \in Chars, ids \in SUBSET Chars :
        /\ blocked' = blocked \ {<< c, i >> : i \in ids}
        /\ req' = [call |-> "contacts", char |-> c]
        /\ UNCHANGED << contacts, balance, bounties >>

\* EditContactsRelationshipID(contactIDs, relationshipID): UpdateContact
\* with the relationshipID as the standing, for each ID.
EditContactsRelationshipID ==
    \E c \in Chars, ids \in SUBSET Chars, rel \in Standings :
        /\ contacts' = [k \in DOMAIN contacts |->
                           IF k[1] = c /\ k[2] \in ids
                           THEN UpdateContact(contacts, rel, k[2], c)[k] ELSE contacts[k]]
        /\ req' = [call |-> "contacts", char |-> c]
        /\ UNCHANGED << blocked, balance, bounties >>

(***************************************************************************)
(* AddToBounty(characterID, amount): refused for oneself; when amount is   *)
(* below the caller's balance, TransferFunds(caller -> CONCORD, amount)    *)
(* then m_db.AddBounty(characterID, caller, amount); otherwise the        *)
(* NotEnoughMoney UserError.                                               *)
(***************************************************************************)
\* Seeded bug: m_db.AddBounty given (caller, characterID).
AddBountySwapped(target, placer, amount) ==
    bounties (+) SetToBag({[target |-> placer, placer |-> target, amount |-> amount]})

AddBounty(target, placer, amount) ==
    bounties (+) SetToBag({[target |-> target, placer |-> placer, amount |-> amount]})

\* Seeded bug: the balance test left out.
AddToBountyUnchecked ==
    /\ BagCardinality(bounties) < MaxBounties
    /\ \E c \in Chars, t \in Chars, amount \in Amounts :
        /\ IF c # t
           THEN /\ balance' = [balance EXCEPT ![c] = @ - amount,
                                              ![corpCONCORD] = @ + amount]
                /\ bounties' = AddBounty(t, c, amount)
           ELSE UNCHANGED << balance, bounties >>
        /\ req' = [call |-> "bounty", char |-> c, target |-> t, amount |-> amount]
        /\ UNCHANGED << contacts, blocked >>

AddToBounty ==
    /\ BagCardinality(bounties) < MaxBounties
    /\ \E c \in Chars, t \in Chars, amount \in Amounts :
        /\ IF c # t /\ amount < balance[c]
           THEN /\ balance' = [balance EXCEPT ![c] = @ - amount,
                                              ![corpCONCORD] = @ + amount]
                /\ bounties' = AddBounty(t, c, amount)
           ELSE UNCHANGED << balance, bounties >>
        /\ req' = [call |-> "bounty", char |-> c, target |-> t, amount |-> amount]
        /\ UNCHANGED << contacts, blocked >>

Next ==
    \/ AddContact \/ EditContact \/ DeleteContacts \/ BlockOwners \/ UnblockOwners
    \/ EditContactsRelationshipID \/ AddToBounty

Spec == Init /\ [][Next]_vars

-----------------------------------------------------------------------------
(***************************************************************************)
(* Type invariant: contact rows, block pairs, bounty rows, and wallets,    *)
(* a character's never overdrawn by AddToBounty.                          *)
(***************************************************************************)
TypeOK ==
    /\ contacts \in [Chars \X Chars ->
                      [standing : Standings] \cup {NoContact}]
    /\ blocked \subseteq Chars \X Chars
    /\ balance \in [Wallets -> Int]
    /\ \A c \in Chars : balance[c] \in Nat
    /\ IsABag(bounties)
    /\ BagToSet(bounties) \subseteq [target : Chars, placer : Chars, amount : Amounts]

\* The sum of the amounts of the bounty rows satisfying P.
BountySum(P(_)) ==
    LET rows == {b \in BagToSet(bounties) : P(b)}
    IN  FoldSet(LAMBDA b, acc : acc + b.amount * CopiesIn(b, bounties), 0, rows)

(***************************************************************************)
(* Every contact handler acts on the caller's own list only: a step of    *)
(* AddContact, EditContact, DeleteContacts, BlockOwners, UnblockOwners or *)
(* EditContactsRelationshipID changes no contact row and no block pair    *)
(* owned by another character.  UpdateContact takes (standing, charID,    *)
(* ownerID), the reverse of AddContact's (ownerID, charID).                *)
(***************************************************************************)
OwnContactsOnly ==
    [][ req'.call = "contacts" =>
          \A k \in Chars \X Chars :
              (contacts'[k] # contacts[k] \/ (k \in blocked') # (k \in blocked))
                  => k[1] = req'.char
      ]_vars

(***************************************************************************)
(* Every bounty is paid for by the character it names as placer: each     *)
(* character's wallet is its starting balance less the bounties it placed, *)
(* and CONCORD's wallet holds the sum of all bounties.  TransferFunds and  *)
(* AddBounty in AddToBounty must name the same payer.                      *)
(***************************************************************************)
BountiesPaidFor ==
    /\ \A c \in Chars : balance[c] = StartBalance - BountySum(LAMBDA b : b.placer = c)
    /\ balance[corpCONCORD] = BountySum(LAMBDA b : TRUE)

(***************************************************************************)
(* A bounty placed on a character raises the price on its head: every     *)
(* stored bounty amount is positive.  AddToBounty checks only that the     *)
(* amount is below the caller's balance.                                   *)
(***************************************************************************)
BountiesPositive ==
    \A b \in BagToSet(bounties) : b.amount > 0

=============================================================================
