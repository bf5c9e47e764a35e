------------------------------ MODULE Directory ------------------------------
(***************************************************************************)
(* Which account of the console stands beside a user of the tailnet: the   *)
(* list of users joins one way (app/(app)/users/page.tsx), a user's own    *)
(* page another (users/[id]/page.tsx).                                     *)
(*                                                                         *)
(* Names and addresses are trimmed and in lower case; Absent is none.      *)
(***************************************************************************)
EXTENDS Naturals, Sequences

CONSTANTS
  PersonName, Mail,
  Absent,       \* an empty name or address
  MaxAccounts   \* BOUND: accounts at a time

ASSUME DirectoryAssumption == Absent \notin PersonName \cup Mail /\ MaxAccounts \in Nat

VARIABLES
  person,    \* a user of the tailnet, as Headscale has it
  accounts   \* the rows of app_user, in the order of the table

directoryVars == <<person, accounts>>

Account == [email : Mail \cup {Absent}, name : PersonName \cup {Absent}]
TailnetUser == [email : Mail \cup {Absent}, displayName : PersonName \cup {Absent}, name : PersonName,
           provider : {"none", "oidc"}]

\* The first account with the property: at most one.
First(Holds(_)) ==
  {k \in DOMAIN accounts : Holds(accounts[k]) /\ \A j \in 1 .. k - 1 : ~Holds(accounts[j])}

-----------------------------------------------------------------------------
(* The list                                                                *)

byEmail(email) == First(LAMBDA a : email # Absent /\ a.email = email)
byName(name) == First(LAMBDA a : name # Absent /\ a.name = name)

\* By address, else by the display name, else by the user name.
matchAccounts ==
  IF byEmail(person.email) # {} THEN byEmail(person.email)
  ELSE IF byName(person.displayName) # {} THEN byName(person.displayName)
  ELSE byName(person.name)

UserSource ==
  IF matchAccounts # {} THEN "SSO"
  ELSE IF person.provider # "none" THEN person.provider ELSE "local"

-----------------------------------------------------------------------------
(* The user's page                                                         *)

\* MUTANT: one pass over the accounts, by address or by name.
matchAccount_OnePass ==
  First(LAMBDA a : \/ person.email # Absent /\ a.email = person.email
                   \/ a.name # Absent /\ a.name \in {person.displayName, person.name})

\* By address, else by either name.
matchAccount ==
  LET mails == First(LAMBDA a : person.email # Absent /\ a.email = person.email)
      names == First(LAMBDA a : a.name # Absent /\ a.name \in {person.displayName, person.name})
  IN IF mails # {} THEN mails ELSE names

\* The chips of its header.
HeaderSource ==
  IF matchAccount # {} THEN "SSO"
  ELSE IF person.provider # "none" THEN person.provider ELSE "local"

\* The readout of its identity card.
UserIdentity ==
  IF matchAccount # {} THEN "SSO"
  ELSE IF person.provider # "none" THEN person.provider ELSE "local"

-----------------------------------------------------------------------------
(* What each shows of the user: a name, the user name beside it when it is *)
(* another, and where the user comes from.                                 *)

displayName == IF person.displayName # Absent THEN person.displayName ELSE person.name
showHandle == person.displayName \notin {Absent, person.name}

Readout(account, source) ==
  [name |-> displayName, handle |-> showHandle, account |-> account, source |-> source]

UserRow == Readout(matchAccounts, UserSource)
UserCard == Readout(matchAccounts, UserSource)
UserHeader == Readout(matchAccount, HeaderSource)

-----------------------------------------------------------------------------
(* Steps                                                                   *)

DirectoryInit == person \in TailnetUser /\ accounts = <<>>

\* A first sign-in; a later one that finds another name or address at the provider; a removal.
SignsIn == /\ Len(accounts) < MaxAccounts
           /\ \E a \in Account : accounts' = Append(accounts, a)
           /\ UNCHANGED person

Renamed == /\ \E k \in DOMAIN accounts, a \in Account : accounts' = [accounts EXCEPT ![k] = a]
           /\ UNCHANGED person

Removed == /\ \E k \in DOMAIN accounts :
                accounts' = SubSeq(accounts, 1, k - 1) \o SubSeq(accounts, k + 1, Len(accounts))
           /\ UNCHANGED person

PersonChanges == person' \in TailnetUser /\ UNCHANGED accounts

DirectoryNext == SignsIn \/ Renamed \/ Removed \/ PersonChanges

DirectorySpec == DirectoryInit /\ [][DirectoryNext]_directoryVars

-----------------------------------------------------------------------------
(* Property                                                                *)

\* Both pages show a user under one name, with one account and one source, unless the user's two
\* names belong to accounts of two persons: then the list goes by the display name, the user's
\* own page by the older account.
SameAccountShown ==
  LET torn == /\ byName(person.displayName) # {} /\ byName(person.name) # {}
              /\ byName(person.displayName) # byName(person.name)
  IN ~torn \/ byEmail(person.email) # {} =>
       UserRow = UserHeader /\ UserCard = UserHeader /\ UserIdentity = UserHeader.source
=============================================================================
