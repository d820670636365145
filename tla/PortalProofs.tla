----------------------------- MODULE PortalProofs -----------------------------
(***************************************************************************)
(* Proofs about the mail portal: accounts, mail and keys, for any accounts *)
(* and mails and any number of requests and troubles.                      *)
(*                                                                         *)
(* Accounts.  Neither property is inductive.  A deletion holds because the *)
(* list of deleted users and its file agree and name exactly the accounts  *)
(* whose last decision was deletion.  A suspension holds because the row   *)
(* has it; it is undone only with the row, by requests that also delete    *)
(* the account, except for the master administrator, whose row can be      *)
(* deleted alone: nobody can suspend that account.                         *)
(***************************************************************************)
EXTENDS UserStore, MailStore, KeyStore, TLAPS

AccountInv ==
  /\ UserTypeOK
  /\ \A e \in Emails : standing[e] = "deleted" <=> e \in gone
  /\ \A e \in Emails : standing[e] = "suspended" => row[e].hash /\ row[e].status = "suspended"
  /\ standing[Master] # "suspended"

-----------------------------------------------------------------------------
(* Facts about records and lookups *)

LEMMA RecordTypes ==
  /\ NoAccount.hash = FALSE /\ NoAccount \notin Account
  /\ TokenAccount \in Account /\ TokenAccount # NoAccount
  /\ \A role \in {"admin", "user"} : Fresh(role) \in Account
  /\ \A e \in DOMAIN Builtin : e \in Emails /\ BuiltinAccount(e) \in Account
  /\ Master \in Emails
BY UserAssumption DEF NoAccount, Account, TokenAccount, Fresh, BuiltinAccount

\* What is found somewhere is an account.
LEMMA FoundTypes ==
  ASSUME UserTypeOK, NEW e \in Emails, NEW token \in BOOLEAN
  PROVE  /\ Elsewhere(e, token) # "nowhere" =>
              AccountAt(Elsewhere(e, token), e) \in Account
         /\ Source(e, token) # "nowhere" => Found(e, token) \in Account
<1>1. ASSUME Elsewhere(e, token) # "nowhere"
      PROVE  AccountAt(Elsewhere(e, token), e) \in Account
  <2>1. CASE mem[e] # NoAccount
    BY <2>1, RecordTypes DEF Elsewhere, AccountAt, UserTypeOK
  <2>2. CASE mem[e] = NoAccount /\ tmp[e] # NoAccount
    BY <2>2, RecordTypes DEF Elsewhere, AccountAt, UserTypeOK
  <2>3. CASE mem[e] = NoAccount /\ tmp[e] = NoAccount
    BY <2>3, <1>1, RecordTypes DEF Elsewhere, AccountAt
  <2>4. QED
    BY <2>1, <2>2, <2>3
<1>2. ASSUME Source(e, token) # "nowhere" PROVE Found(e, token) \in Account
  <2>1. CASE RowAnswers(e)
    <3>1. row[e] \in Account
      BY <2>1, RecordTypes DEF RowAnswers, UserTypeOK
    <3>2. Source(e, token) = "database"
      BY <1>2, <2>1 DEF Source
    <3>3. QED
      BY <3>1, <3>2 DEF Found, AccountAt
  <2>2. CASE ~RowAnswers(e)
    BY <1>2, <1>1, <2>2 DEF Source, Found
  <2>3. QED
    BY <2>1, <2>2
<1>3. QED
  BY <1>1, <1>2

\* What a lookup leaves behind has its type.
LEMMA LookupTypes ==
  ASSUME UserTypeOK, NEW e \in Emails, NEW token \in BOOLEAN
  PROVE  /\ MemoryAfterLookup(e, token) \in [Emails -> Account \cup {NoAccount}]
         /\ FileAfterLookup(e, token) \in [Emails -> Account \cup {NoAccount}]
<1>1. Source(e, token) \in {"file", "cookie"} => Found(e, token) \in Account
  BY FoundTypes
<1>2. QED
  BY <1>1, RecordTypes DEF MemoryAfterLookup, FileAfterLookup, UserTypeOK

\* A change makes an account of an account.
LEMMA ChangedTypes ==
  ASSUME NEW c \in Change, NEW r \in Account
  PROVE  /\ Changed(c, r) \in Account
         /\ Changed(c, r).hash = r.hash
         /\ c.field = "role" => Changed(c, r).status = r.status
         /\ c.field = "status" => Changed(c, r).status = c.value
<1>1. CASE c.field = "role"
  <2>1. Changed(c, r) = [r EXCEPT !["role"] = c.value]
    BY <1>1 DEF Changed
  <2>2. c.value \in {"admin", "user"}
    BY <1>1 DEF Change
  <2>3. QED
    BY <1>1, <2>1, <2>2 DEF Account
<1>2. CASE c.field = "status"
  <2>1. Changed(c, r) = [r EXCEPT !["status"] = c.value]
    BY <1>2 DEF Changed
  <2>2. c.value \in {"active", "suspended"}
    BY <1>2 DEF Change
  <2>3. QED
    BY <1>2, <2>1, <2>2 DEF Account
<1>3. QED
  BY <1>1, <1>2 DEF Change

-----------------------------------------------------------------------------
(* The steps *)

LEMMA AccountsInitial == UserInit => AccountInv
<1> SUFFICES ASSUME UserInit PROVE AccountInv
  OBVIOUS
<1>1. mem \in [Emails -> Account \cup {NoAccount}]
  BY RecordTypes DEF UserInit, MemoryAtStart
<1>2. row \in [Emails -> Account \cup {NoAccount}] /\ tmp = row
  BY DEF UserInit
<1>3. change \in [Emails -> Change \cup {NoChange}]
  BY DEF UserInit
<1>4. QED
  BY <1>1, <1>2, <1>3, RecordTypes DEF UserInit, AccountInv, UserTypeOK

LEMMA SignInStep ==
  ASSUME AccountInv, NEW e \in Emails, NEW token \in BOOLEAN,
         SignIn(e, token) \/ Refuse(e, token)
  PROVE  AccountInv'
<1>1. /\ mem' \in [Emails -> Account \cup {NoAccount}]
      /\ tmp' \in [Emails -> Account \cup {NoAccount}]
  BY LookupTypes DEF AccountInv, SignIn, Refuse
<1>2. UNCHANGED <<row, gone, goneFile, cookie, change, standing>>
  BY DEF SignIn, Refuse
<1>3. QED
  BY <1>1, <1>2 DEF AccountInv, UserTypeOK

LEMMA RegisterStep ==
  ASSUME AccountInv, NEW e \in Emails, NEW token \in BOOLEAN, Register(e, token)
  PROVE  AccountInv'
<1>1. Fresh("user") \in Account
  BY RecordTypes
<1>2. /\ row' \in [Emails -> Account \cup {NoAccount}]
      /\ mem' \in [Emails -> Account \cup {NoAccount}]
      /\ tmp' \in [Emails -> Account \cup {NoAccount}]
  BY <1>1 DEF AccountInv, UserTypeOK, Register
<1>3. \A x \in Emails : x # e => row'[x] = row[x] /\ standing'[x] = standing[x]
  BY DEF AccountInv, UserTypeOK, Register
<1>4. standing'[e] = "free"
  BY DEF AccountInv, UserTypeOK, Register
<1>5. UserTypeOK'
  BY <1>2 DEF AccountInv, UserTypeOK, Register
<1>6. QED
  BY <1>3, <1>4, <1>5, RecordTypes DEF AccountInv, Register

LEMMA SendMailStep ==
  ASSUME AccountInv, NEW e \in Emails, NEW to \in Emails, SendMail(e, to)
  PROVE  AccountInv'
<1>1. \A x \in Emails : MemoryAfterLookup(x, FALSE)[x] \in Account \cup {NoAccount}
  BY LookupTypes DEF AccountInv
<1>2. mem' \in [Emails -> Account \cup {NoAccount}]
  BY <1>1 DEF AccountInv, UserTypeOK, SendMail
<1>3. row' \in [Emails -> Account \cup {NoAccount}]
  BY RecordTypes DEF AccountInv, UserTypeOK, SendMail
<1>4. \A x \in Emails : row[x].hash => row'[x] = row[x]
  BY RecordTypes DEF AccountInv, UserTypeOK, SendMail
<1>5. QED
  BY <1>2, <1>3, <1>4 DEF AccountInv, UserTypeOK, SendMail

LEMMA AskStep ==
  ASSUME AccountInv, NEW a \in Emails, NEW e \in Emails,
         NEW field \in {"role", "status"},
         NEW value \in {"admin", "user", "active", "suspended"},
         field = "role" => value \in {"admin", "user"},
         field = "status" => value \in {"active", "suspended"},
         AskChange(a, e, field, value)
  PROVE  AccountInv'
<1> DEFINE c == [phase |-> "asked", email |-> e, field |-> field, value |-> value,
                 record |-> IF RowAnswers(e) THEN row[e] ELSE NoAccount]
<1>1. e = Master => value # "suspended"
  BY DEF AskChange, MayChange
<1>2. c \in Change
  BY <1>1 DEF Change, AccountInv, UserTypeOK
<1>3. change' = [change EXCEPT ![a] = c]
  BY DEF AskChange
<1>4. UNCHANGED <<stores, standing>>
  BY DEF AskChange
<1> HIDE DEF c
<1>5. change' \in [Emails -> Change \cup {NoChange}]
  BY <1>2, <1>3 DEF AccountInv, UserTypeOK
<1>6. QED
  BY <1>4, <1>5 DEF AccountInv, UserTypeOK, stores

\* A change that has begun is one.
LEMMA ChangeBegun ==
  ASSUME UserTypeOK, NEW a \in Emails, change[a].phase \in {"asked", "applied"}
  PROVE  change[a] \in Change
<1>1. change[a] \in Change \cup {NoChange}
  BY DEF UserTypeOK
<1>2. NoChange.phase = "idle"
  BY DEF NoChange
<1>3. QED
  BY <1>1, <1>2

\* The record that a change puts in memory and file is an account.
LEMMA ApplyStep ==
  ASSUME AccountInv, NEW a \in Emails, ApplyChange(a)
  PROVE  AccountInv'
<1> DEFINE c == change[a]
           place == Elsewhere(c.email, FALSE)
           old == IF c.record # NoAccount THEN c.record ELSE AccountAt(place, c.email)
           found == c.record # NoAccount \/ place # "nowhere"
           new == Changed(c, old)
           f == [phase |-> "applied", email |-> c.email, field |-> c.field,
                 value |-> c.value, record |-> new]
<1>1. c \in Change
  BY ChangeBegun DEF AccountInv, ApplyChange
<1>2. c.email \in Emails /\ c.record \in Account \cup {NoAccount}
  BY <1>1 DEF Change
<1>3. ASSUME found PROVE old \in Account
  BY <1>2, <1>3, FoundTypes DEF AccountInv
<1>4. ASSUME found PROVE new \in Account
  BY <1>1, <1>3, <1>4, ChangedTypes
<1>5. /\ change' = [change EXCEPT ![a] = IF found THEN f ELSE NoChange]
      /\ mem' = IF found THEN [mem EXCEPT ![c.email] = new] ELSE mem
      /\ tmp' = IF found THEN [tmp EXCEPT ![c.email] = new] ELSE tmp
      /\ UNCHANGED <<row, gone, goneFile, cookie, standing>>
  BY DEF ApplyChange
<1> HIDE DEF new, old, found
<1>6. ASSUME found PROVE f \in Change
  <2>1. new \in Account /\ new # NoAccount
    BY <1>4, <1>6, RecordTypes
  <2>2. QED
    BY <1>1, <2>1 DEF Change
<1> HIDE DEF f, c
<1>7. change' \in [Emails -> Change \cup {NoChange}]
  BY <1>5, <1>6 DEF AccountInv, UserTypeOK
<1>8. /\ mem' \in [Emails -> Account \cup {NoAccount}]
      /\ tmp' \in [Emails -> Account \cup {NoAccount}]
  BY <1>2, <1>4, <1>5 DEF AccountInv, UserTypeOK
<1>9. QED
  BY <1>5, <1>7, <1>8 DEF AccountInv, UserTypeOK

\* The field of a row; a suspension of the account is overwritten only by a
\* later decision, and decided only when the row has it.
LEMMA StoreStep ==
  ASSUME AccountInv, NEW a \in Emails, StoreChange(a)
  PROVE  AccountInv'
<1> DEFINE c == change[a]
           e == c.email
           stored == HasRow(e)
           new == Changed(c, row[e])
<1>1. c \in Change
  BY ChangeBegun DEF AccountInv, StoreChange
<1>2. e \in Emails /\ c.field \in {"role", "status"}
      /\ (c.field = "status" => c.value \in {"active", "suspended"})
      /\ (e = Master => c.value # "suspended")
  BY <1>1 DEF Change
<1>3. ASSUME stored
      PROVE  /\ new \in Account /\ new.hash = row[e].hash
             /\ c.field = "role" => new.status = row[e].status
             /\ c.field = "status" => new.status = c.value
  <2>1. row[e] \in Account
    BY <1>2, <1>3 DEF HasRow, AccountInv, UserTypeOK
  <2>2. QED
    BY <1>1, <2>1, ChangedTypes
<1>4. /\ row' = IF stored THEN [row EXCEPT ![e] = new] ELSE row
      /\ change' = [change EXCEPT ![a] = NoChange]
      /\ standing' =
           IF c.field = "role" \/ standing[e] = "deleted" THEN standing
           ELSE [standing EXCEPT ![e] =
                   CASE c.value = "active" -> "free"
                     [] c.value = "suspended" ->
                          IF stored /\ row[e].hash THEN "suspended" ELSE "suspended here"]
      /\ UNCHANGED <<mem, tmp, gone, goneFile, cookie>>
  BY DEF StoreChange, RowChanged
<1> HIDE DEF new, stored, c
<1>5. row' \in [Emails -> Account \cup {NoAccount}]
  BY <1>2, <1>3, <1>4 DEF AccountInv, UserTypeOK
<1>6. change' \in [Emails -> Change \cup {NoChange}]
  BY <1>4 DEF AccountInv, UserTypeOK
<1>7. CASE c.field = "role" \/ standing[e] = "deleted"
  <2>1. standing' = standing
    BY <1>4, <1>7
  <2>2. \A x \in Emails : standing[x] = "suspended" =>
          row'[x].hash /\ row'[x].status = "suspended"
    BY <1>2, <1>3, <1>4, <1>7 DEF AccountInv, UserTypeOK
  <2>3. QED
    BY <1>4, <1>5, <1>6, <2>1, <2>2 DEF AccountInv, UserTypeOK
<1>8. CASE c.field = "status" /\ standing[e] # "deleted"
  <2>1. \A x \in Emails : x # e => standing'[x] = standing[x] /\ row'[x] = row[x]
    BY <1>2, <1>4, <1>8 DEF AccountInv, UserTypeOK
  <2>2. standing'[e] \in {"free", "suspended", "suspended here"}
    BY <1>2, <1>4, <1>8 DEF AccountInv, UserTypeOK
  <2>3. standing' \in [Emails -> {"free", "suspended", "suspended here", "deleted"}]
    BY <1>2, <1>4, <1>8 DEF AccountInv, UserTypeOK
  <2>4. standing'[e] = "suspended" =>
          c.value = "suspended" /\ row'[e].hash /\ row'[e].status = "suspended"
    BY <1>2, <1>3, <1>4, <1>8 DEF AccountInv, UserTypeOK
  <2>5. \A x \in Emails : standing'[x] = "deleted" <=> x \in gone'
    <3>1. e \notin gone /\ gone' = gone
      BY <1>2, <1>4, <1>8 DEF AccountInv
    <3>2. QED
      BY <2>1, <2>2, <3>1 DEF AccountInv
  <2>6. standing'[Master] # "suspended"
    BY <1>2, <2>1, <2>4, RecordTypes DEF AccountInv
  <2>7. \A x \in Emails : standing'[x] = "suspended" =>
          row'[x].hash /\ row'[x].status = "suspended"
    BY <2>1, <2>4 DEF AccountInv
  <2>8. UserTypeOK'
    BY <1>4, <1>5, <1>6, <2>3 DEF AccountInv, UserTypeOK
  <2>9. QED
    BY <2>5, <2>6, <2>7, <2>8 DEF AccountInv
<1>9. QED
  BY <1>2, <1>7, <1>8

\* Rows that are deleted leave no other row changed.
LEMMA RowsWithoutTypes ==
  ASSUME UserTypeOK, NEW S
  PROVE  /\ RowsWithout(S) \in [Emails -> Account \cup {NoAccount}]
         /\ \A x \in Emails : x \notin S \/ ~up => RowsWithout(S)[x] = row[x]
BY DEF RowsWithout, UserTypeOK

LEMMA WithoutTypes ==
  ASSUME NEW S, NEW store \in [Emails -> Account \cup {NoAccount}]
  PROVE  Without(store, S) \in [Emails -> Account \cup {NoAccount}]
BY DEF Without

LEMMA DeleteStep ==
  ASSUME AccountInv, NEW a \in Emails, NEW e \in Emails, DeleteUser(a, e)
  PROVE  AccountInv'
<1> DEFINE S == {e} \cap {x \in Emails : row[x] # NoAccount}
<1>1. row' = RowsWithout(S)
  BY DEF DeleteUser
<1>2. /\ row' \in [Emails -> Account \cup {NoAccount}]
      /\ \A x \in Emails : x # e => row'[x] = row[x]
  BY <1>1, RowsWithoutTypes DEF AccountInv
<1>3. /\ mem' \in [Emails -> Account \cup {NoAccount}]
      /\ tmp' \in [Emails -> Account \cup {NoAccount}]
  BY WithoutTypes DEF DeleteUser, AccountInv, UserTypeOK
<1>4. standing' \in [Emails -> {"free", "suspended", "suspended here", "deleted"}]
  BY DEF DeleteUser, Decided, AccountInv, UserTypeOK
<1>5. /\ standing'[e] = "deleted"
      /\ \A x \in Emails : x # e => standing'[x] = standing[x]
  BY DEF DeleteUser, Decided
<1>6. /\ gone' = gone \cup {e} /\ goneFile' = gone'
      /\ UNCHANGED <<cookie, change>>
  BY DEF DeleteUser
<1>7. QED
  BY <1>2, <1>3, <1>4, <1>5, <1>6, RecordTypes DEF AccountInv, UserTypeOK

\* Whoever loses the row is deleted, but for those who cannot be suspended.
LEMMA ResetStep ==
  ASSUME AccountInv, NEW a \in Emails, NEW purge \in BOOLEAN, ResetAll(a, purge)
  PROVE  AccountInv'
<1> DEFINE spared == IF purge THEN {} ELSE {a, Master}
           victims == (Listed \ spared) \cup (IF purge THEN DOMAIN Builtin ELSE {})
           rows == {x \in Emails : row[x] # NoAccount} \ (IF purge THEN {} ELSE {a})
<1>1. /\ gone' = gone \cup victims /\ goneFile' = gone'
      /\ mem' = Without(mem, victims) /\ tmp' = Without(tmp, Emails)
      /\ row' = RowsWithout(rows)
      /\ standing' = Decided(victims, "deleted")
      /\ UNCHANGED <<cookie, change>>
  BY DEF ResetAll
<1>2. victims \subseteq Emails
  BY UserAssumption DEF Listed
<1>3. \A x \in Emails : row[x] # NoAccount /\ up =>
        x \in victims \/ x \in gone \/ x = Master \/ (x = a /\ ~purge)
  BY DEF Listed
<1>4. \A x \in Emails : row'[x] = row[x] \/ x \in victims \/ x \in gone \/ x = Master
  <2> SUFFICES ASSUME NEW x \in Emails, row'[x] # row[x]
               PROVE  x \in victims \/ x \in gone \/ x = Master
    OBVIOUS
  <2>1. x \in rows /\ up
    BY <1>1, RowsWithoutTypes DEF AccountInv
  <2>2. QED
    BY <1>3, <2>1
<1> HIDE DEF victims, rows
<1>5. \A x \in Emails : standing'[x] = IF x \in victims THEN "deleted" ELSE standing[x]
  BY <1>1 DEF Decided
<1>6. standing' \in [Emails -> {"free", "suspended", "suspended here", "deleted"}]
  BY <1>1 DEF Decided, AccountInv, UserTypeOK
<1>7. /\ row' \in [Emails -> Account \cup {NoAccount}]
      /\ mem' \in [Emails -> Account \cup {NoAccount}]
      /\ tmp' \in [Emails -> Account \cup {NoAccount}]
  BY <1>1, WithoutTypes, RowsWithoutTypes DEF AccountInv, UserTypeOK
<1>8. UserTypeOK'
  BY <1>1, <1>2, <1>6, <1>7 DEF AccountInv, UserTypeOK
<1>9. QED
  BY <1>1, <1>2, <1>4, <1>5, <1>8, RecordTypes DEF AccountInv

LEMMA RestoreStep ==
  ASSUME AccountInv, NEW a \in Emails, RestoreDefaults(a)
  PROVE  AccountInv'
<1>1. mem' \in [Emails -> Account \cup {NoAccount}]
  BY RecordTypes DEF RestoreDefaults, AccountInv, UserTypeOK
<1>2. standing' \in [Emails -> {"free", "suspended", "suspended here", "deleted"}]
  BY DEF RestoreDefaults, Decided, AccountInv, UserTypeOK
<1>3. \A x \in Emails : standing'[x] = "free" \/ (x \notin gone /\ standing'[x] = standing[x])
  BY DEF RestoreDefaults, Decided
<1>4. gone' = {} /\ goneFile' = {} /\ UNCHANGED <<row, tmp, cookie, change>>
  BY DEF RestoreDefaults
<1>5. QED
  BY <1>1, <1>2, <1>3, <1>4, RecordTypes DEF AccountInv, UserTypeOK

LEMMA TroubleStep ==
  ASSUME AccountInv, Restart \/ DatabaseFails \/ DatabaseReturns
  PROVE  AccountInv'
<1>1. CASE Restart
  <2>1. mem' \in [Emails -> Account \cup {NoAccount}]
    BY <1>1, RecordTypes DEF Restart, MemoryAtStart
  <2>2. change' \in [Emails -> Change \cup {NoChange}]
    BY <1>1 DEF Restart
  <2>3. gone' = gone /\ UNCHANGED <<row, tmp, goneFile, cookie, standing>>
    BY <1>1 DEF Restart, DeletedAtStart, AccountInv, UserTypeOK
  <2>4. QED
    BY <2>1, <2>2, <2>3 DEF AccountInv, UserTypeOK
<1>2. CASE DatabaseFails \/ DatabaseReturns
  BY <1>2 DEF DatabaseFails, DatabaseReturns, stores, AccountInv, UserTypeOK
<1>3. QED
  BY <1>1, <1>2

LEMMA AccountStep == AccountInv /\ [UserNext]_userVars => AccountInv'
<1> SUFFICES ASSUME AccountInv, [UserNext]_userVars PROVE AccountInv'
  OBVIOUS
<1>1. CASE UNCHANGED userVars
  BY <1>1 DEF userVars, AccountInv, UserTypeOK
<1>2. ASSUME NEW a \in Emails, NEW e \in Emails, NEW v \in {"active", "suspended"},
             AskChange(a, e, "status", v)
      PROVE  AccountInv'
  BY <1>2, AskStep
<1>3. ASSUME NEW a \in Emails, NEW e \in Emails, NEW v \in {"admin", "user"},
             AskChange(a, e, "role", v)
      PROVE  AccountInv'
  BY <1>3, AskStep
<1>4. CASE UserNext
  BY <1>2, <1>3, <1>4, SignInStep, RegisterStep, SendMailStep, ApplyStep, StoreStep,
     DeleteStep, ResetStep, RestoreStep, TroubleStep DEF UserNext
<1>5. QED
  BY <1>1, <1>4

-----------------------------------------------------------------------------
(* Results *)

\* Every store holds accounts, and the list of deleted users, its file and
\* the decisions of the administrators agree.
THEOREM AccountsSafe == UserSpec => []AccountInv
BY AccountsInitial, AccountStep, PTL DEF UserSpec

\* A deleted account cannot sign in from any of its four places until it is
\* registered anew or all are restored (deletedUsers of users.ts).
THEOREM DeletionHolds == UserSpec => []DeletedStaysOut
<1>1. AccountInv => DeletedStaysOut
  BY DEF AccountInv, UserTypeOK, DeletedStaysOut, CanSignIn, Found, Source, AccountAt, NoAccount
<1>2. QED
  BY <1>1, AccountsSafe, PTL

\* A suspension that reached a row with a password holds while the database
\* answers (updateUserStatus of users.ts).
THEOREM SuspensionsHold == UserSpec => []SuspensionHolds
<1>1. AccountInv => SuspensionHolds
  <2> SUFFICES ASSUME AccountInv, NEW e \in Emails, NEW token \in BOOLEAN,
                      up, standing[e] = "suspended"
               PROVE  ~CanSignIn(e, token)
    BY DEF SuspensionHolds
  <2>1. row[e].status = "suspended" /\ RowAnswers(e) /\ e \notin gone
    BY DEF AccountInv, UserTypeOK, RowAnswers
  <2>2. Found(e, token) = row[e]
    BY <2>1 DEF Found, Source, AccountAt
  <2>3. QED
    BY <2>1, <2>2 DEF CanSignIn
<1>2. QED
  BY <1>1, AccountsSafe, PTL

-----------------------------------------------------------------------------
(* Mail.  A row of a recipient and what he last did with the mail go       *)
(* together; only a draft leaves the database.                             *)

MailInv ==
  /\ folderOf \in [Mails -> [Users -> Folders \cup {Nowhere}]]
  /\ filed \in [Mails -> [Users -> Folders \cup {Nowhere}]]
  /\ \A m \in Mails, u \in Users : folderOf[m][u] # Nowhere => m \in inDb
  /\ \A m \in Mails, u \in Users : ~Draft(m) /\ filed[m][u] # Nowhere =>
       m \in inDb /\ folderOf[m][u] = filed[m][u]

LEMMA MailSent ==
  ASSUME MailInv, NEW u \in Users, NEW m \in Mails, NEW to \in Recipients,
         NEW draft \in BOOLEAN, Send(u, m, to, draft)
  PROVE  MailInv'
<1> DEFINE rows == [v \in Users |-> IF online /\ v \in to THEN "inbox" ELSE Nowhere]
<1>1. /\ letter' = [letter EXCEPT ![m] = [from |-> u, to |-> to, draft |-> draft]]
      /\ inDb' = IF online THEN inDb \cup {m} ELSE inDb
      /\ folderOf' = [folderOf EXCEPT ![m] = rows]
      /\ filed' = [filed EXCEPT ![m] = folderOf'[m]]
    BY DEF Send
<1>2. /\ rows \in [Users -> Folders \cup {Nowhere}]
      /\ \A v \in Users : rows[v] # Nowhere => online
    BY DEF Folders
<1> HIDE DEF rows
<1>3. /\ folderOf'[m] = rows /\ filed'[m] = rows
      /\ \A n \in Mails : n # m => folderOf'[n] = folderOf[n] /\ filed'[n] = filed[n]
    BY <1>1 DEF MailInv
<1>4. /\ folderOf' \in [Mails -> [Users -> Folders \cup {Nowhere}]]
      /\ filed' \in [Mails -> [Users -> Folders \cup {Nowhere}]]
    BY <1>1, <1>2, <1>3 DEF MailInv
<1>5. ASSUME NEW n \in Mails, NEW v \in Users, ~Draft(n)', filed'[n][v] # Nowhere
      PROVE  n \in inDb' /\ folderOf'[n][v] = filed'[n][v]
  <2>1. CASE n = m
      BY <1>1, <1>2, <1>3, <1>5, <2>1
  <2>2. CASE n # m
    <3>1. ~Draft(n) /\ filed[n][v] # Nowhere
      <4>1. letter'[n] = letter[n]
          BY <1>1, <2>2
      <4> QED BY <1>3, <1>5, <2>2, <4>1 DEF Draft
    <3>2. n \in inDb /\ folderOf[n][v] = filed[n][v]
        BY <3>1 DEF MailInv
    <3> QED BY <1>1, <1>3, <2>2, <3>2
  <2> QED BY <2>1, <2>2
<1>6. ASSUME NEW n \in Mails, NEW v \in Users, folderOf'[n][v] # Nowhere
      PROVE  n \in inDb'
  <2>1. CASE n = m
      BY <1>1, <1>2, <1>3, <1>6, <2>1
  <2>2. CASE n # m
      BY <1>1, <1>3, <1>6, <2>2 DEF MailInv
  <2> QED BY <2>1, <2>2
<1> QED BY <1>4, <1>5, <1>6 DEF MailInv

\* User u puts mail m into folder f, or out of all.
Puts(u, m, f) ==
  /\ folderOf' = Moved(u, m, f)
  /\ filed' = IF folderOf[m][u] # Nowhere /\ online THEN [filed EXCEPT ![m][u] = f] ELSE filed
  /\ UNCHANGED <<letter, inDb>>

LEMMA MailPut ==
  ASSUME MailInv, NEW u \in Users, NEW m \in Mails, NEW f \in Folders \cup {Nowhere},
         Puts(u, m, f)
  PROVE  MailInv'
<1>1. CASE online /\ folderOf[m][u] # Nowhere
  <2>1. /\ folderOf' = [folderOf EXCEPT ![m][u] = f] /\ filed' = [filed EXCEPT ![m][u] = f]
        /\ UNCHANGED <<letter, inDb>>
      BY <1>1 DEF Puts, Moved
  <2>2. \A n \in Mails, v \in Users :
          /\ folderOf'[n][v] = IF n = m /\ v = u THEN f ELSE folderOf[n][v]
          /\ filed'[n][v] = IF n = m /\ v = u THEN f ELSE filed[n][v]
      BY <2>1 DEF MailInv
  <2>3. /\ folderOf' \in [Mails -> [Users -> Folders \cup {Nowhere}]]
        /\ filed' \in [Mails -> [Users -> Folders \cup {Nowhere}]]
      BY <2>1 DEF MailInv
  <2>4. ASSUME NEW n \in Mails, NEW v \in Users, ~Draft(n)', filed'[n][v] # Nowhere
        PROVE  n \in inDb' /\ folderOf'[n][v] = filed'[n][v]
    <3>1. ~Draft(n)
        BY <2>1, <2>4 DEF Draft
    <3>2. CASE ~(n = m /\ v = u)
        BY <2>1, <2>2, <2>4, <3>1, <3>2 DEF MailInv
    <3>3. CASE n = m /\ v = u
      <4>1. m \in inDb
          BY <1>1 DEF MailInv
      <4> QED BY <2>1, <2>2, <3>3, <4>1
    <3> QED BY <3>2, <3>3
  <2>5. \A n \in Mails, v \in Users : folderOf'[n][v] # Nowhere => n \in inDb'
      BY <1>1, <2>1, <2>2 DEF MailInv
  <2> QED BY <2>3, <2>4, <2>5 DEF MailInv
<1>2. CASE ~(online /\ folderOf[m][u] # Nowhere)
  <2>1. UNCHANGED <<letter, inDb, folderOf, filed>>
      BY <1>2 DEF Puts, Moved
  <2> QED BY <2>1 DEF MailInv, Draft
<1> QED BY <1>1, <1>2

LEMMA MailDeleted ==
  ASSUME MailInv, NEW u \in Users, NEW m \in Mails, NEW permanent \in BOOLEAN,
         Delete(u, m, permanent)
  PROVE  MailInv'
<1> DEFINE f == IF permanent THEN Nowhere ELSE "trash"
<1>1. f \in Folders \cup {Nowhere}
    BY DEF Folders
<1>2. CASE ~DraftGoes(u, m, permanent)
  <2>1. Puts(u, m, f)
      BY <1>2 DEF Delete, Puts
  <2> HIDE DEF f
  <2> QED BY <1>1, <2>1, MailPut
<1>3. CASE DraftGoes(u, m, permanent)
  <2>1. /\ folderOf' = [folderOf EXCEPT ![m] = NoFolders] /\ inDb' = inDb \ {m}
        /\ filed' = filed \/ filed' = [filed EXCEPT ![m][u] = f]
        /\ Draft(m) /\ UNCHANGED letter
      BY <1>3 DEF Delete, DraftGoes
  <2> HIDE DEF f
  <2>2. NoFolders \in [Users -> Folders \cup {Nowhere}]
      BY DEF NoFolders
  <2>3. folderOf' \in [Mails -> [Users -> Folders \cup {Nowhere}]]
      BY <2>1, <2>2 DEF MailInv
  <2>4. filed' \in [Mails -> [Users -> Folders \cup {Nowhere}]]
    <3>1. CASE filed' = filed
        BY <3>1 DEF MailInv
    <3>2. CASE filed' = [filed EXCEPT ![m][u] = f]
        BY <1>1, <3>2 DEF MailInv
    <3> QED BY <2>1, <3>1, <3>2
  <2>5. ASSUME NEW n \in Mails, NEW v \in Users, ~Draft(n)', filed'[n][v] # Nowhere
        PROVE  n \in inDb' /\ folderOf'[n][v] = filed'[n][v]
    <3>1. ~Draft(n) /\ n # m
        BY <2>1, <2>5 DEF Draft
    <3>2. folderOf'[n] = folderOf[n] /\ filed'[n] = filed[n]
        BY <2>1, <3>1 DEF MailInv
    <3> QED BY <2>1, <2>5, <3>1, <3>2 DEF MailInv
  <2>6. \A n \in Mails, v \in Users : folderOf'[n][v] # Nowhere => n \in inDb'
    <3>1. folderOf'[m] = NoFolders
        BY <2>1 DEF MailInv
    <3>2. \A n \in Mails : n # m => folderOf'[n] = folderOf[n] /\ (n \in inDb => n \in inDb')
        BY <2>1 DEF MailInv
    <3> QED BY <3>1, <3>2 DEF MailInv, NoFolders
  <2> QED BY <2>3, <2>4, <2>5, <2>6 DEF MailInv
<1> QED BY <1>2, <1>3

LEMMA MailStep == MailInv /\ [MailNext]_mailVars => MailInv'
<1> SUFFICES ASSUME MailInv, [MailNext]_mailVars PROVE MailInv'
    OBVIOUS
<1>1. ASSUME UNCHANGED <<letter, inDb, folderOf, filed>> PROVE MailInv'
    BY <1>1 DEF MailInv, Draft
<1>2. ASSUME NEW u \in Users, NEW m \in Mails, NEW f \in Folders, Move(u, m, f)
      PROVE  MailInv'
  <2>1. Puts(u, m, f)
      BY <1>2 DEF Move, Puts
  <2> QED BY <2>1, MailPut
<1>3. CASE \E u \in Users : List(u)
    BY <1>1, <1>3 DEF List
<1>4. CASE Recycle \/ GoOffline \/ GoOnline
    BY <1>1, <1>4 DEF Recycle, GoOffline, GoOnline
<1>5. CASE UNCHANGED mailVars
    BY <1>1, <1>5 DEF mailVars
<1> QED BY <1>2, <1>3, <1>4, <1>5, MailSent, MailDeleted DEF MailNext

LEMMA MailInitial == MailInit => MailInv
BY DEF MailInit, MailInv, NoFolders

\* A mail that reached the database is listed where its recipient last put it
\* (the routes of api/emails), for any users, mails, moves and mishaps.
THEOREM MailIsFiled == MailSpec => []MailStaysFiled
<1>1. MailInv => MailStaysFiled
  <2> SUFFICES ASSUME MailInv, online, NEW m \in Mails, NEW u \in Users, ~Draft(m),
                      NEW f, f = filed[m][u], f # Nowhere
               PROVE  m \in Listing(u, f)
      BY DEF MailStaysFiled
  <2>1. m \in inDb /\ folderOf[m][u] = f
      BY DEF MailInv
  <2>2. f \in Folders
      BY DEF MailInv
  <2>3. m \in DatabaseListing(u, f)
      BY <2>1, <2>2 DEF DatabaseListing, Folders
  <2> QED BY <2>3 DEF Listing
<1>2. MailInv /\ [MailNext]_mailVars => MailInv'
    BY MailStep
<1> QED BY <1>1, <1>2, MailInitial, PTL DEF MailSpec

-----------------------------------------------------------------------------
(* Keys.  What is verified is what the owner attested; that it is still    *)
(* the key in use is what the warning is about.                            *)

Trust == [print : Prints \cup {Unknown, "none"}, verified : BOOLEAN, flag : BOOLEAN]

KeyInv ==
  /\ key \in [Owners -> [print : Prints \cup {Unknown}, version : Nat]]
  /\ trust \in [Owners -> [Owners -> Trust]]
  /\ attested \in [Owners -> [Owners -> Prints \cup {Unknown}]]
  /\ \A o, p \in Owners : trust[o][p].verified => attested[o][p] = trust[o][p].print

LEMMA NoTrustTypes == NoTrust \in Trust /\ NoTrust.verified = FALSE
BY DEF NoTrust, Trust

LEMMA KeyRegistered ==
  ASSUME KeyInv, NEW u \in Owners, NEW print \in Prints, RegisterPublicKey(u, print)
  PROVE  KeyInv'
<1>1. /\ key' = [key EXCEPT ![u] = [print |-> print, version |-> key[u].version + 1]]
      /\ trust' = Flagged(u, print) \/ trust' = trust
      /\ attested' = attested
    BY DEF RegisterPublicKey
<1>2. key' \in [Owners -> [print : Prints \cup {Unknown}, version : Nat]]
  <2>1. key[u].version + 1 \in Nat
      BY DEF KeyInv
  <2> QED BY <1>1, <2>1 DEF KeyInv
<1>3. CASE trust' = trust
    BY <1>1, <1>2, <1>3 DEF KeyInv
<1>4. CASE trust' = Flagged(u, print)
  <2>1. DOMAIN trust' = Owners
      BY <1>4 DEF Flagged
  <2>2. ASSUME NEW o \in Owners
        PROVE  /\ trust'[o] \in [Owners -> Trust]
               /\ \A p \in Owners : /\ trust'[o][p].print = trust[o][p].print
                                    /\ trust'[o][p].verified = trust[o][p].verified
    <3> SUFFICES ASSUME NEW peers, peers = trust[o], NEW flag \in BOOLEAN,
                        trust'[o] = [peers EXCEPT ![u] = [peers[u] EXCEPT !.flag = flag]]
                 PROVE  /\ trust'[o] \in [Owners -> Trust]
                        /\ \A p \in Owners : /\ trust'[o][p].print = peers[p].print
                                             /\ trust'[o][p].verified = peers[p].verified
      <4> DEFINE flag == \/ trust[o][u].flag
                         \/ trust[o][u].print # "none" /\ trust[o][u].print # print
      <4>1. flag \in BOOLEAN
          BY DEF KeyInv, Trust
      <4>2. trust'[o] = [trust[o] EXCEPT ![u] = [trust[o][u] EXCEPT !.flag = flag]]
          BY <1>4 DEF Flagged
      <4> QED BY <4>1, <4>2
    <3>1. peers \in [Owners -> Trust] /\ peers[u] \in Trust
        BY DEF KeyInv
    <3> DEFINE r == [peers[u] EXCEPT !.flag = flag]
    <3>2. r \in Trust /\ r.print = peers[u].print /\ r.verified = peers[u].verified
        BY <3>1 DEF Trust
    <3>3. trust'[o] = [peers EXCEPT ![u] = r]
        OBVIOUS
    <3> HIDE DEF r
    <3> QED BY <3>1, <3>2, <3>3
  <2>3. trust' = [o \in Owners |-> trust'[o]]
      BY <1>4 DEF Flagged
  <2>4. trust' \in [Owners -> [Owners -> Trust]]
      BY <2>2, <2>3
  <2>5. \A o, p \in Owners : /\ trust'[o][p].print = trust[o][p].print
                             /\ trust'[o][p].verified = trust[o][p].verified
    <3> TAKE o, p \in Owners
    <3>1. /\ trust'[o][p].print = trust[o][p].print
          /\ trust'[o][p].verified = trust[o][p].verified
        BY <2>2
    <3> QED BY <3>1
  <2>6. attested' \in [Owners -> [Owners -> Prints \cup {Unknown}]]
      BY <1>1 DEF KeyInv
  <2>7. ASSUME NEW o \in Owners, NEW p \in Owners, trust'[o][p].verified
        PROVE  attested'[o][p] = trust'[o][p].print
    <3>1. trust[o][p].verified
        BY <2>5, <2>7
    <3>2. attested[o][p] = trust[o][p].print
        BY <3>1 DEF KeyInv
    <3> QED BY <1>1, <2>5, <3>2
  <2> QED BY <1>2, <2>4, <2>6, <2>7 DEF KeyInv
<1> QED BY <1>1, <1>3, <1>4

LEMMA TrustSet ==
  ASSUME KeyInv, NEW o \in Owners, NEW p \in Owners, NEW verified \in BOOLEAN,
         SetPeerTrust(o, p, verified)
  PROVE  KeyInv'
<1> DEFINE t == [print |-> key[p].print, verified |-> verified, flag |-> FALSE]
           a == IF verified THEN key[p].print ELSE Unknown
<1>1. /\ trust' = [trust EXCEPT ![o][p] = t] /\ attested' = [attested EXCEPT ![o][p] = a]
      /\ key' = key
    BY DEF SetPeerTrust
<1>2. /\ t \in Trust /\ a \in Prints \cup {Unknown}
      /\ t.verified => a = t.print
    BY DEF KeyInv, Trust
<1> HIDE DEF t, a
<1>3. /\ trust' \in [Owners -> [Owners -> Trust]]
      /\ attested' \in [Owners -> [Owners -> Prints \cup {Unknown}]]
    BY <1>1, <1>2 DEF KeyInv
<1>4. \A q, r \in Owners :
        /\ trust'[q][r] = IF q = o /\ r = p THEN t ELSE trust[q][r]
        /\ attested'[q][r] = IF q = o /\ r = p THEN a ELSE attested[q][r]
    BY <1>1 DEF KeyInv
<1> QED BY <1>1, <1>2, <1>3, <1>4 DEF KeyInv

LEMMA KeysForgotten ==
  ASSUME key = [u \in Owners |-> [print |-> Unknown, version |-> 0]], trust = NoTrusts,
         attested = [o \in Owners |-> [p \in Owners |-> Unknown]]
  PROVE  KeyInv
BY NoTrustTypes DEF KeyInv, NoTrusts

LEMMA KeyStep == KeyInv /\ [KeyNext]_keyVars => KeyInv'
<1> SUFFICES ASSUME KeyInv, [KeyNext]_keyVars PROVE KeyInv'
    OBVIOUS
<1>1. CASE UNCHANGED keyVars
    BY <1>1 DEF keyVars, KeyInv
<1>2. CASE Forget
  <2>1. \A o, p \in Owners : trust'[o][p] = NoTrust
      BY <1>2 DEF Forget, NoTrusts
  <2>2. trust' \in [Owners -> [Owners -> Trust]]
      BY <1>2, NoTrustTypes DEF Forget, NoTrusts
  <2>3. /\ key' \in [Owners -> [print : Prints \cup {Unknown}, version : Nat]]
        /\ attested' \in [Owners -> [Owners -> Prints \cup {Unknown}]]
      BY <1>2 DEF Forget
  <2> QED BY <2>1, <2>2, <2>3, NoTrustTypes DEF KeyInv
<1> QED BY <1>1, <1>2, KeyRegistered, TrustSet DEF KeyNext

\* A key shown as verified and without warning is the one that the owner last
\* verified (keyStore.ts), for any owners, keys and rotations.
THEOREM VerifiedWasSeen == KeySpec => []VerifiedMeansSeen
<1>1. KeyInv => VerifiedMeansSeen
  <2> SUFFICES ASSUME KeyInv, NEW o \in Owners, NEW p \in Owners,
                      trust[o][p].verified, ~Warns(o, p), Registered(p)
               PROVE  attested[o][p] = key[p].print
      BY DEF VerifiedMeansSeen
  <2>1. trust[o][p] # NoTrust
      BY NoTrustTypes
  <2>2. key[p].print = trust[o][p].print
      BY <2>1 DEF Warns
  <2> QED BY <2>2 DEF KeyInv
<1>2. KeyInit => KeyInv
    BY KeysForgotten DEF KeyInit
<1>3. KeyInv /\ [KeyNext]_keyVars => KeyInv'
    BY KeyStep
<1> QED BY <1>1, <1>2, <1>3, PTL DEF KeySpec
=============================================================================
