------------------------------- MODULE UserStore -------------------------------
(***************************************************************************)
(* Accounts of the mail portal (frontend/src/lib/users.ts, auth.ts and the *)
(* registration and administration routes): one account lives in up to     *)
(* four places, a database row, the memory of the process, a file and a    *)
(* cookie, which are asked in this order.                                  *)
(*                                                                         *)
(* A request is one action, but for an administrator's change of a status  *)
(* or a role: other requests run while it waits for the row, and again     *)
(* between its whole record going to memory and file and its one field     *)
(* going to the row.  The database may fail and come back, and the process *)
(* may start again; its files stay.  A failed write is ignored everywhere. *)
(* Mail in the database keeps the row of its sender from being deleted.    *)
(*                                                                         *)
(* A record is its role, its status and whether it has a password; officer *)
(* and disabled are left out, being treated as user and suspended.  Bounds:*)
(* MaxRequests that change accounts, MaxTroubles failures and restarts.    *)
(***************************************************************************)
EXTENDS Naturals, FiniteSets

CONSTANTS
  Emails,
  Builtin,       \* built-in accounts and their roles
  Master,        \* the master administrator
  MaxRequests, MaxTroubles

ASSUME UserAssumption ==
  /\ DOMAIN Builtin \subseteq Emails /\ Master \in DOMAIN Builtin
  /\ Builtin \in [DOMAIN Builtin -> {"admin", "user"}] /\ Builtin[Master] = "admin"
  /\ {MaxRequests, MaxTroubles} \subseteq Nat

Account == [role : {"admin", "user"}, status : {"active", "suspended"}, hash : BOOLEAN]
NoAccount == [role |-> "none", status |-> "none", hash |-> FALSE]

VARIABLES
  row,       \* users in the database
  mem,       \* inMemoryUsers
  tmp,       \* the file of users
  gone,      \* deletedUsers
  goneFile,  \* the file of deleted users
  cookie,    \* browsers with a garuda_usr_reg token: of a user without password
  up,        \* the database answers
  wrote,     \* users with sent mail in the database
  signedIn,  \* roles in the tokens of signed-in users
  change,    \* per administrator, the change between its read and its write
  standing,  \* history: what administrators last decided of an account
  spent      \* requests and troubles so far

userVars == <<row, mem, tmp, gone, goneFile, cookie, up, wrote, signedIn, change,
              standing, spent>>

stores == <<row, mem, tmp, gone, goneFile, cookie>>

Fresh(role) == [role |-> role, status |-> "active", hash |-> TRUE]
BuiltinAccount(e) == Fresh(Builtin[e])
NoChange == [phase |-> "idle"]

\* A change being made; of the master administrator only to what it is.
Change ==
  {c \in [phase : {"asked", "applied"}, email : Emails, field : {"role", "status"},
          value : {"admin", "user", "active", "suspended"},
          record : Account \cup {NoAccount}] :
     /\ c.field = "role" => c.value \in {"admin", "user"}
     /\ c.field = "status" => c.value \in {"active", "suspended"}
     /\ c.email = Master => c.value # "suspended"
     /\ c.phase = "applied" => c.record # NoAccount}

\* Mutant: the list of deleted users is kept in memory only.
DeletedAtStartNone == {}

DeletedAtStart == goneFile

MemoryAtStart(deleted) ==
  [e \in Emails |-> IF e \in DOMAIN Builtin \ deleted THEN BuiltinAccount(e) ELSE NoAccount]

UserInit ==
  /\ row = [e \in Emails |-> NoAccount] /\ tmp = row
  /\ mem = MemoryAtStart({})
  /\ gone = {} /\ goneFile = {} /\ cookie = {}
  /\ up = TRUE /\ wrote = {}
  /\ signedIn = [e \in Emails |-> "none"]
  /\ change = [e \in Emails |-> NoChange]
  /\ standing = [e \in Emails |-> "free"]
  /\ spent = [requests |-> 0, troubles |-> 0]

-----------------------------------------------------------------------------
(* Lookup *)

\* Where findUserByEmail looks when the database had no answer, for a request
\* with or without the token of the account.
Elsewhere(e, token) ==
  CASE mem[e] # NoAccount -> "memory"
    [] mem[e] = NoAccount /\ tmp[e] # NoAccount -> "file"
    [] OTHER -> IF token /\ e \in cookie THEN "cookie"
                ELSE IF e \in DOMAIN Builtin THEN "builtin" ELSE "nowhere"

RowAnswers(e) == up /\ row[e].hash

Source(e, token) ==
  IF e \in gone THEN "nowhere" ELSE IF RowAnswers(e) THEN "database" ELSE Elsewhere(e, token)

TokenAccount == [role |-> "user", status |-> "active", hash |-> FALSE]

AccountAt(source, e) ==
  CASE source = "database" -> row[e]
    [] source = "memory" -> mem[e]
    [] source = "file" -> tmp[e]
    [] source = "cookie" -> TokenAccount
    [] source = "builtin" -> BuiltinAccount(e)
    [] source = "nowhere" -> NoAccount

Found(e, token) == AccountAt(Source(e, token), e)

\* What the lookup leaves behind: the file is copied to memory, the token to
\* both.
MemoryAfterLookup(e, token) ==
  IF Source(e, token) \in {"file", "cookie"} THEN [mem EXCEPT ![e] = Found(e, token)] ELSE mem

FileAfterLookup(e, token) ==
  IF Source(e, token) = "cookie" THEN [tmp EXCEPT ![e] = TokenAccount] ELSE tmp

CanSignIn(e, token) == Found(e, token).hash /\ Found(e, token).status = "active"

-----------------------------------------------------------------------------
(* Requests of users *)

Request ==
  /\ spent.requests < MaxRequests
  /\ spent' = [spent EXCEPT !.requests = @ + 1]

\* authorize; the role in the token is never looked up again.
SignIn(e, token) ==
  /\ CanSignIn(e, token)
  /\ signedIn' = [signedIn EXCEPT ![e] = Found(e, token).role]
  /\ mem' = MemoryAfterLookup(e, token) /\ tmp' = FileAfterLookup(e, token)
  /\ UNCHANGED <<row, gone, goneFile, cookie, up, wrote, change, standing, spent>>

\* authorize and POST /api/register, when an account refuses them.
Refuse(e, token) ==
  /\ Source(e, token) \in {"file", "cookie"}
  /\ mem' = MemoryAfterLookup(e, token) /\ tmp' = FileAfterLookup(e, token)
  /\ UNCHANGED <<row, gone, goneFile, cookie, up, wrote, signedIn, change, standing, spent>>

\* registerUser.  The row is created unless there is one already.
Register(e, token) ==
  /\ Request
  /\ Source(e, token) = "nowhere"
  /\ gone' = gone \ {e} /\ goneFile' = gone'
  /\ row' = IF up /\ row[e] = NoAccount THEN [row EXCEPT ![e] = Fresh("user")] ELSE row
  /\ mem' = [mem EXCEPT ![e] = Fresh("user")]
  /\ tmp' = [tmp EXCEPT ![e] = Fresh("user")]
  /\ cookie' = cookie \cup {e}
  /\ standing' = [standing EXCEPT ![e] = "free"]
  /\ UNCHANGED <<up, wrote, signedIn, change>>

\* POST /api/emails as far as accounts go: sender and recipient are looked up
\* when the database does not know them, and the sender then gets a row, without
\* a password.  The mail itself may not be stored.
SendMail(e, to) ==
  /\ Request
  /\ signedIn[e] # "none"
  /\ row' = IF up /\ row[e] = NoAccount
            THEN [row EXCEPT ![e] = TokenAccount] ELSE row
  /\ mem' = [x \in Emails |->
       IF x \in {e, to} /\ ~(up /\ row[x] # NoAccount) THEN MemoryAfterLookup(x, FALSE)[x]
       ELSE mem[x]]
  /\ wrote' \in IF up THEN {wrote, wrote \cup {e}} ELSE {wrote}
  /\ UNCHANGED <<tmp, gone, goneFile, cookie, up, signedIn, change, standing>>

-----------------------------------------------------------------------------
(* Requests of administrators *)

IsAdmin(a) == signedIn[a] = "admin"

MayChange(a, e, field, value) ==
  e \in {a, Master} => <<field, value>> \in {<<"role", "admin">>, <<"status", "active">>}

\* updateUserStatus and updateUserRole ask the database,
AskChange(a, e, field, value) ==
  /\ Request
  /\ IsAdmin(a) /\ change[a] = NoChange
  /\ e \notin gone /\ MayChange(a, e, field, value)
  /\ change' = [change EXCEPT ![a] =
       [phase |-> "asked", email |-> e, field |-> field, value |-> value,
        record |-> IF RowAnswers(e) THEN row[e] ELSE NoAccount]]
  /\ UNCHANGED <<stores, up, wrote, signedIn, standing>>

Changed(c, record) == [record EXCEPT ![c.field] = c.value]

\* put the whole changed record in memory and file,
ApplyChange(a) ==
  LET c == change[a]
      place == Elsewhere(c.email, FALSE)
      new == Changed(c, IF c.record # NoAccount THEN c.record ELSE AccountAt(place, c.email))
      found == c.record # NoAccount \/ place # "nowhere"
  IN  /\ c.phase = "asked"
      /\ change' = [change EXCEPT ![a] =
           IF found THEN [phase |-> "applied", email |-> c.email, field |-> c.field,
                          value |-> c.value, record |-> new]
           ELSE NoChange]
      /\ mem' = IF found THEN [mem EXCEPT ![c.email] = new] ELSE mem
      /\ tmp' = IF found THEN [tmp EXCEPT ![c.email] = new] ELSE tmp
      /\ UNCHANGED <<row, gone, goneFile, cookie, up, wrote, signedIn, standing, spent>>

\* Mutant: the row is overwritten with the record.
RowChangedWhole(c, record) == [c.record EXCEPT !.hash = record.hash]

RowChanged(c, record) == Changed(c, record)

HasRow(e) == up /\ row[e] # NoAccount

\* and the field in the row.
StoreChange(a) ==
  LET c == change[a]
      stored == HasRow(c.email)
  IN  /\ c.phase = "applied"
      /\ row' = IF stored THEN [row EXCEPT ![c.email] = RowChanged(c, @)] ELSE row
      /\ change' = [change EXCEPT ![a] = NoChange]
      /\ standing' =
           IF c.field = "role" \/ standing[c.email] = "deleted" THEN standing
           ELSE [standing EXCEPT ![c.email] =
                   CASE c.value = "active" -> "free"
                     [] c.value = "suspended" ->
                          IF stored /\ row[c.email].hash THEN "suspended" ELSE "suspended here"]
      /\ UNCHANGED <<mem, tmp, gone, goneFile, cookie, up, wrote, signedIn, spent>>

\* Rows are deleted together or, when one of them has mail, not at all.
RowsWithout(emails) ==
  IF up /\ emails \cap wrote = {}
  THEN [e \in Emails |-> IF e \in emails THEN NoAccount ELSE row[e]] ELSE row

Without(store, emails) == [e \in Emails |-> IF e \in emails THEN NoAccount ELSE store[e]]

Decided(emails, verdict) ==
  [e \in Emails |-> IF e \in emails THEN verdict ELSE standing[e]]

DeleteUser(a, e) ==
  /\ Request /\ IsAdmin(a)
  /\ gone' = gone \cup {e} /\ goneFile' = gone'
  /\ mem' = Without(mem, {e}) /\ tmp' = Without(tmp, {e})
  /\ row' = RowsWithout({e} \cap {x \in Emails : row[x] # NoAccount})
  /\ standing' = Decided({e}, "deleted")
  /\ UNCHANGED <<cookie, up, wrote, signedIn, change>>

\* The accounts that listAllUsers shows.
Listed ==
  {e \in Emails \ gone :
     \/ e \in DOMAIN Builtin \/ mem[e] # NoAccount \/ tmp[e] # NoAccount
     \/ up /\ row[e] # NoAccount}

\* resetAllLoginCredentials; only the acting administrator's row is spared.
ResetAll(a, purge) ==
  LET spared == IF purge THEN {} ELSE {a, Master}
      victims == (Listed \ spared) \cup (IF purge THEN DOMAIN Builtin ELSE {})
      rows == {x \in Emails : row[x] # NoAccount} \ (IF purge THEN {} ELSE {a})
  IN  /\ Request /\ IsAdmin(a)
      /\ gone' = gone \cup victims /\ goneFile' = gone'
      /\ mem' = Without(mem, victims)
      /\ tmp' = Without(tmp, Emails)
      /\ row' = RowsWithout(rows)
      /\ standing' = Decided(victims, "deleted")
      /\ UNCHANGED <<cookie, up, wrote, signedIn, change>>

\* restoreAllDefaultUsers gives every deleted account back, built in or not.
RestoreDefaults(a) ==
  /\ Request /\ IsAdmin(a)
  /\ gone' = {} /\ goneFile' = {}
  /\ mem' = [e \in Emails |-> IF e \in DOMAIN Builtin THEN BuiltinAccount(e) ELSE mem[e]]
  /\ standing' = Decided(gone \cup DOMAIN Builtin, "free")
  /\ UNCHANGED <<row, tmp, cookie, up, wrote, signedIn, change>>

-----------------------------------------------------------------------------
(* Troubles *)

Trouble ==
  /\ spent.troubles < MaxTroubles
  /\ spent' = [spent EXCEPT !.troubles = @ + 1]

Restart ==
  /\ Trouble
  /\ gone' = DeletedAtStart
  /\ mem' = MemoryAtStart(DeletedAtStart)
  /\ change' = [e \in Emails |-> NoChange]
  /\ UNCHANGED <<row, tmp, goneFile, cookie, up, wrote, signedIn, standing>>

DatabaseFails == up /\ Trouble /\ up' = FALSE
  /\ UNCHANGED <<stores, wrote, signedIn, change, standing>>

DatabaseReturns == ~up /\ up' = TRUE
  /\ UNCHANGED <<stores, wrote, signedIn, change, standing, spent>>

UserNext ==
  \/ \E e \in Emails, token \in BOOLEAN :
       SignIn(e, token) \/ Refuse(e, token) \/ Register(e, token)
  \/ \E e, to \in Emails : SendMail(e, to)
  \/ \E a \in Emails :
       \/ \E e \in Emails :
            \/ \E v \in {"active", "suspended"} : AskChange(a, e, "status", v)
            \/ \E v \in {"admin", "user"} : AskChange(a, e, "role", v)
            \/ DeleteUser(a, e)
       \/ ApplyChange(a) \/ StoreChange(a)
       \/ \E purge \in BOOLEAN : ResetAll(a, purge)
       \/ RestoreDefaults(a)
  \/ Restart \/ DatabaseFails \/ DatabaseReturns

UserSpec == UserInit /\ [][UserNext]_userVars

-----------------------------------------------------------------------------
(* Properties *)

\* Type invariant; what is kept of an account is a whole record.
UserTypeOK ==
  /\ row \in [Emails -> Account \cup {NoAccount}]
  /\ mem \in [Emails -> Account \cup {NoAccount}]
  /\ tmp \in [Emails -> Account \cup {NoAccount}]
  /\ gone \subseteq Emails /\ goneFile = gone /\ cookie \subseteq Emails
  /\ change \in [Emails -> Change \cup {NoChange}]
  /\ standing \in [Emails -> {"free", "suspended", "suspended here", "deleted"}]

\* A deleted account does not sign in again through any of its four places,
\* whatever restarts, outages, half-made changes and mail kept its row, until
\* it is registered anew or all are restored (deletedUsers).
DeletedStaysOut ==
  \A e \in Emails, token \in BOOLEAN : standing[e] = "deleted" => ~CanSignIn(e, token)

\* A suspension that reached a row with a password holds while the database
\* answers, whatever changes of the same account were half made.
SuspensionHolds ==
  \A e \in Emails, token \in BOOLEAN :
    up /\ standing[e] = "suspended" => ~CanSignIn(e, token)

=============================================================================
