------------------------------- MODULE MailStore -------------------------------
(***************************************************************************)
(* Mail of the portal (frontend/src/app/api/emails, lib/emailStore.ts,     *)
(* lib/clientEmailStore.ts): a mail lives in the database, with a folder   *)
(* for each recipient, in the server's own list of mails (memory and file),*)
(* which has one folder for all, and in a cookie of browsers.  Changes go  *)
(* to the list and to the database; a listing merges them.                 *)
(*                                                                         *)
(* A database is configured; it may fail and come back.  A recycled        *)
(* container has lost the list, and a listing gives it back the mails of   *)
(* the cookie.  The showcase mails, search, paging and the marks for read  *)
(* and starred, which take the way of the folder, are left out; recipients *)
(* are users of the portal.  Bounds: the mails, MaxMoves changes of a      *)
(* folder or deletions, MaxMishaps failures and recyclings.                *)
(***************************************************************************)
EXTENDS Naturals, FiniteSets

CONSTANTS Users, Mails, Recipients, MaxMoves, MaxMishaps

ASSUME MailAssumption ==
  /\ \A to \in Recipients : to \subseteq Users
  /\ {MaxMoves, MaxMishaps} \subseteq Nat

Folders == {"inbox", "archive", "trash"}
Nowhere == "nowhere"
Unsent == [from |-> Nowhere, to |-> {}, draft |-> FALSE]

VARIABLES
  letter,    \* sender, recipients and draft mark of each mail
  inDb,      \* mails in the database
  folderOf,  \* EmailRecipient rows: per mail and recipient, the folder
  listed,    \* custom emails: folder of each mail in the server's list
  carried,   \* garuda_client_dispatched: per browser, mails and their folders
  online,    \* the database answers
  filed,     \* history: per mail and user, where it was last put while online
  used       \* changes and mishaps so far

mailVars == <<letter, inDb, folderOf, listed, carried, online, filed, used>>

NoFolders == [u \in Users |-> Nowhere]
NoMails == [m \in Mails |-> Nowhere]

MailInit ==
  /\ letter = [m \in Mails |-> Unsent]
  /\ inDb = {}
  /\ folderOf = [m \in Mails |-> NoFolders] /\ filed = folderOf
  /\ listed = NoMails
  /\ carried = [u \in Users |-> NoMails]
  /\ online = TRUE
  /\ used = [moves |-> 0, mishaps |-> 0]

-----------------------------------------------------------------------------
(* Listings *)

From(u, m) == letter[m].from = u
To(u, m) == u \in letter[m].to
Draft(m) == letter[m].draft

\* A mail of the list has a folder, and one for all of its recipients: the
\* inbox, until somebody puts it elsewhere.
RecipientFolder(m) == IF listed[m] \in Folders THEN listed[m] ELSE "inbox"
InList == {m \in Mails : listed[m] # Nowhere}

DatabaseListing(u, f) ==
  CASE f = "sent" -> {m \in inDb : From(u, m) /\ ~Draft(m)}
    [] f = "drafts" -> {m \in inDb : From(u, m) /\ Draft(m)}
    [] OTHER -> {m \in inDb : folderOf[m][u] = f}

\* What the list adds to a listing of the database.
ListAdds(u, f) ==
  {m \in InList :
     CASE f = "sent" -> ~Draft(m) /\ (From(u, m) \/ listed[m] = "sent")
       [] f = "drafts" -> Draft(m) /\ (From(u, m) \/ listed[m] = "drafts")
       [] f = "inbox" -> To(u, m) /\ (RecipientFolder(m) = "inbox" \/ From(u, m))
       [] OTHER -> FALSE}

\* getServerFallbackEmailsResponse, which serves all when the database does
\* not answer, or when there is nothing else to list.
ListAlone(u, f) ==
  {m \in InList :
     CASE f = "sent" -> IF From(u, m) THEN ~Draft(m) /\ listed[m] # "trash"
                        ELSE ~Draft(m) /\ listed[m] = "sent"
       [] f = "drafts" -> From(u, m) /\ Draft(m) /\ listed[m] # "trash"
       [] f = "inbox" -> /\ ~Draft(m) /\ listed[m] # "trash"
                         /\ IF To(u, m) THEN RecipientFolder(m) = "inbox"
                            ELSE ~From(u, m) /\ listed[m] = "inbox"
       [] OTHER -> listed[m] = f}

Listing(u, f) ==
  LET merged == DatabaseListing(u, f) \cup ListAdds(u, f)
  IN  IF online /\ merged # {} THEN merged ELSE ListAlone(u, f)

-----------------------------------------------------------------------------
(* Requests *)

\* The list after a listing was asked for by u: his cookie wins.
Synced(u) == [m \in Mails |-> IF carried[u][m] # Nowhere THEN carried[u][m] ELSE listed[m]]

\* GET /api/emails
List(u) ==
  /\ Synced(u) # listed
  /\ listed' = Synced(u)
  /\ UNCHANGED <<letter, inDb, folderOf, carried, online, filed, used>>

\* The mails that the sender's page wrote to its own storage, as they were.
OwnMails(u) ==
  [m \in Mails |-> IF ~From(u, m) THEN Nowhere ELSE IF Draft(m) THEN "drafts" ELSE "sent"]

\* POST /api/emails.  The response sets the cookie to the whole list, and the
\* page then to its own mails, each unless it grows too large.
Send(u, m, to, draft) ==
  LET place == IF draft THEN "drafts" ELSE "sent"
  IN  /\ letter[m] = Unsent
      /\ letter' = [letter EXCEPT ![m] = [from |-> u, to |-> to, draft |-> draft]]
      /\ inDb' = IF online THEN inDb \cup {m} ELSE inDb
      /\ folderOf' = [folderOf EXCEPT ![m] =
           [v \in Users |-> IF online /\ v \in to THEN "inbox" ELSE Nowhere]]
      /\ filed' = [filed EXCEPT ![m] = folderOf'[m]]
      /\ listed' = [listed EXCEPT ![m] = place]
      /\ carried' \in {carried, [carried EXCEPT ![u] = listed'], [carried EXCEPT ![u] = OwnMails(u)']}
      /\ UNCHANGED <<online, used>>

Changes ==
  /\ used.moves < MaxMoves
  /\ used' = [used EXCEPT !.moves = @ + 1]

MayTouch(u, m) == m \in InList => From(u, m) \/ To(u, m)

\* Mutant: every recipient's row is updated.
MovedForAll(u, m, f) ==
  [folderOf EXCEPT ![m] =
     [v \in Users |-> IF online /\ folderOf[m][v] # Nowhere THEN f ELSE folderOf[m][v]]]

Moved(u, m, f) ==
  IF online /\ folderOf[m][u] # Nowhere THEN [folderOf EXCEPT ![m][u] = f] ELSE folderOf

PutInList(m, f) == IF m \in InList THEN [listed EXCEPT ![m] = f] ELSE listed

\* PATCH /api/emails/[id]
Move(u, m, f) ==
  /\ Changes /\ MayTouch(u, m)
  /\ letter[m] # Unsent
  /\ listed' = PutInList(m, f)
  /\ folderOf' = Moved(u, m, f)
  /\ filed' = IF folderOf[m][u] # Nowhere /\ online THEN [filed EXCEPT ![m][u] = f] ELSE filed
  /\ UNCHANGED <<letter, inDb, carried, online>>

\* DELETE /api/emails/[id].  The sender's own draft goes altogether, when it is
\* deleted permanently or he has no row of it; rows of it go with it.
DraftGoes(u, m, permanent) ==
  online /\ m \in inDb /\ From(u, m) /\ Draft(m) /\ (permanent \/ folderOf[m][u] = Nowhere)

Delete(u, m, permanent) ==
  /\ Changes /\ MayTouch(u, m)
  /\ letter[m] # Unsent
  /\ listed' = IF permanent THEN [listed EXCEPT ![m] = Nowhere] ELSE PutInList(m, "trash")
  /\ inDb' = IF DraftGoes(u, m, permanent) THEN inDb \ {m} ELSE inDb
  /\ folderOf' = IF DraftGoes(u, m, permanent) THEN [folderOf EXCEPT ![m] = NoFolders]
                 ELSE Moved(u, m, IF permanent THEN Nowhere ELSE "trash")
  /\ filed' = IF folderOf[m][u] # Nowhere /\ online
              THEN [filed EXCEPT ![m][u] = IF permanent THEN Nowhere ELSE "trash"] ELSE filed
  /\ UNCHANGED <<letter, carried, online>>

-----------------------------------------------------------------------------
(* Mishaps *)

Mishap ==
  /\ used.mishaps < MaxMishaps
  /\ used' = [used EXCEPT !.mishaps = @ + 1]

Recycle ==
  /\ Mishap /\ listed' = NoMails
  /\ UNCHANGED <<letter, inDb, folderOf, carried, online, filed>>

GoOffline ==
  /\ online /\ Mishap /\ online' = FALSE
  /\ UNCHANGED <<letter, inDb, folderOf, listed, carried, filed>>

GoOnline ==
  /\ ~online /\ online' = TRUE
  /\ UNCHANGED <<letter, inDb, folderOf, listed, carried, filed, used>>

MailNext ==
  \/ \E u \in Users :
       \/ List(u)
       \/ \E m \in Mails :
            \/ \E to \in Recipients, draft \in BOOLEAN : Send(u, m, to, draft)
            \/ \E f \in Folders : Move(u, m, f)
            \/ \E permanent \in BOOLEAN : Delete(u, m, permanent)
  \/ Recycle \/ GoOffline \/ GoOnline

MailSpec == MailInit /\ [][MailNext]_mailVars

-----------------------------------------------------------------------------
(* Properties *)

\* A mail that reached the database is listed for its recipient in the folder
\* where he last put it, whatever the sender and the other recipients do with
\* it, through outages, recycling and stale cookies, as long as the database
\* answers and he has not deleted it.
MailStaysFiled ==
  online => \A m \in Mails, u \in Users :
    ~Draft(m) /\ filed[m][u] # Nowhere => m \in Listing(u, filed[m][u])

=============================================================================
