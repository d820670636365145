------------------------------- MODULE MCPortal -------------------------------
(***************************************************************************)
(* Small instances of the mail portal for TLC: accounts, mail, keys.  They *)
(* share no variable within one request, so a behaviour follows one of     *)
(* them, chosen at the start from Foci, and the others stay as they begin. *)
(***************************************************************************)
EXTENDS UserStore, MailStore, KeyStore, TLC

MCEmails == {"admin", "bob", "newcomer"}
MCBuiltin == ("admin" :> "admin") @@ ("bob" :> "user")

CONSTANTS ana, ben, m1, m2, kim, lee

MCUsers == {ana, ben}
MCMails == {m1, m2}
MCRecipients == {{ben}, {ana, ben}}
MCOwners == {kim, lee}
MCPrints == {"old", "new"}

\* The components that runs follow.
CONSTANT Foci
MCFoci == {"accounts", "mail", "keys"}
\* Mails are alike, and owners of keys.
MCSymmetry == Permutations(MCMails) \cup Permutations(MCOwners)

VARIABLE focus

MCVars == <<focus, userVars, mailVars, keyVars>>

MCInit == UserInit /\ MailInit /\ KeyInit /\ focus \in Foci

MCNext ==
  \/ focus = "accounts" /\ UserNext /\ UNCHANGED <<focus, mailVars, keyVars>>
  \/ focus = "mail" /\ MailNext /\ UNCHANGED <<focus, userVars, keyVars>>
  \/ focus = "keys" /\ KeyNext /\ UNCHANGED <<focus, userVars, mailVars>>

MCSpec == MCInit /\ [][MCNext]_MCVars
=============================================================================
