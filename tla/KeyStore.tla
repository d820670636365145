-------------------------------- MODULE KeyStore --------------------------------
(***************************************************************************)
(* The public keys of the portal's users and the trust they put in each    *)
(* other's (frontend/src/lib/keyStore.ts and the routes under api/keys).   *)
(* Both are in memory, and a restart forgets them.  revokePublicKey has no *)
(* caller, and the audit log is left out.  Bound: MaxVersion rotations.    *)
(***************************************************************************)
EXTENDS Naturals

CONSTANTS Owners, Prints, MaxVersion

Unknown == "UNKNOWN"

ASSUME KeyAssumption == {Unknown, "none"} \cap Prints = {} /\ MaxVersion \in Nat

VARIABLES
  key,       \* keyRegistry: fingerprint and version
  trust,     \* trustStore, by owner and peer
  attested   \* history: the key that an owner last called verified

keyVars == <<key, trust, attested>>

NoTrust == [print |-> "none", verified |-> FALSE, flag |-> FALSE]
NoTrusts == [o \in Owners |-> [p \in Owners |-> NoTrust]]

KeyInit ==
  /\ key = [u \in Owners |-> [print |-> Unknown, version |-> 0]]
  /\ trust = NoTrusts
  /\ attested = [o \in Owners |-> [p \in Owners |-> Unknown]]

Registered(u) == key[u].version > 0

\* registerPublicKey: a changed key flags those who trusted another.
Flagged(u, print) ==
  [o \in Owners |-> [trust[o] EXCEPT ![u].flag =
     @ \/ (trust[o][u].print # "none" /\ trust[o][u].print # print)]]

RegisterPublicKey(u, print) ==
  /\ key[u].version < MaxVersion
  /\ key' = [key EXCEPT ![u] = [print |-> print, version |-> @.version + 1]]
  /\ trust' = IF Registered(u) /\ key[u].print # print THEN Flagged(u, print) ELSE trust
  /\ UNCHANGED attested

\* setPeerTrust: of the key that is there now, or of none.
SetPeerTrust(o, p, verified) ==
  /\ trust' = [trust EXCEPT ![o][p] =
       [print |-> key[p].print, verified |-> verified, flag |-> FALSE]]
  /\ attested' = [attested EXCEPT ![o][p] = IF verified THEN key[p].print ELSE Unknown]
  /\ UNCHANGED key

Forget ==
  /\ key' = [u \in Owners |-> [print |-> Unknown, version |-> 0]]
  /\ trust' = NoTrusts
  /\ attested' = [o \in Owners |-> [p \in Owners |-> Unknown]]

\* Mutant: the flag alone tells.
WarnsByFlag(o, p) == trust[o][p].flag

\* What getPeerTrust answers.
Warns(o, p) ==
  /\ trust[o][p] # NoTrust
  /\ trust[o][p].flag \/ (Registered(p) /\ key[p].print # trust[o][p].print)

KeyNext ==
  \/ \E u \in Owners, print \in Prints : RegisterPublicKey(u, print)
  \/ \E o, p \in Owners, verified \in BOOLEAN : SetPeerTrust(o, p, verified)
  \/ Forget

KeySpec == KeyInit /\ [][KeyNext]_keyVars

-----------------------------------------------------------------------------
(* Properties *)

\* A key shown as verified and without warning is the very key that the owner
\* last verified, through rotations, rotations back, keys trusted before they
\* existed and restarts.
VerifiedMeansSeen ==
  \A o, p \in Owners :
    trust[o][p].verified /\ ~Warns(o, p) /\ Registered(p) => attested[o][p] = key[p].print
=============================================================================
