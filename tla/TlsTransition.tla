--------------------------- MODULE TlsTransition ---------------------------
(***************************************************************************)
(* The analysis of a session's TLS upgrade (app/transition): the detectors *)
(* over the events and the security facts of a session, and the decision   *)
(* table.  Evidence is kept only as far as the table asks for it;          *)
(* confidence scores are left out.                                         *)
(***************************************************************************)
EXTENDS Integers, Sequences, SequencesExt

AcceptEvents == {"STARTTLS_ACCEPTED", "STLS_ACCEPTED"}
RejectEvents == {"STARTTLS_REJECTED", "STLS_REJECTED"}
GreetingEvents == {"SMTP_GREETING", "IMAP_GREETING", "POP3_GREETING"}
HandshakeEvents == {"TLS_HANDSHAKE_STARTED", "ENCRYPTED_TRAFFIC"}
CommandEvents == {"EHLO", "HELO", "MAIL_FROM", "RCPT_TO", "DATA_START",
                  "AUTH_ATTEMPT", "QUIT", "SELECT", "LOGOUT"}

\* The place of the first event of one of the types, 0 if there is none.
FirstEvent(events, types) == SelectInSeq(events, LAMBDA e : e.type \in types)

Has(events, types) == FirstEvent(events, types) # 0

\* detect_implicit_tls: by mode, or a handshake before any greeting.
ImplicitTls(session, events) ==
  LET first == SelectInSeq(events, LAMBDA e : e.dir = "C2S")
  IN  \/ session.mode = "IMPLICIT_TLS"
      \/ /\ first # 0
         /\ events[first].type = "TLS_HANDSHAKE_STARTED"
         /\ ~\E i \in DOMAIN events :
               events[i].type \in GreetingEvents /\ events[i].time <= events[first].time

Advertised(session, events) ==
  session.sec.starttls_advertised \/ Has(events, {"STARTTLS_ADVERTISED"})

Requested(session, events) ==
  session.sec.starttls_requested \/ Has(events, {"STARTTLS_REQUESTED", "STLS_REQUESTED"})

\* detect_rejection runs after detect_acceptance and overrules it.
Accepted(session, events) ==
  /\ session.sec.starttls_accepted \/ Has(events, AcceptEvents)
  /\ ~(session.sec.starttls_rejected \/ Has(events, RejectEvents))

\* A mutant: an accepted request is taken for a handshake.
HandshakeAssumed(session, events) ==
  session.sec.starttls_accepted \/ Has(events, HandshakeEvents)

HandshakeObserved(session, events) ==
  session.sec.tls_started \/ Has(events, HandshakeEvents)

FirstAuth(events) == FirstEvent(events, {"AUTH_ATTEMPT"})

\* detect_authentication: "none", "before" or "after" TLS.
AuthTiming(events) ==
  LET auth == FirstAuth(events)
      tls == FirstEvent(events, HandshakeEvents \cup {"IMPLICIT_TLS"})
  IN  CASE auth = 0 -> "none"
        [] auth # 0 /\ tls = 0 -> "before"
        [] auth # 0 /\ tls # 0 -> IF events[auth].time < events[tls].time THEN "before" ELSE "after"

PlaintextAfterTls(events) ==
  LET tls == FirstEvent(events, AcceptEvents \cup {"TLS_HANDSHAKE_STARTED"})
  IN  /\ tls # 0
      /\ \E i \in DOMAIN events :
           /\ events[i].time > events[tls].time
           /\ events[i].type \in CommandEvents
           /\ events[i].dir = "C2S"

\* The decision table.  The first rule that matches wins.
DetermineStatus(session, events) ==
  LET adv == Advertised(session, events)
      req == Requested(session, events)
      acc == Accepted(session, events)
      hs  == HandshakeObserved(session, events)
      evidence == Has(events, AcceptEvents \cup RejectEvents) \/ FirstAuth(events) # 0
      rules == <<
        [if |-> PlaintextAfterTls(events), then |-> "PLAINTEXT_AFTER_TLS"],
        [if |-> req /\ ~acc, then |-> "STARTTLS_REJECTED"],
        [if |-> req /\ acc /\ hs, then |-> "STARTTLS_SUCCESS"],
        [if |-> req /\ acc /\ ~hs, then |-> "STARTTLS_ACCEPTED_NO_HANDSHAKE"],
        [if |-> adv /\ ~req, then |-> "STARTTLS_AVAILABLE_NOT_USED"],
        [if |-> ~adv /\ ~req /\ ~hs /\ ~evidence, then |-> "INCOMPLETE_CAPTURE"],
        [if |-> ~adv /\ ~req /\ ~hs, then |-> "PLAINTEXT_SESSION"],
        [if |-> hs /\ ~req, then |-> "STARTTLS_NOT_OBSERVED"],
        [if |-> TRUE, then |-> "UNKNOWN"] >>
  IN  rules[SelectInSeq(rules, LAMBDA r : r.if)].then

Analysis(session, events) ==
  LET status == IF ImplicitTls(session, events) THEN "IMPLICIT_TLS"
                ELSE DetermineStatus(session, events)
      mode == CASE status = "IMPLICIT_TLS" -> "IMPLICIT_TLS"
                [] status \in {"PLAINTEXT_SESSION", "STARTTLS_NOT_OBSERVED"} -> "PLAINTEXT"
                [] OTHER -> "STARTTLS"
  IN  [status |-> status, mode |-> mode, auth |-> AuthTiming(events)]

NoResult == [status |-> "UNKNOWN", mode |-> "UNKNOWN", auth |-> "none"]
=============================================================================
