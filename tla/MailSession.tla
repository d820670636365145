---------------------------- MODULE MailSession ----------------------------
(***************************************************************************)
(* A captured mail conversation and the session that is reconstructed from *)
(* it: SessionManager.process_flow (app/sessions/manager.py) with the      *)
(* state machines of app/sessions/state_machine.py, and the analysis of    *)
(* the TLS upgrade (app/transition/analyzer.py).                           *)
(*                                                                         *)
(* The conversation itself is the environment: a client and a server that  *)
(* keep to their protocol, and a capture that may end at any moment.  The  *)
(* variable server records which line of the client each line answers, a   *)
(* fact the program does not know and the properties need.                 *)
(*                                                                         *)
(* Bounds: MaxCommands commands, MaxBody lines of message text.            *)
(***************************************************************************)
EXTENDS MailEvents, TlsTransition

CONSTANTS
  Protocols,
  Greeting,      \* protocol -> sequences of lines a server may open with
  Sends,         \* protocol -> commands of a client, with their lengths
  Answer,        \* protocol -> command -> sequences of lines that may answer it
  BodyText,      \* lines of message text, with their lengths
  MaxCommands,
  MaxBody

VARIABLES
  proto,
  client,     \* lines sent in the clear: text, end in the stream, part of a message?
  server,     \* lines received in the clear: line, the client line answered
  turn,       \* whose turn it is: "server", "client", "body", "hello", "over"
  hello,      \* the ClientHello: "none", "line" or "tail"
  stage,      \* "wire", "run", "analyze" or "done"
  events,     \* EmailSession.events, those not yet processed included
  processed,  \* how many of them the state machine has processed
  session,    \* EmailSession.state, .mode and .security
  result      \* TLSUpgradeResult

wire == <<proto, client, server, turn, hello>>
report == <<stage, events, processed, session, result>>
vars == <<wire, report>>

-----------------------------------------------------------------------------
(* The conversation.                                                       *)

Upgrade(p) == IF p = "POP3" THEN {"STLS"} ELSE {"STARTTLS"}

Granting(p) ==
  CASE p = "SMTP" -> {"220 ready"}
    [] p = "IMAP" -> {"OK TLS"}
    [] p = "POP3" -> {"+OK TLS"}

Refusing(p) ==
  CASE p = "SMTP" -> {"454"}
    [] p = "IMAP" -> {"NO TLS"}
    [] p = "POP3" -> {"-ERR TLS"}

Farewell == {"QUIT", "LOGOUT"}

\* What a server says at a time: it takes back an upgrade or ends a list of
\* capabilities in the same breath.
Dialogue(p, lines) ==
  /\ lines \in Seq(STRING) \ {<<>>}
  /\ \A k \in DOMAIN lines : lines[k] \in Refusing(p) => k = 1
  /\ (p = "POP3" /\ \E k \in DOMAIN lines : lines[k] = "+OK CAPA") => Last(lines) = "."

\* The texts of a client that wait for an answer.
Questions(p) == {c.text : c \in Sends[p]} \cup (IF p = "SMTP" THEN {"."} ELSE {})

\* Both sides keep to their protocol: a server greets first, answers every
\* command, and consents to nothing but an upgrade; the shortest command has
\* four letters and a line end.
ASSUME MailAssumption ==
  /\ Protocols \subseteq {"SMTP", "IMAP", "POP3"}
  /\ \A p \in Protocols :
       /\ Sends[p] \subseteq [text : STRING, len : Nat \ 0 .. 5]
       /\ \A lines \in Greeting[p] : Dialogue(p, lines) /\ Greets(p, lines[1])
       /\ \A text \in Questions(p) : \A lines \in Answer[p][text] :
            /\ Dialogue(p, lines)
            /\ \A k \in DOMAIN lines : lines[k] \in Granting(p) => k = 1 /\ text \in Upgrade(p)
  /\ BodyText \subseteq [text : STRING, len : Nat]

Commands == {c \in DOMAIN client : ~client[c].body}

\* The server's turn: to greet, or to answer the last line of the client.
Asked == IF client = <<>> THEN "" ELSE Last(client).text
Answers == IF client = <<>> THEN Greeting[proto] ELSE Answer[proto][Asked]

Invites(lines) == proto = "SMTP" /\ lines[1] = "354"
Consents(lines) == Asked \in Upgrade(proto) /\ lines[1] \in Granting(proto)
Parts(lines) == Asked \in Farewell \/ \E k \in DOMAIN lines : lines[k] \in {"421", "* BYE"}

ServerSpeaks ==
  /\ stage = "wire" /\ turn = "server"
  /\ \E lines \in Answers :
       /\ server' = server \o [i \in DOMAIN lines |-> [line |-> lines[i], to |-> Len(client)]]
       /\ turn' = CASE Invites(lines) -> "body"
                    [] Consents(lines) -> "hello"
                    [] Parts(lines) /\ ~Invites(lines) /\ ~Consents(lines) -> "over"
                    [] OTHER -> "client"
  /\ UNCHANGED <<proto, client, hello, report>>

\* A client greets before anything else, and only sends a message it announced.
MaySend(text) ==
  /\ (proto = "SMTP" /\ text \notin {"EHLO", "HELO", "QUIT"}) =>
       \E c \in DOMAIN client : client[c].text \in {"EHLO", "HELO"}
  /\ text = "DATA" => \E s \in DOMAIN server :
       server[s].line = "250" /\ server[s].to > 0 /\ client[server[s].to].text = "MAIL"

\* The next line of the client, which ends where all before it end and it is added.
Line(text, len, body) == [text |-> text, end |-> Offset(client) + len, body |-> body]

ClientSends ==
  /\ stage = "wire" /\ turn = "client"
  /\ Cardinality(Commands) < MaxCommands
  /\ \E cmd \in Sends[proto] :
       /\ MaySend(cmd.text)
       /\ client' = Append(client, Line(cmd.text, cmd.len, FALSE))
  /\ turn' = "server"
  /\ UNCHANGED <<proto, server, hello, report>>

ClientSendsText ==
  /\ stage = "wire" /\ turn = "body"
  /\ Cardinality(DOMAIN client \ Commands) < MaxBody
  /\ \E l \in BodyText : client' = Append(client, Line(l.text, l.len, TRUE))
  /\ UNCHANGED <<proto, server, turn, hello, report>>

ClientEndsText ==
  /\ stage = "wire" /\ turn = "body"
  /\ client' = Append(client, Line(".", 3, TRUE))
  /\ turn' = "server"
  /\ UNCHANGED <<proto, server, hello, report>>

\* TLS starts when the server has agreed to it, or at once on a port for it.
ClientHello ==
  /\ stage = "wire"
  /\ turn = "hello" \/ (turn = "server" /\ client = <<>> /\ server = <<>>)
  /\ hello' \in {"line", "tail"}
  /\ turn' = "over"
  /\ UNCHANGED <<proto, client, server, report>>

-----------------------------------------------------------------------------
(* The state machines: what moves a session, from which states, to where.  *)
(* Other events leave the state as it is.  No parser produces              *)
(* ENCRYPTED_TRAFFIC, and IMPLICIT_TLS does not reach a machine.           *)

SmtpStates == {"TCP_CONNECTED", "SMTP_GREETING", "EHLO_HELO", "CAPABILITY_RESPONSE",
  "STARTTLS_REQUESTED", "STARTTLS_ACCEPTED", "STARTTLS_REJECTED", "TLS_HANDSHAKE",
  "ENCRYPTED", "AUTHENTICATION", "AUTH_SUCCESS", "AUTH_FAILED", "MAIL_TRANSACTION",
  "DATA_TRANSFER", "CLOSED", "ERROR"}

ImapStates == {"TCP_CONNECTED", "IMAP_GREETING", "NON_AUTHENTICATED", "CAPABILITY_RECEIVED",
  "STARTTLS_REQUESTED", "STARTTLS_ACCEPTED", "STARTTLS_REJECTED", "TLS_HANDSHAKE",
  "ENCRYPTED", "AUTHENTICATION", "AUTHENTICATED", "SELECTED", "LOGOUT", "CLOSED", "ERROR"}

Pop3States == {"TCP_CONNECTED", "POP3_GREETING", "AUTHORIZATION", "STLS_REQUESTED",
  "STLS_ACCEPTED", "STLS_REJECTED", "TLS_HANDSHAKE", "ENCRYPTED", "AUTHENTICATION",
  "TRANSACTION", "UPDATE", "CLOSED", "ERROR"}

Move(on, from, to) == [on |-> on, from |-> from, to |-> to]

\* A mutant: an error moves a closed session, too.
SmtpMovesErrorLast == {
  Move({"EHLO", "HELO"}, {"TCP_CONNECTED"}, "EHLO_HELO"),
  Move({"QUIT"}, SmtpStates, "CLOSED"),
  Move({"SERVER_ERROR"}, SmtpStates, "ERROR")}

SmtpMoves == {
  Move({"SMTP_GREETING"}, {"TCP_CONNECTED"}, "SMTP_GREETING"),
  Move({"EHLO", "HELO"}, {"SMTP_GREETING", "TCP_CONNECTED"}, "EHLO_HELO"),
  Move({"CAPABILITY_RESPONSE"}, {"EHLO_HELO"}, "CAPABILITY_RESPONSE"),
  Move({"STARTTLS_REQUESTED"}, {"CAPABILITY_RESPONSE", "EHLO_HELO"}, "STARTTLS_REQUESTED"),
  Move({"STARTTLS_ACCEPTED"}, {"STARTTLS_REQUESTED"}, "STARTTLS_ACCEPTED"),
  Move({"STARTTLS_REJECTED"}, {"STARTTLS_REQUESTED"}, "STARTTLS_REJECTED"),
  Move({"TLS_HANDSHAKE_STARTED"},
       {"STARTTLS_ACCEPTED", "STARTTLS_REQUESTED", "TCP_CONNECTED"}, "TLS_HANDSHAKE"),
  Move({"ENCRYPTED_TRAFFIC"}, {"TLS_HANDSHAKE"}, "ENCRYPTED"),
  Move({"IMPLICIT_TLS"}, SmtpStates, "ENCRYPTED"),
  Move({"AUTH_ATTEMPT"}, {"CAPABILITY_RESPONSE", "EHLO_HELO", "ENCRYPTED", "TLS_HANDSHAKE",
       "STARTTLS_REJECTED"}, "AUTHENTICATION"),
  Move({"AUTH_SUCCESS"}, {"AUTHENTICATION"}, "AUTH_SUCCESS"),
  Move({"AUTH_FAILED"}, {"AUTHENTICATION"}, "AUTH_FAILED"),
  Move({"MAIL_FROM"}, {"AUTH_SUCCESS", "CAPABILITY_RESPONSE", "EHLO_HELO", "ENCRYPTED",
       "MAIL_TRANSACTION"}, "MAIL_TRANSACTION"),
  Move({"DATA_START"}, {"MAIL_TRANSACTION"}, "DATA_TRANSFER"),
  Move({"DATA_ACCEPTED"}, {"DATA_TRANSFER"}, "MAIL_TRANSACTION"),
  Move({"QUIT", "CONNECTION_LOST"}, SmtpStates, "CLOSED"),
  Move({"RSET"}, {"MAIL_TRANSACTION", "DATA_TRANSFER", "AUTH_SUCCESS", "AUTH_FAILED"},
       "CAPABILITY_RESPONSE"),
  Move({"SERVER_ERROR"}, SmtpStates \ {"CLOSED"}, "ERROR")}

ImapMoves == {
  Move({"IMAP_GREETING"}, {"TCP_CONNECTED"}, "IMAP_GREETING"),
  Move({"CAPABILITY_RESPONSE"}, {"IMAP_GREETING", "TCP_CONNECTED"}, "NON_AUTHENTICATED"),
  Move({"STARTTLS_REQUESTED"}, {"NON_AUTHENTICATED", "IMAP_GREETING"}, "STARTTLS_REQUESTED"),
  Move({"STARTTLS_ACCEPTED"}, {"STARTTLS_REQUESTED"}, "STARTTLS_ACCEPTED"),
  Move({"STARTTLS_REJECTED"}, {"STARTTLS_REQUESTED"}, "STARTTLS_REJECTED"),
  Move({"TLS_HANDSHAKE_STARTED"}, {"STARTTLS_ACCEPTED", "TCP_CONNECTED"}, "TLS_HANDSHAKE"),
  Move({"ENCRYPTED_TRAFFIC"}, {"TLS_HANDSHAKE"}, "ENCRYPTED"),
  Move({"IMPLICIT_TLS"}, ImapStates, "ENCRYPTED"),
  Move({"AUTH_ATTEMPT"}, {"NON_AUTHENTICATED", "IMAP_GREETING", "ENCRYPTED", "TLS_HANDSHAKE",
       "STARTTLS_REJECTED"}, "AUTHENTICATION"),
  Move({"AUTH_SUCCESS"}, {"AUTHENTICATION"}, "AUTHENTICATED"),
  Move({"AUTH_FAILED"}, {"AUTHENTICATION"}, "NON_AUTHENTICATED"),
  Move({"SELECT"}, {"AUTHENTICATED"}, "SELECTED"),
  Move({"LOGOUT"}, ImapStates, "LOGOUT"),
  Move({"QUIT", "CONNECTION_LOST"}, ImapStates, "CLOSED"),
  Move({"SERVER_ERROR"}, ImapStates \ {"CLOSED"}, "ERROR")}

Pop3Moves == {
  Move({"POP3_GREETING"}, {"TCP_CONNECTED"}, "POP3_GREETING"),
  Move({"CAPABILITY_RESPONSE"}, {"POP3_GREETING", "TCP_CONNECTED"}, "AUTHORIZATION"),
  Move({"STLS_REQUESTED"}, {"AUTHORIZATION", "POP3_GREETING"}, "STLS_REQUESTED"),
  Move({"STLS_ACCEPTED"}, {"STLS_REQUESTED"}, "STLS_ACCEPTED"),
  Move({"STLS_REJECTED"}, {"STLS_REQUESTED"}, "STLS_REJECTED"),
  Move({"TLS_HANDSHAKE_STARTED"}, {"STLS_ACCEPTED", "TCP_CONNECTED"}, "TLS_HANDSHAKE"),
  Move({"ENCRYPTED_TRAFFIC"}, {"TLS_HANDSHAKE"}, "ENCRYPTED"),
  Move({"IMPLICIT_TLS"}, Pop3States, "ENCRYPTED"),
  Move({"AUTH_ATTEMPT"}, {"AUTHORIZATION", "POP3_GREETING", "ENCRYPTED", "TLS_HANDSHAKE",
       "STLS_REJECTED"}, "AUTHENTICATION"),
  Move({"AUTH_SUCCESS"}, {"AUTHENTICATION"}, "TRANSACTION"),
  Move({"AUTH_FAILED"}, {"AUTHENTICATION"}, "AUTHORIZATION"),
  Move({"QUIT"}, {"TRANSACTION"}, "UPDATE"),
  Move({"QUIT"}, Pop3States \ {"TRANSACTION"}, "CLOSED"),
  Move({"CONNECTION_LOST"}, Pop3States, "CLOSED"),
  Move({"SERVER_ERROR"}, Pop3States \ {"CLOSED"}, "ERROR")}

Moves ==
  CASE proto = "SMTP" -> SmtpMoves
    [] proto = "IMAP" -> ImapMoves
    [] proto = "POP3" -> Pop3Moves

NextState(state, type) ==
  LET moves == {m \in Moves : type \in m.on /\ state \in m.from}
  IN  IF moves = {} THEN state ELSE (CHOOSE m \in moves : TRUE).to

-----------------------------------------------------------------------------
(* process_flow and analyze.                                               *)

NewSession == [state |-> "TCP_CONNECTED", mode |-> "PLAINTEXT",
  sec |-> [starttls_advertised |-> FALSE, starttls_requested |-> FALSE,
           starttls_accepted |-> FALSE, starttls_rejected |-> FALSE, tls_started |-> FALSE,
           authentication_attempted |-> FALSE, authentication_before_tls |-> FALSE,
           data_started |-> FALSE]]

Init ==
  /\ proto \in Protocols
  /\ client = <<>> /\ server = <<>>
  /\ turn = "server" /\ hello = "none"
  /\ stage = "wire"
  /\ events = <<>> /\ processed = 0
  /\ session = NewSession
  /\ result = NoResult

\* The client's stream starts with a ClientHello: no stream is parsed.
ImplicitFlow ==
  /\ stage = "wire" /\ hello # "none" /\ client = <<>>
  /\ stage' = "analyze"
  /\ events' = <<Event("IMPLICIT_TLS", "C2S", 0, 1)>>
  /\ processed' = 1
  /\ session' = [NewSession EXCEPT !.state = "ENCRYPTED", !.mode = "IMPLICIT_TLS",
                                   !.sec.tls_started = TRUE]
  /\ UNCHANGED <<wire, result>>

\* The capture ends here, whatever the two sides were about to say.
ParseFlow ==
  /\ stage = "wire" /\ ~(hello # "none" /\ client = <<>>)
  /\ \E rounding \in IF hello = "tail" THEN {-1, 0, 1} ELSE {0} :
       events' = ParseStreams(proto, client, [s \in DOMAIN server |-> server[s].line],
                              hello, rounding)
  /\ stage' = IF events' = <<>> THEN "analyze" ELSE "run"
  /\ UNCHANGED <<wire, processed, session, result>>

\* A mutant: authentication counts as protected once STARTTLS was requested.
SecurityAfterRequest(sec, type) ==
  [sec EXCEPT
    !.starttls_requested = @ \/ type \in {"STARTTLS_REQUESTED", "STLS_REQUESTED"},
    !.authentication_before_tls = @ \/ (type = "AUTH_ATTEMPT" /\ ~sec.starttls_requested)]

\* What each event says of the connection's security, whatever the state.
SecurityAfter(sec, type) ==
  [sec EXCEPT
    !.starttls_advertised = @ \/ type = "STARTTLS_ADVERTISED",
    !.starttls_requested = @ \/ type \in {"STARTTLS_REQUESTED", "STLS_REQUESTED"},
    !.starttls_accepted = @ \/ type \in AcceptEvents,
    !.starttls_rejected = @ \/ type \in RejectEvents,
    !.tls_started = @ \/ type \in {"TLS_HANDSHAKE_STARTED", "IMPLICIT_TLS"},
    !.authentication_attempted = @ \/ type = "AUTH_ATTEMPT",
    !.authentication_before_tls = @ \/ (type = "AUTH_ATTEMPT" /\ ~sec.tls_started),
    !.data_started = @ \/ type = "DATA_START"]

ModeAfter(mode, type) ==
  CASE type \in HandshakeEvents -> "TLS"
    [] type = "IMPLICIT_TLS" -> "IMPLICIT_TLS"
    [] OTHER -> mode

ProcessEvent ==
  /\ stage = "run"
  /\ LET type == events[processed + 1].type
     IN  session' = [state |-> NextState(session.state, type),
                     mode |-> ModeAfter(session.mode, type),
                     sec |-> SecurityAfter(session.sec, type)]
  /\ processed' = processed + 1
  /\ stage' = IF processed' = Len(events) THEN "analyze" ELSE "run"
  /\ UNCHANGED <<wire, events, result>>

Analyze ==
  /\ stage = "analyze"
  /\ result' = Analysis(session, events)
  /\ stage' = "done"
  /\ UNCHANGED <<wire, events, processed, session>>

Next ==
  \/ ServerSpeaks \/ ClientSends \/ ClientSendsText \/ ClientEndsText \/ ClientHello
  \/ ImplicitFlow \/ ParseFlow \/ ProcessEvent \/ Analyze

Spec == Init /\ [][Next]_vars
=============================================================================
